---------------------- MODULE CoSimulationStatusProofs ----------------------
(***************************************************************************)
(* Proofs about CoSimulationStatus, for every set of clients and every     *)
(* number of grants and renewals.                                          *)
(***************************************************************************)
EXTENDS CoSimulationStatus, TLAPS

-----------------------------------------------------------------------------
\* What the actions record in last is an event.
LEMMA EventType ==
  ASSUME NEW id \in Client \cup {NoClient}
  PROVE  /\ Event("none", id, FALSE) \in Events
         /\ Event("start", id, TRUE) \in Events
         /\ Event("start", id, FALSE) \in Events
         /\ Event("stop", id, MayStop(id)) \in Events
         /\ Event("expire", id, TRUE) \in Events
<1>1. ASSUME NEW call \in {"none", "start", "stop", "expire"}, NEW ok \in BOOLEAN
      PROVE  Event(call, id, ok) \in Events
  BY DEF Event, Events
<1>2. MayStop(id) \in BOOLEAN
  BY DEF MayStop
<1>3. QED
  BY <1>1, <1>2, Zenon

\* One step of the status keeps every variable in its type.
LEMMA TypeStep ==
  ASSUME TypeOK, [Next]_vars
  PROVE  TypeOK'
<1> DEFINE
      CounterTypes ==
        armed \in 0 .. MaxLease /\ ready \in 0 .. MaxLease /\ lease \in 0 .. MaxLease
      OtherTypes ==
        /\ clientID \in Client \cup {NoClient}
        /\ running \in BOOLEAN /\ (running => clientID \in Client)
        /\ service \in {"running", "draining", "done"}
        /\ timed \in BOOLEAN
        /\ last \in Events
<1> SUFFICES CounterTypes' /\ OtherTypes'
  BY Zenon DEF TypeOK
<1> USE DEF TypeOK, AfterCancel, NewLease
<1>1. ASSUME NEW c \in Client, NEW finite \in BOOLEAN, Grant(c, finite)
      PROVE  CounterTypes' /\ OtherTypes'
  <2>1. CounterTypes'
    BY <1>1, MaxLeaseAssumption DEF Grant
  <2>2. OtherTypes'
    BY <1>1, EventType, Zenon DEF Grant
  <2>3. QED
    BY <2>1, <2>2
<1>2. ASSUME NEW c \in Client, NEW finite \in BOOLEAN, Extend(c, finite)
      PROVE  CounterTypes' /\ OtherTypes'
  <2>1. CounterTypes'
    BY <1>2, MaxLeaseAssumption DEF Extend
  <2>2. OtherTypes'
    BY <1>2, EventType, Zenon DEF Extend
  <2>3. QED
    BY <2>1, <2>2
<1>3. ASSUME NEW c \in Client, Refuse(c) PROVE CounterTypes' /\ OtherTypes'
  BY <1>3, EventType, Zenon DEF Refuse
<1>4. ASSUME NEW c \in Client, Stop(c) PROVE CounterTypes' /\ OtherTypes'
  <2>1. CounterTypes'
    BY <1>4, MaxLeaseAssumption DEF Stop
  <2>2. OtherTypes'
    BY <1>4, EventType, Zenon DEF Stop
  <2>3. QED
    BY <2>1, <2>2
<1>5. ASSUME ServiceThread \/ Destroy \/ Join
      PROVE  CounterTypes' /\ OtherTypes'
  <2>1. CounterTypes'
    <3>1. CASE DeadlinePasses
      BY <3>1, MaxLeaseAssumption DEF DeadlinePasses
    <3>2. CASE Timeout
      BY <3>2, MaxLeaseAssumption DEF Timeout
    <3>3. CASE Destroy
      BY <3>3, MaxLeaseAssumption DEF Destroy
    <3>4. CASE Join
      BY <3>4 DEF Join
    <3>5. QED
      BY <1>5, <3>1, <3>2, <3>3, <3>4, Zenon DEF ServiceThread
  <2>2. OtherTypes'
    <3>1. CASE Timeout
      <4>1. last' \in Events
        BY <3>1, EventType, Zenon DEF Timeout
      <4>2. running' \in BOOLEAN /\ (running' => clientID' \in Client)
        BY <3>1, Zenon DEF Timeout
      <4>3. UNCHANGED <<clientID, service, timed>>
        BY <3>1, Zenon DEF Timeout
      <4>4. QED
        BY <4>1, <4>2, <4>3, Zenon
    <3>2. CASE DeadlinePasses
      BY <3>2, Zenon DEF DeadlinePasses
    <3>3. CASE Destroy \/ Join
      <4>1. UNCHANGED <<clientID, running, timed, last>>
        BY <3>3, Zenon DEF Destroy, Join
      <4>2. service' \in {"draining", "done"}
        BY <3>3, Zenon DEF Destroy, Join
      <4>3. QED
        BY <4>1, <4>2, Zenon
    <3>4. QED
      BY <1>5, <3>1, <3>2, <3>3, Zenon DEF ServiceThread
  <2>3. QED
    BY <2>1, <2>2
<1>6. CASE UNCHANGED vars
  BY <1>6, Zenon DEF vars
<1>7. QED
  BY <1>1, <1>2, <1>3, <1>4, <1>5, <1>6 DEF Next, Start

\* Type correctness: GazeboServer.cpp:13-115 keeps every variable in its type.
THEOREM TypeCorrect == Spec => []TypeOK
<1> DEFINE
      CounterTypes ==
        armed \in 0 .. MaxLease /\ ready \in 0 .. MaxLease /\ lease \in 0 .. MaxLease
      OtherTypes ==
        /\ clientID \in Client \cup {NoClient}
        /\ running \in BOOLEAN /\ (running => clientID \in Client)
        /\ service \in {"running", "draining", "done"}
        /\ timed \in BOOLEAN
        /\ last \in Events
<1>1. Init => TypeOK
  <2>1. Init => CounterTypes
    BY MaxLeaseAssumption DEF Init
  <2>2. Init => OtherTypes
    BY EventType, Zenon DEF Init
  <2>3. QED
    BY <2>1, <2>2 DEF TypeOK
<1>2. QED
  BY <1>1, TypeStep, PTL DEF Spec

-----------------------------------------------------------------------------
\* What an armed or ready wait says of the lease.  Neither of the two checked
\* invariants is inductive alone: a renewal is ordered after every earlier wait
\* only because no wait is ahead of the lease counter.
WaitsBehindLease ==
  /\ armed <= lease /\ ready <= lease
  /\ FiniteLeaseHasDeadline
  /\ ArmedWaitIsLatest

LEMMA WaitsBehindLeaseInductive == Spec => []WaitsBehindLease
<1>1. Init => WaitsBehindLease
  BY DEF Init, WaitsBehindLease, FiniteLeaseHasDeadline, ArmedWaitIsLatest
<1>2. TypeOK /\ WaitsBehindLease /\ [Next]_vars => WaitsBehindLease'
  <2> SUFFICES ASSUME TypeOK, WaitsBehindLease, [Next]_vars
               PROVE  WaitsBehindLease'
    OBVIOUS
  <2> USE MaxLeaseAssumption
      DEF TypeOK, WaitsBehindLease, FiniteLeaseHasDeadline, ArmedWaitIsLatest,
          AfterCancel
  <2>1. ASSUME NEW c \in Client, NEW finite \in BOOLEAN, Start(c, finite)
        PROVE  WaitsBehindLease'
    <3>1. CASE Grant(c, finite)
      BY <2>1, <3>1 DEF Start, Grant, NewLease
    <3>2. CASE Extend(c, finite)
      BY <2>1, <3>2 DEF Start, Extend, NewLease
    <3>3. CASE Refuse(c)
      BY <2>1, <3>3 DEF Start, Refuse
    <3>4. QED
      BY <2>1, <3>1, <3>2, <3>3 DEF Start
  <2>2. ASSUME NEW c \in Client, Stop(c) PROVE WaitsBehindLease'
    BY <2>2 DEF Stop, MayStop
  <2>3. CASE DeadlinePasses
    BY <2>3 DEF DeadlinePasses
  <2>4. CASE Timeout
    BY <2>4 DEF Timeout
  <2>5. CASE Destroy
    BY <2>5 DEF Destroy
  <2>6. CASE Join
    BY <2>6 DEF Join
  <2>7. CASE UNCHANGED vars
    BY <2>7 DEF vars
  <2>8. QED
    BY <2>1, <2>2, <2>3, <2>4, <2>5, <2>6, <2>7 DEF Next, ServiceThread
<1>3. QED
  BY <1>1, <1>2, TypeCorrect, PTL DEF Spec

\* A finite lease always has a deadline under way (GazeboServer.cpp:44-60,
\* 78-90): no order of grants, renewals and stale handlers loses it.
THEOREM DeadlineNeverLost == Spec => []FiniteLeaseHasDeadline
<1>1. WaitsBehindLease => FiniteLeaseHasDeadline
  BY DEF WaitsBehindLease
<1>2. QED
  BY <1>1, WaitsBehindLeaseInductive, PTL

\* The armed wait is the one of the latest finite grant or renewal, and a
\* ready wait is older than it (GazeboServer.cpp:76-83).
THEOREM ArmedWaitBelongsToLease == Spec => []ArmedWaitIsLatest
<1>1. WaitsBehindLease => ArmedWaitIsLatest
  BY DEF WaitsBehindLease
<1>2. QED
  BY <1>1, WaitsBehindLeaseInductive, PTL

-----------------------------------------------------------------------------
\* A co-simulation never passes from client to client in one step, and ends
\* only by its own client's stop or by a deadline (GazeboServer.cpp:37-39, 75,
\* 99).
THEOREM LeaseIsNotStolen == Spec => LeaseNotStolen
<1> DEFINE Kept ==
      running => \/ running' /\ clientID' = clientID
                 \/ last' = Event("stop", clientID, TRUE)
                 \/ last'.call = "expire"
<1>1. ASSUME [Next]_vars PROVE [Kept]_vars
  <2>1. ASSUME NEW c \in Client, NEW finite \in BOOLEAN, Start(c, finite)
        PROVE  Kept
    BY <2>1 DEF Start, Grant, Extend, Refuse
  <2>2. ASSUME NEW c \in Client, Stop(c) PROVE Kept
    BY <2>2 DEF Stop, MayStop
  <2>3. ASSUME DeadlinePasses \/ Destroy \/ Join PROVE Kept
    BY <2>3 DEF DeadlinePasses, Destroy, Join
  <2>4. ASSUME Timeout PROVE Kept
    BY <2>4 DEF Timeout, Event
  <2>5. QED
    BY <1>1, <2>1, <2>2, <2>3, <2>4 DEF Next, ServiceThread
<1>2. QED
  BY <1>1, PTL DEF Spec, LeaseNotStolen

-----------------------------------------------------------------------------
\* When the service thread has something to do: the guards of DeadlinePasses and
\* Timeout.  Both change ready, so it is what ENABLED <<ServiceThread>>_vars says.
ServiceThreadReady == armed # 0 \/ ready # 0

\* Weak fairness of the service thread, with its guard written out.
ServiceThreadFairness == []<>~ServiceThreadReady \/ []<><<ServiceThread>>_vars

\* It is the fairness of FairSpec, once the guard enables the thread.
LEMMA ServiceThreadIsFair ==
  FairSpec /\ [](ServiceThreadReady => ENABLED <<ServiceThread>>_vars)
    => Spec /\ ServiceThreadFairness
BY PTL DEF FairSpec, ServiceThreadFairness

\* Lease n runs with a deadline.
Ticking(n) == lease = n /\ running /\ timed /\ service = "running"

\* It is over, or a wait is ready to end it.
LEMMA LeaseKeepsTicking ==
  ASSUME NEW n, TypeOK, WaitsBehindLease, Ticking(n), [Next]_vars
  PROVE  Ticking(n)' \/ (lease # n \/ ~running \/ service # "running")'
<1> USE DEF Ticking, TypeOK
<1>1. ASSUME NEW c \in Client, NEW finite \in BOOLEAN, Start(c, finite)
      PROVE  Ticking(n)' \/ (lease # n)'
  <2>1. CASE Extend(c, finite)
    BY <2>1, MaxLeaseAssumption DEF Extend, NewLease
  <2>2. CASE Refuse(c)
    BY <2>2 DEF Refuse
  <2>3. QED
    BY <1>1, <2>1, <2>2 DEF Start, Grant
<1>2. ASSUME NEW c \in Client, Stop(c)
      PROVE  Ticking(n)' \/ ~running'
  BY <1>2 DEF Stop
<1>3. CASE ServiceThread
  BY <1>3 DEF ServiceThread, DeadlinePasses, Timeout
<1>4. CASE Destroy \/ Join
  BY <1>4 DEF Destroy, Join
<1>5. CASE UNCHANGED vars
  BY <1>5 DEF vars
<1>6. QED
  BY <1>1, <1>2, <1>3, <1>4, <1>5 DEF Next

\* A wait that is ready stays so until its handler has run, or until the lease it
\* could end is over.
LEMMA ReadyWaitStays ==
  ASSUME NEW n, TypeOK, Ticking(n), ready # 0, [Next]_vars
  PROVE  (ready # 0 \/ lease # n \/ ~running \/ service # "running")'
<1> USE DEF Ticking, TypeOK
<1>1. ASSUME NEW c \in Client, NEW finite \in BOOLEAN, Start(c, finite)
      PROVE  ready' # 0 \/ lease' # n
  <2>1. CASE Extend(c, finite)
    BY <2>1, MaxLeaseAssumption DEF Extend, NewLease
  <2>2. CASE Refuse(c)
    BY <2>2 DEF Refuse
  <2>3. QED
    BY <1>1, <2>1, <2>2 DEF Start, Grant
<1>2. ASSUME NEW c \in Client, Stop(c)
      PROVE  ready' # 0 \/ ~running'
  BY <1>2 DEF Stop
<1>3. CASE ServiceThread
  BY <1>3 DEF ServiceThread, DeadlinePasses, Timeout
<1>4. CASE Destroy \/ Join
  BY <1>4 DEF Destroy, Join
<1>5. CASE UNCHANGED vars
  BY <1>5 DEF vars
<1>6. QED
  BY <1>1, <1>2, <1>3, <1>4, <1>5 DEF Next

\* A client that falls silent does not keep the simulator for ever: as long as the
\* service thread is scheduled, the deadline of a finite lease becomes ready and
\* its handler ends the lease (GazeboServer.cpp:44-60, 76-90, 103-115).
THEOREM LeasesEnd == Spec /\ ServiceThreadFairness => LeaseEnds
<1>1. ASSUME NEW n \in 1 .. MaxLease
      PROVE  Spec /\ ServiceThreadFairness =>
               ((lease = n /\ running /\ timed)
                  ~> (lease # n \/ ~running \/ service # "running"))
  <2> DEFINE Over == lease # n \/ ~running \/ service # "running"
             Due == Ticking(n) /\ ready # 0
  <2>1. lease = n /\ running /\ timed => Ticking(n) \/ Over
    BY DEF Ticking
  <2>2. WaitsBehindLease /\ Ticking(n) => ServiceThreadReady
    BY DEF WaitsBehindLease, FiniteLeaseHasDeadline, Ticking, ServiceThreadReady
  <2>3. TypeOK /\ WaitsBehindLease /\ Ticking(n) /\ [Next]_vars => Ticking(n)' \/ Over'
    BY LeaseKeepsTicking
  <2>4. TypeOK /\ WaitsBehindLease /\ Due /\ [Next]_vars => Due' \/ Over'
    BY LeaseKeepsTicking, ReadyWaitStays
  <2>5. Ticking(n) /\ ~Due /\ <<ServiceThread>>_vars => Due' \/ Over'
    BY DEF Ticking, ServiceThread, DeadlinePasses, Timeout
  <2>6. Due /\ <<ServiceThread>>_vars => Over'
    BY DEF Ticking, ServiceThread, DeadlinePasses, Timeout
  <2>7. Due => Ticking(n)
    OBVIOUS
  <2>8. QED
    BY <2>1, <2>2, <2>3, <2>4, <2>5, <2>6, <2>7, TypeCorrect, WaitsBehindLeaseInductive, PTL
       DEF Spec, ServiceThreadFairness
<1>2. QED
  BY <1>1 DEF LeaseEnds

-----------------------------------------------------------------------------
\* The refinement of Lease.  The mapped variables of Lease, by name.
Holder == IF running THEN clientID ELSE NoClient
Timed == running /\ timed
LateWait == Late(armed) \/ Late(ready)

\* A wait that is late after a step that makes, renews or ends a lease was under
\* way before it: it was late already or belonged to a finite lease.
LEMMA LateWaitsWereUnderWay ==
  ASSUME TypeOK
  PROVE  /\ \A c \in Client, finite \in BOOLEAN :
              Grant(c, finite) \/ Extend(c, finite) => (LateWait' => Timed \/ LateWait)
         /\ \A c \in Client : Stop(c) /\ MayStop(c) => (LateWait' => Timed \/ LateWait)
         /\ Timeout => (Timed \/ LateWait) /\ (LateWait' => Timed \/ LateWait)
         /\ Destroy => (LateWait' => LateWait)
         /\ DeadlinePasses \/ Join => LateWait' = LateWait
<1> USE DEF TypeOK, LateWait, Timed, Late, AfterCancel
<1>1. ASSUME NEW c \in Client, NEW finite \in BOOLEAN, Grant(c, finite), LateWait'
      PROVE  LateWait
  <2>1. ~running /\ running'
    BY <1>1 DEF Grant
  <2>2. CASE finite
    BY <1>1, <2>1, <2>2, MaxLeaseAssumption DEF Grant, NewLease
  <2>3. CASE ~finite
    BY <1>1, <2>1, <2>3, MaxLeaseAssumption DEF Grant, NewLease
  <2>4. QED
    BY <2>2, <2>3
<1>2. ASSUME NEW c \in Client, NEW finite \in BOOLEAN, Extend(c, finite), LateWait'
      PROVE  Timed \/ LateWait
  <2>1. running /\ running'
    BY <1>2 DEF Extend
  <2>2. CASE finite
    BY <1>2, <2>1, <2>2, MaxLeaseAssumption DEF Extend, NewLease
  <2>3. CASE ~finite
    BY <1>2, <2>1, <2>3, MaxLeaseAssumption DEF Extend, NewLease
  <2>4. QED
    BY <2>2, <2>3
<1>3. ASSUME NEW c \in Client, Stop(c), MayStop(c), LateWait'
      PROVE  Timed \/ LateWait
  BY <1>3, MaxLeaseAssumption DEF Stop
<1>4. ASSUME Timeout
      PROVE  (Timed \/ LateWait) /\ (LateWait' => Timed \/ LateWait)
  BY <1>4, MaxLeaseAssumption DEF Timeout
<1>5. ASSUME Destroy, LateWait' PROVE LateWait
  BY <1>5, MaxLeaseAssumption DEF Destroy
<1>6. ASSUME DeadlinePasses \/ Join PROVE LateWait' = LateWait
  BY <1>6, MaxLeaseAssumption DEF DeadlinePasses, Join
<1>7. QED
  BY <1>1, <1>2, <1>3, <1>4, <1>5, <1>6, Zenon

\* The lease may leave its deadline behind: Lease's LeaveDeadline, mapped.
LEMMA LeavesDeadline ==
  ASSUME LateWait' => Timed \/ LateWait
  PROVE  Promise!LeaveDeadline
<1>1. LateWait' \in {FALSE, Timed \/ LateWait}
  BY DEF LateWait, Timed, Late
<1>2. QED
  BY <1>1, Zenon DEF Promise!LeaveDeadline, LateWait, Timed, Late

\* The status keeps the promise of Lease with boost's timer and with an exact
\* one: only the holder renews or stops the lease, and a lease ends by itself only
\* if a finite deadline was set, its own or one that an earlier lease left behind
\* (GazeboServer.cpp:21-115).
THEOREM StatusImplementsLease == Spec => ImplementsLease
<1>1. Init => Promise!Init
  BY DEF Init, Promise!Init, Promise!Event, Event, Late
<1>2. TypeOK /\ [Next]_vars => [Promise!Next]_(Promise!vars)
  <2> SUFFICES ASSUME TypeOK, [Next]_vars
               PROVE  [Promise!Next]_(Promise!vars)
    OBVIOUS
  <2>1. ASSUME NEW c \in Client, NEW finite \in BOOLEAN, Start(c, finite)
        PROVE  Promise!Start(c, finite)
    <3>1. CASE Grant(c, finite)
      <4>1. Promise!LeaveDeadline
        BY <3>1, LateWaitsWereUnderWay, LeavesDeadline, Zenon
      <4>2. Promise!FreeFor(c) = TRUE
        BY <3>1 DEF Grant, Promise!FreeFor
      <4>3. running' /\ clientID' = c /\ timed' = finite /\ last' = Event("start", c, TRUE)
        BY <3>1 DEF Grant, NewLease
      <4>4. QED
        BY <4>1, <4>2, <4>3, Zenon DEF Promise!Start, Promise!Event, Event
    <3>2. CASE Extend(c, finite)
      <4>1. Promise!LeaveDeadline
        BY <3>2, LateWaitsWereUnderWay, LeavesDeadline, Zenon
      <4>2. Promise!FreeFor(c) = TRUE
        BY <3>2 DEF Extend, Promise!FreeFor
      <4>3. running' /\ clientID' = c /\ timed' = finite /\ last' = Event("start", c, TRUE)
        BY <3>2 DEF Extend, NewLease
      <4>4. QED
        BY <4>1, <4>2, <4>3, Zenon DEF Promise!Start, Promise!Event, Event
    <3>3. CASE Refuse(c)
      <4>1. Promise!FreeFor(c) = FALSE
        BY <3>3, NoClientAssumption DEF Refuse, Promise!FreeFor, TypeOK
      <4>2. QED
        BY <3>3, <4>1, Zenon DEF Refuse, Promise!Start, Promise!Event, Event, Late
    <3>4. QED
      BY <2>1, <3>1, <3>2, <3>3 DEF Start
  <2>2. ASSUME NEW c \in Client, Stop(c) PROVE Promise!Stop(c)
    <3>1. Promise!FreeFor(c) = MayStop(c)
      BY NoClientAssumption DEF Promise!FreeFor, MayStop, TypeOK
    <3>2. CASE MayStop(c)
      <4>1. Promise!LeaveDeadline
        BY <2>2, <3>2, LateWaitsWereUnderWay, LeavesDeadline, Zenon
      <4>2. ~running' /\ last' = Event("stop", c, MayStop(c))
        BY <2>2, <3>2 DEF Stop
      <4>3. QED
        BY <3>1, <3>2, <4>1, <4>2, Zenon DEF Promise!Stop, Promise!Event, Event
    <3>3. CASE ~MayStop(c)
      BY <2>2, <3>1, <3>3, Zenon DEF Stop, Promise!Stop, Promise!Event, Event, Late
    <3>4. QED
      BY <3>2, <3>3
  <2>3. ASSUME DeadlinePasses \/ Join PROVE UNCHANGED Promise!vars
    <3>1. LateWait' = LateWait
      BY <2>3, LateWaitsWereUnderWay, Zenon
    <3>2. UNCHANGED <<clientID, running, timed, last>>
      BY <2>3 DEF DeadlinePasses, Join
    <3>3. QED
      BY <3>1, <3>2, Zenon DEF Promise!vars, LateWait
  <2>4. ASSUME Destroy PROVE Promise!Forget \/ UNCHANGED Promise!vars
    <3>1. LateWait' => LateWait
      BY <2>4, LateWaitsWereUnderWay, Zenon
    <3>2. UNCHANGED <<clientID, running, timed, last>>
      BY <2>4 DEF Destroy
    <3>3. CASE LateWait' = LateWait
      BY <3>2, <3>3, Zenon DEF Promise!vars, LateWait
    <3>4. CASE LateWait' # LateWait
      <4>1. LateWait /\ LateWait' = FALSE
        BY <3>1, <3>4 DEF LateWait, Late
      <4>2. QED
        BY <3>2, <4>1, Zenon DEF Promise!Forget, LateWait
    <3>5. QED
      BY <3>3, <3>4
  <2>5. ASSUME Timeout PROVE Promise!Expire
    <3>1. Timed \/ LateWait
      BY <2>5, LateWaitsWereUnderWay, Zenon
    <3>2. Promise!LeaveDeadline
      BY <2>5, LateWaitsWereUnderWay, LeavesDeadline, Zenon
    <3>3. ~running' /\ last' = Event("expire", clientID, TRUE)
      BY <2>5 DEF Timeout
    <3>4. clientID \in Client \cup {NoClient}
      BY DEF TypeOK
    <3>5. QED
      BY <3>1, <3>2, <3>3, <3>4, Zenon
         DEF Promise!Expire, Promise!Event, Event, Timed, LateWait
  <2>6. ASSUME UNCHANGED vars PROVE UNCHANGED Promise!vars
    BY <2>6, Zenon DEF vars, Promise!vars, Late
  <2>7. QED
    BY <2>1, <2>2, <2>3, <2>4, <2>5, <2>6, Zenon
       DEF Next, ServiceThread, Promise!Next
<1>3. QED
  BY <1>1, <1>2, TypeCorrect, PTL
     DEF Spec, ImplementsLease, Promise!Spec

-----------------------------------------------------------------------------
\* With a timer whose cancel also revokes a ready wait, the only wait is the one of
\* the lease that runs: the fact that fails for boost's timer.
WaitsAreCurrent ==
  /\ armed # 0 => running /\ timed /\ ready = 0 /\ armed = lease
  /\ ready # 0 => running /\ timed /\ ready = lease

LEMMA WaitsAreCurrentInductive ==
  ASSUME CancelsQueued
  PROVE  Spec => []WaitsAreCurrent
<1>1. Init => WaitsAreCurrent
  BY DEF Init, WaitsAreCurrent
<1>2. TypeOK /\ WaitsAreCurrent /\ [Next]_vars => WaitsAreCurrent'
  <2> SUFFICES ASSUME TypeOK, WaitsAreCurrent, [Next]_vars
               PROVE  WaitsAreCurrent'
    OBVIOUS
  <2> USE CancelsQueued, MaxLeaseAssumption DEF TypeOK, WaitsAreCurrent, AfterCancel
  <2>1. ASSUME NEW c \in Client, NEW finite \in BOOLEAN, Start(c, finite)
        PROVE  WaitsAreCurrent'
    <3>1. CASE Grant(c, finite)
      BY <3>1 DEF Grant, NewLease
    <3>2. CASE Extend(c, finite)
      BY <3>2 DEF Extend, NewLease
    <3>3. CASE Refuse(c)
      BY <3>3 DEF Refuse
    <3>4. QED
      BY <2>1, <3>1, <3>2, <3>3 DEF Start
  <2>2. ASSUME NEW c \in Client, Stop(c) PROVE WaitsAreCurrent'
    BY <2>2 DEF Stop, MayStop
  <2>3. CASE DeadlinePasses
    BY <2>3 DEF DeadlinePasses
  <2>4. CASE Timeout
    BY <2>4 DEF Timeout
  <2>5. CASE Destroy
    BY <2>5 DEF Destroy
  <2>6. CASE Join
    BY <2>6 DEF Join
  <2>7. CASE UNCHANGED vars
    BY <2>7 DEF vars
  <2>8. QED
    BY <2>1, <2>2, <2>3, <2>4, <2>5, <2>6, <2>7 DEF Next, ServiceThread
<1>3. QED
  BY <1>1, <1>2, TypeCorrect, PTL DEF Spec

\* If cancelling the timer revoked a ready wait too, a deadline would end only the
\* lease it was set for, as GazeboServer.cpp:76 intends.  boost's timer does not,
\* and DeadlineEndsOnlyItsLease fails for it.
THEOREM ExactTimerEndsOnlyItsLease ==
  ASSUME CancelsQueued
  PROVE  Spec => DeadlineEndsOnlyItsLease
<1>1. WaitsAreCurrent => (ready # 0 => ready = lease)
  BY DEF WaitsAreCurrent
<1>2. ASSUME ready # 0 => ready = lease
      PROVE  [ready # 0 /\ running /\ ~running' /\ last'.call = "expire" => ready = lease]_vars
  BY <1>2, Zenon
<1>3. QED
  BY <1>1, <1>2, WaitsAreCurrentInductive, PTL DEF DeadlineEndsOnlyItsLease

=============================================================================
