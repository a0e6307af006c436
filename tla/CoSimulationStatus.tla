------------------------- MODULE CoSimulationStatus -------------------------
(***************************************************************************)
(* GazeboServer::CoSimulationStatus: which client the Gazebo server is     *)
(* co-simulating with, and the deadline timer that ends the co-simulation  *)
(* of a client that stops asking.                                          *)
(*                                                                         *)
(* start, extend, stop, getStatus and the timer's handler are critical     *)
(* sections of m_mutex, so each is one action.  What is concurrent is the  *)
(* timer: a wait is armed on it, becomes ready when it expires, and its    *)
(* handler then waits for m_mutex on the service thread.  Cancelling the   *)
(* timer revokes an armed wait but not a ready one (CancelsQueued = FALSE, *)
(* the contract of boost's basic_deadline_timer).  CancelsQueued = TRUE is *)
(* the timer the code would need; the proofs are about both.               *)
(*                                                                         *)
(* Time is abstract: an armed wait may expire at any moment.  lease counts *)
(* the grants and renewals, so that a wait can be told from the lease it   *)
(* was armed for.  basic_deadline_timer::expires_from_now always clears    *)
(* its error code, so the branch that refuses a client because the timer   *)
(* cannot be set is dead and has no action.                                *)
(***************************************************************************)
EXTENDS Naturals

CONSTANTS
  Client,         \* client IDs
  NoClient,       \* the empty string m_clientID starts with
  CancelsQueued,  \* does cancelling the timer revoke a wait that is ready?
  MaxLease        \* bound: grants and renewals in one behaviour

ASSUME NoClientAssumption == NoClient \notin Client
ASSUME CancelsQueuedAssumption == CancelsQueued \in BOOLEAN
ASSUME MaxLeaseAssumption == MaxLease \in Nat

VARIABLES
  clientID,   \* m_clientID
  running,    \* m_isCoSimulationRunning
  armed,      \* the lease a wait is armed for on m_timer, 0 if no wait is
  ready,      \* the lease whose expired wait has its handler queued, 0 if none
  service,    \* the service thread: "running", "draining" (its work is reset), "done"
  lease,      \* number of grants and renewals so far
  timed,      \* did the last of them give a finite duration?
  last        \* the last call with its result, or the last expiry

vars == <<clientID, running, armed, ready, service, lease, timed, last>>

Event(call, id, ok) == [call |-> call, id |-> id, ok |-> ok]

Events == [call : {"none", "start", "stop", "expire"},
           id : Client \cup {NoClient}, ok : BOOLEAN]

\* The types, and that a co-simulation that runs has a client: nobody could
\* renew or stop it otherwise (GazeboServer.cpp:42, 75, 99).
TypeOK ==
  /\ clientID \in Client \cup {NoClient}
  /\ running \in BOOLEAN
  /\ running => clientID \in Client
  /\ armed \in 0 .. MaxLease
  /\ ready \in 0 .. MaxLease
  /\ service \in {"running", "draining", "done"}
  /\ lease \in 0 .. MaxLease
  /\ timed \in BOOLEAN
  /\ last \in Events

Init ==
  /\ clientID = NoClient
  /\ running = FALSE
  /\ armed = 0
  /\ ready = 0
  /\ service = "running"
  /\ lease = 0
  /\ timed = FALSE
  /\ last = Event("none", NoClient, FALSE)

-----------------------------------------------------------------------------
\* The ready wait that is left after the timer is cancelled.
AfterCancel == IF CancelsQueued THEN 0 ELSE ready

\* Every grant and renewal is a new lease.
NewLease(finite) ==
  /\ lease < MaxLease
  /\ lease' = lease + 1
  /\ timed' = finite

\* Faulty variant: m_clientID is not recorded.
GrantKeepsOwner(c, finite) ==
  /\ ~running
  /\ running' = TRUE
  /\ NewLease(finite)
  /\ armed' = IF finite THEN lease + 1 ELSE armed
  /\ ready' = IF finite THEN AfterCancel ELSE ready
  /\ last' = Event("start", c, TRUE)
  /\ UNCHANGED <<clientID, service>>

\* start while no co-simulation runs: c gets it.  For a finite duration
\* expires_from_now cancels the timer before it is armed again; an infinite
\* one does not touch the timer.
Grant(c, finite) ==
  /\ ~running
  /\ clientID' = c
  /\ running' = TRUE
  /\ NewLease(finite)
  /\ armed' = IF finite THEN lease + 1 ELSE armed
  /\ ready' = IF finite THEN AfterCancel ELSE ready
  /\ last' = Event("start", c, TRUE)
  /\ UNCHANGED service

\* Faulty variant: the timer is cancelled and not armed again.
ExtendForgetsTimer(c, finite) ==
  /\ running
  /\ c = clientID
  /\ NewLease(finite)
  /\ armed' = 0
  /\ ready' = AfterCancel
  /\ last' = Event("start", c, TRUE)
  /\ UNCHANGED <<clientID, running, service>>

\* Faulty variant: a deadline that is armed is left as it is.
ExtendKeepsDeadline(c, finite) ==
  /\ running
  /\ c = clientID
  /\ NewLease(finite)
  /\ armed' = IF armed = 0 /\ finite THEN lease + 1 ELSE armed
  /\ last' = Event("start", c, TRUE)
  /\ UNCHANGED <<clientID, running, ready, service>>

\* start, then extend: the holder renews.  The timer is cancelled first.
Extend(c, finite) ==
  /\ running
  /\ c = clientID
  /\ NewLease(finite)
  /\ armed' = IF finite THEN lease + 1 ELSE 0
  /\ ready' = AfterCancel
  /\ last' = Event("start", c, TRUE)
  /\ UNCHANGED <<clientID, running, service>>

\* start, then extend: another client holds the co-simulation.
Refuse(c) ==
  /\ running
  /\ c # clientID
  /\ last' = Event("start", c, FALSE)
  /\ UNCHANGED <<clientID, running, armed, ready, service, lease, timed>>

Start(c, finite) ==
  /\ service = "running"
  /\ Grant(c, finite) \/ Extend(c, finite) \/ Refuse(c)

\* Faulty variant: stop does not compare the client ID.
MayStopAlways(c) == c \in Client

\* stop ends the co-simulation of the holder, and succeeds if none runs.
MayStop(c) == ~running \/ clientID = c

Stop(c) ==
  /\ service = "running"
  /\ last' = Event("stop", c, MayStop(c))
  /\ IF MayStop(c) THEN armed' = 0 /\ ready' = AfterCancel /\ running' = FALSE
                   ELSE UNCHANGED <<armed, ready, running>>
  /\ UNCHANGED <<clientID, service, lease, timed>>

\* The destructor cancels the timer, lets the service run out of work and
\* joins its thread.
Destroy ==
  /\ service = "running"
  /\ service' = "draining"
  /\ armed' = 0
  /\ ready' = AfterCancel
  /\ UNCHANGED <<clientID, running, lease, timed, last>>

Join ==
  /\ service = "draining"
  /\ armed = 0 /\ ready = 0
  /\ service' = "done"
  /\ UNCHANGED <<clientID, running, armed, ready, lease, timed, last>>

-----------------------------------------------------------------------------
\* The deadline passes and the service thread takes the wait off the timer;
\* it handles one wait at a time.
DeadlinePasses ==
  /\ armed # 0 /\ ready = 0
  /\ ready' = armed
  /\ armed' = 0
  /\ UNCHANGED <<clientID, running, service, lease, timed, last>>

\* Faulty variant: the handler is skipped for every wait, as for a cancelled one.
TimeoutIgnored ==
  /\ ready # 0
  /\ ready' = 0
  /\ last' = Event("expire", clientID, TRUE)
  /\ UNCHANGED <<clientID, running, armed, service, lease, timed>>

\* The handler gets m_mutex: it ends the co-simulation, whoever holds it.
Timeout ==
  /\ ready # 0
  /\ ready' = 0
  /\ running' = FALSE
  /\ last' = Event("expire", clientID, TRUE)
  /\ UNCHANGED <<clientID, armed, service, lease, timed>>

ServiceThread == DeadlinePasses \/ Timeout

Next ==
  \/ \E c \in Client, finite \in BOOLEAN : Start(c, finite)
  \/ \E c \in Client : Stop(c)
  \/ ServiceThread
  \/ Destroy
  \/ Join

Spec == Init /\ [][Next]_vars

\* The timer runs on and the service thread is scheduled; clients may be silent.
FairSpec == Spec /\ WF_vars(ServiceThread)

-----------------------------------------------------------------------------
\* A finite lease always has a deadline under way: whatever renewals, refusals
\* and stale handlers came before, the client that stops renewing loses it.
\* (GazeboServer.cpp:44-60, 78-90: the timer armed by start and extend.)
FiniteLeaseHasDeadline ==
  service = "running" /\ running /\ timed => armed # 0 \/ ready # 0

\* The wait armed on the timer was armed by the latest finite grant or renewal,
\* so a renewal never leaves an earlier deadline armed behind it
\* (GazeboServer.cpp:76-83: cancel, then arm).
ArmedWaitIsLatest ==
  /\ armed # 0 /\ running /\ timed => armed = lease
  /\ armed # 0 /\ ready # 0 => ready < armed

\* A co-simulation passes from one client to another only through a state in
\* which none runs, and it ends only by its own client's stop or by a deadline
\* (GazeboServer.cpp:37-39, 75, 99).
LeaseNotStolen ==
  [][running => \/ running' /\ clientID' = clientID
                \/ last' = Event("stop", clientID, TRUE)
                \/ last'.call = "expire"]_vars

\* A client that falls silent does not keep the simulator for ever: a finite
\* lease is renewed, made infinite, given back or taken away
\* (GazeboServer.cpp:45-46).
LeaseEnds ==
  \A n \in 1 .. MaxLease :
    (lease = n /\ running /\ timed) ~>
      (lease # n \/ ~running \/ service # "running")

\* The handler of a deadline ends only the lease the deadline was set for: a
\* renewal resets "the timer for stopping co-simulation" (GazeboServer.cpp:76).
DeadlineEndsOnlyItsLease ==
  [][ready # 0 /\ running /\ ~running' /\ last'.call = "expire"
       => ready = lease]_vars

-----------------------------------------------------------------------------
\* Is w a deadline under way that is not the running lease's own?
Late(w) == w # 0 /\ ~(running /\ timed /\ w = lease)

\* What the status promises its clients.  The mapping: nobody holds the lease
\* when no co-simulation runs, whatever m_clientID says, and a deadline is late if
\* it was armed for another lease than the one that runs.
Promise == INSTANCE Lease
  WITH holder <- IF running THEN clientID ELSE NoClient,
       timed <- running /\ timed,
       late <- Late(armed) \/ Late(ready)

ImplementsLease == Promise!Spec

=============================================================================
