------------------------- MODULE CoSimulationProofs -------------------------
(***************************************************************************)
(* Proofs about CoSimulation, for any clients and any bounds.              *)
(***************************************************************************)
EXTENDS CoSimulation, TLAPS

StatusProofs == INSTANCE CoSimulationStatusProofs

-----------------------------------------------------------------------------
\* The module of the proofs has a copy of the status of its own.
LEMMA SameStatus ==
  /\ Status!Init = StatusProofs!Init
  /\ [StatusProofs!Next]_(StatusProofs!vars) = [Status!Next]_(Status!vars)
  /\ StatusProofs!TypeOK = Status!TypeOK /\ StatusProofs!TypeOK' = Status!TypeOK'
  /\ StatusProofs!FiniteLeaseHasDeadline = Status!FiniteLeaseHasDeadline
  /\ StatusProofs!ArmedWaitIsLatest = Status!ArmedWaitIsLatest
  /\ StatusProofs!NoClientAssumption /\ StatusProofs!CancelsQueuedAssumption
  /\ StatusProofs!MaxLeaseAssumption
<1>1. [StatusProofs!Next]_(StatusProofs!vars) = [Status!Next]_(Status!vars)
  BY Zenon
     DEF Status!vars, StatusProofs!vars, Status!Next, StatusProofs!Next,
         Status!Start, StatusProofs!Start, Status!Stop, StatusProofs!Stop,
         Status!Grant, StatusProofs!Grant, Status!Extend, StatusProofs!Extend,
         Status!Refuse, StatusProofs!Refuse, Status!NewLease, StatusProofs!NewLease,
         Status!Event, StatusProofs!Event, Status!MayStop, StatusProofs!MayStop,
         Status!AfterCancel, StatusProofs!AfterCancel,
         Status!ServiceThread, StatusProofs!ServiceThread,
         Status!DeadlinePasses, StatusProofs!DeadlinePasses,
         Status!Timeout, StatusProofs!Timeout, Status!Destroy, StatusProofs!Destroy,
         Status!Join, StatusProofs!Join
<1>2. Status!Init = StatusProofs!Init
  BY Zenon DEF Status!Init, StatusProofs!Init, Status!Event, StatusProofs!Event
<1>3. /\ StatusProofs!FiniteLeaseHasDeadline = Status!FiniteLeaseHasDeadline
      /\ StatusProofs!ArmedWaitIsLatest = Status!ArmedWaitIsLatest
  BY Zenon DEF StatusProofs!FiniteLeaseHasDeadline, Status!FiniteLeaseHasDeadline,
               StatusProofs!ArmedWaitIsLatest, Status!ArmedWaitIsLatest
<1>4. /\ StatusProofs!NoClientAssumption /\ StatusProofs!CancelsQueuedAssumption
      /\ StatusProofs!MaxLeaseAssumption
  BY StatusAssumption
     DEF StatusProofs!NoClientAssumption, StatusProofs!CancelsQueuedAssumption,
         StatusProofs!MaxLeaseAssumption
<1>5. StatusProofs!TypeOK = Status!TypeOK /\ StatusProofs!TypeOK' = Status!TypeOK'
  BY Zenon DEF Status!TypeOK, Status!Events, StatusProofs!TypeOK, StatusProofs!Events
<1>6. QED
  BY <1>1, <1>2, <1>3, <1>4, <1>5

\* Type correctness of the status, from the proofs about it.
LEMMA StatusTypeStep ==
  ASSUME Status!TypeOK, [Status!Next]_(Status!vars)
  PROVE  Status!TypeOK'
BY StatusProofs!TypeStep, SameStatus

\* The handler that asks for the co-simulation knows its client.
LEMMA RequestType ==
  ASSUME io \in Handlers, io.pc = "request"
  PROVE  io.client \in Client /\ io.finite \in BOOLEAN
BY DEF Handlers

\* The handler that steps knows how many steps it wants.
LEMMA StepType ==
  ASSUME io \in Handlers, io.pc \in {"step", "stepping"}
  PROVE  /\ io.steps \in 0 .. MaxSteps
         /\ [io EXCEPT !.pc = "stepping"] = [pc |-> "stepping", steps |-> io.steps]
BY DEF Handlers

\* Every action is a step of the status, or leaves it alone.
LEMMA StatusStep ==
  ASSUME io \in Handlers, [Next]_vars
  PROVE  [Status!Next]_(Status!vars)
<1>1. CASE StartCoSimulation
  BY <1>1, RequestType DEF StartCoSimulation, Status!Next
<1>2. CASE \E c \in Client : StopArrives(c)
  BY <1>2 DEF StopArrives, Status!Next
<1>3. CASE ServiceThread
  BY <1>3 DEF ServiceThread, Status!Next
<1>4. CASE User \/ WorldThread
  BY <1>4, Zenon DEF User, WorldThread, BeginUpdate, CheckStatus, EndUpdate,
                     statusVars, Status!vars
<1>5. CASE UNCHANGED vars
  BY <1>5, Zenon DEF vars, statusVars, Status!vars
<1>6. ASSUME NEW c \in Client, NEW finite \in BOOLEAN, RequestArrives(c, finite)
      PROVE  UNCHANGED Status!vars
  BY <1>6, Zenon DEF RequestArrives, statusVars, Status!vars
<1>7. ASSUME NEW n \in 0 .. MaxSteps, StepArrives(n) PROVE UNCHANGED Status!vars
  BY <1>7, Zenon DEF StepArrives, statusVars, Status!vars
<1>8. CASE PauseWorld \/ WorldStep \/ WorldStepReturns
  BY <1>8, Zenon DEF PauseWorld, WorldStep, WorldStepReturns, statusVars, Status!vars
<1>9. QED
  BY <1>1, <1>2, <1>3, <1>4, <1>5, <1>6, <1>7, <1>8 DEF Next, IoThread

\* Type correctness: the handlers and the plugin's callback keep every variable
\* in its type.
THEOREM CoSimulationTypeCorrect == Spec => []TypeOK
<1> DEFINE
      CounterTypes ==
        /\ stepInc \in 0 .. MaxSteps
        /\ stepped \in 0 .. MaxSteps + 1
        /\ freeRun \in 0 .. 2
      OtherTypes ==
        /\ paused \in BOOLEAN /\ seen \in BOOLEAN
        /\ held \in BOOLEAN /\ stepKept \in BOOLEAN
        /\ world \in {"idle", "updating", "checked"}
<1>1. Init => TypeOK
  <2> SUFFICES ASSUME Init PROVE TypeOK
    OBVIOUS
  <2>1. CounterTypes /\ io \in Handlers
    BY MaxStepsAssumption DEF Init, Idle, Handlers
  <2>2. OtherTypes
    BY Zenon DEF Init
  <2>3. Status!TypeOK
    <3>1. armed \in 0 .. MaxLease /\ ready \in 0 .. MaxLease /\ lease \in 0 .. MaxLease
      BY StatusAssumption DEF Init, Status!Init
    <3>2. last \in Status!Events
      BY DEF Init, Status!Init, Status!Event, Status!Events
    <3>3. QED
      BY <3>1, <3>2, Zenon DEF Init, Status!Init, Status!TypeOK
  <2>4. QED
    BY <2>1, <2>2, <2>3, Zenon DEF TypeOK
<1>2. TypeOK /\ [Next]_vars => TypeOK'
  <2> SUFFICES ASSUME TypeOK, [Next]_vars PROVE TypeOK'
    OBVIOUS
  <2>1. Status!TypeOK'
    BY StatusStep, StatusTypeStep DEF TypeOK
  <2>2. running \in BOOLEAN /\ running' \in BOOLEAN /\ last' \in Status!Events
    BY <2>1, Zenon DEF TypeOK, Status!TypeOK
  <2> USE DEF recordVars, worldVars
  <2>3. CounterTypes'
    <3> USE MaxStepsAssumption DEF TypeOK
    <3>1. CASE WorldStep
      BY <3>1, StepType DEF WorldStep
    <3>2. CASE EndUpdate
      BY <3>2 DEF EndUpdate
    <3>3. CASE BeginUpdate
      BY <3>3 DEF BeginUpdate
    <3>4. CASE CheckStatus
      BY <3>4 DEF CheckStatus
    <3>5. CASE StartCoSimulation
      BY <3>5 DEF StartCoSimulation
    <3>6. CASE User \/ ServiceThread
      BY <3>6 DEF User, ServiceThread
    <3>7. CASE PauseWorld \/ WorldStepReturns \/ UNCHANGED vars
      BY <3>7 DEF PauseWorld, WorldStepReturns, vars
    <3>8. CASE \E c \in Client, finite \in BOOLEAN : RequestArrives(c, finite)
      BY <3>8 DEF RequestArrives
    <3>9. CASE \E c \in Client : StopArrives(c)
      BY <3>9 DEF StopArrives
    <3>10. CASE \E n \in 0 .. MaxSteps : StepArrives(n)
      BY <3>10 DEF StepArrives
    <3>11. QED
      BY <3>1, <3>2, <3>3, <3>4, <3>5, <3>6, <3>7, <3>8, <3>9, <3>10
         DEF Next, IoThread, WorldThread
  <2>4. OtherTypes'
    <3>1. ASSUME WorldStepReturns PROVE (stepped >= io.steps) \in BOOLEAN
      OBVIOUS
    <3>2. CASE IoThread
      BY <2>2, <3>1, <3>2, Zenon
         DEF TypeOK, IoThread, RequestArrives, StartCoSimulation, PauseWorld,
             StopArrives, StepArrives, WorldStep, WorldStepReturns
    <3>3. CASE WorldThread
      BY <2>2, <3>3, Zenon
         DEF TypeOK, WorldThread, BeginUpdate, CheckStatus, EndUpdate
    <3>4. CASE ServiceThread \/ User \/ UNCHANGED vars
      BY <2>2, <3>4, Zenon DEF TypeOK, ServiceThread, User, vars
    <3>5. QED
      BY <3>2, <3>3, <3>4 DEF Next
  <2>5. io' \in Handlers
    <3> USE DEF TypeOK, Idle
    <3>1. ASSUME NEW c \in Client, NEW finite \in BOOLEAN, RequestArrives(c, finite)
          PROVE  io' \in Handlers
      BY <2>2, <3>1, Zenon DEF RequestArrives, Handlers
    <3>2. CASE StartCoSimulation
      BY <3>2 DEF StartCoSimulation, Handlers
    <3>3. ASSUME NEW n \in 0 .. MaxSteps, StepArrives(n) PROVE io' \in Handlers
      BY <3>3 DEF StepArrives, Handlers
    <3>4. CASE WorldStep
      BY <3>4, StepType DEF WorldStep, Handlers
    <3>5. CASE PauseWorld \/ WorldStepReturns
      BY <3>5 DEF PauseWorld, WorldStepReturns, Handlers
    <3>6. CASE \/ \E c \in Client : StopArrives(c)
               \/ WorldThread \/ ServiceThread \/ User \/ UNCHANGED vars
      BY <3>6, Zenon DEF StopArrives, WorldThread, BeginUpdate, CheckStatus, EndUpdate,
                  ServiceThread, User, vars
    <3>7. QED
      BY <3>1, <3>2, <3>3, <3>4, <3>5, <3>6 DEF Next, IoThread
  <2>6. QED
    BY <2>1, <2>3, <2>4, <2>5, Zenon DEF TypeOK
<1>3. QED
  BY <1>1, <1>2, PTL DEF Spec

-----------------------------------------------------------------------------
\* The service thread and stop never start a co-simulation.
LEMMA OnlyStartStarts ==
  ASSUME Status!TypeOK, ~ running,
         ServiceThread \/ \E c \in Client : StopArrives(c)
  PROVE  ~ running'
<1>1. running = FALSE
  BY Zenon DEF Status!TypeOK
<1>2. CASE ServiceThread
  BY <1>1, <1>2 DEF ServiceThread, Status!ServiceThread, Status!DeadlinePasses,
                    Status!Timeout
<1>3. CASE \E c \in Client : StopArrives(c)
  BY <1>1, <1>3 DEF StopArrives, Status!Stop
<1>4. QED
  BY <1>2, <1>3

\* Once an update has begun on its own, the update itself, the status it has
\* seen and then the paused world stop the next one.  A status read before the
\* start of the co-simulation is no harm: the start counts from 0 again.
FreeRunInv ==
  /\ freeRun \in 0 .. 1
  /\ running /\ freeRun = 1 =>
       \/ paused
       \/ world = "updating"
       \/ world = "checked" /\ seen

\* The world never runs away from the co-simulation (GazeboPlugin.cpp:241-245).
THEOREM WorldDoesNotRunAway == Spec => []FreeRunBounded
<1>1. Init => FreeRunInv
  BY DEF Init, FreeRunInv
<1>2. TypeOK /\ FreeRunInv /\ [Next]_vars => FreeRunInv'
  <2> SUFFICES ASSUME TypeOK, FreeRunInv, [Next]_vars PROVE FreeRunInv'
    OBVIOUS
  <2> USE DEF FreeRunInv
  <2>1. CASE StartCoSimulation
    <3>1. running \in BOOLEAN
      BY Zenon DEF TypeOK, Status!TypeOK
    <3>2. UNCHANGED <<paused, world, seen>>
      BY <2>1, Zenon DEF StartCoSimulation, worldVars
    <3>3. freeRun' = IF running THEN freeRun ELSE 0
      BY <2>1 DEF StartCoSimulation
    <3>4. QED
      BY <3>1, <3>2, <3>3
  <2>2. CASE ServiceThread \/ \E c \in Client : StopArrives(c)
    <3>1. running' => running
      BY <2>2, OnlyStartStarts DEF TypeOK
    <3>2. UNCHANGED <<paused, world, seen, freeRun>>
      BY <2>2, Zenon DEF ServiceThread, StopArrives, worldVars, recordVars
    <3>3. QED
      BY <3>1, <3>2
  <2>3. CASE BeginUpdate
    BY <2>3 DEF BeginUpdate, statusVars
  <2>4. CASE CheckStatus
    BY <2>4 DEF CheckStatus, statusVars, recordVars
  <2>5. CASE EndUpdate
    <3>1. /\ world = "checked"
          /\ running' = running /\ freeRun' = freeRun /\ paused' = (paused \/ seen)
      BY <2>5, Zenon DEF EndUpdate, statusVars
    <3>2. QED
      BY <3>1
  <2>6. CASE User
    BY <2>6 DEF User, statusVars
  <2>7. CASE PauseWorld \/ WorldStep
    BY <2>7 DEF PauseWorld, WorldStep, statusVars, recordVars
  <2>8. ASSUME \/ \E c \in Client, finite \in BOOLEAN : RequestArrives(c, finite)
               \/ \E n \in 0 .. MaxSteps : StepArrives(n)
               \/ WorldStepReturns
               \/ UNCHANGED vars
        PROVE  UNCHANGED <<running, paused, world, seen, freeRun>>
    BY <2>8, Zenon DEF RequestArrives, StepArrives, WorldStepReturns, vars,
                       statusVars, worldVars, recordVars
  <2>9. QED
    BY <2>1, <2>2, <2>3, <2>4, <2>5, <2>6, <2>7, <2>8 DEF Next, IoThread, WorldThread
<1>3. FreeRunInv => FreeRunBounded
  BY DEF FreeRunInv, FreeRunBounded
<1>4. QED
  BY <1>1, <1>2, <1>3, CoSimulationTypeCorrect, PTL DEF Spec

-----------------------------------------------------------------------------
\* While the io thread is in World::Step: the steps add up, and a co-simulation
\* that has lasted is seen by every update, which therefore ends paused and
\* counts its step.
StepInv ==
  io.pc = "stepping" =>
    /\ stepped + stepInc >= io.steps
    /\ held /\ stepInc > 0 => stepped + stepInc = io.steps
    /\ held => running
    /\ held /\ world = "checked" => seen

\* A step request takes the steps it asks for, and while the co-simulation lasts
\* no other update slips in before the last of them
\* (StepSimulationMsgHandler.cpp:16-20, GazeboPlugin.cpp:241-245).
THEOREM StepsAreExact == Spec => []StepExact
<1>1. Init => StepInv
  BY DEF Init, Idle, StepInv
<1>2. TypeOK /\ StepInv /\ [Next]_vars => StepInv'
  <2> SUFFICES ASSUME TypeOK, StepInv, [Next]_vars PROVE StepInv'
    OBVIOUS
  <2>1. CASE WorldStep
    <3>1. io' = [pc |-> "stepping", steps |-> io.steps] /\ io.steps \in 0 .. MaxSteps
      BY <2>1, StepType DEF TypeOK, WorldStep
    <3>2. stepInc' = io.steps /\ stepped' = 0 /\ world' = "idle"
      BY <2>1 DEF WorldStep
    <3>3. held' = running /\ running' = running
      BY <2>1, Zenon DEF WorldStep, statusVars
    <3>4. QED
      BY <3>1, <3>2, <3>3, MaxStepsAssumption DEF StepInv
  <2>2. ASSUME \/ \E c \in Client, finite \in BOOLEAN : RequestArrives(c, finite)
               \/ StartCoSimulation
               \/ PauseWorld
               \/ \E c \in Client : StopArrives(c)
               \/ \E n \in 0 .. MaxSteps : StepArrives(n)
               \/ WorldStepReturns
        PROVE  io'.pc # "stepping"
    BY <2>2 DEF RequestArrives, StartCoSimulation, PauseWorld, StopArrives,
                StepArrives, WorldStepReturns, Idle
  <2>3. CASE BeginUpdate
    BY <2>3 DEF BeginUpdate, statusVars, StepInv
  <2>4. CASE CheckStatus
    BY <2>4 DEF CheckStatus, statusVars, recordVars, StepInv
  <2>5. CASE EndUpdate
    <3>1. /\ world = "checked" /\ world' = "idle" /\ UNCHANGED <<io, held, running>>
          /\ paused' = (paused \/ seen)
      BY <2>5, Zenon DEF EndUpdate, statusVars
    <3>2. /\ stepInc' = IF paused' /\ stepInc > 0 THEN stepInc - 1 ELSE stepInc
          /\ stepped' = IF stepped <= MaxSteps THEN stepped + 1 ELSE stepped
      BY <2>5 DEF EndUpdate
    <3>3. /\ stepInc \in 0 .. MaxSteps /\ stepped \in 0 .. MaxSteps + 1
          /\ io.pc = "stepping" => io.steps \in 0 .. MaxSteps
      BY StepType DEF TypeOK
    <3>4. ASSUME io.pc = "stepping"
          PROVE  /\ stepped' + stepInc' >= io.steps
                 /\ paused' /\ stepInc' > 0 /\ stepped + stepInc = io.steps
                      => stepped' + stepInc' = io.steps
      BY <3>2, <3>3, <3>4, MaxStepsAssumption DEF StepInv
    <3>5. ASSUME io.pc = "stepping", held, stepInc' > 0
          PROVE  stepped' + stepInc' = io.steps
      <4>1. paused'
        BY <3>1, <3>5 DEF StepInv
      <4>2. stepInc > 0
        BY <3>2, <3>3, <3>5
      <4>3. QED
        BY <3>4, <3>5, <4>1, <4>2 DEF StepInv
    <3>6. QED
      BY <3>1, <3>4, <3>5 DEF StepInv
  <2>6. CASE ServiceThread
    <3>1. UNCHANGED <<io, stepped, stepInc, world, seen>>
      BY <2>6, Zenon DEF ServiceThread, worldVars
    <3>2. held' = (held /\ running')
      BY <2>6, Zenon DEF ServiceThread
    <3>3. QED
      BY <3>1, <3>2 DEF StepInv
  <2>7. CASE User
    BY <2>7 DEF User, statusVars, StepInv
  <2>8. CASE UNCHANGED vars
    BY <2>8 DEF vars, statusVars, worldVars, recordVars, StepInv
  <2>9. QED
    BY <2>1, <2>2, <2>3, <2>4, <2>5, <2>6, <2>7, <2>8
       DEF Next, IoThread, WorldThread, StepInv
<1>3. StepInv => StepExact
  BY DEF StepInv, StepExact
<1>4. QED
  BY <1>1, <1>2, <1>3, CoSimulationTypeCorrect, PTL DEF Spec

-----------------------------------------------------------------------------
\* Every behaviour of the composition is one of the status: the handlers, the world
\* and the user use it only by its own operations (GazeboServer.cpp:21-115).
THEOREM CoSimulationUsesStatus == Spec => Status!Spec
<1>1. Init => Status!Init
  BY DEF Init
<1>2. TypeOK /\ [Next]_vars => [Status!Next]_(Status!vars)
  BY StatusStep DEF TypeOK
<1>3. QED
  BY <1>1, <1>2, CoSimulationTypeCorrect, PTL DEF Spec, Status!Spec

\* What the status promises its clients holds in the composition too: a
\* co-simulation goes to another client only after it has ended, by its own client's
\* stop or by a deadline, and a finite one always has its deadline under way
\* (GazeboServer.cpp:37-60, 75-99).
THEOREM StatusKeepsItsPromises ==
  Spec => /\ Status!LeaseNotStolen
          /\ []Status!FiniteLeaseHasDeadline
          /\ []Status!ArmedWaitIsLatest
<1>1. StatusProofs!Spec => []StatusProofs!FiniteLeaseHasDeadline
  BY SameStatus, StatusProofs!DeadlineNeverLost
<1>2. StatusProofs!Spec => []StatusProofs!ArmedWaitIsLatest
  BY SameStatus, StatusProofs!ArmedWaitBelongsToLease
<1>3. StatusProofs!Spec => StatusProofs!LeaseNotStolen
  BY SameStatus, StatusProofs!LeaseIsNotStolen
<1>4. /\ Status!Init => StatusProofs!Init
      /\ [Status!Next]_(Status!vars) => [StatusProofs!Next]_(StatusProofs!vars)
      /\ StatusProofs!FiniteLeaseHasDeadline => Status!FiniteLeaseHasDeadline
      /\ StatusProofs!ArmedWaitIsLatest => Status!ArmedWaitIsLatest
  BY SameStatus, Zenon
<1>5. [running => \/ running' /\ clientID' = clientID
                  \/ last' = StatusProofs!Event("stop", clientID, TRUE)
                  \/ last'.call = "expire"]_(StatusProofs!vars)
      => [running => \/ running' /\ clientID' = clientID
                     \/ last' = Status!Event("stop", clientID, TRUE)
                     \/ last'.call = "expire"]_(Status!vars)
  BY Zenon DEF Status!Event, StatusProofs!Event, Status!vars, StatusProofs!vars
<1>6. QED
  BY <1>1, <1>2, <1>3, <1>4, <1>5, CoSimulationUsesStatus, PTL
     DEF Status!Spec, StatusProofs!Spec, Status!LeaseNotStolen, StatusProofs!LeaseNotStolen

-----------------------------------------------------------------------------
\* When the world thread can go on: the guards of its actions, each of which moves
\* it.  It is what ENABLED <<WorldThread>>_vars says.
WorldReady == world # "idle" \/ ~paused \/ stepInc > 0

\* Weak fairness of the world thread, with its guard written out.
WorldThreadFairness == []<>~WorldReady \/ []<><<WorldThread>>_vars

\* It is the fairness of FairSpec, once the guard enables the thread.
LEMMA WorldThreadIsFair ==
  FairSpec /\ [](WorldReady => ENABLED <<WorldThread>>_vars)
    => Spec /\ WorldThreadFairness
BY PTL DEF FairSpec, WorldThreadFairness

\* Where the world thread is, and how it gets on.  An update that has missed the
\* start of the co-simulation is "blind".
Blind == world = "checked" /\ ~seen
Seeing == world = "checked" /\ seen

LEMMA WorldMoves ==
  ASSUME TypeOK, WorldThread
  PROVE  \/ world = "idle" /\ world' = "updating" /\ stepInc' = stepInc
         \/ world = "updating" /\ world' = "checked" /\ stepInc' = stepInc
            /\ (running => seen')
         \/ /\ world = "checked" /\ world' = "idle"
            /\ seen => paused'
            /\ stepInc' = stepInc \/ stepInc' = stepInc - 1
            /\ seen /\ stepInc > 0 => stepInc' = stepInc - 1
<1>1. CASE BeginUpdate
  BY <1>1 DEF BeginUpdate
<1>2. CASE CheckStatus
  BY <1>2 DEF CheckStatus
<1>3. CASE EndUpdate
  <2>1. world = "checked" /\ world' = "idle" /\ (seen => paused')
    BY <1>3, Zenon DEF EndUpdate
  <2>2. stepInc' = IF paused' /\ stepInc > 0 THEN stepInc - 1 ELSE stepInc
    BY <1>3 DEF EndUpdate
  <2>3. QED
    BY <2>1, <2>2
<1>4. QED
  BY <1>1, <1>2, <1>3 DEF WorldThread

LEMMA WorldMovesAlone ==
  ASSUME [Next]_vars, ~WorldThread
  PROVE  UNCHANGED <<world, seen>>
BY Zenon DEF Next, vars, worldVars, IoThread, RequestArrives, StartCoSimulation, PauseWorld,
             StopArrives, StepArrives, WorldStep, WorldStepReturns, ServiceThread, User

\* A world that is not paused in a co-simulation is paused again, as long as Gazebo
\* keeps updating it: by this update, or by the next one if this one read the status
\* before the co-simulation started (GazeboPlugin.cpp:241-245).
THEOREM WorldIsPaused == Spec /\ WorldThreadFairness => WorldGetsPaused
<1> DEFINE Free == running /\ ~paused
           Done == paused \/ ~running
<1>1. TypeOK /\ Free => Free /\ (Blind \/ world = "idle" \/ world = "updating" \/ Seeing)
  BY DEF TypeOK, Blind, Seeing
<1>2. TypeOK /\ [Next]_vars =>
        /\ Free /\ Blind => Blind' \/ (world = "idle")' \/ Done'
        /\ Free /\ world = "idle" => (world = "idle")' \/ (world = "updating")' \/ Done'
        /\ Free /\ world = "updating" => (world = "updating")' \/ Seeing' \/ Done'
        /\ Free /\ Seeing => Seeing' \/ Done'
  BY WorldMovesAlone, WorldMoves DEF Blind, Seeing
<1>3. TypeOK /\ <<WorldThread>>_vars =>
        /\ Blind => ~Blind'
        /\ world = "idle" => ~(world = "idle")'
        /\ world = "updating" => ~(world = "updating")'
        /\ Seeing => ~Seeing'
  BY WorldMoves DEF Blind, Seeing
<1>4. TypeOK => (Free' \/ Done')
  OBVIOUS
<1>5. Free => WorldReady
  BY DEF WorldReady
<1>6. QED
  BY <1>1, <1>2, <1>3, <1>4, <1>5, CoSimulationTypeCorrect, PTL
     DEF Spec, WorldThreadFairness, WorldGetsPaused

\* A request that still waits for steps keeps waiting, and only an update takes one.
LEMMA SteppingStays ==
  ASSUME [Next]_vars, io.pc = "stepping", stepInc # 0
  PROVE  io' = io /\ (stepInc' = stepInc \/ WorldThread)
<1>1. CASE IoThread
  BY <1>1 DEF IoThread, RequestArrives, StartCoSimulation, PauseWorld, StopArrives,
              StepArrives, WorldStep, WorldStepReturns, Idle
<1>2. CASE WorldThread
  BY <1>2, Zenon DEF WorldThread, BeginUpdate, CheckStatus, EndUpdate, recordVars
<1>3. CASE ServiceThread \/ User \/ UNCHANGED vars
  BY <1>3, Zenon DEF ServiceThread, User, vars, worldVars
<1>4. QED
  BY <1>1, <1>2, <1>3 DEF Next

\* Whatever is left of a step request under a co-simulation becomes less, as long as
\* Gazebo keeps updating the world: the io thread, and every client behind it, waits
\* for no more updates than steps and one (StepSimulationMsgHandler.cpp:18,
\* GazeboPlugin.cpp:241-245).  StepsGetTaken is this, for one step after the other.
THEOREM EachStepIsTaken ==
  Spec /\ WorldThreadFairness =>
    \A n \in 1 .. MaxSteps :
      (io.pc = "stepping" /\ stepInc = n)
        ~> (stepInc = 0 \/ ~running \/ (io.pc = "stepping" /\ stepInc < n))
<1> SUFFICES ASSUME NEW n \in 1 .. MaxSteps
             PROVE  Spec /\ WorldThreadFairness =>
                      ((io.pc = "stepping" /\ stepInc = n)
                         ~> (stepInc = 0 \/ ~running \/ (io.pc = "stepping" /\ stepInc < n)))
  OBVIOUS
<1> DEFINE Waiting == io.pc = "stepping" /\ stepInc = n /\ running
           Taken == stepInc = 0 \/ ~running \/ (io.pc = "stepping" /\ stepInc < n)
<1>1. TypeOK /\ io.pc = "stepping" /\ stepInc = n =>
        Taken \/ (Waiting /\ (Blind \/ world = "idle" \/ world = "updating" \/ Seeing))
  BY DEF TypeOK, Blind, Seeing
<1>2. TypeOK /\ [Next]_vars /\ Waiting => Waiting' \/ Taken'
  <2>1. TypeOK /\ stepInc' = n - 1 => stepInc' < n
    OBVIOUS
  <2>2. QED
    BY <2>1, SteppingStays, WorldMoves
<1>3. TypeOK /\ [Next]_vars =>
        /\ Waiting /\ Blind => Blind' \/ (world = "idle")'
        /\ Waiting /\ world = "idle" => (world = "idle")' \/ (world = "updating")'
        /\ Waiting /\ world = "updating" => (world = "updating")' \/ Seeing'
        /\ Waiting /\ Seeing => Seeing' \/ Taken'
  <2>1. TypeOK /\ Waiting /\ Seeing /\ [Next]_vars => Seeing' \/ Taken'
    <3>1. CASE WorldThread
      BY <3>1, WorldMoves, SteppingStays DEF Seeing
    <3>2. CASE ~WorldThread
      BY <3>2, WorldMovesAlone DEF Seeing
    <3>3. QED
      BY <3>1, <3>2
  <2>2. QED
    BY <2>1, WorldMovesAlone, WorldMoves DEF Blind, Seeing
<1>4. TypeOK /\ <<WorldThread>>_vars =>
        /\ Blind => ~Blind'
        /\ world = "idle" => ~(world = "idle")'
        /\ world = "updating" => ~(world = "updating")'
        /\ Seeing => ~Seeing'
  BY WorldMoves DEF Blind, Seeing
<1>5. Waiting => WorldReady
  BY DEF WorldReady
<1> HIDE DEF Waiting
<1>6. QED
  BY <1>1, <1>2, <1>3, <1>4, <1>5, CoSimulationTypeCorrect, PTL
     DEF Spec, WorldThreadFairness

=============================================================================
