---------------------------- MODULE CoSimulation ----------------------------
(***************************************************************************)
(* Lock-step co-simulation: the message handlers that request, stop and    *)
(* step, the Gazebo world they drive, and the plugin's world-update        *)
(* callback, composed with CoSimulationStatus.                             *)
(*                                                                         *)
(* Four threads interleave.                                                *)
(*  - The server's single io thread runs one message handler at a time.    *)
(*    RequestCoSimulationHandler reads the status, starts the              *)
(*    co-simulation and pauses the world in three separate steps;          *)
(*    StepSimulationMsgHandler blocks in World::Step until the world has   *)
(*    taken the steps.                                                     *)
(*  - Gazebo's world thread updates the world while it is not paused or    *)
(*    steps are left, and calls onWorldUpdateEnd at the end of an update.  *)
(*  - The status's service thread takes a finite lease away.               *)
(*  - A user pauses and unpauses the world in the Gazebo GUI.              *)
(*                                                                         *)
(* The world is external: an update holds worldUpdateMutex, and SetPaused  *)
(* (when it changes something) and Step need it.                           *)
(***************************************************************************)
EXTENDS Naturals

CONSTANTS
  Client, NoClient, CancelsQueued, MaxLease,  \* see CoSimulationStatus
  MaxSteps                                    \* bound: steps in one request

ASSUME StatusAssumption ==
  NoClient \notin Client /\ CancelsQueued \in BOOLEAN /\ MaxLease \in Nat
ASSUME MaxStepsAssumption == MaxSteps \in Nat

VARIABLES
  clientID, running, armed, ready, service, lease, timed, last,
                \* the variables of CoSimulationStatus
  paused,       \* the world is paused
  stepInc,      \* steps the world has left to take
  world,        \* the world thread: "idle", "updating", "checked"
  seen,         \* the status that onWorldUpdateEnd has read
  io,           \* the handler the io thread is in, and its local variables
  \* Variables that only record what happened.
  stepped,      \* updates completed since World::Step, at most MaxSteps + 1
  held,         \* has a co-simulation run at every moment since World::Step?
  freeRun,      \* updates begun, in this co-simulation and since the user last
                \* unpaused the world, that no step request asked for, at most 2
  stepKept      \* had the last answered step request taken the steps it asked for?

statusVars == <<clientID, running, armed, ready, service, lease, timed, last>>
worldVars == <<paused, stepInc, world, seen>>
recordVars == <<stepped, held, freeRun, stepKept>>
vars == <<statusVars, worldVars, io, recordVars>>

Status == INSTANCE CoSimulationStatus

Handlers ==
  [pc : {"idle"}]
  \cup [pc : {"request"}, client : Client, finite : BOOLEAN, already : BOOLEAN]
  \cup [pc : {"granted"}]
  \cup [pc : {"step", "stepping"}, steps : 0 .. MaxSteps]

Idle == [pc |-> "idle"]

TypeOK ==
  /\ Status!TypeOK
  /\ paused \in BOOLEAN
  /\ stepInc \in 0 .. MaxSteps
  /\ world \in {"idle", "updating", "checked"}
  /\ seen \in BOOLEAN
  /\ io \in Handlers
  /\ stepped \in 0 .. MaxSteps + 1
  /\ held \in BOOLEAN
  /\ freeRun \in 0 .. 2
  /\ stepKept \in BOOLEAN

\* The plugin is loaded into a world that runs or is paused.
Init ==
  /\ Status!Init
  /\ paused \in BOOLEAN
  /\ stepInc = 0
  /\ world = "idle"
  /\ seen = FALSE
  /\ io = Idle
  /\ stepped = 0
  /\ held = FALSE
  /\ freeRun = 0
  /\ stepKept = TRUE

-----------------------------------------------------------------------------
\* RequestCoSimulationHandler::handleMessage, up to the status it reads.
RequestArrives(c, finite) ==
  /\ io = Idle
  /\ io' = [pc |-> "request", client |-> c, finite |-> finite, already |-> running]
  /\ UNCHANGED <<statusVars, worldVars, recordVars>>

\* It starts the co-simulation; if that is refused, or the status was already
\* running when it was read, it replies.
StartCoSimulation ==
  /\ io.pc = "request"
  /\ Status!Start(io.client, io.finite)
  /\ io' = IF last'.ok /\ ~io.already THEN [pc |-> "granted"] ELSE Idle
  /\ freeRun' = IF running THEN freeRun ELSE 0
  /\ UNCHANGED <<worldVars, stepped, held, stepKept>>

\* It pauses the world and replies.
PauseWorld ==
  /\ io.pc = "granted"
  /\ paused \/ world = "idle"
  /\ paused' = TRUE
  /\ io' = Idle
  /\ UNCHANGED <<statusVars, stepInc, world, seen, recordVars>>

\* StopCoSimulationHandler::handleMessage: it leaves the world as it is.
StopArrives(c) ==
  /\ io = Idle
  /\ Status!Stop(c)
  /\ UNCHANGED <<worldVars, io, recordVars>>

\* StepSimulationMsgHandler::handleMessage: any client may step.  In a world
\* that is not paused it steps nothing, and replies the same.
StepArrives(n) ==
  /\ io = Idle
  /\ IF paused
       THEN io' = [pc |-> "step", steps |-> n] /\ UNCHANGED stepKept
       ELSE stepKept' = (n = 0) /\ UNCHANGED io
  /\ UNCHANGED <<statusVars, worldVars, stepped, held, freeRun>>

\* Faulty variant: one step too many.
WorldStepOneMore ==
  /\ io.pc = "step"
  /\ world = "idle"
  /\ paused' = TRUE
  /\ stepInc' = io.steps + 1
  /\ io' = [io EXCEPT !.pc = "stepping"]
  /\ stepped' = 0
  /\ held' = running
  /\ UNCHANGED <<statusVars, world, seen, freeRun, stepKept>>

\* World::Step pauses the world if it is not paused, sets the steps ...
WorldStep ==
  /\ io.pc = "step"
  /\ world = "idle"
  /\ paused' = TRUE
  /\ stepInc' = io.steps
  /\ io' = [io EXCEPT !.pc = "stepping"]
  /\ stepped' = 0
  /\ held' = running
  /\ UNCHANGED <<statusVars, world, seen, freeRun, stepKept>>

\* ... and returns when none is left.  The handler replies.
WorldStepReturns ==
  /\ io.pc = "stepping"
  /\ world = "idle"
  /\ stepInc = 0
  /\ io' = Idle
  /\ stepKept' = (stepped >= io.steps)
  /\ UNCHANGED <<statusVars, worldVars, stepped, held, freeRun>>

-----------------------------------------------------------------------------
\* The world thread takes worldUpdateMutex and begins an update.
BeginUpdate ==
  /\ world = "idle"
  /\ ~paused \/ stepInc > 0
  /\ world' = "updating"
  /\ freeRun' = IF running /\ stepInc = 0 /\ freeRun < 2 THEN freeRun + 1 ELSE freeRun
  /\ UNCHANGED <<statusVars, paused, stepInc, seen, io, stepped, held, stepKept>>

\* Faulty variant: only a finite co-simulation counts.
CheckStatusOfFinite ==
  /\ world = "updating"
  /\ world' = "checked"
  /\ seen' = (running /\ timed)
  /\ UNCHANGED <<statusVars, paused, stepInc, io, recordVars>>

\* GazeboPlugin::onWorldUpdateEnd reads the status ...
CheckStatus ==
  /\ world = "updating"
  /\ world' = "checked"
  /\ seen' = running
  /\ UNCHANGED <<statusVars, paused, stepInc, io, recordVars>>

\* Faulty variant: the world is left running at the end of an update.
EndUpdateKeepsRunning ==
  /\ world = "checked"
  /\ world' = "idle"
  /\ UNCHANGED paused
  /\ stepInc' = IF paused /\ stepInc > 0 THEN stepInc - 1 ELSE stepInc
  /\ stepped' = IF stepped <= MaxSteps THEN stepped + 1 ELSE stepped
  /\ UNCHANGED <<statusVars, seen, io, held, freeRun, stepKept>>

\* ... and pauses the world if a co-simulation runs.  The update is over; a
\* paused world has taken a step.
EndUpdate ==
  /\ world = "checked"
  /\ world' = "idle"
  /\ paused' = (paused \/ seen)
  /\ stepInc' = IF paused' /\ stepInc > 0 THEN stepInc - 1 ELSE stepInc
  /\ stepped' = IF stepped <= MaxSteps THEN stepped + 1 ELSE stepped
  /\ UNCHANGED <<statusVars, seen, io, held, freeRun, stepKept>>

\* The status's service thread.
ServiceThread ==
  /\ Status!ServiceThread
  /\ held' = (held /\ running')
  /\ UNCHANGED <<worldVars, io, stepped, freeRun, stepKept>>

\* The user pauses or unpauses the world.
User ==
  /\ world = "idle"
  /\ paused' = ~paused
  /\ freeRun' = IF paused THEN 0 ELSE freeRun
  /\ UNCHANGED <<statusVars, stepInc, world, seen, io, stepped, held, stepKept>>

IoThread ==
  \/ \E c \in Client, finite \in BOOLEAN : RequestArrives(c, finite)
  \/ StartCoSimulation
  \/ PauseWorld
  \/ \E c \in Client : StopArrives(c)
  \/ \E n \in 0 .. MaxSteps : StepArrives(n)
  \/ WorldStep
  \/ WorldStepReturns

WorldThread == BeginUpdate \/ CheckStatus \/ EndUpdate

Next == IoThread \/ WorldThread \/ ServiceThread \/ User

Spec == Init /\ [][Next]_vars

\* Gazebo keeps updating, and the io thread leaves World::Step once it can.
FairSpec == Spec /\ WF_vars(WorldThread) /\ WF_vars(WorldStepReturns)

-----------------------------------------------------------------------------
\* The world never runs away from the co-simulation: whatever is read before
\* the start and used after it (RequestCoSimulationHandler.cpp:21, 35), at most
\* one update begins that nobody asked for, unless the user unpauses the world.
\* (GazeboPlugin.cpp:241-245 pauses at the end of every update.)
FreeRunBounded == freeRun <= 1

\* A step request never takes fewer steps than it asks for; and until the last
\* of them is taken no update slips in between, even if the user unpauses the
\* world under a running co-simulation (StepSimulationMsgHandler.cpp:16-20,
\* GazeboPlugin.cpp:241-245).
StepExact ==
  io.pc = "stepping" =>
    /\ stepped + stepInc >= io.steps
    /\ held /\ stepInc > 0 => stepped + stepInc = io.steps

\* The steps the io thread waits for, and every client behind it, are all taken
\* as long as the co-simulation lasts (StepSimulationMsgHandler.cpp:18): a user
\* who unpauses the world, which stops it from counting steps, is overruled.
StepsGetTaken ==
  io.pc = "stepping" ~> (stepInc = 0 \/ ~running)

\* A world that is not paused in a co-simulation is paused again
\* (GazeboPlugin.cpp:241-245).
WorldGetsPaused == (running /\ ~paused) ~> (paused \/ ~running)

\* A step request that is answered during a co-simulation has advanced the
\* simulation by the steps it asked for: "simulation is started for number of
\* input steps" (StepSimulationMsgHandler.hpp:29), and the reply is always NONE.
StepReplyMeansStepped ==
  [][running /\ stepKept => stepKept']_vars

=============================================================================
