------------------------ MODULE GazeboApplyCommander ------------------------
(***************************************************************************)
(* GazeboApplyCommander: the forces, poses and velocities that clients     *)
(* have asked for and that every world update applies until they expire.   *)
(*                                                                         *)
(* Two threads share it.  The server's io thread handles one request at a  *)
(* time: it reads the simulation time, adds the duration, and then inserts *)
(* the command; a wrench is inserted in two critical sections of m_mutex,  *)
(* its force first.  Gazebo's world thread advances the time and executes  *)
(* the commands, or resets the time and clears them.  A request that names *)
(* nothing that exists, or no mode, is refused and changes nothing; it has *)
(* no action.  Nor has the request to reset the time only: the body of     *)
(* GazeboWorldImpl::resetTime is commented out.                            *)
(*                                                                         *)
(* The commander keeps ten maps and vectors.  Here queue is their union: a *)
(* command carries its mode and kind.  SET commands of a kind are a map, a *)
(* new one replacing the one with its key; ADD commands are a vector.      *)
(***************************************************************************)
EXTENDS Naturals, Sequences

CONSTANTS
  Link, Joint,      \* targets: [model, part, axis], names being strings
  Duration,         \* the durations asked for
  MaxRequests,      \* bound: requests in one behaviour
  MaxTime,          \* bound: the simulation time
  MaxResets         \* bound: resets in one behaviour

Wrench == {"force", "torque"}
LinkKind == Wrench \cup {"worldPose", "linearVelocity", "angularVelocity"}
JointKind == {"effort", "position", "velocity"}
Mode == {"SET", "ADD"}
Kind == LinkKind \cup JointKind
Target == Link \cup Joint

ASSUME BoundAssumption ==
  /\ Duration \subseteq Nat
  /\ MaxRequests \in Nat /\ MaxTime \in Nat /\ MaxResets \in Nat

VARIABLES
  queue,    \* the commands stored
  simTime,  \* World::SimTime, in steps
  world,    \* the world thread: "idle", "advanced" the time, or has "reset" it
  io,       \* the request the io thread handles: the commands still to insert
  input,    \* the commands the last update applied
  \* Variables that only record what happened.
  requests, \* number of requests accepted
  resets,   \* number of resets of the time
  log       \* the commands inserted since the commander was last cleared

vars == <<queue, simTime, world, io, input, requests, resets, log>>

Command ==
  [req : 1 .. MaxRequests, mode : Mode, kind : Kind, target : Target,
   end : Nat, era : 0 .. MaxResets]

\* Faulty variant: a wrench is inserted under its model's name only.
KeyOfModel(kind, t) ==
  IF kind \in Wrench THEN t.model ELSE <<t.part, t.axis>>

\* The key a handler inserts a command under.
Key(kind, t) ==
  IF kind \in Wrench THEN t.model \o t.part ELSE <<t.part, t.axis>>

Replaces(c, d) ==
  /\ c.mode = "SET" /\ d.mode = "SET"
  /\ c.kind = d.kind
  /\ Key(c.kind, c.target) = Key(d.kind, d.target)

\* The types, and that the SET commands of a kind are a map: one for a key
\* (GazeboApplyCommander.cpp:22-97).
TypeOK ==
  /\ queue \subseteq Command
  /\ \A c, d \in queue : Replaces(c, d) => c = d
  /\ simTime \in 0 .. MaxTime
  /\ world \in {"idle", "advanced", "reset"}
  /\ io \in Seq(Command)
  /\ input \subseteq Command
  /\ requests \in 0 .. MaxRequests
  /\ resets \in 0 .. MaxResets
  /\ log \subseteq Command

Init ==
  /\ queue = {}
  /\ simTime = 0
  /\ world = "idle"
  /\ io = << >>
  /\ input = {}
  /\ requests = 0
  /\ resets = 0
  /\ log = {}

-----------------------------------------------------------------------------
\* No two targets of a kind have the same key: what the clients must see to.
UniqueNames ==
  \A kind \in Kind :
    LET target == IF kind \in JointKind THEN Joint ELSE Link
    IN  \A t, u \in target : Key(kind, t) = Key(kind, u) => t = u

\* The handlers' end time; era tells the times before and after a reset apart.
NewCommand(mode, kind, t, d) ==
  [req |-> requests + 1, mode |-> mode, kind |-> kind, target |-> t,
   end |-> simTime + d, era |-> resets]

\* A handler accepts a request and is about to insert its commands.
Accept(commands) ==
  /\ io = << >>
  /\ requests < MaxRequests
  /\ requests' = requests + 1
  /\ io' = commands
  /\ UNCHANGED <<queue, simTime, world, input, resets, log>>

ApplyLinkWrench(t, force, torque, d) ==
  Accept(<<NewCommand(force, "force", t, d), NewCommand(torque, "torque", t, d)>>)

SetLinkWorldPose(t, d) == Accept(<<NewCommand("SET", "worldPose", t, d)>>)

SetLinkLinearVelocity(t, d) ==
  Accept(<<NewCommand("SET", "linearVelocity", t, d)>>)

SetLinkAngularVelocity(t, d) ==
  Accept(<<NewCommand("SET", "angularVelocity", t, d)>>)

ApplyJointTorque(t, d) == Accept(<<NewCommand("SET", "effort", t, d)>>)

SetJointPosition(t, d) == Accept(<<NewCommand("SET", "position", t, d)>>)

SetJointVelocity(t, d) == Accept(<<NewCommand("SET", "velocity", t, d)>>)

\* Faulty variant: SET commands are a vector as well.
InsertAppends ==
  /\ io # << >>
  /\ queue' = queue \cup {Head(io)}
  /\ log' = log \cup {Head(io)}
  /\ io' = Tail(io)
  /\ UNCHANGED <<simTime, world, input, requests, resets>>

\* Faulty variant: an insert where an assignment is meant keeps the old command.
InsertKeepsOld ==
  /\ io # << >>
  /\ queue' = IF \E d \in queue : Replaces(Head(io), d)
                THEN queue ELSE queue \cup {Head(io)}
  /\ log' = log \cup {Head(io)}
  /\ io' = Tail(io)
  /\ UNCHANGED <<simTime, world, input, requests, resets>>

\* The insert functions: one critical section for each command.
Insert ==
  /\ io # << >>
  /\ queue' = {d \in queue : ~Replaces(Head(io), d)} \cup {Head(io)}
  /\ log' = log \cup {Head(io)}
  /\ io' = Tail(io)
  /\ UNCHANGED <<simTime, world, input, requests, resets>>

-----------------------------------------------------------------------------
Live(commands) == {c \in commands : simTime <= c.end}

\* Within one update the ADD commands are applied before the SET commands of
\* their kind, and a SET overwrites what was added.
Effective(commands) ==
  {c \in commands :
    c.mode = "ADD" =>
      ~ \E d \in commands :
          d.mode = "SET" /\ d.kind = c.kind /\ d.target = c.target}

\* Gazebo begins an update: it advances the time ...
AdvanceTime ==
  /\ world = "idle"
  /\ simTime < MaxTime
  /\ simTime' = simTime + 1
  /\ world' = "advanced"
  /\ UNCHANGED <<queue, io, input, requests, resets, log>>

\* ... and executeApplyCommands applies what is live and erases the rest.
ExecuteApplyCommands ==
  /\ world = "advanced"
  /\ world' = "idle"
  /\ queue' = Live(queue)
  /\ input' = Effective(Live(queue))
  /\ UNCHANGED <<simTime, io, requests, resets, log>>

\* The user resets the world in the GUI: the update sets the time to 0 ...
UserReset ==
  /\ world = "advanced"
  /\ resets < MaxResets
  /\ world' = "reset"
  /\ simTime' = 0
  /\ resets' = resets + 1
  /\ UNCHANGED <<queue, io, input, requests, log>>

\* Faulty variant: the ADD commands are not cleared.
ClearSetCommands ==
  /\ queue' = {c \in queue : c.mode = "ADD"}
  /\ log' = {}

ClearApplyCommands ==
  /\ queue' = {}
  /\ log' = {}

\* ... and raises the event that clears the commands.
OnTimeReset ==
  /\ world = "reset"
  /\ world' = "idle"
  /\ ClearApplyCommands
  /\ UNCHANGED <<simTime, io, input, requests, resets>>

\* A client resets the world: the io thread does both, between two updates.
ResetSimulation ==
  /\ io = << >>
  /\ world = "idle"
  /\ resets < MaxResets
  /\ simTime' = 0
  /\ resets' = resets + 1
  /\ ClearApplyCommands
  /\ UNCHANGED <<world, io, input, requests>>

IoThread ==
  \/ \E t \in Link, force, torque \in Mode, d \in Duration :
       ApplyLinkWrench(t, force, torque, d)
  \/ \E t \in Link, d \in Duration :
       \/ SetLinkWorldPose(t, d)
       \/ SetLinkLinearVelocity(t, d)
       \/ SetLinkAngularVelocity(t, d)
  \/ \E t \in Joint, d \in Duration :
       \/ ApplyJointTorque(t, d)
       \/ SetJointPosition(t, d)
       \/ SetJointVelocity(t, d)
  \/ Insert
  \/ ResetSimulation

WorldThread == AdvanceTime \/ ExecuteApplyCommands \/ UserReset \/ OnTimeReset

Next == IoThread \/ WorldThread

Spec == Init /\ [][Next]_vars

-----------------------------------------------------------------------------
\* A later SET of the same kind on the same target.
Supersedes(d, c) ==
  /\ c.mode = "SET" /\ d.mode = "SET"
  /\ c.kind = d.kind /\ c.target = d.target
  /\ c.req < d.req

\* The SET commands that no later one supersedes.
LatestSets ==
  {c \in log : c.mode = "SET" /\ ~ \E d \in log : Supersedes(d, c)}

\* What an update should apply: on each target, the latest SET if it has not
\* expired, and else every ADD that has not.
Promised ==
  {c \in log :
    /\ simTime <= c.end
    /\ IF c.mode = "SET"
         THEN c \in LatestSets
         ELSE \A d \in LatestSets :
                d.kind = c.kind /\ d.target = c.target => d.end < simTime}

\* Every update applies exactly what the documentation promises, although the
\* commander erases and overwrites commands and never looks at a target: ADD
\* accumulates, SET ignores the ADDs for its duration, the latest SET wins and
\* nothing comes back after it (GazeboApplyCommander.hpp:16-36).
InputAsPromised ==
  [][world = "advanced" /\ world' = "idle" => input' = Promised]_vars

\* A reset of the time leaves no command behind, except those of the one request
\* that the io thread was handling: its end time was computed before the reset
\* and it may be inserted after (ApplyLinkWrenchMsgHandler.cpp:45-75,
\* GazeboPlugin.cpp:247-250).
ResetLeavesOneRequest ==
  world # "reset" =>
    \A c, d \in {e \in queue : e.era # resets} : c.req = d.req

\* A wrench is never left with its force alone: between the two critical
\* sections an update may see only the force, but once the handler is done the
\* torque it came with is stored as long as the force, unless a later SET
\* torque for the same link has taken its place.  No torque of another link, no
\* ADD and no reset costs it (ApplyLinkWrenchMsgHandler.cpp:51-75).
ForceBringsTorque ==
  \A c \in queue :
    c.kind = "force" =>
      \/ \E i \in 1 .. Len(io) : io[i].kind = "torque" /\ io[i].req = c.req
      \/ \E t \in log :
           /\ t.kind = "torque" /\ t.req = c.req
           /\ t \in queue \/ \E d \in log : Supersedes(d, t)

=============================================================================
