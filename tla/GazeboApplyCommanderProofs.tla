--------------------- MODULE GazeboApplyCommanderProofs ---------------------
(***************************************************************************)
(* Proofs about GazeboApplyCommander, for any targets, durations and       *)
(* bounds.                                                                 *)
(***************************************************************************)
EXTENDS GazeboApplyCommander, TLAPS

-----------------------------------------------------------------------------
\* A handler's command is a command.
LEMMA NewCommandType ==
  ASSUME TypeOK, requests < MaxRequests,
         NEW mode \in Mode, NEW kind \in Kind, NEW t \in Target, NEW d \in Duration
  PROVE  NewCommand(mode, kind, t, d) \in Command
<1>1. requests + 1 \in 1 .. MaxRequests
  BY BoundAssumption DEF TypeOK
<1>2. simTime + d \in Nat
  BY BoundAssumption DEF TypeOK
<1>3. QED
  BY <1>1, <1>2 DEF TypeOK, NewCommand, Command

\* A request to set something else than a wrench.
SetArrives ==
  \/ \E t \in Link, d \in Duration :
       \/ SetLinkWorldPose(t, d)
       \/ SetLinkLinearVelocity(t, d)
       \/ SetLinkAngularVelocity(t, d)
  \/ \E t \in Joint, d \in Duration :
       \/ ApplyJointTorque(t, d)
       \/ SetJointPosition(t, d)
       \/ SetJointVelocity(t, d)

\* It is one SET command, for a target of its kind.
LEMMA SetIsOneCommand ==
  ASSUME SetArrives
  PROVE  \E kind \in Kind \ Wrench, t \in Target, d \in Duration :
           /\ Accept(<<NewCommand("SET", kind, t, d)>>)
           /\ t \in IF kind \in JointKind THEN Joint ELSE Link
<1>1. CASE \E t \in Link, d \in Duration :
             \/ SetLinkWorldPose(t, d)
             \/ SetLinkLinearVelocity(t, d)
             \/ SetLinkAngularVelocity(t, d)
  <2>1. \E kind \in {"worldPose", "linearVelocity", "angularVelocity"},
           t \in Link, d \in Duration : Accept(<<NewCommand("SET", kind, t, d)>>)
    BY <1>1 DEF SetLinkWorldPose, SetLinkLinearVelocity, SetLinkAngularVelocity
  <2>2. QED
    BY <2>1 DEF Kind, LinkKind, JointKind, Wrench, Target
<1>2. CASE \E t \in Joint, d \in Duration :
             \/ ApplyJointTorque(t, d)
             \/ SetJointPosition(t, d)
             \/ SetJointVelocity(t, d)
  <2>1. \E kind \in JointKind, t \in Joint, d \in Duration :
          Accept(<<NewCommand("SET", kind, t, d)>>)
    BY <1>2 DEF ApplyJointTorque, SetJointPosition, SetJointVelocity, JointKind
  <2>2. QED
    BY <2>1 DEF Kind, LinkKind, JointKind, Wrench, Target
<1>3. QED
  BY <1>1, <1>2 DEF SetArrives

\* Two commands under one key replace each other.
LEMMA ReplacesSymmetric ==
  \A c, d : Replaces(c, d) => Replaces(d, c)
BY DEF Replaces

\* Type correctness: GazeboApplyCommander.cpp:22-314 and the handlers that
\* insert commands keep every variable in its type.
THEOREM CommanderTypeCorrect == Spec => []TypeOK
<1>1. Init => TypeOK
  BY BoundAssumption DEF Init, TypeOK
<1>2. TypeOK /\ [Next]_vars => TypeOK'
  <2> SUFFICES ASSUME TypeOK, [Next]_vars PROVE TypeOK'
    OBVIOUS
  <2> USE BoundAssumption
  <2>1. ASSUME NEW t \in Link, NEW force \in Mode, NEW torque \in Mode,
               NEW d \in Duration, ApplyLinkWrench(t, force, torque, d)
        PROVE  TypeOK'
    <3>1. /\ NewCommand(force, "force", t, d) \in Command
          /\ NewCommand(torque, "torque", t, d) \in Command
      BY <2>1, NewCommandType DEF ApplyLinkWrench, Accept, Kind, LinkKind, Wrench, Target
    <3>2. QED
      BY <2>1, <3>1 DEF TypeOK, ApplyLinkWrench, Accept
  <2>2. ASSUME SetArrives PROVE TypeOK'
    <3>1. PICK kind \in Kind \ Wrench, t \in Target, d \in Duration :
            Accept(<<NewCommand("SET", kind, t, d)>>)
      BY <2>2, SetIsOneCommand
    <3>2. NewCommand("SET", kind, t, d) \in Command
      BY <3>1, NewCommandType DEF Accept, Mode
    <3>3. QED
      BY <3>1, <3>2 DEF TypeOK, Accept
  <2>4. CASE Insert
    <3>1. Head(io) \in Command /\ Tail(io) \in Seq(Command)
      BY <2>4 DEF TypeOK, Insert
    <3>2. \A c, d \in queue' : Replaces(c, d) => c = d
      BY <2>4, ReplacesSymmetric DEF TypeOK, Insert
    <3>3. QED
      BY <2>4, <3>1, <3>2 DEF TypeOK, Insert
  <2>5. CASE ResetSimulation
    BY <2>5 DEF TypeOK, ResetSimulation, ClearApplyCommands
  <2>6. CASE AdvanceTime
    BY <2>6 DEF TypeOK, AdvanceTime
  <2>7. CASE ExecuteApplyCommands
    BY <2>7 DEF TypeOK, ExecuteApplyCommands, Live, Effective
  <2>8. CASE UserReset
    BY <2>8 DEF TypeOK, UserReset
  <2>9. CASE OnTimeReset
    BY <2>9 DEF TypeOK, OnTimeReset, ClearApplyCommands
  <2>10. CASE UNCHANGED vars
    BY <2>10 DEF TypeOK, vars
  <2>11. QED
    BY <2>1, <2>2, <2>4, <2>5, <2>6, <2>7, <2>8, <2>9, <2>10
       DEF Next, IoThread, WorldThread, SetArrives
<1>3. QED
  BY <1>1, <1>2, PTL DEF Spec

-----------------------------------------------------------------------------
\* What the io thread has still to insert is newer than all that is logged: the
\* requests are numbered as they come, and the two halves of a wrench differ
\* in kind.
Ordered ==
  /\ \A c \in log : c.req <= requests
  /\ \A i \in 1 .. Len(io) : io[i].req = requests
  /\ \A i, j \in 1 .. Len(io) : i # j => io[i].kind # io[j].kind
  /\ \A c \in log, i \in 1 .. Len(io) :
       c.req = io[i].req => c.kind # io[i].kind

\* A command is for a target of its kind.
KindsFit ==
  \A c \in log \cup {io[i] : i \in 1 .. Len(io)} :
    c.target \in IF c.kind \in JointKind THEN Joint ELSE Link

\* The commander stores the logged commands but the superseded SETs, and every
\* command that is missing has expired.  It fails for a moment when the time is
\* reset and the commands are not cleared yet.
QueueIsLog ==
  /\ queue \subseteq log
  /\ world # "reset" =>
       /\ \A c \in queue, d \in log : ~ Supersedes(d, c)
       /\ \A c \in log :
            \/ c \in queue
            \/ c.end < simTime
            \/ \E d \in log : Supersedes(d, c)

QueueInv == Ordered /\ KindsFit /\ QueueIsLog

\* The commands a handler accepts are newer than the log and differ in kind.
LEMMA AcceptKeepsQueueInv ==
  ASSUME TypeOK, QueueInv, NEW commands \in Seq(Command), Accept(commands),
         \A i \in 1 .. Len(commands) :
           /\ commands[i].req = requests + 1
           /\ commands[i].target \in
                IF commands[i].kind \in JointKind THEN Joint ELSE Link,
         \A i, j \in 1 .. Len(commands) :
           i # j => commands[i].kind # commands[j].kind
  PROVE  QueueInv'
<1> USE DEF TypeOK, QueueInv, Accept
<1>1. \A c \in log : c.req \in Nat
  BY BoundAssumption DEF Command
<1>2. Ordered'
  BY <1>1, BoundAssumption DEF Ordered
<1>3. KindsFit'
  BY DEF KindsFit
<1>4. QueueIsLog'
  BY DEF QueueIsLog, Supersedes
<1>5. QED
  BY <1>2, <1>3, <1>4

\* What is left in hand after an insertion is still newer than the log.
LEMMA InsertKeepsOrdered ==
  ASSUME TypeOK, Ordered, Insert
  PROVE  Ordered'
<1> DEFINE h == Head(io)
<1>1. io # << >> /\ h = io[1] /\ 1 \in 1 .. Len(io) /\ h \in Command
  BY DEF TypeOK, Insert
<1>2. \A i \in 1 .. Len(io') : i + 1 \in 1 .. Len(io) /\ io'[i] = io[i + 1]
  BY DEF TypeOK, Insert
<1>3. log' = log \cup {h} /\ requests' = requests
  BY DEF Insert
<1>4. \A c \in log \cup {h} : c.req \in Nat
  BY <1>1, BoundAssumption DEF TypeOK, Command
<1>5. \A c \in log' : c.req <= requests'
  BY <1>1, <1>3, <1>4 DEF Ordered
<1>6. \A i \in 1 .. Len(io') : io'[i].req = requests'
  BY <1>2, <1>3 DEF Ordered
<1>7. ASSUME NEW i \in 1 .. Len(io'), NEW j \in 1 .. Len(io'), i # j
      PROVE  io'[i].kind # io'[j].kind
  <2>1. i + 1 # j + 1
    BY <1>7
  <2>2. QED
    BY <1>2, <2>1 DEF Ordered
<1>8. \A c \in log', i \in 1 .. Len(io') :
        c.req = io'[i].req => c.kind # io'[i].kind
  BY <1>1, <1>2, <1>3 DEF Ordered
<1>9. QED
  BY <1>5, <1>6, <1>7, <1>8 DEF Ordered

\* An insertion replaces exactly the SET that the new command supersedes, as no
\* two targets share a key.
LEMMA ReplacedIsSuperseded ==
  ASSUME UniqueNames, TypeOK, Ordered, KindsFit, Insert, NEW c \in log
  PROVE  Replaces(Head(io), c) <=> Supersedes(Head(io), c)
<1> DEFINE h == Head(io)
<1>1. h = io[1] /\ 1 \in 1 .. Len(io) /\ h \in Command
  BY DEF TypeOK, Insert
<1>2. h.req \in Nat /\ c.req \in Nat /\ h.kind \in Kind
  BY <1>1, BoundAssumption DEF TypeOK, Command
<1>3. c.req <= h.req /\ (c.req = h.req => c.kind # h.kind)
  BY <1>1 DEF Ordered
<1>4. ASSUME Replaces(h, c) PROVE c.target = h.target
  <2>1. c.kind = h.kind /\ Key(h.kind, h.target) = Key(h.kind, c.target)
    BY <1>4 DEF Replaces
  <2>2. /\ c.target \in IF h.kind \in JointKind THEN Joint ELSE Link
        /\ h.target \in IF h.kind \in JointKind THEN Joint ELSE Link
    BY <1>1, <2>1 DEF KindsFit
  <2>3. QED
    BY <1>2, <2>1, <2>2 DEF UniqueNames
<1>5. ASSUME Replaces(h, c) PROVE c.req < h.req
  BY <1>2, <1>3, <1>5 DEF Replaces
<1>6. QED
  BY <1>4, <1>5 DEF Replaces, Supersedes

LEMMA InsertKeepsQueueInv ==
  ASSUME UniqueNames, TypeOK, QueueInv, Insert
  PROVE  QueueInv'
<1> DEFINE h == Head(io)
<1> USE DEF TypeOK, QueueInv
<1>1. io # << >> /\ h = io[1] /\ 1 \in 1 .. Len(io) /\ h \in Command
  BY DEF Insert
<1>2. \A i \in 1 .. Len(io') : i + 1 \in 1 .. Len(io) /\ io'[i] = io[i + 1]
  BY DEF Insert
<1>3. log' = log \cup {h} /\ queue' = {d \in queue : ~Replaces(h, d)} \cup {h}
  BY DEF Insert
<1>4. UNCHANGED <<simTime, world, requests>>
  BY DEF Insert
<1>5. \A c \in log \cup {h} : c.req \in Nat /\ c.end \in Nat /\ c.kind \in Kind
  BY <1>1, BoundAssumption DEF Command
<1>6. Ordered'
  BY InsertKeepsOrdered
<1>7. KindsFit'
  BY <1>1, <1>2, <1>3 DEF KindsFit
<1>8. \A c \in log : c.req <= h.req /\ (c.req = h.req => c.kind # h.kind)
  BY <1>1 DEF Ordered
<1>9. \A c \in log : ~ Supersedes(c, h)
  BY <1>5, <1>8 DEF Supersedes
<1>10. \A c \in log : Replaces(h, c) <=> Supersedes(h, c)
  BY ReplacedIsSuperseded
<1>11. QueueIsLog'
  <2>1. queue' \subseteq log'
    BY <1>3 DEF QueueIsLog
  <2>2. ASSUME world # "reset", NEW c \in queue', NEW d \in log'
        PROVE  ~ Supersedes(d, c)
    <3>1. CASE c = h
      BY <1>3, <1>5, <1>9, <3>1 DEF Supersedes
    <3>2. CASE c # h /\ d = h
      BY <1>3, <1>10, <3>2 DEF QueueIsLog
    <3>3. CASE c # h /\ d # h
      BY <1>3, <2>2, <3>3 DEF QueueIsLog
    <3>4. QED
      BY <3>1, <3>2, <3>3
  <2>3. ASSUME world # "reset", NEW c \in log'
        PROVE  \/ c \in queue'
               \/ c.end < simTime
               \/ \E d \in log' : Supersedes(d, c)
    <3>1. CASE c = h
      BY <1>3, <3>1
    <3>2. CASE c \in log
      BY <1>3, <1>10, <2>3, <3>2 DEF QueueIsLog
    <3>3. QED
      BY <1>3, <3>1, <3>2
  <2>4. QED
    BY <1>4, <2>1, <2>2, <2>3, Zenon DEF QueueIsLog, Supersedes
<1>12. QED
  BY <1>6, <1>7, <1>11

LEMMA QueueInvInductive ==
  ASSUME UniqueNames
  PROVE  Spec => []QueueInv
<1>1. Init => QueueInv
  BY DEF Init, QueueInv, Ordered, KindsFit, QueueIsLog
<1>2. TypeOK /\ TypeOK' /\ QueueInv /\ [Next]_vars => QueueInv'
  <2> SUFFICES ASSUME TypeOK, TypeOK', QueueInv, [Next]_vars PROVE QueueInv'
    OBVIOUS
  <2>1. ASSUME NEW t \in Link, NEW force \in Mode, NEW torque \in Mode,
               NEW d \in Duration, ApplyLinkWrench(t, force, torque, d)
        PROVE  QueueInv'
    <3> DEFINE cs == <<NewCommand(force, "force", t, d),
                       NewCommand(torque, "torque", t, d)>>
    <3>1. io' = cs /\ Accept(cs) /\ cs \in Seq(Command)
      BY <2>1 DEF ApplyLinkWrench, Accept, TypeOK
    <3>2. \A i \in 1 .. Len(cs) :
            /\ cs[i].req = requests + 1
            /\ cs[i].target \in IF cs[i].kind \in JointKind THEN Joint ELSE Link
      BY DEF NewCommand, JointKind
    <3>3. \A i, j \in 1 .. Len(cs) : i # j => cs[i].kind # cs[j].kind
      BY DEF NewCommand
    <3> HIDE DEF cs
    <3>4. QED
      BY <3>1, <3>2, <3>3, AcceptKeepsQueueInv
  <2>2. ASSUME SetArrives PROVE QueueInv'
    <3>1. PICK kind \in Kind \ Wrench, t \in Target, d \in Duration :
            /\ Accept(<<NewCommand("SET", kind, t, d)>>)
            /\ t \in IF kind \in JointKind THEN Joint ELSE Link
      BY <2>2, SetIsOneCommand
    <3> DEFINE cs == <<NewCommand("SET", kind, t, d)>>
    <3>2. io' = cs /\ Accept(cs) /\ cs \in Seq(Command)
      BY <3>1 DEF Accept, TypeOK
    <3>3. \A i \in 1 .. Len(cs) :
            /\ cs[i].req = requests + 1
            /\ cs[i].target \in IF cs[i].kind \in JointKind THEN Joint ELSE Link
      BY <3>1 DEF NewCommand
    <3>4. \A i, j \in 1 .. Len(cs) : i # j => cs[i].kind # cs[j].kind
      OBVIOUS
    <3> HIDE DEF cs
    <3>5. QED
      BY <3>2, <3>3, <3>4, AcceptKeepsQueueInv
  <2>4. CASE Insert
    BY <2>4, InsertKeepsQueueInv
  <2>5. CASE ResetSimulation
    BY <2>5 DEF TypeOK, QueueInv, Ordered, KindsFit, QueueIsLog,
                ResetSimulation, ClearApplyCommands
  <2>6. CASE AdvanceTime
    <3>1. UNCHANGED <<queue, log, io, requests>> /\ simTime' = simTime + 1
          /\ world # "reset"
      BY <2>6 DEF AdvanceTime
    <3>2. \A c \in log : c.end \in Nat
      BY DEF TypeOK, Command
    <3>3. Ordered' /\ KindsFit'
      BY <3>1 DEF QueueInv, Ordered, KindsFit
    <3>4. QueueIsLog'
      BY <3>1, <3>2 DEF TypeOK, QueueInv, QueueIsLog, Supersedes
    <3>5. QED
      BY <3>3, <3>4 DEF QueueInv
  <2>7. CASE ExecuteApplyCommands
    <3>1. UNCHANGED <<simTime, log, io, requests>> /\ queue' = Live(queue)
          /\ world # "reset"
      BY <2>7 DEF ExecuteApplyCommands
    <3>2. \A c \in log : c.end \in Nat
      BY DEF TypeOK, Command
    <3>3. Ordered' /\ KindsFit'
      BY <3>1 DEF QueueInv, Ordered, KindsFit
    <3>4. QueueIsLog'
      BY <3>1, <3>2 DEF TypeOK, QueueInv, QueueIsLog, Supersedes, Live
    <3>5. QED
      BY <3>3, <3>4 DEF QueueInv
  <2>8. CASE UserReset
    BY <2>8 DEF QueueInv, Ordered, KindsFit, QueueIsLog, UserReset
  <2>9. CASE OnTimeReset
    BY <2>9 DEF QueueInv, Ordered, KindsFit, QueueIsLog, OnTimeReset,
                ClearApplyCommands
  <2>10. CASE UNCHANGED vars
    BY <2>10 DEF QueueInv, Ordered, KindsFit, QueueIsLog, Supersedes, vars
  <2>11. QED
    BY <2>1, <2>2, <2>4, <2>5, <2>6, <2>7, <2>8, <2>9, <2>10
       DEF Next, IoThread, WorldThread, SetArrives
<1>3. QED
  BY <1>1, <1>2, CommanderTypeCorrect, PTL DEF Spec

\* If no two targets of a kind share a key, every update applies exactly what
\* the documentation promises (GazeboApplyCommander.hpp:16-36), whatever the
\* threads interleave.
THEOREM UpdatesApplyWhatIsPromised ==
  ASSUME UniqueNames
  PROVE  Spec => InputAsPromised
<1> DEFINE Applies == world = "advanced" /\ world' = "idle" => input' = Promised
<1>1. TypeOK /\ QueueInv /\ [Next]_vars => [Applies]_vars
  <2> SUFFICES ASSUME TypeOK, QueueInv, Next PROVE Applies
    OBVIOUS
  <2>1. CASE ExecuteApplyCommands
    <3>1. \A c \in log : c.end \in Nat /\ c.mode \in Mode
      BY DEF TypeOK, Command
    <3>2. simTime \in Nat
      BY DEF TypeOK
    <3>3. Live(queue) =
            {c \in log : simTime <= c.end /\ ~ \E d \in log : Supersedes(d, c)}
      BY <2>1, <3>1, <3>2
         DEF QueueInv, QueueIsLog, ExecuteApplyCommands, Live
    <3>4. \A c, d \in log : Supersedes(d, c) => c.mode = "SET"
      BY DEF Supersedes
    <3>5. Effective(Live(queue)) = Promised
      BY <3>1, <3>2, <3>3, <3>4 DEF Effective, Promised, LatestSets, Mode
    <3>6. QED
      BY <2>1, <3>5 DEF ExecuteApplyCommands
  <2>2. CASE ~ExecuteApplyCommands
    BY <2>2 DEF Next, IoThread, WorldThread, ApplyLinkWrench,
                SetLinkWorldPose, SetLinkLinearVelocity, SetLinkAngularVelocity,
                ApplyJointTorque, SetJointPosition, SetJointVelocity, Accept,
                Insert, ResetSimulation, AdvanceTime, UserReset, OnTimeReset
  <2>3. QED
    BY <2>1, <2>2
<1>2. QED
  BY <1>1, CommanderTypeCorrect, QueueInvInductive, PTL DEF Spec, InputAsPromised

-----------------------------------------------------------------------------
\* The commands in the io thread's hands, of one request.
InHand == {io[i] : i \in 1 .. Len(io)}

OneRequestInHand == \A c, d \in InHand : c.req = d.req

\* The commands from before a reset, stored or in hand, are of one request.
EraInv ==
  /\ OneRequestInHand
  /\ world # "reset" =>
       \A c, d \in {e \in queue \cup InHand : e.era # resets} : c.req = d.req

\* What Accept puts in the io thread's hands.
LEMMA AcceptKeepsEraInv ==
  ASSUME EraInv, NEW commands, Accept(commands),
         \A i, j \in 1 .. Len(commands) :
           commands[i].req = commands[j].req /\ commands[i].era = resets
  PROVE  EraInv'
<1>1. \A c \in InHand' : c.era = resets'
  BY DEF Accept, InHand
<1>2. OneRequestInHand'
  BY DEF OneRequestInHand, Accept, InHand
<1>3. UNCHANGED <<queue, world, resets>>
  BY DEF Accept
<1>4. QED
  BY <1>1, <1>2, <1>3 DEF EraInv

\* A reset of the time leaves behind no command but those of the request in
\* hand (ApplyLinkWrenchMsgHandler.cpp:45-75, GazeboPlugin.cpp:247-250).
THEOREM ResetSparesOneRequest == Spec => []ResetLeavesOneRequest
<1>1. Init => EraInv
  BY DEF Init, EraInv, OneRequestInHand, InHand
<1>2. TypeOK /\ EraInv /\ [Next]_vars => EraInv'
  <2> SUFFICES ASSUME TypeOK, EraInv, [Next]_vars PROVE EraInv'
    OBVIOUS
  <2>1. ASSUME NEW t \in Link, NEW force \in Mode, NEW torque \in Mode,
               NEW d \in Duration, ApplyLinkWrench(t, force, torque, d)
        PROVE  EraInv'
    BY <2>1, AcceptKeepsEraInv DEF ApplyLinkWrench, NewCommand
  <2>2. ASSUME SetArrives PROVE EraInv'
    <3>1. PICK kind \in Kind \ Wrench, t \in Target, d \in Duration :
            Accept(<<NewCommand("SET", kind, t, d)>>)
      BY <2>2, SetIsOneCommand
    <3> DEFINE cs == <<NewCommand("SET", kind, t, d)>>
    <3>2. Accept(cs)
      BY <3>1
    <3>3. \A i, j \in 1 .. Len(cs) : cs[i].req = cs[j].req /\ cs[i].era = resets
      BY DEF NewCommand
    <3> HIDE DEF cs
    <3>4. QED
      BY <3>2, <3>3, AcceptKeepsEraInv
  <2>3. CASE Insert
    <3>1. Head(io) \in InHand /\ InHand' \subseteq InHand
      <4>1. io # << >> /\ io \in Seq(Command) /\ io' = Tail(io)
        BY <2>3 DEF TypeOK, Insert
      <4>2. Head(io) = io[1] /\ 1 \in 1 .. Len(io)
        BY <4>1
      <4>3. \A i \in 1 .. Len(io') : i + 1 \in 1 .. Len(io) /\ io'[i] = io[i + 1]
        BY <4>1
      <4>4. QED
        BY <4>2, <4>3 DEF InHand
    <3>2. queue' \subseteq queue \cup {Head(io)} /\ UNCHANGED <<world, resets>>
      BY <2>3 DEF Insert
    <3> HIDE DEF InHand
    <3>3. QED
      BY <3>1, <3>2 DEF EraInv, OneRequestInHand
  <2>4. CASE ResetSimulation
    <3>1. InHand' = {} /\ queue' = {}
      BY <2>4 DEF ResetSimulation, ClearApplyCommands, InHand
    <3>2. QED
      BY <3>1 DEF EraInv, OneRequestInHand
  <2>5. CASE AdvanceTime
    BY <2>5 DEF AdvanceTime, EraInv, OneRequestInHand, InHand
  <2>6. CASE ExecuteApplyCommands
    BY <2>6 DEF ExecuteApplyCommands, Live, EraInv, OneRequestInHand, InHand
  <2>7. CASE UserReset
    BY <2>7 DEF UserReset, EraInv, OneRequestInHand, InHand
  <2>8. CASE OnTimeReset
    BY <2>8 DEF OnTimeReset, ClearApplyCommands, EraInv, OneRequestInHand, InHand
  <2>9. CASE UNCHANGED vars
    BY <2>9 DEF vars, EraInv, OneRequestInHand, InHand
  <2>10. QED
    BY <2>1, <2>2, <2>3, <2>4, <2>5, <2>6, <2>7, <2>8, <2>9
       DEF Next, IoThread, WorldThread, SetArrives
<1>3. EraInv => ResetLeavesOneRequest
  BY DEF EraInv, ResetLeavesOneRequest
<1>4. QED
  BY <1>1, <1>2, <1>3, CommanderTypeCorrect, PTL DEF Spec

-----------------------------------------------------------------------------
\* The torque of a stored force: of the same request and with the same end.
TorqueOf(c, d) == d.kind = "torque" /\ d.req = c.req /\ d.end = c.end

\* It is in hand, or has been inserted and is stored unless superseded.
HasTorque(c) ==
  \/ \E d \in InHand : TorqueOf(c, d)
  \/ \E t \in log :
       /\ TorqueOf(c, t)
       /\ t \in queue \/ \E d \in log : Supersedes(d, t)

\* A force in hand is followed by its torque.
WrenchInHand ==
  \A i \in 1 .. Len(io) :
    io[i].kind = "force" =>
      /\ i + 1 \in 1 .. Len(io)
      /\ io[i + 1].kind = "torque"
      /\ io[i + 1].req = io[i].req /\ io[i + 1].end = io[i].end

WrenchInv ==
  /\ WrenchInHand
  /\ \A c \in queue : c.kind = "force" => HasTorque(c)

LEMMA AcceptKeepsWrenchInv ==
  ASSUME WrenchInv, NEW commands, Accept(commands),
         \A i \in 1 .. Len(commands) :
           commands[i].kind = "force" =>
             /\ i + 1 \in 1 .. Len(commands)
             /\ commands[i + 1].kind = "torque"
             /\ commands[i + 1].req = commands[i].req
             /\ commands[i + 1].end = commands[i].end
  PROVE  WrenchInv'
<1>1. WrenchInHand'
  BY DEF Accept, WrenchInHand
<1>2. InHand = {} /\ UNCHANGED <<queue, log>>
  BY DEF Accept, InHand
<1>3. \A c : HasTorque(c) => HasTorque(c)'
  BY <1>2 DEF HasTorque, TorqueOf, Supersedes
<1>4. QED
  BY <1>1, <1>2, <1>3 DEF WrenchInv

\* An insertion replaces a torque only by one that supersedes it.
LEMMA InsertKeepsWrenchInv ==
  ASSUME UniqueNames, TypeOK, QueueInv, WrenchInv, Insert
  PROVE  WrenchInv'
<1> DEFINE h == Head(io)
<1>1. io # << >> /\ io \in Seq(Command) /\ io' = Tail(io)
  BY DEF TypeOK, Insert
<1>2. h = io[1] /\ 1 \in 1 .. Len(io)
  BY <1>1
<1>3. \A i \in 1 .. Len(io') : i + 1 \in 1 .. Len(io) /\ io'[i] = io[i + 1]
  BY <1>1
<1>4. \A i \in 2 .. Len(io) : i - 1 \in 1 .. Len(io') /\ io'[i - 1] = io[i]
  BY <1>1
<1>5. log' = log \cup {h} /\ queue' = {d \in queue : ~Replaces(h, d)} \cup {h}
  BY DEF Insert
<1>6. WrenchInHand'
  <2> SUFFICES ASSUME NEW i \in 1 .. Len(io'), io'[i].kind = "force"
               PROVE  /\ i + 1 \in 1 .. Len(io')
                      /\ io'[i + 1].kind = "torque"
                      /\ io'[i + 1].req = io'[i].req /\ io'[i + 1].end = io'[i].end
    BY DEF WrenchInHand
  <2> DEFINE k == i + 1
  <2>1. k \in 1 .. Len(io) /\ io'[i] = io[k]
    BY <1>3
  <2>2. /\ k + 1 \in 1 .. Len(io)
        /\ io[k + 1].kind = "torque"
        /\ io[k + 1].req = io[k].req /\ io[k + 1].end = io[k].end
    BY <2>1 DEF WrenchInv, WrenchInHand
  <2>3. k + 1 \in 2 .. Len(io) /\ (k + 1) - 1 = i + 1
    BY <2>1, <2>2
  <2>4. i + 1 \in 1 .. Len(io') /\ io'[i + 1] = io[k + 1]
    BY <1>4, <2>3
  <2>5. QED
    BY <2>1, <2>2, <2>4
<1>7. ASSUME NEW c \in queue', c.kind = "force" PROVE HasTorque(c)'
  <2>1. CASE c = h
    <3>1. /\ 2 \in 2 .. Len(io) /\ io[2].kind = "torque"
          /\ io[2].req = c.req /\ io[2].end = c.end
      <4>1. /\ 1 + 1 \in 1 .. Len(io)
            /\ io[1 + 1].kind = "torque"
            /\ io[1 + 1].req = io[1].req /\ io[1 + 1].end = io[1].end
        BY <1>2, <1>7, <2>1, Zenon DEF WrenchInv, WrenchInHand
      <4>2. 1 + 1 = 2
        OBVIOUS
      <4>3. QED
        BY <1>1, <1>2, <2>1, <4>1, <4>2
    <3>2. io[2] \in InHand'
      BY <1>4, <3>1 DEF InHand
    <3>3. QED
      BY <3>1, <3>2 DEF HasTorque, TorqueOf
  <2>2. CASE c # h
    <3>1. c \in queue /\ HasTorque(c)
      BY <1>5, <1>7, <2>2 DEF WrenchInv
    <3>2. ASSUME NEW d \in InHand, TorqueOf(c, d) PROVE HasTorque(c)'
      <4>1. PICK i \in 1 .. Len(io) : d = io[i]
        BY <3>2 DEF InHand
      <4>2. CASE i = 1
        BY <1>2, <1>5, <3>2, <4>1, <4>2 DEF HasTorque, TorqueOf
      <4>3. CASE i # 1
        <5>1. i \in 2 .. Len(io)
          BY <1>1, <4>3
        <5>2. d \in InHand'
          BY <1>4, <4>1, <5>1 DEF InHand
        <5>3. QED
          BY <3>2, <5>2 DEF HasTorque, TorqueOf
      <4>4. QED
        BY <4>2, <4>3
    <3>3. ASSUME NEW t \in log, TorqueOf(c, t), t \in queue PROVE HasTorque(c)'
      <4>1. Replaces(h, t) => Supersedes(h, t)
        BY ReplacedIsSuperseded DEF QueueInv
      <4>2. t \in queue' \/ Supersedes(h, t)
        BY <1>5, <3>3, <4>1
      <4>3. QED
        BY <1>5, <3>3, <4>2 DEF HasTorque, TorqueOf, Supersedes
    <3>4. ASSUME NEW t \in log, TorqueOf(c, t), NEW d \in log, Supersedes(d, t)
          PROVE  HasTorque(c)'
      BY <1>5, <3>4 DEF HasTorque, TorqueOf, Supersedes
    <3>5. QED
      BY <3>1, <3>2, <3>3, <3>4 DEF HasTorque
  <2>3. QED
    BY <2>1, <2>2
<1>8. QED
  BY <1>6, <1>7 DEF WrenchInv

\* If no two targets of a kind share a key, a wrench is never left with its force
\* alone: only a later SET torque for the same link takes the place of the torque
\* (ApplyLinkWrenchMsgHandler.cpp:51-75).
THEOREM ForceKeepsItsTorque ==
  ASSUME UniqueNames
  PROVE  Spec => []ForceBringsTorque
<1>1. Init => WrenchInv
  BY DEF Init, WrenchInv, WrenchInHand
<1>2. TypeOK /\ QueueInv /\ WrenchInv /\ [Next]_vars => WrenchInv'
  <2> SUFFICES ASSUME TypeOK, QueueInv, WrenchInv, [Next]_vars PROVE WrenchInv'
    OBVIOUS
  <2>1. ASSUME NEW t \in Link, NEW force \in Mode, NEW torque \in Mode,
               NEW d \in Duration, ApplyLinkWrench(t, force, torque, d)
        PROVE  WrenchInv'
    <3> DEFINE cs == <<NewCommand(force, "force", t, d),
                       NewCommand(torque, "torque", t, d)>>
    <3>1. Accept(cs)
      BY <2>1 DEF ApplyLinkWrench
    <3>2. \A i \in 1 .. Len(cs) :
            cs[i].kind = "force" =>
              /\ i + 1 \in 1 .. Len(cs)
              /\ cs[i + 1].kind = "torque"
              /\ cs[i + 1].req = cs[i].req
              /\ cs[i + 1].end = cs[i].end
      BY DEF NewCommand
    <3> HIDE DEF cs
    <3>3. QED
      BY <3>1, <3>2, AcceptKeepsWrenchInv
  <2>2. ASSUME SetArrives PROVE WrenchInv'
    <3>1. PICK kind \in Kind \ Wrench, t \in Target, d \in Duration :
            Accept(<<NewCommand("SET", kind, t, d)>>)
      BY <2>2, SetIsOneCommand
    <3> DEFINE cs == <<NewCommand("SET", kind, t, d)>>
    <3>2. Accept(cs)
      BY <3>1
    <3>3. \A i \in 1 .. Len(cs) : cs[i].kind # "force"
      BY <3>1 DEF NewCommand, Wrench
    <3> HIDE DEF cs
    <3>4. QED
      BY <3>2, <3>3, AcceptKeepsWrenchInv
  <2>3. CASE Insert
    BY <2>3, InsertKeepsWrenchInv
  <2>4. CASE ResetSimulation
    BY <2>4 DEF ResetSimulation, ClearApplyCommands, WrenchInv, WrenchInHand
  <2>5. CASE OnTimeReset
    BY <2>5 DEF OnTimeReset, ClearApplyCommands, WrenchInv, WrenchInHand
  \* A force and its torque expire together.
  <2>6. CASE ExecuteApplyCommands
    <3>1. UNCHANGED <<io, log>> /\ queue' = Live(queue)
      BY <2>6 DEF ExecuteApplyCommands
    <3>2. \A c \in queue' : HasTorque(c) => HasTorque(c)'
      BY <3>1 DEF HasTorque, TorqueOf, InHand, Live, Supersedes
    <3>3. QED
      BY <3>1, <3>2 DEF WrenchInv, WrenchInHand, Live
  <2>7. CASE AdvanceTime \/ UserReset \/ UNCHANGED vars
    <3>1. UNCHANGED <<queue, io, log>>
      BY <2>7 DEF AdvanceTime, UserReset, vars
    <3>2. QED
      BY <3>1 DEF WrenchInv, WrenchInHand, HasTorque, TorqueOf, InHand, Supersedes
  <2>8. QED
    BY <2>1, <2>2, <2>3, <2>4, <2>5, <2>6, <2>7
       DEF Next, IoThread, WorldThread, SetArrives
<1>3. WrenchInv => ForceBringsTorque
  BY DEF WrenchInv, HasTorque, TorqueOf, InHand, ForceBringsTorque
<1>4. QED
  BY <1>1, <1>2, <1>3, CommanderTypeCorrect, QueueInvInductive, PTL DEF Spec

=============================================================================
