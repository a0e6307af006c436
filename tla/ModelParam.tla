----------------------------- MODULE ModelParam -----------------------------
(***************************************************************************)
(* SetGazeboModelParamMsgHandler: one request sets the pose and other      *)
(* parameters of a model, then those of some of its links, then those of   *)
(* some of its joints.  Entries that are wrong are skipped, the others are *)
(* applied, and one status tells of all of them.  That a joint refuses     *)
(* parameters of a correct entry is not an error: only the text of the     *)
(* reply names them, and the text of each joint replaces that of the one   *)
(* before.                                                                 *)
(*                                                                         *)
(* A request may ask for a part of a pose.  The handler reads the pose the *)
(* body has, replaces that part and writes the pose back, in two steps     *)
(* between which the world may move the body.  A value of a pose component *)
(* stands for who set it last: the n-th movement of the world, or a        *)
(* request.  How the pose of a model carries its links is Gazebo's and     *)
(* left out, and so are the values of the other parameters, and the pose   *)
(* of a joint's anchor, which nothing but this handler changes.  Which     *)
(* parameters a joint refuses is Gazebo's choice.  The entries of a        *)
(* request are chosen when the handler gets to them.                       *)
(***************************************************************************)
EXTENDS Integers, Sequences

CONSTANTS
  Link, Joint,   \* names of the model's links and joints
  DOF,           \* the joints' degrees of freedom
  NoSuch,        \* a name the model does not have
  Model,         \* stands for the model as a body with a pose
  MaxEntries,    \* bound: links and joints of a request
  MaxMoves       \* bound: movements of the world

ASSUME DOFAssumption == DOF \in [Joint -> 0 .. 2]
ASSUME NoSuchAssumption == NoSuch \notin Link \cup Joint \cup {Model}
ASSUME MaxMovesAssumption == MaxMoves \in Nat

Body == {Model} \cup Link

Component == {"position", "orientation"}

\* In place of the components of a pose: the request has no pose at all.
NoPoseAsked == {"none"}

\* What a request says of a body.
BodyEntry(names) == [name : names, pose : {NoPoseAsked} \cup SUBSET Component]

\* A joint can be set: it has the name and the degrees of freedom the entry needs.
WellFormedJoint(e) ==
  /\ e.name \in Joint
  /\ DOF[e.name] = 0 => e.pose
  /\ e.axis2 => DOF[e.name] = 2

Parameter == {"Angle", "SuspensionERP", "SuspensionCFM"}

\* The parameters of a joint whose refusal the code notices: those of the
\* suspension are set only if the joint has degrees of freedom.
Refusable(joint) == IF DOF[joint] > 0 THEN Parameter ELSE {"Angle"}

\* What a request says of a joint: axis2 is its second axis, and refused are the
\* parameters of the entry that the joint does not take when it is set.
JointEntry ==
  {e \in [name : Joint \cup {NoSuch}, pose : BOOLEAN, axis2 : BOOLEAN,
          refused : SUBSET Parameter] :
     e.refused \subseteq IF WellFormedJoint(e) THEN Refusable(e.name) ELSE {}}

\* The text of a reply that has none; any other names the refused parameters. The
\* joint's type, with which it begins, is left out.
NoText == {"no text"}

\* The value of a pose component that a request has set.
Asked == -1

VARIABLES
  pose,      \* pose of every body
  moves,     \* how often the world has moved the bodies
  pc,        \* "idle", "read", "write", "joint"
  bodies,    \* entries of the request so far: the model's, then the links'
  joints,    \* entries of the request so far: the joints'
  mixed,     \* the pose that retainPoseComponents has put together
  readAt,    \* history: how often the bodies had been moved when it was read
  errors,    \* kinds of errors seen: the local flags of handleMessage
  applied,   \* history: the positions of the entries that were applied
  status,    \* of the reply, "none yet" while a request is handled
  message    \* of the reply: its text

requestVars == <<bodies, joints>>
vars == <<pose, moves, pc, requestVars, mixed, readAt, errors, applied,
          status, message>>

\* mixed when no pose is being put together.
NoPose == [c \in Component |-> 0]

Init ==
  /\ pose = [b \in Body |-> [c \in Component |-> 0]]
  /\ moves = 0
  /\ pc = "idle" /\ bodies = <<>> /\ joints = <<>>
  /\ mixed = NoPose /\ readAt = 0
  /\ errors = {} /\ applied = {}
  /\ status = "none yet" /\ message = NoText

\* The world moves all bodies.
Move ==
  /\ moves < MaxMoves
  /\ moves' = moves + 1
  /\ pose' = [b \in Body |-> [c \in Component |-> moves']]
  /\ UNCHANGED <<pc, requestVars, mixed, readAt, errors, applied, status, message>>

-----------------------------------------------------------------------------
\* A request for a model that the world does not have.
RequestNoModel ==
  /\ pc = "idle"
  /\ status' = "MODEL_NAME_INVALID" /\ message' = NoText
  /\ UNCHANGED <<pose, moves, pc, requestVars, mixed, readAt, errors, applied>>

\* A request begins with the parameters of the model itself.
Request(e) ==
  /\ pc = "idle"
  /\ pc' = "read"
  /\ bodies' = <<e>>
  /\ status' = "none yet" /\ message' = NoText
  /\ UNCHANGED <<pose, moves, joints, mixed, readAt, errors, applied>>

\* The entry of the request that is being handled.
Current == bodies[Len(bodies)]

\* The links' loop goes on with another entry, or the joints' begins.
NextBody ==
  \/ /\ Len(bodies) - 1 < MaxEntries
     /\ \E e \in BodyEntry(Link \cup {NoSuch}) : bodies' = Append(bodies, e)
     /\ pc' = "read"
  \/ pc' = "joint" /\ UNCHANGED bodies

\* Faulty variant: an unknown link is not noted.
UnknownLinkSkipped ==
  /\ pc = "read" /\ Current.name = NoSuch
  /\ NextBody
  /\ UNCHANGED <<pose, moves, joints, mixed, readAt, errors, applied, status, message>>

UnknownLink ==
  /\ pc = "read" /\ Current.name = NoSuch
  /\ errors' = errors \cup {"LINK_NAME_INVALID"}
  /\ NextBody
  /\ UNCHANGED <<pose, moves, joints, mixed, readAt, applied, status, message>>

\* Faulty variant: what the request does not say is taken for zero.
RetainNothing(old, asked) ==
  [c \in Component |-> IF c \in asked THEN Asked ELSE 0]

\* retainPoseComponents: the asked components replace those of the old pose.
Retain(old, asked) ==
  [c \in Component |-> IF c \in asked THEN Asked ELSE old[c]]

\* The pose of a known body is read, to put the new one together; if the request
\* has no pose, what is read is not used.
ReadPose ==
  /\ pc = "read" /\ Current.name # NoSuch
  /\ pc' = "write"
  /\ mixed' = Retain(pose[Current.name], Current.pose)
  /\ readAt' = moves
  /\ UNCHANGED <<pose, moves, requestVars, errors, applied, status, message>>

\* The pose is written, if it was asked for, and the entry has been applied.
WritePose ==
  /\ pc = "write"
  /\ pose' = IF Current.pose = NoPoseAsked THEN pose ELSE [pose EXCEPT ![Current.name] = mixed]
  /\ applied' = applied \cup {<<"body", Len(bodies)>>}
  /\ mixed' = NoPose /\ readAt' = 0
  /\ NextBody
  /\ UNCHANGED <<moves, joints, errors, status, message>>

-----------------------------------------------------------------------------
\* Faulty variant: a fixed joint takes any parameters.
JointErrorNoAxis(e) ==
  CASE e.name = NoSuch -> "JOINT_NAME_INVALID"
    [] e.name # NoSuch /\ e.axis2 /\ DOF[e.name] < 2 -> "INVALID_JOINT_AXIS"
    [] OTHER -> "NONE"

\* What is wrong with the entry of a joint.
JointError(e) ==
  CASE e.name = NoSuch -> "JOINT_NAME_INVALID"
    [] e.name # NoSuch /\ DOF[e.name] = 0 /\ ~e.pose -> "JOINT_AXIS_NONE"
    [] e.name # NoSuch /\ e.axis2 /\ DOF[e.name] < 2 /\ (DOF[e.name] > 0 \/ e.pose)
         -> "INVALID_JOINT_AXIS"
    [] OTHER -> "NONE"

\* Faulty variant: the text of the first joint is kept.
SetFirstText(e, k) ==
  /\ applied' = applied \cup {<<"joint", k>>}
  /\ message' = IF message = NoText THEN e.refused ELSE message

\* The k-th entry is applied to its joint: a refused parameter does not keep
\* the later ones from being set, and only the text tells of it.
SetJointParam(e, k) ==
  /\ applied' = applied \cup {<<"joint", k>>}
  /\ message' = e.refused

SetJoint(e) ==
  /\ pc = "joint" /\ Len(bodies) - 1 + Len(joints) < MaxEntries
  /\ joints' = Append(joints, e)
  /\ IF JointError(e) = "NONE"
       THEN SetJointParam(e, Len(joints')) /\ UNCHANGED errors
       ELSE errors' = errors \cup {JointError(e)} /\ UNCHANGED <<applied, message>>
  /\ UNCHANGED <<pose, moves, pc, bodies, mixed, readAt, status>>

\* Each kind of error overwrites the status of the one before it.
LastError(errs) ==
  CASE errs = {} -> "NONE"
    [] "INVALID_JOINT_AXIS" \in errs -> "INVALID_JOINT_AXIS"
    [] "JOINT_AXIS_NONE" \in errs -> "JOINT_AXIS_NONE"
    [] "LINK_NAME_INVALID" \in errs -> "LINK_NAME_INVALID"
    [] OTHER -> "JOINT_NAME_INVALID"

Reply ==
  /\ pc = "joint"
  /\ status' = LastError(errors)
  /\ pc' = "idle"
  /\ bodies' = <<>> /\ joints' = <<>>
  /\ errors' = {} /\ applied' = {}
  /\ UNCHANGED <<pose, moves, mixed, readAt, message>>

Next ==
  \/ Move
  \/ RequestNoModel
  \/ \E e \in BodyEntry({Model}) : Request(e)
  \/ UnknownLink
  \/ ReadPose
  \/ WritePose
  \/ \E e \in JointEntry : SetJoint(e)
  \/ Reply

Spec == Init /\ [][Next]_vars

-----------------------------------------------------------------------------
\* The entries of a request that can be applied.
WellFormedBody(e) == e.name \in Body

WellFormedEntries ==
  {<<"body", k>> : k \in {n \in 1 .. Len(bodies) : WellFormedBody(bodies[n])}}
    \cup {<<"joint", k>> : k \in {n \in 1 .. Len(joints) : WellFormedJoint(joints[n])}}

AllWellFormed ==
  /\ \A k \in 1 .. Len(bodies) : WellFormedBody(bodies[k])
  /\ \A k \in 1 .. Len(joints) : WellFormedJoint(joints[k])

Replies == pc = "joint" /\ pc' = "idle"

\* The text is that of the last joint that was set: what it refused. There is none
\* if no joint was set.
TextOfLastJoint(text) ==
  \/ text = NoText /\ \A k \in 1 .. Len(joints) : ~WellFormedJoint(joints[k])
  \/ \E k \in 1 .. Len(joints) :
       /\ WellFormedJoint(joints[k]) /\ text = joints[k].refused
       /\ \A n \in k + 1 .. Len(joints) : ~WellFormedJoint(joints[n])

\* An entry that is wrong does not keep the others from being applied, and is not
\* applied itself: the others are handed to SetLinkParam and SetJointParam, whose
\* joints may still refuse single parameters
\* (SetGazeboModelParamMsgHandler.cpp:278-314).
OthersAreApplied == [][Replies => applied = WellFormedEntries]_vars

\* What a client can read off a reply. The status tells whether every entry had a
\* right name and fitting axes: no such error is lost, whatever entries came after
\* it, but a refused parameter does not count. The text names what the last joint
\* refused, even if wrong entries came after it; what an earlier joint refused is
\* told by neither (SetGazeboModelParamMsgHandler.cpp:160-232, 277-338).
ReplyTells ==
  [][Replies => /\ status' = "NONE" <=> AllWellFormed
                /\ TextOfLastJoint(message')]_vars

\* A pose that is asked for in part keeps the other part, unless the world moved
\* the body between the read and the write
\* (SetGazeboModelParamMsgHandler.cpp:63-69, 257-263).
OtherComponentKept ==
  [][pc = "write" /\ pc' # "write" /\ moves = readAt
       => LET e == Current IN
          \A c \in Component :
            pose'[e.name][c] = IF c \in e.pose THEN Asked ELSE pose[e.name][c]]_vars

=============================================================================
