-------------------------- MODULE ModelParamProofs --------------------------
(***************************************************************************)
(* Proofs about ModelParam, for any links, joints and degrees of freedom,  *)
(* and for requests with any number of entries.                            *)
(***************************************************************************)
EXTENDS ModelParam, SequenceTheorems, TLAPS

USE DEF requestVars

-----------------------------------------------------------------------------
\* The types, and where in a request the handler can be.
BodyEntries == BodyEntry(Body \cup {NoSuch})

Types ==
  /\ pose \in [Body -> [Component -> Int]]
  /\ mixed \in [Component -> Int]
  /\ moves \in Nat /\ readAt \in Nat /\ readAt <= moves
  /\ pc \in {"idle", "read", "write", "joint"}
  /\ bodies \in Seq(BodyEntries)
  /\ joints \in Seq(JointEntry)

Place ==
  /\ pc = "idle" => bodies = <<>> /\ joints = <<>> /\ errors = {} /\ applied = {}
  /\ pc \in {"read", "write"} => bodies # <<>> /\ joints = <<>>
  /\ pc = "write" => Current.name \in Body

\* The name of an entry is one the model has, or NoSuch.
LEMMA Names ==
  /\ NoSuch \notin Body /\ NoSuch \notin Joint
  /\ BodyEntry({Model}) \subseteq BodyEntries
  /\ BodyEntry(Link \cup {NoSuch}) \subseteq BodyEntries
  /\ \A e \in BodyEntries : e.name # NoSuch <=> WellFormedBody(e)
  /\ \A e \in BodyEntries : e.name \in Body \cup {NoSuch}
BY NoSuchAssumption DEF Body, BodyEntries, BodyEntry, WellFormedBody

\* What NextBody does to the entries.
LEMMA NextBodyOutcome ==
  ASSUME Types, bodies # <<>>, NextBody
  PROVE  /\ bodies' \in Seq(BodyEntries) /\ bodies' # <<>>
         /\ \/ pc' = "read" /\ Len(bodies') = Len(bodies) + 1
            \/ pc' = "joint" /\ Len(bodies') = Len(bodies)
         /\ \A k \in 1 .. Len(bodies) : bodies'[k] = bodies[k]
<1>1. CASE pc' = "joint" /\ UNCHANGED bodies
  BY <1>1 DEF Types
<1>2. ASSUME NEW e \in BodyEntry(Link \cup {NoSuch}), bodies' = Append(bodies, e), pc' = "read"
      PROVE  /\ bodies' \in Seq(BodyEntries) /\ bodies' # <<>>
             /\ Len(bodies') = Len(bodies) + 1
             /\ \A k \in 1 .. Len(bodies) : bodies'[k] = bodies[k]
  <2>1. e \in BodyEntries
    BY Names
  <2>2. bodies \in Seq(BodyEntries)
    BY DEF Types
  <2>3. /\ bodies' \in Seq(BodyEntries) /\ Len(bodies') = Len(bodies) + 1
        /\ \A k \in 1 .. Len(bodies) : bodies'[k] = bodies[k]
    BY <1>2, <2>1, <2>2, AppendProperties, Zenon
  <2>4. bodies' # <<>>
    BY <2>2, <2>3
  <2>5. QED
    BY <2>3, <2>4
<1>3. QED
  BY <1>1, <1>2 DEF NextBody

\* What is put together is a pose.
LEMMA RetainType ==
  ASSUME NEW old \in [Component -> Int], NEW asked
  PROVE  Retain(old, asked) \in [Component -> Int]
BY DEF Retain, Asked

LEMMA TypesInductive == Spec => [](Types /\ Place)
<1>1. Init => Types /\ Place
  <2>1. ASSUME Init PROVE Types
    <3>1. [c \in Component |-> 0] \in [Component -> Int]
      OBVIOUS
    <3>2. pose \in [Body -> [Component -> Int]] /\ mixed \in [Component -> Int]
      BY <2>1, <3>1, Zenon DEF Init, NoPose
    <3>3. bodies \in Seq(BodyEntries) /\ joints \in Seq(JointEntry)
      BY <2>1, EmptySeq, Zenon DEF Init
    <3>4. moves = 0 /\ readAt = 0 /\ pc = "idle"
      BY <2>1, Zenon DEF Init
    <3>5. QED
      BY <3>2, <3>3, <3>4 DEF Types
  <2>2. Init => Place
    BY DEF Init, Place
  <2>3. QED
    BY <2>1, <2>2
<1>2. Types /\ Place /\ [Next]_vars => Types' /\ Place'
  <2> SUFFICES ASSUME Types, Place, [Next]_vars PROVE Types' /\ Place'
    OBVIOUS
  <2>1. CASE Move
    BY <2>1 DEF Move, Types, Place, Current
  <2>2. CASE RequestNoModel
    BY <2>2 DEF RequestNoModel, Types, Place, Current
  <2>3. ASSUME NEW e \in BodyEntry({Model}), Request(e) PROVE Types' /\ Place'
    <3>1. e \in BodyEntries
      BY Names
    <3>2. bodies' \in Seq(BodyEntries) /\ bodies' # <<>> /\ pc' = "read"
      <4>1. bodies' = <<e>> /\ pc' = "read"
        BY <2>3 DEF Request
      <4>2. Len(<<e>>) = 1 /\ <<e>> \in Seq(BodyEntries)
        BY <3>1
      <4>3. QED
        BY <4>1, <4>2
    <3>3. joints = <<>>
      BY <2>3 DEF Request, Place
    <3>4. QED
      BY <2>3, <3>2, <3>3 DEF Request, Types, Place
  <2>4. CASE UnknownLink
    <3>1. bodies' \in Seq(BodyEntries) /\ bodies' # <<>> /\ pc' \in {"read", "joint"}
      BY <2>4, NextBodyOutcome DEF UnknownLink, Place
    <3>2. joints = <<>>
      BY <2>4 DEF UnknownLink, Place
    <3>3. QED
      BY <2>4, <3>1, <3>2 DEF UnknownLink, Types, Place
  <2>5. CASE ReadPose
    <3>1. Current \in BodyEntries
      BY <2>5 DEF ReadPose, Current, Types, Place
    <3>2. Current.name \in Body
      BY <2>5, <3>1, Names DEF ReadPose
    <3>3. mixed' \in [Component -> Int]
      BY <2>5, <3>2, RetainType DEF ReadPose, Types
    <3>4. QED
      BY <2>5, <3>2, <3>3 DEF ReadPose, Types, Place, Current
  <2>6. CASE WritePose
    <3>1. bodies' \in Seq(BodyEntries) /\ bodies' # <<>> /\ pc' \in {"read", "joint"}
      BY <2>6, NextBodyOutcome DEF WritePose, Place
    <3>2. joints = <<>> /\ Current.name \in Body
      BY <2>6 DEF WritePose, Place
    <3>3. pose' \in [Body -> [Component -> Int]]
      BY <2>6, <3>2 DEF WritePose, Types
    <3>4. NoPose \in [Component -> Int]
      BY DEF NoPose
    <3>5. mixed' \in [Component -> Int] /\ readAt' = 0 /\ UNCHANGED <<moves, joints>>
      BY <2>6, <3>4 DEF WritePose
    <3>6. Types'
      BY <3>1, <3>3, <3>5 DEF Types
    <3>7. Place'
      BY <3>1, <3>2, <3>5 DEF Place
    <3>8. QED
      BY <3>6, <3>7
  <2>7. ASSUME NEW e \in JointEntry, SetJoint(e) PROVE Types' /\ Place'
    <3>1. joints' \in Seq(JointEntry) /\ pc' = "joint"
      BY <2>7 DEF SetJoint, Types
    <3>2. UNCHANGED <<pose, mixed, moves, readAt, bodies>>
      BY <2>7 DEF SetJoint
    <3>3. QED
      BY <3>1, <3>2 DEF Types, Place
  <2>8. CASE Reply
    BY <2>8 DEF Reply, Types, Place
  <2>9. CASE UNCHANGED vars
    BY <2>9 DEF vars, Types, Place, Current
  <2>10. QED
    BY <2>1, <2>2, <2>3, <2>4, <2>5, <2>6, <2>7, <2>8, <2>9 DEF Next
<1>3. QED
  BY <1>1, <1>2, PTL DEF Spec

-----------------------------------------------------------------------------
\* What will be written is the pose that the body has, with the asked components
\* replaced, as long as the world has not moved the body since it was read.
MixedInv ==
  pc = "write" /\ moves = readAt => mixed = Retain(pose[Current.name], Current.pose)

LEMMA MixedInductive == Spec => []MixedInv
<1>1. Init => MixedInv
  BY DEF Init, MixedInv
<1>2. Types /\ Place /\ MixedInv /\ [Next]_vars => MixedInv'
  <2> SUFFICES ASSUME Types, Place, MixedInv, [Next]_vars, pc' = "write", moves' = readAt'
               PROVE  mixed' = Retain(pose[Current.name], Current.pose)'
    BY DEF MixedInv
  <2>1. ~Move
    <3>1. Move => moves' = moves + 1 /\ readAt' = readAt
      BY Zenon DEF Move
    <3>2. QED
      BY <3>1 DEF Types
  <2>2. CASE ReadPose
    BY <2>2, Zenon DEF ReadPose, Retain, Current
  <2>3. CASE UnknownLink \/ WritePose
    BY <2>3 DEF UnknownLink, WritePose, NextBody
  <2>4. ASSUME NEW e, Request(e) \/ SetJoint(e) PROVE FALSE
    BY <2>4 DEF Request, SetJoint
  <2>5. CASE RequestNoModel \/ Reply
    BY <2>5 DEF RequestNoModel, Reply
  <2>6. CASE UNCHANGED vars
    BY <2>6, Zenon DEF vars, MixedInv, Retain, Current
  <2>7. QED
    BY <2>1, <2>2, <2>3, <2>4, <2>5, <2>6 DEF Next
<1>3. QED
  BY <1>1, <1>2, TypesInductive, PTL DEF Spec

\* A pose that is asked for in part keeps the other part, unless the world moved
\* the body in between (SetGazeboModelParamMsgHandler.cpp:62-69, 257-263).
THEOREM KeepsOtherComponent == Spec => OtherComponentKept
<1> DEFINE Kept ==
      pc = "write" /\ pc' # "write" /\ moves = readAt
        => LET e == Current IN
           \A c \in Component :
             pose'[e.name][c] = IF c \in e.pose THEN Asked ELSE pose[e.name][c]
<1>1. Types /\ Place /\ MixedInv /\ [Next]_vars => [Kept]_vars
  <2> SUFFICES ASSUME Types, Place, MixedInv, [Next]_vars,
                      pc = "write", pc' # "write", moves = readAt, NEW c \in Component
               PROVE  pose'[Current.name][c] =
                        IF c \in Current.pose THEN Asked ELSE pose[Current.name][c]
    OBVIOUS
  <2>1. WritePose
    BY DEF Next, Move, RequestNoModel, Request, UnknownLink, ReadPose, SetJoint, Reply, vars
  <2>2. Current.name \in Body /\ pose \in [Body -> [Component -> Int]]
    BY DEF Place, Types
  <2>3. CASE Current.pose = NoPoseAsked
    <3>1. c \notin Current.pose
      BY <2>3 DEF NoPoseAsked, Component
    <3>2. pose' = pose
      BY <2>1, <2>3 DEF WritePose
    <3>3. QED
      BY <3>1, <3>2
  <2>4. CASE Current.pose # NoPoseAsked
    <3>1. pose' = [pose EXCEPT ![Current.name] = mixed]
      BY <2>1, <2>4 DEF WritePose
    <3>2. mixed[c] = IF c \in Current.pose THEN Asked ELSE pose[Current.name][c]
      BY DEF MixedInv, Retain
    <3>3. QED
      BY <2>2, <3>1, <3>2
  <2>5. QED
    BY <2>3, <2>4
<1>2. QED
  BY <1>1, TypesInductive, MixedInductive, PTL DEF Spec, OtherComponentKept

-----------------------------------------------------------------------------
\* The entries of bodies that have been handled: the current one is not while its
\* pose is being read or written.
Handled == IF pc \in {"read", "write"} THEN Len(bodies) - 1 ELSE Len(bodies)

\* What has been applied are the handled entries that are well formed, an error has
\* been seen if and only if a handled entry is not, and the text of a request that
\* is being handled is that of the last joint set.
HandledInv ==
  /\ applied = {<<"body", k>> : k \in {n \in 1 .. Handled : WellFormedBody(bodies[n])}}
                 \cup {<<"joint", k>> : k \in {n \in 1 .. Len(joints) :
                                                 WellFormedJoint(joints[n])}}
  /\ errors = {} <=> /\ \A k \in 1 .. Handled : WellFormedBody(bodies[k])
                     /\ \A k \in 1 .. Len(joints) : WellFormedJoint(joints[k])
  /\ "NONE" \notin errors
  /\ pc # "idle" => TextOfLastJoint(message)

\* An entry of a joint is well formed if and only if nothing is wrong with it.
LEMMA JointErrorDecides ==
  ASSUME NEW e \in JointEntry
  PROVE  JointError(e) = "NONE" <=> WellFormedJoint(e)
<1>1. e.name \in Joint \cup {NoSuch} /\ e.pose \in BOOLEAN /\ e.axis2 \in BOOLEAN
  BY DEF JointEntry
<1>2. CASE e.name = NoSuch
  BY <1>2, NoSuchAssumption DEF JointError, WellFormedJoint
<1>3. CASE e.name # NoSuch
  <2>1. e.name \in Joint /\ DOF[e.name] \in 0 .. 2
    BY <1>1, <1>3, DOFAssumption
  <2>2. QED
    BY <1>1, <1>3, <2>1 DEF JointError, WellFormedJoint
<1>4. QED
  BY <1>2, <1>3

\* What appending an element does to a sequence.
LEMMA AppendsOne ==
  ASSUME NEW S, NEW old \in Seq(S), NEW e \in S, NEW new, new = Append(old, e)
  PROVE  /\ Len(new) = Len(old) + 1 /\ new[Len(old) + 1] = e
         /\ \A k \in 1 .. Len(old) : new[k] = old[k]
BY AppendProperties

\* With one more joint, the text is that of this joint if it is set, and otherwise
\* stays what it was.
LEMMA TextStep ==
  ASSUME joints \in Seq(JointEntry), NEW e \in JointEntry, joints' = Append(joints, e),
         IF WellFormedJoint(e) THEN message' = e.refused
                               ELSE TextOfLastJoint(message) /\ message' = message
  PROVE  TextOfLastJoint(message)'
<1>1. /\ Len(joints') = Len(joints) + 1 /\ joints'[Len(joints) + 1] = e
      /\ \A k \in 1 .. Len(joints) : joints'[k] = joints[k]
      /\ Len(joints) \in Nat
  BY AppendsOne
<1>2. CASE WellFormedJoint(e)
  <2>1. /\ Len(joints) + 1 \in 1 .. Len(joints')
        /\ (Len(joints) + 1) + 1 .. Len(joints') = {}
    BY <1>1
  <2>2. WellFormedJoint(joints'[Len(joints) + 1]) /\ message' = joints'[Len(joints) + 1].refused
    BY <1>1, <1>2
  <2>3. QED
    BY <2>1, <2>2 DEF TextOfLastJoint
<1>3. CASE ~WellFormedJoint(e)
  <2>1. TextOfLastJoint(message) /\ message' = message
    BY <1>3
  <2>2. CASE message = NoText /\ \A k \in 1 .. Len(joints) : ~WellFormedJoint(joints[k])
    <3>1. \A k \in 1 .. Len(joints') : ~WellFormedJoint(joints'[k])
      BY <1>1, <1>3, <2>2
    <3>2. QED
      BY <2>1, <2>2, <3>1 DEF TextOfLastJoint, NoText
  <2>3. ASSUME NEW k \in 1 .. Len(joints),
               WellFormedJoint(joints[k]), message = joints[k].refused,
               \A n \in k + 1 .. Len(joints) : ~WellFormedJoint(joints[n])
        PROVE  TextOfLastJoint(message)'
    <3>1. k \in 1 .. Len(joints') /\ joints'[k] = joints[k]
      BY <1>1
    <3>2. \A n \in k + 1 .. Len(joints') : ~WellFormedJoint(joints'[n])
      BY <1>1, <1>3, <2>3
    <3>3. QED
      BY <2>1, <2>3, <3>1, <3>2 DEF TextOfLastJoint
  <2>4. QED
    BY <2>1, <2>2, <2>3 DEF TextOfLastJoint
<1>4. QED
  BY <1>2, <1>3

LEMMA HandledInductive == Spec => []HandledInv
<1>1. Init => HandledInv
  <2> SUFFICES ASSUME Init PROVE HandledInv
    OBVIOUS
  <2>1. bodies = <<>> /\ joints = <<>> /\ errors = {} /\ applied = {} /\ pc = "idle"
    BY Zenon DEF Init
  <2>2. Handled = 0
    BY <2>1 DEF Handled
  <2>3. QED
    BY <2>1, <2>2 DEF HandledInv
<1>2. Types /\ Place /\ HandledInv /\ [Next]_vars => HandledInv'
  <2> SUFFICES ASSUME Types, Place, HandledInv, [Next]_vars PROVE HandledInv'
    OBVIOUS
  <2> DEFINE Good(b, n) == {<<"body", k>> : k \in {m \in 1 .. n : WellFormedBody(b[m])}}
             GoodJoints(j) == {<<"joint", k>> : k \in {m \in 1 .. Len(j) : WellFormedJoint(j[m])}}
             AllGood(b, n) == \A k \in 1 .. n : WellFormedBody(b[k])
             AllGoodJoints(j) == \A k \in 1 .. Len(j) : WellFormedJoint(j[k])
  <2>0. /\ bodies \in Seq(BodyEntries) /\ joints \in Seq(JointEntry)
        /\ Len(bodies) \in Nat /\ Len(joints) \in Nat
    BY DEF Types
  <2>a. ASSUME UNCHANGED <<bodies, joints, errors, applied>>, Handled' = Handled,
               pc' # "idle" => pc # "idle" /\ UNCHANGED message
        PROVE  HandledInv'
    BY <2>a, Zenon DEF HandledInv, TextOfLastJoint
  <2>b. ASSUME UNCHANGED <<joints, message>>, pc # "idle"
        PROVE  TextOfLastJoint(message)'
    BY <2>b, Zenon DEF HandledInv, TextOfLastJoint
  <2>1. CASE Move \/ RequestNoModel
    BY <2>1, <2>a DEF Move, RequestNoModel, Handled
  <2>2. CASE ReadPose
    BY <2>2, <2>a DEF ReadPose, Handled
  <2>3. CASE UNCHANGED vars
    BY <2>3, <2>a DEF vars, Handled
  <2>4. ASSUME NEW e, Request(e) PROVE HandledInv'
    <3>1. /\ joints = <<>> /\ errors = {} /\ applied = {}
          /\ UNCHANGED <<joints, errors, applied>>
          /\ bodies' = <<e>> /\ pc' = "read" /\ message' = NoText
      BY <2>4 DEF Request, Place
    <3>2. Handled' = 0
      BY <3>1 DEF Handled
    <3>3. TextOfLastJoint(message)'
      <4>1. 1 .. Len(joints') = {} /\ message' = NoText
        BY <3>1
      <4>2. QED
        BY <4>1, Zenon DEF TextOfLastJoint, NoText
    <3>4. QED
      BY <3>1, <3>2, <3>3 DEF HandledInv
  \* One more body has been handled: n of them before, n + 1 after.
  <2>5. ASSUME bodies # <<>>, NextBody, pc \in {"read", "write"}
        PROVE  /\ Handled' = Len(bodies) /\ Handled = Len(bodies) - 1 /\ Len(bodies) > 0
               /\ \A k \in 1 .. Len(bodies) : bodies'[k] = bodies[k]
               /\ Current \in BodyEntries
    BY <2>0, <2>5, NextBodyOutcome DEF Handled, Current
  <2>6. CASE UnknownLink
    <3>1. bodies # <<>> /\ NextBody /\ pc \in {"read", "write"}
      BY <2>6 DEF UnknownLink, Place
    <3>2. /\ ~WellFormedBody(bodies[Len(bodies)])
          /\ errors' = errors \cup {"LINK_NAME_INVALID"} /\ UNCHANGED <<joints, applied>>
      BY <2>5, <2>6, <3>1, Names DEF UnknownLink, Current
    <3>3. Good(bodies', Handled') = Good(bodies, Handled)
      BY <2>0, <2>5, <3>1, <3>2
    <3>4. ~AllGood(bodies', Handled')
      BY <2>0, <2>5, <3>1, <3>2
    <3>5. TextOfLastJoint(message)'
      BY <2>6, <2>b DEF UnknownLink
    <3>6. QED
      BY <3>2, <3>3, <3>4, <3>5 DEF HandledInv
  <2>7. CASE WritePose
    <3>1. bodies # <<>> /\ NextBody /\ pc \in {"read", "write"}
      BY <2>7 DEF WritePose, Place
    <3>2. /\ WellFormedBody(bodies[Len(bodies)])
          /\ applied' = applied \cup {<<"body", Len(bodies)>>} /\ UNCHANGED <<joints, errors>>
      BY <2>7, Zenon DEF WritePose, Place, Current, WellFormedBody
    <3>3. Good(bodies', Handled') = Good(bodies, Handled) \cup {<<"body", Len(bodies)>>}
      BY <2>0, <2>5, <3>1, <3>2
    <3>4. AllGood(bodies', Handled') <=> AllGood(bodies, Handled)
      BY <2>0, <2>5, <3>1, <3>2
    <3>5. TextOfLastJoint(message)'
      BY <2>7, <2>b DEF WritePose
    <3>6. QED
      BY <3>2, <3>3, <3>4, <3>5 DEF HandledInv
  <2>8. ASSUME NEW e \in JointEntry, SetJoint(e) PROVE HandledInv'
    <3>1. joints' = Append(joints, e) /\ UNCHANGED bodies /\ Handled' = Handled
      BY <2>8 DEF SetJoint, Handled
    <3>2. /\ Len(joints') = Len(joints) + 1 /\ joints'[Len(joints) + 1] = e
          /\ \A k \in 1 .. Len(joints) : joints'[k] = joints[k]
      BY <2>0, <3>1, AppendsOne
    <3>a. TextOfLastJoint(message)'
      <4>1. joints \in Seq(JointEntry) /\ TextOfLastJoint(message)
        BY <2>8 DEF Types, HandledInv, SetJoint
      <4>2. IF WellFormedJoint(e) THEN message' = e.refused ELSE message' = message
        BY <2>8, JointErrorDecides DEF SetJoint, SetJointParam
      <4>3. QED
        BY <3>1, <4>1, <4>2, TextStep
    <3>3. CASE JointError(e) = "NONE"
      <4>1. WellFormedJoint(e)
        BY <3>3, JointErrorDecides
      <4>2. applied' = applied \cup {<<"joint", Len(joints) + 1>>} /\ UNCHANGED errors
        BY <2>8, <3>2, <3>3 DEF SetJoint, SetJointParam
      <4>3. GoodJoints(joints') = GoodJoints(joints) \cup {<<"joint", Len(joints) + 1>>}
        <5>1. 1 .. Len(joints') = 1 .. Len(joints) \cup {Len(joints) + 1}
          BY <2>0, <3>2
        <5>2. {m \in 1 .. Len(joints') : WellFormedJoint(joints'[m])} =
                {m \in 1 .. Len(joints) : WellFormedJoint(joints[m])} \cup {Len(joints) + 1}
          BY <3>2, <4>1, <5>1, Zenon
        <5>3. QED
          BY <5>2, Zenon
      <4>4. AllGoodJoints(joints') <=> AllGoodJoints(joints)
        BY <2>0, <3>2, <4>1
      <4>5. QED
        BY <3>1, <3>a, <4>2, <4>3, <4>4 DEF HandledInv
    <3>4. CASE JointError(e) # "NONE"
      <4>1. ~WellFormedJoint(e)
        BY <3>4, JointErrorDecides
      <4>2. errors' = errors \cup {JointError(e)} /\ UNCHANGED applied
        BY <2>8, <3>4 DEF SetJoint
      <4>3. GoodJoints(joints') = GoodJoints(joints)
        <5>1. 1 .. Len(joints') = 1 .. Len(joints) \cup {Len(joints) + 1}
          BY <2>0, <3>2
        <5>2. {m \in 1 .. Len(joints') : WellFormedJoint(joints'[m])} =
                {m \in 1 .. Len(joints) : WellFormedJoint(joints[m])}
          BY <3>2, <4>1, <5>1, Zenon
        <5>3. QED
          BY <5>2, Zenon
      <4>4. ~AllGoodJoints(joints')
        <5>1. Len(joints) + 1 \in 1 .. Len(joints') /\ joints'[Len(joints) + 1] = e
          BY <2>0, <3>2
        <5>2. QED
          BY <4>1, <5>1, Zenon
      <4>5. QED
        BY <3>1, <3>a, <3>4, <4>2, <4>3, <4>4 DEF HandledInv
    <3>5. QED
      BY <3>3, <3>4
  <2>9. CASE Reply
    <3>1. bodies' = <<>> /\ joints' = <<>> /\ errors' = {} /\ applied' = {} /\ pc' = "idle"
      BY <2>9 DEF Reply
    <3>2. Handled' = 0
      BY <3>1 DEF Handled
    <3>3. QED
      BY <3>1, <3>2 DEF HandledInv
  <2>10. QED
    BY <2>1, <2>2, <2>3, <2>4, <2>6, <2>7, <2>8, <2>9 DEF Next
<1>3. QED
  BY <1>1, <1>2, TypesInductive, PTL DEF Spec

\* Wrong entries do not keep the others from being applied
\* (SetGazeboModelParamMsgHandler.cpp:278-314).
THEOREM AppliesTheOthers == Spec => OthersAreApplied
<1>1. HandledInv => [Replies => applied = WellFormedEntries]_vars
  BY DEF HandledInv, Handled, Replies, WellFormedEntries
<1>2. QED
  BY <1>1, HandledInductive, PTL DEF OthersAreApplied

\* The status is a success exactly if every entry was well formed, refused parameters
\* not counted, and the text names what the last joint refused, that of the earlier
\* ones being lost (SetGazeboModelParamMsgHandler.cpp:160-232, 277-338).
THEOREM ReplyTellsNoMore == Spec => ReplyTells
<1> DEFINE Tells == /\ status' = "NONE" <=> AllWellFormed
                    /\ TextOfLastJoint(message')
<1>1. HandledInv /\ [Next]_vars => [Replies => Tells]_vars
  <2> SUFFICES ASSUME HandledInv, [Next]_vars, Replies PROVE Tells
    OBVIOUS
  <2>1. status' = LastError(errors) /\ message' = message
    BY DEF Replies, Next, Move, RequestNoModel, Request, UnknownLink, ReadPose, WritePose,
           SetJoint, Reply, vars
  <2>2. LastError(errors) = "NONE" <=> errors = {}
    BY DEF LastError
  <2>3. errors = {} <=> AllWellFormed
    BY DEF HandledInv, Handled, Replies, AllWellFormed
  <2>4. TextOfLastJoint(message)
    BY DEF HandledInv, Replies
  <2>5. QED
    BY <2>1, <2>2, <2>3, <2>4
<1>2. QED
  BY <1>1, HandledInductive, PTL DEF Spec, ReplyTells

=============================================================================
