------------------------ MODULE SubscriptionsProofs ------------------------
(***************************************************************************)
(* Proofs about Subscriptions, for every update interval, every number of  *)
(* polls and of messages, and every order of messages, resets of the time  *)
(* and requests.                                                           *)
(***************************************************************************)
EXTENDS Subscriptions, TLAPS

\* The groups of variables that an action leaves alone.
USE DEF worldVars, sensorVars, checkVars, customVars, requestVars

-----------------------------------------------------------------------------
\* The types, by what is needed to keep them.
FlagTypes ==
  /\ subscribed \in BOOLEAN /\ rated \in BOOLEAN /\ raced \in BOOLEAN
  /\ pc \in {"idle", "poll", "drop", "return", "status", "reset"}
  /\ initialized \in BOOLEAN /\ isNew \in BOOLEAN

TimeTypes ==
  /\ now \in 0 .. MaxTime /\ epoch \in 0 .. MaxEpoch
  /\ lastUpdate \in -Interval .. MaxTime
  /\ diff \in -MaxTime .. MaxTime + Interval
  /\ idx \in 0 .. Polls

MessageTypes ==
  /\ flight \in Seq(Message)
  /\ lastMessage \in Message \cup {NoMessage}
  /\ sensorReply \in Message \cup {NoMessage}

CustomTypes ==
  /\ message \in 0 .. MaxArrivals
  /\ read \in CustomReply /\ customReply \in CustomReply
  /\ arrived \in 0 .. MaxArrivals /\ cleared \in 0 .. MaxArrivals
  /\ inWindow \subseteq 1 .. MaxArrivals

\* A request looks again only as often as it may.
PollsLeft == pc = "poll" => idx < Polls

LEMMA TypesSplit == TypeOK <=> FlagTypes /\ TimeTypes /\ MessageTypes /\ CustomTypes
BY Zenon DEF TypeOK, FlagTypes, TimeTypes, MessageTypes, CustomTypes

\* Where a check leads to.
LEMMA CheckOutcome ==
  ASSUME NEW i, Check(i)
  PROVE  /\ pc' \in {"poll", "drop", "return"}
         /\ pc' = "poll" => i < Polls
         /\ pc' = "drop" => diff' < 0
         /\ pc' = "return" => ~(diff' < 0)
         /\ pc' \in {"drop", "return"} => ~(Stale(diff') /\ i < Polls)
         /\ raced' = FALSE /\ idx' = i /\ diff' = now - lastUpdate
BY DEF Check, AfterCheck

\* What is delivered is a message, and so is what stays under way.
LEMMA FlightType ==
  ASSUME flight \in Seq(Message), flight # <<>>
  PROVE  Head(flight) \in Message /\ Tail(flight) \in Seq(Message)
OBVIOUS

LEMMA FlagTypesStep ==
  ASSUME TypeOK, [Next]_vars
  PROVE  FlagTypes'
<1> USE DEF FlagTypes
<1>0. FlagTypes
  BY TypesSplit
<1>1. CASE Environment
  BY <1>0, <1>1, Zenon DEF Environment, Advance, ResetTime, Publish, UpdateMessage, OnUpdate, PastCheck
<1>2. CASE Subscribe \/ InitSubscriber \/ GetMessage
  BY <1>0, <1>2 DEF Subscribe, NewSubscriber, InitSubscriber, GetMessage
<1>3. CASE RequestSensor
  BY <1>0, <1>3, CheckOutcome DEF RequestSensor
<1>4. CASE Poll
  BY <1>0, <1>4, CheckOutcome DEF Poll
<1>5. CASE DropMessage \/ ReturnMessage \/ GetMessageStatus \/ ResetMessageStatus
  BY <1>0, <1>5 DEF DropMessage, ReturnMessage, GetMessageStatus, ResetMessageStatus
<1>6. CASE UNCHANGED vars
  BY <1>0, <1>6, Zenon DEF vars
<1>7. QED
  BY <1>1, <1>2, <1>3, <1>4, <1>5, <1>6 DEF Next, NewRequest, Handler

LEMMA TimeTypesStep ==
  ASSUME TypeOK, PollsLeft, [Next]_vars
  PROVE  TimeTypes' /\ PollsLeft'
<1> USE MaxTimeAssumption, MaxEpochAssumption, IntervalAssumption, PollsAssumption
    DEF TimeTypes, PollsLeft
<1>0. TimeTypes /\ FlagTypes
  BY TypesSplit
<1>1. CASE Advance
  BY <1>0, <1>1 DEF Advance
<1>2. CASE ResetTime
  BY <1>0, <1>2 DEF ResetTime
<1>3. CASE UpdateMessage
  <2>1. Head(flight) \in Message
    BY <1>3, FlightType, TypesSplit DEF UpdateMessage, MessageTypes
  <2>2. lastUpdate' \in 0 .. MaxTime
    BY <1>3, <2>1 DEF UpdateMessage, Message
  <2>3. QED
    BY <1>0, <1>3, <2>2 DEF UpdateMessage
<1>4. CASE Publish \/ OnUpdate
  BY <1>0, <1>4, Zenon DEF Publish, OnUpdate
<1>5. CASE Subscribe
  <2>1. lastUpdate' \in -Interval .. MaxTime
    BY <1>0, <1>5 DEF Subscribe, NewSubscriber
  <2>2. QED
    BY <1>0, <1>5, <2>1, Zenon DEF Subscribe, NewSubscriber
<1>6. CASE RequestSensor
  <2>1. /\ (pc' = "poll" => 0 < Polls) /\ idx' = 0 /\ diff' = now - lastUpdate
        /\ UNCHANGED <<now, epoch, lastUpdate>>
    BY <1>6, CheckOutcome, Zenon DEF RequestSensor
  <2>2. QED
    BY <1>0, <2>1
<1>7. CASE Poll
  <2>1. /\ (pc' = "poll" => idx + 1 < Polls) /\ idx' = idx + 1 /\ diff' = now - lastUpdate
        /\ UNCHANGED <<now, epoch, lastUpdate>>
    BY <1>7, CheckOutcome, Zenon DEF Poll
  <2>2. idx < Polls
    BY <1>7 DEF Poll
  <2>3. QED
    BY <1>0, <2>1, <2>2
<1>8. CASE DropMessage \/ GetMessageStatus \/ ResetMessageStatus \/ InitSubscriber \/ GetMessage
  BY <1>0, <1>8 DEF DropMessage, GetMessageStatus, ResetMessageStatus, InitSubscriber, GetMessage
<1>9. CASE ReturnMessage
  BY <1>0, <1>9 DEF ReturnMessage
<1>10. CASE UNCHANGED vars
  BY <1>0, <1>10, Zenon DEF vars
<1>11. QED
  BY <1>1, <1>2, <1>3, <1>4, <1>5, <1>6, <1>7, <1>8, <1>9, <1>10
     DEF Next, Environment, NewRequest, Handler

LEMMA MessageTypesStep ==
  ASSUME TypeOK, [Next]_vars
  PROVE  MessageTypes'
<1> USE DEF MessageTypes
<1>0. MessageTypes /\ TimeTypes
  BY TypesSplit
<1>1. CASE Publish
  <2>1. [epoch |-> epoch, stamp |-> now] \in Message
    BY <1>0 DEF Message, TimeTypes
  <2>2. QED
    BY <1>0, <1>1, <2>1 DEF Publish
<1>2. CASE UpdateMessage
  BY <1>0, <1>2, FlightType DEF UpdateMessage
<1>3. CASE Advance \/ ResetTime \/ OnUpdate
  BY <1>0, <1>3, Zenon DEF Advance, ResetTime, OnUpdate
<1>4. CASE NewRequest
  BY <1>0, <1>4, Zenon DEF NewRequest, Subscribe, NewSubscriber, RequestSensor, InitSubscriber, GetMessage
<1>5. CASE Handler
  BY <1>0, <1>5, Zenon
     DEF Handler, Poll, DropMessage, ReturnMessage, GetMessageStatus, ResetMessageStatus
<1>6. CASE UNCHANGED vars
  BY <1>0, <1>6, Zenon DEF vars
<1>7. QED
  BY <1>1, <1>2, <1>3, <1>4, <1>5, <1>6 DEF Next, Environment

LEMMA CustomTypesStep ==
  ASSUME TypeOK, [Next]_vars
  PROVE  CustomTypes'
<1> USE MaxArrivalsAssumption DEF CustomTypes
<1>0. CustomTypes /\ FlagTypes
  BY TypesSplit
<1>1. CASE OnUpdate
  <2>1. arrived' \in 1 .. MaxArrivals /\ message' = arrived'
    BY <1>0, <1>1 DEF OnUpdate
  <2>2. inWindow' \subseteq 1 .. MaxArrivals
    BY <1>0, <1>1, <2>1, Zenon DEF OnUpdate
  <2>3. QED
    BY <1>0, <1>1, <2>1, <2>2 DEF OnUpdate
<1>2. CASE GetMessage
  BY <1>0, <1>2 DEF GetMessage, CustomReply
<1>3. CASE GetMessageStatus
  BY <1>0, <1>3 DEF GetMessageStatus, CustomReply, FlagTypes
<1>4. CASE ResetMessageStatus
  <2>1. NothingRead \in CustomReply
    BY DEF NothingRead, CustomReply
  <2>2. QED
    BY <1>0, <1>4, <2>1, Zenon DEF ResetMessageStatus
<1>5. CASE Advance \/ ResetTime \/ Publish \/ UpdateMessage
  BY <1>0, <1>5, Zenon DEF Advance, ResetTime, Publish, UpdateMessage
<1>6. CASE Subscribe \/ RequestSensor \/ InitSubscriber
  BY <1>0, <1>6, Zenon DEF Subscribe, NewSubscriber, RequestSensor, InitSubscriber
<1>7. CASE Poll \/ DropMessage \/ ReturnMessage
  BY <1>0, <1>7, Zenon DEF Poll, DropMessage, ReturnMessage
<1>8. CASE UNCHANGED vars
  BY <1>0, <1>8, Zenon DEF vars
<1>9. QED
  BY <1>1, <1>2, <1>3, <1>4, <1>5, <1>6, <1>7, <1>8
     DEF Next, Environment, NewRequest, Handler

LEMMA TypesInductive == Spec => [](TypeOK /\ PollsLeft)
<1>1. Init => TypeOK /\ PollsLeft
  <2> SUFFICES ASSUME Init PROVE TypeOK /\ PollsLeft
    OBVIOUS
  <2>1. FlagTypes
    BY DEF Init, FlagTypes
  <2>2. TimeTypes
    BY MaxTimeAssumption, MaxEpochAssumption, IntervalAssumption, PollsAssumption
       DEF Init, TimeTypes
  <2>3. MessageTypes
    BY DEF Init, MessageTypes
  <2>4. CustomTypes
    BY MaxArrivalsAssumption DEF Init, CustomTypes, CustomReply, NothingRead
  <2>5. QED
    BY <2>1, <2>2, <2>3, <2>4, TypesSplit DEF Init, PollsLeft
<1>2. TypeOK /\ PollsLeft /\ [Next]_vars => TypeOK' /\ PollsLeft'
  <2> SUFFICES ASSUME TypeOK, PollsLeft, [Next]_vars PROVE TypeOK' /\ PollsLeft'
    OBVIOUS
  <2>1. FlagTypes' /\ TimeTypes' /\ MessageTypes' /\ CustomTypes' /\ PollsLeft'
    BY FlagTypesStep, TimeTypesStep, MessageTypesStep, CustomTypesStep
  <2>2. QED
    BY <2>1, Zenon DEF TypeOK, FlagTypes, TimeTypes, MessageTypes, CustomTypes
<1>3. QED
  BY <1>1, <1>2, PTL DEF Spec

\* Type correctness: a request looks at the times at most Polls times after the
\* first (GazeboSensorSubscriber.cpp:67), and the times stay in their ranges.
THEOREM SubscriptionsTypeCorrect == Spec => []TypeOK
BY TypesInductive, PTL

-----------------------------------------------------------------------------
\* The sensor.  What is stored is the message that set the update time; after the
\* last check, nothing but a message or a reset of the time can make what was
\* compared then wrong; and a message from the future is not kept.
PastCheckInv ==
  /\ lastMessage # NoMessage => lastMessage.stamp = lastUpdate
  /\ PastCheck /\ ~raced => now >= lastUpdate + diff
  /\ PastCheck /\ ~raced => ~(Stale(diff) /\ idx < Polls)
  /\ pc = "return" /\ ~raced /\ lastMessage # NoMessage => ~(diff < 0)

LEMMA PastCheckInductive == Spec => []PastCheckInv
<1>1. Init => PastCheckInv
  BY DEF Init, PastCheckInv, PastCheck
<1>2. TypeOK /\ PastCheckInv /\ [Next]_vars => PastCheckInv'
  <2> SUFFICES ASSUME TypeOK, PastCheckInv, [Next]_vars PROVE PastCheckInv'
    OBVIOUS
  <2> USE DEF PastCheckInv, PastCheck
  <2>0. /\ now \in Int /\ lastUpdate \in Int /\ diff \in Int /\ idx \in Int
        /\ raced \in BOOLEAN
    BY MaxTimeAssumption, IntervalAssumption, PollsAssumption, TypesSplit
       DEF TimeTypes, FlagTypes
  <2>1. CASE Advance
    BY <2>0, <2>1 DEF Advance, Stale
  <2>2. CASE ResetTime
    BY <2>0, <2>2 DEF ResetTime, Stale
  <2>3. CASE UpdateMessage
    <3>1. lastMessage'.stamp = lastUpdate'
      BY <2>3, Zenon DEF UpdateMessage
    <3>2. UNCHANGED <<pc, diff, idx>> /\ (PastCheck => raced')
      BY <2>3 DEF UpdateMessage
    <3>3. QED
      BY <3>1, <3>2 DEF PastCheck
  <2>4. CASE Publish \/ OnUpdate
    <3>1. UNCHANGED <<now, lastUpdate, lastMessage, rated, pc, diff, idx, raced>>
      BY <2>4, Zenon DEF Publish, OnUpdate
    <3>2. QED
      BY <3>1 DEF Stale
  <2>5. CASE Subscribe
    BY <2>5 DEF Subscribe, NewSubscriber
  <2>6. ASSUME Check(0) \/ Check(idx + 1), UNCHANGED <<now, lastUpdate, lastMessage, rated>>
        PROVE  PastCheckInv'
    <3>1. PICK i \in {0, idx + 1} : Check(i)
      BY <2>6
    <3>2. /\ pc' = "drop" => diff' < 0
          /\ pc' = "return" => ~(diff' < 0)
          /\ pc' \in {"drop", "return"} => ~(Stale(diff') /\ i < Polls)
          /\ idx' = i /\ diff' = now - lastUpdate
      BY <3>1, CheckOutcome
    <3>3. now >= lastUpdate + diff'
      BY <2>0, <3>2
    <3>4. QED
      BY <2>6, <3>2, <3>3, Zenon DEF Stale
  <2>7. CASE RequestSensor
    BY <2>6, <2>7, Zenon DEF RequestSensor
  <2>8. CASE Poll
    BY <2>6, <2>8, Zenon DEF Poll
  <2>9. CASE DropMessage
    BY <2>0, <2>9 DEF DropMessage, Stale
  <2>10. CASE ReturnMessage
    BY <2>10 DEF ReturnMessage
  <2>11. CASE GetMessageStatus \/ ResetMessageStatus \/ InitSubscriber \/ GetMessage
    BY <2>11 DEF GetMessageStatus, ResetMessageStatus, InitSubscriber, GetMessage, Stale
  <2>12. CASE UNCHANGED vars
    BY <2>12, Zenon DEF vars, Stale
  <2>13. QED
    BY <2>1, <2>2, <2>3, <2>4, <2>5, <2>7, <2>8, <2>9, <2>10, <2>11, <2>12
       DEF Next, Environment, NewRequest, Handler
<1>3. QED
  BY <1>1, <1>2, TypesInductive, PTL DEF Spec

\* The only step from "return" to "idle" answers with what is stored.
LEMMA AnswersStored ==
  ASSUME TypeOK, [Next]_vars, pc = "return", pc' = "idle"
  PROVE  sensorReply' = lastMessage
BY DEF Next, Environment, NewRequest, Handler, Advance, ResetTime, Publish, UpdateMessage,
       OnUpdate, Subscribe, NewSubscriber, RequestSensor, InitSubscriber, GetMessage, Poll, DropMessage,
       ReturnMessage, GetMessageStatus, ResetMessageStatus, vars

\* No message from a later time than the world's is returned, unless it or the
\* reset that made it late came after the last check
\* (GazeboSensorSubscriber.cpp:78-86).
THEOREM NothingFromFuture == Spec => NoReplyFromFuture
<1>1. TypeOK /\ PastCheckInv /\ [Next]_vars =>
        [pc = "return" /\ pc' = "idle" /\ ~raced /\ sensorReply' # NoMessage
           => sensorReply'.stamp <= now]_vars
  <2> SUFFICES ASSUME TypeOK, PastCheckInv, [Next]_vars,
                      pc = "return", pc' = "idle", ~raced, sensorReply' # NoMessage
               PROVE  sensorReply'.stamp <= now
    OBVIOUS
  <2>1. sensorReply' = lastMessage
    BY AnswersStored
  <2>2. lastMessage.stamp = lastUpdate /\ now >= lastUpdate + diff /\ ~(diff < 0)
    BY <2>1 DEF PastCheckInv, PastCheck
  <2>3. now \in Int /\ lastUpdate \in Int /\ diff \in Int
    BY MaxTimeAssumption, IntervalAssumption, TypesSplit DEF TimeTypes
  <2>4. QED
    BY <2>1, <2>2, <2>3
<1>2. QED
  BY <1>1, TypesInductive, PastCheckInductive, PTL DEF Spec, NoReplyFromFuture

\* A message that was out of date at the last look is returned only after the full
\* wait (GazeboSensorSubscriber.cpp:58-74).
THEOREM StaleIsWaitedFor == Spec => StaleOnlyAfterWait
<1>1. TypeOK /\ PastCheckInv /\ [Next]_vars =>
        [pc = "return" /\ pc' = "idle" /\ ~raced /\ rated /\ sensorReply' # NoMessage
           => \/ idx = Polls
              \/ sensorReply'.stamp > lastUpdate + diff - Interval]_vars
  <2> SUFFICES ASSUME TypeOK, PastCheckInv, [Next]_vars, rated,
                      pc = "return", pc' = "idle", ~raced, sensorReply' # NoMessage
               PROVE  \/ idx = Polls
                      \/ sensorReply'.stamp > lastUpdate + diff - Interval
    OBVIOUS
  <2>1. sensorReply' = lastMessage
    BY AnswersStored
  <2>2. lastMessage.stamp = lastUpdate /\ ~(diff >= Interval /\ idx < Polls)
    BY <2>1 DEF PastCheckInv, PastCheck, Stale
  <2>3. lastUpdate \in Int /\ diff \in Int /\ idx \in 0 .. Polls
    BY MaxTimeAssumption, IntervalAssumption, TypesSplit DEF TimeTypes
  <2>4. QED
    BY <2>1, <2>2, <2>3, IntervalAssumption, PollsAssumption
<1>2. QED
  BY <1>1, TypesInductive, PastCheckInductive, PTL DEF Spec, StaleOnlyAfterWait

-----------------------------------------------------------------------------
\* The custom message.  What has been answered already, or fell into the window.
Known == {0, customReply.data} \cup inWindow

NewsInv ==
  /\ pc \notin {"status", "reset"} /\ ~isNew => message \in Known
  /\ pc = "status" /\ ~isNew => read.data \in Known
  /\ pc = "reset" /\ ~read.new => read.data \in Known
  /\ pc \in {"status", "reset"} => message \in {read.data} \cup inWindow

\* What is new has arrived since the last reset of the flag.
CountInv ==
  /\ cleared <= arrived
  /\ isNew => cleared < arrived
  /\ pc = "reset" /\ read.new => cleared < arrived

LEMMA NewsInductive == Spec => [](NewsInv /\ CountInv)
<1>1. Init => NewsInv /\ CountInv
  BY DEF Init, NewsInv, CountInv, Known
<1>2. TypeOK /\ NewsInv /\ CountInv /\ [Next]_vars => NewsInv' /\ CountInv'
  <2> SUFFICES ASSUME TypeOK, NewsInv, CountInv, [Next]_vars PROVE NewsInv' /\ CountInv'
    OBVIOUS
  <2> USE DEF NewsInv, CountInv, Known
  <2>0. /\ arrived \in Int /\ cleared \in Int
        /\ read \in CustomReply /\ isNew \in BOOLEAN
    BY MaxArrivalsAssumption, TypesSplit DEF CustomTypes, FlagTypes
  <2>1. CASE OnUpdate
    <3>1. /\ isNew' = TRUE /\ message' = arrived' /\ arrived' = arrived + 1
          /\ UNCHANGED <<pc, cleared, read, customReply>>
          /\ inWindow \subseteq inWindow'
      BY <2>1 DEF OnUpdate
    <3>2. pc \in {"status", "reset"} => message' \in inWindow'
      BY <2>1, <3>1 DEF OnUpdate
    <3>3. CountInv'
      BY <2>0, <3>1
    <3>4. NewsInv'
      BY <3>1, <3>2, Zenon
    <3>5. QED
      BY <3>3, <3>4
  <2>2. CASE Advance \/ ResetTime \/ Publish \/ UpdateMessage \/ Subscribe \/ InitSubscriber
    <3>1. UNCHANGED <<pc, message, isNew, arrived, cleared, inWindow, read, customReply>>
      BY <2>2, Zenon DEF Advance, ResetTime, Publish, UpdateMessage, Subscribe, NewSubscriber, InitSubscriber
    <3>2. QED
      BY <3>1
  <2>4. ASSUME UNCHANGED <<message, isNew, arrived, cleared, inWindow, read, customReply>>,
               pc \notin {"status", "reset"}, pc' \notin {"status", "reset"}
        PROVE  NewsInv' /\ CountInv'
    BY <2>4, Zenon
  <2>5. CASE RequestSensor \/ Poll
    <3>1. PICK i : Check(i)
      BY <2>5, Zenon DEF RequestSensor, Poll
    <3>2. pc' \in {"poll", "drop", "return"}
      BY <3>1, CheckOutcome
    <3>3. /\ pc \in {"idle", "poll"}
          /\ UNCHANGED <<message, isNew, arrived, cleared, inWindow, read, customReply>>
      BY <2>5 DEF RequestSensor, Poll
    <3>4. QED
      BY <2>4, <3>2, <3>3
  <2>6. CASE DropMessage \/ ReturnMessage
    BY <2>4, <2>6 DEF DropMessage, ReturnMessage
  <2>7. CASE GetMessage
    BY <2>0, <2>7 DEF GetMessage, CustomReply
  <2>8. CASE GetMessageStatus
    BY <2>0, <2>8 DEF GetMessageStatus, CustomReply
  <2>9. CASE ResetMessageStatus
    BY <2>0, <2>9 DEF ResetMessageStatus
  <2>10. CASE UNCHANGED vars
    BY <2>10, Zenon DEF vars
  <2>11. QED
    BY <2>1, <2>2, <2>5, <2>6, <2>7, <2>8, <2>9, <2>10
       DEF Next, Environment, NewRequest, Handler
<1>3. QED
  BY <1>1, <1>2, TypesInductive, PTL DEF Spec
\* The only step from "reset" to "idle" answers with what was read.
LEMMA AnswersRead ==
  ASSUME TypeOK, [Next]_vars, pc = "reset", pc' = "idle"
  PROVE  customReply' = read /\ UNCHANGED inWindow
BY DEF Next, Environment, NewRequest, Handler, Advance, ResetTime, Publish, UpdateMessage,
       OnUpdate, Subscribe, NewSubscriber, RequestSensor, InitSubscriber, GetMessage, Poll, DropMessage,
       ReturnMessage, GetMessageStatus, ResetMessageStatus, vars

\* A custom message that is answered as not new was answered before, or came
\* between the reads and the reset of a request
\* (pkgtest/IMUMatMsgHandler.cpp:154-156).
THEOREM NewsGetReported == Spec => NewsAreReported
<1>1. TypeOK /\ NewsInv /\ [Next]_vars =>
        [pc = "reset" /\ pc' = "idle" /\ ~customReply'.new
           => customReply'.data \in {0, customReply.data} \cup inWindow]_vars
  BY AnswersRead DEF NewsInv, Known
<1>2. QED
  BY <1>1, TypesInductive, NewsInductive, PTL DEF Spec, NewsAreReported

\* A custom message is answered as new only if one has arrived since the last
\* request (pkgtest/IMUMatMsgHandler.cpp:155-156).
THEOREM ReportedNewsAreNew == Spec => NewsAreNew
<1>1. TypeOK /\ CountInv /\ [Next]_vars =>
        [pc = "reset" /\ pc' = "idle" /\ customReply'.new => arrived > cleared]_vars
  <2>1. TypeOK => arrived \in Int /\ cleared \in Int
    BY MaxArrivalsAssumption, TypesSplit DEF CustomTypes
  <2>2. QED
    BY <2>1, AnswersRead DEF CountInv
<1>2. QED
  BY <1>1, TypesInductive, NewsInductive, PTL DEF Spec, NewsAreNew

-----------------------------------------------------------------------------
(* A request comes to its end.  Fairness has its guard written out.        *)

HandlerReady == pc # "idle"

HandlerFairness == []<>~HandlerReady \/ []<><<Handler>>_vars

\* It is the fairness of FairSpec, once the guard enables the handler.
LEMMA HandlerIsFair ==
  FairSpec /\ [](HandlerReady => ENABLED <<Handler>>_vars) => Spec /\ HandlerFairness
BY PTL DEF FairSpec, HandlerFairness

\* The request waits for the sensor, after its look number n.
Waiting == pc = "poll"
Looked(n) == Waiting /\ idx = n

\* It has one more step to make before its last one, or only that, or none.
TwoLeft == pc \in {"drop", "status"}
OneLeft == pc \in {"return", "reset"}
Answered == pc = "idle"

\* Only the handler goes on with the request it is in ...
LEMMA RequestMoves ==
  ASSUME [Next]_vars, HandlerReady
  PROVE  Handler \/ UNCHANGED <<pc, idx>>
BY DEF HandlerReady, Next, Environment, Advance, ResetTime, Publish, UpdateMessage, OnUpdate,
       NewRequest, Subscribe, RequestSensor, InitSubscriber, GetMessage, vars, checkVars

\* ... by a look, or towards its answer.
LEMMA HandlerMoves ==
  ASSUME TypeOK, Handler
  PROVE  /\ Waiting => Waiting' \/ TwoLeft' \/ OneLeft'
         /\ \A n : Looked(n) => Looked(n + 1)' \/ TwoLeft' \/ OneLeft'
         /\ TwoLeft => OneLeft'
         /\ OneLeft => Answered'
<1> USE DEF Waiting, Looked, TwoLeft, OneLeft, Answered
<1>1. CASE Poll
  <2>1. pc = "poll" /\ Check(idx + 1)
    BY <1>1 DEF Poll
  <2>2. pc' \in {"poll", "drop", "return"} /\ idx' = idx + 1
    BY <2>1, CheckOutcome
  <2>3. QED
    BY <2>1, <2>2
<1>2. CASE DropMessage \/ ReturnMessage \/ GetMessageStatus \/ ResetMessageStatus
  BY <1>2 DEF DropMessage, ReturnMessage, GetMessageStatus, ResetMessageStatus
<1>3. QED
  BY <1>1, <1>2 DEF Handler

\* A sensor that is silent does not stop the request's count
\* (GazeboSensorSubscriber.cpp:58-74): after its look number n the request looks
\* for the next time or is answered, and there is a next time only while n < Polls.
THEOREM LooksGoOn ==
  ASSUME NEW n \in Nat
  PROVE  Spec /\ HandlerFairness
         => /\ Looked(n) ~> (Looked(n + 1) \/ Answered)
            /\ [](Looked(n) => n < Polls)
<1> DEFINE Here == Looked(n)
           Next1 == Looked(n + 1)
<1>1. TypeOK /\ PollsLeft /\ [Next]_vars
      => /\ Here => Here' \/ Next1' \/ TwoLeft' \/ OneLeft'
         /\ TwoLeft => TwoLeft' \/ OneLeft'
         /\ OneLeft => OneLeft' \/ Answered'
  BY RequestMoves, HandlerMoves DEF HandlerReady, Waiting, Looked, TwoLeft, OneLeft, Answered
<1>2. TypeOK /\ <<Handler>>_vars
      => /\ Here => Next1' \/ TwoLeft' \/ OneLeft'
         /\ TwoLeft => OneLeft'
         /\ OneLeft => Answered'
  BY HandlerMoves
<1>3. Here \/ TwoLeft \/ OneLeft => HandlerReady
  BY DEF Waiting, Looked, TwoLeft, OneLeft, HandlerReady
<1>4. PollsLeft => (Here => n < Polls)
  BY DEF PollsLeft, Waiting, Looked
<1>5. /\ ~(Here /\ Next1) /\ ~(Here /\ TwoLeft) /\ ~(Here /\ OneLeft)
      /\ ~(TwoLeft /\ OneLeft)
  BY DEF Waiting, Looked, TwoLeft, OneLeft
<1> HIDE DEF Here, Next1
<1>6. Spec /\ HandlerFairness
      => (Here ~> (Next1 \/ Answered)) /\ [](Here => n < Polls)
  BY <1>1, <1>2, <1>3, <1>4, <1>5, TypesInductive, PTL DEF Spec, HandlerFairness
<1>7. QED
  BY <1>6 DEF Here, Next1

\* Every request returns (GazeboSensorSubscriber.cpp:67, pkgtest/
\* IMUMatMsgHandler.cpp:154-156), if its looks come to an end: that they do, because
\* each is followed by the next and there are Polls of them, is an induction.
THEOREM AnswersAreGiven ==
  Spec /\ HandlerFairness /\ (Waiting ~> ~Waiting) => RequestReturns
<1>1. TypeOK /\ PollsLeft /\ [Next]_vars
      => /\ Waiting => Waiting' \/ TwoLeft' \/ OneLeft'
         /\ TwoLeft => TwoLeft' \/ OneLeft'
         /\ OneLeft => OneLeft' \/ Answered'
  BY RequestMoves, HandlerMoves DEF HandlerReady, Waiting, TwoLeft, OneLeft, Answered
<1>2. TypeOK /\ <<Handler>>_vars
      => /\ TwoLeft => OneLeft'
         /\ OneLeft => Answered'
  BY HandlerMoves
<1>3. /\ TwoLeft \/ OneLeft => HandlerReady
      /\ TypeOK => (HandlerReady <=> Waiting \/ TwoLeft \/ OneLeft)
      /\ ~(Waiting /\ (TwoLeft \/ OneLeft)) /\ ~(TwoLeft /\ OneLeft)
  BY DEF TypeOK, HandlerReady, Waiting, TwoLeft, OneLeft
<1>4. (HandlerReady <=> pc # "idle") /\ (Answered <=> pc = "idle")
  BY DEF HandlerReady, Answered
<1>5. QED
  BY <1>1, <1>2, <1>3, <1>4, TypesInductive, PTL DEF Spec, HandlerFairness, RequestReturns

=============================================================================
