--------------------------- MODULE Subscriptions ---------------------------
(***************************************************************************)
(* Messages of Gazebo's topics that the server keeps for its clients: a    *)
(* sensor (GazeboSensorSubscriber and its camera, IMU and laser) and a     *)
(* custom message (a generated handler behind CustomMsgDispatcher).        *)
(*                                                                         *)
(* Gazebo's transport thread stores the latest message of each.  The one   *)
(* io thread of the server answers the clients' requests, one after        *)
(* another, in several critical sections each: a request for a sensor's    *)
(* message waits until the sensor is up to date with the simulation time,  *)
(* a request for a custom message reads the message, reads whether it is   *)
(* new, and marks it as not new.                                           *)
(*                                                                         *)
(* The world's time is a number of ticks that a reset sets back to 0;      *)
(* epoch counts the resets.  Messages travel in order.                     *)
(***************************************************************************)
EXTENDS Integers, Sequences

CONSTANTS
  MaxTime,     \* bound: the world's time
  MaxEpoch,    \* bound: resets of the world's time
  MaxFlight,   \* bound: sensor messages under way
  MaxArrivals, \* bound: custom messages
  Interval,    \* the sensor's update interval
  Polls        \* how often a request looks again: 50 in the code

ASSUME MaxTimeAssumption == MaxTime \in Nat
ASSUME MaxEpochAssumption == MaxEpoch \in Nat
ASSUME MaxArrivalsAssumption == MaxArrivals \in Nat
ASSUME IntervalAssumption == Interval \in Nat \ {0}
ASSUME PollsAssumption == Polls \in Nat

VARIABLES
  now, epoch,    \* World::SimTime, and how often it was reset
  flight,        \* sensor messages published and not delivered
  subscribed,    \* is the sensor in the container, with a subscriber?
  rated,         \* was its update rate found?  If not, the interval is infinite
  lastUpdate,    \* m_lastUpdateTime
  lastMessage,   \* m_lastMessage
  pc,            \* where the io thread is
  diff, idx,     \* diffTime and idx of getLatestMessage
  sensorReply,   \* the answer to the latest request for the sensor's message
  raced,         \* history: did a message or a reset come after the last check?
  initialized,   \* is the custom topic in m_subscriberPtrMap?
  message,       \* m_messageString: the number of the custom message, 0 for ""
  isNew,         \* m_isNew
  read,          \* what the request in progress has read
  customReply,   \* the last answer to a request for the custom message
  arrived,       \* history: custom messages that have arrived
  cleared,       \* history: how many had arrived at the last reset of m_isNew
  inWindow       \* history: those that arrived between the reads and the reset

worldVars == <<now, epoch>>
sensorVars == <<flight, subscribed, rated, lastUpdate, lastMessage>>
checkVars == <<diff, idx, raced>>
customVars == <<initialized, message, isNew, arrived, cleared, inWindow>>
requestVars == <<read, sensorReply, customReply>>
vars == <<worldVars, sensorVars, pc, checkVars, customVars, requestVars>>

Message == [epoch : 0 .. MaxEpoch, stamp : 0 .. MaxTime]

\* The status TOPIC_NAME_INVALID in place of a message.
NoMessage == [epoch |-> -1, stamp |-> -1]

CustomReply == [data : 0 .. MaxArrivals, new : BOOLEAN]

NothingRead == [data |-> 0, new |-> FALSE]

TypeOK ==
  /\ now \in 0 .. MaxTime /\ epoch \in 0 .. MaxEpoch
  /\ flight \in Seq(Message)
  /\ subscribed \in BOOLEAN /\ rated \in BOOLEAN
  /\ lastUpdate \in -Interval .. MaxTime
  /\ lastMessage \in Message \cup {NoMessage}
  /\ pc \in {"idle", "poll", "drop", "return", "status", "reset"}
  /\ diff \in -MaxTime .. MaxTime + Interval
  /\ idx \in 0 .. Polls
  /\ sensorReply \in Message \cup {NoMessage}
  /\ raced \in BOOLEAN
  /\ initialized \in BOOLEAN /\ isNew \in BOOLEAN
  /\ message \in 0 .. MaxArrivals
  /\ read \in CustomReply /\ customReply \in CustomReply
  /\ arrived \in 0 .. MaxArrivals /\ cleared \in 0 .. MaxArrivals
  /\ inWindow \subseteq 1 .. MaxArrivals

Init ==
  /\ now = 0 /\ epoch = 0
  /\ flight = <<>> /\ subscribed = FALSE /\ rated = FALSE
  /\ lastUpdate = -1 /\ lastMessage = NoMessage
  /\ pc = "idle" /\ diff = 0 /\ idx = 0 /\ raced = FALSE
  /\ sensorReply = NoMessage
  /\ initialized = FALSE /\ message = 0 /\ isNew = FALSE
  /\ read = NothingRead /\ customReply = NothingRead
  /\ arrived = 0 /\ cleared = 0 /\ inWindow = {}

-----------------------------------------------------------------------------
\* The world, and Gazebo's transport.
Advance ==
  /\ now < MaxTime
  /\ now' = now + 1
  /\ UNCHANGED <<epoch, sensorVars, pc, checkVars, customVars, requestVars>>

\* A request that has made its last check does not see what comes now.
PastCheck == pc \in {"drop", "return"}

ResetTime ==
  /\ epoch < MaxEpoch
  /\ now' = 0
  /\ epoch' = epoch + 1
  /\ raced' = (raced \/ PastCheck)
  /\ UNCHANGED <<sensorVars, pc, diff, idx, customVars, requestVars>>

Publish ==
  /\ subscribed
  /\ Len(flight) < MaxFlight
  /\ flight' = Append(flight, [epoch |-> epoch, stamp |-> now])
  /\ UNCHANGED <<worldVars, subscribed, rated, lastUpdate, lastMessage, pc,
                 checkVars, customVars, requestVars>>

\* updateMessage of the camera, the IMU or the laser.
UpdateMessage ==
  /\ flight # <<>>
  /\ lastUpdate' = Head(flight).stamp
  /\ lastMessage' = Head(flight)
  /\ flight' = Tail(flight)
  /\ raced' = (raced \/ PastCheck)
  /\ UNCHANGED <<worldVars, subscribed, rated, pc, diff, idx, customVars, requestVars>>

\* IMUMatSubscriber::OnUpdate: the next custom message replaces the latest.
OnUpdate ==
  /\ initialized
  /\ arrived < MaxArrivals
  /\ arrived' = arrived + 1
  /\ message' = arrived'
  /\ isNew' = TRUE
  /\ inWindow' = IF pc \in {"status", "reset"} THEN inWindow \cup {arrived'} ELSE inWindow
  /\ UNCHANGED <<worldVars, sensorVars, pc, checkVars, initialized, cleared, requestVars>>

-----------------------------------------------------------------------------
\* The io thread with the sensor.  A topic that Gazebo does not list, and a
\* request before the subscription, only get an error as their answer.

\* A new subscriber looks the sensor's update rate up.
NewSubscriber ==
  /\ rated' \in BOOLEAN
  /\ lastUpdate' = IF rated' THEN -Interval ELSE -1

\* A client subscribes to the sensor's topic: an existing subscriber is kept;
\* either way its message is reset.
Subscribe ==
  /\ pc = "idle"
  /\ subscribed' = TRUE
  /\ IF subscribed THEN UNCHANGED <<rated, lastUpdate>> ELSE NewSubscriber
  /\ lastMessage' = NoMessage
  /\ UNCHANGED <<worldVars, flight, pc, checkVars, customVars, requestVars>>

Stale(d) == rated /\ d >= Interval

\* Faulty variant: a message from the future is kept.
AfterCheckKeeps(d, i) ==
  IF Stale(d) /\ i < Polls THEN "poll" ELSE "return"

\* Faulty variant: a stale message is waited for once only.
AfterCheckOnce(d, i) ==
  IF Stale(d) /\ i = 0 /\ i < Polls THEN "poll"
  ELSE IF d < 0 THEN "drop" ELSE "return"

\* What getLatestMessage does after its i-th look at the times.
AfterCheck(d, i) ==
  IF Stale(d) /\ i < Polls THEN "poll"
  ELSE IF d < 0 THEN "drop" ELSE "return"

\* Faulty variant: the looks are not counted.
CheckUncounted(i) ==
  /\ diff' = now - lastUpdate
  /\ idx' = 0
  /\ raced' = FALSE
  /\ pc' = AfterCheck(diff', idx')

\* Faulty variant: every look counts for one more than it should.
CheckOneMore(i) ==
  /\ diff' = now - lastUpdate
  /\ idx' = i + 1
  /\ raced' = FALSE
  /\ pc' = AfterCheck(diff', idx')

Check(i) ==
  /\ diff' = now - lastUpdate
  /\ idx' = i
  /\ raced' = FALSE
  /\ pc' = AfterCheck(diff', idx')

RequestSensor ==
  /\ pc = "idle" /\ subscribed
  /\ Check(0)
  /\ sensorReply' = NoMessage
  /\ UNCHANGED <<worldVars, sensorVars, customVars, read, customReply>>

\* The thread has slept for 10 ms and looks again.
Poll ==
  /\ pc = "poll"
  /\ Check(idx + 1)
  /\ UNCHANGED <<worldVars, sensorVars, customVars, requestVars>>

\* resetMessageBuffer, in a critical section after that of the check.
DropMessage ==
  /\ pc = "drop"
  /\ lastMessage' = NoMessage
  /\ pc' = "return"
  /\ UNCHANGED <<worldVars, flight, subscribed, rated, lastUpdate, checkVars,
                 customVars, requestVars>>

ReturnMessage ==
  /\ pc = "return"
  /\ sensorReply' = lastMessage
  /\ pc' = "idle"
  /\ diff' = 0 /\ idx' = 0 /\ raced' = FALSE
  /\ UNCHANGED <<worldVars, sensorVars, customVars, read, customReply>>

-----------------------------------------------------------------------------
\* The io thread with the custom message.

\* initSubscriber: a topic that is subscribed to stays as it is.
InitSubscriber ==
  /\ pc = "idle"
  /\ initialized' = TRUE
  /\ UNCHANGED <<worldVars, sensorVars, pc, checkVars, message, isNew, arrived,
                 cleared, inWindow, requestVars>>

\* subscribeCustomMsg: getMessage, ...
GetMessage ==
  /\ pc = "idle" /\ initialized
  /\ read' = [read EXCEPT !.data = message]
  /\ pc' = "status"
  /\ UNCHANGED <<worldVars, sensorVars, checkVars, customVars, sensorReply, customReply>>

\* ... getMessageStatus, ...
GetMessageStatus ==
  /\ pc = "status"
  /\ read' = [read EXCEPT !.new = isNew]
  /\ pc' = "reset"
  /\ UNCHANGED <<worldVars, sensorVars, checkVars, customVars, sensorReply, customReply>>

\* Faulty variant: the message stays new.
ResetStatusForgotten ==
  /\ pc = "reset"
  /\ cleared' = arrived
  /\ customReply' = read
  /\ read' = NothingRead
  /\ pc' = "idle"
  /\ UNCHANGED <<worldVars, sensorVars, checkVars, initialized, message, isNew,
                 arrived, inWindow, sensorReply>>

\* Faulty variant: the status is answered after it has been reset.
ResetStatusFirst ==
  /\ pc = "reset"
  /\ isNew' = FALSE
  /\ cleared' = arrived
  /\ customReply' = [read EXCEPT !.new = isNew']
  /\ read' = NothingRead
  /\ pc' = "idle"
  /\ UNCHANGED <<worldVars, sensorVars, checkVars, initialized, message, arrived,
                 inWindow, sensorReply>>

\* ... and resetMessageStatus; the reply has what was read.
ResetMessageStatus ==
  /\ pc = "reset"
  /\ isNew' = FALSE
  /\ cleared' = arrived
  /\ customReply' = read
  /\ read' = NothingRead
  /\ pc' = "idle"
  /\ UNCHANGED <<worldVars, sensorVars, checkVars, initialized, message, arrived,
                 inWindow, sensorReply>>

-----------------------------------------------------------------------------
Environment == Advance \/ ResetTime \/ Publish \/ UpdateMessage \/ OnUpdate

NewRequest == Subscribe \/ RequestSensor \/ InitSubscriber \/ GetMessage

Handler == Poll \/ DropMessage \/ ReturnMessage \/ GetMessageStatus \/ ResetMessageStatus

Next == Environment \/ NewRequest \/ Handler

Spec == Init /\ [][Next]_vars

\* A handler runs on once it has begun.  Neither the world nor the clients
\* have to do anything.
FairSpec == Spec /\ WF_vars(Handler)

-----------------------------------------------------------------------------
\* A request for a sensor's message never returns one from a later time than
\* the world's, although the time was set back while the message was stored or
\* under way; only what comes between the check and the answer can get past it
\* (GazeboSensorSubscriber.cpp:78-86).
NoReplyFromFuture ==
  [][pc = "return" /\ pc' = "idle" /\ ~raced /\ sensorReply' # NoMessage
       => sensorReply'.stamp <= now]_vars

\* A message that was an update interval old when the request last looked is
\* returned only after the full wait, and the wait ends as soon as a newer one
\* arrives (GazeboSensorSubscriber.cpp:58-74).
StaleOnlyAfterWait ==
  [][pc = "return" /\ pc' = "idle" /\ ~raced /\ rated /\ sensorReply' # NoMessage
       => \/ idx = Polls
          \/ sensorReply'.stamp > lastUpdate + diff - Interval]_vars

\* A sensor that is silent, or ahead of the world's time, does not keep the io
\* thread from the other clients (GazeboSensorSubscriber.cpp:67).
RequestReturns == (pc # "idle") ~> (pc = "idle")

\* A custom message that is answered as not new was answered before, or it
\* arrived while an earlier request was between its reads and its reset
\* (pkgtest/IMUMatMsgHandler.cpp:154-156).
NewsAreReported ==
  [][pc = "reset" /\ pc' = "idle" /\ ~customReply'.new
       => customReply'.data \in {0, customReply.data} \cup inWindow]_vars

\* A custom message is answered as new only if one has arrived since the last
\* request (pkgtest/IMUMatMsgHandler.cpp:155-156).
NewsAreNew ==
  [][pc = "reset" /\ pc' = "idle" /\ customReply'.new => arrived > cleared]_vars

=============================================================================
