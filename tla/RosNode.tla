------------------------------ MODULE RosNode ------------------------------
(***************************************************************************)
(* The ROS node generated from the Simulink model                          *)
(* robotROSGetStartedExample_edit: three threads that step a model on the  *)
(* ticks of ROS' /clock topic.                                             *)
(*                                                                         *)
(*   main       waits for the scheduler to end, then joins both threads    *)
(*   scheduler  runs ros::spin; its clock callback notifies a semaphore    *)
(*              at every base-rate slot                                    *)
(*   base       waits for the semaphore and steps the model                *)
(*                                                                         *)
(* mRunModel is a plain flag that all three write.  A clock message has a  *)
(* time: a slot of the base rate (10 ms), hit exactly or passed (the       *)
(* message lies before the next slot).  Messages may be lost, and the      *)
(* clock may be set back or repeat itself (a reset or paused simulation);  *)
(* jumped remembers that it did.                                           *)
(***************************************************************************)
EXTENDS Integers

CONSTANTS
  MaxSlot,         \* bound: the last slot of the simulated clock
  SlotsPerSecond,  \* base-rate slots in a second
  MaxTicks,        \* bound: notifications of the clock callback
  StepMayFail      \* may a step set the model's error status?

ASSUME MaxSlotAssumption == MaxSlot \in Nat
ASSUME SlotsPerSecondAssumption == SlotsPerSecond \in Nat \ {0}
ASSUME MaxTicksAssumption == MaxTicks \in Nat
ASSUME StepMayFailAssumption == StepMayFail \in BOOLEAN

VARIABLES
  main, scheduler, base,  \* where each thread is
  runModel,     \* mRunModel
  baseSem,      \* mBaseRateSem
  stopSem,      \* mStopSem
  shutdown,     \* was ros::shutdown called, by the node or by SIGINT?
  error,        \* does the model have an error status?
  clockTick,    \* Timing.clockTick0: steps of the model
  modelLive,    \* FALSE once the model is terminated
  termFlag, waitingFlag, nextTimeSlot,  \* the callback's static variables
  now,          \* slot of the last clock message, -1 before the first
  jumped,       \* history: did a clock message not advance the time?
  syncSlot,     \* history: the slot the callback synchronized at
  ticks,        \* history: slots the callback notified the base thread of
  stops         \* history: notifications that ask the base thread to stop

threadVars == <<main, scheduler, base>>
clockVars == <<termFlag, waitingFlag, nextTimeSlot, now, jumped, syncSlot, ticks>>
vars == <<threadVars, runModel, baseSem, stopSem, shutdown, error, clockTick,
          modelLive, clockVars, stops>>

TypeOK ==
  /\ main \in {"waitStop", "clear", "notify", "joinBase", "clearAgain",
               "joinScheduler", "terminateModel", "done"}
  /\ scheduler \in {"subscribe", "spin", "returned", "done"}
  /\ base \in {"start", "test", "wait", "check", "step", "store", "shutdown", "done"}
  /\ runModel \in BOOLEAN /\ shutdown \in BOOLEAN /\ error \in BOOLEAN
  /\ modelLive \in BOOLEAN
  /\ stopSem \in 0 .. 1
  /\ stops \in 0 .. 2
  /\ ticks \in 0 .. MaxTicks
  /\ baseSem \in 0 .. MaxTicks + 2
  /\ clockTick \in 0 .. MaxTicks + 2
  /\ termFlag \in BOOLEAN /\ waitingFlag \in BOOLEAN
  /\ jumped \in BOOLEAN
  /\ now \in -1 .. MaxSlot
  /\ syncSlot \in 0 .. MaxSlot
  /\ nextTimeSlot \in 0 .. MaxSlot + MaxTicks + 1

\* NodeInterface::initialize: the model runs, both threads are created.
Init ==
  /\ main = "waitStop" /\ scheduler = "subscribe" /\ base = "start"
  /\ runModel = TRUE
  /\ baseSem = 0 /\ stopSem = 0
  /\ shutdown = FALSE /\ error = FALSE
  /\ clockTick = 0 /\ modelLive = TRUE
  /\ termFlag = FALSE /\ waitingFlag = FALSE /\ nextTimeSlot = 1
  /\ now = -1 /\ jumped = FALSE
  /\ syncSlot = 0 /\ ticks = 0 /\ stops = 0

-----------------------------------------------------------------------------
\* The scheduler thread.

\* Faulty variant: a notification wakes the thread, but is not counted.
BinaryNotify == baseSem' = 1

NotifyBase == baseSem' = baseSem + 1

\* A subscription fails only when ROS is shutting down; the thread then ends
\* without a word to the main thread.
Subscribe ==
  /\ scheduler = "subscribe"
  /\ scheduler' = IF shutdown THEN "done" ELSE "spin"
  /\ UNCHANGED <<main, base, runModel, baseSem, stopSem, shutdown, error,
                 clockTick, modelLive, clockVars, stops>>

\* The message at or after slot s is later than the one before it.
Advances(s, onSlot) == s > now \/ (s = now /\ ~onSlot)

\* Faulty variant: a clock that is one slot late is let through.
MissedByTwo(s, onSlot) ==
  waitingFlag /\ s > nextTimeSlot

\* The message lies beyond the slot the base thread should be notified of.
Missed(s, onSlot) ==
  waitingFlag /\ (s > nextTimeSlot \/ (s = nextTimeSlot /\ ~onSlot))

\* The clock missed a slot: the model is told to stop.
MissSlot ==
  /\ runModel' = FALSE
  /\ NotifyBase
  /\ stops' = stops + 1
  /\ termFlag' = TRUE
  /\ UNCHANGED <<waitingFlag, nextTimeSlot, syncSlot, ticks>>

\* The first message at a full second starts the model.
Synchronize(s) ==
  /\ ticks < MaxTicks
  /\ waitingFlag' = TRUE
  /\ NotifyBase
  /\ ticks' = ticks + 1
  /\ nextTimeSlot' = s + 1
  /\ syncSlot' = s
  /\ UNCHANGED <<termFlag, runModel, stops>>

\* Before that, a message only checks whether the model has failed.
NotYet ==
  /\ runModel' = ~error
  /\ termFlag' = error
  /\ UNCHANGED <<baseSem, waitingFlag, nextTimeSlot, syncSlot, ticks, stops>>

\* Faulty variant: two slots are taken for one.
TickTwoSlots ==
  /\ ticks < MaxTicks
  /\ NotifyBase
  /\ ticks' = ticks + 1
  /\ nextTimeSlot' = nextTimeSlot + 2
  /\ UNCHANGED <<termFlag, waitingFlag, runModel, syncSlot, stops>>

\* A message at a slot is a tick of the base rate.
Tick ==
  /\ ticks < MaxTicks
  /\ NotifyBase
  /\ ticks' = ticks + 1
  /\ nextTimeSlot' = nextTimeSlot + 1
  /\ UNCHANGED <<termFlag, waitingFlag, runModel, syncSlot, stops>>

\* A message between two slots.
Between ==
  UNCHANGED <<termFlag, waitingFlag, nextTimeSlot, runModel, baseSem, syncSlot, ticks, stops>>

\* rosClockSubscriberCallback for a message at slot s, exactly or after it.
Clock(s, onSlot) ==
  /\ scheduler = "spin"
  /\ now' = s
  /\ jumped' = (jumped \/ ~Advances(s, onSlot))
  /\ \/ termFlag /\ Between
     \/ ~termFlag /\ Missed(s, onSlot) /\ MissSlot
     \/ /\ ~termFlag /\ ~Missed(s, onSlot) /\ ~waitingFlag
        /\ IF onSlot /\ s % SlotsPerSecond = 0 THEN Synchronize(s) ELSE NotYet
     \/ /\ ~termFlag /\ ~Missed(s, onSlot) /\ waitingFlag
        /\ IF onSlot THEN Tick ELSE Between
  /\ UNCHANGED <<threadVars, stopSem, shutdown, error, clockTick, modelLive>>

\* ros::spin returns after a shutdown, and only then.
SpinReturns ==
  /\ scheduler = "spin" /\ shutdown
  /\ scheduler' = "returned"
  /\ UNCHANGED <<main, base, runModel, baseSem, stopSem, shutdown, error,
                 clockTick, modelLive, clockVars, stops>>

NotifyStop ==
  /\ scheduler = "returned"
  /\ stopSem' = stopSem + 1
  /\ scheduler' = "done"
  /\ UNCHANGED <<main, base, runModel, baseSem, shutdown, error, clockTick,
                 modelLive, clockVars, stops>>

-----------------------------------------------------------------------------
\* The base-rate thread.
GoBase(from, to) ==
  /\ base = from
  /\ base' = to
  /\ UNCHANGED <<main, scheduler, stopSem, modelLive, clockVars, stops>>

\* The thread starts with the model's error status in mRunModel.
BaseStart ==
  /\ GoBase("start", "test")
  /\ runModel' = ~error
  /\ UNCHANGED <<baseSem, shutdown, error, clockTick>>

BaseTest ==
  /\ GoBase("test", IF runModel THEN "wait" ELSE "shutdown")
  /\ UNCHANGED <<runModel, baseSem, shutdown, error, clockTick>>

BaseWait ==
  /\ baseSem > 0
  /\ GoBase("wait", "check")
  /\ baseSem' = baseSem - 1
  /\ UNCHANGED <<runModel, shutdown, error, clockTick>>

BaseCheck ==
  /\ GoBase("check", IF runModel THEN "step" ELSE "shutdown")
  /\ UNCHANGED <<runModel, baseSem, shutdown, error, clockTick>>

\* A step publishes the location and advances the model's time.
ModelStep ==
  /\ GoBase("step", "store")
  /\ clockTick' = clockTick + 1
  /\ \/ UNCHANGED error
     \/ StepMayFail /\ error' = TRUE
  /\ UNCHANGED <<runModel, baseSem, shutdown>>

\* Faulty variant: the model goes on whatever its error status is.
BaseStoreGoesOn ==
  /\ GoBase("store", "test")
  /\ runModel' = TRUE
  /\ UNCHANGED <<baseSem, shutdown, error, clockTick>>

\* The thread stores whether the model may go on, over whatever is there.
BaseStore ==
  /\ GoBase("store", "test")
  /\ runModel' = ~error
  /\ UNCHANGED <<baseSem, shutdown, error, clockTick>>

BaseShutdown ==
  /\ GoBase("shutdown", "done")
  /\ shutdown' = TRUE
  /\ UNCHANGED <<runModel, baseSem, error, clockTick>>

-----------------------------------------------------------------------------
\* The main thread: run, then terminate.
GoMain(from, to) ==
  /\ main = from
  /\ main' = to
  /\ UNCHANGED <<scheduler, base, shutdown, error, clockTick, clockVars>>

WaitStop ==
  /\ stopSem > 0
  /\ GoMain("waitStop", "clear")
  /\ stopSem' = stopSem - 1
  /\ UNCHANGED <<runModel, baseSem, modelLive, stops>>

Clear ==
  /\ GoMain("clear", "notify")
  /\ runModel' = FALSE
  /\ UNCHANGED <<baseSem, stopSem, modelLive, stops>>

\* Faulty variant: the base thread is joined without being woken.
NotifyNobody ==
  /\ GoMain("notify", "joinBase")
  /\ UNCHANGED <<runModel, baseSem, stopSem, modelLive, stops>>

NotifyTerminate ==
  /\ GoMain("notify", "joinBase")
  /\ NotifyBase
  /\ stops' = stops + 1
  /\ UNCHANGED <<runModel, stopSem, modelLive>>

\* Faulty variant: the base thread is detached instead of joined.
DetachBase ==
  /\ GoMain("joinBase", "clearAgain")
  /\ UNCHANGED <<runModel, baseSem, stopSem, modelLive, stops>>

JoinBase ==
  /\ base = "done"
  /\ GoMain("joinBase", "clearAgain")
  /\ UNCHANGED <<runModel, baseSem, stopSem, modelLive, stops>>

ClearAgain ==
  /\ GoMain("clearAgain", "joinScheduler")
  /\ runModel' = FALSE
  /\ UNCHANGED <<baseSem, stopSem, modelLive, stops>>

JoinScheduler ==
  /\ scheduler = "done"
  /\ GoMain("joinScheduler", "terminateModel")
  /\ UNCHANGED <<runModel, baseSem, stopSem, modelLive, stops>>

TerminateModel ==
  /\ GoMain("terminateModel", "done")
  /\ modelLive' = FALSE
  /\ UNCHANGED <<runModel, baseSem, stopSem, stops>>

-----------------------------------------------------------------------------
\* ROS' handler of SIGINT.
Interrupt ==
  /\ ~shutdown
  /\ shutdown' = TRUE
  /\ UNCHANGED <<threadVars, runModel, baseSem, stopSem, error, clockTick,
                 modelLive, clockVars, stops>>

Scheduler == Subscribe \/ SpinReturns \/ NotifyStop

Base == BaseStart \/ BaseTest \/ BaseWait \/ BaseCheck \/ ModelStep \/ BaseStore \/ BaseShutdown

Main == WaitStop \/ Clear \/ NotifyTerminate \/ JoinBase \/ ClearAgain \/ JoinScheduler \/ TerminateModel

Next ==
  \/ Scheduler
  \/ \E s \in 0 .. MaxSlot, onSlot \in BOOLEAN : Clock(s, onSlot)
  \/ Base
  \/ Main
  \/ Interrupt

Spec == Init /\ [][Next]_vars

\* The operating system schedules the threads, spin looks at the shutdown flag
\* between callbacks.  Nobody has to publish the clock or interrupt the node.
FairSpec ==
  Spec /\ WF_vars(Scheduler) /\ WF_vars(Base) /\ WF_vars(Main)

-----------------------------------------------------------------------------
\* A semaphore that counts loses no tick: while the base thread runs, the
\* notifications are the steps it made, the one it is about to make, and those
\* that wait, however late it is (rosnodeinterface.h:61-73, rosnodeinterface.cpp:241-253).
NoTickLost ==
  base \notin {"shutdown", "done"} =>
    ticks + stops =
      clockTick + baseSem + (IF base \in {"check", "step"} THEN 1 ELSE 0)

\* The model never runs ahead of the ROS clock, except by the steps that the
\* notifications meant to stop it may set off.
ModelNotAheadOfClock == clockTick <= ticks + stops

\* As long as the clock only advances and the node has not given up, every
\* slot since the synchronization was notified exactly once, lost messages or
\* not (rosnodeinterface.cpp:151-165, 181, 199).
EverySlotNotified ==
  waitingFlag /\ ~termFlag /\ ~jumped =>
    /\ nextTimeSlot = now + 1
    /\ ticks = now - syncSlot + 1

\* The model is terminated once nobody can step it any more, and no callback
\* runs after (rosnodeinterface.cpp:112-126).
NoStepAfterTerminate ==
  [][~modelLive => UNCHANGED <<clockTick, ticks, runModel, baseSem>>]_vars

\* A model that has failed is not stepped again: the flag that the base thread
\* clears for it is not set by the callback or by main
\* (rosnodeinterface.cpp:247-253).
FailedModelRests ==
  error =>
    /\ base \in {"store", "test", "shutdown", "done"}
    /\ base # "store" => ~runModel

\* No wake-up is lost: a base thread that waits on the semaphore while the flag
\* tells it to stop has a notification there, or main is about to make it
\* (rosnodeinterface.cpp:91, 115, 151-155, 243-249).
StopWakesBase ==
  base = "wait" /\ ~runModel => baseSem > 0 \/ main = "notify"

\* A model that fails takes the whole node down, whatever the threads are at
\* (rosnodeinterface.cpp:241-257, 229-232, 90-91, 112-129).
ErrorEndsNode == error ~> main = "done"

\* A base thread that has not overwritten the request to stop is not waited for
\* in vain: wherever it stands, the notification of terminate gets it to exit
\* (rosnodeinterface.cpp:91, 115, 243-249).
StopIsObeyed ==
  (main \in {"notify", "joinBase"} /\ ~runModel /\ base \in {"test", "wait", "check"})
    ~> main = "done"

\* "Unblock main thread and terminate" (rosnodeinterface.cpp:231): once spin has
\* returned, the node ends.
SpinReturnEndsNode == scheduler = "returned" ~> main = "done"

=============================================================================
