--------------------------- MODULE RosNodeProofs ---------------------------
(***************************************************************************)
(* Proofs about RosNode, for every clock, every base rate and every number *)
(* of ticks, whether or not a step may fail.                               *)
(***************************************************************************)
EXTENDS RosNode, TLAPS

\* The actions, each with the variables it may change.
USE DEF threadVars, clockVars

-----------------------------------------------------------------------------
\* The types without the bounds that follow from the counting below.
FlagTypes ==
  /\ main \in {"waitStop", "clear", "notify", "joinBase", "clearAgain",
               "joinScheduler", "terminateModel", "done"}
  /\ scheduler \in {"subscribe", "spin", "returned", "done"}
  /\ base \in {"start", "test", "wait", "check", "step", "store", "shutdown", "done"}
  /\ runModel \in BOOLEAN /\ shutdown \in BOOLEAN /\ error \in BOOLEAN
  /\ modelLive \in BOOLEAN
  /\ termFlag \in BOOLEAN /\ waitingFlag \in BOOLEAN
  /\ jumped \in BOOLEAN

CountTypes ==
  /\ stopSem \in Nat /\ stops \in Nat /\ ticks \in Nat
  /\ baseSem \in Nat /\ clockTick \in Nat /\ nextTimeSlot \in Nat
  /\ now \in -1 .. MaxSlot
  /\ syncSlot \in 0 .. MaxSlot

PlainTypes == FlagTypes /\ CountTypes

\* Where the clock callback is: it tells its branches apart.
Branches(s, onSlot) ==
  \/ termFlag /\ Between
  \/ ~termFlag /\ MissSlot
  \/ ~termFlag /\ ~waitingFlag /\ onSlot /\ Synchronize(s)
  \/ ~termFlag /\ ~waitingFlag /\ NotYet
  \/ ~termFlag /\ waitingFlag /\ ~Missed(s, onSlot) /\ onSlot /\ Tick
  \/ ~termFlag /\ waitingFlag /\ ~Missed(s, onSlot) /\ ~onSlot /\ Between

LEMMA ClockBranches ==
  ASSUME NEW s, NEW onSlot \in BOOLEAN, Clock(s, onSlot)
  PROVE  Branches(s, onSlot)
BY Zenon DEF Clock, Branches, Missed

LEMMA FlagTypesStep ==
  ASSUME PlainTypes, [Next]_vars
  PROVE  FlagTypes'
<1> USE MaxSlotAssumption DEF PlainTypes, FlagTypes
<1>1. CASE Scheduler
  BY <1>1 DEF Scheduler, Subscribe, SpinReturns, NotifyStop
<1>2. ASSUME NEW s \in 0 .. MaxSlot, NEW onSlot \in BOOLEAN, Clock(s, onSlot)
      PROVE  FlagTypes'
  <2>1. /\ UNCHANGED <<main, scheduler, base, stopSem, shutdown, error, clockTick, modelLive>>
        /\ now' = s
        /\ jumped' \in BOOLEAN
    BY <1>2 DEF Clock, Advances
  <2>2. Branches(s, onSlot)
    BY <1>2, ClockBranches
  <2>3. CASE Between
    BY <2>1, <2>3 DEF Between
  <2>4. CASE MissSlot
    BY <2>1, <2>4 DEF MissSlot, NotifyBase
  <2>5. CASE Synchronize(s)
    BY <2>1, <2>5 DEF Synchronize, NotifyBase
  <2>6. CASE NotYet
    BY <2>1, <2>6 DEF NotYet
  <2>7. CASE Tick
    BY <2>1, <2>7 DEF Tick, NotifyBase
  <2>8. QED
    BY <2>2, <2>3, <2>4, <2>5, <2>6, <2>7 DEF Branches
<1>3. CASE Base
  <2> USE DEF GoBase
  <2>1. CASE BaseStart
    BY <2>1 DEF BaseStart
  <2>2. CASE BaseTest
    BY <2>2 DEF BaseTest
  <2>3. CASE BaseWait
    BY <2>3 DEF BaseWait
  <2>4. CASE BaseCheck
    BY <2>4 DEF BaseCheck
  <2>5. CASE ModelStep
    <3>1. base' = "store" /\ error' \in BOOLEAN
      BY <2>5 DEF ModelStep
    <3>2. UNCHANGED <<main, scheduler, runModel, shutdown, modelLive, termFlag,
                      waitingFlag, jumped>>
      BY <2>5, Zenon DEF ModelStep
    <3>3. QED
      BY <3>1, <3>2
  <2>6. CASE BaseStore
    BY <2>6 DEF BaseStore
  <2>7. CASE BaseShutdown
    BY <2>7 DEF BaseShutdown
  <2>8. QED
    BY <1>3, <2>1, <2>2, <2>3, <2>4, <2>5, <2>6, <2>7 DEF Base
<1>4. CASE Main
  <2> USE DEF GoMain
  <2>1. CASE WaitStop
    BY <2>1 DEF WaitStop
  <2>2. CASE Clear
    BY <2>2 DEF Clear
  <2>3. CASE NotifyTerminate
    BY <2>3 DEF NotifyTerminate
  <2>4. CASE JoinBase
    BY <2>4 DEF JoinBase
  <2>5. CASE ClearAgain
    BY <2>5 DEF ClearAgain
  <2>6. CASE JoinScheduler
    BY <2>6 DEF JoinScheduler
  <2>7. CASE TerminateModel
    BY <2>7 DEF TerminateModel
  <2>8. QED
    BY <1>4, <2>1, <2>2, <2>3, <2>4, <2>5, <2>6, <2>7 DEF Main
<1>5. CASE Interrupt
  BY <1>5 DEF Interrupt
<1>6. CASE UNCHANGED vars
  BY <1>6 DEF vars
<1>7. QED
  BY <1>1, <1>2, <1>3, <1>4, <1>5, <1>6 DEF Next

LEMMA CountTypesStep ==
  ASSUME PlainTypes, [Next]_vars
  PROVE  CountTypes'
<1> USE MaxSlotAssumption DEF PlainTypes, CountTypes
<1>1. CASE Scheduler
  BY <1>1 DEF Scheduler, Subscribe, SpinReturns, NotifyStop
<1>2. ASSUME NEW s \in 0 .. MaxSlot, NEW onSlot \in BOOLEAN, Clock(s, onSlot)
      PROVE  CountTypes'
  <2>1. /\ UNCHANGED <<main, scheduler, base, stopSem, shutdown, error, clockTick, modelLive>>
        /\ now' = s
        /\ jumped' \in BOOLEAN
    BY <1>2 DEF Clock, Advances
  <2>2. Branches(s, onSlot)
    BY <1>2, ClockBranches
  <2>3. CASE Between
    BY <2>1, <2>3 DEF Between
  <2>4. CASE MissSlot
    BY <2>1, <2>4 DEF MissSlot, NotifyBase
  <2>5. CASE Synchronize(s)
    BY <2>1, <2>5 DEF Synchronize, NotifyBase
  <2>6. CASE NotYet
    BY <2>1, <2>6 DEF NotYet
  <2>7. CASE Tick
    BY <2>1, <2>7 DEF Tick, NotifyBase
  <2>8. QED
    BY <2>2, <2>3, <2>4, <2>5, <2>6, <2>7 DEF Branches
<1>3. CASE Base
  BY <1>3 DEF Base, GoBase, BaseStart, BaseTest, BaseWait, BaseCheck, ModelStep,
              BaseStore, BaseShutdown
<1>4. CASE Main
  BY <1>4 DEF Main, GoMain, WaitStop, Clear, NotifyTerminate, NotifyBase, JoinBase,
              ClearAgain, JoinScheduler, TerminateModel
<1>5. CASE Interrupt
  BY <1>5 DEF Interrupt
<1>6. CASE UNCHANGED vars
  BY <1>6 DEF vars
<1>7. QED
  BY <1>1, <1>2, <1>3, <1>4, <1>5, <1>6 DEF Next

LEMMA PlainTypesInvariant == Spec => []PlainTypes
<1>1. Init => PlainTypes
  <2>1. Init => FlagTypes
    BY DEF Init, FlagTypes
  <2>2. Init => CountTypes
    BY MaxSlotAssumption DEF Init, CountTypes
  <2>3. QED
    BY <2>1, <2>2 DEF PlainTypes
<1>2. PlainTypes /\ [Next]_vars => PlainTypes'
  BY FlagTypesStep, CountTypesStep DEF PlainTypes
<1>3. QED
  BY <1>1, <1>2, PTL DEF Spec

-----------------------------------------------------------------------------
\* The step the base thread has been notified of and not made yet.
Taken == IF base \in {"check", "step"} THEN 1 ELSE 0

\* Who has asked the base thread to stop.
Asked == (IF termFlag THEN 1 ELSE 0)
         + (IF main \in {"waitStop", "clear", "notify"} THEN 0 ELSE 1)

\* Every notification is accounted for, and the counters stay within bounds.
Accounts ==
  /\ clockTick + baseSem + Taken <= ticks + stops
  /\ base \notin {"shutdown", "done"} => ticks + stops = clockTick + baseSem + Taken
  /\ stops <= Asked
  /\ ticks <= MaxTicks
  /\ nextTimeSlot <= MaxSlot + 1 + ticks
  /\ stopSem <= 1
  /\ scheduler # "done" => stopSem = 0

LEMMA AccountsStep ==
  ASSUME PlainTypes, Accounts, [Next]_vars
  PROVE  Accounts'
<1> USE MaxSlotAssumption, MaxTicksAssumption DEF CountTypes, PlainTypes, Accounts, Taken, Asked
<1>1. CASE Scheduler
  BY <1>1 DEF Scheduler, Subscribe, SpinReturns, NotifyStop
<1>2. ASSUME NEW s \in 0 .. MaxSlot, NEW onSlot \in BOOLEAN, Clock(s, onSlot)
      PROVE  Accounts'
  <2>1. UNCHANGED <<main, scheduler, base, stopSem, shutdown, error, clockTick, modelLive>>
    BY <1>2 DEF Clock
  <2>2. Branches(s, onSlot)
    BY <1>2, ClockBranches
  <2>3. CASE Between
    BY <2>1, <2>3 DEF Between
  <2>4. CASE ~termFlag /\ MissSlot
    BY <2>1, <2>4 DEF MissSlot, NotifyBase
  <2>5. CASE Synchronize(s)
    BY <2>1, <2>5 DEF Synchronize, NotifyBase
  <2>6. CASE ~termFlag /\ NotYet
    BY <2>1, <2>6 DEF NotYet
  <2>7. CASE Tick
    BY <2>1, <2>7 DEF Tick, NotifyBase
  <2>8. QED
    BY <2>2, <2>3, <2>4, <2>5, <2>6, <2>7 DEF Branches
<1>3. CASE Base
  <2> USE DEF GoBase
  <2>1. CASE BaseStart
    BY <2>1 DEF BaseStart
  <2>2. CASE BaseTest
    BY <2>2 DEF BaseTest
  <2>3. CASE BaseWait
    BY <2>3 DEF BaseWait
  <2>4. CASE BaseCheck
    BY <2>4 DEF BaseCheck
  <2>5. CASE ModelStep
    BY <2>5 DEF ModelStep
  <2>6. CASE BaseStore
    BY <2>6 DEF BaseStore
  <2>7. CASE BaseShutdown
    BY <2>7 DEF BaseShutdown
  <2>8. QED
    BY <1>3, <2>1, <2>2, <2>3, <2>4, <2>5, <2>6, <2>7 DEF Base
<1>4. CASE Main
  <2> USE DEF GoMain
  <2>1. CASE WaitStop \/ Clear
    BY <2>1 DEF WaitStop, Clear
  <2>2. CASE NotifyTerminate
    BY <2>2 DEF NotifyTerminate, NotifyBase
  <2>3. CASE JoinBase \/ ClearAgain \/ JoinScheduler \/ TerminateModel
    BY <2>3 DEF JoinBase, ClearAgain, JoinScheduler, TerminateModel
  <2>4. QED
    BY <1>4, <2>1, <2>2, <2>3 DEF Main
<1>5. CASE Interrupt
  BY <1>5 DEF Interrupt
<1>6. CASE UNCHANGED vars
  BY <1>6 DEF vars
<1>7. QED
  BY <1>1, <1>2, <1>3, <1>4, <1>5, <1>6 DEF Next

LEMMA AccountsInvariant == Spec => []Accounts
<1>1. Init => Accounts
  BY MaxSlotAssumption, MaxTicksAssumption DEF Init, Accounts, Taken, Asked
<1>2. QED
  BY <1>1, AccountsStep, PlainTypesInvariant, PTL DEF Spec

-----------------------------------------------------------------------------
\* The threads, flags, semaphores and counters keep their types and bounds.
THEOREM TypeCorrect == Spec => []TypeOK
<1>1. PlainTypes /\ Accounts => TypeOK
  <2> SUFFICES ASSUME PlainTypes, Accounts PROVE TypeOK
    OBVIOUS
  <2>1. /\ stopSem \in 0 .. 1 /\ ticks \in 0 .. MaxTicks
        /\ nextTimeSlot \in 0 .. MaxSlot + MaxTicks + 1
    BY MaxSlotAssumption, MaxTicksAssumption DEF PlainTypes, CountTypes, Accounts
  <2>2. stops \in 0 .. 2
    BY DEF PlainTypes, CountTypes, Accounts, Asked
  <2>3. baseSem \in 0 .. MaxTicks + 2 /\ clockTick \in 0 .. MaxTicks + 2
    BY <2>1, <2>2, MaxTicksAssumption DEF PlainTypes, CountTypes, Accounts, Taken
  <2>4. QED
    BY <2>1, <2>2, <2>3 DEF PlainTypes, FlagTypes, CountTypes, TypeOK
<1>2. QED
  BY <1>1, PlainTypesInvariant, AccountsInvariant, PTL

\* No notification of the clock callback is lost by the semaphore, and none is
\* served twice, in any interleaving of the three threads.
THEOREM TicksAreNotLost == Spec => []NoTickLost
<1>1. Accounts => NoTickLost
  BY DEF Accounts, NoTickLost, Taken
<1>2. QED
  BY <1>1, AccountsInvariant, PTL

\* The model never runs ahead of the ROS clock, except by the steps that the
\* notifications meant to stop it may set off.
THEOREM ModelFollowsClock == Spec => []ModelNotAheadOfClock
<1>1. PlainTypes /\ Accounts => ModelNotAheadOfClock
  BY DEF PlainTypes, CountTypes, Accounts, ModelNotAheadOfClock, Taken
<1>2. QED
  BY <1>1, PlainTypesInvariant, AccountsInvariant, PTL

-----------------------------------------------------------------------------
\* Before the synchronization no slot is notified.
SlotsFromSync == (~waitingFlag => ticks = 0) /\ EverySlotNotified

LEMMA SlotsFromSyncStep ==
  ASSUME PlainTypes, SlotsFromSync, [Next]_vars
  PROVE  SlotsFromSync'
<1> USE MaxSlotAssumption DEF PlainTypes, CountTypes, SlotsFromSync, EverySlotNotified
<1>1. ASSUME NEW s \in 0 .. MaxSlot, NEW onSlot \in BOOLEAN, Clock(s, onSlot)
      PROVE  SlotsFromSync'
  <2>1. now' = s /\ (~jumped' => ~jumped /\ Advances(s, onSlot))
    BY <1>1 DEF Clock
  <2>2. Branches(s, onSlot)
    BY <1>1, ClockBranches
  <2>3. CASE termFlag /\ Between
    BY <2>1, <2>3 DEF Between
  <2>4. CASE ~termFlag /\ MissSlot
    BY <2>1, <2>4 DEF MissSlot
  <2>5. CASE ~waitingFlag /\ Synchronize(s)
    BY <2>1, <2>5 DEF Synchronize
  <2>6. CASE ~waitingFlag /\ NotYet
    BY <2>1, <2>6 DEF NotYet
  <2>7. CASE ~termFlag /\ waitingFlag /\ ~Missed(s, onSlot) /\ onSlot /\ Tick
    BY <2>1, <2>7 DEF Tick, Missed, Advances
  <2>8. CASE ~termFlag /\ waitingFlag /\ ~Missed(s, onSlot) /\ ~onSlot /\ Between
    BY <2>1, <2>8 DEF Between, Missed, Advances
  <2>9. QED
    BY <2>2, <2>3, <2>4, <2>5, <2>6, <2>7, <2>8 DEF Branches
<1>2. CASE Scheduler
  BY <1>2 DEF Scheduler, Subscribe, SpinReturns, NotifyStop
<1>3. CASE Base
  BY <1>3 DEF Base, GoBase, BaseStart, BaseTest, BaseWait, BaseCheck, ModelStep,
              BaseStore, BaseShutdown
<1>4. CASE Main
  BY <1>4 DEF Main, GoMain, WaitStop, Clear, NotifyTerminate, JoinBase, ClearAgain,
              JoinScheduler, TerminateModel
<1>5. CASE Interrupt
  BY <1>5 DEF Interrupt
<1>6. CASE UNCHANGED vars
  BY <1>6 DEF vars
<1>7. QED
  BY <1>1, <1>2, <1>3, <1>4, <1>5, <1>6 DEF Next

\* While the clock only advances and no slot was missed, every slot from the
\* synchronization on was notified exactly once, whatever messages were lost.
THEOREM SlotsAreNotified == Spec => []EverySlotNotified
<1>1. Init => SlotsFromSync
  BY DEF Init, SlotsFromSync, EverySlotNotified
<1>2. SlotsFromSync => EverySlotNotified
  BY DEF SlotsFromSync
<1>3. QED
  BY <1>1, <1>2, SlotsFromSyncStep, PlainTypesInvariant, PTL DEF Spec

-----------------------------------------------------------------------------
\* Whom the main thread has joined.
Joined ==
  /\ main \in {"clearAgain", "joinScheduler", "terminateModel", "done"} => base = "done"
  /\ main \in {"terminateModel", "done"} => scheduler = "done"
  /\ ~modelLive => main = "done"

LEMMA JoinedStep ==
  ASSUME PlainTypes, Joined, [Next]_vars
  PROVE  Joined'
<1> USE DEF PlainTypes, FlagTypes, Joined
<1>1. CASE Scheduler
  BY <1>1 DEF Scheduler, Subscribe, SpinReturns, NotifyStop
<1>2. ASSUME NEW s \in 0 .. MaxSlot, NEW onSlot \in BOOLEAN, Clock(s, onSlot)
      PROVE  Joined'
  BY <1>2, Zenon DEF Clock
<1>3. CASE Base
  BY <1>3 DEF Base, GoBase, BaseStart, BaseTest, BaseWait, BaseCheck, ModelStep,
              BaseStore, BaseShutdown
<1>4. CASE Main
  BY <1>4 DEF Main, GoMain, WaitStop, Clear, NotifyTerminate, JoinBase, ClearAgain,
              JoinScheduler, TerminateModel
<1>5. CASE Interrupt
  BY <1>5 DEF Interrupt
<1>6. CASE UNCHANGED vars
  BY <1>6 DEF vars
<1>7. QED
  BY <1>1, <1>2, <1>3, <1>4, <1>5, <1>6 DEF Next

LEMMA JoinedInvariant == Spec => []Joined
<1>1. Init => Joined
  BY DEF Init, Joined
<1>2. QED
  BY <1>1, JoinedStep, PlainTypesInvariant, PTL DEF Spec

\* The model is terminated once nobody can step it any more.
THEOREM TerminatedModelRests == Spec => NoStepAfterTerminate
<1>1. Joined /\ [Next]_vars => [~modelLive => UNCHANGED <<clockTick, ticks, runModel, baseSem>>]_vars
  <2> SUFFICES ASSUME Joined, [Next]_vars, ~modelLive
               PROVE  UNCHANGED <<clockTick, ticks, runModel, baseSem>>
    OBVIOUS
  <2>1. main = "done" /\ base = "done" /\ scheduler = "done"
    BY DEF Joined
  <2>2. ASSUME NEW s \in 0 .. MaxSlot, NEW onSlot \in BOOLEAN, Clock(s, onSlot)
        PROVE  FALSE
    BY <2>1, <2>2 DEF Clock
  <2>3. ~Scheduler /\ ~Base /\ ~Main
    BY <2>1 DEF Scheduler, Subscribe, SpinReturns, NotifyStop, Base, GoBase, BaseStart,
                BaseTest, BaseWait, BaseCheck, ModelStep, BaseStore, BaseShutdown, Main,
                GoMain, WaitStop, Clear, NotifyTerminate, JoinBase, ClearAgain,
                JoinScheduler, TerminateModel
  <2>4. QED
    BY <2>2, <2>3 DEF Next, Interrupt, vars
<1>2. QED
  BY <1>1, JoinedInvariant, PTL DEF Spec, NoStepAfterTerminate

-----------------------------------------------------------------------------
\* Who writes what: each thread moves itself only, and neither an error nor a
\* shutdown is taken back.
LEMMA ThreadsMoveAlone ==
  ASSUME [Next]_vars
  PROVE  /\ base' = base \/ Base
         /\ scheduler' = scheduler \/ Scheduler
         /\ main' = main \/ Main
         /\ error => error'
         /\ shutdown => shutdown'
<1>1. CASE Scheduler
  BY <1>1 DEF Scheduler, Subscribe, SpinReturns, NotifyStop
<1>2. ASSUME NEW s \in 0 .. MaxSlot, NEW onSlot \in BOOLEAN, Clock(s, onSlot)
      PROVE  UNCHANGED <<main, scheduler, base, shutdown, error>>
  BY <1>2, Zenon DEF Clock
<1>3. CASE Base
  BY <1>3 DEF Base, GoBase, BaseStart, BaseTest, BaseWait, BaseCheck, ModelStep,
              BaseStore, BaseShutdown
<1>4. CASE Main
  BY <1>4 DEF Main, GoMain, WaitStop, Clear, NotifyTerminate, JoinBase, ClearAgain,
              JoinScheduler, TerminateModel
<1>5. CASE Interrupt
  BY <1>5 DEF Interrupt
<1>6. CASE UNCHANGED vars
  BY <1>6 DEF vars
<1>7. QED
  BY <1>1, <1>2, <1>3, <1>4, <1>5, <1>6, Zenon DEF Next

\* A model that has failed is not stepped again: before the base thread has
\* stored the error it is about to, and then the flag stays cleared.
LEMMA FailureStep ==
  ASSUME PlainTypes, FailedModelRests, [Next]_vars
  PROVE  FailedModelRests'
<1> USE DEF PlainTypes, FlagTypes, FailedModelRests
<1>1. CASE Scheduler
  BY <1>1 DEF Scheduler, Subscribe, SpinReturns, NotifyStop
<1>2. ASSUME NEW s \in 0 .. MaxSlot, NEW onSlot \in BOOLEAN, Clock(s, onSlot)
      PROVE  FailedModelRests'
  <2>1. UNCHANGED <<base, error>>
    BY <1>2, Zenon DEF Clock
  <2>2. runModel' = runModel \/ runModel' = FALSE \/ runModel' = ~error
    BY <1>2, ClockBranches, Zenon
       DEF Branches, Between, MissSlot, Synchronize, NotYet, Tick
  <2>3. QED
    BY <2>1, <2>2
<1>3. CASE Base
  <2>1. CASE ModelStep
    BY <2>1 DEF ModelStep, GoBase
  <2>2. CASE BaseStart \/ BaseTest \/ BaseWait \/ BaseCheck \/ BaseStore \/ BaseShutdown
    BY <2>2 DEF GoBase, BaseStart, BaseTest, BaseWait, BaseCheck, BaseStore, BaseShutdown
  <2>3. QED
    BY <1>3, <2>1, <2>2 DEF Base
<1>4. CASE Main
  BY <1>4 DEF Main, GoMain, WaitStop, Clear, NotifyTerminate, JoinBase, ClearAgain,
              JoinScheduler, TerminateModel
<1>5. CASE Interrupt
  BY <1>5 DEF Interrupt
<1>6. CASE UNCHANGED vars
  BY <1>6 DEF vars
<1>7. QED
  BY <1>1, <1>2, <1>3, <1>4, <1>5, <1>6 DEF Next

\* A model that has failed is not stepped again, whoever writes mRunModel when
\* (rosnodeinterface.cpp:247-253).
THEOREM FailureIsFinal == Spec => []FailedModelRests
<1>1. Init => FailedModelRests
  BY DEF Init, FailedModelRests
<1>2. QED
  BY <1>1, FailureStep, PlainTypesInvariant, PTL DEF Spec

\* What the stop of the base thread rests on: main gets to clear the flag only
\* after the scheduler, whose callback could set it again, has ended.
SchedulerEndsFirst ==
  /\ main # "waitStop" => scheduler = "done"
  /\ stopSem > 0 => scheduler = "done"
  /\ base = "done" => shutdown

LEMMA SchedulerEndsFirstStep ==
  ASSUME PlainTypes, SchedulerEndsFirst, [Next]_vars
  PROVE  SchedulerEndsFirst'
<1> USE DEF PlainTypes, FlagTypes, CountTypes, SchedulerEndsFirst
<1>1. CASE Scheduler
  BY <1>1 DEF Scheduler, Subscribe, SpinReturns, NotifyStop
<1>2. ASSUME NEW s \in 0 .. MaxSlot, NEW onSlot \in BOOLEAN, Clock(s, onSlot)
      PROVE  SchedulerEndsFirst'
  BY <1>2, Zenon DEF Clock
<1>3. CASE Base
  BY <1>3 DEF Base, GoBase, BaseStart, BaseTest, BaseWait, BaseCheck, ModelStep,
              BaseStore, BaseShutdown
<1>4. CASE Main
  BY <1>4 DEF Main, GoMain, WaitStop, Clear, NotifyTerminate, JoinBase, ClearAgain,
              JoinScheduler, TerminateModel
<1>5. CASE Interrupt
  BY <1>5 DEF Interrupt
<1>6. CASE UNCHANGED vars
  BY <1>6 DEF vars
<1>7. QED
  BY <1>1, <1>2, <1>3, <1>4, <1>5, <1>6 DEF Next

LEMMA SchedulerEndsFirstInvariant == Spec => []SchedulerEndsFirst
<1>1. Init => SchedulerEndsFirst
  BY DEF Init, SchedulerEndsFirst
<1>2. QED
  BY <1>1, SchedulerEndsFirstStep, PlainTypesInvariant, PTL DEF Spec

\* Whoever clears the flag of a base thread that may wait also wakes it: the
\* callback in the same callback, main in its next step, and the callback that
\* sees an error need not, as the base thread does not wait then.
LEMMA StopWakesBaseStep ==
  ASSUME PlainTypes, Joined, FailedModelRests, StopWakesBase, [Next]_vars
  PROVE  StopWakesBase'
<1> USE DEF PlainTypes, FlagTypes, CountTypes, StopWakesBase
<1>1. CASE Scheduler
  BY <1>1 DEF Scheduler, Subscribe, SpinReturns, NotifyStop
<1>2. ASSUME NEW s \in 0 .. MaxSlot, NEW onSlot \in BOOLEAN, Clock(s, onSlot)
      PROVE  StopWakesBase'
  <2>1. UNCHANGED <<main, base, error>>
    BY <1>2, Zenon DEF Clock
  <2>2. \/ baseSem' = baseSem + 1
        \/ baseSem' = baseSem /\ runModel' = runModel
        \/ baseSem' = baseSem /\ runModel' = ~error
    BY <1>2, ClockBranches, Zenon
       DEF Branches, Between, MissSlot, Synchronize, NotYet, Tick, NotifyBase
  <2>3. error => base # "wait"
    BY DEF FailedModelRests
  <2>4. QED
    BY <2>1, <2>2, <2>3
<1>3. CASE Base
  BY <1>3 DEF Base, GoBase, BaseStart, BaseTest, BaseWait, BaseCheck, ModelStep,
              BaseStore, BaseShutdown
<1>4. CASE Main
  <2>1. CASE WaitStop \/ Clear \/ JoinBase \/ JoinScheduler \/ TerminateModel
    BY <2>1 DEF GoMain, WaitStop, Clear, JoinBase, JoinScheduler, TerminateModel
  <2>2. CASE NotifyTerminate
    BY <2>2 DEF GoMain, NotifyTerminate, NotifyBase
  <2>3. CASE ClearAgain
    BY <2>3 DEF GoMain, ClearAgain, Joined
  <2>4. QED
    BY <1>4, <2>1, <2>2, <2>3 DEF Main
<1>5. CASE Interrupt
  BY <1>5 DEF Interrupt
<1>6. CASE UNCHANGED vars
  BY <1>6 DEF vars
<1>7. QED
  BY <1>1, <1>2, <1>3, <1>4, <1>5, <1>6 DEF Next

\* No wake-up of the base thread is lost (rosnodeinterface.cpp:91, 115, 151-155,
\* 243-249): it never waits for ever with the flag cleared.  What
\* SpinReturnEndsNode runs into is a flag that was set again.
THEOREM NoWakeUpIsLost == Spec => []StopWakesBase
<1>1. Init => StopWakesBase
  BY DEF Init, StopWakesBase
<1>2. QED
  BY <1>1, StopWakesBaseStep, FailureIsFinal, JoinedInvariant, PlainTypesInvariant, PTL
     DEF Spec

\* The node before the clock has said a word: the base thread runs its model and
\* waits for the first notification, main for the scheduler.
Silent ==
  /\ base \in {"start", "test", "wait"} /\ runModel /\ ~error
  /\ baseSem = 0 /\ stopSem = 0 /\ main = "waitStop"

\* So it is until the scheduler has subscribed, and for good if the scheduler ends
\* without having done so.  In all other states an ended scheduler has told main.
SilentUntilSubscribed ==
  \/ scheduler = "subscribe"
  \/ scheduler = "done" /\ main = "waitStop" /\ stopSem = 0
  => Silent

LEMMA SilentUntilSubscribedStep ==
  ASSUME PlainTypes, SilentUntilSubscribed, [Next]_vars
  PROVE  SilentUntilSubscribed'
<1> USE DEF PlainTypes, FlagTypes, CountTypes, SilentUntilSubscribed, Silent
<1>1. CASE Scheduler
  BY <1>1 DEF Scheduler, Subscribe, SpinReturns, NotifyStop
<1>2. ASSUME NEW s \in 0 .. MaxSlot, NEW onSlot \in BOOLEAN, Clock(s, onSlot)
      PROVE  SilentUntilSubscribed'
  <2>1. scheduler = "spin" /\ scheduler' = scheduler
    BY <1>2, Zenon DEF Clock
  <2>2. QED
    BY <2>1
<1>3. CASE Base
  BY <1>3 DEF Base, GoBase, BaseStart, BaseTest, BaseWait, BaseCheck, ModelStep,
              BaseStore, BaseShutdown
<1>4. CASE Main
  BY <1>4 DEF Main, GoMain, WaitStop, Clear, NotifyTerminate, JoinBase, ClearAgain,
              JoinScheduler, TerminateModel
<1>5. CASE Interrupt
  BY <1>5 DEF Interrupt
<1>6. CASE UNCHANGED vars
  BY <1>6 DEF vars
<1>7. QED
  BY <1>1, <1>2, <1>3, <1>4, <1>5, <1>6 DEF Next

LEMMA SilentUntilSubscribedInvariant == Spec => []SilentUntilSubscribed
<1>1. Init => SilentUntilSubscribed
  BY DEF Init, SilentUntilSubscribed, Silent
<1>2. QED
  BY <1>1, SilentUntilSubscribedStep, PlainTypesInvariant, PTL DEF Spec

-----------------------------------------------------------------------------
\* When a thread can move: the guards of its actions, each of which moves it.  It
\* is what ENABLED <<Scheduler>>_vars, <<Base>>_vars and <<Main>>_vars say.
SchedulerReady ==
  scheduler \in {"subscribe", "returned"} \/ (scheduler = "spin" /\ shutdown)

BaseReady == base # "done" /\ (base = "wait" => baseSem > 0)

MainReady ==
  /\ main # "done"
  /\ main = "waitStop" => stopSem > 0
  /\ main = "joinBase" => base = "done"
  /\ main = "joinScheduler" => scheduler = "done"

\* Weak fairness of the three threads, with the guards written out.
NodeFairness ==
  /\ []<>~SchedulerReady \/ []<><<Scheduler>>_vars
  /\ []<>~BaseReady \/ []<><<Base>>_vars
  /\ []<>~MainReady \/ []<><<Main>>_vars

\* It is the fairness of FairSpec, once the guards enable the threads.
LEMMA NodeIsFair ==
  /\ FairSpec
  /\ [](SchedulerReady => ENABLED <<Scheduler>>_vars)
  /\ [](BaseReady => ENABLED <<Base>>_vars)
  /\ [](MainReady => ENABLED <<Main>>_vars)
  => Spec /\ NodeFairness
BY PTL DEF FairSpec, NodeFairness

\* Both other threads have ended, and main knows or is about to.
Ending ==
  /\ base = "done" /\ scheduler = "done"
  /\ main = "waitStop" => stopSem > 0

LEMMA EndingStep ==
  ASSUME PlainTypes, Ending, [Next]_vars
  PROVE  Ending'
<1> USE DEF Ending
<1>1. ~Base /\ ~Scheduler
  BY DEF Base, GoBase, BaseStart, BaseTest, BaseWait, BaseCheck, ModelStep, BaseStore,
         BaseShutdown, Scheduler, Subscribe, SpinReturns, NotifyStop
<1>2. ASSUME NEW s \in 0 .. MaxSlot, NEW onSlot \in BOOLEAN, Clock(s, onSlot)
      PROVE  FALSE
  BY <1>2 DEF Clock
<1>3. CASE Main
  BY <1>3 DEF Main, GoMain, WaitStop, Clear, NotifyTerminate, JoinBase, ClearAgain,
              JoinScheduler, TerminateModel
<1>4. CASE Interrupt \/ UNCHANGED vars
  BY <1>4 DEF Interrupt, vars
<1>5. QED
  BY <1>1, <1>2, <1>3, <1>4 DEF Next

\* Main's way to its end, one step after the other.
LEMMA MainMoves ==
  ASSUME Main
  PROVE  \/ main = "waitStop" /\ main' = "clear"
         \/ main = "clear" /\ main' = "notify"
         \/ main = "notify" /\ main' = "joinBase"
         \/ main = "joinBase" /\ base = "done" /\ main' = "clearAgain"
         \/ main = "clearAgain" /\ main' = "joinScheduler"
         \/ main = "joinScheduler" /\ main' = "terminateModel"
         \/ main = "terminateModel" /\ main' = "done"
BY DEF Main, GoMain, WaitStop, Clear, NotifyTerminate, JoinBase, ClearAgain,
       JoinScheduler, TerminateModel

LEMMA MainEnds == Spec /\ NodeFairness => (Ending ~> main = "done")
<1> DEFINE At(m) == Ending /\ main = m
<1>1. Ending /\ main # "done" => MainReady
  BY DEF Ending, MainReady
<1>2. PlainTypes /\ Ending =>
        \/ At("waitStop") \/ At("clear") \/ At("notify") \/ At("joinBase")
        \/ At("clearAgain") \/ At("joinScheduler") \/ At("terminateModel") \/ At("done")
  BY DEF PlainTypes, FlagTypes
<1>3. PlainTypes /\ Ending /\ [Next]_vars => Ending' /\ (Main \/ main' = main)
  BY EndingStep, ThreadsMoveAlone
<1>4. PlainTypes /\ Ending /\ [Next]_vars =>
        /\ At("waitStop") => At("waitStop")' \/ At("clear")'
        /\ At("clear") => At("clear")' \/ At("notify")'
        /\ At("notify") => At("notify")' \/ At("joinBase")'
        /\ At("joinBase") => At("joinBase")' \/ At("clearAgain")'
        /\ At("clearAgain") => At("clearAgain")' \/ At("joinScheduler")'
        /\ At("joinScheduler") => At("joinScheduler")' \/ At("terminateModel")'
        /\ At("terminateModel") => At("terminateModel")' \/ At("done")'
  BY <1>3, MainMoves
<1>5. /\ At("waitStop") /\ <<Main>>_vars => ~At("waitStop")'
      /\ At("clear") /\ <<Main>>_vars => ~At("clear")'
      /\ At("notify") /\ <<Main>>_vars => ~At("notify")'
      /\ At("joinBase") /\ <<Main>>_vars => ~At("joinBase")'
      /\ At("clearAgain") /\ <<Main>>_vars => ~At("clearAgain")'
      /\ At("joinScheduler") /\ <<Main>>_vars => ~At("joinScheduler")'
      /\ At("terminateModel") /\ <<Main>>_vars => ~At("terminateModel")'
  BY MainMoves
<1>6. /\ At("waitStop") \/ At("clear") \/ At("notify") \/ At("joinBase")
         \/ At("clearAgain") \/ At("joinScheduler") \/ At("terminateModel")
         => Ending /\ MainReady
      /\ At("done") => main = "done"
  BY <1>1
<1> HIDE DEF At
<1>7. QED
  BY <1>2, <1>4, <1>5, <1>6, PlainTypesInvariant, PTL DEF Spec, NodeFairness

\* Once the base thread has ended, ROS is shut down and the scheduler ends too; it
\* tells main, unless it never heard of the clock.
Ended == error \/ main # "waitStop"

LEMMA SchedulerEnds ==
  Spec /\ NodeFairness => ((Ended /\ base = "done") ~> Ending)
<1> DEFINE At(s) == Ended /\ base = "done" /\ shutdown /\ scheduler = s
<1>1. PlainTypes /\ SchedulerEndsFirst /\ Ended /\ base = "done" =>
        At("subscribe") \/ At("spin") \/ At("returned") \/ At("done")
  BY DEF PlainTypes, FlagTypes, SchedulerEndsFirst
<1>2. ASSUME Scheduler
      PROVE  \/ scheduler = "subscribe" /\ scheduler' = (IF shutdown THEN "done" ELSE "spin")
             \/ scheduler = "spin" /\ scheduler' = "returned"
             \/ scheduler = "returned" /\ scheduler' = "done"
  BY <1>2 DEF Scheduler, Subscribe, SpinReturns, NotifyStop
<1>3. ASSUME PlainTypes, [Next]_vars, Ended, base = "done", shutdown
      PROVE  /\ (Ended /\ base = "done" /\ shutdown)'
             /\ scheduler' = scheduler \/ Scheduler
  <2>1. ~Base
    BY <1>3 DEF Base, GoBase, BaseStart, BaseTest, BaseWait, BaseCheck, ModelStep,
                BaseStore, BaseShutdown
  <2>2. QED
    BY <1>3, <2>1, ThreadsMoveAlone, MainMoves, Zenon DEF Ended
<1>4. PlainTypes /\ [Next]_vars =>
        /\ At("subscribe") => At("subscribe")' \/ At("done")'
        /\ At("spin") => At("spin")' \/ At("returned")'
        /\ At("returned") => At("returned")' \/ At("done")'
  BY <1>2, <1>3
<1>5. /\ At("subscribe") /\ <<Scheduler>>_vars => ~At("subscribe")'
      /\ At("spin") /\ <<Scheduler>>_vars => ~At("spin")'
      /\ At("returned") /\ <<Scheduler>>_vars => ~At("returned")'
  BY <1>2
<1>6. At("subscribe") \/ At("spin") \/ At("returned") => SchedulerReady
  BY DEF SchedulerReady
<1>7. PlainTypes /\ Accounts /\ SilentUntilSubscribed /\ At("done") => Ending
  BY DEF PlainTypes, CountTypes, Accounts, Ended, Ending, SilentUntilSubscribed, Silent
<1> HIDE DEF At
<1>8. QED
  BY <1>1, <1>4, <1>5, <1>6, <1>7, PlainTypesInvariant, AccountsInvariant,
     SchedulerEndsFirstInvariant, SilentUntilSubscribedInvariant, PTL
     DEF Spec, NodeFairness

\* The base thread's way, one step after the other.
LEMMA BaseMoves ==
  ASSUME Base
  PROVE  \/ base = "start" /\ base' = "test"
         \/ base = "test" /\ base' = (IF runModel THEN "wait" ELSE "shutdown")
         \/ base = "wait" /\ base' = "check"
         \/ base = "check" /\ base' = (IF runModel THEN "step" ELSE "shutdown")
         \/ base = "step" /\ base' = "store"
         \/ base = "store" /\ base' = "test"
         \/ base = "shutdown" /\ base' = "done"
BY DEF Base, GoBase, BaseStart, BaseTest, BaseWait, BaseCheck, ModelStep, BaseStore,
       BaseShutdown

\* A model that fails takes the whole node down, whatever the threads are at and
\* whatever the clock does (rosnodeinterface.cpp:241-257, 229-232, 90-91, 112-129).
THEOREM FailureEndsNode == Spec /\ NodeFairness => ErrorEndsNode
<1> DEFINE At(b) == error /\ base = b
<1>1. FailedModelRests /\ error =>
        At("store") \/ At("test") \/ At("shutdown") \/ At("done")
  BY DEF FailedModelRests
<1>2. FailedModelRests /\ [Next]_vars =>
        /\ At("store") => At("store")' \/ At("test")'
        /\ At("test") => At("test")' \/ At("shutdown")'
        /\ At("shutdown") => At("shutdown")' \/ At("done")'
  BY ThreadsMoveAlone, BaseMoves DEF FailedModelRests
<1>3. /\ At("store") /\ <<Base>>_vars => ~At("store")'
      /\ At("test") /\ <<Base>>_vars => ~At("test")'
      /\ At("shutdown") /\ <<Base>>_vars => ~At("shutdown")'
  BY BaseMoves
<1>4. At("store") \/ At("test") \/ At("shutdown") => BaseReady
  BY DEF BaseReady
<1>5. At("done") => Ended /\ base = "done"
  BY DEF Ended
<1> HIDE DEF At
<1>6. QED
  BY <1>1, <1>2, <1>3, <1>4, <1>5, FailureIsFinal, SchedulerEnds, MainEnds, PTL
     DEF Spec, NodeFairness, ErrorEndsNode

\* Main has cleared the flag and the base thread has not set it again.
Stopping(b) == main \in {"notify", "joinBase"} /\ ~runModel /\ base = b

\* The flag stays cleared, as the callback has ended and the base thread is not
\* where it would write it.
LEMMA StoppingStep ==
  ASSUME PlainTypes, SchedulerEndsFirst, [Next]_vars,
         NEW b \in {"test", "wait", "check", "shutdown", "done"}, Stopping(b)
  PROVE  /\ b # "done" => (main \in {"notify", "joinBase"})'
         /\ ~runModel'
         /\ base' = b \/ Base
<1> USE DEF Stopping
<1>1. ASSUME NEW s \in 0 .. MaxSlot, NEW onSlot \in BOOLEAN, Clock(s, onSlot)
      PROVE  FALSE
  BY <1>1 DEF Clock, SchedulerEndsFirst
<1>2. CASE Scheduler
  BY <1>2 DEF Scheduler, Subscribe, SpinReturns, NotifyStop
<1>3. CASE Base
  BY <1>3 DEF Base, GoBase, BaseStart, BaseTest, BaseWait, BaseCheck, ModelStep,
              BaseStore, BaseShutdown
<1>4. CASE Main
  BY <1>4 DEF Main, GoMain, WaitStop, Clear, NotifyTerminate, JoinBase, ClearAgain,
              JoinScheduler, TerminateModel
<1>5. CASE Interrupt \/ UNCHANGED vars
  BY <1>5 DEF Interrupt, vars
<1>6. QED
  BY <1>1, <1>2, <1>3, <1>4, <1>5 DEF Next

\* A request to stop that the base thread has not overwritten is obeyed, wherever
\* the thread stands: if it waits, the notification of terminate gets it out
\* (rosnodeinterface.cpp:91, 115, 243-249).
THEOREM StopGetsObeyed == Spec /\ NodeFairness => StopIsObeyed
<1> DEFINE Unnotified == Stopping("wait") /\ main = "notify"
           Notified == Stopping("wait") /\ main = "joinBase"
           Joinable == Ended /\ base = "done"
<1>1. main \in {"notify", "joinBase"} /\ ~runModel /\ base \in {"test", "wait", "check"} =>
        Stopping("test") \/ Unnotified \/ Notified \/ Stopping("check")
  BY DEF Stopping
<1>2. PlainTypes /\ SchedulerEndsFirst /\ [Next]_vars =>
        /\ Stopping("test") => Stopping("test")' \/ Stopping("shutdown")'
        /\ Unnotified => Unnotified' \/ Notified' \/ Stopping("check")'
        /\ Notified => Notified' \/ Stopping("check")'
        /\ Stopping("check") => Stopping("check")' \/ Stopping("shutdown")'
        /\ Stopping("shutdown") => Stopping("shutdown")' \/ Joinable'
  <2> SUFFICES ASSUME PlainTypes, SchedulerEndsFirst, [Next]_vars
               PROVE  /\ Stopping("test") => Stopping("test")' \/ Stopping("shutdown")'
                      /\ Unnotified => Unnotified' \/ Notified' \/ Stopping("check")'
                      /\ Notified => Notified' \/ Stopping("check")'
                      /\ Stopping("check") => Stopping("check")' \/ Stopping("shutdown")'
                      /\ Stopping("shutdown") => Stopping("shutdown")' \/ Joinable'
    OBVIOUS
  <2>1. /\ Stopping("test") => Stopping("test")' \/ Stopping("shutdown")'
        /\ Stopping("wait") => Stopping("wait")' \/ Stopping("check")'
    BY StoppingStep, BaseMoves DEF Stopping
  <2>2. Notified => main' = "joinBase"
    BY ThreadsMoveAlone, MainMoves DEF Stopping
  <2>3. Stopping("check") => Stopping("check")' \/ Stopping("shutdown")'
    BY StoppingStep, BaseMoves DEF Stopping
  <2>4. Stopping("shutdown") => Stopping("shutdown")' \/ Joinable'
    BY StoppingStep, BaseMoves DEF Stopping, Ended
  <2>5. QED
    BY <2>1, <2>2, <2>3, <2>4 DEF Stopping
<1>3. /\ Stopping("test") /\ <<Base>>_vars => ~Stopping("test")'
      /\ Unnotified /\ <<Main>>_vars => ~Unnotified'
      /\ Notified /\ <<Base>>_vars => ~Notified'
      /\ Stopping("check") /\ <<Base>>_vars => ~Stopping("check")'
      /\ Stopping("shutdown") /\ <<Base>>_vars => ~Stopping("shutdown")'
  BY BaseMoves, MainMoves DEF Stopping
<1>4. /\ Stopping("test") \/ Stopping("check") \/ Stopping("shutdown") => BaseReady
      /\ StopWakesBase /\ Notified => BaseReady
      /\ Unnotified => MainReady
  BY DEF Stopping, StopWakesBase, BaseReady, MainReady
<1> HIDE DEF Unnotified, Notified
<1>5. QED
  BY <1>1, <1>2, <1>3, <1>4, NoWakeUpIsLost, SchedulerEndsFirstInvariant, PlainTypesInvariant,
     SchedulerEnds, MainEnds, PTL DEF Spec, NodeFairness, StopIsObeyed

=============================================================================
