# A verification project for the Gazebo co-simulation plugin

The repository holds a quadrotor-and-payload study: Simulink models, MATLAB
scripts and flight logs, and two concurrent C++ programs through which the
simulation talks to the outside:

- the **Gazebo co-simulation plugin**, `src/ROS/GazeboPlugin/`, a TCP server
  inside the Gazebo simulator that lets Simulink pause, step, reset and drive
  the simulated world;
- a **generated ROS node**, `src/simCodeGen/src/robotrosgetstartedexample_edit/`,
  that runs a model step at every tick of a simulated clock.

The MATLAB and Simulink part is sequential floating-point computation and is
not modelled. This directory specifies the concurrent programs in TLA+, checks
small instances with TLC and proves the central results with TLAPS.

Paths below are relative to `src/ROS/GazeboPlugin/` unless they start with `src/`
from the repository's root and are marked so.

## 1. Inventory

### Threads of the plugin

| thread | runs | created by |
| --- | --- | --- |
| io thread | every handler of the TCP server, one at a time: accept, handshake, read, write, and all message handlers | `Server::run` |
| world thread | Gazebo's update loop; calls `onWorldUpdateStart`, `onWorldUpdateEnd`, `onTimeReset` | Gazebo |
| service thread | the handlers of the co-simulation deadline | `CoSimulationStatus` |
| transport thread | `updateMessage` of the sensor subscribers, `OnUpdate` of the custom ones | Gazebo transport |
| owner | `Load`, and the destructor that shuts the server down | Gazebo |

### Components

| component | source | state | operations | correct when |
| --- | --- | --- | --- | --- |
| CoSimulationStatus | `src/gazeboserver/GazeboServer.cpp` | client ID, running flag, deadline timer, service thread | start, extend, stop, getStatus, the timer's handler, the destructor | one holder at a time; only its stop or its deadline ends it; a finite one always ends; a renewal keeps it |
| co-simulation handlers | `RequestCoSimulationHandler.cpp`, `StopCoSimulationHandler.cpp`, `StepSimulationMsgHandler.cpp`, `GazeboPlugin.cpp` | none of their own; they read the status and drive the world | request, stop, step, end of an update | the world does not run away in a co-simulation; a step request takes exactly its steps and returns |
| GazeboApplyCommander | `gazeboapply/GazeboApplyCommander.cpp` and eight message handlers | ten maps and vectors of commands with an end time | insert, execute, clear | each update applies what the class comment promises: ADD accumulates, SET overrides, the newest SET wins, all expire; a reset forgets them |
| transport server | `src/transport/Server.cpp`, `ConnectionManager.cpp`, `Connection.cpp` | acceptor, set of connections, a socket, buffer and handshake timer each | run, accept, handshake, read, write, stop, shutdown | shutdown terminates and leaves nothing open; silent peers are dropped; accepted peers are served |
| transport client | `src/transport/Client.cpp`, `readWithTimeout.cpp` | a socket and what has arrived on it | connect, write, timeout, shutdown | a reply answers its request; after a late reply the connection gets back in step |
| dispatch | `GazeboServerCallback.cpp`, `MsgDispatcher.cpp` | handlers by message ID | registerHandler, handleMessage | each well-formed message reaches its handler, each other one an error |
| sensor subscribers | `gazebosensors/*.cpp`, `SubscribeMsgHandler.cpp` | latest message and its time, by topic | subscribe, update, getLatestMessage | never a message from the future of the simulation; bounded wait |
| custom messages | `src/gazebocustom/` | handlers and subscribers by topic | init, publish, subscribe | a topic keeps its handler |
| model parameters | `SetGazeboModelParamMsgHandler.cpp` and others | none; they write the world | set, get | what is applied when one parameter is wrong |
| query handlers | `GetPose...`, `GetLinkState...` and others | none | read the world | - |
| generated protocol | `msgsproto/*.pb.cc`, `*.pb.h` | none | encode and decode packets | - |
| ROS node | `src/simCodeGen/.../rosnodeinterface.cpp` (from the root) | two semaphores, `mRunModel`, the clock's time slot | run, clock callback, base-rate task, terminate | every tick runs one step; whoever stops the node sees it stop |

Messages flow from a client over a connection of the server to
`GazeboServerCallback`, which hands the parsed packet to the handler that
`MsgDispatcher` has for it. Handlers call `CoSimulationStatus` (start, stop,
status), the world (pause, step, reset) and `GazeboApplyCommander` (insert), and
return the reply. Gazebo calls back into the plugin at both ends of an update,
which executes commands and, during a co-simulation, pauses the world.

### What is hard

`PROJECT.json` lists each hazard with its line. In short: a deadline that races
the renewal that should cancel it; the co-simulation status read, then acted on,
by three threads without a common lock; a step request that blocks the only io
thread on the world's progress; commands whose end time is computed in one
thread before a reset in another; two critical sections for one wrench; a
handshake that races its deadline; shutdown against accept and against a
callback that holds a connection's mutex; late replies; messages of Gazebo that
arrive between the critical sections of the request that reads them; a time that
is set back; three threads of the ROS node that write one flag.

## 2. Modules

| module | models | EXTENDS / INSTANCE |
| --- | --- | --- |
| `Lease` | what the status promises to clients, without timers | - |
| `CoSimulationStatus` | `CoSimulationStatus` with its timer | INSTANCE `Lease` |
| `CoSimulationStatusProofs` | its theorems | EXTENDS `CoSimulationStatus`, `TLAPS` |
| `CoSimulation` | handlers, world and status composed | INSTANCE `CoSimulationStatus` |
| `CoSimulationProofs` | its theorems | EXTENDS `CoSimulation`, `TLAPS` |
| `GazeboApplyCommander` | commands, updates and resets | - |
| `GazeboApplyCommanderProofs` | its theorems | EXTENDS `GazeboApplyCommander`, `TLAPS` |
| `TransportServer` | the server's connections, from accept to shutdown | - |
| `TransportServerProofs` | its theorems | EXTENDS `TransportServer`, `TLAPS` |
| `RequestReply` | requests, timeouts and replies on one connection | - |
| `RequestReplyProofs` | its theorems | EXTENDS `RequestReply`, `TLAPS` |
| `Subscriptions` | messages of Gazebo kept for clients: sensors and custom messages | - |
| `SubscriptionsProofs` | its theorems | EXTENDS `Subscriptions`, `TLAPS` |
| `ModelParam` | the request that sets parameters of a model | - |
| `ModelParamProofs` | its theorems | EXTENDS `ModelParam`, `TLAPS` |
| `RosNode` | the generated ROS node and its three threads | - |
| `RosNodeProofs` | its theorems | EXTENDS `RosNode`, `TLAPS` |
| `MC...` | constants for TLC | EXTENDS the module they name |

Operators named "Faulty variant" in a comment are plausible mistakes of the
code next to the definition they would replace. No specification uses them; they
show that each property can fail, by being put in the place of the correct
definition.

### CoSimulationStatus

One action per critical section of `m_mutex`. `start` is three actions, one for
each outcome: `Grant` (nothing runs), `Extend` (the holder renews) and `Refuse`;
`Stop` succeeds or not by `MayStop`. `Destroy` and `Join` are the destructor.

The timer is external (boost's `basic_deadline_timer`) and modelled by its
contract: `armed` is the wait on it, `DeadlinePasses` takes an expired wait off
it, `ready` is the handler that now waits for `m_mutex`, `Timeout` is its body.
`cancel` and `expires_from_now` revoke only an armed wait. The constant
`CancelsQueued` chooses a timer that would also revoke a ready one: no run uses
it, the theorems are about both, and one of them is about that timer only. Time has no value: an armed wait may
expire at any moment. `lease` numbers the grants and renewals, so that a wait can
be matched with the lease it was armed for.

`Lease` is the promise to the clients: one holder at a time, only it renews or gives
back, and a lease ends without its holder only by a deadline. `Promise` maps the
status to it: nobody holds the lease when none runs, whatever `m_clientID` says, and
a wait under way that is not the running lease's own is `late`. `Lease` thus admits
what boost's timer does, a deadline left behind by a lease that was renewed or given
back, but only where there was a timed lease to leave it.

Not modelled: the branch that refuses a client when the timer cannot be set is
dead, since `expires_from_now` always clears its error code; durations that are
negative or overflow a millisecond count behave as some finite duration.

### CoSimulation

The io thread is in at most one handler, with the handler's locals in `io`.
`RequestCoSimulationHandler` is split where another thread can come in between:
`RequestArrives` reads the status, `StartCoSimulation` starts, `PauseWorld`
pauses. `StepSimulationMsgHandler` is `StepArrives` (is the world paused?),
`WorldStep` (sets the number of steps) and `WorldStepReturns`.

The world is external: an update holds `worldUpdateMutex` from `BeginUpdate` to
`EndUpdate`; `SetPaused` and `Step` need that mutex, hence the guard
`world = "idle"`. `onWorldUpdateEnd` is `CheckStatus` (reads the status) and
`EndUpdate` (pauses, and counts a step if the world is paused then).
`User` is the pause button of the Gazebo GUI.

Four record variables (`stepped`, `held`, `freeRun`, `stepKept`) are read by
properties only; two of them saturate so that they stay finite.

### GazeboApplyCommander

The ten containers are one set `queue` of commands with a mode (SET, ADD), a kind
(force, torque, worldPose, linearVelocity, angularVelocity, effort, position,
velocity), a target and an end time. `Replaces` is a map's assignment: same kind,
same key. `Key` is what each handler passes as key: model's and link's name
concatenated for wrenches, the link's name alone for poses and velocities, the
joint's name with the axis for joints.

Each of the seven handlers is an action that computes the end time and puts the
commands it will insert in `io`; `Insert` is one critical section of the
commander. The world thread runs `AdvanceTime` and `ExecuteApplyCommands`, or
`UserReset` and `OnTimeReset`; `ResetSimulation` is the reset that a client asks
for. `input` is what the last update applied, after the rule that SET overwrites
what ADD has accumulated in the same update. A request that is refused (no such
model, link or mode) changes nothing and has no action; values of forces and
poses are left out.

`log` remembers all commands inserted since the last clear. From it `Promised`
defines, by the text of the class comment and without erasing or overwriting
anything, what an update should apply; `InputAsPromised` says that the commander
applies exactly that.

### TransportServer

The io thread is in at most one completion handler, `io`; `result` is what the
operation of a connection completed with, so that a handler works on what was
true when it was queued. Each handler is an action: `AcceptHandler` and, out of
the lock, `WaitAccept`; `HandshakeHandler`, `TimerHandler`, `ReadHandler`,
`WriteHandler`; `CallbackReturns` or `CallbackThrows` after a read;
`ConnectionManager::stop` is `Erase` and `Close`, because it closes the connection
after it has released its mutex. The owner's `Server::shutdown` is `Shutdown`, one
`StopOne` for each member, `StopAllReturns` and `Join`. While
`owner = "stopping"` it holds the mutexes of the server and of the manager, which
`AcceptHandler` and `Erase` need, and `StopOne` needs the connection's mutex,
which the callback holds.

A connection that is closed while an operation of it is pending completes it with
an error; a deadline that is ready is not revoked by its cancellation. Peers
connect once and then send a handshake, a request, an end of session, or nothing.
External: the network and the clock (`Network`, `Expires`, `AcceptFails`).

Not modelled: an exception at the start of the io thread; `getNumActiveConnections`,
which reads `members`; a socket that has been accepted but not started when the
server shuts down, which `m_socket` keeps open (`socket` shows it).

### RequestReply

`requests`, `hand` and `replies` are the way of a request through the server and
of its reply back, `arrived` the part of `replies` that the client's socket has
received. `Client::write` is `Drain` (reads what has arrived and drops it), `Send`, and
`Receive` or `Timeout`. The server's `doRead` with its callback is `ServerReads`,
`doWrite` is `ServerReplies`.

Both sides wait for a delimiter and then take the whole buffer as one message. `Reads`
says what that returns: the message if the buffer holds just that; else, when there
is a second message or a part of one, something that `GazeboServerCallback` or the
client cannot parse (`Garbled`), and the rest of a message that was cut is `Garbled`
too (`Torn`). A cut through a delimiter would glue the rest to the message behind
it; the model has that as a read of two. A message is taken not to contain the
delimiter, and the connection stays open.

### Subscriptions

Gazebo's transport thread stores, the io thread reads: `UpdateMessage` and `OnUpdate`
against requests that are several critical sections of a mutex each.
`getLatestMessage` is `RequestSensor` with its first look at the times (`Check`), a
`Poll` for each further look after a sleep, `DropMessage` for a message from a later
time than the world's, and `ReturnMessage`. `subscribeCustomMsg` of the generated
handler is `GetMessage`, `GetMessageStatus`, `ResetMessageStatus`. The handlers of all
messages share the io thread, so one `pc` is enough. `Subscribe` is the subscription:
a new subscriber looks up the sensor's update rate (if there is none the interval is
infinite, `rated = FALSE`), a repeated one only resets the message.

A sensor's message is its time stamp, with the `epoch` of the world's time; the
time is in ticks and `ResetTime` sets it back. Custom messages are numbered. `raced`,
`inWindow`, `arrived` and `cleared` are read by properties only. Camera, IMU and laser
differ in their payload, which is left out; so are topics that Gazebo does not list
and requests before a subscription, which only get an error.

### ModelParam

`handleMessage` of `SetGazeboModelParamMsgHandler`: `Request` takes the model's own
entry, `NextBody` another link's; `UnknownLink` notes an error, `ReadPose` and
`WritePose` are the two accesses of the world between which `Move` may come;
`SetJoint` checks a joint's entry and applies it, `Reply` turns the noted errors into the
one status (`LastError`). `SetJointParam` sets every parameter of an entry, those too that
come after a refused one; which are refused is Gazebo's choice (`refused`, within
`Refusable`). The code notices only refusals of an angle and of the suspension, and
notes them in the text of the reply (`message`), which each joint that is set replaces. A
pose component holds who set it last. The entries of a request are chosen when the
handler reaches them, which gives every request. The pose of a joint's anchor is left out:
it is read, completed and written as the others are, and nothing but this handler
changes it.

### RosNode

`main`, `scheduler` and `base` are where the three threads are. `Clock` is the
whole clock callback, run by `ros::spin` on the scheduler thread: `MissSlot`,
`Synchronize`, `NotYet`, `Tick` or nothing (`Between`). The base-rate thread is split at
every access of `mRunModel` and of the semaphore, because main and the callback
write that flag without a lock: `BaseStart`, `BaseTest`, `BaseWait`, `BaseCheck`,
`ModelStep`, `BaseStore`. `run` and `terminate` are `WaitStop` to `TerminateModel`.
`volatile` is taken to make single reads and writes of the flag atomic, as the
build does for a byte.

A clock message is a slot of 10 ms and whether it lies on it or after it; any may
follow any, so that messages are lost, repeated and set back. `Interrupt` is
SIGINT. A step may set the model's error status if `StepMayFail`; the step in the
repository never does, the node's code handles it. `stateFlag` is 0 as soon as
`waitingFlag` is TRUE, so it has no variable. The overrun counter only writes to the
log.

`FailedModelRests` and `StopWakesBase` are invariants that the theorems about the
node's end rest on; they are proved, and no run has them in its cfg.

## 3. Runs

| run | checks | shows |
| --- | --- | --- |
| `status` | types, `FiniteLeaseHasDeadline`, `ArmedWaitIsLatest`, `LeaseNotStolen`, `LeaseEnds`, `ImplementsLease` | with boost's timer nobody's co-simulation is stolen, no finite one is kept for ever, and the status implements `Lease` |
| `status_stale_deadline` | `DeadlineEndsOnlyItsLease`, **violated** | with boost's timer a renewal can be granted and then ended by the deadline it replaced |
| `cosim` | types, `FreeRunBounded`, `StepExact`, `StepsGetTaken`, `WorldGetsPaused` | lock-step holds although status, handlers and updates share no lock |
| `cosim_step_reply` | `StepReplyMeansStepped`, **violated** | a step request may be answered without error and without a step |
| `apply` | types, `InputAsPromised`, `ResetLeavesOneRequest`, `ForceBringsTorque` | updates apply what the class comment promises, whatever the interleaving |
| `server` | types, `ShutdownLeavesNothing`, `AlwaysAccepts`, `ServedAfterHandshake`, `ShutdownCompletes`, `SilentPeersAreDropped` | a shutdown at any moment ends and leaves nothing behind; who does not shake hands is dropped |
| `request_reply` | types, `ExecutedInOrder`, `RepliesInOrder`, `SettledRepliesAreOwn` | with timeouts and late replies nothing is executed or answered twice or out of order, and the client gets back in step |
| `request_reply_late` | `ReplyAnswersRequest`, **violated** | a late reply answers the next request |
| `subscriptions` | types, `NoReplyFromFuture`, `StaleOnlyAfterWait`, `RequestReturns`, `NewsAreReported`, `NewsAreNew` | what arrives between the critical sections of a request costs at most what the window holds, and no request blocks the io thread for ever |
| `model_param` | `OthersAreApplied`, `ReplyTells`, `OtherComponentKept` | a wrong entry is skipped alone and the status tells of it; what a joint refuses is told by the text only, and only for the last joint; half a pose keeps the other half |
| `ros_node` | types, `NoTickLost`, `EverySlotNotified`, `NoStepAfterTerminate`, `ErrorEndsNode`, `StopIsObeyed` | every notified tick runs one step, a missed slot is noticed, a failing model ends the node, the model is terminated last |
| `ros_node_stop` | `SpinReturnEndsNode`, **violated** | a node that is interrupted during a step may never end |

### Bounds

- `MaxLease = 5` with three clients: a grant, a renewal, an expiry, a second
  client's grant and a stale handler fit in four; the fifth lets the pattern
  repeat. In `cosim`, two clients and two leases are a renewal or a hand-over;
  the violation takes a third.
- `MaxSteps = 2`: a step that is the last of its request and one that is not.
- `apply`: two requests are enough for every pair of kinds and modes to meet on
  the same and on different targets; three units of time and durations 1 and 2
  let the earlier command expire before, with and after the later one; one reset
  gives a time before and after it; two links of one model, which must not take each
  other's commands.
- `server`: two peers, so that one is in the callback while the other is accepted
  or stopped; two runs, so that the second meets what the first shutdown left.
- `request_reply`: four requests: one that times out, one that finds its late
  reply, one that runs into the next, one after things have settled.
- `subscriptions`: an interval of two ticks and times up to three, so that a message
  is fresh, just stale or stale, and after the one reset from the future; two looks
  after the first, so that a wait ends early or at its limit; one sensor message
  under way, which a reset can overtake; two custom messages, one in the window
  and one before or after it.
- `model_param`: a joint of each number of degrees of freedom and, besides the model's
  own entry, two entries of links or joints in a request, so that an error comes before
  and after a correct entry, two kinds of error meet and two joints refuse different
  parameters; one movement, before, in or after a read and write.
- `ros_node`: six slots with a full second every two; four ticks are a
  synchronization, ticks that pile up behind a slow step, and one after a failure or an
  interrupt; slots beyond the ticks make room for a missed one.

The theorems have no bounds: `MaxLease`, `MaxRuns`, `MaxRequests`, `MaxTicks` and
the others are any numbers there.

Deadlock is checked in `cosim`, `cosim_step_reply`, `subscriptions` and
`model_param`. The ROS node ends, and may wait for a clock that has stopped; in the status runs the
service thread may end, in the apply and request/reply runs the clients run out of
requests, and after the last shutdown a server has nothing to do, so these cfg
files switch the check off.

### Fairness

- `CoSimulationStatus`: weak fairness of the service thread. The thread runs
  `io_service::run` until the destructor, and an expired timer's handler is never
  disabled except by being revoked. Clients are not fair: they may fall silent.
- `CoSimulation`: weak fairness of the world thread (Gazebo's loop never stops)
  and of the return from `World::Step`, which polls. Nothing is assumed of
  clients, of the user or of deadlines.
- `TransportServer`: the queue of the io service is first in, first out, so each
  kind of handler gets its turn although others keep being queued: strong fairness
  of the accept handler, and for each connection of its handlers and of its
  deadline's. A callback returns or throws. An armed timer expires (weak fairness).
  Strong fairness of the owner: the mutex of a connection it waits for is released
  again and again, and obtained in the end. Nothing is assumed of peers: they need
  not send, leave or connect.
- `RequestReply` states no liveness; every `write` ends by its timer. Neither does
  `ModelParam`, a loop over a request.
- `Subscriptions`: weak fairness of a handler that has begun. Nothing is assumed of the
  sensor, the world or the clients: `RequestReturns` holds for a sensor that is silent.
- `RosNode`: weak fairness of each thread; the operating system schedules them, a
  notified semaphore stays positive until the one thread that waits for it runs, and
  `ros::spin` looks at the shutdown flag between callbacks. Nothing is assumed of the
  clock or of the user.

## 4. Proofs

All theorems hold for every value of the constants. The runs check on small instances
the properties that they state. No run checks those that are stated in proof modules
only or proved as steps towards others: `ModelFollowsClock`, a corollary of
`TicksAreNotLost`'s invariant; `ExactTimerEndsOnlyItsLease`, which is about another
timer; `FailureIsFinal`, `NoWakeUpIsLost`; and the single rounds of a liveness property
(`EachStepIsTaken`, `StopAllGoesOn`, `PeersGoQuiet`, `QuietServerEnds`, `LooksGoOn`).

**Liveness.** `ENABLED` is out of the provers' reach, so the fairness that the liveness
theorems assume has each guard written out: `ServiceThreadFairness`,
`WorldThreadFairness`, `NodeFairness`, `ServerFairness` and `HandlerFairness` say "not
ready again and again, or a step again and again" (weak), or "not ready from some time
on, or a step again and again" (strong), with a state predicate such as `OwnerReady` in
the place of `ENABLED <<Owner>>_vars`. A lemma each (`ServiceThreadIsFair`,
`WorldThreadIsFair`, `NodeIsFair`, `ServerIsFair`, `HandlerIsFair`) shows that `FairSpec` is as
fair as that, provided that the actions are enabled where they are ready. That proviso is
the one thing not proved: it is read off the actions' guards, which no primed variable
restricts further, and TLC finds `Ready <=> ENABLED` invariant on the instances of the runs. The
rest is the usual argument, a predicate that only the fair action leaves and that makes it
ready, from one stage to the next; the temporal prover combines the stages, whose steps
are proved as any other.

What stays out of reach is induction over a temporal formula. Where a liveness property
counts something down, the theorem is about one round, for every value of what is
counted: that rounds come to an end is the part that only TLC shows.

**CoSimulationStatusProofs.** From `NoClientAssumption`, `CancelsQueuedAssumption`
and `MaxLeaseAssumption`.
`TypeCorrect` by cases on `Next`. `DeadlineNeverLost` needs the invariant that
waits never run ahead of the lease counter (`WaitsBehindLeaseInductive`), without which a
state with a deadline of the future could lose it. `ArmedWaitBelongsToLease`
follows: an armed wait of a timed lease is its own.
`LeaseIsNotStolen` is the action property, from the types alone.
`StatusImplementsLease` is the refinement, for both kinds of timer: every action maps
to a `Lease` action or to a stutter. It needs that a running co-simulation has a
client (part of `TypeOK`), and that a late wait was under way, late or the running lease's
own, before any step (`LateWaitsWereUnderWay`): no step makes up a deadline.
`ExactTimerEndsOnlyItsLease` is about the timer that the code would need. Under
`CancelsQueued = TRUE` every wait under way is the running lease's
(`WaitsAreCurrentInductive`), and with it the property holds that the run
`status_stale_deadline` shows violated for boost's timer: the finding has no other cause.
`LeasesEnd`: a finite lease that runs keeps a wait of its own under way
(`LeaseKeepsTicking`), which makes the service thread ready, and a wait that is ready stays
so until its handler runs (`ReadyWaitStays`).

**CoSimulationProofs.** The status's types carry over through the instance
(`StatusTypeStep`). `WorldDoesNotRunAway`: a free run that has begun is either still under way, or has
ended with the world paused; after the grant the status stays true from the
check to the end of the update unless a deadline ends the co-simulation.
`StepsAreExact`: steps taken plus steps left are never fewer than asked for, and
equal while the co-simulation has lasted since `World::Step`.
`CoSimulationUsesStatus` is the composition's step-by-step refinement of the status,
with the status's variables as they are; what is proved of the status therefore holds here
(`StatusKeepsItsPromises`). `WorldIsPaused` follows the update that runs freely through its
stages: an update that began before the grant may not see it (`Blind`), the next one does
(`Seeing`). `EachStepIsTaken` needs that a step request that waits keeps the world running
(`SteppingStays`); with it each update takes one step. `StepsGetTaken` follows by induction on the
steps left.

**GazeboApplyCommanderProofs.** `UpdatesApplyWhatIsPromised` assumes
`UniqueNames` (no two targets of a kind share a key) and shows that `queue` is,
at all times, the subset of `log` that has been neither superseded nor expired
and erased: the invariant relates commands not yet erased, the order of request
numbers in `log` and `io`, and the time of the last erase. `ResetSparesOneRequest`
rests on the fact that the io thread holds commands of one request only.
`ForceKeepsItsTorque` assumes `UniqueNames`, too: only then is what replaced a torque in
`queue` (`ReplacedIsSuperseded`) a SET torque for the same link. It needs the same
invariants (`QueueInv`, `WrenchInv`), among them the order of request numbers, to know
that the replacement came later.

**TransportServerProofs.** `ServerStopsClean` needs `ServerInv`, four facts: a
server that is not running has neither an io thread nor a shutdown under way, and one
that shuts down has closed its acceptor (`ThreadsInv`); `io_service::run` has returned only if nothing
is outstanding (`OutstandingInv`); every open connection is a member, or about to be
closed by the handler that erased it (`OpenInv`); nobody becomes a member once
`stopAll` has begun, because `AcceptHandler` looks at the acceptor under the mutex
under which it was closed (`MembersInv`). `OnlyShakenAreServed`
strengthens the property to all operations. `ServerKeepsAccepting` is inductive as
it stands, since connections and peers leave the accept operation alone (`PeersLeaveAccept`). `HandlersDiffer` is the one lemma about the encoding of handlers.

The liveness proofs rest on `PeerInv`: a member that has not shaken hands has its deadline
armed, ready, or being carried out (`DeadlineInv`); an operation on a closed socket has
ended (`ClosedInv`), and so has an accept on a closed acceptor (`AcceptorInv`); a
connection in the callback has no operation (`CallbackInv`), and a connection starts once (`OnceInv`).
`IoComesBack`: the io thread gets back to the queue, unless a shutdown holds the mutex it
needs; this is where the fairness of single peers becomes that of the one thread.
`SilentPeersGo` assumes `ShutdownCompletes`, because `stopAll` holds that mutex: the
deadline expires, its handler gets its turn, and it gets the mutex.

`ShutdownCompletes` is proved in parts. `StopAllGoesOn`: whatever set of connections
`stopAll` has left to stop, it returns or gets to a smaller one. `PeersGoQuiet`: while the owner joins,
each peer's operation fails, its handlers start none again and again, its timer goes off, and
then it stays quiet. `QuietServerEnds`: when all peers are, the accept handler ends, the io thread
returns, and the owner joins it. `ShutdownEnds` puts them together; its two premises, that
`stopAll` gets to the last of its connections and that all the peers are quiet at the same
time, are inductions over the finite set of connections.

**RequestReplyProofs.** Four lemmas say what a read leaves of a stream: a rest of it,
possibly with entries made `Garbled`, whose head was taken only if it was alone.
`OrderInv` says that request numbers increase along the whole way from the last
answer through `replies`, `hand` and `requests` to the last request sent; the two
ordering theorems are its first consequences. `ClientGetsBackInStep`: if nothing was on the way
when `write` was called, then only its own request or reply is, in exactly one place.

**RosNodeProofs.** `Accounts` is the book-keeping behind `TypeCorrect`,
`TicksAreNotLost` and `ModelFollowsClock`: what the base-rate thread was notified of is
what it took from the semaphore plus what waits there, and what it took is what it
stepped, one more between the wait and the step, or the one it left with. It also
bounds the requests to stop by who may make them (`Asked`).
`SlotsAreNotified` is inductive once nothing is notified before the synchronization
(`SlotsFromSync`). `TerminatedModelRests` needs (`Joined`) that main passes a join only after the joined
thread has ended, so that both are over when the model is terminated.
`FailureIsFinal` and `NoWakeUpIsLost` are the invariants of the node's end: the clock callback and main
set `mRunModel` only to what the error status allows, and who clears it while the base-rate thread
waits also notifies it, or is main between the two. With them, and because main gets to
clear the flag only after the scheduler has ended (`SchedulerEndsFirst`), `FailureEndsNode` takes the
node from the failure over the shutdown of ROS, the return of `spin` and main's joins to
`done`; that `spin` has started by then is `SilentUntilSubscribed`. `StopGetsObeyed` takes the base-rate thread
from wherever it stands to its exit.

**SubscriptionsProofs.** `NothingFromFuture` and `StaleIsWaitedFor` come from what the last
look at the times still says of the message as long as nothing has `raced` it
(`PastCheckInv`). `NewsGetReported`: the stored message is new, was read or
answered, or fell into the window (`NewsInv`); `ReportedNewsAreNew`: a mark that is set
was set by an arrival after the last reset (`CountInv`). `LooksGoOn`: each look is
followed by the next or by the answer, and is numbered below `Polls`. `AnswersAreGiven` derives
`RequestReturns` from that and the induction over the looks, which is its premise.

**ModelParamProofs.** `AppliesTheOthers` and `ReplyTellsNoMore` rest on one invariant over the
entries handled so far (`HandledInv`): those applied are the right ones, an error is noted
exactly if there is a wrong one, and the text is that of the last joint set (`TextStep`). `KeepsOtherComponent` (`MixedInv`): between read and write
the pose put together keeps agreeing with the body's as long as the world has not moved it.

Only model-checked: of `StepsGetTaken`, `ShutdownCompletes` and `RequestReturns` the
induction over the steps, the connections and the looks that are left; that ready
actions are enabled. All other properties of the runs are proved.

## 5. What the code does otherwise than it says

`PROJECT.json` quotes the lines of the violated properties: `DeadlineEndsOnlyItsLease`,
`StepReplyMeansStepped`, `ReplyAnswersRequest`, `SpinReturnEndsNode`. Besides these:

- A command on a link or joint is stored under a name without its model's
  (`GazeboApplyCommander.cpp:80` and its siblings), while the class comment speaks of
  the "specified link of a model": two models with a link of one name replace each
  other's commands. The run and theorem on `InputAsPromised` take names to be unique.
- A connection whose read or write fails stays among the server's active connections
  until the server shuts down (`Connection.cpp:91`).
- `GazeboWorldImpl::resetTime` is commented out, while `ResetSimulationMsgHandler.cpp:20`
  says "Reset Gazebo world time only" and the client is told that it succeeded.
- Parameters that a joint refuses are no error of a request that sets model parameters: the
  status is a success, and only `error_message` names them
  (`SetGazeboModelParamMsgHandler.cpp:160-232`). Each joint that is set replaces that text
  (line 305), so that the refusals of all but the last one are told by nothing;
  `ReplyTells` states what a client can rely on.
- The overrun check of the ROS node compares with a flag that no step resets
  (`rosnodeinterface.cpp:192`): it reports every tick after the first.

## 6. Plan

In this order, each with its runs and theorems:

1. `CoSimulationStatus`, `CoSimulation`, `GazeboApplyCommander` with proofs (done).
2. `TransportServer`: accept, handshake and deadline, read, callback, write,
   shutdown under the mutexes, with proofs (done).
3. `RequestReply`: timeouts, drains and late replies over two byte streams, with
   proofs (done).
4. `RosNode`: callback, base-rate and main threads with their semaphores, with
   proofs (done).
5. `Subscriptions`: latest message, time reset, bounded wait; the custom messages
   share its threads and are in the same module, with proofs (done).
6. `ModelParam`: which parameters a request applies before it reports an error,
   with proofs (done).
7. Liveness: fairness with explicit guards, and the liveness properties of the runs
   derived from it; the composition as a use of the status (done, but for the
   inductions named in section 4).

## 7. Not modelled

- The classes protobuf generates (`msgsproto/`) and the tests (`pkgtest/`, except the
  generated custom handler that stands there). They are most of the C++
  lines, so the share of lines that definitions map to stays small.
- Query handlers (they keep no state), the publisher's side of custom messages and the
  dispatch tables (filled before clients connect), the get request and the step
  size among the model parameters, the values of parameters and the joint's type in the
  text of `error_message`.
- The sine waves of the generated model step: floating-point dataflow.
- Code that nothing here runs: `SubscribeMsgManager` (unused), `GazeboClientImpl` and
  the heartbeat (not in the repository).
- Simulink models, MATLAB scripts and logs: sequential numerical computation.
