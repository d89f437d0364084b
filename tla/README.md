# go2_driver in TLA+

A specification, in TLA+, of the ROS 2 driver for the Unitree Go2 in this
repository: what its command bridges and its driver node do with requests,
replies, timers and clocks, checked with TLC on small instances; its safety,
the refinements of the abstract specifications included, is proved with TLAPS for
all instances.

## 1. Inventory

| Component | State | Operations | Talks to |
|---|---|---|---|
| `UnitreeApiClient` (`unitree_api_client.cpp`) | `pending_` (id -> deadline, callback), `last_id_` | `send`, `call`, `responseCallback`, `sweepTimeouts` (100 ms wall timer), `nextId` | the robot, over a request and a response topic that other nodes share; its owner, through callbacks |
| `Go2SportBridge` (`go2_sport_bridge.cpp`) | `active_sequence_`, `sequence_timer_`, parameters `wait_for_response`, `blocked_modes`, the preset table | services `mode`, `speed_level`, `switch_joystick`, `euler`, `pose`, `get_auto_recovery`; topic `cmd_vel`; the sequence timer | service clients; its own `UnitreeApiClient` |
| `Go2RobotStateBridge` (`go2_robot_state_bridge.cpp`) | none of its own | services `service_switch`, `set_report_freq`, `service_list` | service clients; its own `UnitreeApiClient` |
| `Go2Driver` (`go2_driver.cpp`) | `last_tf_stamp_`, parameters `use_msg_stamp`, `publish_tf`, `publish_odom` | `odomCallback`, `publishLidar`, `publishJointStates` | the robot's sensor topics; TF, odometry, point cloud and joint state topics |
| launch file | - | starts the nodes, passes parameters on | - |

Each node's handlers run one at a time: they share the node's default callback
group, which is mutually exclusive, whatever executor the container uses. What
interleaves is the order in which an executor picks messages, service calls and
timers, against a robot and a network that reorder, repeat, delay and lose.

What is hard, and what makes each component correct:

* **Client.** Callbacks may call the client again while a reply or a sweep is
  still being handled; replies come late, twice, never, or were meant for
  another node or for an earlier process of this one; the table is bounded;
  deadlines are read off a clock that may be set, and looked for by a timer on
  another clock. Correct means that a call that returned true is answered exactly
  once, in time, with success only if the robot accepted that very request.
* **Sport bridge.** A `mode` sequence is carried by three things in turn (a
  request in the table, a callback, a timer) that must hand over without a gap
  or an overlap, while other services use the same table. Correct means that the
  sequence always ends and is reported, that a step is sent only after the one
  before it took effect and its wait is over, that two sequences never mix, and
  that what is refused is never sent.
* **Robot state bridge.** Answers are deferred to replies that may be late, someone
  else's or unreadable, and one request is never answered by the robot. Correct
  means that what a call reports was in the reply to that call, and that a field
  the robot left out is never read as a good value.
* **Driver.** Clouds and odometry come on two topics, each with its own delay and
  a queue that drops, stamped by a clock that may be set. Correct means that a
  cloud never leads the transforms it is looked up in, that its stamp is moved for
  that reason only, that clouds stay in order, and that the pose published as two
  transforms, its orientation taken apart into angles and put together again, is
  the pose published as odometry. A stamp of zero, from a clock not set yet or
  odometry nobody stamped, is the edge: the code takes it for "no transform yet".

`PROJECT.json` lists every hazard at the line where it bites, with the
properties that would catch it.

## 2. Modules

| Module | What it is |
|---|---|
| `UnitreeApiClient` | the client and its environment: `send`, `call`, `responseCallback`, `sweepTimeouts`, `nextId`; the robot, foreign nodes, both clocks. It has no `Next`: its users extend it |
| `ApiCall` | what the client's header promises about one call, and nothing about how |
| `ApiClientSystem` | the client under its most general use: any caller, any moment, callbacks that call again. Its properties, its inductive invariant, the refinement of `ApiCall` |
| `UnitreeApiClient_proofs` | lemmas on the client's operators that the proofs about its users share |
| `ApiClientSystem_proofs` | the proofs about the client in general use |
| `ApiClientTimed` | the same with the sweep timer's period and a punctual executor: when a timeout is noticed |
| `ApiClientTimed_proofs` | the proofs about it, on top of `ApiClientSystem_proofs` |
| `SportPresets` | the Sport API ids and the table of mode presets |
| `ModeService` | what the `mode` service promises, and nothing about how |
| `Go2SportBridge` | the sport bridge over the client: every service handler, `cmd_vel`, the sequences and their timer; the refinement of `ModeService` |
| `Go2SportBridge_proofs` | the proofs of its safety properties |
| `Go2SportBridge_refinement` | the proof that it keeps `ModeService` |
| `Go2RobotStateBridge` | the robot state bridge over the client: its three services and the readers of the robot's replies; the refinement of `ApiCall` |
| `Go2RobotStateBridge_proofs` | the proofs about it |
| `Go2Driver` | the driver node: stamps of TF, odometry and clouds, the pose in TF and in odometry, the subscription queues, the joint tables |
| `Go2Driver_proofs` | the proofs about it |
| `MCApiClientSystem`, `MCApiClientTimed`, `MCGo2SportBridge`, `MCGo2RobotStateBridge`, `MCGo2Driver` | values for the constants of the instances TLC checks |

### How the state corresponds to the code

* `pending`, `last_id` are `pending_` and `last_id_`. A request record holds its
  callback and deadline; its `api_id_`, which only a warning reads, is left out.
* `requests` and `replies` are everything ever published on the two topics. A
  message is never taken out, so a handler may see a reply at any later time,
  any number of times, in any order, or never; a request the robot does not
  receive is one it does not answer. A reply also records whose request it
  answers (`to`): the code cannot see that, the properties can.
* `owed` holds the callbacks a running handler has taken out of the table (or,
  without `wait_for_response`, is about to run itself) and not invoked yet. While
  it is not empty no other handler of the node starts (`Idle`). `RunCallback`
  invokes one of them; the order within one sweep is open, as it is for an
  `unordered_map`.
* `steady` is the steady clock: ids and wall timers. `now` is the node's ROS
  clock: deadlines. `ClockSet` moves the second against the first.
* `Restart` is the node's process dying, at any moment, also within a handler,
  and another being constructed: the table, `last_id` and what a handler still had
  to do are gone, what is on the topics stays. A call it takes with it is `"lost"`.
  Starting is assumed to take longer than the ids have run ahead of the clock: a
  nanosecond for each id beyond one a nanosecond.
* In `ApiClientTimed` `sweep_due` is when `sweep_timer_` fires next. Its executor is
  punctual: the clock does not move past a due timer or a handler that has begun.
  `called_at` notes when each call was made, for the properties.
* `active_sequence` is the optional `SequenceRun`, `index` counting the steps
  done; `sequence_timer` is the tick at which the armed timer fires, `None` when
  it is null or cancelled. `timer` in `advanceSequence` is what its caller leaves
  of it: `None` after the timer's own callback cancelled it, else unchanged.
* `asked` and `responses` record what service clients see. A response's message
  is a kind of message, not its text; `switch_joystick` and `pose` have no
  message field and log it.
* `Abstract` in `Go2SportBridge` reads off them what `ModeService` speaks of: how far
  each caller's preset has got, how many of its steps were published, which were
  accepted. `Abstract` in `Go2RobotStateBridge` reads off `asked` and `responses` the
  calls of `ApiCall`; a `set_report_freq` is none, for no reply is waited for. A call
  answered a second time is mapped to a state that `ApiCall` and `ModeService` do not
  have, so that the refinements fail with it.
* In the robot state bridge a payload is a name; `StatusIn` and `ListIn` say which
  payloads parse to an object with an integer status and which to an array. An
  array entry is a record of the fields that are present with the right type, so
  a missing field and one of the wrong type are the same, as they are to the code.
* In the driver a message is its stamp; the pose it carries is picked when it is
  handled. Its quaternion is kept as its length and the rotation it stands for, a
  sequence of turns about the axes as the turns before have left them (a turn by zero
  is none). `setRPY` and `getRPY` are what the driver asks of tf2: yaw, pitch, roll in
  that order make up the rotation, of a unit quaternion; the angles found in a
  quaternion make up its rotation again, whatever its length, unless that is zero.
  `Heading` and `Tilt` are the driver's `q_yaw` and `q_rp`; odometry carries the
  quaternion as it came. `transforms` and `odom_pose` are what went out last.
  `odoms` and `clouds` are the subscription
  queues (`KeepLast`, oldest dropped); `tf`, `odometry` and `pointcloud` are all
  that was published, a cloud with the stamp it would have had unclamped and the
  number of transforms before it. `params` is drawn once, from `Parameters`.

Every action is a whole handler: `ServiceCall` takes a service request, runs its
handler to the end and answers or defers; `SequenceTimer`, `responseCallback`
and `sweepTimeouts` are the node's other callbacks, `Restart` its end.

## 3. Runs

| Run | Question | Instance |
|---|---|---|
| `client_safety` | is a call answered at most once, never forgotten, ok only if accepted; is the safe part of `ApiCall` kept; is the proofs' invariant true | 3 calls, 1 plain send, table of 2, one foreign reply, restarts, ROS clock 0 or 1 ahead, 3 ticks |
| `client_liveness` | is every call answered; does the client implement `ApiCall` | 2 calls, table of 1, restarts, ROS clock set between 1 behind and 1 ahead, 4 ticks |
| `client_timed` | is a timeout noticed neither early nor more than a period late | 2 calls, timeout and sweep period of 2 ticks, a foreign reply whose id the node may use too, restarts, ROS clock 0 or 1 ahead, 9 ticks |
| `sport_sequences` | are sequences sound while calls contend; is the proofs' invariant true | 3 calls of `stand_down_damp`, `damp`, `euler`; table of 2; 3 ticks |
| `sport_services` | is every service answered from its own reply; is what is refused never sent; is `ModeService` kept with velocity commands in between | 2 calls of any service, 1 `cmd_vel`, table of 1, 2 ticks |
| `sport_no_wait` | the same without waiting for replies | 2 calls of any service or any of the 33 presets, 2 ticks |
| `sport_liveness` | is every service call answered; does the bridge implement `ModeService` | 2 calls, table of 2, ROS clock 0 or 1 ahead, 9 ticks |
| `sport_status` | is "got no reply" only said of a silent robot | 1 call; **violated**, see below |
| `state_safety` | is every call answered once, from its own reply; are defaults never read as news; is the safe part of `ApiCall` kept; is the proofs' invariant true | 3 calls of any service, table of 1, 5 payloads, 2 ticks |
| `state_liveness` | is every call answered; do the services keep to their clients what `ApiCall` promises the bridge | 2 calls, table of 1, ROS clock 0 or 1 ahead, 4 ticks |
| `driver_stamps` | does a cloud never lead TF, and is it moved for that only; do clouds stay in order; do TF and odometry agree; are joints named right | all 8 settings, 2 poses (turned about every axis by a quaternion of length 2; a quaternion of zeros), 2 odometry messages into a queue of 1, 2 clouds into a queue of 2, clocks 0 to 3 that start unset (0) and go 1 forward or 2 back |
| `driver_default` | is output stamped with the node clock by default | declared parameters; **violated**, see below |

`sport_services` and `sport_no_wait` check `IInv` for the properties that are
conjuncts of it: `EveryCallTracked`, `SuccessMeansAccepted`, `StepsFollow`.

Why the bounds are enough. Three calls are a reply, a timeout and a callback
that calls again at once; two fill a table of one or two entries and a third is
refused. A tick stands for 2 s, which is the response timeout and the wait of
`stand_down_damp`, so two ticks are a whole sequence and a third its timeout.
`MaxSteady`, `MaxSends` and `MaxMoves` end the runs. In the liveness runs a call
must have its deadline before the clock stops: `DeadlineInReach` and
`LastArrival` see to that, and `Lateness` bounds how long due work is left
waiting, because a sequence starts its second request whenever its timer gets to
run. In the safety runs `Lateness` is beyond the clock's end and bounds nothing.
In the driver two clouds
and two transforms are the fewest that can be exchanged, and three readings of a
clock besides zero the fewest that put one cloud ahead of, between and behind them.
Its queues are scaled down with the messages (10 clouds and 50 odometry messages in
the code): both clouds may wait in theirs, and of two odometry messages one may be
dropped. `MaxForeign` bounds the replies to other nodes; one is enough to meet any
call, for it may be delivered again and again.
Foreign ids are apart from the node's in the runs that check what success means or a
refinement; in `client_timed` they meet. There two ticks are the fewest in which a call can be made between two
sweeps, and its bounds are the tightest that hold: one tick less, early or late,
and TLC finds a counterexample.
Within a tick any number of handlers run in any order. `InTime` also ends a
handler in the tick it started in.

Fairness. The sweep timer and the sequence timer fire when they are due, a
handler that has started runs its callbacks, and time passes: the executor of
the node. Nothing is assumed of the robot, of the network, of clients or of
whoever sets the clock. `client_timed` needs no fairness: it states a bound on
time, which is a safety property. No run switches deadlock checking off.

### Findings

* `sport_status`: a reply with status -1 is reported as "got no reply". The
  client uses -1 for a robot that never replied (`unitree_api_client.cpp:30`), but
  the robot replies with -1 itself (`go2_sport_bridge.cpp:41`), and `describe`
  cannot tell them apart.
* `driver_default`: `use_msg_stamp` is declared true (`go2_driver.cpp:84`), and the
  launch file agrees; the README's table says `false` (`README.md:84`).

## 4. Proofs

The proofs hold for any sets of callers, calls and services, any table size,
timeout and clocks, any presets and blocked modes, any reply payloads and both
settings of `wait_for_response`. `PROJECT.json` lists every theorem with the
property it proves; every invariant of a passing run is one of them, and so is
the safety part of each refinement.

### The client

`UnitreeApiClient_proofs` has what every user of the client needs: `nextId` is new
(`NextIdNew`), so an emplace never meets an entry (`CallIsEntered`); each operation
keeps the client's types and `IdsIssued` (every id in use is at or below `last_id`,
and the robot only answers ids it was sent); unless another node's reply carries the
id of a request (`IdsApart`), a reply under that id is a reply to that request
(`ReplyToItsRequest`), so what is told ok was accepted (`Acknowledged`), and
stays so (`AcknowledgedStays`); a reply and a sweep are one thing,
entries that leave the table and are owed (`HandsOver`).

`ApiClientSystem_proofs`: `TypeCorrect`; `InductiveInvariant` (`Spec => []IInv`) and
from it `AnsweredAtMostOnce`, `CallsRemembered`, `SuccessIsAccepted`; `TableBounded`,
from an invariant of its own, that the table is finite; `ClientKeepsApiCall`
(`Spec /\ []IdsApart => KeepsApiCall`), the safety part of the refinement of `ApiCall`.
That no call reaches the state of one answered twice is `AtMostOneAnswer`, a conjunct
of `IInv`; `EveryCallTracked` says it in the bridges.

The safety properties are not inductive. What makes them so: an entry belongs to
an unanswered call, and no call has two (`PendingSound`); a callback owed has left
the table, and its result is ok only if its request was accepted (`OwedSound`). A
step is then one of a few kinds, with a lemma each: it makes or runs a call
(`CallEffect`, `AnswerEffect`), moves entries from the table to `owed`, sends, or is
the environment's or a restart (`RestartKeepsInv`).

`ApiClientTimed_proofs`: `TimedInvariant` (`TimedSpec => []TimedInv`) and from it
`TimeoutsOnTime`. A timed step is a step of `ApiClientSystem` (`TimedIsNext`), so
`IInv` holds of it. `TimedInv` adds that the timer is within a period of the clock
(`TimerSound`) and that each deadline in the table was read off the ROS clock when
its call was made and not yet due at the last sweep (`DeadlinesSound`), from which
both bounds follow; `OwedInTime` carries them over the time a callback is owed.

### The sport bridge

`Go2SportBridge_proofs`: `InductiveInvariant` (`SafeSpec => []IInv`) and from it
`TypeCorrect`, `CallsTracked`, `SuccessIsTheRobots`, `StepsInOrder`, `OneAtATime`,
`SequenceCarried` and `RefusedStaysUnsent`.

Every conjunct of `IInv` is needed by another. Even `TypeOK` cannot be proved first:
`onStepResult` and the sequence timer read the optional `active_sequence_` and index
its steps unchecked, so the types hold only because a step's callback or an armed
timer implies an active sequence (`PendingSound`, `OwedSound`, `SequenceCarriedOn`)
whose next step exists (`RunSound`). `PendingSound` and `OwedSound` say which request
each callback will report, and `RunSound` what the active sequence has done: its
first `index` steps were published, and accepted if that is waited for, the last of
them long enough before the timer; none beyond, and none of another mode since. From
these `StepsFollow`, `SuccessMeansAccepted` and `Uninterrupted` follow at the one step
that could break each. `RequestsSound` ties what was published to what was asked,
so that a new call is known to have no request yet; `StepsCounted` says that the
steps published are the first so many, once each, which the refinement counts by.

The proof reads each handler once, as one of eight effects (`RefusedWith`, `Started`,
`Forwarded`, `Stepped`, `Ended`, `StepTaken`, `Finished`, `Responded`), and has a lemma
for each effect that keeps `IInv`. Most conjuncts are about the past, which steps only
add to (`Onward`); the lemmas after it reduce each to what the step adds.

`Go2SportBridge_refinement`: `ImplementsTheService`
(`SafeSpec /\ []IdsApart => KeepsModeService`).
Each effect maps to a step of `ModeService` or to none: a refusal to `Refuse` or, if
the mode could have run but nothing could be sent, to the second half of `Start`;
`Stepped` to `Continue`, `Ended` and `Finished` to `Succeed` or `Fail`, a reply with status
0 to a mode's step to `Accept`; all else to a stutter. What `Continue` and `Succeed` ask
of the robot's answers is `RunSound`; that the service counts as the bridge does is
`StepsCounted`; that nobody else runs is that an unanswered mode call is the active
one (`WaitsForItsSequence`).

### The robot state bridge

`Go2RobotStateBridge_proofs`: `TypeCorrect`; `InductiveInvariant` and from it
`CallsTracked`, `SuccessReportsTheReply`, `RunningIsWhatTheRobotSaid`; and
`ServicesKeepTheirPromise` (`Spec /\ []IdsApart => ServicesFollowApiCall`), the safety
part of the refinement.

`IInv` adds to the properties that only calls that wait are in the table or owed
their callback, each once (`PendingSound`, `OwedSound`), and that a callback told ok
carries the data of a reply to its own call. That a list has the services of
the reply, as many and in its order, with the fields it gives (`ListedFacts`), needs an
n-th object for every n up to their number (`NthIsIndex`), which is the one that n counts
up to (`NthOfRank`). The first is an induction on n; the library's induction theorems
are out of the provers' reach, so it is done by the least number at which the count
is reached (`LeastNatural`).

### The driver

`Go2Driver_proofs`:

* `DriverTypeCorrect`: `Spec => []TypeOK`;
* `NeverLeads`: `Spec => []CloudNeverLeadsTf`, of clouds handled while the last
  transform's stamp is not zero (`FollowsTf`), and `MovedOnlyToTf`:
  `Spec => []CloudMovedOnlyToTf`. Neither is inductive, for they say nothing of
  `last_tf_stamp`. `LastTf` does: it is zero before the first transform and the
  stamp of the last one from then on. With it a new cloud is right when it is
  published, and what was published stays right because `tf` only grows.
* `CloudsOrdered`: `Spec => []CloudsInOrder`, unless transforms or clouds went back
  in time themselves, or no transform but one stamped zero went before: the invariant just named, and `AfterGrows` (a later cloud has
  no fewer transforms before it), make its own stamp and the one it is clamped to
  no less than those of the cloud before it.
* `TfIsOdometry`: `Spec => []TfAgreesWithOdometry`. That `Heading` and then `Tilt` turn
  the robot as the message's quaternion does (`HeadingThenTilt`) holds because the
  angle taken out of the first is the one put into the second, and because heading is
  the outermost turn; `Tilt` with the heading left in, or before it, would not do.
  `JointsNamed`: `Spec => []JointsNamedRight`.

Why stamps of zero are excepted: `publishLidar` reads `last_tf_stamp_ = 0` as "no
transform yet". Odometry that nobody stamped, or with `use_msg_stamp` false a simulated
clock before its first message, is broadcast with stamp zero; until another transform
follows, clouds are not clamped, lead that transform, and may be ahead of a cloud
clamped later. `driver_stamps` has these behaviours; without the exception TLC finds
`CloudNeverLeadsTf` and `CloudsInOrder` violated in it. `CloudMovedOnlyToTf` needs none.

### Assumptions

* `ClientAssumption`, `SystemAssumption`, `SportAssumption`, `RobotStateAssumption`,
  `DriverAssumption`: the types of the constants; of the driver, that clocks and stamps
  are not negative (`rclcpp::Time` throws otherwise) and that every pose's rotation is
  one of yaw, pitch and roll by `Angles`, found by `getRPY` as they were. At a pitch of
  exactly 90 degrees up or down it is not: yaw and roll turn about one axis there.
  The bound `MaxForeign` may be any number. `None`, `Sequence`, `CmdVel` and `Foreign` are names of their
  own, equal to nothing they are told apart from.
* `IdsApart`: no other node's reply carries the id of a request of this node. Ids
  start at the nanoseconds since boot to keep nodes and processes apart, which the
  code cannot enforce, so nothing is assumed of the constant `ForeignIds`. Where a
  property or an invariant says that the robot accepted what was told ok, it says
  so while `IdsApart` holds; all else it says holds even when ids have met: no
  call is forgotten or answered twice, none is told of a timeout too early or too
  late, no sequence is stuck or overlapped, the types hold. Only the
  three refinements (`ClientKeepsApiCall`, `ImplementsTheService`,
  `ServicesKeepTheirPromise`) assume `[]IdsApart`, because `ApiCall` and `ModeService` promise
  success of accepted requests alone.
* `TimedAssumption`: a positive timeout and period are set, two offsets of the ROS
  clock differ by at most `Spread`, and the robot sends no reply that reads as a
  timeout: with status -1 and no data the two could not be told apart.

### Only model-checked

Liveness is beyond the prover: `EveryCallAnswered` of the three components, and of
`ImplementsApiCall`, `ServicesKeepApiCall` and `ImplementsModeService` the fairness, their
safety parts being proved. `NoReplyMeansSilent` and `StampedWithNodeClock` are false
of the code.

## 5. Not modelled, and what comes next

* Request payloads, message texts, logging, the mismatch warning on `api_id`.
* C++ object lifetimes: the code replaces a timer inside its own callback and
  holds a reference across a callback; the model has the order of the effects.
* The bridges' DDS queues: a lost message is one that is never handled. The
  driver's are modelled, because they bound how far its two streams drift apart.
* Numbers in the robot's JSON that do not fit the 32 bits they are read into.
* Restarts of the bridges as a whole: a bridge keeps nothing, so after one its
  service clients get no answer and a sequence under way is not taken up again.
  What a restart can harm is the client's ids, and it is modelled there.
* In the driver: velocities and points, which are copied, covariances, which are
  constants, the stamp of joint states, the stale-TF warning, and numbers: tf2's
  conversions between quaternions and angles are external, modelled by what the
  driver relies on, without their rounding and their case of a pitch of 90 degrees.
* Start-up: topics, frames and the launch file, which only pass values on.

Plan: restarts in the bridges' models, with what their service clients then see.
