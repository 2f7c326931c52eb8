# A TLA+ model of robot_localization

`robot_localization` is a ROS 2 package for state estimation: an EKF or UKF node
that fuses time-stamped sensor data into an estimate of a robot's pose and
velocity, a node that ties GPS to that estimate, a library that answers requests
for past and future states, and, in this fork, Python nodes that manage GPS
quality and anchor the map frame.

The numerics of the filters are standard. What is hard to get right is the order
in which things happen: measurements that arrive late, a history that must be cut
and replayed, requests and messages that come between two timer cycles, time
stamps of different clocks, and a transform that is computed once from data of
five sources. This directory models that, checks it with TLC, and proves the main
results with TLAPS.

## Inventory

| Component | Code | State | Operations | Model |
|---|---|---|---|---|
| State-estimation node | `src/ros_filter.cpp`, `measurement.hpp`, `ekf_node.cpp`, `ukf_node.cpp` | measurement queue, last time stamp per channel, command in force, time of the last set_pose, enabled, toggled on, last stamp published | sensor callbacks (odometry, IMU, pose, twist), velocity command, set_pose, enable, toggle, timer cycle | `RosFilter` (partly) |
| Lag smoothing | `src/ros_filter.cpp`, `filter_state.hpp` | measurement history, state history, count of restored measurements | save a state, revert, replay, expire | `RosFilter`, `InOrderFusion` |
| Filter base | `src/filter_base.cpp` | initialised, time, control, estimate | process a measurement, predict, gate, set the state | `FilterBase`, `KalmanFilter` (partly) |
| EKF and UKF | `src/ekf.cpp`, `src/ukf.cpp` | state, covariance, sigma points and whether they are fresh | predict, correct | `KalmanFilter` (one angular member) |
| Localization estimator | `src/robot_localization_estimator.cpp` | ring buffer of states | set a state, get a state, clear, resize | `Estimator` |
| navsat_transform | `src/navsat_transform.cpp` | data for the transform and whether each is there, the transform, latest fix and odometry, datum | fix, IMU, odometry, datum, declination, timer | `NavSatTransform`, `PlanarTransforms` (partly) |
| Localization listener | `src/ros_robot_localization_listener.cpp`, `robot_localization_listener_node.cpp` | the estimator, frame names, incomplete pairs, caches of ancestors | pair of messages, getState by seconds or by time, service | `Listener`, on top of `Estimator` |
| Map anchor | `scripts/map_anchor_node.py` | anchor, yaw, source, trust in RTK, yaw calibration | fix, GPS odometry, IMU, odometry, PCD pose, 1 Hz gate | `MapAnchor` (partly) |
| GPS manager | `scripts/gps_manager.py` | last estimate, GPS lost, time of the last reset | GPS odometry, estimate, set_pose request | `GpsManager` |
| GPS gates | `scripts/gps_quality_gate.py`, `gps_fix_gate.py` | last fix good, last course | fix, velocity | `GpsManager` (the decision about a fix) |
| Preparation of measurements | `src/ros_filter.cpp` 2551-3310 | previous and initial measurements (differential, relative) | preparePose, prepareTwist, prepareAcceleration | `Preparation` (partly) |
| Geodesy | `navsat_conversions.hpp` | none | floating-point formulas | not modelled |
| Utilities, diagnostics, adapters, launch files | | none that matters | | not modelled |

### How the parts interact

Each node is one process whose callbacks, services and timer run on one thread
(`rclcpp::spin` in `ekf_node.cpp` and `navsat_transform_node.cpp`), so that a
callback never interrupts another one; what interleaves is their order, against
each other, the clock and the world. Sensor callbacks of the state-estimation node
only put measurements in a queue; the timer folds them in and publishes
`odometry/filtered`. `navsat_transform` listens to that message, to fixes and to an
IMU, and publishes `odometry/gps`, which is again a pose-only input of the
state-estimation node. The listener feeds the published states to the estimator; it
spins its own node while it is constructed, and a thread of tf2 fills its buffer of
frames while it answers. A GPS gate drops fixes before `navsat_transform`, and the GPS
manager stands between that and the state-estimation node, whose `set_pose` it calls
without waiting; the map anchor consumes `odometry/gps` and publishes the frame `map`.

### What makes it hard

- Late measurements. With `smooth_lagged_data`, a measurement older than the filter
  makes it go back to a saved state and replay all since. Two histories, cut by
  different comparisons and expired by a time that moves with the replay, have to
  fit together at every moment, also at equal stamps, at the beginning, and when
  the history is too short.
- Stamps come from other clocks: they may be equal, late, or ahead.
- `set_pose`, enabling and toggling come between the arrival of a measurement and
  its use, or between two replays.
- The timer has two tests for "nothing to do" and one for publication, each on
  stamps that a replay can move back.
- A transform is made once, from data stored at different moments, by a product in
  which every order and every sign matters, and must survive a datum that comes
  before, between or after them.
- The UKF keeps its sigma points from a prediction to the next correction, and what
  comes between the two may change the state under them.
- A gate that rejects what contradicts the estimate, and an estimate that may be wrong.
- A ring buffer in which states are inserted in the middle when it is full.
- A tree of frames that becomes known bit by bit, remembered in caches that are never
  cleared; stamps cut to whole seconds; pairs that displace one another.
- A fix and the request to reset to it, on two ways that nobody synchronises, behind
  gates that must not take "unknown" for "exact".
- Poses and velocities of a sensor that sits off the origin and is turned, as
  changes since a message that may have been refused.
- An anchor that three sources of different worth may move, one of which lies about
  its worth, while the yaw it rests on is being calibrated.

All hazards, with their lines and the properties that watch them, are in
`PROJECT.json`; those with a note instead of a property are what the plan is for.

## Modules

| Module | What it is |
|---|---|
| `FilterBase` | `FilterBase` as its clients see it: initialised, time, control, estimate |
| `RosFilter` | the state-estimation node with its histories; extends `FilterBase` |
| `InOrderFusion` | the promise of lag smoothing |
| `MCRosFilter` | topics for TLC and the refinement mapping to `InOrderFusion` |
| `RosFilterProofs` | theorems about `RosFilter` and its lag smoothing; that it implements `InOrderFusion` |
| `Estimator` | the ring buffer of states |
| `PlanarTransforms`, `PlanarTransformsProofs` | rigid motions in quarter turns (what is used of tf2), and their algebra |
| `NavSatTransform`, `MCNavSatTransform`, `NavSatTransformProofs` | the GPS transform, its instance, its theorems |
| `Listener`, `MCListener`, `ListenerProofs` | the client library and its node; extends `Estimator`; a robot with an arm; theorems about both |
| `GpsManager`, `MCGpsManager`, `GpsManagerProofs` | receiver, gates, manager and filter in one; its instance, its theorems |
| `KalmanFilter`, `MCKalmanFilter`, `KalmanFilterProofs` | what the two filters make of a measurement; instance, theorems |
| `Preparation`, `MCPreparation`, `PreparationProofs` | what a message says once it is a measurement; extends `PlanarTransforms`; its instance, its theorems |
| `MapAnchor`, `MCMapAnchor`, `MapAnchorProofs` | the anchor of the map frame, its instance, its theorems |

### RosFilter and FilterBase

The estimate is represented by the sequence of measurements folded in, in their order,
so that "the estimate is the one of in-order processing" becomes "the sequence is
ordered by time and without repetition". Prediction does not change the sequence, only
the filter's time. The EKF's numbers are a function of what was folded in and predicted.
So are the UKF's, except after a set_pose or the fallback of `revertTo`, where sigma
points of another state may be used once (`KalmanFilter`, run `StalePoints`); after any
other revert the first measurement put back is later than the state, and a prediction
draws the points anew.

One callback is one action. `OdometryCallback` and `ImuCallback` enqueue the parts
of a message, each under its own channel, as `poseCallback`, `twistCallback` and
`accelerationCallback` do. Whether the preparation of a part succeeds is a choice;
its stamp is remembered in both cases, as in the code. The timer cycle is cut into
steps so that TLC sees its inside: a step opens it (and reverts, if it has to),
each measurement is a step, one ends the integration, one publishes. No callback
runs in between; the clock may advance. The priority queue is a set and its top
the earliest measurement; which of several with equal stamps comes first is not
determined by `Measurement::operator()`, so any does.

`revertTo` is translated with both of its comparisons: states are popped while
later than the *requested* time, measurements are put back if not before the time
of the *state* found; without such a state the oldest one is taken. That this
fallback happened is recorded in `fellBack`; that a replay began while a measurement with
an earlier command was in the queue, in `staleReplay`. Neither influences anything.

Not modelled: TF broadcast, diagnostics,
parameters, the jump-back of the clock (`reset_on_time_jump` has no effect in the
code), and `RosFilter::reset`, which has no caller.

### KalmanFilter

Both filters, for one measured member that is an angle: the yaw of a robot that turns
at a known rate. What is left of the algebra is what the control of the code acts on:
the innovation is wrapped, the gate divides it by the uncertainty of state and
measurement, the correction is a share of it, and the variance shrinks by it. Angles
are units of a turn, variances whole squares of a unit, and fractions are rounded up,
so that an uncertainty never becomes none by rounding. `kind` tells the EKF from the
UKF, which keeps its sigma points: they are represented by centre and spread, which for
points that lie symmetrically and a motion that is linear say all that a correction
uses. `Redraw` is `uncorrected_ = false`. A prediction draws them from the state before
the process noise is added, so the first correction after it works with a spread that
is smaller than the variance; the UKF takes off K P_zz K' with the P_zz of the points,
where the EKF uses the Joseph form. `overwritten` is an observer's: the state was
replaced while points were kept.

Sensors report late, at any age up to `MaxAge`; the timer predicts; `SetPose`, `Replay`
and an outlier may come at any moment, `MaxMishaps` times. The state that a replay brings
back is any state at all. `lag` is the filter's time, seen from now.

Abstracted: the other 14 members and their correlation, the Jacobian, the control term
and the dynamic process noise. The first measurement is restricted to a number and a
variance that is not negative, although the code takes whatever comes. A variance grows
up to `MaxVariance` and the filter's time falls behind up to `MaxLag`. Of a negative
variance (`Broken`, which only corrections with points of another state lead to) the
code takes a square root that does not exist; nothing after that is modelled.

### Estimator

`setState`'s three ways (newer than all, in between, lost) and the exact semantics
of a full `boost::circular_buffer`, for which the code relies on: `push_back`
overwrites the first element, `insert` at the very beginning of a full buffer is
ignored, elsewhere it drops the first, and `set_capacity` drops the last ones.
`received`, a history variable, holds what was set, or was held, since the buffer
was last cleared or resized.

### Listener

`ros_robot_localization_listener.cpp` and the node that offers it as a service. The
synchroniser of message_filters (exact time) sits on two inboxes of depth 1, in which a
newer message replaces an older one; a complete pair drops what is older, an incomplete
one waits, `QueueSize` stamps at most. `OdomAndAccelCallback` cuts the stamp to seconds
and adds a state to the `Estimator` that the module extends; `getState` is a step per lookup,
since tf2 goes on receiving on a thread of its own while a request waits. The tree of
frames is given by `Ancestors`, and where its frames are by `PoseAt`; what is known of it
is `tf`. `FindAncestor` searches what is known and fills the two static caches.
A lookup's time goes through an int, whose range the instance shrinks to a second
(`LastIntTick`); what overflows becomes any of `Overflows`. The node's service is up
before the listener exists: `Crash` is the null pointer that a request then meets, or
any request after a constructor whose estimator was not made.

Abstracted: covariances; the prediction to the requested time, taken as right (`at` is
the tick it is for); and poses, which are in quarter turns. `getState` does not look at
whether the estimator has a state, and neither does the estimator with a capacity of 0;
capacities here are positive. `Tick` waits for the filter to publish, so that silence is
a message that is not taken.

### GpsManager

The way of one fix, from the receiver to the filter, on a line: a gate (either script),
`navsat_transform`, the manager and the filter. Gate and `navsat_transform` are one step,
since neither acts on anything but the fix. Every topic holds one message, as the
subscriptions' queues do when a node is busy; requests of set_pose wait in order, up to
`MaxPending`, beyond which the service counts as unavailable. Stamps appear as what is
compared with them: `under` tells which request, if any, a fix is not newer than. The
filter is reduced to what it does to the position: it follows the robot, drifts while the
sky is blocked, comes closer to a fix or all the way, and jumps to a pose it is reset to.
A receiver's error is bounded by the variance it computes (`Spread`), whether the driver
reports it or not; under an open sky the variance is the best one. `map_anchor_node.py:105-108`
doubts that bound of real receivers; `RtkFixesAreAccurate` rests on it, `EstimateStaysOnSite`
and the map anchor's `FalseFixNeverDrags` do not.

Not modelled: headings, the text on `gps/quality`, the course from `fix_velocity`. No
launch file starts `gps_manager.py`, so that it is taken where its parameters put it.

### NavSatTransform

Poses live in the plane, in quarter turns and integer coordinates
(`PlanarTransforms`): enough to tell a product from the one in the other order and
an angle from its opposite, and exact. The robot moves at any moment. What a sensor
reports follows from where the robot is, from where the world frame really lies in
the grid (`TrueWorld`), and from how antenna and IMU are mounted; the node only sees
the reports. Frames become known to tf one by one. Variables have the names of the
members; `robot`, `TrueWorld`, `storedAt`, `fix.at`, `odomAt` and `offsetRemoved`
are what an observer knows and influence no step of the node. With `wait_for_datum`
and no datum parameter the constructor asks for a datum of latitude and longitude 0,
which is why `Init` allows the identity there.

Not modelled: `use_local_cartesian`, altitude, roll and pitch, covariances, the
broadcast of the transform, the services `toLL` and `fromLL` (which change
nothing), and a fix without status, which changes nothing but the frame's name.

### Preparation

`RosFilter` says when a measurement is folded in and takes what it says as given;
`Preparation` says what it says, for one device (an odometry source or an IMU), since
devices share nothing but the estimate. `trajectory` is what really happened; a message
reports one instant of it, at any later moment, in any order, twice or never.
`previousMeasurement`, `initialMeasurement` and `lastMessageTimes` are the members of
`RosFilter`; `Receive` is the three callbacks for the parts of one message, `Enqueued` what
`preparePose`, `prepareTwist` and `prepareAcceleration` make of them, kept apart by part.
Poses are rigid motions of the plane; gravity is seen from the side, in a plane of forward
and up. A velocity is kept as the displacement and the time it is divided by. `Estimate`
stands for the timer, which may change what the callbacks read of the estimate between any
two messages. Gravity is taken off accelerations only if the device is configured so
(`removeGravity`, line 2613), which by default it is not.

Not modelled: `two_d_mode`, covariances, quaternions that are invalid, roll and
pitch of poses. A quaternion or vector in the model is valid.

### MapAnchor

One action per subscription of `map_anchor_node.py`, and `Tick` for the time between
them, which is kept as ages. The robot moves on a line and keeps its heading, and a
yaw is 0 or 1 half turns: that is what the IMU of the vehicle was mounted off by, and
enough for a correction made with the wrong yaw to point the wrong way. A sample is
the truth plus an error from a small set, right, on the other side, or far off; which
kind it is, and what `rtk_recent` says of the newest fix, need not agree. What
depends on measured data is a choice: whether a sample completes a measurement of
`YawAutocal`, how far the variance-dependent gain creeps, and when `eval_convergence`
finds the correction steady. The smoothing of `th` in `on_odom` either leaves it or
takes it all the way to what the IMU says, and the latter only for a yaw the IMU keeps
saying, since it takes `yaw_tau`. `tYaw` and `evals` are an observer's: the yaw that
all of `t` was worked out with, and the last judgements of the gate.

Not modelled: `rtk_gate_m <= 0`, `yaw_autocal` off, the pose that is sent to the matcher
to start from, and the odometer that `YawAutocal` reads.

## What is checked

| Run | Question | Bounds |
|---|---|---|
| `Smoothing` | Is the replayed estimate the in-order one? Does the history support every replay that can come, does the node implement `InOrderFusion`, is the filter never ahead of the clock, do stamps that data led to go out in order, does the sensor timeout predict, and does what is due leave the queue? | a pose and a twist topic, 3 messages, clock 1..4, history 2, stamps up to 1 ahead, starts disabled |
| `Commanded` | Does the filter predict with the latest velocity command, through replays of measurements with older ones? | odometry and IMU (1 part each), 3 messages, 1 command, clock 1..4, history 2 |
| `Correcting` | Does a correction stay between estimate and measurement and never add to the uncertainty; does the estimate come back to the truth in spite of the gate? | 10 units a turn, gate of 2 sigmas, measurements off by 1, of variance -3 or 0, up to 1 late, variance up to 8, 1 mishap |
| `Estimating` | Is nothing lost but what must be, is the nearest state found? | capacities 0, 1, 3, times 0..3, 5 states |
| `Preparing` | Are the poses, motions, velocities and accelerations that are enqueued the robot's own, and the axes in use the right ones, in all modes and mountings, with gravity taken off and without? | 9 configurations, 3 instants, 3 messages, 1 set_pose, 2 estimates |
| `Listening` | Is what is answered true but for what is cut off the requested time and off the stamp of one state; is the first state of a second kept; is a velocity that of a rigid body; are only frames below the base answered? | 5 frames, 2 of which move, 3 ticks of half a second, 7 kinds of requests, 2 requests, buffers of 1 and 2 |
| `Resetting` | Is all that reaches the filter accurate, does the estimate stay on the site, one reset per loss, does the estimate recover? | field 0..4, 3 variances, cool-down 1 tick, 1 move, 2 drifts, 2 requests under way, both gates |
| `Anchoring` | Are yaws never mixed in the anchor, is trust earned, is a matcher's anchor left alone by worse sources, does the anchor settle, does convergence mean the right yaw? | 2 positions, samples right, 4 off or on the other side, with a gate of 1, 2 good samples for trust, 2 measurements for calibration, windows of 1 tick |
| `NavSat` | Is the transform the real one, the datum the origin, and does each fix go out once, at the right place? | 1 fix, 1 request, 2 declinations, mounted IMU and antenna, two poses with different headings |

Why these bounds are enough to be of interest. The smallest replay that goes wrong takes
three measurements (one to go back to, one to overtake, one late) and an expired history;
`Smoothing` has both, and `DoubleFusion` finds its violation inside the same bounds.
`Commanded` has both as well, and a command that comes before, between or after the
measurements. A clock that reaches `HistoryLength + 2` lets states and measurements expire
while others wait. `Estimating` fills, overfills and resizes a buffer of three. In `NavSat`
one fix suffices for a transform and for its message, neither pose is at the origin and one
does not face east; the proofs lift poses, mountings and counts to any value. In `Preparing`
three messages give two displacements in a row with one refused, late or repeated between
them, and the frames are turned by a quarter and a half, off the origin. The listener's
clock ends in the second second, so that stamps are cut to two values, an int overflows and
a buffer of one is overwritten. In `Resetting` the field is wider than the site by one on
either side, a drift exceeds the reset's threshold, and messages, losses and openings of the
sky are unbounded. In `Correcting` a turn has ten units, so that an outlier may be on the
other side and within the gate or not; time, measurements and predictions are unbounded. In
`Anchoring` the number of samples is unbounded; ages stop at the windows they are compared
with, streaks at the number needed, and an anchor that is right stays right within the gate
under any number of false samples.

`ReplayIsExact`, `HistoryIsReplayable` and `ImplementsInOrderFusion` hold as long as
`~fellBack`; the run `DoubleFusion` shows what happens else. The premises of
`ControlIsLatest` (`~staleReplay`), `TimeoutPredicts` (no measurement waits) and
`DataStampsIncrease` (what was published has the stamp of a measurement that it is made of)
are needed as well: without any one of them TLC finds the property violated inside the
bounds of its run, and what the node then does is described below. `CorrectionsStayBetween`
excludes states that were overwritten under kept points, which `StalePoints` shows to be
needed, and `EstimateConverges` behaviours in which that made a variance negative.

Type invariants are checked in `Estimating`; elsewhere they are proved (`RosFilter`,
`NavSatTransform`, `GpsManager`, `KalmanFilter`, `MapAnchor`) or were checked apart from the
runs.

### Fairness

`Smoothing`, `NavSat`, `Anchoring`, `Resetting` and `Correcting` check liveness. In the
first two, `WF_vars(Tick)`: time passes; `WF_vars(TimerStep)` and
`WF_vars(TransformCallback)`: the timers are periodic and the executor serves every ready
one, also when messages keep coming. There no callback is assumed to happen, no robot to
move, no frame to become known; the antecedents of the properties ask for what has to be
there. In `Anchoring`, `WF_vars(OnImu)`, `WF_vars(Odom)` and `WF_vars(Gps)`: IMU and
odometry are periodic, and `navsat_transform` sends a position as long as it gets fixes and
our yaw; `Gps` is enabled only once that yaw is published. In `Resetting` the receiver goes
on giving fixes that pass or not, and the callbacks and the timer of manager and filter are
served; nothing makes the sky open, nothing makes the estimate known to the manager. In
`Correcting`, time passes and one sensor goes on reporting the present; late measurements,
timer predictions and mishaps need not happen.

### Where code and documentation differ

Each is a run that ends in a counterexample; `PROJECT.json` has the quotations.

| Run | What happens |
|---|---|
| `DoubleFusion` | When no saved state is early enough, the replay starts from the oldest one and puts back the measurement that is already part of it. It happens at startup and after each set_pose, whatever the length of the history. |
| `KnownFrames` | A time of more than 2.1 s, in nanoseconds, does not fit the int it goes through, so that frames which move are looked up at another time and refused. |
| `StalePoints` | After a set_pose with an old stamp, a measurement from between that stamp and now corrects the new state with the UKF's sigma points of the old one. |

Met while modelling, without a run of their own:

- Measurements older than the filter's time save several states under one stamp
  (`ros_filter.cpp:690`: "only save the filter state once per unique timstamp"); a replay
  from the oldest of them loses the others' measurements (3398).
- `ros_filter.cpp:674-677`: the count of restored measurements runs over the first ones
  taken from the queue, and the late ones, which were not restored, are among them. The last
  one that was restored then does not put its own command in force, and the replay leaves an
  older one there until the next command comes. The comment (665-673) says that this is done
  only when "we are processing messages from the history". `ControlIsLatest` excludes it:
  a replay that begins with a measurement of an earlier command in the queue.
- `ros_filter.cpp:703`: the timeout is looked at only when the queue is empty, so that a
  measurement stamped ahead of the clock keeps the node from predicting until its time has
  come, although `sensor_timeout` is documented as "the inverse of the minimum frequency at
  which the filter will generate *new* output" (`doc/state_estimation_nodes.rst:33`). It is
  the second alternative of `TimeoutPredicts`.
- `ros_filter.cpp:2165`: `last_published_stamp_` is overwritten also when the estimate is
  withheld. A stamp that only a prediction led to is not reached again by a replay; the
  estimate with an earlier stamp is withheld, but the next one with the same stamp, or with
  one in between, goes out. The comment at the guard (2086-2091) says of a published stamp
  that is later "This should never happen", and `permit_corrected_publication` is documented
  to disable publishing a time again (`doc/state_estimation_nodes.rst:171`). It is what the
  premise of `DataStampsIncrease` leaves out.
- `ros_robot_localization_listener.cpp:192` and 540: the stamps of the states, and the time of
  a request that is given as `rclcpp::Time`, are cut to whole seconds, so that an answer is
  off by up to a second either way, and the later states of a second are not kept. The header
  promises the "state at the requested time" (`ros_robot_localization_listener.hpp:103`).
  `AnswersWereTrue` says what the two cuts leave, and nothing else.
- `ros_robot_localization_listener.cpp:167`: the constructor waits for a pair of messages, of
  which each half may be displaced by a newer message while the other one is taken; nothing
  in the code or its scheduling rules that out for ever, so no property says that it returns.
- `map_anchor_node.py:653`: a matcher pose that comes before the yaw is known lets the
  mode leave `INIT` without an anchor, and the bootstrap (0, 0) goes out as the matcher's
  starting point, against lines 650-652.
- `navsat_transform.cpp:568`: without the frames for the antenna's offset, the origin
  goes out as the robot's position; the message in 592 says that the offset is left in.
- `navsat_transform.cpp:632`: with `use_local_cartesian` the first fix is converted to the
  local grid and every later one to UTM.
- `robot_localization_listener_node.cpp:81`: a request that is served by the constructor's
  spinning dereferences a listener that does not exist yet.
- `ros_filter.cpp:2109-2116`: map to odom is made with the latest odom transform and
  stamped with the estimate's time.
- `gps_manager.py:139-141`: a reset sets the heading to that of the identity; its docstring
  (17, 24) promises what lines 85-87 restrict. `gps_quality_gate.py:129`: `fix_good` has no
  timeout.
- The first measurement is taken with whatever variance it has (`filter_base.cpp:238`),
  although the diagnostic of `ros_filter.cpp:2514-2521` says that a bad one is replaced.

## What is proved

For every value of the constants: any topics, flags, lengths and bounds, any
capacities, any poses and mountings. The assumptions are those stated with the
constants (`TopicsAssumption`, `FlagsAssumption`, `TransformsAssumption`, ...);
TLC evaluates them in the runs.

**`RosFilterProofs`.** `TypeCorrect`. `SetPoseForgets`: after a set_pose nothing stamped
before it comes back. Its argument goes through `Known`, all the measurements the node holds
anywhere, and a lemma by which a step only adds to it what a callback received.
`ChannelOrder` (inductive invariant `ChannelInv`: no measurement held is later than the last
stamp of its channel, and identities are given out in order). `FilterBehindClock`
(`ClockInv`: no saved state lies in the future either, since a revert takes its time).
`MeasurementsHaveOneHome`, from `ChannelInv`, which makes a new measurement differ from all
that are held, and from lemmas on sequences without repetitions. `MeasurementsFusedOnce`,
without smoothing.

Three theorems are about what a replay leaves behind, and hold with lag smoothing or
without. `PredictsWithLatestControl`: `ControlInv` says that, as long as no replay began
with an earlier command in the queue, whatever a replay goes on to restore is the latest
command. `StampsIncrease`: `StampInv` says that a stamp of a measurement, once published,
stays within reach of the filter. Either no saved state is from before it, or a measurement
and a state of that stamp are still in the histories (`Kept`), or one is due in the queue
while the cycle is on its way back to it (`OnTheWayBack`). So a cycle ends at that stamp or
after it, and the stamp kept for the guard is not before the one published. That holds also
after `fellBack`. `TimeoutIsPredicted`: `TimeoutInv` adds that a cycle which finds something in
the queue that is due folds something new in, since what a revert puts back is folded in
again before the cycle ends, along with the late measurement that it was made for.

Lag smoothing: `ReplayExact`, `HistoryReplayable` and `ImplementsPromise`, for any
topics, lags, stamps and lengths of the history. `HistoryIsReplayable` speaks of the time
between two cycles and is not inductive. `ReplayInv` holds in the middle of one, too:
measurements that share a stamp may have been folded in without a state saved yet
(`Pending`); every stamp in the measurement history that is later than some state has a
state of its own (`TimesHaveStates`), which is why expiry, cutting both histories at one
time, leaves no state whose successors are gone; and what a cycle goes on to fold in is
not before the filter's time (`QueueComesNext`), except after a set_pose or at the start,
when nothing else was folded in that could be out of order. A revert then takes out of
the estimate just what it puts back in the queue (`ReplayGoesBack`, `ReplayTakesOut`),
the loop folds it in again in the order of the stamps (`IntegratingFolds`,
`IntegratingInOrder`), and the refinement follows: what a revert takes out is due, so that
the mapping still counts it (`BeingFused`), and no step but a set_pose loses anything
(`FusingStep`). All of it holds as long as `~fellBack`.

**`ListenerProofs`.** Of the estimator: `EstimatorTypeCorrect`, `BufferStaysOrdered`,
`NothingElseIsLost`, `AnswersAreNearest` and `AnswersAreCalledRight`. An insertion
keeps the order because the place is the first whose state is later; a state leaves
a full buffer only from the front, where it is older than all others.

Of the listener: `ListenerTypeCorrect`, which rests on `PairInv`: whatever waits, in an
inbox or for its other half, is later than the last pair, so that stamps of pairs increase,
and there is never a state more than `MaxStates` allows for. A pair is one step of the
estimator (`PairIsSetState`), whose invariants are therefore at hand. `FirstsAreKept` adds
`FirstsInv`: the newest state is of the second of the last pair, so that a later pair of
that second is neither newer to the estimator nor before any of its states, and is lost.

`AnswersStayTrue`, `TwistStaysRigid` and `AnswersStayBelowBase` come out of `ListenerInv`,
whose parts say what a request relies on from one lookup to the next. `StampsInv`: a state's
time is its stamp cut to seconds, and the buffer is not empty once the names of the frames
are known, so that a prediction is late by what was cut off one stamp, and by nothing else
(`Predicted`, `CutOff`). `CacheInv`: a pair in a cache was an ancestor and a descendant when
it was found and still is, since nothing heard of the tree is forgotten; two frames are not
below each other (`OneWay`), so that the cache gives the answer that a search would
(`Found`). `QueryInv`: the pose of the world that was looked up is right for the time of the
request (`SeenAt`), and that world is not below the base, which a search in part of the tree
settles because the odometry's world is not below it and the two were connected
(`NotBelow`). The rest is rigid motion: a turned vector gets the turned velocity
(`SpinTurns`), and turning back by the frame's own yaw undoes its part of the sum
(`TwistOf`).

Of the constants this assumes that frames form a forest, that the world of the odometry is
not below the base (REP-105, by which the filter names its frames), that frames with nothing
that moves between them keep their distance, and that the bound `MaxStates` allows for one
state per tick.

**`NavSatTransformProofs`.** `NavSatTypeCorrect`; `TransformTrue`: a transform from
data of one place is the real one; `DatumAtOrigin`. `TransformIsTrue` alone is not
inductive. It needs `StoredIsSensed`: as long as there is no datum, each stored
datum is what its sensor said where `storedAt` says, with the IMU's mounting taken
off. The computation is then three lemmas of `PlanarTransformsProofs`: the heading's
corrections undo what the IMU is off by (`TurnBack`, `SameTurn`), the offset turned
by the heading takes the antenna to the robot (`OffsetComesOff`), and a product
loses a factor to its inverse (`Cancel`). For a datum it is `InverseTakesHome`.
`FixesAreSentOnce` and `MessagesTrue` rest on a second invariant, `SentInv`: what waits
to be sent is what the sensors said at `fix.at` and `odomAt`, and newer than what was
sent. That the transform and the offset then cancel is `ProductOfThree` (the product
is associative), `OffsetComesOff` and `InverseUndoes`.

**`GpsManagerProofs`.** `GpsTypeCorrect`, with two lemmas on what a request and its
service make of the messages under way. `StaysOnSite`: `SiteInv` says of every message
and request behind the gate that it is on the site; a fix only brings the estimate to a
place between it and the fix. `FixesAreAccurate`: `RtkInv` says where on the way a
variance is still the receiver's own and where it was compared with the threshold, and
needs `RtkAssumption`, that the threshold admits nothing less accurate than RTK.
`ResetsFollowLosses`: `LossInv`, that `gps_was_lost` implies a poor fix since the last
request.

**`KalmanFilterProofs`.** `KalmanTypeCorrect` and `CorrectionsAreSound`, for every size of
a turn, rate, noise, gate and claimed variance. The invariant `FilterInv` says of points
that are kept that they lie about the state and that their spread is between 0 and the
variance, unless the state was overwritten; then the gain is a share (`ShareBounds`: not
more than the whole), the reduction is not more than there is (`ReductionBounds`), and a
part of a wrapped innovation is itself its wrapped self (`WrapUnique`, `MoveStaysBetween`).

**`MapAnchorProofs`.** `AnchorTypeCorrect`. `AnchorsAreNotMixed` and
`MatcherKeepsTheAnchor`, from what a step of `on_gps` comes to (`GpsSteps`,
`GpsMovesAnchor`). `TrustHasToBeEarned`: `StreakInv` ties the streak to the judgements that
an observer keeps, and `JudgingKeepsStreak` is where a gap or a bad sample makes it start
again. `FalseFixesNeverDrag` says what the gate has to be set for (`ErrorsAreTold`): the
matcher is right within it, and a sample is right within it or off by more than twice of
it; an error between one and two gates would move an anchor at the edge of the gate.
`ConvergenceIsRight`: `CalibrationInv` says that th is off by just what the IMU is off by,
until the calibration takes both off, and that an old yaw of the IMU does not undo it.

**`PreparationProofs`.** `PreparationTypeCorrect`, and all of what a measurement says:
`PosesTrue`, `RelativeMotionTrue`, `DisplacementsSum`, `TwistError` and `GravityError`, for
any trajectory, setup, mounting and estimate. Every step either takes a message in, forgets
(set_pose), or leaves what was prepared alone (`StepKind`), and what a measurement says of
an instant never changes (`PastIsKept`). `RelativeMotionIsTrue` is not inductive: two
measurements have to have been made from the same first pose (`RelativeToFirst`). Neither is
`DisplacementsAddUp`: `PreviousIsLast` says that `previous_measurements_` and
`last_message_times_` are those of the last pose prepared, which holds because a frame, once
known, stays so, although the time is also written when no pose can be prepared. `PosesTrue`
and `GravityError` follow from the message alone: which axes the data show along is a matter
of the mounting's yaw, and without removal the whole of gravity is left. The rest is
the algebra in `PlanarTransformsProofs`: transforms are a group (`MultAssociates`,
`InverseLeft`, `InverseRight`), so that what lies between two poses does not depend on the
mounting (`CommonFactor`, `MotionBetween`), and rotations add up (`RotateTwice`,
`RotateSums`).

**Model-checked only.** The liveness properties `DueMeasurementsLeave`, `FixesAreSent`,
`EventuallyAnchored`, `EstimateRecovers` and `EstimateConverges`,
which are out of the prover's reach: they rest on fairness. Every invariant, action
property and refinement that the runs check is a theorem as well.

## Not modelled

Geodetic formulas (closed forms in floating point); diagnostics, which influence nothing;
the adapter scripts (`wheel_odom_adapter.py`, `current_speed_to_twist.py`,
`scaled_nhc_twist.py`), one message in and one out; launch files and parameters. Within
modelled parts: the broadcast of transforms by two filters, the jump-back of the clock
(nothing reacts to it), `use_local_cartesian`, `two_d_mode`, covariances of prepared
measurements, the filters' other members and their correlation, the course heading of
`gps_quality_gate.py`, and the warm start of the matcher.

## Plan

Done, in this order: `FilterBase` and `RosFilter`, because everything else consumes
what that node publishes; `InOrderFusion`; `Estimator`; `NavSatTransform`; `Preparation`;
`MapAnchor`; `Listener`; `GpsManager`; `KalmanFilter`.

Next: two filters that broadcast map to odom and odom to base, each with the other's
transform; a clock that jumps back; `use_local_cartesian` and `two_d_mode`; two
correlated members in `KalmanFilter`.

## Running

    tlc -workers 2 -config Smoothing.cfg MCRosFilter.tla
    tlc -workers 2 -config Estimating.cfg Estimator.tla
    tlc -workers 2 -config NavSat.cfg MCNavSatTransform.tla
    tlc -workers 2 -config Correcting.cfg MCKalmanFilter.tla
    tlapm RosFilterProofs.tla
    tlapm PreparationProofs.tla
    tlapm ListenerProofs.tla

Module and configuration of each run are in `PROJECT.json`. Definitions commented
as `mutant` are altered forms of the one they precede, each with a plausible slip;
substituting one must make the property named in `PROJECT.json` fail.
