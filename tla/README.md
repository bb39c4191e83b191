# A TLA+ model of OKVIS2

OKVIS2 is a visual-inertial SLAM system: images and IMU samples go in, a
trajectory, landmarks and loop closures come out. Most of its arithmetic is
floating-point geometry. What this project models is everything around the
arithmetic that has to be right for it to work on the right data: the queues
between the threads, the order in which measurements are consumed, the two
graphs of which one is optimised in the background, the flags that say who owns
it, the bookkeeping that brings the two together again, the window of frames
that are kept, what the keypoints of a frame observe, and what a subscriber
makes of the results.

Contents: [the system](#the-system), [modules](#modules), [runs](#runs),
[bounds](#bounds), [fairness](#fairness), [proofs](#proofs),
[findings](#findings), [not modelled](#not-modelled), [plan](#plan).
`PROJECT.json` lists components, runs, mutants, the lines every definition
stands for, findings and hazards in machine-readable form.

## The system

### Components, their state, operations and duties

**Threadsafe queue** (`threadsafe/ThreadsafeQueue.hpp`). State: a `std::queue`,
a mutex, one condition for "not empty" and one for "an element was popped", an
atomic shutdown flag. Operations: four pushes, five ways to take or look, two
sizes, `Shutdown`, `Resume`. Hard: blocking callers re-test after waiting and
the flag is used without the mutex. Duty: FIFO, no more than `max_queue_size`
values, no wake-up lost, blocked calls end.

**ThreadedSlam** (`ThreadedSlam.cpp`). Owns the queues, the current IMU deque,
the last optimised state and all threads: the sensor callbacks (`addImages`,
`addImuMeasurement`), the frame thread (`processFrame`, called by the
application), one realtime optimisation thread per frame
(`optimisePublishMarginalise`), the full-graph optimisation thread, the
publishing and the visualisation thread. Hard: images are copied first and
popped later, six early returns, back-pressure in blocking mode and drops in
non-blocking mode, the shutdown sequence. Duty: every image is processed once
and in order or reported as dropped, IMU samples cover every propagation, the
estimator has one user at a time, a data set plays to its end, `stopThreading`
drains and joins.

**ViSlamBackend** (`ViSlamBackend.cpp`). Keeps `realtimeGraph_` (small, changed
per frame) and `fullGraph_` (everything, optimised in the background after a
loop closure), the window of IMU frames, keyframes and loop-closure frames, and
three atomic flags. While the full graph is away, writes go to the realtime
graph and are remembered (`addStatesBacklog_`, `eliminateStates_`,
`touchedStates_`, `touchedLandmarks_`); `synchroniseRealtimeAndFullGraph`
replays them. Hard: there is no lock, two flags are read one after the other,
some twenty operations have a direct and a deferred branch. Duty: both graphs
agree whenever nothing is deferred, nobody touches the full graph while it is
away, nothing deferred is lost.

**ViGraph, ViGraphEstimator** (`ViGraph.cpp`, `ViGraphEstimator.cpp`). One
graph: states, landmarks, observations, pose-graph links, and the conversion of
observations to links along a maximum spanning tree (`MstGraph.hpp`) and back.
Duty: observations refer to landmarks that exist, ids are not confused,
conversion and re-expansion are inverse enough for loop closures.

**IMU error term** (`ImuError.cpp`). The measurements between two states and
their preintegration; grows when the state after it is eliminated. Duty: every
interval between two measurements counts once, the first and the last in part.

**Frontend** (`Frontend.cpp`). Detects, matches, triangulates, recognises
places, classifies keypoints in threads of their own, and calls the backend. A
keypoint's landmark is kept twice, in the `MultiFrame` and in the graph. Duty:
no keypoint is observed twice, both records agree where both are read, nothing
remembers a frame that is gone.

**Trajectory and Propagator** (`ViInterface.cpp`). What a subscriber keeps:
keyframe states, other states relative to a keyframe, a running IMU propagation
from the newest one. Duty: every published state can be asked for and follows
its keyframe; the prediction uses every measurement once.

**ROS2 Publisher** (`Publisher.cpp`). Called by the publishing thread with every
publication and by the IMU subscription with every measurement; both share a
trajectory under a flag. Duty: the path shown is the present estimate, although
only the changed part is sent again.

**Data in and out.** `DatasetReader` replays files in one thread and
synchronises groups of cameras; `RpgDatasetReader` and `RosbagReader` do the
same for other formats, `Realsense` delivers live data from several threads;
`DatasetWriter` and `TrajectoryOutput` consume data with queues of their own.

**The rest.** Other ceres error terms, camera models, kinematics, time, timing,
parameters, visualisation, ROS2 nodes, applications.

### How they interact

    DatasetReader
    or sensors --addImages/addImuMeasurement--> queues --processFrame--> Frontend
                                                           |               |
                                 launches per frame        v               v
    Publisher  <--callback-- publishing <--queue-- realtime opt.   ViSlamBackend
    (Trajectory)                                           |            rt | full
                                 launches per loop closure v               |
                                                  full-graph optimisation -+

`processFrame` joins the previous realtime optimisation before it matches,
launches the next one, and then the full-graph thread if the backend asks for
it. The realtime thread imports the result of the full-graph thread when it
finds the flags `isLoopClosureAvailable_ && !isLoopClosing_`.

## Modules

| module | models | proved about in |
| --- | --- | --- |
| `ThreadsafeQueue` | the queue at the grain of its mutex and conditions | `ThreadsafeQueue_proofs` |
| `BoundedFifo` | what the queue promises: the abstract specification | |
| `MeasurementPipeline` | measurements through `ThreadedSlam`, start to stop | `MeasurementPipeline_proofs` |
| `LoopClosureThreads` | the three threads, the flags, the deferred writes | `LoopClosureThreads_proofs` |
| `MstGraph` | Kruskal's algorithm, and a reference for its result: operators | |
| `LandmarkGraph` | landmarks, observations and pose-graph links of one graph: operators | `LandmarkGraph_proofs` |
| `GraphSync` | two of these graphs, every operation, the import | `GraphSync_proofs` |
| `Frontend` | one of these graphs and the multi-frames, from matching to clean-up | `Frontend_proofs` |
| `ImuPreintegration` | the IMU error term, and a reference for its integral: operators | `FrameWindow_proofs` |
| `FrameWindow` | the frames' way through the windows, what is fixed, moved, imported, announced; uses the IMU error terms | `FrameWindow_proofs` |
| `Trajectory` | the subscriber's trajectory and its propagation: operators | `Endpoints_proofs` |
| `Publisher` | the publication queue, its two callers and the IMU thread on one trajectory | `Endpoints_proofs` |
| `DatasetReader` | the merging of images, depth images and IMU measurements | `Endpoints_proofs` |

The `MC...` modules instantiate them for TLC. A component that several others
need is a module of operators on a record (`LandmarkGraph`, `ImuPreintegration`,
`Trajectory`), which the modules with the variables extend. `Endpoints_proofs` is
about the two ends of the system, where data comes in (`DatasetReader`) and where
results are shown (`Publisher`); they share no variable, only the lemmas on
least and greatest elements, which every module of proofs that needs them states
for itself.

**ThreadsafeQueue.** Producers and consumers are threads with a place `pc` and
an operation `op`. The code between lock and unlock is one step; the unlocked
test of `shutdown_`, the flag write and the two broadcasts of `Shutdown` are
steps of their own; a signal wakes any one sleeper of that condition, spurious
wake-ups happen. `MCThreadsafeQueue!ImplementsFifo` maps it to `BoundedFifo`:
`queue_` is the FIFO, a producer inside `PushBlockingIfFull` is an outstanding
offer, a consumer inside `PopBlocking` an outstanding request; the loops,
conditions and retries are stuttering steps. `Size`, `Empty`,
`getCopyOfFront/Back` change nothing and are not actions.

**MeasurementPipeline.** Relies on the queue's operations being atomic, which
the refinement justifies. The places of the frame thread follow `processFrame`
line by line: `start`, `copy`, `tooOld`, `checkBack`, `collect` (one IMU sample
per step), `detect`, `joinOpt`, `match`, `joinIdle`, `returned`, and
`stopThreading` after that: `final` where the full-graph thread is joined and its
result imported, `finalCall` and `finalDone` before and after it calls
`optimisedGraphCallback_` itself, with the newest state, which the publishing
thread may have published already or still have in hand. The data-set reader
is one thread that waits (`blocking`), live sensors are two that do not. An
image is its time stamp, an IMU sample arrives at every instant. How many
keypoints or matches an image has is a free choice. `handled`, `tooOld`,
`reported`, `delivered` (by the publishing thread) and `repeated` (by the
stopping thread) are history variables. The failure of `addStates`
(`processFrame` line 518) cannot happen: both of its return values are true by
construction of the id. In shutting down the queues, the model lets the
publishing thread notice; that it can miss the wake-up is `queue_shutdown_race`.

**LoopClosureThreads.** Every read and write of one of the three flags is a
step, since they are separate atomics read one after the other. The content of
a graph is the set of its states and a version number per landmark; a write is
a job that goes through `readClosing`, `readAvailable` and then either
`direct` or `deferred`. Assertions of the code that throw become `failed`.
`PromptLaunch` says that the realtime optimisation of a frame outlasts the
launch of the full-graph thread in the same frame. The code does not enforce
this: `processFrame` starts the realtime thread first (line 552) and the
full-graph thread last (line 562), and only the latter raises `isLoopClosing_`.
In practice tens of milliseconds of optimisation lie in between. The properties
are checked under `PromptLaunch`. Without it `FullGraphExclusive`,
`StatesAccounted` and `PendingAnnounced` all fail: `addStates` of the next frame
writes the full graph while it is being optimised, and the import of one result
can erase the announcement of the next.

**GraphSync.** An operation is one step here, `deferring` stands for
`isLoopClosing_ || isLoopClosureAvailable_`. Positions of landmarks are
abstracted to the point of the scene a landmark stands for, so that the reuse
of an id is visible. `Both` is the direct branch, `Touch` the deferred one.
Merging of several landmarks is a sequence of `MergeLandmark`. Which keyframe
leaves is a free choice (in the code the one that shares least with the current
ones); what it is linked to is computed.
`recognisable` is there because place recognition (`Frontend.cpp:301`) uses only
frames that `convertToPoseGraphMst` gave landmarks (`ViSlamBackend.cpp:286`).

**MstGraph, LandmarkGraph.** A leaving keyframe is linked to its neighbours in
the spanning tree of greatest weight over the frame it shares most with and the
frames that are linked already (`FramesToConsider`, `BuildMst`, `Neighbours`),
and to the newest of them if it is the oldest. `KruskalMst` abstracts parents
and ranks to the sets they stand for. `MCGraphSync` assumes, which TLC evaluates,
that for every graph of four nodes it returns one of the lightest spanning
forests.

**Frontend.** `pc` follows `dataAssociationAndInitialization`: matching against
initialised and uninitialised landmarks, outliers of the RANSAC, motion stereo
against older frames, the keyframe decision, place recognition with the loop
closure and its merging of landmarks, the second decision, the place-recognition
database and the classification threads, stereo, removal of outliers, clean-up.
A matching loop is a step per keypoint in the order of the code; which
descriptors match, which rays triangulate and who is an outlier is free. The
landmark ids in the multi-frame (`slot`) are kept beside the observations: the
expansion of links never calls `setLandmarkId`, so they do come apart in
pose-graph frames. Stereo matching takes the pairs of overlapping cameras one
after the other, as its two loops do (`StereoPairs`); which pairs these are is a
constant. Between two frames the backend's `applyStrategy` keeps,
eliminates, converts and expands frames.

**FrameWindow.** The realtime thread goes through the phases of a frame
(`phase`): `addStates`, `attemptLoopClosure`, `setKeyframe`,
`optimiseRealtimeGraph`, `synchroniseRealtimeAndFullGraph`, the publication,
`applyStrategy` with elimination of IMU frames, conversion, freezing and
expansion, and `stopThreading` with `doFinalBa`. The full-graph optimisation
starts, and ends when it likes. Poses are abstracted to two sets: `differ`, the
states whose pose may differ in the two graphs, and `changed`, those the
subscriber has not been told of. `covisible` is a fixed relation between frames.
The flags change as they do in `LoopClosureThreads`, one phase at a time.

**ImuPreintegration.** Rates are numbers, the integral is the trapezoid sum of
the code; rotation, bias and covariance ride on the same loop. `ExactIntegral`
is the reference: the signal between two measurements is a straight line.
`FrameWindow` keeps such an error term for each state of each graph. Numbers are
integers here: `ImuAssumption` chooses the units so fine that the straight lines
have whole values, so that the interpolation loses nothing to rounding, which in
the code is that of a double. `TimesAssumption` and `ImuCoverage` are what
`processFrame` sees to: it drops an image that is older than the first
measurement and waits for measurements `Overlap` past the image.

**Trajectory, Publisher.** The pose of a keyframe is the number of the
publication that moved it last, so that a relative pose which was composed with
an outdated keyframe is visible. `trajectoryLocked_` is tested in one step and
set in the next; when two threads have passed the test at once their accesses
race, the behaviour is undefined, and the model stops (`torn`). A lost
publication is kept in `lost`. The properties are about behaviours up to either.
The loop that feeds the measurements which waited (`Fed`) is a recursive
function over the stamps.

**DatasetReader.** An image is its time; the turn of `processing` is split where
it calls back. Reading past the end of a file list is the place `undefined`. The
starting delay is in `MeasurementPipeline`, the counter for the progress bar is
left out.

## Runs

Every property below has a mutant: a plausible slip in one definition of the
model that makes TLC report that property, so none holds by the shape of the
model. The mutated definitions stand before the originals, marked as slips or
mutants.

| run | result | shows |
| --- | --- | --- |
| `queue_blocking` | holds | two producers and two consumers, blocking: size bound, no lost wake-up on either condition, pushes return, and the refinement to `BoundedFifo` with its fairness |
| `queue_all` | holds | all operations mixed, `Shutdown` and `Resume` at any moment: types, and delivery in order, once, only the oldest dropped |
| `queue_shutdown_race` | violated | `ShutdownEndsCalls`: a caller can sleep through `Shutdown` |
| `pipeline` | holds | both modes from the first sample to `stopped`: `PopReady`, `LossReported`, `PropagationCovered`, `EstimatorExclusive`, `PublishedInOrder` by the publishing thread, `FinalNewest` for the callback of `stopThreading`, `AllProcessed`, `Completes` |
| `pipeline_start_delay` | violated | `Completes` if the reader has a starting delay |
| `loop_closure_prompt` | holds | states and landmarks accounted for, deferred work announced, full graph never shared, no assertion fails, the map complete at the end, every loop closure imported |
| `graph_sync` | holds | `GraphsAgree`, `DifferencesRemembered`, `ObservationsBacked` over all operations |
| `graph_sync_cleaned_apart` | violated | `CleanedConsistently` when an unconnected keyframe leaves during a loop closure |
| `frame_window` | holds | both graphs have the same poses whenever nothing is deferred (`PosesAgree`); a loop that is being optimised is free to move, an earlier one it meets included (`LoopsStayVariable`); whatever moved was announced (`ChangesAnnounced`); a frame is in one window (`WindowPartition`); IMU errors stand for the whole time between their states (`ImuLinksExact`); what is fixed is the oldest (`FixedAreOldest`); every published frame can be asked for (`TrajectoryComplete`); no exception (`NoAssertionFails`) |
| `frontend` | holds | no call of the frontend meets an assertion of the backend (`NoAssertionFails`), multi-frames and graph agree in the IMU window (`SlotsFollowGraph`), database and classification threads refer to frames that exist (`RememberedFramesKept`) |
| `publisher` | holds | the path shown follows every correction (`PathCurrent`), predictions use each measurement once (`PredictionExact`), the callback returns unless a publication was lost (`CallbackReturns`) |
| `dataset_reader` | holds | `Synchronised`: delivered frames are complete, within the tolerance, in order, with their IMU measurements; an image of a synchronised camera is given up only if it has no counterpart |

`TypeOK` of `MeasurementPipeline` is proved (`TypeCorrect`); that of
`LoopClosureThreads`, `FrameWindow` and `Frontend` states the types of their
variables for the reader. They are not part of the runs. All runs end in
at most two or three minutes.

## Bounds

- Queue: 2 + 2 threads are the least for a wake-up to reach the wrong thread;
  `MaxQueueSize` 2 (blocking) lets a slot be free while values are there; 3
  pushes per producer go once round a full queue.
- Pipeline: five images, of which the first is too old for the IMU samples and
  the last has too few after it, at distances 2, 1, 1 and 2; nine samples. The
  camera queue has its real sizes (1 blocking, 2 live). `PublicationCap` is 1
  instead of 3, so that it overflows. `ImuCap` is as large as the stream: in
  the program it is 500 samples (2.5 s at 200 Hz), and when live sensors fill
  it samples are lost and `PropagationCovered` fails; when a data set fills it
  the reader never continues (both are listed as hazards).
- LoopClosureThreads: six frames with a window of two give two loop closures
  with states added and eliminated while each is running; one landmark
  suffices, as the properties speak of landmarks one by one.
- GraphSync: three frames with one keypoint each, two ids and two points, two
  deferred operations: links between two frames, a landmark shared by all
  three, a merge, a removal and re-expansion.
- FrameWindow: eight frames, two keyframes, one loop-closure frame, one IMU
  frame, every pose-graph frame old enough to be frozen as soon as `MinDeltaT`
  has passed. Two patterns of covisibility: a camera that goes round (three and
  six frames back), and a chain with a shortcut (one and five). Two loop
  closures, so that the second meets the first; at most two frames while the
  full graph is away (`MaxBacklog`), one of them added and eliminated. A loop is
  closed only after something was frozen (`EarlyClosures` is false): see below.
- Frontend: five frames, three cameras of which every two overlap, six keypoints
  (three in the first frame, one in the second, two in the fifth, none in the
  others), two landmark ids, so that ids are used again; keyframes need four
  frames to start up, as in the code. This is enough for two landmarks with two
  observers each before the loop closure, which then remembers two pairs with
  the same old landmark: were the merging not to follow the chain of
  replacements, `NoAssertionFails` would be violated. It is also enough for a
  landmark to be cleaned while a frame that observed it is in the pose graph, so
  that the slots are out of date when that frame is expanded.
- Publisher: four states, the queue of three of the code, a segment of two
  states instead of 1000, an IMU measurement per state and two more. At most one
  measurement in a row finds the trajectory locked, fewer than the overlap of
  the frames: drawing takes milliseconds. The last publication is made when the
  publishing thread is out of its callback, because `stopThreading` has waited
  for the full-graph optimisation before.
- DatasetReader: three cameras of which two are synchronised, images at any of
  five instants, a tolerance of one instant, with depth images of none, of a
  synchronised or of the other camera: every such recording.

Deadlock is checked except in `GraphSync`, `FrameWindow`, `Frontend` and
`Publisher`, whose bounds stop them.

## Fairness

- Queue: weak fairness of every step inside a call (a thread is scheduled and
  mutexes are granted), consumers that call again (they are loops in the code);
  none for spurious wake-ups, for `Shutdown`, or for starting a push.
- Pipeline: weak fairness of the reader, of the frame thread together with the
  application loop (the application calls `processFrame` until it calls
  `stopThreading`), of the optimisation and of the publishing thread. None for
  live sensors.
- LoopClosureThreads: weak fairness of the three threads and of
  `stopThreading`, which every application calls at its end.
- Publisher: weak fairness of the threads' steps, strong fairness of the test of
  `trajectoryLocked_` by the publishing thread, which tests all the time while
  the IMU thread holds the flag for moments. None for sensors and estimator.

## Proofs

For every value of the constants that their assumptions allow: finite disjoint
sets of threads, positive sizes, image times that increase, finitely many frames
that are numbers, IMU measurements that cover the frames. An invariant that a run
checks is seldom inductive; the tables name the inductive one that implies it and
say why it is needed. Types are part of it where the argument needs them.

**ThreadsafeQueue**

| theorem | says | argument |
| --- | --- | --- |
| `TypeCorrect` | `[]TypeOK` | inductive as it stands; it includes on which condition a thread may sleep |
| `SizeNeverExceeded` | `[]SizeBounded` if all pushes are bounded | needs that only operations in `PushOps` are called (`OpsCalled`), the code's re-test of the size after the wait |
| `EmptyWakeupNeverLost` | `[]NoLostEmptyWakeup` without `getCopyOfFrontBlocking` | each push wakes one sleeper, each pop uses up at most one woken consumer; cardinality lemmas `CountGrows`, `CountShrinks` |
| `FullWakeupNeverLost` | `[]NoLostFullWakeup` without `PopNonBlocking` and `Resume` | the same for producers, counting those on their way back to the test |
| `DeliveredAlways` | `[]DeliveredInOrder` for every mix of operations | `Delivered`: the values of a producer in the queue are one run of consecutive numbers up to the last it pushed, which starts after the last one gone; `RunAppend` and `RunTail` carry that over a push and a pop |
| `QueueImplementsFifo` | `Spec => Fifo!FifoSafety` under `BoundedUse` | a step of the queue is a step of `BoundedFifo` or leaves its variables alone; who is inside a call changes only at its first and last step (`CallerLeaves`) |

`BoundedUse`: the blocking or the dropping push, `PopBlocking` and
`getCopyOfFrontBlocking`, and no `Resume`. An unbounded push and a pop that does
not wait are no steps of the FIFO, which promises neither.

**LoopClosureThreads**

| theorem | says | argument |
| --- | --- | --- |
| `DisagreementMarked` | `[]NothingForgotten` under every schedule | `MarkingInv`: a landmark that differs is marked, or in the hand of the worker that wrote it last; `AloneInv`: the two workers never write at once, because the frame thread joins before it matches |
| `FullGraphNeverShared` | `[]FullGraphExclusive` | `ExclusionInv`: while `isLoopClosing_` is set no worker is past its test of it; under a prompt launch the frame thread is in its next `join` until then |
| `DeferredAnnounced` | `[]PendingAnnounced` | `AnnouncedInv`: what is deferred, or about to be, finds one of the two flags set, and a direct write finds `isLoopClosureAvailable_` clear; `StopInv`: where the frame thread imports, the others have ended |
| `NoStateLost` | `[]StatesAccounted` | `MergeInv`: in the middle of a write too, the realtime states are the full graph's with the backlog, without the pending eliminations, up to the job in hand (`Accounted`) |
| `NoAssertion` | `[]NoAssertionFails` | a part of `MergeInv`: every assertion speaks of flags or states that `AnnouncedInv` and `Accounted` determine |
| `FinalMapHasAll` | `[]FinalMapComplete` | at `stopped` nothing is pending, so `Accounted` says that the states are equal and `MarkingInv` that the landmarks are |

All but the first under `PromptLaunch`, without which they fail (see
[modules](#modules)).

**MeasurementPipeline**

| theorem | says | argument |
| --- | --- | --- |
| `TypeCorrect` | `[]TypeOK`, the sizes of the three queues included | one invariant per group of state; a blocking reader has an image left to read, `processFrame` has one in hand (`ReaderSupplied`, `ProcessSupplied`) |
| `EstimatorNeverShared` | `[]EstimatorExclusive` | `EstimatorInv`: no optimisation exists at all at the matcher and at the final import; only `Match` launches one, and leaves |
| `PopNeverWaits` | `[]PopReady` | inductive with the queue's type: a blocking reader waits for an empty queue, a dropping push leaves a non-empty one |
| `ImagesAccounted` | `[]LossReported` | `AccountInv`: the queue, the copied image and the images to come all lie beyond everything handled or given up, and the copied image is not after the front; so the count survives a pop of another image than the copied one |
| `PublicationsInOrder` | `[]PublishedInOrder`, which is about the publishing thread | `PublishInv`: what it delivered, what it has in hand, the queue, the image being optimised and the image being matched form one increasing sequence of handled images |
| `FinalIsNewest` | `[]FinalNewest` | `NewestInv`: once there is a state, it is the last one handled, and from its optimisation on it is delivered, in hand or queued, as a full queue drops older ones; with the queues shut nothing follows but what is in hand |
| `CoveredWithoutDrops` | `Spec /\ [][RoomForImu]_vars => []PropagationCovered` | `CoverInv`: the deque and the queue hold consecutive samples (`RunInv`), which begin before the copied image (`FrontInv`) and before the last one handled (`StatesInv`) |
| `DrainedAtTheEnd` | `[]AllProcessed` under `NoStartDelay` | `DrainInv`: behind a blocking reader an image is queued after the samples past it, so that a `FALSE` of `processFrame` at the end means an empty queue |

`RoomForImu`: no sample arrives at a full queue, which drops the oldest one. The
code has 500 places for 200 samples a second and no other protection.
`NoStartDelay`: the samples begin early enough for the first image that is read,
which `pipeline_start_delay` shows to be necessary.

**GraphSync** (with `LandmarkGraph_proofs`: each operation on a graph keeps it
well formed, that is, what is observed or linked exists)

| theorem | says | argument |
| --- | --- | --- |
| `AlwaysSynched` | `[]GraphsAgree` | `SyncIInv`, which is the three properties of the run with the types: an operation does the same to two graphs that are equal (`OperationAgrees`) |
| `NothingOverlooked` | `[]DifferencesRemembered` | while deferred it touches whatever it changes (`OperationRemembers`), so the import restores it |
| `NothingDangling` | `[]ObservationsBacked` | the expansion of links brings back the landmarks they observe (`ExpansionPoint`) |

All under `Covisible`: a keyframe that leaves while writes are deferred shares a
landmark with another one. Otherwise the code's clean-up throws, which
`graph_sync_cleaned_apart` shows.

**FrameWindow**

| theorem | says | argument |
| --- | --- | --- |
| `WindowPartitioned` | `[]WindowPartition` | `WindowInv`: conversion, expansion, elimination and loop closure move frames between disjoint sets, newest among the IMU frames |
| `LoopsVariable` | `[]LoopsStayVariable` | `LoopInv`: no state of a closed loop has an id past the start of that loop, and in the full graph nothing is fixed after the id of a loop that is being closed |
| `AllAnnounced` | `[]ChangesAnnounced` | `ChangeInv`: what was moved is among the updates the next publication carries |
| `PosesTakenOver` | `[]PosesAgree` (a) | `DifferInv`: poses differ only in states the full graph has free, and only while it is away; the import copies those (`DifferIsCopied`) |
| `FixedOldest` | `[]FixedAreOldest` (a) | `FreezeInv`: the realtime graph has the states up to `lastFreeze_` fixed; `FullFixedInv`: the full graph a first part of them |
| `AssertionsHold` | `[]NoAssertionFails` (a, b) | `KeyframeInv`: a keyframe is left, because the first frames are keyframes and `NumKeyframes` of them are kept; `SoundStep` excludes the exceptions one by one |
| `AssertionsHoldIfPrompt` | `[]NoAssertionFails` (a), if `MaxBacklog <= 1` | `LoopFramesInv`: see below |
| `AllFramesKnown` | `[]TrajectoryComplete` (b) | a frame that is no keyframe finds one to refer to (`HasCandidate`) |
| `AllFramesKnownIfPrompt` | `[]TrajectoryComplete`, if `MaxBacklog <= 1` | `LoopFramesInv` |
| `ImuErrorsExact` | `[]ImuLinksExact` | `LinksInv`: in each graph the errors form a chain over its states (`Chained`), each made of consecutive measurements that span its states (`LinkOf`); the first state stays (`FirstInv`), and a state that waits for the import follows one that is there or waits too (`WaitingInv`) |

`CoreInv` joins `FlagInv`, `StatesInv`, `FreezeInv`, `WindowInv`, `LoopInv` and
`ChangeInv`; the last step of `stopThreading` (`doFinalBa`) ends the windows.
Two hypotheses are needed. (a) `~EarlyClosures`: no loop is closed before
anything was frozen, as otherwise the import throws. (b) `KeyframeLeft`, in
every state: when a frame is published or eliminated, some keyframe belongs to
no loop that is being closed. The code does not ensure it; it depends on how
long the full-graph optimisation takes. It holds in every reachable state of the
run, where two keyframes are kept and at most two frames come meanwhile; with
one keyframe those two frames break it, with the exception that follows from it
(see [findings](#findings)).

With at most one frame (`MaxBacklog <= 1`) it is proved, for any sizes of the
windows (`KeyframeLeftIfPrompt`), so that (b) goes from both theorems
(`AssertionsHoldIfPrompt`, `AllFramesKnownIfPrompt`). The invariant is
`LoopFramesInv`, which says how far the keyframes have been used up by the
number of frames that wait: the frames of the loop are no keyframes until the
frame that closed it expands the window at its end; the next frame still finds
the keyframe that was left then, and is the first to convert it; the one after
that is let in only once the optimisation is over, and imports the result
before it needs a keyframe.

`ImuErrorsExact` needs neither. Its part about a single error is a chain of
lemmas: after each turn of the loop that `append` and `redoPreintegration` share
the sum is the area under the signal up to where the turn ended (`Trapezoid`,
`TurnStep`, by a least turn at which it is not), so the integral over measurements
that span the states is exact (`IntegralExact`), and appending the next error to
one that ends where it starts gives what one error over both would hold
(`AppendedOf`).

**Frontend**

| theorem | says | argument |
| --- | --- | --- |
| `AssertionsHold` | `[]NoAssertionFails` | `StoreOk`: graph and slots are well formed and agree in the IMU window; `TodoInv`, `PairsInv`: what is still to be matched or merged is there |
| `SlotsAgree` | `[]SlotsFollowGraph` | `LinksOk`: links lie outside the IMU window, so the expansion, which forgets the slots, never reaches it |
| `MemoryBacked` | `[]RememberedFramesKept` | `KindInv`, `MemoryInv`: what is remembered was flagged a keyframe, or is the current frame on its way to be one |

These need no hypothesis; they hold for any number of cameras and whichever pairs
of them overlap (`TwoCameras`: a pair is never a camera with itself, so no
keypoint is matched to itself). The hard part is `mergeLandmarks`, which replaces
landmarks one pair after the other while later pairs still name the old ones:
the chains of replacements descend (`ChangesOk`, with a ranking that the number
of replaced ids bounds), so `Chase` ends at a landmark that is still there.

**DatasetReader**

| theorem | says | argument |
| --- | --- | --- |
| `ReaderSynchronises` | `[]Synchronised` | `ReaderInv`: what is in hand is complete like what was delivered (`CompleteInv`); images are taken in the order of time, whichever camera has the oldest (`OrderInv`); an image of a synchronised camera is still to be read, in hand, delivered or dropped (`AccountedFor`); those that were dropped had no counterpart (`NoCounterparts`) |

The heart is `DroppedAlone`: the image that is dropped is the oldest of all that
are left. Had it counterparts, the ones that are left would be near enough for
the group to be synchronised; and one that was given up before would have had
this image and the others as counterparts of its own, against `NoCounterparts`.

**Publisher**

| theorem | says | argument |
| --- | --- | --- |
| `PublisherFits` | `[]PublisherInv` | the parts below, as long as nothing is lost or torn |
| `PathFollows` | `[]PathCurrent` | `EstimatorInv`, `PendingInv`: where the estimator moved a keyframe last, and the offset a state was published with, are what the trajectory holds once the publications on their way (`Pending`) are in it (`LastMove`); `KnowledgeInv`: which states the trajectory knows, and by which keyframe; `MarkerInv`: the path shows the trajectory's poses in every segment that no caller is about to draw again |
| `PredictedOnce` | `[]PredictionExact` | `SensorInv`: the measurements that wait are the last ones, and fewer than those past the newest frame, so a new propagation starts within what was fed; `PropagationInv`: the running one is exact |

`HandedOk` carries the first over an `update`: the publication that is taken up
moves the keyframes it updated in the trajectory, as the `LastMove` of those
still pending counts on. `AffectedIs` says why drawing a part is enough: a state
before the first affected one has the same pose as before.

Inductions over recursive functions (`Chase`, the merging of the pairs, the walk
of `doFinalBa`, the turns of the integration, the feeding of measurements) are
made by a minimal counterexample (`NatsHaveMin`), since the induction theorems of
the library take an operator.

Every safety invariant that a run checks is stated by a theorem.

Only model-checked:

- liveness (`Completes`, `PushReturns`, `LoopClosureImported`,
  `CallbackReturns`) and the fairness of `ImplementsFifo`: both need `ENABLED`;
- that `KruskalMst` finds a lightest forest: every graph of four nodes is tried.

## Findings

1. `Shutdown` of the queue can be slept through (`queue_shutdown_race`):
   `stopThreading` may then hang in a join.
2. `DatasetReader`'s starting delay deadlocks (`pipeline_start_delay`).
3. A keyframe without any co-observed landmark that leaves during a loop
   closure makes the graphs differ, and a later clean-up throws
   (`graph_sync_cleaned_apart`).

Met while modelling, without a run of their own. These are reachable in the
models, some of them with another value of the constant that is named:

- `PromptLaunch` false: `addStates` writes the full graph while it is being
  optimised (`ThreadedSlam.cpp:552`, `562`).
- `EarlyClosures` true: a loop closure before anything was frozen ends in the
  assertion "O-O" at the import (`ViSlamBackend.cpp:1543`).
- One keyframe kept (`NumKeyframes` 1) and `MaxBacklog` 2: if the full-graph
  optimisation lasts so long that only frames of its own loop are left as
  keyframes, an elimination throws "no keyframe!" (`ViGraphEstimator.cpp:143`).
- A consumer that uses `PopNonBlocking` does not wake a producer that waits for
  a free slot (`ThreadsafeQueue.hpp:210`); `processFrame` drains the IMU queue
  this way.
- A landmark id that is used again during a loop closure gets the position of
  the landmark it replaced (`ViGraph.cpp:393`).
- `DatasetReader`: `needSync` is not reset for a camera outside the group, whose
  images are then dropped with the group's; depth images are paired by position
  and fall behind after a drop; a depth camera outside the group is read twice
  per turn and past its end (`DatasetReader.cpp:302` and below).
- A publication that was dropped (queue of three) or discarded (shutdown) leaves
  its state unknown to the Publisher for ever, whose path loop then turns on the
  spot (`Publisher.cpp:367`).
- Two threads may pass the test of `trajectoryLocked_` at once
  (`Publisher.cpp:155`, `310`).
- The callback of `stopThreading` (`ThreadedSlam.cpp:1008`) delivers the newest
  state, usually for a second time, and can overtake a publication that the
  publishing thread still has in hand. `FinalNewest` says that this is the only
  one, and that nothing newer exists.

Others are remarks on the text of the code, which the model reproduces or which
lie outside it: the frames that should not be re-added at once are remembered
with the frame that leaves, where nothing reads them (`ViSlamBackend.cpp:535`);
`clear` leaves `currentLoopClosureFrames_` and `affectedStates_`;
the loop over `eliminateStates_` in the import comes after it was emptied
(`ViSlamBackend.cpp:1492`); `buildMst` returns whether the weight of the tree is
positive, and all weights are negative; a keyframe enters the place-recognition
database only if no loop closure is in progress (`Frontend.cpp:959`); the second
matching of a loop closure merges landmarks of matches that are rejected
afterwards (`Frontend.cpp:1577`); images are freed while a classification thread
may read them (`ViSlamBackend.cpp:559`); the covisibility cache is not
invalidated by `removeLandmark`; `Trajectory` caches a propagation between two
states and never renews it, and interpolates wrongly between two states within
one IMU interval; `TrajectoryOutput::drawTopView` updates its trajectory before
it feeds the IMU samples that arrived earlier.

## Not modelled

Numeric code: residuals and Jacobians of the error terms other than the
preintegration, camera models, triangulation, RANSAC, kinematics. This is the
larger part of the source, and it is arithmetic of real numbers without state
that a model checker could follow. Third-party libraries (ceres, opengv, DBoW2,
BRISK), drawing, file formats, parameter parsing, device drivers, ROS2 message
conversion. The visualisation queues and the real-time propagation queue carry
copies that nothing depends on. The full-graph thread appears in
`MeasurementPipeline` only through the place `final`, where it is joined. In
`Trajectory`, the propagation to a time between past states. In `LandmarkGraph`,
the classification of landmarks. `Component` loads and saves maps outside any of
the threads.

## Plan

1. Proofs: that `KruskalMst` returns a lightest forest; for which windows more
   than one frame may come during an optimisation (`KeyframeLeft`).
2. The covisibility cache of `ViGraph` against its definition, with the
   classification of landmarks, which takes some of them out of the count.
3. `TrajectoryOutput` as another user of `Trajectory`; `RosbagReader`'s
   synchronisation beside `DatasetReader`'s; `DatasetWriter`'s shutdown.
4. `Time` and `Duration`: normalisation and overflow.
