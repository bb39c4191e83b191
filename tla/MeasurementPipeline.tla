------------------------ MODULE MeasurementPipeline ------------------------
(* How measurements travel through ThreadedSlam: the sensors' callbacks put  *)
(* images and IMU samples into two threadsafe queues, processFrame takes     *)
(* them out (it copies the front image, collects the IMU samples that cover  *)
(* it and only then pops), one optimisation thread per frame publishes the   *)
(* result and the publishing thread hands it to the application, until       *)
(* stopThreading drains and joins everything.                                *)
(*                                                                           *)
(* The queues' operations are single steps, which ThreadsafeQueue justifies. *)
(* An image stands for its time stamp.  IMU samples arrive at every instant  *)
(* 1 .. LastImu.  Time unit: one IMU period.                                 *)
EXTENDS Integers, Sequences, FiniteSets, SequencesExt

CONSTANTS
  Modes,          \* the values setBlocking is called with
  FrameTimes,     \* bound: the time stamps of the images, in order
  LastImu,        \* bound: the last IMU sample
  Overlap,        \* imuTemporalOverlap
  Lead,           \* how far past the image DatasetReader reads the IMU file
  Skip,           \* deltaT_ - 1 s: IMU samples up to start + Skip are skipped
  CameraCap,      \* cameraInputQueueSize
  ImuCap,         \* imuQueueSize
  PublicationCap  \* size of publicationQueue_

ASSUME StreamAssumption ==
  /\ Modes \subseteq BOOLEAN
  /\ FrameTimes \in Seq(Nat \ {0}) /\ FrameTimes # <<>>
  /\ \A i, j \in DOMAIN FrameTimes : i < j => FrameTimes[i] < FrameTimes[j]
  /\ {LastImu, CameraCap, ImuCap, PublicationCap} \subseteq Nat \ {0}
  /\ {Overlap, Lead} \subseteq Nat /\ Overlap <= Lead
  /\ Skip \in Int

VARIABLES
  blocking,                \* blocking_
  reader,                  \* what the sensor side does next, "done" at the end
  nextImu, nextFrame,      \* next sample of the IMU, index of the next image
  camQ,                    \* cameraMeasurementsReceived_
  imuQ,                    \* imuMeasurementsReceived_
  pc, frame, result,       \* processFrame: place, its image, what it returned
  imuSeen,                 \* the copy of the front IMU sample taken at startup
  deque,                   \* imuMeasurementDeque_
  firstFrame, last,        \* firstFrame_, lastOptimisedState_ (0: none yet)
  current,                 \* newest state of the estimator (0: it is empty)
  initialised,             \* Frontend::isInitialized_
  stopping,                \* stopThreading was called
  opt,                     \* optimisation thread
  pubQ, publisher, inHand, \* publicationQueue_, the publishing thread and
                           \* the publication its callback is running with
  queuesShut, shutdown,    \* Shutdown() of the queues, shutdown_
  handled, tooOld,         \* history: images processed, images discarded
  reported,                \* history: number of drops addImages returned
  delivered,               \* history: publications of publishingLoop that the
                           \* callback has seen
  repeated                 \* history: the publication of stopThreading, and how
                           \* many of publishingLoop the callback had seen then

sensors   == <<reader, nextImu, nextFrame>>
process   == <<frame, result, imuSeen, deque, firstFrame, last>>
estimator == <<current, initialised>>
publish   == <<pubQ, publisher, inHand, delivered, repeated>>
ending    == <<stopping, queuesShut, shutdown>>
ledger    == <<handled, tooOld, reported>>
vars == <<blocking, sensors, camQ, imuQ, pc, process, estimator, opt, publish,
          ending, ledger>>

Init ==
  /\ blocking \in Modes
  /\ reader = "imu" /\ nextImu = 1 /\ nextFrame = 1
  /\ camQ = <<>> /\ imuQ = <<>>
  /\ pc = "start" /\ frame = 0 /\ result = FALSE
  /\ imuSeen = 0 /\ deque = <<>>
  /\ firstFrame = TRUE /\ last = 0
  /\ current = 0 /\ initialised = FALSE
  /\ stopping = FALSE /\ queuesShut = FALSE /\ shutdown = FALSE
  /\ opt = "none"
  /\ pubQ = <<>> /\ publisher = "waiting" /\ inHand = <<>>
  /\ handled = <<>> /\ tooOld = {} /\ reported = 0
  /\ delivered = <<>> /\ repeated = <<>>

(* PushNonBlockingDroppingIfFull                                             *)
PushDropping(q, v, cap) == Append(IF Len(q) < cap THEN q ELSE Tail(q), v)

----------------------------------------------------------------------------
(* The sensor side.                                                          *)

MoreFrames == nextFrame <= Len(FrameTimes)

(* One line of the IMU file and the blocking addImuMeasurement.  A full      *)
(* queue parks the reader for good: processFrame takes samples with          *)
(* PopNonBlocking, which signals no condition.                               *)
ReadImu ==
  /\ blocking /\ reader = "imu" /\ nextImu <= LastImu
  /\ LET wanted == nextImu > FrameTimes[1] + Skip
         fits   == Len(imuQ) < ImuCap
     IN  /\ imuQ' = IF wanted /\ fits THEN Append(imuQ, nextImu) ELSE imuQ
         /\ reader' = IF wanted /\ ~fits THEN "parked"
                      ELSE IF nextImu <= FrameTimes[nextFrame] + Lead
                           THEN "imu" ELSE "image"
  /\ nextImu' = nextImu + 1
  /\ UNCHANGED <<blocking, nextFrame, camQ, pc, process, estimator, opt,
                 publish, ending, ledger>>

(* The IMU file ends: the image being read is not delivered any more.        *)
EndOfImu ==
  /\ blocking /\ reader = "imu" /\ nextImu > LastImu
  /\ reader' = "done"
  /\ UNCHANGED <<blocking, nextImu, nextFrame, camQ, imuQ, pc, process,
                 estimator, opt, publish, ending, ledger>>

(* Mutant: a full queue drops its image instead of blocking.                 *)
ReadImageDropping ==
  /\ blocking /\ reader = "image"
  /\ camQ' = <<FrameTimes[nextFrame]>>
  /\ nextFrame' = nextFrame + 1
  /\ reader' = IF nextFrame < Len(FrameTimes) THEN "imu" ELSE "done"
  /\ UNCHANGED <<blocking, nextImu, imuQ, pc, process, estimator, opt,
                 publish, ending, ledger>>

(* The blocking addImages, PushBlockingIfFull(frames, 1).                    *)
ReadImage ==
  /\ blocking /\ reader = "image" /\ camQ = <<>>
  /\ camQ' = <<FrameTimes[nextFrame]>>
  /\ nextFrame' = nextFrame + 1
  /\ reader' = IF nextFrame < Len(FrameTimes) THEN "imu" ELSE "done"
  /\ UNCHANGED <<blocking, nextImu, imuQ, pc, process, estimator, opt,
                 publish, ending, ledger>>

(* Live sensors have a thread each and never wait.                           *)
SenseImu ==
  /\ ~blocking /\ reader # "done" /\ nextImu <= LastImu
  /\ imuQ' = PushDropping(imuQ, nextImu, ImuCap)
  /\ nextImu' = nextImu + 1
  /\ UNCHANGED <<blocking, reader, nextFrame, camQ, pc, process, estimator,
                 opt, publish, ending, ledger>>

SenseImage ==
  /\ ~blocking /\ reader # "done" /\ MoreFrames
  /\ camQ' = PushDropping(camQ, FrameTimes[nextFrame], CameraCap)
  /\ reported' = IF Len(camQ) < CameraCap THEN reported ELSE reported + 1
  /\ nextFrame' = nextFrame + 1
  /\ UNCHANGED <<blocking, reader, nextImu, imuQ, pc, process, estimator, opt,
                 publish, ending, handled, tooOld>>

----------------------------------------------------------------------------
(* processFrame                                                              *)

Return(r) == pc' = "returned" /\ result' = r /\ frame' = 0

(* Startup: remember the oldest IMU sample.                                  *)
PeekImu ==
  /\ pc = "start" /\ firstFrame
  /\ IF imuQ = <<>> THEN Return(FALSE) /\ UNCHANGED imuSeen
     ELSE imuSeen' = Head(imuQ) /\ pc' = "copy" /\ UNCHANGED <<frame, result>>
  /\ UNCHANGED <<blocking, sensors, camQ, imuQ, deque, firstFrame, last,
                 estimator, opt, publish, ending, ledger>>

(* getNextFrame copies the front image and leaves it in the queue.           *)
CopyImage ==
  /\ pc = "copy" \/ (pc = "start" /\ ~firstFrame)
  /\ IF camQ = <<>>
     THEN IF firstFrame THEN Return(FALSE)
          ELSE pc' = "joinIdle" /\ UNCHANGED <<frame, result>>
     ELSE /\ frame' = Head(camQ)
          /\ pc' = IF ~firstFrame THEN "collect"
                   ELSE IF Head(camQ) - Overlap <= imuSeen THEN "tooOld"
                   ELSE "checkBack"
          /\ UNCHANGED result
  /\ UNCHANGED <<blocking, sensors, camQ, imuQ, imuSeen, deque, firstFrame,
                 last, estimator, opt, publish, ending, ledger>>

(* No image: the last optimisation is waited for before returning.           *)
JoinIdle ==
  /\ pc = "joinIdle" /\ opt \in {"none", "finished"}
  /\ opt' = "none"
  /\ Return(FALSE)
  /\ UNCHANGED <<blocking, sensors, camQ, imuQ, imuSeen, deque, firstFrame,
                 last, estimator, publish, ending, ledger>>

(* Mutant: the image is given up but not popped.                             *)
DropTooOldUnpopped ==
  /\ pc = "tooOld" /\ camQ # <<>>
  /\ tooOld' = tooOld \cup {frame}
  /\ Return(FALSE)
  /\ UNCHANGED <<blocking, sensors, camQ, imuQ, imuSeen, deque, firstFrame,
                 last, estimator, opt, publish, ending, handled, reported>>

(* Startup: an image older than the IMU samples cannot be used.              *)
DropTooOld ==
  /\ pc = "tooOld" /\ camQ # <<>>
  /\ camQ' = Tail(camQ)
  /\ tooOld' = tooOld \cup {frame}
  /\ Return(FALSE)
  /\ UNCHANGED <<blocking, sensors, imuQ, imuSeen, deque, firstFrame, last,
                 estimator, opt, publish, ending, handled, reported>>

(* Startup: wait until the IMU samples reach past the image.                 *)
CheckBack ==
  /\ pc = "checkBack"
  /\ IF imuQ = <<>> \/ Last(imuQ) < frame + Overlap THEN Return(FALSE)
     ELSE pc' = "collect" /\ UNCHANGED <<frame, result>>
  /\ UNCHANGED <<blocking, sensors, camQ, imuQ, imuSeen, deque, firstFrame,
                 last, estimator, opt, publish, ending, ledger>>

(* One round of the loop that moves IMU samples into imuMeasurementDeque_;   *)
(* without enough of them the image stays queued for the next call.          *)
CollectImu ==
  /\ pc = "collect"
  /\ IF deque # <<>> /\ Last(deque) >= frame + Overlap
     THEN /\ pc' = "detect" /\ firstFrame' = FALSE
          /\ UNCHANGED <<imuQ, deque, frame, result>>
     ELSE IF imuQ = <<>>
     THEN Return(FALSE) /\ UNCHANGED <<imuQ, deque, firstFrame>>
     ELSE /\ deque' = Append(deque, Head(imuQ)) /\ imuQ' = Tail(imuQ)
          /\ UNCHANGED <<pc, frame, result, firstFrame>>
  /\ UNCHANGED <<blocking, sensors, camQ, imuSeen, last, estimator, opt,
                 publish, ending, ledger>>

(* Mutant: an image with too few keypoints is not popped.                    *)
PopImageOnSuccess ==
  /\ pc = "detect" /\ camQ # <<>>
  /\ handled' = Append(handled, frame)
  /\ \/ ~initialised /\ Return(last # 0) /\ UNCHANGED camQ
     \/ /\ camQ' = Tail(camQ) /\ pc' = "joinOpt"
        /\ UNCHANGED <<frame, result>>
  /\ UNCHANGED <<blocking, sensors, imuQ, imuSeen, deque, firstFrame, last,
                 estimator, opt, publish, ending, tooOld, reported>>

(* Propagation, detection and PopBlocking.  Until the frontend is            *)
(* initialised an image with fewer than 15 keypoints ends here; before the   *)
(* first optimised state with FALSE, afterwards with TRUE.                   *)
PopImage ==
  /\ pc = "detect" /\ camQ # <<>>
  /\ camQ' = Tail(camQ)
  /\ handled' = Append(handled, frame)
  /\ \/ ~initialised /\ Return(last # 0)
     \/ pc' = "joinOpt" /\ UNCHANGED <<frame, result>>
  /\ UNCHANGED <<blocking, sensors, imuQ, imuSeen, deque, firstFrame, last,
                 estimator, opt, publish, ending, tooOld, reported>>

(* What is left of the deque: one sample at or before t - Overlap is kept.   *)
Trim(d, t) ==
  LET old == {i \in DOMAIN d : d[i] <= t - Overlap}
  IN  IF old = {} THEN d
      ELSE SubSeq(d, CHOOSE i \in old : \A j \in old : j <= i, Len(d))

(* Mutant: the deque is trimmed to the new image, not to the last state.     *)
JoinOptTrimsToImage ==
  /\ pc = "joinOpt" /\ opt \in {"none", "finished"}
  /\ opt' = "none"
  /\ last' = IF current # 0 THEN current ELSE last
  /\ deque' = IF current # 0 THEN Trim(deque, frame) ELSE deque
  /\ pc' = "match"
  /\ UNCHANGED <<blocking, sensors, camQ, imuQ, frame, result, imuSeen,
                 firstFrame, estimator, publish, ending, ledger>>

(* Mutant: the optimisation is not joined.                                   *)
JoinOptMissing ==
  /\ pc = "joinOpt"
  /\ last' = IF current # 0 THEN current ELSE last
  /\ deque' = IF current # 0 THEN Trim(deque, current) ELSE deque
  /\ pc' = "match"
  /\ UNCHANGED <<blocking, sensors, camQ, imuQ, frame, result, imuSeen,
                 firstFrame, estimator, opt, publish, ending, ledger>>

(* The matcher needs the optimisation to be finished.                        *)
JoinOpt ==
  /\ pc = "joinOpt" /\ opt \in {"none", "finished"}
  /\ opt' = "none"
  /\ last' = IF current # 0 THEN current ELSE last
  /\ deque' = IF current # 0 THEN Trim(deque, current) ELSE deque
  /\ pc' = "match"
  /\ UNCHANGED <<blocking, sensors, camQ, imuQ, frame, result, imuSeen,
                 firstFrame, estimator, publish, ending, ledger>>

(* addStates, dataAssociationAndInitialization and the launch of the         *)
(* optimisation thread.                                                      *)
Match ==
  /\ pc = "match"
  /\ current' = frame
  /\ initialised' \in {initialised, TRUE}
  /\ opt' = "optimise"
  /\ Return(TRUE)
  /\ UNCHANGED <<blocking, sensors, camQ, imuQ, imuSeen, deque, firstFrame,
                 last, publish, ending, ledger>>

(* Too few matches to initialise: frontend and estimator are cleared.        *)
MatchFails ==
  /\ pc = "match" /\ ~initialised
  /\ current' = 0
  /\ Return(FALSE)
  /\ UNCHANGED <<blocking, sensors, camQ, imuQ, imuSeen, deque, firstFrame,
                 last, initialised, opt, publish, ending, ledger>>

----------------------------------------------------------------------------
(* The application's loop and stopThreading.                                 *)

(* Mutant: stopThreading does not call processFrame.                         *)
AppLoopWithoutDrain ==
  /\ pc = "returned"
  /\ reader' \in {reader} \cup (IF blocking \/ stopping THEN {} ELSE {"done"})
  /\ stopping' = (reader' = "done")
  /\ pc' = IF stopping' THEN "joinLast" ELSE "start"
  /\ UNCHANGED <<blocking, nextImu, nextFrame, camQ, imuQ, process, estimator,
                 opt, publish, queuesShut, shutdown, ledger>>

(* The application calls processFrame again; once the reader has finished,   *)
(* or the user has switched the sensors off, it calls stopThreading, which   *)
(* calls processFrame for as long as it returns TRUE.                        *)
AppLoop ==
  /\ pc = "returned"
  /\ reader' \in {reader} \cup (IF blocking \/ stopping THEN {} ELSE {"done"})
  /\ stopping' = (reader' = "done")
  /\ pc' = IF stopping /\ ~result THEN "joinLast" ELSE "start"
  /\ UNCHANGED <<blocking, nextImu, nextFrame, camQ, imuQ, process, estimator,
                 opt, publish, queuesShut, shutdown, ledger>>

JoinLast ==
  /\ pc = "joinLast" /\ opt \in {"none", "finished"}
  /\ opt' = "none"
  /\ queuesShut' = TRUE
  /\ pc' = "final"
  /\ UNCHANGED <<blocking, sensors, camQ, imuQ, process, estimator, publish,
                 stopping, shutdown, ledger>>

(* The last full-graph optimisation is imported (LoopClosureThreads), which  *)
(* only an initialised frontend can have started, and this thread enters the *)
(* callback with the current state.  It waits for no one: the publishing     *)
(* thread may be in the callback too ...                                     *)
FinalImport ==
  /\ pc = "final" /\ initialised
  /\ pc' = "finalCall"
  /\ UNCHANGED <<blocking, sensors, camQ, imuQ, process, estimator, opt,
                 publish, ending, ledger>>

(* ... and either call may take effect first.                                *)
FinalCallBack ==
  /\ pc = "finalCall"
  /\ repeated' = <<[state |-> current, after |-> Len(delivered)]>>
  /\ pc' = "finalDone"
  /\ UNCHANGED <<blocking, sensors, camQ, imuQ, process, estimator, opt,
                 pubQ, publisher, inHand, delivered, ending, ledger>>

(* The remaining threads are told to end, at once if nothing was imported.   *)
Final ==
  /\ pc \in {"final", "finalDone"}
  /\ shutdown' = TRUE
  /\ pc' = "joinPublisher"
  /\ UNCHANGED <<blocking, sensors, camQ, imuQ, process, estimator, opt,
                 publish, stopping, queuesShut, ledger>>

JoinPublisher ==
  /\ pc = "joinPublisher" /\ publisher = "ended"
  /\ pc' = "stopped"
  /\ UNCHANGED <<blocking, sensors, camQ, imuQ, process, estimator, opt,
                 publish, ending, ledger>>

Stopped == pc = "stopped" /\ UNCHANGED vars

----------------------------------------------------------------------------
(* optimisePublishMarginalise: optimise and publish, then applyStrategy.     *)
OptimisePublish ==
  /\ opt = "optimise"
  /\ pubQ' = PushDropping(pubQ, current, PublicationCap)
  /\ opt' = "marginalise"
  /\ UNCHANGED <<blocking, sensors, camQ, imuQ, pc, process, estimator,
                 publisher, inHand, delivered, repeated, ending, ledger>>

Marginalise ==
  /\ opt = "marginalise"
  /\ opt' = "finished"
  /\ UNCHANGED <<blocking, sensors, camQ, imuQ, pc, process, estimator,
                 publish, ending, ledger>>

(* Mutant: the publication is copied but stays in the queue.                 *)
TakePublicationCopy ==
  /\ publisher = "waiting" /\ (queuesShut \/ pubQ # <<>>)
  /\ IF queuesShut THEN publisher' = "ended" /\ UNCHANGED inHand
     ELSE publisher' = "calling" /\ inHand' = <<Head(pubQ)>>
  /\ UNCHANGED <<blocking, sensors, camQ, imuQ, pc, process, estimator, opt,
                 pubQ, delivered, repeated, ending, ledger>>

(* Mutant: a queue that is shut down is emptied before PopBlocking fails.    *)
TakePublicationDraining ==
  /\ publisher = "waiting" /\ (queuesShut \/ pubQ # <<>>)
  /\ IF pubQ = <<>> THEN publisher' = "ended" /\ UNCHANGED <<pubQ, inHand>>
     ELSE /\ publisher' = "calling"
          /\ inHand' = <<Head(pubQ)>> /\ pubQ' = Tail(pubQ)
  /\ UNCHANGED <<blocking, sensors, camQ, imuQ, pc, process, estimator, opt,
                 delivered, repeated, ending, ledger>>

(* publishingLoop: PopBlocking, which fails once the queue is shut down ...  *)
TakePublication ==
  /\ publisher = "waiting" /\ (queuesShut \/ pubQ # <<>>)
  /\ IF queuesShut THEN publisher' = "ended" /\ UNCHANGED <<pubQ, inHand>>
     ELSE /\ publisher' = "calling"
          /\ inHand' = <<Head(pubQ)>> /\ pubQ' = Tail(pubQ)
  /\ UNCHANGED <<blocking, sensors, camQ, imuQ, pc, process, estimator, opt,
                 delivered, repeated, ending, ledger>>

(* ... the callback, and the test of shutdown_.                              *)
CallBack ==
  /\ publisher = "calling"
  /\ delivered' = delivered \o inHand /\ inHand' = <<>>
  /\ publisher' = IF shutdown THEN "ended" ELSE "waiting"
  /\ UNCHANGED <<blocking, sensors, camQ, imuQ, pc, process, estimator, opt,
                 pubQ, repeated, ending, ledger>>

Sensors == ReadImu \/ EndOfImu \/ ReadImage
Process == \/ PeekImu \/ CopyImage \/ JoinIdle \/ DropTooOld \/ CheckBack
           \/ CollectImu \/ PopImage \/ JoinOpt \/ Match \/ MatchFails
Stop    == \/ AppLoop \/ JoinLast \/ FinalImport \/ FinalCallBack \/ Final
           \/ JoinPublisher
Optimise == OptimisePublish \/ Marginalise
Publisher == TakePublication \/ CallBack

Next == Sensors \/ SenseImu \/ SenseImage \/ Process \/ Stop \/ Optimise
        \/ Publisher \/ Stopped

Spec == Init /\ [][Next]_vars

(* Every thread is scheduled and the application keeps calling processFrame. *)
(* Live sensors need not deliver.                                            *)
FairSpec == /\ Spec
            /\ WF_vars(Sensors) /\ WF_vars(Process \/ Stop)
            /\ WF_vars(Optimise) /\ WF_vars(Publisher)

----------------------------------------------------------------------------
Images  == {FrameTimes[i] : i \in DOMAIN FrameTimes}
Samples == 1 .. LastImu
Increasing(s) == \A i, j \in DOMAIN s : i < j => s[i] < s[j]
Optimising == opt \in {"optimise", "marginalise"}

SensorType ==
  /\ blocking \in BOOLEAN
  /\ reader \in {"imu", "image", "parked", "done"}
  /\ nextImu \in 1 .. LastImu + 1 /\ nextFrame \in 1 .. Len(FrameTimes) + 1

InputType ==
  /\ camQ \in Seq(Images) /\ Len(camQ) <= IF blocking THEN 1 ELSE CameraCap
  /\ imuQ \in Seq(Samples) /\ Len(imuQ) <= ImuCap
  /\ imuSeen \in Samples \cup {0} /\ deque \in Seq(Samples)

ControlType ==
  /\ pc \in {"start", "copy", "tooOld", "checkBack", "collect", "detect",
             "joinOpt", "match", "joinIdle", "returned", "joinLast", "final",
             "finalCall", "finalDone", "joinPublisher", "stopped"}
  /\ frame \in Images \cup {0} /\ last \in Images \cup {0}
  /\ current \in Images \cup {0}
  /\ opt \in {"none", "optimise", "marginalise", "finished"}
  /\ result \in BOOLEAN /\ firstFrame \in BOOLEAN /\ initialised \in BOOLEAN
  /\ stopping \in BOOLEAN /\ queuesShut \in BOOLEAN /\ shutdown \in BOOLEAN

OutputType ==
  /\ pubQ \in Seq(Images) /\ Len(pubQ) <= PublicationCap
  /\ publisher \in {"waiting", "calling", "ended"}
  /\ inHand \in Seq(Images) /\ (publisher = "calling") = (inHand # <<>>)
  /\ delivered \in Seq(Images)
  /\ repeated \in Seq([state : Images, after : Nat]) /\ Len(repeated) <= 1

LedgerType ==
  /\ handled \in Seq(Images) /\ tooOld \subseteq Images /\ reported \in Nat

(* The state is well-typed and the queues keep the sizes they are pushed     *)
(* with (addImages, addImuMeasurement, optimisePublishMarginalise).          *)
TypeOK == SensorType /\ InputType /\ ControlType /\ OutputType /\ LedgerType

(* The image is popped long after it was copied.  The pop never waits, and   *)
(* with a blocking reader it removes the very image that was copied          *)
(* (getNextFrame, and PopBlocking in processFrame).                          *)
PopReady ==
  pc \in {"tooOld", "checkBack", "collect", "detect"} =>
    camQ # <<>> /\ (blocking => Head(camQ) = frame)

(* Images are processed in the order of their time stamps, none twice, and   *)
(* as many are lost on the way as addImages has reported, even when the      *)
(* queue drops an image between the copy and the pop.                        *)
LossReported ==
  /\ Increasing(handled)
  /\ nextFrame - 1 = Len(camQ) + Len(handled) + Cardinality(tooOld) + reported

(* Whenever a state is propagated, the IMU samples reach from it past the    *)
(* image without a gap: what ImuError::propagation asserts of the front and  *)
(* tests of the back of the deque.                                           *)
PropagationCovered ==
  LET Covers(t) == t # 0 => Head(deque) <= t /\ Last(deque) >= frame
  IN  /\ \A i \in 1 .. Len(deque) - 1 : deque[i + 1] = deque[i] + 1
      /\ pc = "detect" => Covers(last)
      /\ pc = "match"  => Covers(current)

(* While the matcher or the final import works on the estimator, no          *)
(* optimisation runs, whichever way processFrame returned before.            *)
EstimatorExclusive == pc \in {"match", "final", "finalCall"} => ~Optimising

(* The publishing thread hands the states to the callback in order, each     *)
(* once, whatever the publication queue dropped (publishingLoop,             *)
(* optimisePublishMarginalise).  FinalNewest is about the call that          *)
(* stopThreading makes besides.                                              *)
PublishedInOrder ==
  Increasing(delivered \o inHand \o pubQ
             \o IF opt = "optimise" THEN <<current>> ELSE <<>>)

(* The publication stopThreading makes itself repeats a state: the newest of *)
(* those the callback has seen, is running with, or has lost with the queue. *)
(* At most one older publication overtakes it, the one the publishing thread *)
(* was in the callback with; the callback sees no other after it.            *)
FinalNewest ==
  LET published == ToSet(delivered) \cup ToSet(inHand) \cup ToSet(pubQ)
  IN  \A k \in DOMAIN repeated :
        /\ repeated[k].state \in published
        /\ \A s \in published : s <= repeated[k].state
        /\ Len(delivered) + Len(inHand) <= repeated[k].after + 1

(* "process all received": behind a blocking reader stopThreading leaves no  *)
(* image unprocessed, although its loop ends at the first FALSE.             *)
AllProcessed ==
  blocking /\ pc \in {"final", "finalCall", "finalDone", "joinPublisher",
                     "stopped"} =>
    /\ camQ = <<>>
    /\ \A i \in 1 .. nextFrame - 1 :
         FrameTimes[i] \in tooOld \cup {handled[k] : k \in DOMAIN handled}

(* Reader and processFrame never wait for each other: a data set is played   *)
(* to its end, and once the sensors are off stopThreading returns.           *)
Completes == (blocking \/ reader = "done") ~> (pc = "stopped")
============================================================================
