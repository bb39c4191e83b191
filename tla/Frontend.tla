------------------------------ MODULE Frontend ------------------------------
(* Frontend::dataAssociationAndInitialization: what the keypoints of a new   *)
(* frame observe, from the first match against the map to the last clean-up; *)
(* the place-recognition database and the classification threads; and what   *)
(* the backend does to landmarks between two frames.                         *)
(*                                                                           *)
(* The association of a keypoint is kept twice: as an observation in the     *)
(* graph, and as a landmark id in the MultiFrame (slot, 0 for none), which   *)
(* the matching reads.  Nothing but the calls below keeps them equal, and in *)
(* the frames that became pose-graph frames they are not.                    *)
(*                                                                           *)
(* Which descriptors match, which rays triangulate and who is an outlier is  *)
(* a free choice, and so is whether a landmark counts as 3D or initialised.  *)
(* The matching loops are steps per keypoint, in the order of the code, and  *)
(* the RANSACs and outlier removals remove any set of observations.          *)
EXTENDS LandmarkGraph, SequencesExt

CONSTANTS
  CameraOf,     \* the camera of the keypoints with a given index
  StereoPairs,  \* the pairs of cameras with hasOverlap, in the order of the
                \* two loops of matchStereo
  StartFrames   \* doWeNeedANewKeyframe: fewer frames than this are starting up
                \* (4 in the code)

(* p comes before q in the loops over im0 and im1.                           *)
LoopedBefore(p, q) == p[1] < q[1] \/ (p[1] = q[1] /\ p[2] < q[2])

ASSUME CamerasAssumption ==
  /\ \A k \in Keypoints : CameraOf[k[2]] \in Nat
  /\ StereoPairs \in Seq({p \in Nat \X Nat : p[1] < p[2]})
  /\ \A i, j \in DOMAIN StereoPairs :
       i < j => LoopedBefore(StereoPairs[i], StereoPairs[j])
ASSUME StartAssumption == StartFrames \in Nat

VARIABLES
  kind,             \* imuFrames_, keyFrames_, loopClosureFrames_, the pose-
                    \* graph frames, the eliminated and the coming frames
  flagged,          \* states with isKeyframe
  recognisable,     \* frames with landmarks in the MultiFrame (setLandmark)
  graph,            \* realtimeGraph_
  slot,             \* MultiFrame::landmarkId of every keypoint
  pc,               \* the place in dataAssociationAndInitialization
  loopMode,         \* loopClosureLandmarksToUseExclusively is given
  useOnly,          \* loopClosureLandmarks
  todo,             \* keypoints the present matching loop has not reached
  pairs,            \* oldIds and newIds of matchToMap
  stereoPair,       \* number of pairs of cameras that matchStereo has begun
  asKeyframe, isInitialized,
  dBow,             \* dBow_->poseIds
  cnn,              \* frames whose classification threads run
  failed            \* an assertion or an at() of the code has failed

store   == <<graph, slot, failed>>
backend == <<kind, flagged, recognisable>>
matcher == <<loopMode, useOnly, todo, pairs, stereoPair>>
memory  == <<dBow, cnn>>
vars == <<store, backend, pc, matcher, asKeyframe, isInitialized, memory>>

Init ==
  /\ kind = [f \in Frames |-> "coming"]
  /\ flagged = {} /\ recognisable = {}
  /\ graph = EmptyGraph /\ slot = [k \in Keypoints |-> 0] /\ failed = FALSE
  /\ pc = "idle"
  /\ loopMode = FALSE /\ useOnly = {} /\ todo = {} /\ pairs = <<>>
  /\ stereoPair = 0
  /\ asKeyframe = FALSE /\ isInitialized = FALSE
  /\ dBow = {} /\ cnn = {}

Present == {f \in Frames : kind[f] \notin {"coming", "gone"}}
Kept(kinds) == {f \in Frames : kind[f] \in kinds}
Current == Max(Present)          \* realtimeGraph_.currentStateId()
Mine    == KeypointsOf(Current)
Seen(k) == graph.obs[k] # NoObs
HasSlot(ks) == {k \in ks : slot[k] # 0}
Index(k) == k[2]
NextKeypoint == CHOOSE k \in todo : \A h \in todo : Index(k) <= Index(h)

----------------------------------------------------------------------------
(* The backend's operations, with the debug assertions they make: each takes *)
(* and returns the store [g, slot, failed].                                  *)
Store == [g |-> graph, slot |-> slot, failed |-> failed]
Put(s) == graph' = s.g /\ slot' = s.slot /\ failed' = s.failed

(* setLandmarkId, then addObservation: the landmark exists, the keypoint is  *)
(* not observed, its frame has a multi-frame and is no pose-graph frame.     *)
Associate(s, k, l) ==
  [g      |-> Observe(s.g, k, l),
   slot   |-> [s.slot EXCEPT ![k] = l],
   failed |-> \/ s.failed
              \/ l \notin Landmarks(s.g) \/ s.g.obs[k] # NoObs
              \/ kind[FrameOf(k)] \notin {"imu", "key", "loop"}]

RemoveObservation(s, k) ==
  [g      |-> RemoveObservations(s.g, {k}),
   slot   |-> [s.slot EXCEPT ![k] = 0],
   failed |-> s.failed \/ s.g.obs[k] = NoObs]

RemoveAll(s, ks) ==
  [g      |-> RemoveObservations(s.g, ks),
   slot   |-> [k \in Keypoints |-> IF k \in ks THEN 0 ELSE s.slot[k]],
   failed |-> s.failed \/ \E k \in ks : s.g.obs[k] = NoObs]

(* Slip: the keypoints of the landmark that disappears keep its id.          *)
MergeGraphOnly(s, from, into) ==
  [g      |-> Merge(s.g, from, into),
   slot   |-> s.slot,
   failed |-> s.failed \/ ~({from, into} \subseteq Landmarks(s.g))]

MergeLandmark(s, from, into) ==
  LET g == Merge(s.g, from, into) IN
    [g      |-> g,
     slot   |-> [k \in Keypoints |-> IF g.obs[k].lm = into THEN into
                                                           ELSE s.slot[k]],
     failed |-> s.failed \/ ~({from, into} \subseteq Landmarks(s.g))]

(* mergeLandmarks: "check if the id hasn't already been changed"; a landmark *)
(* is merged away at most once, so the chain is no longer than the ids.      *)
Chase(changes, l) ==
  LET step[n \in 0 .. MaxId] == IF n = 0 THEN l ELSE changes[step[n - 1]]
  IN step[MaxId]

MergePair(acc, pair) ==
  LET from == Chase(acc.changes, pair.old)
      into == Chase(acc.changes, pair.new)
  IN IF from = into THEN acc
     ELSE [store   |-> MergeLandmark(acc.store, from, into),
           changes |-> [acc.changes EXCEPT ![from] = into]]

MergeLandmarks(s, ps) ==
  LET merged[n \in 0 .. Len(ps)] ==
        IF n = 0 THEN [store |-> s, changes |-> [l \in Ids |-> l]]
                 ELSE MergePair(merged[n - 1], ps[n])
  IN  merged[Len(ps)].store

----------------------------------------------------------------------------
(* addStates for the next frame; processFrame then calls the frontend, which *)
(* matches to the map unless this is the first frame.                        *)
AddStates(f) ==
  /\ pc = "idle" /\ kind[f] = "coming"
  /\ \A h \in Frames : kind[h] = "coming" => f <= h
  /\ kind' = [kind EXCEPT ![f] = "imu"]
  /\ loopMode' = FALSE /\ useOnly' = {} /\ pairs' = <<>>
  /\ IF Present = {}
       THEN pc' = "recognise" /\ asKeyframe' = TRUE /\ todo' = {}
       ELSE /\ pc' = "initialised" /\ asKeyframe' = FALSE
            /\ todo' = KeypointsOf(f)
  /\ UNCHANGED <<flagged, recognisable, store, stereoPair, isInitialized,
                 memory>>

(* The landmarks offered to matchToMap, and the keypoints it may match:      *)
(* outside of a loop closure those that have no landmark yet.                *)
Offered == Landmarks(graph) \cap (IF loopMode THEN useOnly ELSE Ids)
MayMatch(k) == loopMode \/ slot[k] = 0

(* In a loop closure the previous observation gives way, and its landmark is *)
(* remembered for merging.                                                   *)
Vacate(s, k) == IF s.slot[k] = 0 THEN s ELSE RemoveObservation(s, k)
Remember(k, l) ==
  pairs' = IF slot[k] = 0 THEN pairs
           ELSE Append(pairs, [old |-> slot[k], new |-> l])
Pass(k) ==
  /\ k = NextKeypoint
  /\ todo' = todo \ {k}
  /\ UNCHANGED <<backend, pc, loopMode, useOnly, stereoPair, asKeyframe,
                 isInitialized, memory>>

(* matchToMap, first pass: 3D landmarks.                                     *)
MatchInitialised(k, l) ==
  /\ pc = "initialised" /\ k \in todo /\ MayMatch(k) /\ l \in Offered
  /\ Pass(k)
  /\ Put(Associate(Vacate(Store, k), k, l))
  /\ Remember(k, l)

(* Second pass: landmarks that do not count as 3D.                           *)
MatchUninitialised(k, l) ==
  /\ pc = "uninitialised" /\ k \in todo /\ MayMatch(k)
  /\ l \in Offered /\ l # slot[k]
  /\ Pass(k)
  /\ Put(Associate(Vacate(Store, k), k, l))
  /\ Remember(k, l)

(* The checks of the reprojection come after the removal and the remembering *)
(* of the pair.                                                              *)
RejectUninitialised(k, l) ==
  /\ pc = "uninitialised" /\ k \in todo /\ MayMatch(k)
  /\ l \in Offered /\ l # slot[k]
  /\ Pass(k)
  /\ Put(Vacate(Store, k))
  /\ Remember(k, l)

NoMatch(k) ==
  /\ pc \in {"initialised", "uninitialised", "stereo"} /\ k \in todo
  /\ Pass(k)
  /\ UNCHANGED <<store, pairs>>

(* After the first pass: runRansac3d2d, optimisation and removeOutliers;     *)
(* then the second pass begins.                                              *)
FirstInliers(out) ==
  /\ pc = "initialised" /\ todo = {}
  /\ out \subseteq HasSlot(Mine)
  /\ Put(RemoveAll(Store, out))
  /\ pc' = "uninitialised" /\ todo' = Mine
  /\ UNCHANGED <<backend, loopMode, useOnly, pairs, stereoPair, asKeyframe,
                 isInitialized, memory>>

(* After the second: the merging, if this is a loop closure, and possibly    *)
(* runRansac3d2d again.                                                      *)
SecondInliers(out) ==
  LET merged == IF loopMode THEN MergeLandmarks(Store, pairs) ELSE Store IN
    /\ pc = "uninitialised" /\ todo = {}
    /\ out \subseteq {k \in Mine : merged.slot[k] # 0}
    /\ Put(RemoveAll(merged, out))
    /\ pairs' = <<>> /\ useOnly' = {}
    /\ pc' = IF loopMode THEN "redecide" ELSE "motionStereo"
    /\ UNCHANGED <<backend, loopMode, todo, stereoPair, asKeyframe,
                   isInitialized, memory>>

----------------------------------------------------------------------------
(* matchMotionStereo: against keyframes, also those in the IMU window.       *)
OlderFrames ==
  (Kept({"key"}) \cup (Kept({"imu"}) \cap flagged)) \ {Current}

(* Slip: only the multi-frame is asked.                                      *)
FreeBySlot(k0) == slot[k0] \in Landmarks(graph) \cup {0}

(* "already matched": the keypoint of the older frame is observed, whatever  *)
(* its slot says; "weird": its landmark does not exist.                      *)
FreeInOlder(k0) == slot[k0] \in Landmarks(graph) \cup {0} /\ ~Seen(k0)

MatchMotionStereo(k0, k1) ==
  LET l   == IF slot[k0] # 0 THEN slot[k0] ELSE NewId(graph)
      new == [Store EXCEPT !.g = Place(graph, l, 1)]
      old == IF slot[k0] # 0 THEN Store ELSE Associate(new, k0, l)
  IN
    /\ pc = "motionStereo"
    /\ FrameOf(k0) \in OlderFrames /\ FrameOf(k1) = Current
    /\ CameraOf[Index(k0)] = CameraOf[Index(k1)]
    /\ FreeInOlder(k0) /\ slot[k1] = 0
    /\ l \in Ids
    /\ Put(Associate(old, k1, l))
    /\ UNCHANGED <<backend, pc, matcher, asKeyframe, isInitialized, memory>>

(* runRansac2d2d, until initialised.                                         *)
RunRansac2d2d(out) ==
  /\ pc = "motionStereo" /\ ~isInitialized
  /\ out # {} /\ out \subseteq HasSlot(Mine)
  /\ Put(RemoveAll(Store, out))
  /\ UNCHANGED <<backend, pc, matcher, asKeyframe, isInitialized, memory>>

(* doWeNeedANewKeyframe.                                                     *)
KeyframeDecisions(initialized) ==
  IF Cardinality(Present) < StartFrames THEN {TRUE}
  ELSE IF ~initialized THEN {FALSE} ELSE BOOLEAN

DecideKeyframe ==
  /\ pc = "motionStereo"
  /\ isInitialized' \in {isInitialized, TRUE}
  /\ asKeyframe' \in KeyframeDecisions(isInitialized')
  /\ pc' = "recognise"
  /\ UNCHANGED <<store, backend, matcher, memory>>

----------------------------------------------------------------------------
(* The loop-closure query is made when the full graph is neither optimised   *)
(* nor about to be, which is a free choice here.  Without a query ...        *)
SkipQuery ==
  /\ pc = "recognise"
  /\ pc' = "classify"
  /\ UNCHANGED <<store, backend, matcher, asKeyframe, isInitialized, memory>>

(* ... or with one that finds nothing.                                       *)
FindNothing ==
  /\ pc = "recognise" /\ isInitialized
  /\ pc' = "remember"
  /\ UNCHANGED <<store, backend, matcher, asKeyframe, isInitialized, memory>>

(* The links of f become observations; the multi-frames are left alone.      *)
Expand(f, kindOfLinked) ==
  /\ graph' = ConvertToObservations(graph, f)
  /\ kind' = [h \in Frames |->
                IF h = f /\ kind[f] = "poseGraph" THEN "loop"
                ELSE IF h \in Linked(graph, f) /\ kind[h] = "poseGraph"
                       THEN kindOfLinked ELSE kind[h]]
  /\ UNCHANGED <<flagged, recognisable, slot, failed>>

(* Slip: the frame is remembered before it is decided again.                 *)
CloseLoopRemembering(f) ==
  /\ pc = "recognise" /\ isInitialized
  /\ f \in dBow \cap recognisable /\ kind[f] = "poseGraph"
  /\ Expand(f, "loop")
  /\ loopMode' = TRUE
  /\ useOnly' = {r.obs.lm : r \in Returning(graph, f)}
  /\ pc' = "initialised" /\ todo' = Mine
  /\ dBow' = IF asKeyframe THEN dBow \cup {Current} ELSE dBow
  /\ UNCHANGED <<pairs, stereoPair, asKeyframe, isInitialized, cnn>>

(* A pose-graph frame of the database is verified (its MultiFrame holds      *)
(* landmarks) and comes back: addLoopClosureFrame, then matchToMap against   *)
(* the landmarks that came with it.                                          *)
CloseLoop(f) ==
  /\ pc = "recognise" /\ isInitialized
  /\ f \in dBow \cap recognisable /\ kind[f] = "poseGraph"
  /\ Expand(f, "loop")
  /\ loopMode' = TRUE
  /\ useOnly' = {r.obs.lm : r \in Returning(graph, f)}
  /\ pc' = "initialised" /\ todo' = Mine
  /\ UNCHANGED <<pairs, stereoPair, asKeyframe, isInitialized, memory>>

Redecide ==
  /\ pc = "redecide"
  /\ asKeyframe' \in KeyframeDecisions(isInitialized)
  /\ pc' = "remember"
  /\ UNCHANGED <<store, backend, matcher, isInitialized, memory>>

(* "if keyframe, we add to relocalisation database"                          *)
RememberPlace ==
  /\ pc = "remember"
  /\ dBow' = IF asKeyframe THEN dBow \cup {Current} ELSE dBow
  /\ pc' = "classify"
  /\ UNCHANGED <<store, backend, matcher, asKeyframe, isInitialized, cnn>>

(* A keyframe waits for the classification threads of the previous ones and  *)
(* launches its own.                                                         *)
Classify ==
  /\ pc = "classify"
  /\ cnn' = IF asKeyframe /\ isInitialized THEN {Current} ELSE cnn
  /\ pc' = IF asKeyframe THEN "stereo" ELSE "outliers"
  /\ UNCHANGED <<store, backend, matcher, asKeyframe, isInitialized, dBow>>

ClassificationEnds(f) ==
  /\ f \in cnn
  /\ cnn' = cnn \ {f}
  /\ UNCHANGED <<store, backend, pc, matcher, asKeyframe, isInitialized, dBow>>

----------------------------------------------------------------------------
(* matchStereo, for one pair of cameras after the other: the keypoints of    *)
(* the first ...                                                             *)
NextStereoPair ==
  /\ pc = "stereo" /\ todo = {} /\ stereoPair < Len(StereoPairs)
  /\ stereoPair' = stereoPair + 1
  /\ todo' = {k \in Mine : CameraOf[Index(k)] = StereoPairs[stereoPair'][1]}
  /\ UNCHANGED <<store, backend, pc, loopMode, useOnly, pairs, asKeyframe,
                 isInitialized, memory>>

(* ... and for a keypoint k0 of it the best match in the second: two         *)
(* landmarks are merged, ...                                                 *)
StereoStep(k0, k1) ==
  /\ pc = "stereo" /\ k0 \in todo
  /\ FrameOf(k1) = Current
  /\ CameraOf[Index(k1)] = StereoPairs[stereoPair][2]
  /\ Pass(k0)
  /\ UNCHANGED pairs

MergeStereo(k0, k1) ==
  /\ StereoStep(k0, k1)
  /\ slot[k0] # 0 /\ slot[k1] # 0
  /\ Put(IF slot[k0] = slot[k1] THEN Store
         ELSE MergeLandmark(Store, slot[k1], slot[k0]))

(* ... one is observed by the other keypoint too ...                         *)
ExtendStereo(k0, k1) ==
  /\ StereoStep(k0, k1)
  /\ \/ slot[k0] = 0 /\ slot[k1] # 0 /\ Put(Associate(Store, k0, slot[k1]))
     \/ slot[k0] # 0 /\ slot[k1] = 0 /\ Put(Associate(Store, k1, slot[k0]))

(* ... or a new one is made, observed by those that it projects onto.        *)
CreateStereo(k0, k1, by0, by1) ==
  LET l  == NewId(graph)
      s  == [Store EXCEPT !.g = Place(graph, l, 1)]
      s0 == IF by0 THEN Associate(s, k0, l) ELSE s
  IN
    /\ StereoStep(k0, k1)
    /\ slot[k0] = 0 /\ slot[k1] = 0 /\ l \in Ids
    /\ Put(IF by1 THEN Associate(s0, k1, l) ELSE s0)

EndStereo ==
  /\ pc = "stereo" /\ todo = {} /\ stereoPair = Len(StereoPairs)
  /\ pc' = "outliers" /\ stereoPair' = 0
  /\ UNCHANGED <<store, backend, loopMode, useOnly, todo, pairs, asKeyframe,
                 isInitialized, memory>>

(* removeOutliers, of keypoints whose landmark exists.                       *)
RemoveOutliers(out) ==
  /\ pc = "outliers"
  /\ out \subseteq {k \in Mine : slot[k] \in Landmarks(graph)}
  /\ Put(RemoveAll(Store, out))
  /\ pc' = "clean"
  /\ UNCHANGED <<backend, matcher, asKeyframe, isInitialized, memory>>

(* cleanUnobservedLandmarks; then processFrame makes the state a keyframe if *)
(* it is to be one.                                                          *)
CleanUnobserved ==
  LET gone == Unobserved(graph)
      ks   == {k \in Keypoints : graph.obs[k].lm \in gone}
  IN /\ graph' = RemoveLandmarks(graph, gone)
     /\ slot' = [k \in Keypoints |-> IF k \in ks THEN 0 ELSE slot[k]]

Finish ==
  /\ pc = "clean"
  /\ CleanUnobserved
  /\ flagged' = IF asKeyframe THEN flagged \cup {Current} ELSE flagged
  /\ pc' = "idle"
  /\ UNCHANGED <<kind, recognisable, failed, matcher, asKeyframe,
                 isInitialized, memory>>

(* "Not enough matches, cannot initialise": Frontend::clear waits for the    *)
(* threads, ViSlamBackend::clear forgets every frame.                        *)
Clear ==
  /\ pc = "clean" /\ ~isInitialized /\ Cardinality(Present) > 1
  /\ kind' = [f \in Frames |-> IF f \in Present THEN "gone" ELSE kind[f]]
  /\ flagged' = {} /\ recognisable' = {}
  /\ graph' = EmptyGraph /\ slot' = [k \in Keypoints |-> 0]
  /\ dBow' = {} /\ cnn' = {}
  /\ pc' = "idle"
  /\ UNCHANGED <<failed, matcher, asKeyframe, isInitialized>>

----------------------------------------------------------------------------
(* Between two frames, the backend's strategy.  A state that leaves the IMU  *)
(* window stays if it is a keyframe, ...                                     *)
OldestImuFrame(f) ==
  /\ pc = "idle" /\ kind[f] = "imu" /\ f # Current
  /\ \A h \in Frames : kind[h] = "imu" => f <= h

KeepAsKeyframe(f) ==
  /\ OldestImuFrame(f) /\ f \in flagged
  /\ kind' = [kind EXCEPT ![f] = "key"]
  /\ UNCHANGED <<flagged, recognisable, store, pc, matcher, asKeyframe,
                 isInitialized, memory>>

(* ... or is eliminated with its observations and its MultiFrame.            *)
EliminateImuFrame(f) ==
  /\ OldestImuFrame(f) /\ f \notin flagged /\ Kept({"key"}) # {}
  /\ kind' = [kind EXCEPT ![f] = "gone"]
  /\ graph' = RemoveObservations(graph, KeypointsOf(f))
  /\ slot' = [k \in Keypoints |-> IF FrameOf(k) = f THEN 0 ELSE slot[k]]
  /\ UNCHANGED <<flagged, recognisable, failed, pc, matcher, asKeyframe,
                 isInitialized, memory>>

LinkTo(f) == Neighbours(graph, f, Kept({"key", "loop"}) \ {f})

(* A keyframe or loop-closure frame becomes a pose-graph frame; its slots    *)
(* stay, and tell which of its landmarks are put into the MultiFrame.        *)
ConvertToPoseGraph(f) ==
  /\ pc = "idle" /\ kind[f] \in {"key", "loop"} /\ LinkTo(f) # {}
  /\ kind' = [kind EXCEPT ![f] = "poseGraph"]
  /\ graph' = ConvertToLinks(graph, f, LinkTo(f))
  /\ recognisable' = recognisable \cup {f}
  /\ UNCHANGED <<flagged, slot, failed, pc, matcher, asKeyframe, isInitialized,
                 memory>>

DropKeyframe(f) ==
  /\ pc = "idle" /\ kind[f] \in {"key", "loop"}
  /\ LinkTo(f) = {} /\ Kept({"key", "loop"}) # {f}
  /\ kind' = [kind EXCEPT ![f] = "poseGraph"]
  /\ graph' = RemoveObservations(graph, KeypointsOf(f))
  /\ UNCHANGED <<flagged, recognisable, slot, failed, pc, matcher, asKeyframe,
                 isInitialized, memory>>

ExpandKeyframe(f) ==
  /\ pc = "idle" /\ kind[f] \in {"key", "loop"} /\ Linked(graph, f) # {}
  /\ Expand(f, "key")
  /\ UNCHANGED <<pc, matcher, asKeyframe, isInitialized, memory>>

Match ==
  \E k \in todo :
    \/ \E l \in Ids : \/ MatchInitialised(k, l)
                      \/ MatchUninitialised(k, l) \/ RejectUninitialised(k, l)
    \/ NoMatch(k)
    \/ \E k1 \in Mine :
         \/ MergeStereo(k, k1) \/ ExtendStereo(k, k1)
         \/ \E by0, by1 \in BOOLEAN : CreateStereo(k, k1, by0, by1)
Outliers ==
  \E out \in SUBSET (IF Present = {} THEN {} ELSE Mine) :
    \/ FirstInliers(out) \/ SecondInliers(out)
    \/ RunRansac2d2d(out) \/ RemoveOutliers(out)

Next ==
  \/ \E f \in Frames : AddStates(f)
  \/ Match \/ Outliers
  \/ \E k0, k1 \in Keypoints : MatchMotionStereo(k0, k1)
  \/ DecideKeyframe \/ SkipQuery \/ FindNothing \/ Redecide
  \/ \E f \in Frames : CloseLoop(f) \/ ClassificationEnds(f)
  \/ RememberPlace \/ Classify \/ NextStereoPair \/ EndStereo
  \/ Finish \/ Clear
  \/ \E f \in Frames : KeepAsKeyframe(f) \/ EliminateImuFrame(f)
  \/ \E f \in Frames : ConvertToPoseGraph(f) \/ DropKeyframe(f)
                      \/ ExpandKeyframe(f)

Spec == Init /\ [][Next]_vars

----------------------------------------------------------------------------
(* Every variable keeps its type, and the matching loops run over keypoints  *)
(* of the current frame (the arguments of dataAssociationAndInitialization). *)
TypeOK ==
  /\ kind \in [Frames -> {"coming", "imu", "key", "loop", "poseGraph", "gone"}]
  /\ flagged \cup recognisable \cup dBow \cup cnn \subseteq Frames
  /\ graph.point \in [Ids -> 0 .. 1] /\ graph.obs \in [Keypoints -> Obs]
  /\ slot \in [Keypoints -> 0 .. MaxId]
  /\ pc \in {"idle", "initialised", "uninitialised", "motionStereo",
             "recognise", "redecide", "remember", "classify", "stereo",
             "outliers", "clean"}
  /\ todo # {} => todo \subseteq Mine
  /\ stereoPair \in 0 .. Len(StereoPairs)
  /\ useOnly \subseteq Ids
  /\ {loopMode, asKeyframe, isInitialized, failed} \subseteq BOOLEAN

(* No call of the frontend meets an assertion of the backend: a keypoint is  *)
(* never observed twice ("observation already exists"), no observation is    *)
(* added to a missing landmark or taken where there is none, no landmark     *)
(* that another merging removed is merged, although the slots of frames that *)
(* were in the pose graph are out of date (ViGraph.hpp:304-313,              *)
(* ViGraph.cpp:480, ViGraphEstimator.cpp:160).                               *)
NoAssertionFails == ~failed

(* In the IMU window the multi-frames and the graph agree about what every   *)
(* keypoint observes, across matching, merging, expansion and cleaning; so   *)
(* removeOutliers and the next matching work on what is there.               *)
SlotsFollowGraph ==
  \A k \in Keypoints : kind[FrameOf(k)] = "imu" => slot[k] = graph.obs[k].lm

(* What outlives the frame has a frame to refer to: place recognition asks   *)
(* for the MultiFrame of every frame of its database, and the classification *)
(* threads hold a plain pointer to theirs ("otherwise we might delete a      *)
(* frame before the CNN finishes").                                          *)
RememberedFramesKept == dBow \cup cnn \subseteq Present
=============================================================================
