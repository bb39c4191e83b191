----------------------------- MODULE GraphSync -----------------------------
(* The landmarks, observations and pose-graph links of the realtime graph    *)
(* and of the full graph of ViSlamBackend, every operation that changes      *)
(* them, and synchroniseRealtimeAndFullGraph.                                *)
(*                                                                           *)
(* While the full graph is with the background thread (or its result waits), *)
(* the backend changes the realtime graph only and notes what it touched;    *)
(* LoopClosureThreads has the flags and threads behind "deferring", here an  *)
(* operation is one step.                                                    *)
EXTENDS LandmarkGraph

CONSTANTS
  MaxDeferred,  \* bound: operations while one full-graph optimisation runs
  Covisible     \* TRUE: while writes are deferred, a keyframe that leaves the
                \* window shares a landmark with another one

ASSUME BoundsAssumption == MaxDeferred \in Nat /\ Covisible \in BOOLEAN

VARIABLES
  kind,             \* imuFrames_, keyFrames_ with loopClosureFrames_, the
                    \* pose-graph frames, and the frames eliminated
  recognisable,     \* frames whose landmarks were put into the multi-frame
                    \* (MultiFrame::setLandmark), which recognition needs
  rt, full,         \* realtimeGraph_, fullGraph_
  needs,            \* needsFullGraphOptimisation_
  deferring,        \* isLoopClosing_ || isLoopClosureAvailable_
  touchedLandmarks, touchedStates, eliminateStates,
  deferred,         \* number of operations deferred
  born              \* number of points triangulated

pending == <<touchedLandmarks, touchedStates, eliminateStates>>
vars ==
  <<kind, recognisable, rt, full, needs, deferring, pending, deferred, born>>

Init ==
  /\ kind = [f \in Frames |-> "imu"]
  /\ recognisable = {}
  /\ rt = EmptyGraph /\ full = EmptyGraph
  /\ needs = FALSE /\ deferring = FALSE
  /\ touchedLandmarks = {} /\ touchedStates = {} /\ eliminateStates = {}
  /\ deferred = 0 /\ born = 0

----------------------------------------------------------------------------
(* ViSlamBackend: the realtime graph changes; so does the full graph, or     *)
(* what the operation concerns is remembered.                                *)
Touch(ls, fs) ==
  /\ deferring => deferred < MaxDeferred
  /\ deferred' = IF deferring THEN deferred + 1 ELSE 0
  /\ touchedLandmarks' = IF deferring THEN touchedLandmarks \cup ls
                                      ELSE touchedLandmarks
  /\ touchedStates' =
       IF deferring THEN touchedStates \cup fs ELSE touchedStates

Both(rtNew, fullNew) ==
  /\ rt' = rtNew
  /\ full' = IF deferring THEN full ELSE fullNew

InWindow == {f \in Frames : kind[f] \in {"imu", "key"}}
Keys == {f \in Frames : kind[f] = "key"}

(* The frontend triangulates a new point.                                    *)
AddLandmark ==
  LET l == NewId(rt) IN
    /\ l <= MaxId /\ born < MaxPoints
    /\ born' = born + 1
    /\ Both(Place(rt, l, born'), Place(full, l, born'))
    /\ Touch({l}, {})
    /\ UNCHANGED <<kind, recognisable, needs, deferring, eliminateStates>>

(* The frontend sets the keypoint's landmark id and adds the observation.    *)
AddObservation(k, l) ==
  /\ FrameOf(k) \in InWindow /\ rt.obs[k] = NoObs
  /\ l \in Landmarks(rt)
  /\ Both(Observe(rt, k, l), Observe(full, k, l))
  /\ Touch({l}, {FrameOf(k)})
  /\ UNCHANGED <<kind, recognisable, needs, deferring, eliminateStates, born>>

(* Slip: only the state is remembered, not the landmark.                     *)
RemoveObservationUntouched(k) ==
  /\ rt.obs[k] # NoObs
  /\ Both(RemoveObservations(rt, {k}), RemoveObservations(full, {k}))
  /\ Touch({}, {FrameOf(k)})
  /\ UNCHANGED <<kind, recognisable, needs, deferring, eliminateStates, born>>

RemoveObservation(k) ==
  /\ rt.obs[k] # NoObs
  /\ Both(RemoveObservations(rt, {k}), RemoveObservations(full, {k}))
  /\ Touch({rt.obs[k].lm}, {FrameOf(k)})
  /\ UNCHANGED <<kind, recognisable, needs, deferring, eliminateStates, born>>

CleanUnobservedLandmarks ==
  LET gone == Unobserved(rt)
      ks   == {k \in Keypoints : rt.obs[k].lm \in gone} IN
    /\ gone # {}
    /\ Both(RemoveLandmarks(rt, gone), RemoveLandmarks(full, Unobserved(full)))
    /\ Touch(gone, {FrameOf(k) : k \in ks})
    /\ UNCHANGED <<kind, recognisable, needs, deferring, eliminateStates,
                   born>>

MergeLandmark(from, into) ==
  /\ {from, into} \subseteq Landmarks(rt) /\ from # into
  /\ Both(Merge(rt, from, into), Merge(full, from, into))
  /\ Touch({from, into}, {FrameOf(k) : k \in Observers(rt', into)})
  /\ UNCHANGED <<kind, recognisable, needs, deferring, eliminateStates, born>>

(* eliminateImuFrames, the oldest first: a state leaves the IMU window as a  *)
(* keyframe ...                                                              *)
OldestImuFrame(f) ==
  kind[f] = "imu" /\ \A h \in Frames : kind[h] = "imu" => f <= h

KeepAsKeyframe(f) ==
  /\ OldestImuFrame(f)
  /\ kind' = [kind EXCEPT ![f] = "key"]
  /\ UNCHANGED <<recognisable, rt, full, needs, deferring, pending, deferred,
                 born>>

(* ... or is eliminated, which needs a keyframe to refer to.                 *)
EliminateImuFrame(f) ==
  /\ OldestImuFrame(f) /\ Keys # {}
  /\ kind' = [kind EXCEPT ![f] = "gone"]
  /\ Both(RemoveObservations(rt, KeypointsOf(f)),
          RemoveObservations(full, KeypointsOf(f)))
  /\ eliminateStates' = IF deferring THEN eliminateStates \cup {f}
                                     ELSE eliminateStates
  /\ Touch(LandmarksIn(rt, f), {})
  /\ UNCHANGED <<recognisable, needs, deferring, born>>

(* applyStrategy: a keyframe leaves the window.                              *)
LinkTo(f) == Neighbours(rt, f, Keys \ {f})

(* What convertToPoseGraphMst remembers of the observations it removes.      *)
LandmarksInFull(ks) == {full.obs[k].lm : k \in ks} \ {0}

ConvertToPoseGraphMst(f) ==
  LET ks == {k \in KeypointsOf(f) : rt.obs[k] # NoObs}
      hs == LinkTo(f)
  IN
    /\ kind[f] = "key" /\ hs # {}
    /\ kind' = [kind EXCEPT ![f] = "poseGraph"]
    /\ Both(ConvertToLinks(rt, f, hs),
            [RemoveObservations(full, ks) EXCEPT
               !.link = [p \in Links |->
                           IF \E h \in hs : p = {f, h} THEN rt'.link[p]
                                                       ELSE full.link[p]]])
    /\ Touch(LandmarksInFull(ks),
             hs \cup {f} \cup {FrameOf(k) : k \in ks})
    /\ recognisable' = recognisable \cup {f}
    /\ UNCHANGED <<needs, deferring, eliminateStates, born>>

(* "handle weird case that might happen with (almost) no matches"            *)
DropKeyframe(f) ==
  /\ kind[f] = "key" /\ Keys # {f}
  /\ LinkTo(f) = {} /\ (deferring => ~Covisible)
  /\ kind' = [kind EXCEPT ![f] = "poseGraph"]
  /\ Both(RemoveObservations(rt, KeypointsOf(f)),
          RemoveObservations(full, KeypointsOf(f)))
  /\ Touch({}, {f})
  /\ UNCHANGED <<recognisable, needs, deferring, eliminateStates, born>>

(* The full graph follows the links of f that became observations again: it  *)
(* loses the links and gains the missing landmarks and the observations.     *)
FollowExpansion(f) ==
  LET back == Returning(rt, f) IN
    [point |-> [l \in Ids |->
                  IF full.point[l] = 0 /\ \E r \in back : r.obs.lm = l
                    THEN rt'.point[l] ELSE full.point[l]],
     obs   |-> [k \in Keypoints |->
                  IF \E r \in back : r.kid = k THEN rt'.obs[k]
                                               ELSE full.obs[k]],
     link  |-> [p \in Links |-> IF f \in p THEN {} ELSE full.link[p]]]

Expand(f) ==
  /\ kind' = [h \in Frames |->
                IF h \in Linked(rt, f) \cup {f} THEN "key" ELSE kind[h]]
  /\ Both(ConvertToObservations(rt, f), FollowExpansion(f))
  /\ Touch({r.obs.lm : r \in Returning(rt, f)}, Linked(rt, f))
  /\ UNCHANGED <<recognisable, deferring, eliminateStates, born>>

ExpandKeyframe(f) ==
  /\ kind[f] = "key" /\ Linked(rt, f) # {}
  /\ Expand(f)
  /\ UNCHANGED needs

(* A recognised pose-graph frame comes back to the window; the full graph is *)
(* optimised unless the correction is small.                                 *)
AddLoopClosureFrame(f) ==
  /\ ~deferring /\ ~needs
  /\ kind[f] = "poseGraph" /\ f \in recognisable
  /\ Expand(f)
  /\ needs' \in BOOLEAN

----------------------------------------------------------------------------
OptimiseFullGraph ==
  /\ needs /\ ~deferring
  /\ needs' = FALSE
  /\ deferring' = TRUE
  /\ UNCHANGED <<kind, recognisable, rt, full, pending, deferred, born>>

(* synchroniseRealtimeAndFullGraph, in its order: landmarks that have        *)
(* disappeared, eliminated states, new landmarks, landmark positions back to *)
(* the realtime graph, observations of touched landmarks, links of touched   *)
(* states.                                                                   *)
Disappeared == Landmarks(full) \ Landmarks(rt)
Reduced ==
  RemoveObservations(RemoveLandmarks(full, Disappeared),
                     UNION {KeypointsOf(f) : f \in eliminateStates})
SyncedPoint ==
  [l \in Ids |->
     IF Reduced.point[l] = 0 THEN rt.point[l] ELSE Reduced.point[l]]
(* Slip: the observations of touched landmarks are removed, not copied.      *)
SyncedObsUncopied ==
  [k \in Keypoints |-> IF Reduced.obs[k].lm \in touchedLandmarks
                         THEN NoObs ELSE Reduced.obs[k]]

SyncedObs ==
  LET cleared == {k \in Keypoints : Reduced.obs[k].lm \in touchedLandmarks} IN
    [k \in Keypoints |->
       IF rt.obs[k] # NoObs /\ rt.obs[k].lm \in touchedLandmarks THEN rt.obs[k]
       ELSE IF k \in cleared THEN NoObs ELSE Reduced.obs[k]]
SyncedLinks ==
  [p \in Links |->
     IF p \cap touchedStates # {} THEN rt.link[p] ELSE full.link[p]]

SynchroniseRealtimeAndFullGraph ==
  /\ deferring
  /\ deferring' = FALSE
  /\ full' = [point |-> SyncedPoint, obs |-> SyncedObs, link |-> SyncedLinks]
  /\ rt' = [rt EXCEPT !.point = SyncedPoint]
  /\ touchedLandmarks' = {} /\ touchedStates' = {} /\ eliminateStates' = {}
  /\ deferred' = 0
  /\ UNCHANGED <<kind, recognisable, needs, born>>

Next ==
  \/ AddLandmark
  \/ \E k \in Keypoints, l \in Ids : AddObservation(k, l)
  \/ \E k \in Keypoints : RemoveObservation(k)
  \/ CleanUnobservedLandmarks
  \/ \E from, into \in Ids : MergeLandmark(from, into)
  \/ \E f \in Frames : KeepAsKeyframe(f) \/ EliminateImuFrame(f)
  \/ \E f \in Frames : ConvertToPoseGraphMst(f) \/ DropKeyframe(f)
  \/ \E f \in Frames : ExpandKeyframe(f) \/ AddLoopClosureFrame(f)
  \/ OptimiseFullGraph
  \/ SynchroniseRealtimeAndFullGraph

Spec == Init /\ [][Next]_vars

----------------------------------------------------------------------------
(* Every variable keeps its type; touched ids and states are ones that exist *)
(* (ViGraph::landmarks_, observations_, ViSlamBackend's bookkeeping).        *)
TypeOK ==
  /\ kind \in [Frames -> {"imu", "key", "poseGraph", "gone"}]
  /\ recognisable \subseteq Frames
  /\ {rt.point, full.point} \subseteq [Ids -> 0 .. MaxPoints]
  /\ rt.obs \in [Keypoints -> Obs] /\ full.obs \in [Keypoints -> Obs]
  /\ {needs, deferring} \subseteq BOOLEAN
  /\ touchedLandmarks \subseteq Ids
  /\ touchedStates \cup eliminateStates \subseteq Frames
  /\ deferred \in 0 .. MaxDeferred /\ born \in 0 .. MaxPoints

(* Whenever nothing is deferred the two graphs are the same: the direct      *)
(* branch of every operation mirrors it, and the synchronisation after a     *)
(* loop closure restores equality (isSynched).                               *)
GraphsAgree == ~deferring => rt = full

(* While writes are deferred, whatever differs between the graphs will be    *)
(* found by the synchronisation: through a touched landmark, a landmark that *)
(* disappeared, an eliminated state or a touched state.                      *)
DifferencesRemembered ==
  deferring =>
    /\ \A k \in Keypoints : rt.obs[k] # full.obs[k] =>
         /\ rt.obs[k] # NoObs => rt.obs[k].lm \in touchedLandmarks
         /\ full.obs[k] # NoObs =>
              \/ full.obs[k].lm \in touchedLandmarks \cup Disappeared
              \/ FrameOf(k) \in eliminateStates
    /\ \A p \in Links : rt.link[p] # full.link[p] => p \cap touchedStates # {}

(* An observation belongs to a landmark that exists and is made by a frame   *)
(* of the window.                                                            *)
ObservationsBacked ==
  \A k \in Keypoints :
    /\ rt.obs[k] # NoObs => /\ rt.obs[k].lm \in Landmarks(rt)
                            /\ FrameOf(k) \in InWindow
    /\ full.obs[k] # NoObs => full.obs[k].lm \in Landmarks(full)

(* cleanUnobservedLandmarks asserts that it removes as many landmarks from   *)
(* the full graph as from the realtime graph ("landmarks cleaned             *)
(* inconsistent!").                                                          *)
CleanedConsistently ==
  ~deferring => Cardinality(Unobserved(rt)) = Cardinality(Unobserved(full))
=============================================================================
