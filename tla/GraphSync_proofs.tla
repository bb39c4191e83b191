-------------------------- MODULE GraphSync_proofs --------------------------
(* Theorems about the realtime and the full graph of GraphSync.              *)
EXTENDS GraphSync, LandmarkGraph_proofs

(* ------------------------------------------------------------------------- *)
(* Both graphs.                                                              *)

LinkedFrames == {"key", "poseGraph"}

(* What the kinds of the frames say about observations and links.            *)
Kinds ==
  /\ DOMAIN kind = Frames
  /\ \A k \in Keypoints : rt.obs[k] # NoObs => FrameOf(k) \in InWindow
  /\ \A f, h \in Frames : rt.link[{f, h}] # {} =>
        kind[f] \in LinkedFrames /\ kind[h] \in LinkedFrames
  /\ \A f \in eliminateStates : f \in Frames /\ kind[f] = "gone"

SyncInv ==
  /\ GraphOk(rt) /\ GraphOk(full) /\ Kinds
  /\ born \in Nat /\ deferring \in BOOLEAN
  /\ 0 \notin touchedLandmarks

SyncIInv == SyncInv /\ GraphsAgree /\ DifferencesRemembered

(* The empty graphs agree.                                                   *)
LEMMA SyncInit == Init => SyncIInv
<1>. SUFFICES ASSUME Init PROVE SyncIInv
  OBVIOUS
<1>1. \A f, h \in Frames : rt.link[{f, h}] = {}
  BY DEF Init, EmptyGraph, Links
<1>2. \A k \in Keypoints : rt.obs[k] = NoObs
  BY DEF Init, EmptyGraph
<1>. QED BY <1>1, <1>2, EmptyOk
         DEF Init, SyncIInv, SyncInv, Kinds, GraphsAgree, DifferencesRemembered

(* An operation that would change both graphs alike keeps them equal ...     *)
LEMMA OperationAgrees ==
  ASSUME SyncIInv, NEW a, NEW b, Both(a, b), GraphOk(a), deferring' = deferring,
         rt = full => a = b
  PROVE  GraphsAgree' /\ GraphOk(rt') /\ GraphOk(full')
BY DEF SyncIInv, SyncInv, GraphsAgree, Both

(* ... and while it changes the realtime graph only, what it changes there   *)
(* must be remembered.                                                       *)
Remembers ==
  /\ \A k \in Keypoints : rt'.obs[k] # rt.obs[k] =>
       /\ rt'.obs[k] # NoObs => rt'.obs[k].lm \in touchedLandmarks'
       /\ rt.obs[k] # NoObs => \/ rt.obs[k].lm \in touchedLandmarks'
                               \/ FrameOf(k) \in eliminateStates'
  /\ \A l \in Landmarks(rt') : l \in Landmarks(rt) \cup touchedLandmarks'
  /\ \A p \in Links : rt'.link[p] # rt.link[p] => p \cap touchedStates' # {}

(* Then everything in which the graphs differ stays covered.                 *)
LEMMA OperationRemembers ==
  ASSUME DifferencesRemembered, deferring' => deferring, deferring => full' = full,
         touchedLandmarks \subseteq touchedLandmarks',
         touchedStates \subseteq touchedStates',
         eliminateStates \subseteq eliminateStates',
         deferring => Remembers
  PROVE  DifferencesRemembered'
<1>. SUFFICES ASSUME deferring, deferring' PROVE DifferencesRemembered'
  BY DEF DifferencesRemembered
<1>1. ASSUME NEW k \in Keypoints, rt'.obs[k] # full.obs[k]
      PROVE  /\ rt'.obs[k] # NoObs => rt'.obs[k].lm \in touchedLandmarks'
             /\ full.obs[k] # NoObs =>
                  \/ full.obs[k].lm \in touchedLandmarks' \cup Disappeared'
                  \/ FrameOf(k) \in eliminateStates'
  <2>1. full.obs[k].lm \in Disappeared =>
          full.obs[k].lm \in touchedLandmarks' \cup Disappeared'
    BY DEF Disappeared, Remembers
  <2>2. CASE rt'.obs[k] = rt.obs[k]
    BY <1>1, <2>1, <2>2 DEF DifferencesRemembered
  <2>3. CASE rt'.obs[k] # rt.obs[k] /\ rt.obs[k] = full.obs[k]
    BY <2>3 DEF Remembers
  <2>4. CASE rt'.obs[k] # rt.obs[k] /\ rt.obs[k] # full.obs[k]
    BY <2>1, <2>4 DEF Remembers, DifferencesRemembered
  <2>. QED BY <2>2, <2>3, <2>4
<1>2. \A p \in Links : rt'.link[p] # full.link[p] => p \cap touchedStates' # {}
  BY DEF Remembers, DifferencesRemembered
<1>. QED BY <1>1, <1>2 DEF DifferencesRemembered

(* What an operation has to do to keep the invariant: the same to two equal  *)
(* graphs, and while it is deferred, remember what it changes.               *)
LEMMA OperationOk ==
  ASSUME SyncIInv, NEW a, NEW b, Both(a, b), NEW ls, NEW fs, Touch(ls, fs),
         GraphOk(a), rt = full => a = b, 0 \notin ls, deferring => Remembers,
         deferring' = deferring, eliminateStates \subseteq eliminateStates',
         Kinds', born' \in Nat
  PROVE  SyncIInv'
<1>1. GraphsAgree' /\ GraphOk(rt') /\ GraphOk(full')
  BY OperationAgrees
<1>2. /\ touchedLandmarks \subseteq touchedLandmarks'
      /\ touchedStates \subseteq touchedStates' /\ 0 \notin touchedLandmarks'
  BY DEF Touch, SyncIInv, SyncInv
<1>3. deferring => full' = full
  BY DEF Both
<1>4. DifferencesRemembered'
  BY <1>2, <1>3, OperationRemembers DEF SyncIInv
<1>. QED BY <1>1, <1>2, <1>4 DEF SyncIInv, SyncInv

(* An operation that changes observations of frames in the window, and no    *)
(* link and no kind.                                                         *)
LEMMA KindsKept ==
  ASSUME Kinds, UNCHANGED <<kind, eliminateStates>>, rt'.link = rt.link,
         \A k \in Keypoints : rt'.obs[k] # NoObs => FrameOf(k) \in InWindow
  PROVE  Kinds'
BY DEF Kinds, InWindow

(* One lemma per operation: it does the same to both graphs, and touches     *)
(* what it changes.                                                          *)
LEMMA AddLandmarkOk == SyncIInv /\ AddLandmark => SyncIInv'
<1>. SUFFICES ASSUME SyncIInv, AddLandmark PROVE SyncIInv'
  OBVIOUS
<1>. DEFINE l == NewId(rt)
<1>1. /\ l <= MaxId /\ born' = born + 1 /\ Both(Place(rt, l, born'), Place(full, l, born'))
      /\ Touch({l}, {}) /\ UNCHANGED <<kind, deferring, eliminateStates>>
  BY DEF AddLandmark
<1>2. l \in Ids
  <2>1. CASE Landmarks(rt) = {}
    BY <1>1, <2>1, IdsAssumption DEF NewId, Ids
  <2>2. CASE Landmarks(rt) # {}
    <3>1. IsFiniteSet(Ids)
      BY IdsAssumption, FS_Interval DEF Ids
    <3>2. IsFiniteSet(Landmarks(rt)) /\ \A m \in Landmarks(rt) : m \in Nat
      BY <3>1, FS_Subset, IdType DEF Landmarks
    <3>3. Max(Landmarks(rt)) \in Nat
      BY <2>2, <3>2, FiniteSetHasMax DEF HasMax, IsMax
    <3>. QED BY <1>1, <2>2, <3>3, IdsAssumption DEF NewId, Ids
  <2>. QED BY <2>1, <2>2
<1>. HIDE DEF l
<1>3. born' \in Nat \ {0}
  BY <1>1 DEF SyncIInv, SyncInv
<1>4. GraphOk(Place(rt, l, born'))
  BY <1>2, <1>3, PlaceOk DEF SyncIInv, SyncInv
<1>5. /\ rt'.obs = rt.obs /\ rt'.link = rt.link
      /\ \A m \in Landmarks(rt') : m \in Landmarks(rt) \/ m = l
  BY <1>1, <1>2 DEF Both, Place, Landmarks, SyncIInv, SyncInv, GraphOk, Graph
<1>6. Kinds'
  BY <1>1, <1>5, KindsKept DEF SyncIInv, SyncInv, Kinds
<1>7. deferring => Remembers
  BY <1>1, <1>5 DEF Remembers, Touch
<1>8. 0 \notin {l}
  BY <1>2, IdType
<1>. QED BY <1>1, <1>3, <1>4, <1>6, <1>7, <1>8, OperationOk

LEMMA AddObservationOk ==
  ASSUME SyncIInv, NEW k \in Keypoints, NEW l \in Ids, AddObservation(k, l)
  PROVE  SyncIInv'
<1>1. /\ FrameOf(k) \in InWindow /\ rt.obs[k] = NoObs /\ l \in Landmarks(rt)
      /\ Both(Observe(rt, k, l), Observe(full, k, l))
      /\ Touch({l}, {FrameOf(k)})
      /\ UNCHANGED <<kind, deferring, eliminateStates, born>>
  BY DEF AddObservation
<1>2. GraphOk(Observe(rt, k, l))
  BY <1>1, ObserveOk DEF SyncIInv, SyncInv
<1>3. /\ rt'.link = rt.link /\ rt'.point = rt.point
      /\ rt'.obs = [rt.obs EXCEPT ![k] = [lm |-> l, point |-> rt.point[l]]]
  BY <1>1 DEF Both, Observe, SyncIInv, SyncInv, GraphOk, Graph
<1>4. rt'.obs[k].lm = l /\ \A m \in Keypoints \ {k} : rt'.obs[m] = rt.obs[m]
  BY <1>3 DEF SyncIInv, SyncInv, GraphOk, Graph
<1>5. Kinds'
  BY <1>1, <1>3, <1>4, KindsKept DEF SyncIInv, SyncInv, Kinds
<1>6. deferring => Remembers
  BY <1>1, <1>3, <1>4 DEF Remembers, Touch, Landmarks
<1>7. 0 \notin {l}
  BY IdType
<1>. QED BY <1>1, <1>2, <1>5, <1>6, <1>7, OperationOk DEF SyncIInv, SyncInv

LEMMA RemoveObservationOk ==
  ASSUME SyncIInv, NEW k \in Keypoints, RemoveObservation(k)
  PROVE  SyncIInv'
<1>1. /\ rt.obs[k] # NoObs
      /\ Both(RemoveObservations(rt, {k}), RemoveObservations(full, {k}))
      /\ Touch({rt.obs[k].lm}, {FrameOf(k)})
      /\ UNCHANGED <<kind, deferring, eliminateStates, born>>
  BY DEF RemoveObservation
<1>2. GraphOk(RemoveObservations(rt, {k}))
  BY RemoveObservationsOk DEF SyncIInv, SyncInv
<1>3. /\ rt'.link = rt.link /\ rt'.point = rt.point /\ rt'.obs[k] = NoObs
      /\ \A m \in Keypoints \ {k} : rt'.obs[m] = rt.obs[m]
  BY <1>1, RemovedFields DEF Both, SyncIInv, SyncInv
<1>4. Kinds'
  BY <1>1, <1>3, KindsKept DEF SyncIInv, SyncInv, Kinds
<1>5. deferring => Remembers
  BY <1>1, <1>3 DEF Remembers, Touch, Landmarks
<1>6. 0 \notin {rt.obs[k].lm}
  BY <1>1, LandmarkType, IdType DEF SyncIInv, SyncInv, GraphOk, ObsOk
<1>. QED BY <1>1, <1>2, <1>4, <1>5, <1>6, OperationOk DEF SyncIInv, SyncInv

LEMMA CleanUnobservedLandmarksOk ==
  SyncIInv /\ CleanUnobservedLandmarks => SyncIInv'
<1>. SUFFICES ASSUME SyncIInv, CleanUnobservedLandmarks PROVE SyncIInv'
  OBVIOUS
<1>. DEFINE gone == Unobserved(rt)
            ks   == {k \in Keypoints : rt.obs[k].lm \in gone}
<1>1. /\ Both(RemoveLandmarks(rt, gone), RemoveLandmarks(full, Unobserved(full)))
      /\ Touch(gone, {FrameOf(k) : k \in ks})
      /\ UNCHANGED <<kind, deferring, eliminateStates, born>>
  BY DEF CleanUnobservedLandmarks
<1>0. 0 \notin gone
  BY IdType DEF Unobserved, Landmarks
<1>0a. rt = full => RemoveLandmarks(rt, gone) = RemoveLandmarks(full, Unobserved(full))
  OBVIOUS
<1>. HIDE DEF gone
<1>2. GraphOk(RemoveLandmarks(rt, gone))
  BY RemoveLandmarksOk DEF SyncIInv, SyncInv
<1>3. /\ rt'.link = rt.link
      /\ rt'.point = [l \in Ids |-> IF l \in gone THEN 0 ELSE rt.point[l]]
      /\ rt'.obs = [k \in Keypoints |-> IF rt.obs[k].lm \in gone THEN NoObs
                                                              ELSE rt.obs[k]]
  BY <1>1 DEF Both, RemoveLandmarks, RemoveObservations, SyncIInv, SyncInv,
              GraphOk, Graph
<1>4. Kinds'
  BY <1>1, <1>3, KindsKept DEF SyncIInv, SyncInv, Kinds
<1>5. deferring => Remembers
  BY <1>1, <1>3 DEF Remembers, Touch, Landmarks
<1>. QED BY <1>0, <1>0a, <1>1, <1>2, <1>4, <1>5, OperationOk DEF SyncIInv, SyncInv

LEMMA MergeLandmarkOk ==
  ASSUME SyncIInv, NEW from \in Ids, NEW into \in Ids, MergeLandmark(from, into)
  PROVE  SyncIInv'
<1>. DEFINE o == [lm |-> into, point |-> rt.point[into]]
<1>1. /\ from \in Landmarks(rt) /\ into \in Landmarks(rt) /\ from # into
      /\ Both(Merge(rt, from, into), Merge(full, from, into))
      /\ Touch({from, into}, {FrameOf(k) : k \in Observers(rt', into)})
      /\ UNCHANGED <<kind, deferring, eliminateStates, born>>
  BY DEF MergeLandmark
<1>2. GraphOk(Merge(rt, from, into))
  BY <1>1, MergeOk DEF SyncIInv, SyncInv
<1>3. /\ rt'.link = rt.link /\ rt'.point = [rt.point EXCEPT ![from] = 0]
      /\ rt'.obs = [k \in Keypoints |->
                      IF rt.obs[k].lm = from THEN o ELSE rt.obs[k]]
  BY <1>1 DEF Both, Merge, SyncIInv, SyncInv, GraphOk, Graph
<1>4. o.lm = into
  OBVIOUS
<1>. HIDE DEF o
<1>5. Kinds'
  <2>1. \A k \in Keypoints : rt.obs[k].lm = from => rt.obs[k] # NoObs
    BY NoObsType
  <2>. QED BY <1>1, <1>3, <2>1, KindsKept DEF SyncIInv, SyncInv, Kinds
<1>6. deferring => Remembers
  BY <1>1, <1>3, <1>4 DEF Remembers, Touch, Landmarks
<1>7. 0 \notin {from, into}
  BY IdType
<1>. QED BY <1>1, <1>2, <1>5, <1>6, <1>7, OperationOk DEF SyncIInv, SyncInv

LEMMA KeepAsKeyframeOk ==
  ASSUME SyncIInv, NEW f \in Frames, KeepAsKeyframe(f)
  PROVE  SyncIInv'
<1>1. /\ kind[f] = "imu" /\ kind' = [kind EXCEPT ![f] = "key"]
      /\ UNCHANGED <<rt, full, deferring, eliminateStates, touchedLandmarks,
                     touchedStates, born>>
  BY DEF KeepAsKeyframe, OldestImuFrame, pending
<1>2. \A h \in Frames : kind'[h] = IF h = f THEN "key" ELSE kind[h]
  BY <1>1 DEF SyncIInv, SyncInv, Kinds
<1>3. Kinds'
  BY <1>1, <1>2 DEF SyncIInv, SyncInv, Kinds, InWindow, LinkedFrames
<1>. QED BY <1>1, <1>3 DEF SyncIInv, SyncInv, GraphsAgree,
                           DifferencesRemembered, Disappeared

LEMMA EliminateImuFrameOk ==
  ASSUME SyncIInv, NEW f \in Frames, EliminateImuFrame(f)
  PROVE  SyncIInv'
<1>1. /\ kind[f] = "imu" /\ kind' = [kind EXCEPT ![f] = "gone"]
      /\ Both(RemoveObservations(rt, KeypointsOf(f)),
              RemoveObservations(full, KeypointsOf(f)))
      /\ eliminateStates' = IF deferring THEN eliminateStates \cup {f}
                                         ELSE eliminateStates
      /\ Touch(LandmarksIn(rt, f), {})
      /\ UNCHANGED <<deferring, born>>
  BY DEF EliminateImuFrame, OldestImuFrame
<1>2. GraphOk(RemoveObservations(rt, KeypointsOf(f)))
  BY RemoveObservationsOk DEF SyncIInv, SyncInv
<1>3. /\ rt'.link = rt.link /\ rt'.point = rt.point
      /\ \A k \in Keypoints :
           rt'.obs[k] = IF FrameOf(k) = f THEN NoObs ELSE rt.obs[k]
  BY <1>1, RemovedFields DEF Both, SyncIInv, SyncInv, KeypointsOf
<1>4. Kinds'
  <2>1. \A h \in Frames : kind'[h] = IF h = f THEN "gone" ELSE kind[h]
    BY <1>1 DEF SyncIInv, SyncInv, Kinds
  <2>. QED BY <1>1, <1>3, <2>1 DEF SyncIInv, SyncInv, Kinds, InWindow, LinkedFrames
<1>5. deferring => Remembers
  BY <1>1, <1>3 DEF Remembers, Touch, Landmarks
<1>6. 0 \notin LandmarksIn(rt, f)
  BY DEF LandmarksIn
<1>. QED BY <1>1, <1>2, <1>4, <1>5, <1>6, OperationOk DEF SyncIInv, SyncInv

LEMMA DropKeyframeOk ==
  ASSUME Covisible, SyncIInv, NEW f \in Frames, DropKeyframe(f)
  PROVE  SyncIInv'
<1>1. /\ kind[f] = "key" /\ kind' = [kind EXCEPT ![f] = "poseGraph"]
      /\ ~deferring
      /\ Both(RemoveObservations(rt, KeypointsOf(f)),
              RemoveObservations(full, KeypointsOf(f)))
      /\ Touch({}, {f})
      /\ UNCHANGED <<deferring, eliminateStates, born>>
  BY DEF DropKeyframe
<1>2. GraphOk(RemoveObservations(rt, KeypointsOf(f)))
  BY RemoveObservationsOk DEF SyncIInv, SyncInv
<1>3. /\ rt'.link = rt.link /\ rt'.point = rt.point
      /\ \A k \in Keypoints :
           rt'.obs[k] = IF FrameOf(k) = f THEN NoObs ELSE rt.obs[k]
  BY <1>1, RemovedFields DEF Both, SyncIInv, SyncInv, KeypointsOf
<1>4. Kinds'
  <2>1. \A h \in Frames : kind'[h] = IF h = f THEN "poseGraph" ELSE kind[h]
    BY <1>1 DEF SyncIInv, SyncInv, Kinds
  <2>. QED BY <1>1, <1>3, <2>1 DEF SyncIInv, SyncInv, Kinds, InWindow, LinkedFrames
<1>. QED BY <1>1, <1>2, <1>4, OperationOk DEF SyncIInv, SyncInv

(* The links made in one graph are copied to the other.                      *)
LEMMA ConvertOk ==
  ASSUME SyncIInv, NEW f \in Frames, ConvertToPoseGraphMst(f)
  PROVE  SyncIInv'
<1>. DEFINE ks == {k \in KeypointsOf(f) : rt.obs[k] # NoObs}
            hs == LinkTo(f)
            a  == ConvertToLinks(rt, f, hs)
            b  == [RemoveObservations(full, ks) EXCEPT
                     !.link = [p \in Links |->
                                 IF \E h \in hs : p = {f, h} THEN rt'.link[p]
                                                             ELSE full.link[p]]]
            ls == LandmarksInFull(ks)
            fs == hs \cup {f} \cup {FrameOf(k) : k \in ks}
<1>1. /\ kind[f] = "key" /\ kind' = [kind EXCEPT ![f] = "poseGraph"]
      /\ Both(a, b) /\ Touch(ls, fs)
      /\ UNCHANGED <<deferring, eliminateStates, born>>
  BY DEF ConvertToPoseGraphMst
<1>2. \A h \in hs : h \in Keys \cup {f}
  BY NeighboursInWindow DEF LinkTo, Keys
<1>3. GraphOk(a)
  BY ConvertToLinksOk DEF SyncIInv, SyncInv
<1>4. /\ a.point = rt.point
      /\ \A k \in Keypoints :
           a.obs[k] = IF FrameOf(k) = f THEN NoObs ELSE rt.obs[k]
      /\ \A p \in Links : (\A h \in hs : p # {f, h}) => a.link[p] = rt.link[p]
  BY ConvertedFields DEF SyncIInv, SyncInv
<1>. HIDE DEF hs, a
<1>5. rt' = a
  BY <1>1 DEF Both
<1>6. rt = full => a = b
  <2>. SUFFICES ASSUME rt = full PROVE a = b
    OBVIOUS
  <2>. DEFINE r == RemoveObservations(full, ks)
  <2>1. GraphOk(r) /\ r.point = full.point
        /\ \A k \in Keypoints : r.obs[k] = IF k \in ks THEN NoObs ELSE full.obs[k]
    BY RemoveObservationsOk, RemovedFields DEF SyncIInv, SyncInv
  <2>2. \A k \in Keypoints : r.obs[k] = a.obs[k]
    BY <1>4, <2>1 DEF KeypointsOf
  <2>3. r.obs = a.obs /\ r.point = a.point
    BY <1>3, <1>4, <2>1, <2>2 DEF GraphOk, Graph
  <2>4. b.obs = r.obs /\ b.point = r.point /\ DOMAIN b = {"point", "obs", "link"}
        /\ b.link = [p \in Links |-> IF \E h \in hs : p = {f, h} THEN a.link[p]
                                                               ELSE full.link[p]]
    BY <1>5, <2>1 DEF GraphOk, Graph
  <2>5. b.link = a.link
    <3>1. \A p \in Links : b.link[p] = a.link[p]
      BY <1>4, <2>4
    <3>. QED BY <1>3, <2>4, <3>1 DEF GraphOk, Graph
  <2>. QED BY <1>3, <2>3, <2>4, <2>5 DEF GraphOk, Graph
<1>7. Kinds'
  <2>1. \A h \in Frames : kind'[h] = IF h = f THEN "poseGraph" ELSE kind[h]
    BY <1>1 DEF SyncIInv, SyncInv, Kinds
  <2>2. \A k \in Keypoints : rt'.obs[k] # NoObs => FrameOf(k) \in InWindow'
    BY <1>4, <1>5, <2>1 DEF SyncIInv, SyncInv, Kinds, InWindow
  <2>3. ASSUME NEW g \in Frames, NEW h \in Frames, rt'.link[{g, h}] # {}
        PROVE  kind'[g] \in LinkedFrames /\ kind'[h] \in LinkedFrames
    <3>1. CASE \E i \in hs : {g, h} = {f, i}
      BY <1>1, <1>2, <2>1, <3>1 DEF Keys, LinkedFrames
    <3>2. CASE \A i \in hs : {g, h} # {f, i}
      BY <1>4, <1>5, <2>1, <2>3, <3>2
         DEF SyncIInv, SyncInv, Kinds, LinkedFrames, Links
    <3>. QED BY <3>1, <3>2
  <2>. QED BY <1>1, <2>1, <2>2, <2>3 DEF SyncIInv, SyncInv, Kinds
<1>8. deferring => Remembers
  <2>. SUFFICES ASSUME deferring PROVE Remembers
    OBVIOUS
  <2>1. /\ touchedLandmarks' = touchedLandmarks \cup ls
        /\ touchedStates' = touchedStates \cup fs
    BY <1>1 DEF Touch
  <2>2. ASSUME NEW k \in Keypoints, rt'.obs[k] # rt.obs[k]
        PROVE  rt'.obs[k] = NoObs /\ rt.obs[k].lm \in touchedLandmarks'
    <3>1. rt'.obs[k] = NoObs /\ rt.obs[k] # NoObs /\ k \in ks
      BY <1>4, <1>5, <2>2 DEF KeypointsOf
    <3>2. CASE rt.obs[k] = full.obs[k]
      <4>1. rt.obs[k].lm # 0
        BY <3>1, LandmarkType, IdType DEF SyncIInv, SyncInv, GraphOk, ObsOk
      <4>. QED BY <2>1, <3>1, <3>2, <4>1 DEF LandmarksInFull
    <3>3. CASE rt.obs[k] # full.obs[k]
      BY <2>1, <3>1, <3>3 DEF SyncIInv, DifferencesRemembered
    <3>. QED BY <3>1, <3>2, <3>3
  <2>3. \A p \in Links : rt'.link[p] # rt.link[p] => p \cap touchedStates' # {}
    BY <1>4, <1>5, <2>1
  <2>4. Landmarks(rt') = Landmarks(rt)
    BY <1>4, <1>5 DEF Landmarks
  <2>. QED BY <2>2, <2>3, <2>4 DEF Remembers
<1>9. 0 \notin ls
  BY DEF LandmarksInFull
<1>. HIDE DEF b, ls, fs
<1>. QED BY <1>1, <1>3, <1>6, <1>7, <1>8, <1>9, OperationOk
         DEF SyncIInv, SyncInv

(* The full graph follows the expansion observation by observation.          *)
LEMMA ExpandOk ==
  ASSUME SyncIInv, NEW f \in Frames, kind[f] \in LinkedFrames, Expand(f)
  PROVE  SyncIInv'
<1>. DEFINE a    == ConvertToObservations(rt, f)
            b    == FollowExpansion(f)
            back == Returning(rt, f)
            ls   == {r.obs.lm : r \in back}
            fs   == Linked(rt, f)
<1>1. /\ kind' = [h \in Frames |->
                   IF h \in Linked(rt, f) \cup {f} THEN "key" ELSE kind[h]]
      /\ Both(a, b) /\ Touch(ls, fs)
      /\ UNCHANGED <<deferring, eliminateStates, born>>
  BY DEF Expand
<1>2. GraphOk(rt) /\ GraphOk(a) /\ rt' = a
  BY <1>1, ConvertToObservationsOk DEF Both, SyncIInv, SyncInv
<1>3. /\ \A r \in back : /\ r.from \in fs /\ r.kid \in Keypoints
                          /\ FrameOf(r.kid) \in {f, r.from}
                          /\ r.obs.lm \in Ids /\ rt.obs[r.kid] = NoObs
      /\ \A h \in fs : h \in Frames /\ kind[h] \in LinkedFrames
  BY <1>2, ReturningOk DEF Linked, SyncIInv, SyncInv, Kinds
<1>4. \A k \in Keypoints :
        \/ rt'.obs[k] = rt.obs[k] /\ \A r \in back : r.kid # k
        \/ \E r \in back : r.kid = k /\ rt'.obs[k] = r.obs
  BY <1>2, ExpansionObs
<1>5. \A l \in Ids :
        \/ rt'.point[l] = rt.point[l]
        \/ rt.point[l] = 0 /\ \E r \in back : r.obs.lm = l
  BY <1>2, ExpansionPoint
<1>6. rt'.link = [p \in Links |-> IF f \in p THEN {} ELSE rt.link[p]]
  BY <1>2 DEF ConvertToObservations
<1>7. rt = full => a = b
  <2>. SUFFICES ASSUME rt = full PROVE a = b
    OBVIOUS
  <2>1. /\ b.point = [l \in Ids |-> IF full.point[l] = 0 /\ \E r \in back : r.obs.lm = l
                                     THEN a.point[l] ELSE full.point[l]]
        /\ b.obs = [k \in Keypoints |-> IF \E r \in back : r.kid = k
                                          THEN a.obs[k] ELSE full.obs[k]]
        /\ b.link = [p \in Links |-> IF f \in p THEN {} ELSE full.link[p]]
        /\ b = [point |-> b.point, obs |-> b.obs, link |-> b.link]
    BY <1>2 DEF FollowExpansion
  <2>2. /\ DOMAIN a.point = Ids /\ DOMAIN a.obs = Keypoints
        /\ a.point = [l \in Ids |-> a.point[l]]
        /\ a.obs = [k \in Keypoints |-> a.obs[k]]
        /\ a = [point |-> a.point, obs |-> a.obs, link |-> a.link]
    BY DEF ConvertToObservations
  <2>. HIDE DEF a, b, back
  <2>3. \A l \in Ids : a.point[l] = b.point[l]
    BY <1>2, <1>5, <2>1
  <2>4. \A k \in Keypoints : a.obs[k] = b.obs[k]
    BY <1>2, <1>4, <2>1
  <2>5. a.point = b.point
    BY <2>1, <2>2, <2>3
  <2>6. a.obs = b.obs
    BY <2>1, <2>2, <2>4
  <2>7. a.link = b.link
    <3>1. b.link = [p \in Links |-> IF f \in p THEN {} ELSE full.link[p]]
      BY <2>1
    <3>2. a.link = [p \in Links |-> IF f \in p THEN {} ELSE full.link[p]]
      BY <1>2, <1>6
    <3>. QED BY <3>1, <3>2
  <2>8. b = [point |-> b.point, obs |-> b.obs, link |-> b.link]
    BY <2>1
  <2>. QED BY <2>2, <2>5, <2>6, <2>7, <2>8
<1>. HIDE DEF a, b, back, fs
<1>8. Kinds'
  <2>1. \A h \in Frames : kind'[h] = IF h \in fs \cup {f} THEN "key" ELSE kind[h]
    BY <1>1 DEF fs
  <2>2. ASSUME NEW k \in Keypoints, rt'.obs[k] # NoObs
        PROVE  FrameOf(k) \in InWindow'
    <3>0. FrameOf(k) \in Frames
      BY KeypointsAssumption DEF FrameOf
    <3>1. CASE rt'.obs[k] = rt.obs[k]
      BY <2>1, <2>2, <3>0, <3>1 DEF SyncIInv, SyncInv, Kinds, InWindow
    <3>2. CASE \E r \in back : r.kid = k
      BY <1>3, <2>1, <3>0, <3>2 DEF InWindow
    <3>. QED BY <1>4, <3>1, <3>2
  <2>3. ASSUME NEW g \in Frames, NEW h \in Frames, rt'.link[{g, h}] # {}
        PROVE  kind'[g] \in LinkedFrames /\ kind'[h] \in LinkedFrames
    <3>0. {g, h} \in Links
      BY DEF Links
    <3>1. rt.link[{g, h}] # {}
      BY <1>6, <2>3, <3>0
    <3>. QED BY <2>1, <3>1 DEF SyncIInv, SyncInv, Kinds, LinkedFrames
  <2>4. \A h \in eliminateStates' : h \in Frames /\ kind'[h] = "gone"
    BY <1>1, <1>3, <2>1 DEF SyncIInv, SyncInv, Kinds, LinkedFrames
  <2>5. DOMAIN kind' = Frames
    BY <1>1
  <2>. QED BY <2>2, <2>3, <2>4, <2>5 DEF Kinds
<1>9. deferring => Remembers
  <2>. SUFFICES ASSUME deferring PROVE Remembers
    OBVIOUS
  <2>1. /\ touchedLandmarks' = touchedLandmarks \cup ls
        /\ touchedStates' = touchedStates \cup fs
    BY <1>1 DEF Touch
  <2>2. ASSUME NEW k \in Keypoints, rt'.obs[k] # rt.obs[k]
        PROVE  rt.obs[k] = NoObs /\ rt'.obs[k].lm \in touchedLandmarks'
    BY <1>3, <1>4, <2>1, <2>2
  <2>3. \A l \in Landmarks(rt') : l \in Landmarks(rt) \cup touchedLandmarks'
    BY <1>5, <2>1 DEF Landmarks
  <2>4. ASSUME NEW p \in Links, rt'.link[p] # rt.link[p]
        PROVE  p \cap touchedStates' # {}
    <3>1. f \in p /\ rt.link[p] # {}
      BY <1>6, <2>4
    <3>2. PICK g, h \in Frames : p = {g, h}
      BY DEF Links
    <3>3. \E i \in p : i \in Frames /\ p = {f, i}
      BY <3>1, <3>2
    <3>4. \E i \in p : i \in fs
      BY <3>1, <3>3 DEF Linked, fs
    <3>. QED BY <2>1, <3>4
  <2>. QED BY <2>2, <2>3, <2>4 DEF Remembers
<1>10. 0 \notin ls
  BY <1>3, IdType
<1>. HIDE DEF ls
<1>. QED BY <1>1, <1>2, <1>7, <1>8, <1>9, <1>10, OperationOk DEF SyncIInv, SyncInv

(* The synchronisation: what the full graph lacks of the realtime graph is   *)
(* what it is told about.                                                    *)
LEMMA SynchroniseOk ==
  SyncIInv /\ SynchroniseRealtimeAndFullGraph => SyncIInv'
<1>. SUFFICES ASSUME SyncIInv, SynchroniseRealtimeAndFullGraph PROVE SyncIInv'
  OBVIOUS
<1>1. /\ deferring /\ deferring' = FALSE
      /\ full' = [point |-> SyncedPoint, obs |-> SyncedObs, link |-> SyncedLinks]
      /\ rt' = [rt EXCEPT !.point = SyncedPoint]
      /\ touchedLandmarks' = {} /\ eliminateStates' = {}
      /\ UNCHANGED <<kind, born>>
  BY DEF SynchroniseRealtimeAndFullGraph
<1>2. /\ GraphOk(rt) /\ GraphOk(full) /\ Kinds /\ DifferencesRemembered
  BY DEF SyncIInv, SyncInv
<1>3. /\ DOMAIN rt = {"point", "obs", "link"} /\ DOMAIN rt.obs = Keypoints
      /\ DOMAIN rt.link = Links /\ rt.point \in [Ids -> Nat]
      /\ rt' = [point |-> SyncedPoint, obs |-> rt.obs, link |-> rt.link]
  BY <1>1, <1>2 DEF GraphOk, Graph
<1>4. /\ \A l \in Ids : /\ Reduced.point[l] \in Nat
      /\ \A k \in Keypoints :
           Reduced.obs[k] = IF \/ full.obs[k].lm \in Disappeared
                               \/ FrameOf(k) \in eliminateStates
                              THEN NoObs ELSE full.obs[k]
  <2>. DEFINE r == RemoveLandmarks(full, Disappeared)
              ks == UNION {KeypointsOf(f) : f \in eliminateStates}
  <2>1. /\ r.obs = [k \in Keypoints |-> IF full.obs[k].lm \in Disappeared THEN NoObs
                                                              ELSE full.obs[k]]
    BY <1>2 DEF RemoveLandmarks, RemoveObservations, GraphOk, Graph
  <2>2. GraphOk(r)
    BY <1>2, RemoveLandmarksOk
  <2>3. /\ GraphOk(Reduced)
        /\ \A k \in Keypoints : Reduced.obs[k] = IF k \in ks THEN NoObs ELSE r.obs[k]
    BY <2>2, RemoveObservationsOk, RemovedFields DEF Reduced
  <2>4. \A k \in Keypoints : k \in ks <=> FrameOf(k) \in eliminateStates
    BY DEF KeypointsOf
  <2>5. \A l \in Ids : Reduced.point[l] \in Nat
    BY <2>3 DEF GraphOk, Graph
  <2>. HIDE DEF r, ks
  <2>. QED BY <2>1, <2>3, <2>4, <2>5
<1>5. ASSUME NEW k \in Keypoints
      PROVE  SyncedObs[k] = rt.obs[k]
  <2>1. SyncedObs[k] =
          IF rt.obs[k] # NoObs /\ rt.obs[k].lm \in touchedLandmarks THEN rt.obs[k]
          ELSE IF Reduced.obs[k].lm \in touchedLandmarks THEN NoObs
               ELSE Reduced.obs[k]
    BY DEF SyncedObs
  <2>2. CASE rt.obs[k] # NoObs /\ rt.obs[k].lm \notin touchedLandmarks
    <3>1. full.obs[k] = rt.obs[k]
      BY <1>1, <1>2, <2>2 DEF DifferencesRemembered
    <3>2. rt.obs[k].lm \notin Disappeared
      BY <1>2, <2>2 DEF GraphOk, ObsOk, Disappeared
    <3>3. FrameOf(k) \notin eliminateStates
      BY <1>2, <2>2 DEF Kinds, InWindow
    <3>. QED BY <1>4, <2>1, <2>2, <3>1, <3>2, <3>3
  <2>3. CASE rt.obs[k] = NoObs
    <3>1. CASE full.obs[k] = NoObs
      BY <1>4, <2>1, <2>3, <3>1
    <3>2. CASE full.obs[k] # NoObs
      BY <1>1, <1>2, <1>4, <2>1, <2>3, <3>2 DEF DifferencesRemembered
    <3>. QED BY <3>1, <3>2
  <2>. QED BY <2>1, <2>2, <2>3
<1>6. ASSUME NEW p \in Links
      PROVE  SyncedLinks[p] = rt.link[p]
  BY <1>1, <1>2 DEF SyncedLinks, DifferencesRemembered
<1>7. rt' = full'
  <2>1. SyncedObs = rt.obs
    <3>1. DOMAIN SyncedObs = Keypoints /\ SyncedObs = [k \in Keypoints |-> SyncedObs[k]]
      BY DEF SyncedObs
    <3>2. rt.obs = [k \in Keypoints |-> rt.obs[k]]
      BY <1>2 DEF GraphOk, Graph
    <3>. QED BY <1>5, <3>1, <3>2
  <2>2. SyncedLinks = rt.link
    <3>1. SyncedLinks = [p \in Links |-> SyncedLinks[p]]
      BY DEF SyncedLinks
    <3>2. rt.link = [p \in Links |-> rt.link[p]]
      BY <1>2 DEF GraphOk, Graph
    <3>. QED BY <1>6, <3>1, <3>2
  <2>. QED BY <1>1, <1>3, <2>1, <2>2
<1>8. GraphOk(rt')
  <2>1. \A l \in Ids : /\ SyncedPoint[l] \in Nat
                       /\ rt.point[l] # 0 => SyncedPoint[l] # 0
    BY <1>3, <1>4 DEF SyncedPoint
  <2>2. SyncedPoint \in [Ids -> Nat]
    BY <2>1 DEF SyncedPoint
  <2>3. rt' \in Graph /\ rt'.obs = rt.obs /\ rt'.link = rt.link
        /\ rt'.point = SyncedPoint
    BY <1>2, <1>3, <2>2 DEF GraphOk, Graph
  <2>4. \A l \in Landmarks(rt) : l \in Landmarks(rt')
    BY <2>1, <2>3 DEF Landmarks
  <2>. QED BY <1>2, <2>3, <2>4 DEF GraphOk, ObsOk, LinkOk
<1>9. Kinds'
  BY <1>1, <1>2, <1>3 DEF Kinds, InWindow
<1>. QED BY <1>1, <1>7, <1>8, <1>9
         DEF SyncIInv, SyncInv, GraphsAgree, DifferencesRemembered

(* Every step; only the import and the leaving of a keyframe need more.      *)
LEMMA SyncStep == Covisible /\ SyncIInv /\ [Next]_vars => SyncIInv'
<1>. SUFFICES ASSUME Covisible, SyncIInv, [Next]_vars PROVE SyncIInv'
  OBVIOUS
<1>1. CASE AddLandmark \/ CleanUnobservedLandmarks
  BY <1>1, AddLandmarkOk, CleanUnobservedLandmarksOk
<1>2. ASSUME NEW k \in Keypoints, NEW l \in Ids, AddObservation(k, l)
      PROVE  SyncIInv'
  BY <1>2, AddObservationOk
<1>3. ASSUME NEW k \in Keypoints, RemoveObservation(k)
      PROVE  SyncIInv'
  BY <1>3, RemoveObservationOk
<1>4. ASSUME NEW from \in Ids, NEW into \in Ids, MergeLandmark(from, into)
      PROVE  SyncIInv'
  BY <1>4, MergeLandmarkOk
<1>5. ASSUME NEW f \in Frames, KeepAsKeyframe(f) \/ EliminateImuFrame(f)
      PROVE  SyncIInv'
  BY <1>5, KeepAsKeyframeOk, EliminateImuFrameOk
<1>6. ASSUME NEW f \in Frames, ConvertToPoseGraphMst(f) \/ DropKeyframe(f)
      PROVE  SyncIInv'
  BY <1>6, ConvertOk, DropKeyframeOk
<1>7. ASSUME NEW f \in Frames, ExpandKeyframe(f) \/ AddLoopClosureFrame(f)
      PROVE  SyncIInv'
  <2>1. Expand(f) /\ kind[f] \in LinkedFrames
    BY <1>7 DEF ExpandKeyframe, AddLoopClosureFrame, LinkedFrames
  <2>. QED BY <2>1, ExpandOk
<1>8. CASE OptimiseFullGraph
  BY <1>8 DEF OptimiseFullGraph, pending, SyncIInv, SyncInv, Kinds, InWindow,
              GraphsAgree, DifferencesRemembered, Disappeared
<1>9. CASE SynchroniseRealtimeAndFullGraph
  BY <1>9, SynchroniseOk
<1>10. CASE UNCHANGED vars
  BY <1>10 DEF vars, pending, SyncIInv, SyncInv, Kinds, InWindow, GraphsAgree,
               DifferencesRemembered, Disappeared
<1>. QED BY <1>1, <1>2, <1>3, <1>4, <1>5, <1>6, <1>7, <1>8, <1>9, <1>10 DEF Next

(* The graphs are equal, or their differences are remembered.                *)
LEMMA SyncHolds == Covisible => (Spec => []SyncIInv)
<1>. SUFFICES ASSUME Covisible PROVE Spec => []SyncIInv
  OBVIOUS
<1>1. Init => SyncIInv
  BY SyncInit
<1>2. SyncIInv /\ [Next]_vars => SyncIInv'
  BY SyncStep
<1>. QED BY <1>1, <1>2, PTL DEF Spec

(* Whenever nothing is deferred the two graphs are the same, for any number  *)
(* of frames, keypoints and landmarks and after any sequence of operations   *)
(* and synchronisations, if a keyframe that leaves the window while the full *)
(* graph is away shares a landmark with another (isSynched).                 *)
THEOREM AlwaysSynched == Covisible => (Spec => []GraphsAgree)
<1>. SUFFICES ASSUME Covisible PROVE Spec => []GraphsAgree
  OBVIOUS
<1>1. SyncIInv => GraphsAgree
  BY DEF SyncIInv
<1>. QED BY <1>1, SyncHolds, PTL

(* While writes are deferred, the touched landmarks and states, the          *)
(* eliminated states and the landmarks that have disappeared cover whatever  *)
(* differs (touchedLandmarks_, touchedStates_, eliminateStates_).            *)
THEOREM NothingOverlooked == Covisible => (Spec => []DifferencesRemembered)
<1>. SUFFICES ASSUME Covisible PROVE Spec => []DifferencesRemembered
  OBVIOUS
<1>1. SyncIInv => DifferencesRemembered
  BY DEF SyncIInv
<1>. QED BY <1>1, SyncHolds, PTL

(* Every observation in either graph is of a landmark it has, and those of   *)
(* the realtime graph are made by frames of the window, also after links of  *)
(* the pose graph became observations again (convertToObservations).         *)
THEOREM NothingDangling == Covisible => (Spec => []ObservationsBacked)
<1>. SUFFICES ASSUME Covisible PROVE Spec => []ObservationsBacked
  OBVIOUS
<1>1. SyncIInv => ObservationsBacked
  BY DEF SyncIInv, SyncInv, GraphOk, ObsOk, Kinds, ObservationsBacked
<1>. QED BY <1>1, SyncHolds, PTL
============================================================================
