-------------------------- MODULE Frontend_proofs --------------------------
(* Theorems about the frontend, for every set of frames and keypoints.       *)
EXTENDS Frontend, LandmarkGraph_proofs

(* ------------------------------------------------------------------------- *)
(* Frames.  The newest frame is in the IMU window while it is processed.     *)

Kinds == {"coming", "imu", "key", "loop", "poseGraph", "gone"}
LinkedKinds == {"key", "loop", "poseGraph"}

KindInv ==
  /\ kind \in [Frames -> Kinds]
  /\ \A f \in Present, h \in Frames : kind[h] = "coming" => f < h
  /\ pc # "idle" => Present # {} /\ kind[Current] = "imu"

(* What is remembered has a frame: a keyframe, or the frame that is about to *)
(* be one.                                                                   *)
MemoryInv ==
  /\ flagged \subseteq Present
  /\ \A f \in dBow \cup cnn :
       \/ f \in flagged
       \/ /\ pc \in {"classify", "stereo", "outliers", "clean"} /\ asKeyframe
          /\ f = Current

(* ------------------------------------------------------------------------- *)
(* The associations.                                                         *)

(* A store that is well formed, has met no assertion, and agrees with itself *)
(* about the frames of the IMU window.                                       *)
StoreOk(s) ==
  /\ s = [g |-> s.g, slot |-> s.slot, failed |-> s.failed]
  /\ GraphOk(s.g) /\ s.slot \in [Keypoints -> Nat] /\ ~s.failed
  /\ \A k \in Keypoints : kind[FrameOf(k)] \in {"imu", "coming"}
                            => s.slot[k] = s.g.obs[k].lm

(* Only frames that left the IMU window have links.                          *)
LinksOk(g) ==
  \A f, h \in Frames :
    g.link[{f, h}] # {} => kind[f] \in LinkedKinds /\ kind[h] \in LinkedKinds

(* The keypoints that a matching loop has still to reach; in matchStereo     *)
(* they are of the first camera of the pair.                                 *)
OfFirstCamera(k) ==
  /\ stereoPair \in DOMAIN StereoPairs
  /\ CameraOf[Index(k)] = StereoPairs[stereoPair][1]

TodoInv ==
  /\ todo \subseteq Keypoints
  /\ todo # {} => todo \subseteq Mine
  /\ pc = "stereo" => \A k \in todo : OfFirstCamera(k)
  /\ pc \notin {"initialised", "uninitialised", "stereo"} => todo = {}

(* The landmarks to be merged are there.                                     *)
PairsInv ==
  /\ pairs \in Seq([old : Landmarks(graph), new : Landmarks(graph)])
  /\ pc \notin {"initialised", "uninitialised"} => pairs = <<>>

FrontInv ==
  /\ KindInv /\ MemoryInv /\ StoreOk(Store) /\ LinksOk(graph)
  /\ TodoInv /\ PairsInv
  /\ stereoPair \in 0 .. Len(StereoPairs)

(* ------------------------------------------------------------------------- *)
(* The newest frame.                                                         *)

LEMMA CurrentIs ==
  ASSUME Present # {}
  PROVE  /\ Current \in Present
         /\ \A f \in Present : f \in Nat /\ f <= Current
<1>1. Present \subseteq Frames
  BY DEF Present
<1>2. IsFiniteSet(Present) /\ \A f \in Present : f \in Nat
  BY <1>1, FramesAssumption, FS_Subset
<1>. QED BY <1>2, FiniteSetHasMax DEF HasMax, IsMax, Current

(* It depends on the frames there are.                                       *)
LEMMA CurrentKept ==
  ASSUME Present' = Present
  PROVE  Current' = Current /\ Mine' = Mine
BY DEF Current, Mine

(* A keypoint belongs to a frame.                                            *)
LEMMA KeypointFrame == \A k \in Keypoints : FrameOf(k) \in Frames
BY KeypointsAssumption DEF FrameOf

(* While a frame is processed, its keypoints are in the IMU window.          *)
LEMMA MineInWindow ==
  ASSUME KindInv, pc # "idle", NEW k \in Mine
  PROVE  k \in Keypoints /\ FrameOf(k) = Current /\ kind[FrameOf(k)] = "imu"
BY DEF KindInv, Mine, KeypointsOf

(* ------------------------------------------------------------------------- *)
(* The operations of the backend keep a store as it should be, if they are   *)
(* called for what is there.                                                 *)

(* In the IMU window the slot tells the landmark, which is there.            *)
LEMMA SlotIs ==
  ASSUME NEW s, StoreOk(s), NEW k \in Keypoints,
         kind[FrameOf(k)] \in {"imu", "coming"}
  PROVE  /\ s.slot[k] = s.g.obs[k].lm
         /\ s.slot[k] = 0 <=> s.g.obs[k] = NoObs
         /\ s.slot[k] # 0 => s.slot[k] \in Landmarks(s.g)
<1>1. s.slot[k] = s.g.obs[k].lm
  BY DEF StoreOk
<1>2. s.g.obs[k] # NoObs => s.g.obs[k].lm \in Landmarks(s.g)
  BY DEF StoreOk, GraphOk, ObsOk
<1>3. 0 \notin Landmarks(s.g)
  BY NoObsType DEF Landmarks
<1>. QED BY <1>1, <1>2, <1>3, NoObsType

(* addObservation and setLandmarkId, for a free keypoint.                    *)
LEMMA AssociateOk ==
  ASSUME NEW s, StoreOk(s), NEW k \in Keypoints, NEW l \in Landmarks(s.g),
         s.g.obs[k] = NoObs, kind[FrameOf(k)] \in {"imu", "key", "loop"},
         NEW t, t = Associate(s, k, l)
  PROVE  /\ StoreOk(t) /\ t.g.link = s.g.link
         /\ Landmarks(t.g) = Landmarks(s.g)
         /\ \A m \in Keypoints \ {k} : t.g.obs[m] = s.g.obs[m]
<1>. DEFINE h == Observe(s.g, k, l)
<1>1. t = [g |-> h, slot |-> [s.slot EXCEPT ![k] = l],
           failed |-> \/ s.failed
                      \/ l \notin Landmarks(s.g) \/ s.g.obs[k] # NoObs
                      \/ kind[FrameOf(k)] \notin {"imu", "key", "loop"}]
  BY DEF Associate
<1>2. /\ GraphOk(h) /\ h.link = s.g.link /\ Landmarks(h) = Landmarks(s.g)
      /\ h.obs[k].lm = l /\ \A m \in Keypoints \ {k} : h.obs[m] = s.g.obs[m]
  BY ObserveOk, ObservedFields DEF StoreOk
<1>. HIDE DEF h
<1>3. t.g = h /\ t.slot = [s.slot EXCEPT ![k] = l]
      /\ t = [g |-> t.g, slot |-> t.slot, failed |-> t.failed]
  BY <1>1
<1>4. ~t.failed
  <2>. DEFINE bad == \/ s.failed
                     \/ l \notin Landmarks(s.g) \/ s.g.obs[k] # NoObs
                     \/ kind[FrameOf(k)] \notin {"imu", "key", "loop"}
  <2>1. ~bad
    BY DEF StoreOk
  <2>2. t.failed = bad
    BY <1>1
  <2>. HIDE DEF bad
  <2>. QED BY <2>1, <2>2, Zenon
<1>5. t.slot \in [Keypoints -> Nat]
  BY <1>3, LandmarkType, IdType DEF StoreOk
<1>6. \A m \in Keypoints : kind[FrameOf(m)] \in {"imu", "coming"}
                             => t.slot[m] = t.g.obs[m].lm
  BY <1>2, <1>3 DEF StoreOk
<1>. QED BY <1>2, <1>3, <1>4, <1>5, <1>6 DEF StoreOk

(* Removing observations that are there.                                     *)
LEMMA RemoveAllOk ==
  ASSUME NEW s, StoreOk(s), NEW ks, \A k \in ks : s.g.obs[k] # NoObs,
         NEW t, t = RemoveAll(s, ks)
  PROVE  /\ StoreOk(t) /\ t.g.link = s.g.link
         /\ Landmarks(t.g) = Landmarks(s.g)
         /\ \A k \in Keypoints : t.g.obs[k] = IF k \in ks THEN NoObs ELSE s.g.obs[k]
<1>. DEFINE h == RemoveObservations(s.g, ks)
<1>1. t = [g |-> h,
           slot |-> [k \in Keypoints |-> IF k \in ks THEN 0 ELSE s.slot[k]],
           failed |-> s.failed \/ \E k \in ks : s.g.obs[k] = NoObs]
  BY DEF RemoveAll
<1>2. /\ GraphOk(h) /\ h.link = s.g.link /\ h.point = s.g.point
      /\ \A k \in Keypoints : h.obs[k] = IF k \in ks THEN NoObs ELSE s.g.obs[k]
  BY RemoveObservationsOk, RemovedFields DEF StoreOk
<1>. HIDE DEF h
<1>3. /\ t.g = h
      /\ t.slot = [k \in Keypoints |-> IF k \in ks THEN 0 ELSE s.slot[k]]
      /\ t = [g |-> t.g, slot |-> t.slot, failed |-> t.failed]
  BY <1>1
<1>4. ~t.failed
  <2>. DEFINE bad == s.failed \/ \E k \in ks : s.g.obs[k] = NoObs
  <2>1. ~bad
    BY DEF StoreOk
  <2>2. t.failed = bad
    BY <1>1
  <2>. HIDE DEF bad
  <2>. QED BY <2>1, <2>2, Zenon
<1>5. t.slot \in [Keypoints -> Nat]
  BY <1>3 DEF StoreOk
<1>6. \A m \in Keypoints : kind[FrameOf(m)] \in {"imu", "coming"}
                             => t.slot[m] = t.g.obs[m].lm
  BY <1>2, <1>3, NoObsType DEF StoreOk
<1>7. Landmarks(t.g) = Landmarks(s.g)
  BY <1>2, <1>3 DEF Landmarks
<1>. QED BY <1>2, <1>3, <1>4, <1>5, <1>6, <1>7 DEF StoreOk

(* removeObservation, which clears the slot as well.                         *)
LEMMA RemoveObservationOk ==
  ASSUME NEW s, StoreOk(s), NEW k \in Keypoints, s.g.obs[k] # NoObs,
         NEW t, t = RemoveObservation(s, k)
  PROVE  /\ StoreOk(t) /\ t.g.link = s.g.link
         /\ Landmarks(t.g) = Landmarks(s.g) /\ t.g.obs[k] = NoObs
<1>. DEFINE h == RemoveObservations(s.g, {k})
<1>1. t = [g |-> h, slot |-> [s.slot EXCEPT ![k] = 0],
           failed |-> s.failed \/ s.g.obs[k] = NoObs]
  BY DEF RemoveObservation
<1>2. /\ GraphOk(h) /\ h.link = s.g.link /\ h.point = s.g.point
      /\ \A m \in Keypoints : h.obs[m] = IF m = k THEN NoObs ELSE s.g.obs[m]
  BY RemoveObservationsOk, RemovedFields DEF StoreOk
<1>. HIDE DEF h
<1>3. t.g = h /\ t.slot = [s.slot EXCEPT ![k] = 0]
      /\ t = [g |-> t.g, slot |-> t.slot, failed |-> t.failed]
  BY <1>1
<1>4. ~t.failed
  <2>. DEFINE bad == s.failed \/ s.g.obs[k] = NoObs
  <2>1. ~bad
    BY DEF StoreOk
  <2>2. t.failed = bad
    BY <1>1
  <2>. HIDE DEF bad
  <2>. QED BY <2>1, <2>2, Zenon
<1>5. t.slot \in [Keypoints -> Nat]
  BY <1>3 DEF StoreOk
<1>6. \A m \in Keypoints : kind[FrameOf(m)] \in {"imu", "coming"}
                             => t.slot[m] = t.g.obs[m].lm
  BY <1>2, <1>3, NoObsType DEF StoreOk
<1>7. Landmarks(t.g) = Landmarks(s.g)
  BY <1>2, <1>3 DEF Landmarks
<1>. QED BY <1>2, <1>3, <1>4, <1>5, <1>6, <1>7 DEF StoreOk

(* A keypoint is freed before it is given to another landmark.               *)
LEMMA VacateOk ==
  ASSUME NEW s, StoreOk(s), NEW k \in Keypoints, kind[FrameOf(k)] = "imu",
         NEW t, t = Vacate(s, k)
  PROVE  /\ StoreOk(t) /\ t.g.link = s.g.link
         /\ Landmarks(t.g) = Landmarks(s.g) /\ t.g.obs[k] = NoObs
BY SlotIs, RemoveObservationOk DEF Vacate

(* addLandmark leaves observations and slots alone.                          *)
LEMMA PlaceStoreOk ==
  ASSUME NEW s, StoreOk(s), NEW l \in Ids,
         NEW t, t = [g |-> Place(s.g, l, 1), slot |-> s.slot, failed |-> s.failed]
  PROVE  /\ StoreOk(t) /\ t.g.link = s.g.link /\ t.g.obs = s.g.obs
         /\ Landmarks(t.g) = Landmarks(s.g) \cup {l}
<1>. DEFINE h == Place(s.g, l, 1)
<1>1. /\ GraphOk(h) /\ h.link = s.g.link /\ h.obs = s.g.obs
      /\ Landmarks(h) = Landmarks(s.g) \cup {l}
  BY PlaceOk, PlacedFields DEF StoreOk
<1>. HIDE DEF h
<1>2. t = [g |-> h, slot |-> s.slot, failed |-> s.failed]
  BY DEF h
<1>3. t.g = h /\ t.slot = s.slot
  BY <1>2
<1>4. ~t.failed
  <2>1. t.failed = s.failed
    BY <1>2
  <2>. QED BY <2>1, Zenon DEF StoreOk
<1>5. t = [g |-> t.g, slot |-> t.slot, failed |-> t.failed]
  BY <1>2
<1>. QED BY <1>1, <1>3, <1>4, <1>5 DEF StoreOk

(* Of two landmarks that are there one remains.                              *)
LEMMA MergeLandmarkOk ==
  ASSUME NEW s, StoreOk(s), NEW from \in Landmarks(s.g),
         NEW into \in Landmarks(s.g), from # into,
         NEW t, t = MergeLandmark(s, from, into)
  PROVE  /\ StoreOk(t) /\ t.g.link = s.g.link
         /\ Landmarks(t.g) = Landmarks(s.g) \ {from}
<1>. DEFINE h == Merge(s.g, from, into)
            slots == [k \in Keypoints |-> IF h.obs[k].lm = into THEN into
                                                               ELSE s.slot[k]]
<1>1. t = [g |-> h, slot |-> slots,
           failed |-> s.failed \/ ~({from, into} \subseteq Landmarks(s.g))]
  BY DEF MergeLandmark
<1>2. /\ GraphOk(h) /\ h.link = s.g.link
      /\ Landmarks(h) = Landmarks(s.g) \ {from}
      /\ \A k \in Keypoints : h.obs[k] = s.g.obs[k] \/ h.obs[k].lm = into
  BY MergeOk, MergedFields, LandmarkType DEF StoreOk
<1>. HIDE DEF h
<1>3. slots \in [Keypoints -> Nat]
  BY LandmarkType, IdType DEF StoreOk
<1>4. \A m \in Keypoints : kind[FrameOf(m)] \in {"imu", "coming"}
                             => slots[m] = h.obs[m].lm
  BY <1>2 DEF StoreOk
<1>. HIDE DEF slots
<1>5. t.g = h /\ t.slot = slots
      /\ t = [g |-> t.g, slot |-> t.slot, failed |-> t.failed]
  BY <1>1
<1>6. ~t.failed
  <2>. DEFINE bad == s.failed \/ ~({from, into} \subseteq Landmarks(s.g))
  <2>1. ~bad
    BY DEF StoreOk
  <2>2. t.failed = bad
    BY <1>1
  <2>. HIDE DEF bad
  <2>. QED BY <2>1, <2>2, Zenon
<1>. QED BY <1>2, <1>3, <1>4, <1>5, <1>6 DEF StoreOk

(* ------------------------------------------------------------------------- *)
(* Chains of merged landmarks.                                               *)

(* The landmarks of l are merged along changes: every one stays among them,  *)
(* one that does not change is left in the graph, and how far each has to go *)
(* is bounded by the number of those that changed.                           *)
Changed(c) == {x \in Ids : c[x] # x}
Descends(c, d) ==
  /\ d \in [Ids -> Nat]
  /\ \A x \in Ids : d[x] <= Cardinality(Changed(c))
  /\ \A x \in Changed(c) : d[c[x]] < d[x]
ChangesOk(c, all, left) ==
  /\ c \in [Ids -> Ids] /\ left \subseteq all
  /\ \A x \in all : c[x] \in all /\ (c[x] = x => x \in left)
  /\ \E d : Descends(c, d)

(* At most all landmarks have been replaced.                                 *)
LEMMA ChangedFinite ==
  ASSUME NEW c
  PROVE  /\ IsFiniteSet(Changed(c))
         /\ Cardinality(Changed(c)) \in Nat /\ Cardinality(Changed(c)) <= MaxId
<1>1. IsFiniteSet(Ids) /\ Cardinality(Ids) = MaxId
  BY FS_Interval, IdsAssumption DEF Ids
<1>2. Changed(c) \subseteq Ids
  BY DEF Changed
<1>. QED BY <1>1, <1>2, FS_Subset, FS_CardinalityType

ChainFrom(c, l, f, m) ==
  f = [n \in 0 .. m |-> IF n = 0 THEN l ELSE c[f[n - 1]]]

(* The chain of replacements is defined to every length.                     *)
LEMMA ChainExists ==
  ASSUME NEW c, NEW l, NEW n \in Nat
  PROVE  \E f : ChainFrom(c, l, f, n)
<1>. DEFINE stuck == {m \in Nat : ~ \E f : ChainFrom(c, l, f, m)}
<1>. SUFFICES ASSUME stuck # {} PROVE FALSE
  OBVIOUS
<1>1. PICK m \in stuck : \A x \in stuck : m <= x
  BY NatsHaveMin DEF HasMin, IsMin
<1>2. CASE m = 0
  <2>1. ChainFrom(c, l, [i \in 0 .. 0 |-> l], 0)
    BY DEF ChainFrom
  <2>. QED BY <1>2, <2>1
<1>3. CASE m # 0
  <2>1. m - 1 \in Nat /\ m - 1 \notin stuck
    BY <1>1, <1>3
  <2>2. PICK f : ChainFrom(c, l, f, m - 1)
    BY <2>1
  <2>. DEFINE h == [i \in 0 .. m |-> IF i = m THEN c[f[m - 1]] ELSE f[i]]
  <2>3. ChainFrom(c, l, h, m)
    <3>1. ASSUME NEW i \in 0 .. m
          PROVE  h[i] = IF i = 0 THEN l ELSE c[h[i - 1]]
      <4>1. CASE i = m
        <5>1. h[i - 1] = f[m - 1]
          BY <1>3, <4>1
        <5>. QED BY <1>3, <4>1, <5>1
      <4>2. CASE i # m
        <5>1. i \in 0 .. (m - 1) /\ h[i] = f[i]
          BY <4>2
        <5>2. f[i] = IF i = 0 THEN l ELSE c[f[i - 1]]
          BY <2>2, <5>1 DEF ChainFrom
        <5>3. i # 0 => h[i - 1] = f[i - 1]
          BY <4>2
        <5>. QED BY <5>1, <5>2, <5>3
      <4>. QED BY <4>1, <4>2
    <3>2. h = [i \in 0 .. m |-> h[i]]
      OBVIOUS
    <3>. HIDE DEF h
    <3>. QED BY <3>1, <3>2 DEF ChainFrom
  <2>. QED BY <1>2, <2>3
<1>. QED BY <1>2, <1>3

(* Following the changes ends at a landmark that is there.                   *)
LEMMA ChaseEnds ==
  ASSUME NEW c, NEW all, all \subseteq Ids, NEW left, ChangesOk(c, all, left),
         NEW l \in all
  PROVE  Chase(c, l) \in left /\ c[Chase(c, l)] = Chase(c, l)
<1>. DEFINE step == CHOOSE f : ChainFrom(c, l, f, MaxId)
<1>1. Chase(c, l) = step[MaxId]
  BY DEF Chase, ChainFrom
<1>2. ChainFrom(c, l, step, MaxId)
  BY ChainExists, IdsAssumption
<1>. HIDE DEF step
<1>3. PICK d : Descends(c, d)
  BY DEF ChangesOk
<1>. DEFINE Near(n) == /\ step[n] \in all
                       /\ c[step[n]] # step[n] => d[step[n]] + n <= MaxId
            far == {n \in 0 .. MaxId : ~Near(n)}
<1>4. far = {}
  <2>. SUFFICES ASSUME far # {} PROVE FALSE
    OBVIOUS
  <2>1. PICK m \in far : \A x \in far : m <= x
    <3>1. \A s \in far : s \in Nat
      OBVIOUS
    <3>. HIDE DEF far
    <3>. QED BY <3>1, NatsHaveMin DEF HasMin, IsMin
  <2>2. step[m] = IF m = 0 THEN l ELSE c[step[m - 1]]
    BY <1>2 DEF ChainFrom
  <2>3. CASE m = 0
    <3>1. d[l] \in Nat /\ d[l] <= MaxId
      BY <1>3, ChangedFinite, IdsAssumption DEF Descends
    <3>. QED BY <2>1, <2>2, <2>3, <3>1
  <2>4. CASE m # 0
    <3>1. m - 1 \in 0 .. MaxId /\ m - 1 \notin far
      BY <2>1, <2>4, IdsAssumption
    <3>. DEFINE x == step[m - 1]
                y == c[x]
    <3>2. x \in all /\ (c[x] # x => d[x] + (m - 1) <= MaxId)
      BY <3>1
    <3>3. y \in all /\ x \in Ids /\ y \in Ids /\ d[x] \in Nat /\ d[y] \in Nat
      BY <1>3, <3>2 DEF ChangesOk, Descends
    <3>4. c[x] # x => d[y] < d[x]
      BY <1>3, <3>3 DEF Descends, Changed
    <3>5. c[y] # y => c[x] # x
      OBVIOUS
    <3>6. step[m] = y
      BY <2>2, <2>4
    <3>. HIDE DEF x, y
    <3>7. c[y] # y => d[y] + m <= MaxId
      BY <3>2, <3>3, <3>4, <3>5, IdsAssumption
    <3>. QED BY <2>1, <3>3, <3>6, <3>7
  <2>. QED BY <2>3, <2>4
<1>5. Near(MaxId)
  BY <1>4, IdsAssumption
<1>. DEFINE x == step[MaxId]
<1>6. x \in all /\ (c[x] # x => d[x] + MaxId <= MaxId)
  BY <1>5
<1>. HIDE DEF x
<1>7. d[x] \in Nat /\ c[x] \in Ids /\ d[c[x]] \in Nat /\ x \in Ids
  BY <1>3, <1>6 DEF Descends, ChangesOk
<1>8. c[x] # x => d[c[x]] < d[x]
  BY <1>3, <1>7 DEF Descends, Changed
<1>9. c[x] = x
  BY <1>6, <1>7, <1>8, IdsAssumption
<1>. QED BY <1>1, <1>6, <1>9 DEF ChangesOk, x

(* One more landmark is merged into another that is there.                   *)
LEMMA ChangesExtended ==
  ASSUME NEW c, NEW all, all \subseteq Ids, NEW left, ChangesOk(c, all, left),
         NEW from \in left, NEW into \in left, from # into,
         c[from] = from, c[into] = into,
         NEW e, e = [c EXCEPT ![from] = into]
  PROVE  ChangesOk(e, all, left \ {from})
<1>1. PICK d : Descends(c, d)
  BY DEF ChangesOk
<1>2. from \in Ids /\ into \in Ids /\ from \in all /\ into \in all
  BY DEF ChangesOk
<1>3. e \in [Ids -> Ids] /\ \A x \in Ids : e[x] = IF x = from THEN into ELSE c[x]
  BY <1>2 DEF ChangesOk
<1>. DEFINE h == [x \in Ids |-> IF e[x] = x THEN 0 ELSE d[x] + 1]
<1>4. Changed(e) = Changed(c) \cup {from} /\ from \notin Changed(c)
  BY <1>2, <1>3 DEF Changed
<1>5. Cardinality(Changed(e)) = Cardinality(Changed(c)) + 1
  BY <1>4, ChangedFinite, FS_AddElement
<1>6. \A x \in Ids : d[x] \in Nat /\ d[x] <= Cardinality(Changed(c))
  BY <1>1 DEF Descends
<1>7. \A x \in Ids : h[x] = IF e[x] = x THEN 0 ELSE d[x] + 1
  OBVIOUS
<1>8. h \in [Ids -> Nat]
  BY <1>6
<1>. HIDE DEF h
<1>9. \A x \in Ids : h[x] <= Cardinality(Changed(e))
  BY <1>5, <1>6, <1>7, ChangedFinite
<1>10. ASSUME NEW x \in Changed(e) PROVE h[e[x]] < h[x]
  <2>1. x \in Ids /\ e[x] # x /\ h[x] = d[x] + 1 /\ e[x] \in Ids
    BY <1>3, <1>7 DEF Changed
  <2>2. CASE x = from
    <3>1. h[e[x]] = 0
      BY <1>2, <1>3, <1>7, <2>2
    <3>. QED BY <1>6, <2>1, <3>1
  <2>3. CASE x # from
    <3>1. e[x] = c[x] /\ d[c[x]] < d[x] /\ c[x] \in Ids
      BY <1>1, <1>3, <2>1, <2>3 DEF Descends, Changed
    <3>2. h[c[x]] = 0 \/ h[c[x]] = d[c[x]] + 1
      BY <1>7, <3>1
    <3>. QED BY <1>6, <2>1, <3>1, <3>2
  <2>. QED BY <2>2, <2>3
<1>11. Descends(e, h)
  BY <1>8, <1>9, <1>10 DEF Descends
<1>12. \A x \in all : e[x] \in all /\ (e[x] = x => x \in left \ {from})
  BY <1>2, <1>3 DEF ChangesOk
<1>. QED BY <1>3, <1>11, <1>12 DEF ChangesOk

MergingFrom(first, ps, f, m) ==
  f = [n \in 0 .. m |-> IF n = 0 THEN first ELSE MergePair(f[n - 1], ps[n])]

(* The merging of the pairs one after the other, as a sequence of states.    *)
LEMMA MergingExists ==
  ASSUME NEW first, NEW ps, NEW n \in Nat
  PROVE  \E f : MergingFrom(first, ps, f, n)
<1>. DEFINE stuck == {m \in Nat : ~ \E f : MergingFrom(first, ps, f, m)}
<1>. SUFFICES ASSUME stuck # {} PROVE FALSE
  OBVIOUS
<1>1. PICK m \in stuck : \A x \in stuck : m <= x
  BY NatsHaveMin DEF HasMin, IsMin
<1>2. CASE m = 0
  <2>1. MergingFrom(first, ps, [i \in 0 .. 0 |-> first], 0)
    BY DEF MergingFrom
  <2>. QED BY <1>2, <2>1
<1>3. CASE m # 0
  <2>1. m - 1 \in Nat /\ m - 1 \notin stuck
    BY <1>1, <1>3
  <2>2. PICK f : MergingFrom(first, ps, f, m - 1)
    BY <2>1
  <2>. DEFINE h == [i \in 0 .. m |->
                      IF i = m THEN MergePair(f[m - 1], ps[m]) ELSE f[i]]
  <2>3. MergingFrom(first, ps, h, m)
    <3>1. ASSUME NEW i \in 0 .. m
          PROVE  h[i] = IF i = 0 THEN first ELSE MergePair(h[i - 1], ps[i])
      <4>1. CASE i = m
        <5>1. h[i - 1] = f[m - 1]
          BY <1>3, <4>1
        <5>. QED BY <1>3, <4>1, <5>1
      <4>2. CASE i # m
        <5>1. i \in 0 .. (m - 1) /\ h[i] = f[i]
          BY <4>2
        <5>2. f[i] = IF i = 0 THEN first ELSE MergePair(f[i - 1], ps[i])
          BY <2>2, <5>1 DEF MergingFrom
        <5>3. i # 0 => h[i - 1] = f[i - 1]
          BY <4>2
        <5>. QED BY <5>1, <5>2, <5>3
      <4>. QED BY <4>1, <4>2
    <3>2. h = [i \in 0 .. m |-> h[i]]
      OBVIOUS
    <3>. HIDE DEF h
    <3>. QED BY <3>1, <3>2 DEF MergingFrom
  <2>. QED BY <1>2, <2>3
<1>. QED BY <1>2, <1>3

(* What holds after each pair of a merging that began with the store s.      *)
MergingOk(acc, s) ==
  /\ StoreOk(acc.store) /\ acc.store.g.link = s.g.link
  /\ ChangesOk(acc.changes, Landmarks(s.g), Landmarks(acc.store.g))

(* Before the first pair nothing is replaced.                                *)
LEMMA MergingBegins ==
  ASSUME NEW s, StoreOk(s)
  PROVE  MergingOk([store |-> s, changes |-> [l \in Ids |-> l]], s)
<1>. DEFINE c == [l \in Ids |-> l]
            d == [l \in Ids |-> 0]
<1>1. Changed(c) = {} /\ Cardinality(Changed(c)) \in Nat
  BY ChangedFinite DEF Changed
<1>2. Descends(c, d)
  BY <1>1, FS_EmptySet DEF Descends
<1>3. c \in [Ids -> Ids] /\ \A x \in Ids : c[x] = x
  OBVIOUS
<1>. HIDE DEF c, d
<1>4. Landmarks(s.g) \subseteq Ids
  BY DEF Landmarks
<1>5. ChangesOk(c, Landmarks(s.g), Landmarks(s.g))
  BY <1>2, <1>3, <1>4 DEF ChangesOk
<1>. QED BY <1>5 DEF MergingOk, c

(* A pair is merged: its landmarks, or what has replaced them, are there.    *)
LEMMA MergePairOk ==
  ASSUME NEW s, NEW acc, MergingOk(acc, s),
         NEW pair, pair.old \in Landmarks(s.g), pair.new \in Landmarks(s.g),
         NEW next, next = MergePair(acc, pair)
  PROVE  MergingOk(next, s)
<1>. DEFINE from == Chase(acc.changes, pair.old)
            into == Chase(acc.changes, pair.new)
<1>1. next = IF from = into THEN acc
             ELSE [store   |-> MergeLandmark(acc.store, from, into),
                   changes |-> [acc.changes EXCEPT ![from] = into]]
  BY DEF MergePair
<1>2. Landmarks(s.g) \subseteq Ids
  BY DEF Landmarks
<1>3. /\ from \in Landmarks(acc.store.g) /\ acc.changes[from] = from
      /\ into \in Landmarks(acc.store.g) /\ acc.changes[into] = into
  BY <1>2, ChaseEnds DEF MergingOk
<1>. HIDE DEF from, into
<1>. SUFFICES ASSUME from # into PROVE MergingOk(next, s)
  BY <1>1
<1>4. next.store = MergeLandmark(acc.store, from, into)
      /\ next.changes = [acc.changes EXCEPT ![from] = into]
  BY <1>1
<1>5. /\ StoreOk(next.store) /\ next.store.g.link = acc.store.g.link
      /\ Landmarks(next.store.g) = Landmarks(acc.store.g) \ {from}
  <2>1. StoreOk(acc.store)
    BY DEF MergingOk
  <2>. QED BY <1>3, <1>4, <2>1, MergeLandmarkOk
<1>6. ChangesOk(next.changes, Landmarks(s.g), Landmarks(acc.store.g) \ {from})
  BY <1>2, <1>3, <1>4, ChangesExtended DEF MergingOk
<1>. QED BY <1>5, <1>6 DEF MergingOk

(* mergeLandmarks never meets a landmark that it removed before, in whatever *)
(* order the pairs come and however often a landmark occurs in them.         *)
LEMMA MergeLandmarksOk ==
  ASSUME NEW s, StoreOk(s),
         NEW ps \in Seq([old : Landmarks(s.g), new : Landmarks(s.g)]),
         NEW t, t = MergeLandmarks(s, ps)
  PROVE  StoreOk(t) /\ t.g.link = s.g.link /\ Landmarks(t.g) \subseteq Landmarks(s.g)
<1>. DEFINE first  == [store |-> s, changes |-> [l \in Ids |-> l]]
            merged == CHOOSE f : MergingFrom(first, ps, f, Len(ps))
<1>1. t = merged[Len(ps)].store
  BY DEF MergeLandmarks, MergingFrom
<1>2. Len(ps) \in Nat
  OBVIOUS
<1>3. MergingFrom(first, ps, merged, Len(ps)) /\ MergingOk(first, s)
  BY <1>2, MergingExists, MergingBegins
<1>. HIDE DEF merged, first
<1>. DEFINE wrong == {n \in 0 .. Len(ps) : ~MergingOk(merged[n], s)}
<1>4. wrong = {}
  <2>. SUFFICES ASSUME wrong # {} PROVE FALSE
    OBVIOUS
  <2>1. PICK m \in wrong : \A x \in wrong : m <= x
    <3>1. \A n \in wrong : n \in Nat
      OBVIOUS
    <3>. HIDE DEF wrong
    <3>. QED BY <3>1, NatsHaveMin DEF HasMin, IsMin
  <2>2. merged[m] = IF m = 0 THEN first ELSE MergePair(merged[m - 1], ps[m])
    BY <1>3 DEF MergingFrom
  <2>3. CASE m = 0
    BY <1>3, <2>1, <2>2, <2>3
  <2>4. CASE m # 0
    <3>1. m - 1 \in 0 .. Len(ps) /\ m - 1 \notin wrong /\ m \in 1 .. Len(ps)
      BY <1>2, <2>1, <2>4
    <3>2. ps[m] \in [old : Landmarks(s.g), new : Landmarks(s.g)]
      <4>. DEFINE P == [old : Landmarks(s.g), new : Landmarks(s.g)]
      <4>1. ps \in Seq(P)
        OBVIOUS
      <4>. HIDE DEF P
      <4>2. ps[m] \in P
        BY <3>1, <4>1
      <4>. QED BY <4>2 DEF P
    <3>3. ps[m].old \in Landmarks(s.g) /\ ps[m].new \in Landmarks(s.g)
      BY <3>2
    <3>4. MergingOk(merged[m - 1], s)
      BY <3>1
    <3>. QED BY <2>1, <2>2, <2>4, <3>3, <3>4, MergePairOk
  <2>. QED BY <2>3, <2>4
<1>5. MergingOk(merged[Len(ps)], s)
  BY <1>2, <1>4
<1>. QED BY <1>1, <1>5 DEF MergingOk, ChangesOk

(* ------------------------------------------------------------------------- *)
(* Frames and what is remembered of them.                                    *)

Late == {"classify", "stereo", "outliers", "clean"}

(* Most steps leave the frames alone; those that follow the decision about   *)
(* the keyframe leave that alone too.                                        *)
Quiet ==
  /\ UNCHANGED <<kind, flagged, dBow>> /\ cnn' \subseteq cnn
  /\ pc' = pc \/ pc # "idle"
  /\ pc \in Late => asKeyframe' = asKeyframe /\ pc' \in Late

(* Such a step keeps frames and memory as they should be.                    *)
LEMMA QuietOk ==
  ASSUME KindInv, MemoryInv, Quiet
  PROVE  KindInv' /\ MemoryInv'
<1>1. Present' = Present /\ Current' = Current
  BY CurrentKept DEF Quiet, Present
<1>2. KindInv'
  BY <1>1 DEF KindInv, Quiet
<1>3. MemoryInv'
  BY <1>1 DEF MemoryInv, Quiet, Late
<1>. QED BY <1>2, <1>3

(* The matching steps are of this sort,                                      *)
LEMMA MatchQuiet == Match => Quiet
<1>1. ASSUME NEW k, Pass(k),
             pc \in {"initialised", "uninitialised", "stereo"}
      PROVE  Quiet
  BY <1>1 DEF Pass, Quiet, backend, memory
<1>. QED BY <1>1 DEF Match, MatchInitialised, MatchUninitialised,
              RejectUninitialised, NoMatch, MergeStereo, ExtendStereo,
              CreateStereo, StereoStep

(* the removal of outliers,                                                  *)
LEMMA OutliersQuiet == Outliers => Quiet
<1>1. ASSUME NEW out, FirstInliers(out) PROVE Quiet
  BY <1>1 DEF FirstInliers, Quiet, Late, backend, memory
<1>2. ASSUME NEW out, SecondInliers(out) PROVE Quiet
  BY <1>2 DEF SecondInliers, Quiet, Late, backend, memory
<1>3. ASSUME NEW out, RunRansac2d2d(out) PROVE Quiet
  BY <1>3 DEF RunRansac2d2d, Quiet, Late, backend, memory
<1>4. ASSUME NEW out, RemoveOutliers(out) PROVE Quiet
  BY <1>4 DEF RemoveOutliers, Quiet, Late, backend, memory
<1>. QED BY <1>1, <1>2, <1>3, <1>4 DEF Outliers

(* the motion stereo,                                                        *)
LEMMA MotionStereoQuiet ==
  ASSUME NEW k0, NEW k1, MatchMotionStereo(k0, k1)
  PROVE  Quiet
BY DEF MatchMotionStereo, Quiet, Late, backend, memory, matcher

(* the decisions, and the beginnings and the end of the stereo matching.     *)
LEMMA DecisionsQuiet ==
  ASSUME \/ DecideKeyframe \/ SkipQuery \/ FindNothing \/ Redecide
         \/ NextStereoPair \/ EndStereo
  PROVE  Quiet
BY DEF DecideKeyframe, SkipQuery, FindNothing, Redecide, NextStereoPair,
       EndStereo, Quiet, Late, backend, memory

(* A step that changes frames, but neither makes nor forgets one.            *)
LEMMA RekindedOk ==
  ASSUME KindInv, MemoryInv, kind' \in [Frames -> Kinds],
         \A f \in Frames : kind'[f] # kind[f] =>
           {kind[f], kind'[f]} \cap {"coming", "gone"} = {},
         pc # "idle" => \A f \in Frames : kind[f] = "imu" => kind'[f] = "imu",
         UNCHANGED <<flagged, dBow, cnn>>, pc' = pc \/ pc # "idle",
         pc \notin Late
  PROVE  KindInv' /\ MemoryInv'
<1>1. Present' = Present /\ Current' = Current
  BY CurrentKept DEF Present
<1>2. \A f \in Frames : kind'[f] = "coming" => kind[f] = "coming"
  OBVIOUS
<1>3. KindInv'
  <2>1. pc # "idle" => kind'[Current] = "imu"
    BY CurrentIs DEF KindInv, Present
  <2>. QED BY <1>1, <1>2, <2>1 DEF KindInv
<1>4. MemoryInv'
  BY <1>1 DEF MemoryInv, Late
<1>. QED BY <1>3, <1>4

(* Expansion brings frames of the pose graph back, and no others.            *)
LEMMA ExpandRekinds ==
  ASSUME KindInv, NEW f \in Frames, NEW k \in {"key", "loop"}, Expand(f, k)
  PROVE  /\ kind' \in [Frames -> Kinds]
         /\ \A h \in Frames : kind'[h] # kind[h] =>
              kind[h] = "poseGraph" /\ kind'[h] \in {"key", "loop"}
                /\ h \in {f} \cup Linked(graph, f)
         /\ kind'[f] = IF kind[f] = "poseGraph" THEN "loop" ELSE kind[f]
BY DEF Expand, KindInv, Kinds

(* The new frame is the newest one.                                          *)
LEMMA AddStatesOk ==
  ASSUME KindInv, MemoryInv, NEW f \in Frames, AddStates(f)
  PROVE  /\ KindInv' /\ MemoryInv' /\ Current' = f /\ Present' = Present \cup {f}
         /\ \A h \in Frames : kind'[h] = IF h = f THEN "imu" ELSE kind[h]
<1>1. /\ kind' = [kind EXCEPT ![f] = "imu"] /\ kind[f] = "coming" /\ pc = "idle"
      /\ \A h \in Frames : kind[h] = "coming" => f <= h
      /\ UNCHANGED <<flagged, dBow, cnn>>
  BY DEF AddStates, memory
<1>2. kind' \in [Frames -> Kinds]
      /\ \A h \in Frames : kind'[h] = IF h = f THEN "imu" ELSE kind[h]
  BY <1>1 DEF KindInv, Kinds
<1>3. Present' = Present \cup {f}
  BY <1>1, <1>2 DEF Present
<1>4. \A h \in Present : h \in Nat /\ f \in Nat /\ h < f
  BY <1>1, FramesAssumption DEF KindInv, Present
<1>5. IsMax(Present', f)
  BY <1>3, <1>4, FramesAssumption DEF IsMax
<1>6. Current' = f
  BY <1>5, MaxIs DEF Current
<1>7. KindInv'
  <2>1. \A h \in Present', i \in Frames : kind'[i] = "coming" => h < i
    BY <1>1, <1>2, <1>3, FramesAssumption DEF KindInv
  <2>. QED BY <1>2, <1>3, <1>6, <2>1 DEF KindInv
<1>8. MemoryInv'
  BY <1>1, <1>3 DEF MemoryInv
<1>. QED BY <1>2, <1>3, <1>6, <1>7, <1>8

(* Frames and memory after any step.                                         *)
LEMMA KindMemoryStep ==
  ASSUME KindInv, MemoryInv, [Next]_vars
  PROVE  KindInv' /\ MemoryInv'
<1>1. CASE UNCHANGED vars
  BY <1>1, QuietOk DEF vars, backend, memory, Quiet
<1>2. ASSUME NEW f \in Frames, AddStates(f) PROVE KindInv' /\ MemoryInv'
  BY <1>2, AddStatesOk
<1>3. CASE Match \/ Outliers \/ DecideKeyframe \/ SkipQuery \/ FindNothing
             \/ Redecide \/ NextStereoPair \/ EndStereo
             \/ \E k0, k1 \in Keypoints : MatchMotionStereo(k0, k1)
  BY <1>3, MatchQuiet, OutliersQuiet, MotionStereoQuiet, DecisionsQuiet, QuietOk
<1>4. ASSUME NEW f \in Frames, CloseLoop(f) PROVE KindInv' /\ MemoryInv'
  <2>1. /\ Expand(f, "loop") /\ pc = "recognise" /\ pc' = "initialised"
        /\ UNCHANGED <<dBow, cnn>>
    BY <1>4 DEF CloseLoop, memory
  <2>2. UNCHANGED flagged
    BY <2>1 DEF Expand
  <2>. QED BY <2>1, <2>2, ExpandRekinds, RekindedOk DEF Late
<1>5. ASSUME NEW f \in Frames, ClassificationEnds(f)
      PROVE  KindInv' /\ MemoryInv'
  <2>1. Quiet
    BY <1>5 DEF ClassificationEnds, Quiet, backend, Late
  <2>. QED BY <2>1, QuietOk
<1>6. CASE RememberPlace \/ Classify
  <2>1. /\ UNCHANGED <<kind, flagged, asKeyframe>> /\ pc # "idle"
        /\ dBow' \cup cnn' \subseteq dBow \cup cnn \cup
                                     (IF asKeyframe THEN {Current} ELSE {})
        /\ asKeyframe => pc' \in Late
    BY <1>6 DEF RememberPlace, Classify, backend, memory, Late
  <2>2. Present' = Present /\ Current' = Current
    BY <2>1, CurrentKept DEF Present
  <2>3. KindInv'
    BY <2>1, <2>2 DEF KindInv
  <2>4. MemoryInv'
    BY <2>1, <2>2 DEF MemoryInv, Late
  <2>. QED BY <2>3, <2>4
<1>7. CASE Finish
  <2>1. /\ UNCHANGED <<kind, dBow, cnn, asKeyframe>> /\ pc = "clean" /\ pc' = "idle"
        /\ flagged' = IF asKeyframe THEN flagged \cup {Current} ELSE flagged
    BY <1>7 DEF Finish, memory
  <2>2. Present' = Present /\ Current' = Current /\ Current \in Present
    BY <2>1, CurrentKept, CurrentIs DEF Present, KindInv
  <2>3. KindInv'
    BY <2>1, <2>2 DEF KindInv
  <2>4. MemoryInv'
    BY <2>1, <2>2 DEF MemoryInv
  <2>. QED BY <2>3, <2>4
<1>8. CASE Clear
  <2>1. /\ kind' = [f \in Frames |-> IF f \in Present THEN "gone" ELSE kind[f]]
        /\ flagged' = {} /\ dBow' = {} /\ cnn' = {} /\ pc' = "idle"
    BY <1>8 DEF Clear
  <2>2. Present' = {} /\ kind' \in [Frames -> Kinds]
    BY <2>1 DEF Present, KindInv, Kinds
  <2>3. KindInv'
    BY <2>1, <2>2 DEF KindInv
  <2>4. MemoryInv'
    BY <2>1 DEF MemoryInv
  <2>. QED BY <2>3, <2>4
<1>9. ASSUME NEW f \in Frames, KeepAsKeyframe(f) PROVE KindInv' /\ MemoryInv'
  <2>1. /\ kind' = [kind EXCEPT ![f] = "key"] /\ kind[f] = "imu" /\ pc = "idle"
        /\ UNCHANGED <<flagged, dBow, cnn, pc>>
    BY <1>9 DEF KeepAsKeyframe, OldestImuFrame, memory
  <2>2. kind' \in [Frames -> Kinds]
        /\ \A h \in Frames : kind'[h] # kind[h] => h = f /\ kind'[h] = "key"
    BY <2>1 DEF KindInv, Kinds
  <2>. QED BY <2>1, <2>2, RekindedOk DEF Late
<1>10. ASSUME NEW f \in Frames, EliminateImuFrame(f) PROVE KindInv' /\ MemoryInv'
  <2>1. /\ kind' = [kind EXCEPT ![f] = "gone"] /\ kind[f] = "imu" /\ pc = "idle"
        /\ f \notin flagged /\ UNCHANGED <<flagged, dBow, cnn, pc>>
    BY <1>10 DEF EliminateImuFrame, OldestImuFrame, memory
  <2>2. kind' \in [Frames -> Kinds] /\ Present' = Present \ {f}
        /\ \A h \in Frames : kind'[h] = "coming" => kind[h] = "coming"
    BY <2>1 DEF KindInv, Kinds, Present
  <2>3. KindInv'
    BY <2>1, <2>2 DEF KindInv
  <2>4. MemoryInv'
    BY <2>1, <2>2 DEF MemoryInv
  <2>. QED BY <2>3, <2>4
<1>11. ASSUME NEW f \in Frames, ConvertToPoseGraph(f) \/ DropKeyframe(f)
       PROVE  KindInv' /\ MemoryInv'
  <2>1. /\ kind' = [kind EXCEPT ![f] = "poseGraph"] /\ kind[f] \in {"key", "loop"}
        /\ pc = "idle" /\ UNCHANGED <<flagged, dBow, cnn, pc>>
    BY <1>11 DEF ConvertToPoseGraph, DropKeyframe, memory
  <2>2. kind' \in [Frames -> Kinds]
        /\ \A h \in Frames : kind'[h] # kind[h] => h = f /\ kind'[h] = "poseGraph"
    BY <2>1 DEF KindInv, Kinds
  <2>. QED BY <2>1, <2>2, RekindedOk DEF Late
<1>12. ASSUME NEW f \in Frames, ExpandKeyframe(f) PROVE KindInv' /\ MemoryInv'
  <2>1. Expand(f, "key") /\ pc = "idle" /\ UNCHANGED <<dBow, cnn, pc>>
    BY <1>12 DEF ExpandKeyframe, memory
  <2>2. UNCHANGED flagged
    BY <2>1 DEF Expand
  <2>. QED BY <2>1, <2>2, ExpandRekinds, RekindedOk DEF Late
<1>. QED BY <1>1, <1>2, <1>3, <1>4, <1>5, <1>6, <1>7, <1>8, <1>9, <1>10, <1>11,
            <1>12 DEF Next

(* ------------------------------------------------------------------------- *)
(* The store after a step.                                                   *)

(* The store put together.                                                   *)
LEMMA StoreFields ==
  Store.g = graph /\ Store.slot = slot /\ Store.failed = failed
BY DEF Store

(* What makes the next store well formed.                                    *)
LEMMA NextStoreOk ==
  ASSUME GraphOk(graph'), slot' \in [Keypoints -> Nat], ~failed',
         \A k \in Keypoints : kind'[FrameOf(k)] \in {"imu", "coming"}
                                => slot'[k] = graph'.obs[k].lm
  PROVE  StoreOk(Store)'
BY DEF StoreOk, Store

(* The steps that call the backend's operations leave the frames alone.      *)
LEMMA PutOk ==
  ASSUME kind' = kind, LinksOk(graph),
         NEW t, StoreOk(t), t.g.link = graph.link, Put(t)
  PROVE  StoreOk(Store)' /\ LinksOk(graph)' /\ graph' = t.g
<1>1. graph' = t.g /\ slot' = t.slot /\ failed' = t.failed
  BY DEF Put
<1>2. ~failed'
  BY <1>1, Zenon DEF StoreOk
<1>3. StoreOk(Store)'
  BY <1>1, <1>2, NextStoreOk DEF StoreOk
<1>4. LinksOk(graph)'
  BY <1>1 DEF LinksOk
<1>. QED BY <1>1, <1>3, <1>4

(* A new landmark, before it is observed.                                    *)
LEMMA NewLandmarkOk ==
  ASSUME StoreOk(Store), NEW l \in Ids,
         NEW s, s = [Store EXCEPT !.g = Place(graph, l, 1)]
  PROVE  /\ StoreOk(s) /\ s.g.link = graph.link /\ s.g.obs = graph.obs
         /\ l \in Landmarks(s.g)
<1>. DEFINE h == Place(graph, l, 1)
<1>1. s = [g |-> h, slot |-> slot, failed |-> failed]
  <2>. HIDE DEF h
  <2>. QED BY DEF Store, h
<1>2. s = [g |-> Place(Store.g, l, 1), slot |-> Store.slot,
           failed |-> Store.failed]
  BY <1>1, StoreFields
<1>3. /\ StoreOk(s) /\ s.g.link = Store.g.link /\ s.g.obs = Store.g.obs
      /\ Landmarks(s.g) = Landmarks(Store.g) \cup {l}
  BY <1>2, PlaceStoreOk
<1>. QED BY <1>3, StoreFields

(* What the matching loops work on.                                          *)
LEMMA MineIs ==
  ASSUME FrontInv, pc # "idle", NEW k \in Mine
  PROVE  /\ k \in Keypoints /\ kind[FrameOf(k)] = "imu"
         /\ slot[k] = 0 <=> graph.obs[k] = NoObs
         /\ slot[k] # 0 => slot[k] \in Landmarks(graph)
<1>1. k \in Keypoints /\ kind[FrameOf(k)] = "imu"
  BY MineInWindow DEF FrontInv
<1>. QED BY <1>1, SlotIs, StoreFields DEF FrontInv

(* The keypoints in hand depend on the frames.                               *)
LEMMA FramesSame ==
  ASSUME kind' = kind
  PROVE  Mine' = Mine
BY CurrentKept DEF Present

(* A keypoint that is done leaves the list.                                  *)
LEMMA PassTodo ==
  ASSUME FrontInv, NEW k, Pass(k)
  PROVE  TodoInv' /\ kind' = kind /\ pc' = pc
<1>1. /\ todo' \subseteq todo /\ kind' = kind /\ pc' = pc
      /\ stereoPair' = stereoPair
  BY DEF Pass, backend
<1>. QED BY <1>1, FramesSame DEF FrontInv, TodoInv, OfFirstCamera

(* A pair of two landmarks that are there is noted down.                     *)
LEMMA RememberOk ==
  ASSUME FrontInv, NEW k \in todo, NEW l \in Landmarks(graph), Remember(k, l),
         Landmarks(graph') = Landmarks(graph), pc' = pc,
         pc \in {"initialised", "uninitialised"}
  PROVE  PairsInv'
<1>. DEFINE P == [old : Landmarks(graph), new : Landmarks(graph)]
<1>1. pairs \in Seq(P)
  BY DEF FrontInv, PairsInv
<1>2. slot[k] # 0 => [old |-> slot[k], new |-> l] \in P
  BY MineIs DEF FrontInv, TodoInv
<1>. HIDE DEF P
<1>3. pairs' \in Seq(P)
  BY <1>1, <1>2 DEF Remember
<1>. QED BY <1>3 DEF PairsInv, P

(* Pairs stay valid while no landmark goes.                                  *)
LEMMA PairsKept ==
  ASSUME FrontInv, pairs' = pairs, Landmarks(graph') = Landmarks(graph),
         pc' = pc \/ pc \notin {"initialised", "uninitialised"}
                  \/ pc' \in {"initialised", "uninitialised"}
  PROVE  PairsInv'
BY DEF FrontInv, PairsInv

LEMMA NoPairs == pairs' = <<>> => PairsInv'
BY DEF PairsInv

(* Stereo matching is between two different cameras.                         *)
LEMMA TwoCameras ==
  ASSUME NEW i \in DOMAIN StereoPairs
  PROVE  StereoPairs[i][1] # StereoPairs[i][2]
<1>. DEFINE P == {p \in Nat \X Nat : p[1] < p[2]}
<1>1. StereoPairs \in Seq(P)
  BY CamerasAssumption
<1>. HIDE DEF P
<1>2. StereoPairs[i] \in P
  BY <1>1
<1>. QED BY <1>2 DEF P

(* One keypoint is matched to a landmark of the map, or not.                 *)
LEMMA MatchStep ==
  ASSUME FrontInv, Match
  PROVE  StoreOk(Store)' /\ LinksOk(graph)' /\ TodoInv' /\ PairsInv'
<1>. DEFINE Goal == StoreOk(Store)' /\ LinksOk(graph)' /\ TodoInv' /\ PairsInv'
<1>0. /\ StoreOk(Store) /\ LinksOk(graph) /\ TodoInv
      /\ Landmarks(Store.g) = Landmarks(graph) /\ Store.g.link = graph.link
  BY StoreFields DEF FrontInv
<1>1. ASSUME NEW k \in todo, NEW l,
             MatchInitialised(k, l) \/ MatchUninitialised(k, l)
      PROVE  Goal
  <2>. DEFINE v == Vacate(Store, k)
              t == Associate(v, k, l)
  <2>1. /\ pc \in {"initialised", "uninitialised"} /\ l \in Landmarks(graph)
        /\ Pass(k) /\ Put(t) /\ Remember(k, l)
    BY <1>1 DEF MatchInitialised, MatchUninitialised, Offered
  <2>2. k \in Keypoints /\ kind[FrameOf(k)] = "imu"
    BY <2>1, MineIs DEF FrontInv, TodoInv
  <2>3. /\ StoreOk(v) /\ v.g.link = graph.link
        /\ Landmarks(v.g) = Landmarks(graph) /\ v.g.obs[k] = NoObs
    BY <1>0, <2>2, VacateOk
  <2>. HIDE DEF v
  <2>4. StoreOk(t) /\ t.g.link = graph.link /\ Landmarks(t.g) = Landmarks(graph)
    BY <2>1, <2>2, <2>3, AssociateOk
  <2>. HIDE DEF t
  <2>5. TodoInv' /\ kind' = kind /\ pc' = pc
    BY <2>1, PassTodo
  <2>6. StoreOk(Store)' /\ LinksOk(graph)' /\ graph' = t.g
    BY <1>0, <2>1, <2>4, <2>5, PutOk
  <2>. QED BY <2>1, <2>4, <2>5, <2>6, RememberOk
<1>2. ASSUME NEW k \in todo, NEW l, RejectUninitialised(k, l) PROVE Goal
  <2>. DEFINE v == Vacate(Store, k)
  <2>1. /\ pc \in {"initialised", "uninitialised"} /\ l \in Landmarks(graph)
        /\ Pass(k) /\ Put(v) /\ Remember(k, l)
    BY <1>2 DEF RejectUninitialised, Offered
  <2>2. k \in Keypoints /\ kind[FrameOf(k)] = "imu"
    BY <2>1, MineIs DEF FrontInv, TodoInv
  <2>3. StoreOk(v) /\ v.g.link = graph.link /\ Landmarks(v.g) = Landmarks(graph)
    BY <1>0, <2>2, VacateOk
  <2>. HIDE DEF v
  <2>4. TodoInv' /\ kind' = kind /\ pc' = pc
    BY <2>1, PassTodo
  <2>5. StoreOk(Store)' /\ LinksOk(graph)' /\ graph' = v.g
    BY <1>0, <2>1, <2>3, <2>4, PutOk
  <2>. QED BY <2>1, <2>3, <2>4, <2>5, RememberOk
<1>3. ASSUME NEW k \in todo, NoMatch(k) PROVE Goal
  <2>1. Pass(k) /\ UNCHANGED <<graph, slot, failed, pairs>>
    BY <1>3 DEF NoMatch, store
  <2>2. TodoInv' /\ kind' = kind /\ pc' = pc
    BY <2>1, PassTodo
  <2>3. Put(Store)
    BY <2>1 DEF Put, Store
  <2>4. StoreOk(Store)' /\ LinksOk(graph)'
    BY <1>0, <2>2, <2>3, PutOk
  <2>. QED BY <2>1, <2>2, <2>4, PairsKept
<1>4. ASSUME NEW k0 \in todo, NEW k1 \in Mine, StereoStep(k0, k1)
      PROVE  /\ k0 # k1 /\ pc = "stereo" /\ k0 \in Mine
             /\ TodoInv' /\ kind' = kind /\ PairsInv'
  <2>1. /\ pc = "stereo" /\ CameraOf[Index(k1)] = StereoPairs[stereoPair][2]
        /\ Pass(k0) /\ pairs' = pairs
    BY <1>4 DEF StereoStep
  <2>2. /\ stereoPair \in DOMAIN StereoPairs /\ k0 \in Mine
        /\ CameraOf[Index(k0)] = StereoPairs[stereoPair][1]
    BY <2>1 DEF FrontInv, TodoInv, OfFirstCamera
  <2>4. StereoPairs[stereoPair][1] # StereoPairs[stereoPair][2]
    BY <2>2, TwoCameras
  <2>3. pairs = <<>>
    BY <2>1 DEF FrontInv, PairsInv
  <2>. QED BY <2>1, <2>2, <2>3, <2>4, PassTodo, NoPairs
<1>5. ASSUME NEW k0 \in todo, NEW k1 \in Mine, MergeStereo(k0, k1) PROVE Goal
  <2>. DEFINE t == IF slot[k0] = slot[k1] THEN Store
                   ELSE MergeLandmark(Store, slot[k1], slot[k0])
  <2>1. StereoStep(k0, k1) /\ slot[k0] # 0 /\ slot[k1] # 0 /\ Put(t)
    BY <1>5 DEF MergeStereo
  <2>2. slot[k0] \in Landmarks(graph) /\ slot[k1] \in Landmarks(graph)
    BY <1>4, <2>1, MineIs
  <2>3. StoreOk(t) /\ t.g.link = graph.link
    BY <1>0, <2>2, MergeLandmarkOk
  <2>. HIDE DEF t
  <2>. QED BY <1>0, <1>4, <2>1, <2>3, PutOk
<1>6. ASSUME NEW k0 \in todo, NEW k1 \in Mine, ExtendStereo(k0, k1) PROVE Goal
  <2>1. StereoStep(k0, k1)
    BY <1>6 DEF ExtendStereo
  <2>2. PICK k \in Mine, l \in Landmarks(graph) :
          slot[k] = 0 /\ Put(Associate(Store, k, l))
    BY <1>4, <1>6, <2>1, MineIs DEF ExtendStereo
  <2>3. /\ k \in Keypoints /\ kind[FrameOf(k)] = "imu" /\ Store.g.obs[k] = NoObs
    BY <1>4, <2>1, <2>2, MineIs, StoreFields
  <2>. DEFINE t == Associate(Store, k, l)
  <2>4. StoreOk(t) /\ t.g.link = graph.link
    BY <1>0, <2>3, AssociateOk
  <2>. HIDE DEF t
  <2>5. Put(t)
    BY <2>2 DEF t
  <2>. QED BY <1>0, <1>4, <2>1, <2>4, <2>5, PutOk
<1>7. ASSUME NEW k0 \in todo, NEW k1 \in Mine, NEW by0 \in BOOLEAN,
             NEW by1 \in BOOLEAN, CreateStereo(k0, k1, by0, by1)
      PROVE  Goal
  <2>. DEFINE l  == NewId(graph)
              s  == [Store EXCEPT !.g = Place(graph, l, 1)]
              s0 == IF by0 THEN Associate(s, k0, l) ELSE s
              t  == IF by1 THEN Associate(s0, k1, l) ELSE s0
  <2>1. /\ StereoStep(k0, k1) /\ slot[k0] = 0 /\ slot[k1] = 0 /\ l \in Ids
        /\ Put(t)
    BY <1>7 DEF CreateStereo
  <2>2. /\ k0 # k1 /\ k0 \in Keypoints /\ kind[FrameOf(k0)] = "imu"
        /\ k1 \in Keypoints /\ kind[FrameOf(k1)] = "imu"
        /\ graph.obs[k0] = NoObs /\ graph.obs[k1] = NoObs
    BY <1>4, <2>1, MineIs
  <2>. HIDE DEF l
  <2>3. /\ StoreOk(s) /\ s.g.link = graph.link /\ s.g.obs = graph.obs
        /\ l \in Landmarks(s.g)
    <3>1. l \in Ids /\ StoreOk(Store)
      BY <1>0, <2>1
    <3>. QED BY <3>1, NewLandmarkOk
  <2>. HIDE DEF s
  <2>4. /\ StoreOk(s0) /\ s0.g.link = graph.link /\ s0.g.obs[k1] = NoObs
        /\ l \in Landmarks(s0.g)
    BY <2>2, <2>3, AssociateOk
  <2>. HIDE DEF s0
  <2>5. StoreOk(t) /\ t.g.link = graph.link
    BY <2>2, <2>4, AssociateOk
  <2>. HIDE DEF t
  <2>. QED BY <1>0, <1>4, <2>1, <2>5, PutOk
<1>. QED BY <1>1, <1>2, <1>3, <1>5, <1>6, <1>7 DEF Match

(* Nothing left to do.                                                       *)
LEMMA TodoEmptied ==
  todo' = {} => TodoInv'
BY DEF TodoInv

(* Everything to do: the keypoints of the current frame.                     *)
LEMMA AllTodo ==
  ASSUME KindInv, pc # "idle", kind' = kind \/ Mine' = Mine, todo' = Mine,
         pc' \in {"initialised", "uninitialised"}
  PROVE  TodoInv'
<1>1. Mine' = Mine /\ Mine \subseteq Keypoints
  BY FramesSame DEF Mine, KeypointsOf
<1>. QED BY <1>1 DEF TodoInv

(* RANSAC and removeOutliers take observations that are there.               *)
LEMMA OutliersStep ==
  ASSUME FrontInv, Outliers
  PROVE  StoreOk(Store)' /\ LinksOk(graph)' /\ TodoInv' /\ PairsInv'
<1>. DEFINE Goal == StoreOk(Store)' /\ LinksOk(graph)' /\ TodoInv' /\ PairsInv'
<1>0. /\ StoreOk(Store) /\ LinksOk(graph) /\ TodoInv /\ PairsInv /\ KindInv
      /\ Landmarks(Store.g) = Landmarks(graph) /\ Store.g.link = graph.link
  BY StoreFields DEF FrontInv
<1>1. ASSUME NEW out, pc # "idle", out \subseteq HasSlot(Mine),
             Put(RemoveAll(Store, out)), kind' = kind
      PROVE  /\ StoreOk(Store)' /\ LinksOk(graph)'
             /\ Landmarks(graph') = Landmarks(graph)
  <2>. DEFINE t == RemoveAll(Store, out)
  <2>1. \A k \in out : Store.g.obs[k] # NoObs
    BY <1>1, MineIs, StoreFields DEF HasSlot
  <2>2. /\ StoreOk(t) /\ t.g.link = graph.link
        /\ Landmarks(t.g) = Landmarks(graph)
    BY <1>0, <2>1, RemoveAllOk
  <2>. HIDE DEF t
  <2>3. Put(t)
    BY <1>1 DEF t
  <2>. QED BY <1>0, <1>1, <2>2, <2>3, PutOk
<1>2. ASSUME NEW out, FirstInliers(out) PROVE Goal
  <2>1. /\ pc = "initialised" /\ out \subseteq HasSlot(Mine)
        /\ Put(RemoveAll(Store, out)) /\ kind' = kind /\ pairs' = pairs
        /\ pc' = "uninitialised" /\ todo' = Mine
    BY <1>2 DEF FirstInliers, backend
  <2>. QED BY <1>0, <1>1, <2>1, AllTodo, PairsKept
<1>3. ASSUME NEW out, SecondInliers(out) PROVE Goal
  <2>. DEFINE m == IF loopMode THEN MergeLandmarks(Store, pairs) ELSE Store
              t == RemoveAll(m, out)
  <2>1. /\ pc = "uninitialised" /\ todo = {} /\ todo' = todo /\ pairs' = <<>>
        /\ out \subseteq {k \in Mine : m.slot[k] # 0}
        /\ Put(t) /\ kind' = kind
    BY <1>3 DEF SecondInliers, backend
  <2>2. StoreOk(m) /\ m.g.link = graph.link
    <3>1. pairs \in Seq([old : Landmarks(Store.g), new : Landmarks(Store.g)])
      BY <1>0 DEF PairsInv
    <3>. QED BY <1>0, <3>1, MergeLandmarksOk
  <2>. HIDE DEF m
  <2>3. \A k \in out : m.g.obs[k] # NoObs
    BY <1>0, <2>1, <2>2, MineInWindow, SlotIs
  <2>4. StoreOk(t) /\ t.g.link = graph.link
    BY <2>2, <2>3, RemoveAllOk
  <2>. HIDE DEF t
  <2>. QED BY <1>0, <2>1, <2>4, PutOk, TodoEmptied, NoPairs
<1>4. ASSUME NEW out, RunRansac2d2d(out) \/ RemoveOutliers(out) PROVE Goal
  <2>1. /\ pc \in {"motionStereo", "outliers"} /\ out \subseteq HasSlot(Mine)
        /\ Put(RemoveAll(Store, out)) /\ kind' = kind /\ pairs' = pairs
        /\ todo' = todo
    <3>1. 0 \notin Landmarks(graph)
      BY IdType DEF Landmarks
    <3>. QED BY <1>4, <3>1 DEF RunRansac2d2d, RemoveOutliers, backend, matcher,
                              HasSlot
  <2>2. todo = {} /\ pairs = <<>>
    BY <1>0, <2>1 DEF TodoInv, PairsInv
  <2>. QED BY <1>0, <1>1, <2>1, <2>2, TodoEmptied, NoPairs
<1>. QED BY <1>2, <1>3, <1>4 DEF Outliers

(* A match between two frames: the older keypoint is not observed, and what  *)
(* its slot names is in the graph.                                           *)
LEMMA MotionStereoStep ==
  ASSUME FrontInv, NEW k0 \in Keypoints, NEW k1 \in Keypoints,
         MatchMotionStereo(k0, k1)
  PROVE  StoreOk(Store)' /\ LinksOk(graph)' /\ TodoInv' /\ PairsInv'
<1>0. /\ StoreOk(Store) /\ LinksOk(graph) /\ TodoInv /\ PairsInv /\ KindInv
      /\ Store.g.link = graph.link
  BY StoreFields DEF FrontInv
<1>. DEFINE l   == IF slot[k0] # 0 THEN slot[k0] ELSE NewId(graph)
            new == [Store EXCEPT !.g = Place(graph, l, 1)]
            old == IF slot[k0] # 0 THEN Store ELSE Associate(new, k0, l)
            t   == Associate(old, k1, l)
<1>1. /\ pc = "motionStereo" /\ FrameOf(k0) \in OlderFrames
      /\ FrameOf(k1) = Current /\ FreeInOlder(k0) /\ slot[k1] = 0 /\ l \in Ids
      /\ Put(t) /\ kind' = kind /\ todo' = todo /\ pairs' = pairs
  BY DEF MatchMotionStereo, backend, matcher
<1>2. k1 \in Mine /\ k0 # k1 /\ kind[FrameOf(k0)] \in {"key", "imu"}
      /\ kind[FrameOf(k1)] = "imu"
  BY <1>0, <1>1, MineInWindow DEF OlderFrames, Kept, Mine, KeypointsOf
<1>3. graph.obs[k0] = NoObs /\ graph.obs[k1] = NoObs
      /\ (slot[k0] # 0 => slot[k0] \in Landmarks(graph))
  BY <1>1, <1>2, MineIs DEF FreeInOlder, Seen
<1>4. /\ StoreOk(old) /\ old.g.link = graph.link /\ old.g.obs[k1] = NoObs
      /\ l \in Landmarks(old.g)
  <2>1. CASE slot[k0] # 0
    BY <1>0, <1>3, <2>1, StoreFields
  <2>2. CASE slot[k0] = 0
    <3>1. l \in Ids /\ StoreOk(Store)
      BY <1>0, <1>1
    <3>. HIDE DEF l
    <3>2. /\ StoreOk(new) /\ new.g.link = graph.link /\ new.g.obs = graph.obs
          /\ l \in Landmarks(new.g)
      BY <3>1, NewLandmarkOk
    <3>. HIDE DEF new
    <3>3. kind[FrameOf(k0)] \in {"imu", "key", "loop"} /\ new.g.obs[k0] = NoObs
          /\ new.g.obs[k1] = NoObs /\ k1 \in Keypoints \ {k0}
      BY <1>2, <1>3, <3>2
    <3>4. old = Associate(new, k0, l)
      BY <2>2
    <3>. HIDE DEF old
    <3>. QED BY <3>2, <3>3, <3>4, AssociateOk
  <2>. QED BY <2>1, <2>2
<1>. HIDE DEF l, old
<1>5. StoreOk(t) /\ t.g.link = graph.link
  BY <1>2, <1>4, AssociateOk
<1>. HIDE DEF t
<1>6. todo = {} /\ pairs = <<>>
  BY <1>0, <1>1 DEF TodoInv, PairsInv
<1>. QED BY <1>0, <1>1, <1>5, <1>6, PutOk, TodoEmptied, NoPairs

(* Between the calls the store stays as it is.                               *)
LEMMA StoreUntouched ==
  ASSUME StoreOk(Store), LinksOk(graph), kind' = kind,
         UNCHANGED <<graph, slot, failed>>
  PROVE  StoreOk(Store)' /\ LinksOk(graph)'
<1>1. Put(Store)
  BY DEF Put, Store
<1>. QED BY <1>1, PutOk, StoreFields

(* Decisions and what is remembered of a frame change no association.        *)
LEMMA DecisionsStep ==
  ASSUME FrontInv,
         \/ DecideKeyframe \/ SkipQuery \/ FindNothing \/ Redecide \/ EndStereo
         \/ RememberPlace \/ Classify \/ \E f \in Frames : ClassificationEnds(f)
  PROVE  StoreOk(Store)' /\ LinksOk(graph)' /\ TodoInv' /\ PairsInv'
<1>0. /\ StoreOk(Store) /\ LinksOk(graph) /\ TodoInv /\ PairsInv
  BY DEF FrontInv
<1>1. /\ UNCHANGED <<graph, slot, failed, kind, pairs>>
      /\ \/ UNCHANGED <<todo, pc, stereoPair>>
         \/ /\ todo' = todo /\ todo = {}
            /\ {pc, pc'} \cap {"initialised", "uninitialised"} = {}
  BY <1>0 DEF DecideKeyframe, SkipQuery, FindNothing, Redecide, EndStereo,
              RememberPlace, Classify, ClassificationEnds, backend, store,
              matcher, TodoInv
<1>2. StoreOk(Store)' /\ LinksOk(graph)' /\ Mine' = Mine
  BY <1>0, <1>1, StoreUntouched, FramesSame
<1>3. CASE UNCHANGED <<todo, pc, stereoPair>>
  <2>1. TodoInv'
    BY <1>0, <1>2, <1>3 DEF TodoInv, OfFirstCamera
  <2>2. PairsInv'
    BY <1>0, <1>1, <1>3 DEF PairsInv
  <2>. QED BY <1>2, <2>1, <2>2
<1>4. CASE /\ todo' = todo /\ todo = {}
           /\ {pc, pc'} \cap {"initialised", "uninitialised"} = {}
  <2>1. PairsInv'
    BY <1>0, <1>1, <1>4 DEF PairsInv
  <2>. QED BY <1>2, <1>4, <2>1, TodoEmptied
<1>. QED BY <1>1, <1>3, <1>4

(* The next two cameras: the loop begins with the keypoints of the first.    *)
LEMMA StereoPairStep ==
  ASSUME FrontInv, NextStereoPair
  PROVE  StoreOk(Store)' /\ LinksOk(graph)' /\ TodoInv' /\ PairsInv'
<1>1. /\ UNCHANGED <<graph, slot, failed, kind, pairs, pc>> /\ pc = "stereo"
      /\ stereoPair < Len(StereoPairs) /\ stereoPair' = stereoPair + 1
      /\ todo' = {k \in Mine : CameraOf[Index(k)] = StereoPairs[stereoPair'][1]}
  BY DEF NextStereoPair, backend, store
<1>2. StoreOk(Store)' /\ LinksOk(graph)' /\ Mine' = Mine
  BY <1>1, StoreUntouched, FramesSame DEF FrontInv
<1>3. stereoPair' \in DOMAIN StereoPairs
  <2>. DEFINE P == {p \in Nat \X Nat : p[1] < p[2]}
  <2>1. StereoPairs \in Seq(P)
    BY CamerasAssumption
  <2>. HIDE DEF P
  <2>. QED BY <1>1, <2>1 DEF FrontInv
<1>4. TodoInv'
  <2>1. todo' \subseteq Mine /\ Mine \subseteq Keypoints
    BY <1>1 DEF Mine, KeypointsOf
  <2>2. \A k \in todo' : OfFirstCamera(k)'
    BY <1>1, <1>3 DEF OfFirstCamera
  <2>. QED BY <1>1, <1>2, <2>1, <2>2 DEF TodoInv
<1>5. PairsInv'
  BY <1>1 DEF FrontInv, PairsInv
<1>. QED BY <1>2, <1>4, <1>5

(* The pairs are counted by matchStereo alone.                               *)
LEMMA StereoPairCounted ==
  ASSUME FrontInv, [Next]_vars
  PROVE  stereoPair' \in 0 .. Len(StereoPairs)
<1>1. Len(StereoPairs) \in Nat /\ stereoPair \in 0 .. Len(StereoPairs)
  <2>. DEFINE P == {p \in Nat \X Nat : p[1] < p[2]}
  <2>1. StereoPairs \in Seq(P)
    BY CamerasAssumption
  <2>. HIDE DEF P
  <2>. QED BY <2>1 DEF FrontInv
<1>2. CASE NextStereoPair \/ EndStereo
  BY <1>1, <1>2 DEF NextStereoPair, EndStereo
<1>3. ASSUME Match PROVE stereoPair' = stereoPair
  BY <1>3 DEF Match, MatchInitialised, MatchUninitialised, RejectUninitialised,
              NoMatch, MergeStereo, ExtendStereo, CreateStereo, StereoStep, Pass
<1>4. ASSUME Outliers PROVE stereoPair' = stereoPair
  BY <1>4 DEF Outliers, FirstInliers, SecondInliers, RunRansac2d2d,
              RemoveOutliers, matcher
<1>5. ASSUME \/ DecideKeyframe \/ SkipQuery \/ FindNothing \/ Redecide
             \/ RememberPlace \/ Classify \/ Finish \/ Clear
      PROVE  stereoPair' = stereoPair
  BY <1>5 DEF DecideKeyframe, SkipQuery, FindNothing, Redecide, RememberPlace,
              Classify, Finish, Clear, matcher
<1>6. ASSUME NEW f \in Frames,
             \/ AddStates(f) \/ CloseLoop(f) \/ ClassificationEnds(f)
             \/ KeepAsKeyframe(f) \/ EliminateImuFrame(f)
             \/ ConvertToPoseGraph(f) \/ DropKeyframe(f) \/ ExpandKeyframe(f)
      PROVE  stereoPair' = stereoPair
  BY <1>6 DEF AddStates, CloseLoop, ClassificationEnds, KeepAsKeyframe,
              EliminateImuFrame, ConvertToPoseGraph, DropKeyframe,
              ExpandKeyframe, matcher
<1>7. ASSUME NEW k0 \in Keypoints, NEW k1 \in Keypoints,
             MatchMotionStereo(k0, k1)
      PROVE  stereoPair' = stereoPair
  BY <1>7 DEF MatchMotionStereo, matcher
<1>8. ASSUME UNCHANGED vars PROVE stereoPair' = stereoPair
  BY <1>8 DEF vars, matcher
<1>. QED BY <1>1, <1>2, <1>3, <1>4, <1>5, <1>6, <1>7, <1>8 DEF Next

(* Expansion gives observations back to frames that left the IMU window; the *)
(* multi-frames of the others already say what they observe.                 *)
LEMMA ExpandStep ==
  ASSUME FrontInv, NEW f \in Frames, NEW k \in {"key", "loop"}, Expand(f, k),
         kind[f] \in LinkedKinds
  PROVE  StoreOk(Store)' /\ LinksOk(graph)' /\ Mine' = Mine
<1>0. /\ GraphOk(graph) /\ slot \in [Keypoints -> Nat] /\ ~failed
      /\ LinksOk(graph) /\ KindInv
      /\ \A m \in Keypoints : kind[FrameOf(m)] \in {"imu", "coming"}
                                => slot[m] = graph.obs[m].lm
  BY Zenon, StoreFields DEF FrontInv, StoreOk
<1>1. graph' = ConvertToObservations(graph, f) /\ UNCHANGED <<slot, failed>>
  BY DEF Expand
<1>2. /\ kind' \in [Frames -> Kinds]
      /\ \A h \in Frames : kind'[h] # kind[h] =>
           kind[h] = "poseGraph" /\ kind'[h] \in {"key", "loop"}
  BY <1>0, ExpandRekinds
<1>3. GraphOk(graph')
  BY <1>0, <1>1, ConvertToObservationsOk
<1>4. ASSUME NEW m \in Keypoints, kind'[FrameOf(m)] \in {"imu", "coming"}
      PROVE  slot'[m] = graph'.obs[m].lm
  <2>1. FrameOf(m) \in Frames
    BY KeypointFrame
  <2>2. kind[FrameOf(m)] \in {"imu", "coming"}
    BY <1>2, <1>4, <2>1
  <2>3. ASSUME NEW r \in Returning(graph, f), r.kid = m PROVE FALSE
    <3>1. r.from \in Linked(graph, f) /\ FrameOf(m) \in {f, r.from}
      BY <1>0, <2>3, ReturningOk
    <3>2. kind[FrameOf(m)] \in LinkedKinds
      BY <1>0, <3>1 DEF Linked, LinksOk
    <3>. QED BY <2>2, <3>2 DEF LinkedKinds
  <2>4. graph'.obs[m] = graph.obs[m]
    BY <1>0, <1>1, <2>3, ExpansionObs
  <2>. QED BY <1>0, <1>1, <2>2, <2>4
<1>5. ~failed'
  BY <1>0, <1>1, Zenon
<1>6. StoreOk(Store)'
  BY <1>0, <1>1, <1>3, <1>4, <1>5, NextStoreOk
<1>7. LinksOk(graph)'
  <2>1. \A p \in Links : graph'.link[p] = IF f \in p THEN {} ELSE graph.link[p]
    BY <1>1 DEF ConvertToObservations
  <2>2. \A h \in Frames : kind[h] \in LinkedKinds => kind'[h] \in LinkedKinds
    BY <1>2 DEF LinkedKinds
  <2>3. ASSUME NEW g \in Frames, NEW h \in Frames, graph'.link[{g, h}] # {}
        PROVE  kind'[g] \in LinkedKinds /\ kind'[h] \in LinkedKinds
    <3>1. {g, h} \in Links
      BY DEF Links
    <3>2. graph.link[{g, h}] # {}
      BY <2>1, <2>3, <3>1
    <3>. QED BY <1>0, <2>2, <3>2 DEF LinksOk
  <2>. QED BY <2>3 DEF LinksOk
<1>8. Mine' = Mine
  <2>1. Present' = Present
    BY <1>2 DEF Present
  <2>. QED BY <2>1, CurrentKept
<1>. QED BY <1>6, <1>7, <1>8

(* The steps that change the graph outside of the matching.                  *)
LEMMA FrameChangeOk ==
  ASSUME FrontInv, GraphOk(graph'), slot' \in [Keypoints -> Nat],
         failed' = failed,
         \A k \in Keypoints : kind'[FrameOf(k)] \in {"imu", "coming"} =>
           /\ kind[FrameOf(k)] \in {"imu", "coming"}
           /\ \/ slot'[k] = slot[k] /\ graph'.obs[k] = graph.obs[k]
              \/ slot'[k] = 0 /\ graph'.obs[k] = NoObs,
         \A f, h \in Frames : graph'.link[{f, h}] # {} =>
           kind'[f] \in LinkedKinds /\ kind'[h] \in LinkedKinds
  PROVE  StoreOk(Store)' /\ LinksOk(graph)'
<1>0. /\ ~failed
      /\ \A m \in Keypoints : kind[FrameOf(m)] \in {"imu", "coming"}
                                => slot[m] = graph.obs[m].lm
  BY Zenon, StoreFields DEF FrontInv, StoreOk
<1>1. ~failed'
  BY <1>0, Zenon
<1>2. StoreOk(Store)'
  BY <1>0, <1>1, NoObsType, NextStoreOk
<1>. QED BY <1>2 DEF LinksOk

(* What the steps of the backend need of the invariant.                      *)
LEMMA FrontParts ==
  ASSUME FrontInv
  PROVE  /\ GraphOk(graph) /\ slot \in [Keypoints -> Nat] /\ KindInv
         /\ \A f, h \in Frames : graph.link[{f, h}] # {} =>
              kind[f] \in LinkedKinds /\ kind[h] \in LinkedKinds
         /\ pc \notin {"initialised", "uninitialised"} => pairs = <<>>
         /\ pc \notin {"initialised", "uninitialised", "stereo"} => todo = {}
BY StoreFields DEF FrontInv, StoreOk, LinksOk, PairsInv, TodoInv

(* The end of the association.                                               *)
LEMMA FinishStep ==
  ASSUME FrontInv, Finish
  PROVE  StoreOk(Store)' /\ LinksOk(graph)' /\ TodoInv' /\ PairsInv'
<1>. DEFINE gone == Unobserved(graph)
            ks   == {k \in Keypoints : graph.obs[k].lm \in gone}
<1>1. /\ graph' = RemoveLandmarks(graph, gone)
      /\ slot' = [k \in Keypoints |-> IF k \in ks THEN 0 ELSE slot[k]]
      /\ UNCHANGED <<kind, failed, todo, pairs>> /\ pc = "clean"
  BY DEF Finish, CleanUnobserved, matcher
<1>. HIDE DEF gone
<1>2. GraphOk(graph')
  BY <1>1, FrontParts, RemoveLandmarksOk
<1>3. graph'.link = graph.link
      /\ \A k \in Keypoints :
           graph'.obs[k] = IF graph.obs[k].lm \in gone THEN NoObs ELSE graph.obs[k]
  BY <1>1, FrontParts DEF RemoveLandmarks, RemoveObservations, GraphOk, Graph
<1>4. slot' \in [Keypoints -> Nat]
      /\ \A k \in Keypoints :
           slot'[k] = IF graph.obs[k].lm \in gone THEN 0 ELSE slot[k]
  BY <1>1, FrontParts
<1>5. StoreOk(Store)' /\ LinksOk(graph)'
  BY <1>1, <1>2, <1>3, <1>4, FrontParts, FrameChangeOk
<1>6. todo' = {} /\ pairs' = <<>>
  BY <1>1, FrontParts
<1>. QED BY <1>5, <1>6, TodoEmptied, NoPairs

(* clear: an empty graph, nothing remembered.                                *)
LEMMA ClearStep ==
  ASSUME FrontInv, Clear
  PROVE  StoreOk(Store)' /\ LinksOk(graph)' /\ TodoInv' /\ PairsInv'
<1>1. /\ graph' = EmptyGraph /\ slot' = [k \in Keypoints |-> 0]
      /\ UNCHANGED <<failed, todo, pairs>> /\ pc = "clean"
      /\ kind' = [f \in Frames |-> IF f \in Present THEN "gone" ELSE kind[f]]
  BY DEF Clear, matcher
<1>2. GraphOk(graph') /\ slot' \in [Keypoints -> Nat]
  BY <1>1, EmptyOk
<1>3. /\ \A k \in Keypoints : slot'[k] = 0 /\ graph'.obs[k] = NoObs
      /\ \A p \in Links : graph'.link[p] = {}
  BY <1>1 DEF EmptyGraph
<1>4. \A f \in Frames : kind'[f] = "coming" => kind[f] = "coming"
  BY <1>1 DEF Present
<1>5. \A f \in Frames : kind'[f] # "imu"
  BY <1>1 DEF Present
<1>6. StoreOk(Store)' /\ LinksOk(graph)'
  BY <1>1, <1>2, <1>3, <1>4, <1>5, KeypointFrame, FrameChangeOk DEF Links
<1>7. todo' = {} /\ pairs' = <<>>
  BY <1>1, FrontParts
<1>. QED BY <1>6, <1>7, TodoEmptied, NoPairs

(* A new frame has no associations.                                          *)
LEMMA AddStatesStep ==
  ASSUME FrontInv, NEW f \in Frames, AddStates(f)
  PROVE  StoreOk(Store)' /\ LinksOk(graph)' /\ TodoInv' /\ PairsInv'
<1>1. /\ UNCHANGED <<graph, slot, failed>> /\ kind[f] = "coming" /\ pairs' = <<>>
      /\ \/ todo' = {}
         \/ todo' = KeypointsOf(f) /\ pc' = "initialised"
  BY DEF AddStates, store
<1>2. Current' = f /\ \A h \in Frames : kind'[h] = IF h = f THEN "imu" ELSE kind[h]
  BY AddStatesOk DEF FrontInv
<1>3. StoreOk(Store)' /\ LinksOk(graph)'
  BY <1>1, <1>2, FrontParts, KeypointFrame, FrameChangeOk DEF LinkedKinds
<1>4. Mine' = KeypointsOf(f) /\ KeypointsOf(f) \subseteq Keypoints
  BY <1>2 DEF Mine, KeypointsOf
<1>5. TodoInv'
  BY <1>1, <1>4 DEF TodoInv
<1>. QED BY <1>1, <1>3, <1>5, NoPairs

(* A frame leaves the IMU window, or the window of keyframes.                *)
LEMMA StrategyStep ==
  ASSUME FrontInv, NEW f \in Frames,
         \/ KeepAsKeyframe(f) \/ EliminateImuFrame(f)
         \/ ConvertToPoseGraph(f) \/ DropKeyframe(f)
  PROVE  StoreOk(Store)' /\ LinksOk(graph)' /\ TodoInv' /\ PairsInv'
<1>1. pc = "idle" /\ UNCHANGED <<failed, todo, pairs>>
  BY DEF KeepAsKeyframe, EliminateImuFrame, ConvertToPoseGraph, DropKeyframe,
         OldestImuFrame, store, matcher
<1>2. todo' = {} /\ pairs' = <<>>
  BY <1>1, FrontParts
<1>3. CASE KeepAsKeyframe(f)
  <2>1. kind[f] = "imu" /\ kind' = [kind EXCEPT ![f] = "key"]
        /\ UNCHANGED <<graph, slot>>
    BY <1>3 DEF KeepAsKeyframe, OldestImuFrame, store
  <2>2. \A h \in Frames : kind'[h] = IF h = f THEN "key" ELSE kind[h]
    BY <2>1, FrontParts DEF KindInv
  <2>3. StoreOk(Store)' /\ LinksOk(graph)'
    BY <1>1, <2>1, <2>2, FrontParts, KeypointFrame, FrameChangeOk DEF LinkedKinds
  <2>. QED BY <1>2, <2>3, TodoEmptied, NoPairs
<1>4. CASE EliminateImuFrame(f)
  <2>1. /\ kind[f] = "imu" /\ kind' = [kind EXCEPT ![f] = "gone"]
        /\ graph' = RemoveObservations(graph, KeypointsOf(f))
        /\ slot' = [k \in Keypoints |-> IF FrameOf(k) = f THEN 0 ELSE slot[k]]
    BY <1>4 DEF EliminateImuFrame, OldestImuFrame
  <2>2. \A h \in Frames : kind'[h] = IF h = f THEN "gone" ELSE kind[h]
    BY <2>1, FrontParts DEF KindInv
  <2>3. /\ GraphOk(graph') /\ graph'.link = graph.link
        /\ \A k \in Keypoints : FrameOf(k) # f => graph'.obs[k] = graph.obs[k]
    BY <2>1, FrontParts, RemoveObservationsOk, RemovedFields DEF KeypointsOf
  <2>4. slot' \in [Keypoints -> Nat]
        /\ \A k \in Keypoints : FrameOf(k) # f => slot'[k] = slot[k]
    BY <2>1, FrontParts
  <2>5. \A k \in Keypoints : kind'[FrameOf(k)] \in {"imu", "coming"} =>
          /\ kind[FrameOf(k)] \in {"imu", "coming"}
          /\ slot'[k] = slot[k] /\ graph'.obs[k] = graph.obs[k]
    BY <2>2, <2>3, <2>4, KeypointFrame
  <2>6. \A g, h \in Frames : graph'.link[{g, h}] # {} =>
          kind'[g] \in LinkedKinds /\ kind'[h] \in LinkedKinds
    <3>. SUFFICES ASSUME NEW g \in Frames, NEW h \in Frames,
                         graph'.link[{g, h}] # {}
                  PROVE  kind'[g] \in LinkedKinds /\ kind'[h] \in LinkedKinds
      OBVIOUS
    <3>1. kind[g] \in LinkedKinds /\ kind[h] \in LinkedKinds
      BY <2>3, FrontParts
    <3>2. g # f /\ h # f
      BY <2>1, <3>1 DEF LinkedKinds
    <3>. QED BY <2>2, <3>1, <3>2
  <2>7. StoreOk(Store)' /\ LinksOk(graph)'
    BY <1>1, <2>3, <2>4, <2>5, <2>6, FrameChangeOk
  <2>. QED BY <1>2, <2>7, TodoEmptied, NoPairs
<1>5. CASE ConvertToPoseGraph(f)
  <2>1. /\ kind[f] \in {"key", "loop"} /\ kind' = [kind EXCEPT ![f] = "poseGraph"]
        /\ graph' = ConvertToLinks(graph, f, LinkTo(f)) /\ slot' = slot
    BY <1>5 DEF ConvertToPoseGraph
  <2>2. \A h \in Frames : kind'[h] = IF h = f THEN "poseGraph" ELSE kind[h]
    BY <2>1, FrontParts DEF KindInv
  <2>3. \A h \in LinkTo(f) : h \in Frames /\ kind[h] \in LinkedKinds
    <3>1. Kept({"key", "loop"}) \ {f} \in SUBSET Frames
      BY DEF Kept
    <3>. QED BY <2>1, <3>1, NeighboursInWindow DEF LinkTo, Kept, LinkedKinds
  <2>. DEFINE hs == LinkTo(f)
  <2>. HIDE DEF hs
  <2>4. GraphOk(graph')
    BY <2>1, FrontParts, ConvertToLinksOk
  <2>5. /\ \A k \in Keypoints : FrameOf(k) # f => graph'.obs[k] = graph.obs[k]
        /\ \A p \in Links : (\A h \in hs : p # {f, h})
                              => graph'.link[p] = graph.link[p]
    BY <2>1, FrontParts, ConvertedFields DEF hs
  <2>6. ASSUME NEW g \in Frames, NEW h \in Frames, graph'.link[{g, h}] # {}
        PROVE  kind'[g] \in LinkedKinds /\ kind'[h] \in LinkedKinds
    <3>1. {g, h} \in Links
      BY DEF Links
    <3>2. CASE \A i \in hs : {g, h} # {f, i}
      <4>1. graph.link[{g, h}] # {}
        BY <2>5, <2>6, <3>1, <3>2
      <4>. QED BY <2>2, <4>1, FrontParts DEF LinkedKinds
    <3>3. CASE \E i \in hs : {g, h} = {f, i}
      <4>1. PICK i \in hs : {g, h} = {f, i}
        BY <3>3
      <4>2. kind'[i] \in LinkedKinds /\ kind'[f] \in LinkedKinds
        BY <2>2, <2>3, <4>1 DEF hs, LinkedKinds
      <4>3. g \in {f, i} /\ h \in {f, i}
        BY <4>1
      <4>. QED BY <4>2, <4>3
    <3>. QED BY <3>2, <3>3
  <2>7. \A k \in Keypoints : kind'[FrameOf(k)] \in {"imu", "coming"} =>
          /\ kind[FrameOf(k)] \in {"imu", "coming"}
          /\ slot'[k] = slot[k] /\ graph'.obs[k] = graph.obs[k]
    BY <2>1, <2>2, <2>5, KeypointFrame
  <2>8. slot' \in [Keypoints -> Nat]
    BY <2>1, FrontParts
  <2>9. StoreOk(Store)' /\ LinksOk(graph)'
    BY <1>1, <2>4, <2>6, <2>7, <2>8, FrameChangeOk
  <2>. QED BY <1>2, <2>9, TodoEmptied, NoPairs
<1>6. CASE DropKeyframe(f)
  <2>1. /\ kind[f] \in {"key", "loop"} /\ kind' = [kind EXCEPT ![f] = "poseGraph"]
        /\ graph' = RemoveObservations(graph, KeypointsOf(f)) /\ slot' = slot
    BY <1>6 DEF DropKeyframe
  <2>2. \A h \in Frames : kind'[h] = IF h = f THEN "poseGraph" ELSE kind[h]
    BY <2>1, FrontParts DEF KindInv
  <2>3. /\ GraphOk(graph') /\ graph'.link = graph.link
        /\ \A k \in Keypoints : FrameOf(k) # f => graph'.obs[k] = graph.obs[k]
    BY <2>1, FrontParts, RemoveObservationsOk, RemovedFields DEF KeypointsOf
  <2>4. StoreOk(Store)' /\ LinksOk(graph)'
    BY <1>1, <2>1, <2>2, <2>3, FrontParts, KeypointFrame, FrameChangeOk
       DEF LinkedKinds
  <2>. QED BY <1>2, <2>4, TodoEmptied, NoPairs
<1>. QED BY <1>3, <1>4, <1>5, <1>6

(* ------------------------------------------------------------------------- *)
(* The theorems.                                                             *)

LEMMA FrontInit == Init => FrontInv
<1>. SUFFICES ASSUME Init PROVE FrontInv
  OBVIOUS
<1>1. KindInv /\ MemoryInv
  BY DEF Init, KindInv, MemoryInv, Present, Kinds
<1>2. /\ graph = EmptyGraph /\ slot = [k \in Keypoints |-> 0] /\ ~failed
      /\ todo = {} /\ pairs = <<>> /\ pc = "idle"
  BY DEF Init
<1>3. /\ \A k \in Keypoints : slot[k] = 0 /\ graph.obs[k] = NoObs
      /\ \A p \in Links : graph.link[p] = {}
      /\ slot \in [Keypoints -> Nat]
  BY <1>2 DEF EmptyGraph
<1>4. StoreOk(Store)
  BY <1>2, <1>3, EmptyOk, NoObsType DEF StoreOk, Store
<1>5. LinksOk(graph)
  BY <1>3 DEF LinksOk, Links
<1>6. TodoInv /\ PairsInv
  BY <1>2 DEF TodoInv, PairsInv
<1>7. stereoPair \in 0 .. Len(StereoPairs)
  <2>. DEFINE P == {p \in Nat \X Nat : p[1] < p[2]}
  <2>1. StereoPairs \in Seq(P)
    BY CamerasAssumption
  <2>. HIDE DEF P
  <2>. QED BY <2>1 DEF Init
<1>. QED BY <1>1, <1>4, <1>5, <1>6, <1>7 DEF FrontInv

(* The steps of dataAssociationAndInitialization.                            *)
LEMMA AssociationStep ==
  ASSUME FrontInv, [Next]_vars
  PROVE  StoreOk(Store)' /\ LinksOk(graph)' /\ TodoInv' /\ PairsInv'
<1>. DEFINE Rest == StoreOk(Store)' /\ LinksOk(graph)' /\ TodoInv' /\ PairsInv'
<1>1. CASE UNCHANGED vars
  <2>1. UNCHANGED <<kind, graph, slot, failed, todo, pairs, pc, stereoPair>>
    BY <1>1 DEF vars, store, backend, matcher
  <2>2. StoreOk(Store)' /\ LinksOk(graph)'
    BY <2>1, StoreUntouched DEF FrontInv
  <2>3. Mine' = Mine
    BY <2>1, FramesSame
  <2>4. TodoInv'
    BY <2>1, <2>3 DEF FrontInv, TodoInv, OfFirstCamera
  <2>5. PairsInv'
    BY <2>1 DEF FrontInv, PairsInv
  <2>. QED BY <2>2, <2>4, <2>5
<1>2. ASSUME NEW f \in Frames, AddStates(f) PROVE Rest
  BY <1>2, AddStatesStep
<1>3. CASE Match \/ Outliers \/ \E k0, k1 \in Keypoints : MatchMotionStereo(k0, k1)
  BY <1>3, MatchStep, OutliersStep, MotionStereoStep
<1>4. CASE \/ DecideKeyframe \/ SkipQuery \/ FindNothing \/ Redecide \/ EndStereo
           \/ RememberPlace \/ Classify \/ \E f \in Frames : ClassificationEnds(f)
  BY <1>4, DecisionsStep
<1>10. CASE NextStereoPair
  BY <1>10, StereoPairStep
<1>5. ASSUME NEW f \in Frames, CloseLoop(f) PROVE Rest
  <2>1. /\ Expand(f, "loop") /\ kind[f] = "poseGraph" /\ pc = "recognise"
        /\ pc' = "initialised" /\ todo' = Mine /\ pairs' = pairs
    BY <1>5 DEF CloseLoop
  <2>2. StoreOk(Store)' /\ LinksOk(graph)' /\ Mine' = Mine
    BY <2>1, ExpandStep DEF LinkedKinds
  <2>3. pairs' = <<>> /\ KindInv
    BY <2>1, FrontParts
  <2>. QED BY <2>1, <2>2, <2>3, AllTodo, NoPairs
<1>6. CASE Finish \/ Clear
  BY <1>6, FinishStep, ClearStep
<1>7. ASSUME NEW f \in Frames,
             \/ KeepAsKeyframe(f) \/ EliminateImuFrame(f)
             \/ ConvertToPoseGraph(f) \/ DropKeyframe(f)
      PROVE  Rest
  BY <1>7, StrategyStep
<1>8. ASSUME NEW f \in Frames, ExpandKeyframe(f) PROVE Rest
  <2>1. /\ Expand(f, "key") /\ kind[f] \in {"key", "loop"} /\ pc = "idle"
        /\ todo' = todo /\ pairs' = pairs
    BY <1>8 DEF ExpandKeyframe, matcher
  <2>2. StoreOk(Store)' /\ LinksOk(graph)'
    BY <2>1, ExpandStep DEF LinkedKinds
  <2>3. pairs' = <<>> /\ todo' = {}
    BY <2>1, FrontParts
  <2>. QED BY <2>2, <2>3, TodoEmptied, NoPairs
<1>. HIDE DEF Rest
<1>9. Next => Rest
  BY <1>2, <1>3, <1>4, <1>5, <1>6, <1>7, <1>8, <1>10 DEF Next, Rest
<1>. QED BY <1>1, <1>9 DEF Rest

(* Every step, the strategy of the backend included.                         *)
LEMMA FrontStep == FrontInv /\ [Next]_vars => FrontInv'
<1>. SUFFICES ASSUME FrontInv, [Next]_vars PROVE FrontInv'
  OBVIOUS
<1>1. KindInv' /\ MemoryInv'
  BY KindMemoryStep DEF FrontInv
<1>2. StoreOk(Store)' /\ LinksOk(graph)' /\ TodoInv' /\ PairsInv'
  BY AssociationStep
<1>3. stereoPair' \in 0 .. Len(StereoPairs)
  BY StereoPairCounted
<1>. QED BY <1>1, <1>2, <1>3 DEF FrontInv

(* The inductive invariant holds throughout, for every set of frames and     *)
(* keypoints, any cameras and every number of landmark ids.                  *)
THEOREM FrontAlways == Spec => []FrontInv
<1>1. Init => FrontInv
  BY FrontInit
<1>2. FrontInv /\ [Next]_vars => FrontInv'
  BY FrontStep
<1>. QED BY <1>1, <1>2, PTL DEF Spec

(* dataAssociationAndInitialization and what the backend does between two    *)
(* frames never meet an assertion of the graph: no keypoint observed twice,  *)
(* no landmark missing that is observed or merged (Frontend.cpp); for any    *)
(* number of cameras, whichever pairs of them overlap.                       *)
THEOREM AssertionsHold == Spec => []NoAssertionFails
<1>1. FrontInv => NoAssertionFails
  BY Zenon, StoreFields DEF FrontInv, StoreOk, NoAssertionFails
<1>. QED BY <1>1, FrontAlways, PTL

(* In the IMU window the landmark ids of the MultiFrame are those of the     *)
(* graph's observations.                                                     *)
THEOREM SlotsAgree == Spec => []SlotsFollowGraph
<1>1. FrontInv => SlotsFollowGraph
  BY StoreFields DEF FrontInv, StoreOk, SlotsFollowGraph
<1>. QED BY <1>1, FrontAlways, PTL

(* Place recognition and the classification threads refer only to frames     *)
(* that the backend still has.                                               *)
THEOREM MemoryBacked == Spec => []RememberedFramesKept
<1>1. FrontInv => RememberedFramesKept
  <2>. SUFFICES ASSUME FrontInv, NEW f \in dBow \cup cnn PROVE f \in Present
    BY DEF RememberedFramesKept
  <2>1. f \in flagged \/ (f = Current /\ pc # "idle")
    BY DEF FrontInv, MemoryInv
  <2>2. pc # "idle" => Current \in Present
    BY CurrentIs DEF FrontInv, KindInv
  <2>. QED BY <2>1, <2>2 DEF FrontInv, MemoryInv
<1>. QED BY <1>1, FrontAlways, PTL
=============================================================================
