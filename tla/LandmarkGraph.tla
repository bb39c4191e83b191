--------------------------- MODULE LandmarkGraph ---------------------------
(* One graph of ViGraph and ViGraphEstimator as far as landmarks are         *)
(* concerned: the landmarks, their observations, and the pose-graph links    *)
(* into which observations are converted and from which they come back.      *)
(* GraphSync keeps two of these graphs in agreement, Frontend decides what   *)
(* the keypoints of a frame observe.                                         *)
(*                                                                           *)
(* A landmark's position is abstracted to the point of the scene it stands   *)
(* for, numbered when the frontend triangulates it: an observation remembers *)
(* which point it was matched to.                                            *)
EXTENDS MstGraph

CONSTANTS
  Frames,       \* the states, a finite set of numbers
  Keypoints,    \* pairs <<frame, index>>
  MaxId,        \* bound: landmark ids
  MaxPoints     \* bound: points triangulated

ASSUME FramesAssumption == Frames \subseteq Nat \ {0} /\ IsFiniteSet(Frames)
ASSUME KeypointsAssumption == Keypoints \subseteq Frames \X Nat
ASSUME IdsAssumption == {MaxId, MaxPoints} \subseteq Nat

Ids    == 1 .. MaxId
NoObs  == [lm |-> 0, point |-> 0]
Obs    == [lm : 0 .. MaxId, point : 0 .. MaxPoints]
Links  == {{f, h} : f, h \in Frames}
Graphs == [point : [Ids -> 0 .. MaxPoints],   \* landmarks_; 0: no landmark
           obs   : [Keypoints -> Obs],        \* observations_
           link  : [Links -> SUBSET [kid : Keypoints, obs : Obs]]]
                                              \* twoPoseLinks; {}: no link
EmptyGraph == [point |-> [l \in Ids |-> 0],
               obs   |-> [k \in Keypoints |-> NoObs],
               link  |-> [p \in Links |-> {}]]

----------------------------------------------------------------------------
(* ViGraph, ViGraphEstimator: one graph.                                     *)
FrameOf(k)  == k[1]
KeypointsOf(f) == {k \in Keypoints : FrameOf(k) = f}
Landmarks(g) == {l \in Ids : g.point[l] # 0}
Observers(g, l) == {k \in Keypoints : g.obs[k].lm = l}
LandmarksIn(g, f) == {g.obs[k].lm : k \in KeypointsOf(f)} \ {0}
Common(g, f, h) == LandmarksIn(g, f) \cap LandmarksIn(g, h)
Linked(g, f) == {h \in Frames : g.link[{f, h}] # {}}

Place(g, l, p) == [g EXCEPT !.point[l] = p]

Observe(g, k, l) ==
  [g EXCEPT !.obs[k] = [lm |-> l, point |-> g.point[l]]]

RemoveObservations(g, ks) ==
  [g EXCEPT !.obs = [k \in Keypoints |-> IF k \in ks THEN NoObs ELSE g.obs[k]]]

(* Slip: the last observation of a cleaned landmark stays behind.            *)
LastObservationLeft(g, ls) ==
  [g EXCEPT !.point = [l \in Ids |-> IF l \in ls THEN 0 ELSE g.point[l]]]

RemoveLandmarks(g, ls) ==
  [RemoveObservations(g, {k \in Keypoints : g.obs[k].lm \in ls})
     EXCEPT !.point = [l \in Ids |-> IF l \in ls THEN 0 ELSE g.point[l]]]

(* cleanUnobservedLandmarks removes those with at most one observation.      *)
Unobserved(g) == {l \in Landmarks(g) : Cardinality(Observers(g, l)) <= 1}

(* mergeLandmark: the observations change landmark, "from" disappears.       *)
Merge(g, from, into) ==
  [g EXCEPT
     !.point[from] = 0,
     !.obs = [k \in Keypoints |->
                IF g.obs[k].lm = from
                  THEN [lm |-> into, point |-> g.point[into]]
                  ELSE g.obs[k]]]

(* convertToPoseGraphMst: what frame f shares with each of the frames hs     *)
(* moves into the link between them (a copy of h's observations stays), and  *)
(* f keeps no observation.                                                   *)
Absorbed(g, f, h) ==
  {[kid |-> k, obs |-> g.obs[k]] :
     k \in {k \in KeypointsOf(f) \cup KeypointsOf(h) :
              g.obs[k].lm \in Common(g, f, h)}}

ConvertToLinks(g, f, hs) ==
  [RemoveObservations(g, KeypointsOf(f)) EXCEPT
     !.link = [p \in Links |->
                 g.link[p] \cup
                   UNION {Absorbed(g, f, h) : h \in {h \in hs : p = {f, h}}}]]

(* convertToObservations: the links of f in the order of the other frame;    *)
(* keypoints that are observed are skipped, missing landmarks come back      *)
(* under their old id.                                                       *)
Returning(g, f) ==
  UNION {{[from |-> h, kid |-> e.kid, obs |-> e.obs] :
            e \in {e \in g.link[{f, h}] : g.obs[e.kid] = NoObs}} :
         h \in Linked(g, f)}

First(rs) ==
  CHOOSE r \in rs : \A s \in rs :
    r.from < s.from \/ (r.from = s.from /\ r.obs.lm <= s.obs.lm)

ConvertToObservations(g, f) ==
  LET back == Returning(g, f) IN
    [point |-> [l \in Ids |->
                  LET mine == {r \in back : r.obs.lm = l} IN
                    IF g.point[l] = 0 /\ mine # {} THEN First(mine).obs.point
                                                   ELSE g.point[l]],
     obs   |-> [k \in Keypoints |->
                  LET mine == {r \in back : r.kid = k} IN
                    IF mine # {} THEN First(mine).obs ELSE g.obs[k]],
     link  |-> [p \in Links |-> IF f \in p THEN {} ELSE g.link[p]]]

(* buildMst: the spanning tree of the frames by the landmarks they share,    *)
(* as pairs of frames; the tables of co-observations have the newer one      *)
(* first.                                                                    *)
BuildMst(g, fs) ==
  {{e.u, e.v} : e \in KruskalMst(
     {[w |-> -Cardinality(Common(g, p[1], p[2])), u |-> p[1], v |-> p[2]] :
        p \in {p \in fs \X fs :
                 p[1] > p[2] /\ Common(g, p[1], p[2]) # {}}})}

(* applyStrategy: with frame f that leaves the window, the frame it shares   *)
(* most landmarks with is considered, the last one of them, and those that   *)
(* are linked to the pose graph already; none, if it shares nothing.         *)
FramesToConsider(g, f, window) ==
  LET shared(h) == Cardinality(Common(g, f, h))
      most == {h \in window : shared(h) > 0
                              /\ \A i \in window : shared(i) <= shared(h)}
  IN  IF most = {} THEN {}
      ELSE {f, Max(most)} \cup {h \in window \cup {f} : Linked(g, h) # {}}

(* convertToPoseGraphMst: f is linked to its neighbours in the tree, and if  *)
(* it is the oldest frame, also to the newest: "the longest-term edge".      *)
Neighbours(g, f, window) ==
  LET considered == FramesToConsider(g, f, window)
      tree   == BuildMst(g, considered)
      newest == Max(considered)
  IN  IF considered = {} THEN {}
      ELSE {h \in considered : {f, h} \in tree}
             \cup {h \in {newest} \ {f} :
                     f = Min(considered)
                     /\ Cardinality(Common(g, f, newest)) >= 2}

NewId(g) == IF Landmarks(g) = {} THEN 1 ELSE Max(Landmarks(g)) + 1
============================================================================
