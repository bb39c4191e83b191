------------------------ MODULE LandmarkGraph_proofs ------------------------
(* One graph.  The operations of LandmarkGraph keep it well formed: what is  *)
(* observed is a landmark, and what a link keeps can be observed again.      *)
(* GraphSync_proofs and Frontend_proofs rest on these lemmas.                *)
EXTENDS LandmarkGraph, FiniteSetTheorems, WellFoundedInduction, TLAPS

(* ------------------------------------------------------------------------- *)
(* The newest and the oldest state of a set: least and greatest elements of  *)
(* sets of natural numbers.                                                  *)

IsMax(S, m) == m \in S /\ \A s \in S : s \in Nat /\ s <= m
IsMin(S, m) == m \in S /\ \A s \in S : s \in Nat /\ m <= s
HasMax(S) == IsMax(S, Max(S))
HasMin(S) == IsMin(S, Min(S))

(* The element that is at least, or at most, every other is the one that     *)
(* Max, or Min, chooses.                                                     *)
LEMMA MaxIs ==
  ASSUME NEW S, NEW m, IsMax(S, m)
  PROVE  Max(S) = m /\ HasMax(S)
<1>. DEFINE P(x) == x \in S /\ \A y \in S : x >= y
<1>1. P(m)
  BY DEF IsMax
<1>2. Max(S) = CHOOSE x : P(x)
  BY DEF Max
<1>. HIDE DEF P
<1>3. P(Max(S))
  BY <1>1, <1>2, Zenon
<1>4. Max(S) \in S /\ Max(S) >= m
  BY <1>3 DEF P, IsMax
<1>5. Max(S) = m
  BY <1>4 DEF IsMax
<1>. QED BY <1>5 DEF HasMax

(* The same for the least.                                                   *)
LEMMA MinIs ==
  ASSUME NEW S, NEW m, IsMin(S, m)
  PROVE  Min(S) = m /\ HasMin(S)
<1>. DEFINE P(x) == x \in S /\ \A y \in S : x <= y
<1>1. P(m)
  BY DEF IsMin
<1>2. Min(S) = CHOOSE x : P(x)
  BY DEF Min
<1>. HIDE DEF P
<1>3. P(Min(S))
  BY <1>1, <1>2, Zenon
<1>4. Min(S) \in S /\ m >= Min(S)
  BY <1>3 DEF P, IsMin
<1>5. Min(S) = m
  BY <1>4 DEF IsMin
<1>. QED BY <1>5 DEF HasMin

(* Every set of natural numbers that is not empty has a least element.       *)
LEMMA NatsHaveMin ==
  ASSUME NEW S, \A s \in S : s \in Nat, S # {}
  PROVE  HasMin(S)
<1>1. PICK m \in S : \A y \in S : ~(<<y, m>> \in OpToRel(<, Nat))
  BY NatLessThanWellFounded, WFMin
<1>2. \A y \in S : ~(y < m)
  BY <1>1 DEF OpToRel
<1>3. IsMin(S, m)
  BY <1>2 DEF IsMin
<1>. QED BY <1>3, MinIs

(* So has every finite one a greatest: the least subset without one would    *)
(* lose an element and still not have one.                                   *)
LEMMA FiniteSetHasMax ==
  ASSUME NEW S, IsFiniteSet(S), \A s \in S : s \in Nat, S # {}
  PROVE  HasMax(S)
<1>. DEFINE Bad == {T \in FiniteSubsetsOf(S) : T # {} /\ ~\E m : IsMax(T, m)}
<1>1. CASE Bad = {}
  <2>1. S \in FiniteSubsetsOf(S)
    BY DEF FiniteSubsetsOf
  <2>2. PICK m : IsMax(S, m)
    BY <1>1, <2>1
  <2>. QED BY <2>2, MaxIs
<1>2. CASE Bad # {}
  <2>1. PICK T \in Bad :
          \A U \in Bad : ~(<<U, T>> \in StrictSubsetOrdering(S))
    BY <1>2, WFMin, FS_StrictSubsetOrderingWellFounded
  <2>2. PICK x \in T : TRUE
    OBVIOUS
  <2>. DEFINE U == T \ {x}
  <2>3. U \in FiniteSubsetsOf(S) /\ <<U, T>> \in StrictSubsetOrdering(S)
    BY FS_RemoveElement DEF FiniteSubsetsOf, StrictSubsetOrdering
  <2>4. U \notin Bad
    BY <2>1, <2>3
  <2>5. T \subseteq S /\ x \in Nat /\ \A y \in T : y \in Nat
    BY DEF FiniteSubsetsOf
  <2>6. CASE U = {}
    <3>1. IsMax(T, x)
      BY <2>5, <2>6 DEF IsMax
    <3>. QED BY <3>1
  <2>7. CASE U # {}
    <3>1. PICK m : IsMax(U, m)
      BY <2>3, <2>4, <2>7
    <3>2. IsMax(T, m) \/ IsMax(T, x)
      BY <2>5, <3>1 DEF IsMax
    <3>. QED BY <3>2
  <2>. QED BY <2>6, <2>7
<1>. QED BY <1>1, <1>2

Observation == [lm : Nat, point : Nat]
Entry == [kid : Keypoints, obs : Observation]
Graph == [point : [Ids -> Nat], obs : [Keypoints -> Observation],
          link : [Links -> SUBSET Entry]]

ObsOk(g) ==
  \A k \in Keypoints :
    g.obs[k] # NoObs => g.obs[k].lm \in Landmarks(g) /\ g.obs[k].point # 0
LinkOk(g) ==
  \A p \in Links : \A e \in g.link[p] :
    FrameOf(e.kid) \in p /\ e.obs.lm \in Ids /\ e.obs.point # 0
GraphOk(g) == g \in Graph /\ ObsOk(g) /\ LinkOk(g)

(* No observation is the observation of no landmark.                         *)
LEMMA NoObsType == NoObs \in Observation /\ NoObs.lm = 0 /\ NoObs.lm \notin Ids
BY DEF NoObs, Observation, Ids

(* The empty graph.                                                          *)
LEMMA EmptyOk == GraphOk(EmptyGraph)
BY NoObsType DEF GraphOk, Graph, ObsOk, LinkOk, EmptyGraph

(* Ids are positive numbers.                                                 *)
LEMMA IdType == \A l \in Ids : l \in Nat \ {0}
BY IdsAssumption DEF Ids

(* A landmark has an id and a point.                                         *)
LEMMA LandmarkType ==
  ASSUME NEW g, GraphOk(g), NEW l \in Landmarks(g)
  PROVE  l \in Ids /\ g.point[l] \in Nat \ {0}
<1>1. l \in Ids /\ g.point[l] # 0
  BY DEF Landmarks
<1>2. g.point \in [Ids -> Nat]
  BY DEF GraphOk, Graph
<1>. QED BY <1>1, <1>2

(* addLandmark.                                                              *)
LEMMA PlaceOk ==
  ASSUME NEW g, GraphOk(g), NEW l \in Ids, NEW p \in Nat \ {0}
  PROVE  GraphOk(Place(g, l, p))
<1>. SUFFICES ASSUME NEW h, h = Place(g, l, p)
              PROVE  GraphOk(h)
  OBVIOUS
<1>1. h \in Graph /\ h.obs = g.obs /\ h.link = g.link
      /\ h.point = [g.point EXCEPT ![l] = p]
  BY DEF Place, GraphOk, Graph
<1>2. \A m \in Landmarks(g) : m \in Landmarks(h)
  BY <1>1 DEF Landmarks, GraphOk, Graph
<1>. QED BY <1>1, <1>2 DEF GraphOk, ObsOk, LinkOk

(* addObservation, of a landmark that is there.                              *)
LEMMA ObserveOk ==
  ASSUME NEW g, GraphOk(g), NEW k \in Keypoints, NEW l \in Landmarks(g)
  PROVE  GraphOk(Observe(g, k, l))
<1>. DEFINE o == [lm |-> l, point |-> g.point[l]]
<1>. SUFFICES ASSUME NEW h, h = Observe(g, k, l) PROVE GraphOk(h)
  OBVIOUS
<1>0. l \in Ids /\ g.point[l] \in Nat \ {0} /\ l \in Nat
  BY LandmarkType, IdType
<1>a. o \in Observation /\ o.lm = l /\ o.point # 0
  BY <1>0 DEF Observation
<1>b. h = [g EXCEPT !.obs[k] = o]
  BY DEF Observe
<1>. HIDE DEF o
<1>1. h \in Graph /\ h.point = g.point /\ h.link = g.link
      /\ h.obs = [g.obs EXCEPT ![k] = o]
  BY <1>a, <1>b DEF GraphOk, Graph
<1>2. Landmarks(h) = Landmarks(g)
  BY <1>1 DEF Landmarks
<1>3. \A m \in Keypoints : h.obs[m] = IF m = k THEN o ELSE g.obs[m]
  BY <1>1 DEF GraphOk, Graph
<1>. QED BY <1>a, <1>1, <1>2, <1>3 DEF GraphOk, ObsOk, LinkOk

(* removeObservation.                                                        *)
LEMMA RemoveObservationsOk ==
  ASSUME NEW g, GraphOk(g), NEW ks
  PROVE  GraphOk(RemoveObservations(g, ks))
<1>. SUFFICES ASSUME NEW h, h = RemoveObservations(g, ks)
              PROVE  GraphOk(h)
  OBVIOUS
<1>1. h \in Graph /\ h.point = g.point /\ h.link = g.link
      /\ h.obs = [k \in Keypoints |-> IF k \in ks THEN NoObs ELSE g.obs[k]]
  BY NoObsType DEF RemoveObservations, GraphOk, Graph
<1>2. Landmarks(h) = Landmarks(g)
  BY <1>1 DEF Landmarks
<1>. QED BY <1>1, <1>2 DEF GraphOk, ObsOk, LinkOk

(* removeLandmark, with its observations.                                    *)
LEMMA RemoveLandmarksOk ==
  ASSUME NEW g, GraphOk(g), NEW ls
  PROVE  GraphOk(RemoveLandmarks(g, ls))
<1>. SUFFICES ASSUME NEW h, h = RemoveLandmarks(g, ls)
              PROVE  GraphOk(h)
  OBVIOUS
<1>1. h \in Graph /\ h.link = g.link
      /\ h.point = [l \in Ids |-> IF l \in ls THEN 0 ELSE g.point[l]]
      /\ h.obs = [k \in Keypoints |->
                    IF g.obs[k].lm \in ls THEN NoObs ELSE g.obs[k]]
  BY NoObsType DEF RemoveLandmarks, RemoveObservations, GraphOk, Graph
<1>2. \A l \in Landmarks(g) : l \notin ls => l \in Landmarks(h)
  BY <1>1 DEF Landmarks
<1>. QED BY <1>1, <1>2 DEF GraphOk, ObsOk, LinkOk

(* mergeLandmark, of two landmarks that are there.                           *)
LEMMA MergeOk ==
  ASSUME NEW g, GraphOk(g), NEW from \in Landmarks(g), NEW into \in Landmarks(g),
         from # into
  PROVE  GraphOk(Merge(g, from, into))
<1>. DEFINE o == [lm |-> into, point |-> g.point[into]]
<1>. SUFFICES ASSUME NEW h, h = Merge(g, from, into) PROVE GraphOk(h)
  OBVIOUS
<1>0. from \in Ids /\ into \in Ids /\ g.point[into] \in Nat \ {0} /\ into \in Nat
  BY LandmarkType, IdType
<1>a. o \in Observation /\ o.lm = into /\ o.point # 0
  BY <1>0 DEF Observation
<1>. DEFINE merged == [k \in Keypoints |->
                         IF g.obs[k].lm = from THEN o ELSE g.obs[k]]
<1>b. h = [g EXCEPT !.point[from] = 0, !.obs = merged]
  BY DEF Merge
<1>. HIDE DEF o
<1>c. merged \in [Keypoints -> Observation]
  BY <1>a DEF GraphOk, Graph
<1>. HIDE DEF merged
<1>1. h \in Graph /\ h.link = g.link
      /\ h.point = [g.point EXCEPT ![from] = 0]
      /\ h.obs = merged
  <2>1. DOMAIN g = {"point", "obs", "link"} /\ g.point \in [Ids -> Nat]
        /\ g.link \in [Links -> SUBSET Entry]
    BY DEF GraphOk, Graph
  <2>2. h = [point |-> [g.point EXCEPT ![from] = 0], obs |-> merged,
             link |-> g.link]
    BY <1>b, <2>1
  <2>3. [g.point EXCEPT ![from] = 0] \in [Ids -> Nat]
    BY <2>1
  <2>. HIDE DEF merged
  <2>. QED BY <1>c, <2>1, <2>2, <2>3 DEF Graph
<1>2. \A l \in Landmarks(g) : l # from => l \in Landmarks(h)
  BY <1>1 DEF Landmarks, GraphOk, Graph
<1>. QED BY <1>0, <1>a, <1>1, <1>2 DEF GraphOk, ObsOk, LinkOk, merged

(* What moves into a link was observed, by one of the two frames it joins.   *)
LEMMA AbsorbedOk ==
  ASSUME NEW g, GraphOk(g), NEW f, NEW h, NEW e \in Absorbed(g, f, h)
  PROVE  /\ e \in Entry /\ FrameOf(e.kid) \in {f, h}
         /\ e.obs.lm \in Ids /\ e.obs.point # 0
<1>1. PICK k \in Keypoints : /\ e = [kid |-> k, obs |-> g.obs[k]]
                             /\ FrameOf(k) \in {f, h}
                             /\ g.obs[k].lm # 0
  BY DEF Absorbed, KeypointsOf, Common, LandmarksIn
<1>2. g.obs[k] \in Observation /\ g.obs[k] # NoObs
  BY <1>1, NoObsType DEF GraphOk, Graph
<1>3. g.obs[k].lm \in Ids /\ g.obs[k].point # 0
  BY <1>2 DEF GraphOk, ObsOk, Landmarks
<1>. QED BY <1>1, <1>2, <1>3 DEF Entry

(* The observations of a frame that leaves go into its links.                *)
LEMMA ConvertToLinksOk ==
  ASSUME NEW g, GraphOk(g), NEW f, NEW hs
  PROVE  GraphOk(ConvertToLinks(g, f, hs))
<1>. DEFINE r == RemoveObservations(g, KeypointsOf(f))
            links == [p \in Links |->
                        g.link[p] \cup
                          UNION {Absorbed(g, f, h) : h \in {h \in hs : p = {f, h}}}]
<1>. SUFFICES ASSUME NEW c, c = ConvertToLinks(g, f, hs)
              PROVE  GraphOk(c)
  OBVIOUS
<1>0. GraphOk(r)
  BY RemoveObservationsOk
<1>1. GraphOk(r) /\ r.link = g.link
  BY <1>0 DEF RemoveObservations, GraphOk, Graph
<1>2. c = [r EXCEPT !.link = links]
  BY DEF ConvertToLinks
<1>3. ASSUME NEW p \in Links, NEW e \in links[p]
      PROVE  /\ e \in Entry /\ FrameOf(e.kid) \in p
             /\ e.obs.lm \in Ids /\ e.obs.point # 0
  <2>1. CASE e \in g.link[p]
    BY <2>1 DEF GraphOk, Graph, LinkOk
  <2>2. ASSUME NEW h \in hs, p = {f, h}, e \in Absorbed(g, f, h)
        PROVE  /\ e \in Entry /\ FrameOf(e.kid) \in p
               /\ e.obs.lm \in Ids /\ e.obs.point # 0
    BY <2>2, AbsorbedOk
  <2>. QED BY <1>3, <2>1, <2>2
<1>4. links \in [Links -> SUBSET Entry]
  BY <1>3
<1>. HIDE DEF r, links
<1>5. c \in Graph /\ c.link = links /\ c.obs = r.obs /\ c.point = r.point
  BY <1>1, <1>2, <1>4 DEF GraphOk, Graph
<1>6. Landmarks(c) = Landmarks(r)
  BY <1>5 DEF Landmarks
<1>. QED BY <1>1, <1>3, <1>5, <1>6 DEF GraphOk, ObsOk, LinkOk

(* First finds the smallest of the returning observations.                   *)
LEMMA FirstIn ==
  ASSUME NEW rs, rs # {}, \A r \in rs : r.from \in Nat /\ r.obs.lm \in Nat
  PROVE  First(rs) \in rs
<1>. DEFINE froms == {r.from : r \in rs}
            n == Min(froms)
            lms == {r.obs.lm : r \in {r \in rs : r.from = n}}
            m == Min(lms)
<1>0. froms # {} /\ \A x \in froms : x \in Nat
  OBVIOUS
<1>. HIDE DEF froms
<1>1. n \in froms /\ \A x \in froms : n <= x
  BY <1>0, NatsHaveMin DEF HasMin, IsMin
<1>. HIDE DEF n
<1>. USE DEF froms
<1>2. lms # {} /\ \A x \in lms : x \in Nat
  BY <1>1
<1>. HIDE DEF lms
<1>3. m \in lms /\ \A x \in lms : m <= x
  BY <1>2, NatsHaveMin DEF HasMin, IsMin
<1>. HIDE DEF m
<1>. USE DEF lms
<1>4. PICK r \in rs : r.from = n /\ r.obs.lm = m
  BY <1>3
<1>5. \A s \in rs : r.from < s.from \/ (r.from = s.from /\ r.obs.lm <= s.obs.lm)
  BY <1>1, <1>3, <1>4
<1>. QED BY <1>5 DEF First

(* What a link gives back: observations of its two frames, now free.         *)
LEMMA ReturningOk ==
  ASSUME NEW g, GraphOk(g), NEW f \in Frames, NEW r \in Returning(g, f)
  PROVE  /\ r.from \in Linked(g, f) /\ r.from \in Nat
         /\ r.kid \in Keypoints /\ FrameOf(r.kid) \in {f, r.from}
         /\ g.obs[r.kid] = NoObs
         /\ r.obs \in Observation /\ r.obs.lm \in Ids /\ r.obs.point # 0
<1>1. PICK h \in Linked(g, f) : \E e \in g.link[{f, h}] :
        /\ r = [from |-> h, kid |-> e.kid, obs |-> e.obs]
        /\ g.obs[e.kid] = NoObs
  BY DEF Returning
<1>0. PICK e \in g.link[{f, h}] :
        /\ r = [from |-> h, kid |-> e.kid, obs |-> e.obs]
        /\ g.obs[e.kid] = NoObs
  BY <1>1
<1>2. h \in Frames /\ {f, h} \in Links /\ h \in Nat
  BY FramesAssumption DEF Linked, Links
<1>3. e \in Entry
  BY <1>2 DEF GraphOk, Graph
<1>4. /\ FrameOf(e.kid) \in {f, h} /\ e.obs.lm \in Ids /\ e.obs.point # 0
  BY <1>2 DEF GraphOk, LinkOk
<1>. QED BY <1>0, <1>2, <1>3, <1>4 DEF Entry

(* What comes back: a keypoint that was not observed gets one of the         *)
(* observations the links kept of it, the others stay.                       *)
LEMMA ExpansionObs ==
  ASSUME NEW g, GraphOk(g), NEW f \in Frames, NEW k \in Keypoints
  PROVE  LET o == ConvertToObservations(g, f).obs[k] IN
           \/ /\ o = g.obs[k] /\ \A r \in Returning(g, f) : r.kid # k
           \/ \E r \in Returning(g, f) : r.kid = k /\ o = r.obs
<1>. DEFINE mine == {r \in Returning(g, f) : r.kid = k}
<1>1. ConvertToObservations(g, f).obs[k] =
        IF mine # {} THEN First(mine).obs ELSE g.obs[k]
  BY DEF ConvertToObservations
<1>2. \A r \in mine : r.from \in Nat /\ r.obs.lm \in Nat
  BY ReturningOk, IdType
<1>3. mine # {} => First(mine) \in mine
  BY <1>2, FirstIn
<1>. QED BY <1>1, <1>3

(* Which landmarks the expansion brings back, and where.                     *)
LEMMA ExpansionPoint ==
  ASSUME NEW g, GraphOk(g), NEW f \in Frames, NEW l \in Ids
  PROVE  LET q == ConvertToObservations(g, f).point[l] IN
           /\ q \in Nat
           /\ g.point[l] # 0 => q = g.point[l]
           /\ (\E r \in Returning(g, f) : r.obs.lm = l) => q # 0
           /\ ~(\E r \in Returning(g, f) : r.obs.lm = l) => q = g.point[l]
<1>. DEFINE mine == {r \in Returning(g, f) : r.obs.lm = l}
<1>1. ConvertToObservations(g, f).point[l] =
        IF g.point[l] = 0 /\ mine # {} THEN First(mine).obs.point
                                        ELSE g.point[l]
  BY DEF ConvertToObservations
<1>2. \A r \in mine : /\ r.from \in Nat /\ r.obs.lm \in Nat
                       /\ r.obs.point \in Nat /\ r.obs.point # 0
  BY ReturningOk, IdType DEF Observation
<1>3. mine # {} => First(mine) \in mine
  BY <1>2, FirstIn
<1>4. g.point[l] \in Nat
  BY DEF GraphOk, Graph
<1>. QED BY <1>1, <1>2, <1>3, <1>4

(* convertToObservations: whatever it observes is there.                     *)
LEMMA ConvertToObservationsOk ==
  ASSUME NEW g, GraphOk(g), NEW f \in Frames
  PROVE  GraphOk(ConvertToObservations(g, f))
<1>. SUFFICES ASSUME NEW c, c = ConvertToObservations(g, f)
              PROVE  GraphOk(c)
  OBVIOUS
<1>1. /\ DOMAIN c.point = Ids /\ DOMAIN c.obs = Keypoints
      /\ c = [point |-> [l \in Ids |-> c.point[l]],
              obs |-> [k \in Keypoints |-> c.obs[k]],
              link |-> [p \in Links |-> IF f \in p THEN {} ELSE g.link[p]]]
  BY DEF ConvertToObservations
<1>2. \A l \in Ids : c.point[l] \in Nat /\ (g.point[l] # 0 => c.point[l] # 0)
  BY ExpansionPoint
<1>3. ASSUME NEW k \in Keypoints
      PROVE  /\ c.obs[k] \in Observation
             /\ c.obs[k] # NoObs => /\ c.obs[k].lm \in Landmarks(c)
                                   /\ c.obs[k].point # 0
  <2>1. CASE c.obs[k] = g.obs[k]
    BY <1>2, <2>1 DEF GraphOk, Graph, ObsOk, Landmarks
  <2>2. ASSUME NEW r \in Returning(g, f), c.obs[k] = r.obs
        PROVE  /\ c.obs[k] \in Observation
               /\ c.obs[k].lm \in Landmarks(c) /\ c.obs[k].point # 0
    BY <2>2, ReturningOk, ExpansionPoint DEF Landmarks
  <2>. QED BY <2>1, <2>2, ExpansionObs
<1>4. \A p \in Links : c.link[p] = {} \/ c.link[p] = g.link[p]
  BY <1>1
<1>5. c \in Graph
  <2>1. [l \in Ids |-> c.point[l]] \in [Ids -> Nat]
    BY <1>2
  <2>2. [k \in Keypoints |-> c.obs[k]] \in [Keypoints -> Observation]
    BY <1>3
  <2>3. [p \in Links |-> IF f \in p THEN {} ELSE g.link[p]]
          \in [Links -> SUBSET Entry]
    BY DEF GraphOk, Graph
  <2>. QED BY <1>1, <2>1, <2>2, <2>3 DEF Graph
<1>. QED BY <1>3, <1>4, <1>5 DEF GraphOk, ObsOk, LinkOk

(* A frame is linked to frames of the window only.                           *)
LEMMA NeighboursInWindow ==
  ASSUME NEW g, NEW f \in Frames, NEW window \in SUBSET Frames,
         NEW h \in Neighbours(g, f, window)
  PROVE  h \in window \cup {f}
<1>. DEFINE shared(i) == Cardinality(Common(g, f, i))
            most == {i \in window : shared(i) > 0
                                    /\ \A j \in window : shared(j) <= shared(i)}
            considered == FramesToConsider(g, f, window)
<1>1. \A T \in SUBSET Frames : T # {} => Max(T) \in T
  <2>. SUFFICES ASSUME NEW T \in SUBSET Frames, T # {} PROVE Max(T) \in T
    OBVIOUS
  <2>1. IsFiniteSet(T)
    BY FramesAssumption, FS_Subset
  <2>2. \A x \in T : x \in Nat
    BY FramesAssumption
  <2>. QED BY <2>1, <2>2, FiniteSetHasMax DEF HasMax, IsMax
<1>2. considered \subseteq window \cup {f}
  <2>1. most # {} => Max(most) \in window
    BY <1>1
  <2>2. considered = IF most = {} THEN {}
                     ELSE {f, Max(most)} \cup
                            {i \in window \cup {f} : Linked(g, i) # {}}
    BY DEF FramesToConsider
  <2>. HIDE DEF most, considered
  <2>. QED BY <2>1, <2>2
<1>3. considered # {} => Max(considered) \in considered
  BY <1>1, <1>2
<1>4. h \in considered \cup {Max(considered)} /\ considered # {}
  BY DEF Neighbours
<1>. QED BY <1>2, <1>3, <1>4

(* What is left when observations are taken away, field by field.            *)
LEMMA RemovedFields ==
  ASSUME NEW g, GraphOk(g), NEW ks
  PROVE  LET h == RemoveObservations(g, ks) IN
           /\ h.link = g.link /\ h.point = g.point
           /\ \A k \in Keypoints :
                h.obs[k] = IF k \in ks THEN NoObs ELSE g.obs[k]
BY DEF RemoveObservations, GraphOk, Graph

(* What a new observation, a new landmark and a merging change.              *)
LEMMA ObservedFields ==
  ASSUME NEW g, GraphOk(g), NEW k \in Keypoints, NEW l \in Landmarks(g),
         NEW h, h = Observe(g, k, l)
  PROVE  /\ h.link = g.link /\ h.point = g.point /\ Landmarks(h) = Landmarks(g)
         /\ h.obs[k].lm = l /\ h.obs[k] # NoObs
         /\ \A m \in Keypoints \ {k} : h.obs[m] = g.obs[m]
<1>. DEFINE o == [lm |-> l, point |-> g.point[l]]
<1>1. o.lm = l /\ o # NoObs
  BY NoObsType, LandmarkType
<1>2. h = [g EXCEPT !.obs[k] = o]
  BY DEF Observe
<1>. HIDE DEF o
<1>3. h.link = g.link /\ h.point = g.point /\ h.obs = [g.obs EXCEPT ![k] = o]
  BY <1>2 DEF GraphOk, Graph
<1>. QED BY <1>1, <1>3 DEF Landmarks, GraphOk, Graph

(* What else addLandmark and mergeLandmark do to the fields of a graph.      *)
LEMMA PlacedFields ==
  ASSUME NEW g, GraphOk(g), NEW l \in Ids, NEW p \in Nat \ {0},
         NEW h, h = Place(g, l, p)
  PROVE  /\ h.link = g.link /\ h.obs = g.obs
         /\ Landmarks(h) = Landmarks(g) \cup {l}
<1>1. h.link = g.link /\ h.obs = g.obs /\ h.point = [g.point EXCEPT ![l] = p]
  BY DEF Place, GraphOk, Graph
<1>2. \A m \in Ids : h.point[m] = IF m = l THEN p ELSE g.point[m]
  BY <1>1 DEF GraphOk, Graph
<1>. QED BY <1>1, <1>2 DEF Landmarks

LEMMA MergedFields ==
  ASSUME NEW g, GraphOk(g), NEW from \in Ids, NEW into,
         NEW h, h = Merge(g, from, into)
  PROVE  /\ h.link = g.link
         /\ Landmarks(h) = Landmarks(g) \ {from}
         /\ \A k \in Keypoints : \/ h.obs[k] = g.obs[k]
                                 \/ h.obs[k].lm = into
<1>. DEFINE o == [lm |-> into, point |-> g.point[into]]
            merged == [k \in Keypoints |->
                         IF g.obs[k].lm = from THEN o ELSE g.obs[k]]
<1>1. h = [g EXCEPT !.point[from] = 0, !.obs = merged]
  BY DEF Merge
<1>2. o.lm = into
  OBVIOUS
<1>. HIDE DEF o
<1>3. \A k \in Keypoints : merged[k] = g.obs[k] \/ merged[k].lm = into
  BY <1>2
<1>. HIDE DEF merged
<1>4. DOMAIN g = {"point", "obs", "link"} /\ g.point \in [Ids -> Nat]
  BY DEF GraphOk, Graph
<1>5. h.link = g.link /\ h.obs = merged /\ h.point = [g.point EXCEPT ![from] = 0]
  BY <1>1, <1>4
<1>6. \A m \in Ids : h.point[m] = IF m = from THEN 0 ELSE g.point[m]
  BY <1>4, <1>5
<1>. QED BY <1>3, <1>5, <1>6 DEF Landmarks

(* A frame that becomes a pose-graph frame loses its observations; only the  *)
(* links to the frames hs change.                                            *)
LEMMA ConvertedFields ==
  ASSUME NEW g, GraphOk(g), NEW f, NEW hs, NEW c, c = ConvertToLinks(g, f, hs)
  PROVE  /\ c.point = g.point
         /\ \A k \in Keypoints :
              c.obs[k] = IF FrameOf(k) = f THEN NoObs ELSE g.obs[k]
         /\ \A p \in Links : (\A h \in hs : p # {f, h}) => c.link[p] = g.link[p]
<1>. DEFINE r == RemoveObservations(g, KeypointsOf(f))
<1>1. /\ GraphOk(r) /\ r.point = g.point /\ r.link = g.link
      /\ \A k \in Keypoints :
           r.obs[k] = IF FrameOf(k) = f THEN NoObs ELSE g.obs[k]
  BY RemoveObservationsOk, RemovedFields DEF KeypointsOf
<1>2. /\ c.point = r.point /\ c.obs = r.obs
      /\ c.link = [p \in Links |->
                     g.link[p] \cup
                       UNION {Absorbed(g, f, h) : h \in {h \in hs : p = {f, h}}}]
  BY <1>1 DEF ConvertToLinks, GraphOk, Graph
<1>. HIDE DEF r
<1>. QED BY <1>1, <1>2
=============================================================================
