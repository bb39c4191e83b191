------------------------- MODULE FrameWindow_proofs -------------------------
(* FrameWindow for every number of frames, every size of the windows and     *)
(* every way the frames may see each other.                                  *)
EXTENDS FrameWindow, FiniteSetTheorems, SequenceTheorems, WellFoundedInduction,
        TLAPS

(* ------------------------------------------------------------------------- *)
(* The newest and the oldest frame of a set: least and greatest elements of  *)
(* sets of natural numbers.                                                  *)

IsMax(S, m) == m \in S /\ \A s \in S : s \in Nat /\ s <= m
IsMin(S, m) == m \in S /\ \A s \in S : s \in Nat /\ m <= s
HasMax(S) == IsMax(S, Max(S))
HasMin(S) == IsMin(S, Min(S))

(* The element that is at least, or at most, every other is the one that     *)
(* Max, or Min, chooses.                                                     *)
LEMMA MaxIs ==
  ASSUME NEW S, NEW m, IsMax(S, m)
  PROVE  Max(S) = m /\ HasMax(S)
<1>. DEFINE P(x) == x \in S /\ \A y \in S : x >= y
<1>1. P(m)
  BY DEF IsMax
<1>2. Max(S) = CHOOSE x : P(x)
  BY DEF Max
<1>. HIDE DEF P
<1>3. P(Max(S))
  BY <1>1, <1>2, Zenon
<1>4. Max(S) \in S /\ Max(S) >= m
  BY <1>3 DEF P, IsMax
<1>5. Max(S) = m
  BY <1>4 DEF IsMax
<1>. QED BY <1>5 DEF HasMax

(* The same for the least.                                                   *)
LEMMA MinIs ==
  ASSUME NEW S, NEW m, IsMin(S, m)
  PROVE  Min(S) = m /\ HasMin(S)
<1>. DEFINE P(x) == x \in S /\ \A y \in S : x <= y
<1>1. P(m)
  BY DEF IsMin
<1>2. Min(S) = CHOOSE x : P(x)
  BY DEF Min
<1>. HIDE DEF P
<1>3. P(Min(S))
  BY <1>1, <1>2, Zenon
<1>4. Min(S) \in S /\ m >= Min(S)
  BY <1>3 DEF P, IsMin
<1>5. Min(S) = m
  BY <1>4 DEF IsMin
<1>. QED BY <1>5 DEF HasMin

(* The greatest stays so when another one is removed.                        *)
LEMMA MaxWithout ==
  ASSUME NEW S, HasMax(S), NEW x, x # Max(S)
  PROVE  HasMax(S \ {x}) /\ Max(S \ {x}) = Max(S)
<1>1. IsMax(S \ {x}, Max(S))
  BY DEF HasMax, IsMax
<1>. QED BY <1>1, MaxIs

(* Every set of natural numbers that is not empty has a least element.       *)
LEMMA NatsHaveMin ==
  ASSUME NEW S, \A s \in S : s \in Nat, S # {}
  PROVE  HasMin(S)
<1>1. PICK m \in S : \A y \in S : ~(<<y, m>> \in OpToRel(<, Nat))
  BY NatLessThanWellFounded, WFMin
<1>2. \A y \in S : ~(y < m)
  BY <1>1 DEF OpToRel
<1>3. IsMin(S, m)
  BY <1>2 DEF IsMin
<1>. QED BY <1>3, MinIs

(* So has every finite one a greatest: the least subset without one would    *)
(* lose an element and still not have one.                                   *)
LEMMA FiniteSetHasMax ==
  ASSUME NEW S, IsFiniteSet(S), \A s \in S : s \in Nat, S # {}
  PROVE  HasMax(S)
<1>. DEFINE Bad == {T \in FiniteSubsetsOf(S) : T # {} /\ ~\E m : IsMax(T, m)}
<1>1. CASE Bad = {}
  <2>1. S \in FiniteSubsetsOf(S)
    BY DEF FiniteSubsetsOf
  <2>2. PICK m : IsMax(S, m)
    BY <1>1, <2>1
  <2>. QED BY <2>2, MaxIs
<1>2. CASE Bad # {}
  <2>1. PICK T \in Bad :
          \A U \in Bad : ~(<<U, T>> \in StrictSubsetOrdering(S))
    BY <1>2, WFMin, FS_StrictSubsetOrderingWellFounded
  <2>2. PICK x \in T : TRUE
    OBVIOUS
  <2>. DEFINE U == T \ {x}
  <2>3. U \in FiniteSubsetsOf(S) /\ <<U, T>> \in StrictSubsetOrdering(S)
    BY FS_RemoveElement DEF FiniteSubsetsOf, StrictSubsetOrdering
  <2>4. U \notin Bad
    BY <2>1, <2>3
  <2>5. T \subseteq S /\ x \in Nat /\ \A y \in T : y \in Nat
    BY DEF FiniteSubsetsOf
  <2>6. CASE U = {}
    <3>1. IsMax(T, x)
      BY <2>5, <2>6 DEF IsMax
    <3>. QED BY <3>1
  <2>7. CASE U # {}
    <3>1. PICK m : IsMax(U, m)
      BY <2>3, <2>4, <2>7
    <3>2. IsMax(T, m) \/ IsMax(T, x)
      BY <2>5, <3>1 DEF IsMax
    <3>. QED BY <3>2
  <2>. QED BY <2>6, <2>7
<1>. QED BY <1>1, <1>2

(* The sizes, one by one.                                                    *)
LEMMA Sizes ==
  /\ MaxFrames \in Nat /\ MaxFrames > 0
  /\ NumKeyframes \in Nat /\ NumKeyframes > 0
  /\ NumImuFrames \in Nat /\ NumImuFrames > 0
  /\ MaxConversions \in Nat /\ MaxConversions > 0
  /\ NumRealtimePoseGraphFrames \in Nat /\ NumPoseGraphFrames \in Nat
BY SizesAssumption

(* ------------------------------------------------------------------------- *)
(* Sets of states.                                                           *)

(* States are numbers up to MaxFrames.                                       *)
LEMMA StatesFinite ==
  ASSUME NEW S, S \subseteq Id
  PROVE  IsFiniteSet(S) /\ Cardinality(S) \in Nat /\ \A s \in S : s \in Nat
<1>1. IsFiniteSet(Id)
  BY Sizes, FS_Interval DEF Id
<1>2. IsFiniteSet(S)
  BY <1>1, FS_Subset
<1>. QED BY <1>2, FS_CardinalityType DEF Id

(* So every non-empty set of them has a newest and an oldest one.            *)
LEMMA StatesOrdered ==
  ASSUME NEW S, S \subseteq Id, S # {}
  PROVE  IsMax(S, Max(S)) /\ IsMin(S, Min(S))
BY StatesFinite, FiniteSetHasMax, NatsHaveMin DEF HasMax, HasMin

(* Before finds a state that is not newer, and has n states between, unless  *)
(* it is the first.                                                          *)
LEMMA BeforeIs ==
  ASSUME NEW S, S \subseteq Id, NEW s \in S, NEW n \in Nat,
         NEW b, b = Before(S, s, n)
  PROVE  /\ b \in S /\ b <= s
         /\ b = Min(S) \/ Cardinality({z \in S : z <= s /\ z > b}) >= n
<1>. DEFINE older == {x \in S : x <= s}
            far   == {x \in older : Cardinality({z \in older : z > x}) >= n}
<1>1. b = IF far = {} THEN Min(S) ELSE Max(far)
  BY DEF Before
<1>2. IsMin(S, Min(S))
  BY StatesOrdered
<1>3. far # {} => IsMax(far, Max(far))
  <2>1. far \subseteq Id
    OBVIOUS
  <2>. QED BY <2>1, StatesOrdered
<1>4. far # {} =>
        /\ Max(far) \in S /\ Max(far) <= s
        /\ Cardinality({z \in older : z > Max(far)}) >= n
  BY <1>3 DEF IsMax
<1>5. {z \in older : z > b} = {z \in S : z <= s /\ z > b}
  OBVIOUS
<1>. HIDE DEF far
<1>. QED BY <1>1, <1>2, <1>4, <1>5 DEF IsMin

(* BackTo finds a good state that is not newer, or the first.                *)
LEMMA BackToIs ==
  ASSUME NEW S, S \subseteq Id, S # {}, NEW s, NEW good, NEW b,
         b = BackTo(S, s, good)
  PROVE  b \in S /\ (b = Min(S) \/ (b <= s /\ b \in good))
<1>. DEFINE found == {x \in S : x <= s /\ x \in good}
<1>1. b = IF found = {} THEN Min(S) ELSE Max(found)
  BY DEF BackTo
<1>2. IsMin(S, Min(S))
  BY StatesOrdered
<1>3. found # {} => IsMax(found, Max(found))
  <2>1. found \subseteq Id
    OBVIOUS
  <2>. QED BY <2>1, StatesOrdered
<1>4. found # {} => Max(found) \in S /\ Max(found) <= s /\ Max(found) \in good
  BY <1>3 DEF IsMax
<1>. HIDE DEF found
<1>. QED BY <1>1, <1>2, <1>4 DEF IsMin

(* Where the first states are fixed, freezing extends them up to s.          *)
LEMMA FreezeExtends ==
  ASSUME NEW S, S \subseteq Id, NEW fixed, NEW f \in Nat, NEW s \in Nat,
         fixed = {x \in S : x <= f}
  PROVE  FreezeUntil(fixed, S, s) = {x \in S : x <= s \/ x <= f}
<1>1. \A x \in S : x \in Nat
  BY StatesFinite
<1>2. ASSUME NEW x \in S, x <= s, ~(x <= f)
      PROVE  (x .. s) \cap fixed = {}
  BY <1>1, <1>2
<1>. QED BY <1>1, <1>2 DEF FreezeUntil

(* A sequence with one more element.                                         *)
LEMMA AppendToSet ==
  ASSUME NEW T, NEW q \in Seq(T), NEW x \in T
  PROVE  /\ Append(q, x) \in Seq(T)
         /\ ToSet(Append(q, x)) = ToSet(q) \cup {x}
<1>1. /\ Append(q, x) \in Seq(T) /\ Len(Append(q, x)) = Len(q) + 1
      /\ \A i \in 1 .. Len(q) : Append(q, x)[i] = q[i]
      /\ Append(q, x)[Len(q) + 1] = x
  OBVIOUS
<1>2. DOMAIN Append(q, x) = 1 .. Len(q) + 1 /\ DOMAIN q = 1 .. Len(q)
  OBVIOUS
<1>3. Len(q) \in Nat
  OBVIOUS
<1>4. DOMAIN Append(q, x) = DOMAIN q \cup {Len(q) + 1}
  BY <1>2, <1>3
<1>. QED BY <1>1, <1>2, <1>4 DEF ToSet

(* ------------------------------------------------------------------------- *)
(* The flags and the place of the realtime thread.                           *)

FlagInv ==
  /\ phase \in Phases
  /\ needs => phase \in {"deciding", "optimising"} /\ ~closing /\ ~available
  /\ ~(closing /\ available)
  /\ phase \in {"stopping", "parting", "stopped", "final"} => ~closing
  /\ phase \in {"parting", "stopped", "final"} => ~available

LEMMA FlagStep == FlagInv /\ [Next]_vars => FlagInv'
<1>. SUFFICES ASSUME FlagInv, [Next]_vars PROVE FlagInv'
  OBVIOUS
<1>. USE DEF FlagInv, Phases, Go, Running, flags, Deferring
<1>1. CASE AddStates \/ OptimiseNewest
  BY <1>1 DEF AddStates, OptimiseNewest
<1>2. ASSUME NEW i \in Id, CloseLoop(i) PROVE FlagInv'
  BY <1>2 DEF CloseLoop
<1>3. ASSUME NEW asKeyframe \in BOOLEAN, SetKeyframe(asKeyframe) PROVE FlagInv'
  BY <1>3 DEF SetKeyframe
<1>4. CASE StartFull \/ FinishFull \/ OptimiseRealtimeGraph \/ SkipImport
  BY <1>4 DEF StartFull, FinishFull, OptimiseRealtimeGraph, SkipImport
<1>5. CASE ImportFullGraph \/ FinalImport
  <2>1. /\ ~closing /\ available' = FALSE /\ UNCHANGED <<needs, closing>>
        /\ \/ phase = "importing" /\ phase' = "publishing"
           \/ phase = "stopping" /\ phase' = "parting"
    BY <1>5 DEF ImportFullGraph, FinalImport, Synchronise
  <2>. QED BY <2>1
<1>6. CASE Publish \/ KeepAsKeyframe \/ EliminateImuFrame \/ Eliminated
  <2>1. CASE Publish
    <3>1. UNCHANGED flags /\ phase = "publishing" /\ phase' = "eliminating"
      BY <2>1 DEF Publish
    <3>. QED BY <3>1
  <2>2. CASE KeepAsKeyframe \/ EliminateImuFrame
    <3>1. UNCHANGED <<phase, flags>>
      BY <2>2 DEF KeepAsKeyframe, EliminateImuFrame
    <3>. QED BY <3>1
  <2>3. CASE Eliminated
    BY <2>3 DEF Eliminated
  <2>. QED BY <1>6, <2>1, <2>2, <2>3
<1>7. ASSUME NEW m \in Id, ConvertKeyframe(m) \/ ConvertLoopFrame(m)
      PROVE  FlagInv'
  <2>1. CASE ConvertKeyframe(m)
    <3>1. UNCHANGED <<phase, flags>>
      BY <2>1 DEF ConvertKeyframe
    <3>. QED BY <3>1
  <2>2. CASE ConvertLoopFrame(m)
    <3>1. UNCHANGED flags
      BY <2>2 DEF ConvertLoopFrame
    <3>2. phase = "loops" /\ phase' \in {"loops", "expanding"}
      BY <2>2 DEF ConvertLoopFrame
    <3>. QED BY <3>1, <3>2
  <2>. QED BY <1>7, <2>1, <2>2
<1>8. CASE FreezeOldStates \/ KeepLoopFrames \/ Expand
  BY <1>8 DEF FreezeOldStates, KeepLoopFrames, Expand
<1>9. CASE Stop \/ PublishImport \/ DoFinalBa
  <2>1. CASE Stop
    BY <2>1 DEF Stop
  <2>2. CASE PublishImport
    <3>1. UNCHANGED flags /\ phase = "parting" /\ phase' = "stopped"
      BY <2>2 DEF PublishImport
    <3>. QED BY <3>1
  <2>3. CASE DoFinalBa
    <3>1. UNCHANGED flags /\ phase = "stopped" /\ phase' = "final"
      BY <2>3 DEF DoFinalBa
    <3>. QED BY <3>1
  <2>. QED BY <1>9, <2>1, <2>2, <2>3
<1>10. CASE Finished \/ UNCHANGED vars
  BY <1>10 DEF Finished, vars
<1>. QED BY <1>1, <1>2, <1>3, <1>4, <1>5, <1>6, <1>7, <1>8, <1>9, <1>10 DEF Next

(* ------------------------------------------------------------------------- *)
(* The sets of frames.  The IMU frames are the newest states, and the links  *)
(* of the pose graph only lead to others.                                    *)

WindowInv ==
  /\ rtStates \subseteq Id /\ keyframes \subseteq rtStates
  /\ keyFrames \cup loopClosureFrames \cup poseGraphFrames \subseteq keyframes
  /\ rtStates = imuFrames \cup keyFrames \cup loopClosureFrames
                \cup poseGraphFrames
  /\ imuFrames \cap (keyFrames \cup loopClosureFrames \cup poseGraphFrames) = {}
  /\ keyFrames \cap (loopClosureFrames \cup poseGraphFrames) = {}
  /\ loopClosureFrames \cap poseGraphFrames = {}
  /\ \A s \in imuFrames, x \in rtStates : x \in imuFrames \/ x < s
  /\ rtStates # {} => imuFrames # {}
  /\ rtStates = {} => phase = "idle"
  /\ phase = "converting" => Cardinality(imuFrames) <= NumImuFrames
  /\ \A l \in links : l \subseteq keyFrames \cup loopClosureFrames
                                \cup poseGraphFrames

(* The newest state is the one of the current IMU frame.                     *)
LEMMA NewestIs ==
  ASSUME WindowInv, rtStates # {}
  PROVE  /\ Newest \in rtStates /\ Newest \in imuFrames /\ Newest \in Nat
         /\ \A s \in rtStates : s \in Nat /\ s <= Newest
<1>1. IsMax(rtStates, Newest)
  BY StatesOrdered DEF WindowInv, Newest
<1>2. PICK s \in imuFrames : s \in rtStates
  BY DEF WindowInv
<1>3. Newest \in imuFrames
  BY <1>1, <1>2 DEF WindowInv, IsMax
<1>. QED BY <1>1, <1>3 DEF IsMax

(* A new state is newer than all others.                                     *)
LEMMA NewState ==
  ASSUME WindowInv, AddStates, NEW id,
         id = IF rtStates = {} THEN 1 ELSE Newest + 1
  PROVE  /\ id \in Id /\ id \in Nat /\ \A s \in rtStates : s \in Nat /\ s < id
         /\ rtStates' = rtStates \cup {id} /\ imuFrames' = imuFrames \cup {id}
         /\ Newest' = id
<1>1. /\ id \in Id
      /\ rtStates' = rtStates \cup {id} /\ imuFrames' = imuFrames \cup {id}
  BY DEF AddStates
<1>2. id \in Nat /\ \A s \in rtStates : s \in Nat /\ s < id
  BY <1>1, NewestIs DEF Id
<1>3. IsMax(rtStates \cup {id}, id)
  BY <1>2 DEF IsMax
<1>. QED BY <1>1, <1>2, <1>3, MaxIs DEF Newest

(* The oldest IMU frame leaves the window.                                   *)
LEMMA OldestImuFrame ==
  ASSUME WindowInv, KeepAsKeyframe \/ EliminateImuFrame, NEW s,
         s = Min(imuFrames)
  PROVE  /\ s \in imuFrames /\ s \in rtStates /\ s \in Nat
         /\ imuFrames' = imuFrames \ {s} /\ imuFrames' # {}
         /\ \A x \in imuFrames : x \in Nat /\ s <= x
         /\ s < Newest /\ phase = "eliminating" /\ UNCHANGED phase
<1>1. /\ Cardinality(imuFrames) > NumImuFrames /\ imuFrames' = imuFrames \ {s}
      /\ phase = "eliminating" /\ UNCHANGED phase
  BY DEF KeepAsKeyframe, EliminateImuFrame
<1>2. imuFrames \subseteq Id
  BY DEF WindowInv
<1>3. Cardinality(imuFrames) \in Nat /\ IsFiniteSet(imuFrames)
  BY <1>2, StatesFinite
<1>4. imuFrames # {}
  BY <1>1, <1>3, Sizes, FS_EmptySet
<1>5. IsMin(imuFrames, s)
  BY <1>2, <1>4, StatesOrdered
<1>6. imuFrames \ {s} # {}
  <2>1. SUFFICES ASSUME imuFrames = {s} PROVE FALSE
    BY <1>4
  <2>. QED BY <2>1, <1>1, FS_Singleton, Sizes
<1>7. s # Newest
  <2>1. PICK x \in imuFrames : x # s
    BY <1>6
  <2>2. x \in rtStates /\ s < x
    BY <2>1, <1>5 DEF IsMin, WindowInv
  <2>. QED BY <2>2, <1>4, NewestIs DEF WindowInv
<1>8. s \in rtStates /\ s <= Newest /\ Newest \in Nat
  BY <1>4, <1>5, NewestIs DEF IsMin, WindowInv
<1>. QED BY <1>1, <1>5, <1>6, <1>7, <1>8 DEF IsMin

(* addStates enters the new frame into the IMU frames.                       *)
LEMMA WindowAdd ==
  ASSUME WindowInv, AddStates
  PROVE  WindowInv'
<1>. DEFINE id == IF rtStates = {} THEN 1 ELSE Newest + 1
<1>1. /\ id \in Id /\ id \in Nat /\ \A s \in rtStates : s \in Nat /\ s < id
      /\ rtStates' = rtStates \cup {id} /\ imuFrames' = imuFrames \cup {id}
  BY NewState
<1>. HIDE DEF id
<1>2. /\ UNCHANGED <<keyframes, keyFrames, loopClosureFrames, poseGraphFrames,
                     links>>
      /\ phase' = "matching"
  BY DEF AddStates, Go
<1>3. id \notin rtStates
  BY <1>1
<1>. QED BY <1>1, <1>2, <1>3 DEF WindowInv

(* An IMU frame stays as a keyframe.                                         *)
LEMMA WindowKeep ==
  ASSUME WindowInv, KeepAsKeyframe
  PROVE  WindowInv'
<1>. DEFINE s == Min(imuFrames)
<1>1. /\ s \in imuFrames /\ s \in rtStates /\ s \in Nat
      /\ imuFrames' = imuFrames \ {s} /\ imuFrames' # {}
      /\ \A x \in imuFrames : x \in Nat /\ s <= x
      /\ phase = "eliminating" /\ UNCHANGED phase
  BY OldestImuFrame
<1>2. /\ s \in keyframes /\ keyFrames' = keyFrames \cup {s}
      /\ loopClosureFrames' = loopClosureFrames \ {s}
      /\ UNCHANGED <<rtStates, keyframes, poseGraphFrames, links>>
  BY DEF KeepAsKeyframe
<1>. HIDE DEF s
<1>. QED BY <1>1, <1>2 DEF WindowInv

(* An IMU frame that is no keyframe leaves.                                  *)
LEMMA WindowEliminate ==
  ASSUME WindowInv, EliminateImuFrame
  PROVE  WindowInv'
<1>. DEFINE s == Min(imuFrames)
<1>1. /\ s \in imuFrames /\ s \in rtStates /\ s \in Nat
      /\ imuFrames' = imuFrames \ {s} /\ imuFrames' # {}
      /\ \A x \in imuFrames : x \in Nat /\ s <= x
      /\ phase = "eliminating" /\ UNCHANGED phase
  BY OldestImuFrame
<1>2. /\ s \notin keyframes /\ rtStates' = rtStates \ {s}
      /\ UNCHANGED <<keyframes, keyFrames, loopClosureFrames, poseGraphFrames,
                     links>>
  BY DEF EliminateImuFrame, Forget
<1>. HIDE DEF s
<1>. QED BY <1>1, <1>2 DEF WindowInv

(* The import does not touch the window.                                     *)
LEMMA WindowSynchronise ==
  ASSUME WindowInv, NEW from, NEW to, from # "idle", to # "converting",
         Synchronise(from, to)
  PROVE  WindowInv'
<1>1. /\ keyFrames' = keyFrames \cup loopClosureFrames
      /\ loopClosureFrames' = {} /\ phase = from /\ phase' = to
      /\ UNCHANGED <<rtStates, keyframes, imuFrames, poseGraphFrames, links>>
  BY DEF Synchronise, Go
<1>. QED BY <1>1 DEF WindowInv

(* The matched frame and those linked to it leave the pose graph.            *)
LEMMA WindowClose ==
  ASSUME WindowInv, NEW i, CloseLoop(i)
  PROVE  WindowInv'
<1>. DEFINE back == {i} \cup LinkedPoseGraphFrames(i)
<1>1. back \subseteq poseGraphFrames
  BY DEF CloseLoop, LinkedPoseGraphFrames
<1>2. /\ loopClosureFrames' = loopClosureFrames \cup back
      /\ poseGraphFrames' = poseGraphFrames \ back
      /\ links' \subseteq links
  BY DEF CloseLoop, BringBack
<1>3. /\ UNCHANGED <<rtStates, keyframes, imuFrames, keyFrames>>
      /\ phase = "recognising" /\ phase' = "deciding"
  BY DEF CloseLoop, Go
<1>. HIDE DEF back
<1>. QED BY <1>1, <1>2, <1>3 DEF WindowInv

(* A frame that leaves is linked to frames of the window.                    *)
LEMMA LinkIntoEffect ==
  ASSUME WindowInv, NEW m, LinkInto(m, ctrPg) \/ LinkInto(m, ctrLc)
  PROVE  \A l \in links' : l \in links \/ l \subseteq {m} \cup Window
BY DEF LinkInto, Window

(* It becomes a pose-graph frame, from keyframe or loop-closure frame.       *)
LEMMA WindowConvert ==
  ASSUME WindowInv, NEW m, ConvertKeyframe(m) \/ ConvertLoopFrame(m)
  PROVE  WindowInv'
<1>1. CASE ConvertKeyframe(m)
  <2>1. /\ m \in keyFrames /\ keyFrames' = keyFrames \ {m}
        /\ poseGraphFrames' = poseGraphFrames \cup {m}
        /\ UNCHANGED <<rtStates, keyframes, imuFrames, loopClosureFrames>>
        /\ phase = "converting" /\ UNCHANGED phase
    BY <1>1 DEF ConvertKeyframe, LeastCovisible
  <2>2. \A l \in links' : l \in links \/ l \subseteq {m} \cup Window
    BY <1>1, LinkIntoEffect DEF ConvertKeyframe
  <2>. QED BY <2>1, <2>2 DEF WindowInv, Window
<1>2. CASE ConvertLoopFrame(m)
  <2>1. /\ m \in loopClosureFrames /\ loopClosureFrames' = loopClosureFrames \ {m}
        /\ poseGraphFrames' = poseGraphFrames \cup {m}
        /\ UNCHANGED <<rtStates, keyframes, imuFrames, keyFrames>>
    BY <1>2 DEF ConvertLoopFrame, LeastCovisible
  <2>2. \A l \in links' : l \in links \/ l \subseteq {m} \cup Window
    BY <1>2, LinkIntoEffect DEF ConvertLoopFrame
  <2>3. phase = "loops" /\ phase' \in {"loops", "expanding"}
    BY <1>2 DEF ConvertLoopFrame
  <2>. QED BY <2>1, <2>2, <2>3 DEF WindowInv, Window
<1>. QED BY <1>1, <1>2

(* expandKeyframe moves pose-graph frames that s was linked to into the      *)
(* window, and only forgets links; it does not throw for a frame of the      *)
(* window.                                                                   *)
IsGraph(g) ==
  /\ g = [links |-> g.links, key |-> g.key, loop |-> g.loop,
          poseGraph |-> g.poseGraph, good |-> g.good]
  /\ g.links \subseteq links /\ g.loop = loopClosureFrames
  /\ g.key \cup g.poseGraph = keyFrames \cup poseGraphFrames
  /\ g.key \cap (g.loop \cup g.poseGraph) = {} /\ g.loop \cap g.poseGraph = {}
  /\ keyFrames \subseteq g.key

(* expandKeyframe only moves pose-graph frames to the keyframes.             *)
LEMMA ExpandKeeps ==
  ASSUME NEW g, IsGraph(g), NEW s, NEW h, h = ExpandIfLinked(g, s)
  PROVE  IsGraph(h)
<1>. DEFINE to == {x \in Id : {s, x} \in g.links}
            e  == [links     |-> {l \in g.links : s \notin l},
                   key       |-> g.key \cup ((to \cap g.poseGraph) \ g.loop),
                   loop      |-> g.loop,
                   poseGraph |-> g.poseGraph \ to,
                   good      |-> g.good /\ (s \notin imuFrames
                                            /\ s \in g.key \cup g.loop)]
<1>1. Expanded(g, s) = e
  BY DEF Expanded
<1>2. IsGraph(e)
  <2>. HIDE DEF to
  <2>. QED BY DEF IsGraph
<1>. HIDE DEF e
<1>. QED BY <1>1, <1>2 DEF ExpandIfLinked

(* So does applyStrategy, which calls it for three kinds of frames.          *)
LEMMA ExpandEffect ==
  ASSUME WindowInv, Expand
  PROVE  /\ links' \subseteq links
         /\ keyFrames' \cup poseGraphFrames' = keyFrames \cup poseGraphFrames
         /\ keyFrames' \cap (loopClosureFrames \cup poseGraphFrames') = {}
         /\ loopClosureFrames \cap poseGraphFrames' = {}
         /\ keyFrames \subseteq keyFrames'
<1>1. IsGraph(WindowGraph)
  BY DEF IsGraph, WindowGraph, WindowInv
<1>2. ASSUME NEW g, IsGraph(g), Adjust(g)
      PROVE  /\ links' \subseteq links
             /\ keyFrames' \cup poseGraphFrames' = keyFrames \cup poseGraphFrames
             /\ keyFrames' \cap (loopClosureFrames \cup poseGraphFrames') = {}
             /\ loopClosureFrames \cap poseGraphFrames' = {}
             /\ keyFrames \subseteq keyFrames'
  BY <1>2 DEF IsGraph, Adjust
<1>3. \/ \E k : Adjust(ExpandIfLinked(WindowGraph, k))
      \/ \E k, l : Adjust(ExpandIfLinked(ExpandIfLinked(WindowGraph, k), l))
      \/ UNCHANGED <<links, keyFrames, poseGraphFrames>>
  BY DEF Expand
<1>4. CASE \E k : Adjust(ExpandIfLinked(WindowGraph, k))
  BY <1>1, <1>2, <1>4, ExpandKeeps
<1>5. CASE \E k, l : Adjust(ExpandIfLinked(ExpandIfLinked(WindowGraph, k), l))
  BY <1>1, <1>2, <1>5, ExpandKeeps
<1>6. CASE UNCHANGED <<links, keyFrames, poseGraphFrames>>
  BY <1>6 DEF WindowInv
<1>. QED BY <1>3, <1>4, <1>5, <1>6

(* The window after the expansion.                                           *)
LEMMA WindowExpand ==
  ASSUME WindowInv, Expand
  PROVE  WindowInv'
<1>1. UNCHANGED <<rtStates, keyframes, imuFrames, loopClosureFrames>>
  BY DEF Expand
<1>2. phase = "expanding" /\ phase' = "idle"
  BY DEF Expand, Go
<1>. QED BY <1>1, <1>2, ExpandEffect DEF WindowInv

(* Every step before the final optimisation keeps the window together.       *)
LEMMA WindowStep ==
  ASSUME WindowInv, [Next]_vars
  PROVE  WindowInv' \/ phase' = "final"
<1>. USE DEF Go, Running, window
<1>1. CASE AddStates
  BY <1>1, WindowAdd
<1>2. ASSUME NEW i \in Id, CloseLoop(i) PROVE WindowInv'
  BY <1>2, WindowClose
<1>3. ASSUME NEW asKeyframe \in BOOLEAN, SetKeyframe(asKeyframe)
      PROVE  WindowInv'
  <2>1. /\ keyframes \subseteq keyframes'
        /\ keyframes' \subseteq keyframes \cup {Newest}
        /\ UNCHANGED <<rtStates, window, links>>
        /\ phase # "idle" /\ phase' = "optimising"
    BY <1>3 DEF SetKeyframe
  <2>2. rtStates # {}
    BY <2>1 DEF WindowInv
  <2>. QED BY <2>1, <2>2, NewestIs DEF WindowInv
<1>4. CASE OptimiseNewest \/ StartFull \/ FinishFull \/ OptimiseRealtimeGraph
           \/ SkipImport \/ Publish \/ FreezeOldStates \/ KeepLoopFrames
           \/ PublishImport
  <2>1. /\ UNCHANGED <<rtStates, keyframes, window, links>>
        /\ phase' # "converting" \/ UNCHANGED phase
        /\ phase # "idle" \/ UNCHANGED phase
    BY <1>4 DEF OptimiseNewest, StartFull, FinishFull, OptimiseRealtimeGraph,
       SkipImport, Publish, FreezeOldStates, KeepLoopFrames, PublishImport
  <2>. QED BY <2>1 DEF WindowInv
<1>5. CASE ImportFullGraph \/ FinalImport
  BY <1>5, WindowSynchronise DEF ImportFullGraph, FinalImport
<1>6. CASE KeepAsKeyframe \/ EliminateImuFrame
  BY <1>6, WindowKeep, WindowEliminate
<1>7. CASE Eliminated
  <2>1. /\ UNCHANGED <<rtStates, keyframes, window, links>>
        /\ phase = "eliminating" /\ Cardinality(imuFrames) <= NumImuFrames
    BY <1>7 DEF Eliminated
  <2>. QED BY <2>1 DEF WindowInv
<1>8. ASSUME NEW m \in Id, ConvertKeyframe(m) \/ ConvertLoopFrame(m)
      PROVE  WindowInv'
  BY <1>8, WindowConvert
<1>9. CASE Expand
  BY <1>9, WindowExpand
<1>10. CASE Stop
  <2>1. /\ UNCHANGED <<rtStates, keyframes, window, links>> /\ rtStates # {}
        /\ phase' \in {"stopping", "stopped"}
    BY <1>10 DEF Stop
  <2>. QED BY <2>1 DEF WindowInv
<1>11. CASE DoFinalBa
  BY <1>11 DEF DoFinalBa
<1>12. CASE Finished \/ UNCHANGED vars
  BY <1>12 DEF Finished, vars, WindowInv
<1>. QED BY <1>1, <1>2, <1>3, <1>4, <1>5, <1>6, <1>7, <1>8, <1>9, <1>10, <1>11,
            <1>12 DEF Next

(* ------------------------------------------------------------------------- *)
(* The states of the two graphs.  What the realtime graph has and the full   *)
(* graph has not waits in the backlog, in the order of the states.           *)

StatesInv ==
  /\ fullStates \subseteq Id /\ backlog \in Seq(Id) /\ eliminateStates \subseteq Id
  /\ rtStates = (fullStates \cup ToSet(backlog)) \ eliminateStates
  /\ Deferring \/ (backlog = <<>> /\ eliminateStates = {})
  /\ \A b \in ToSet(backlog), x \in fullStates : x < b
  /\ \A e \in eliminateStates : rtStates # {} /\ e < Newest

(* So the import finds the states of the realtime graph.                     *)
LEMMA ImportedStates ==
  ASSUME StatesInv
  PROVE  WithoutEliminated(WithBacklog).states = rtStates
<1>1. WithBacklog.states = fullStates \cup ToSet(backlog)
  BY DEF WithBacklog
<1>2. WithoutEliminated(WithBacklog).states
        = WithBacklog.states \ eliminateStates
  BY DEF WithoutEliminated
<1>. QED BY <1>1, <1>2 DEF StatesInv

LEMMA EmptyToSet == ToSet(<<>>) = {}
BY DEF ToSet

(* The full graph has no state that is newer than the realtime graph.        *)
LEMMA FullStatesOlder ==
  ASSUME WindowInv, StatesInv, NEW x \in fullStates
  PROVE  rtStates # {} /\ x \in Nat /\ x <= Newest
<1>1. CASE x \in rtStates
  BY <1>1, NewestIs
<1>2. CASE x \notin rtStates
  <2>1. x \in eliminateStates
    BY <1>2 DEF StatesInv
  <2>2. x \in Nat /\ x < Newest /\ rtStates # {}
    BY <2>1 DEF StatesInv, Id
  <2>. QED BY <2>2, NewestIs
<1>. QED BY <1>1, <1>2

(* addStates: both graphs, or one and the backlog.                           *)
LEMMA StatesAdd ==
  ASSUME WindowInv, StatesInv, AddStates
  PROVE  StatesInv'
<1>. DEFINE id == IF rtStates = {} THEN 1 ELSE Newest + 1
<1>1. /\ id \in Id /\ id \in Nat /\ \A s \in rtStates : s \in Nat /\ s < id
      /\ rtStates' = rtStates \cup {id} /\ Newest' = id
  BY NewState
<1>2. \A x \in fullStates : x < id
  BY <1>1, FullStatesOlder, NewestIs
<1>3. id \notin rtStates
  BY <1>1
<1>4. \A e \in eliminateStates : e < id
  <2>. SUFFICES ASSUME NEW e \in eliminateStates PROVE e < id
    OBVIOUS
  <2>1. e \in Nat /\ e < Newest /\ rtStates # {}
    BY DEF StatesInv, Id
  <2>. QED BY <2>1, <1>1, NewestIs
<1>5. id \notin eliminateStates
  BY <1>1, <1>4
<1>6. UNCHANGED <<flags, eliminateStates>>
  BY DEF AddStates
<1>7. CASE Deferring
  <2>1. backlog' = Append(backlog, id) /\ UNCHANGED fullStates
    BY <1>7 DEF AddStates
  <2>2. backlog' \in Seq(Id) /\ ToSet(backlog') = ToSet(backlog) \cup {id}
    BY <2>1, <1>1, AppendToSet DEF StatesInv
  <2>. HIDE DEF id
  <2>. QED BY <1>1, <1>2, <1>4, <1>5, <1>6, <1>7, <2>1, <2>2
           DEF StatesInv, Deferring, flags
<1>8. CASE ~Deferring
  <2>1. fullStates' = fullStates \cup {id} /\ UNCHANGED backlog
    BY <1>8 DEF AddStates
  <2>2. ToSet(backlog') = {} /\ ToSet(backlog) = {}
    BY <1>8, <2>1, EmptyToSet DEF StatesInv
  <2>. HIDE DEF id
  <2>. QED BY <1>1, <1>2, <1>4, <1>5, <1>6, <1>8, <2>1, <2>2
           DEF StatesInv, Deferring, flags
<1>. QED BY <1>7, <1>8

(* Elimination: both graphs, or one and the pending eliminations.            *)
LEMMA StatesEliminate ==
  ASSUME WindowInv, StatesInv, EliminateImuFrame
  PROVE  StatesInv' /\ Newest' = Newest
<1>. DEFINE s == Min(imuFrames)
<1>1. s \in rtStates /\ s \in Nat /\ s < Newest
  BY OldestImuFrame
<1>2. /\ rtStates' = rtStates \ {s}
      /\ IF Deferring
           THEN eliminateStates' = eliminateStates \cup {s} /\ UNCHANGED fullStates
           ELSE fullStates' = fullStates \ {s} /\ UNCHANGED eliminateStates
      /\ UNCHANGED <<flags, backlog>>
  BY DEF EliminateImuFrame, Forget
<1>3. rtStates' # {} /\ Newest' = Newest
  <2>1. HasMax(rtStates) /\ Newest \in rtStates /\ Newest # s
    BY <1>1, StatesOrdered, NewestIs DEF WindowInv, HasMax
  <2>. HIDE DEF s
  <2>. QED BY <2>1, <1>2, MaxWithout DEF Newest
<1>4. s \in Id
  BY <1>1 DEF WindowInv
<1>. HIDE DEF s
<1>5. CASE Deferring
  BY <1>1, <1>2, <1>3, <1>4, <1>5 DEF StatesInv, Deferring, flags
<1>6. CASE ~Deferring
  <2>1. ToSet(backlog') = {} /\ ToSet(backlog) = {}
    BY <1>6, <1>2, EmptyToSet DEF StatesInv
  <2>. QED BY <1>1, <1>2, <1>3, <1>4, <1>6, <2>1
           DEF StatesInv, Deferring, flags
<1>. QED BY <1>3, <1>5, <1>6

(* The import: the backlog is appended, the eliminated ones leave.           *)
LEMMA StatesSynchronise ==
  ASSUME WindowInv, StatesInv, NEW from, NEW to, Synchronise(from, to)
  PROVE  StatesInv' /\ fullStates' = rtStates /\ UNCHANGED rtStates
<1>1. /\ fullStates' = WithoutEliminated(WithBacklog).states
      /\ backlog' = <<>> /\ eliminateStates' = {} /\ UNCHANGED rtStates
  BY DEF Synchronise
<1>2. fullStates' = rtStates
  BY <1>1, ImportedStates
<1>. QED BY <1>1, <1>2, EmptyToSet DEF StatesInv, WindowInv

(* What the graphs differ in by states waits for the import.                 *)
LEMMA StatesStep ==
  ASSUME FlagInv, WindowInv, StatesInv, [Next]_vars
  PROVE  StatesInv'
<1>1. CASE AddStates
  BY <1>1, StatesAdd
<1>2. CASE EliminateImuFrame
  BY <1>2, StatesEliminate
<1>3. CASE ImportFullGraph \/ FinalImport
  BY <1>3, StatesSynchronise DEF ImportFullGraph, FinalImport
<1>4. ASSUME UNCHANGED <<rtStates, fullStates, deferred>>,
             Deferring => Deferring'
      PROVE  StatesInv'
  <2>1. UNCHANGED <<rtStates, fullStates, backlog, eliminateStates>>
    BY <1>4 DEF deferred
  <2>. QED BY <1>4, <2>1 DEF StatesInv, Newest
<1>5. ASSUME NEW i \in Id, CloseLoop(i) \/ ConvertKeyframe(i)
                           \/ ConvertLoopFrame(i)
      PROVE  StatesInv'
  <2>1. CASE CloseLoop(i)
    BY <2>1, <1>4 DEF CloseLoop, Deferring
  <2>2. CASE ConvertKeyframe(i)
    BY <2>2, <1>4 DEF ConvertKeyframe, Deferring, flags
  <2>3. CASE ConvertLoopFrame(i)
    <3>1. UNCHANGED <<rtStates, fullStates, deferred, flags>>
      BY <2>3 DEF ConvertLoopFrame
    <3>. QED BY <3>1, <1>4 DEF Deferring, flags
  <2>. QED BY <1>5, <2>1, <2>2, <2>3
<1>6. ASSUME NEW asKeyframe \in BOOLEAN, SetKeyframe(asKeyframe)
      PROVE  StatesInv'
  <2>1. UNCHANGED <<rtStates, fullStates, deferred, flags>>
    BY <1>6 DEF SetKeyframe
  <2>. QED BY <2>1, <1>4 DEF Deferring, flags
<1>7. CASE StartFull \/ FinishFull
  BY <1>7, <1>4 DEF StartFull, FinishFull, Deferring
<1>8. CASE OptimiseNewest \/ OptimiseRealtimeGraph \/ SkipImport \/ Publish
           \/ KeepAsKeyframe \/ Eliminated \/ FreezeOldStates \/ KeepLoopFrames
           \/ Expand \/ Stop \/ PublishImport \/ DoFinalBa \/ Finished
           \/ UNCHANGED vars
  <2>1. UNCHANGED <<rtStates, fullStates, deferred, flags>>
    BY <1>8 DEF OptimiseNewest, OptimiseRealtimeGraph, SkipImport, Publish,
       KeepAsKeyframe, Eliminated, FreezeOldStates, KeepLoopFrames, Expand,
       Stop, PublishImport, DoFinalBa, Finished, vars
  <2>. QED BY <2>1, <1>4 DEF Deferring, flags
<1>. QED BY <1>1, <1>2, <1>3, <1>5, <1>6, <1>7, <1>8 DEF Next

(* ------------------------------------------------------------------------- *)
(* What the realtime graph holds fixed: the states up to lastFreeze, which   *)
(* is older than the IMU frames, the ones that may still be eliminated.      *)

FreezeInv ==
  /\ lastFreeze \in Nat
  /\ rtFixed = {s \in rtStates : s <= lastFreeze}
  /\ \A s \in imuFrames : lastFreeze < s
  /\ rtStates = {} => lastFreeze = 0

(* The place where freezing begins is older than the newest states, if these *)
(* are fewer than the places it goes back.                                   *)
LEMMA FreezingPlace ==
  ASSUME NEW S, S \subseteq Id, NEW latest, latest \subseteq S,
         \A s \in latest, x \in S : x \in latest \/ x < s,
         NEW s \in S, NEW count \in Nat, count > Cardinality(latest),
         NEW far, far = Before(S, s, count), NEW good,
         NEW oldest, oldest = BackTo(S, far, good), oldest # Min(S)
  PROVE  oldest \in S /\ \A x \in latest : oldest < x
<1>1. \A x \in S : x \in Nat
  BY StatesFinite
<1>. DEFINE newer == {z \in S : z <= s /\ z > far}
<1>2. far \in S /\ far <= s /\ (far = Min(S) \/ Cardinality(newer) >= count)
  BY BeforeIs
<1>3. oldest \in S /\ oldest <= far
  BY BackToIs
<1>4. far # Min(S)
  <2>1. IsMin(S, Min(S))
    BY <1>2, StatesOrdered
  <2>. QED BY <2>1, <1>1, <1>2, <1>3 DEF IsMin
<1>5. far \notin latest
  <2>. SUFFICES ASSUME far \in latest PROVE FALSE
    OBVIOUS
  <2>1. newer \subseteq latest
    BY <1>1, <1>2
  <2>2. IsFiniteSet(latest) /\ Cardinality(latest) \in Nat
    BY StatesFinite
  <2>3. Cardinality(newer) <= Cardinality(latest)
    BY <2>1, <2>2, FS_Subset
  <2>4. Cardinality(newer) \in Nat
    BY <2>1, <2>2, FS_Subset, FS_CardinalityType
  <2>. HIDE DEF newer
  <2>. QED BY <1>2, <1>4, <2>2, <2>3, <2>4
<1>. QED BY <1>1, <1>2, <1>3, <1>5

(* Freezing moves forward: the states up to the new lastFreeze_ are fixed.   *)
LEMMA FreezeOldest ==
  ASSUME WindowInv, FreezeInv, FreezeOldStates
  PROVE  FreezeInv'
<1>. DEFINE places_ == NumKeyframes + NumImuFrames + NumRealtimePoseGraphFrames
            far     == Before(rtStates, Newest, places_)
            oldest  == BackTo(rtStates, far, OldEnough(Time(Newest)))
            freezes == /\ keyFrameEliminated /\ Cardinality(rtStates) > places_
                       /\ oldest # Min(rtStates)
            id      == FreezeId(oldest)
<1>1. /\ lastFreeze' = IF freezes THEN id ELSE lastFreeze
      /\ rtFixed' = IF freezes THEN FreezeUntil(rtFixed, rtStates, id) ELSE rtFixed
      /\ UNCHANGED <<rtStates, imuFrames>> /\ phase = "converting"
  BY DEF FreezeOldStates, Go, window
<1>2. /\ rtStates # {} /\ rtStates \subseteq Id /\ imuFrames \subseteq rtStates
      /\ Cardinality(imuFrames) <= NumImuFrames
      /\ \A s \in imuFrames, x \in rtStates : x \in imuFrames \/ x < s
  BY <1>1 DEF WindowInv
<1>3. CASE ~freezes
  BY <1>1, <1>3 DEF FreezeInv
<1>4. CASE freezes
  <2>1. places_ \in Nat /\ places_ > Cardinality(imuFrames)
    BY <1>2, Sizes, StatesFinite
  <2>2. Newest \in rtStates /\ \A s \in rtStates : s \in Nat
    BY <1>2, NewestIs
  <2>3. oldest # Min(rtStates)
    BY <1>4
  <2>. HIDE DEF places_
  <2>4. oldest \in rtStates /\ \A s \in imuFrames : oldest < s
    BY <1>2, <2>1, <2>2, <2>3, FreezingPlace
  <2>. HIDE DEF oldest
  <2>5. \A s \in imuFrames : s \in Nat /\ oldest < s
    BY <1>2, <2>2, <2>4
  <2>6. id \in Nat /\ oldest <= id /\ lastFreeze <= id
        /\ \A s \in imuFrames : id < s
    BY <2>2, <2>4, <2>5 DEF FreezeInv, FreezeId
  <2>. HIDE DEF id
  <2>7. FreezeUntil(rtFixed, rtStates, id)
          = {x \in rtStates : x <= id \/ x <= lastFreeze}
    BY <1>2, <2>6, FreezeExtends DEF FreezeInv
  <2>8. rtFixed' = {x \in rtStates : x <= id \/ x <= lastFreeze}
    BY <1>1, <1>4, <2>7
  <2>9. \A x \in rtStates : x <= lastFreeze => x <= id
    BY <2>2, <2>6 DEF FreezeInv
  <2>10. lastFreeze' = id
    BY <1>1, <1>4
  <2>. HIDE DEF freezes
  <2>. QED BY <1>1, <1>2, <2>6, <2>8, <2>9, <2>10 DEF FreezeInv
<1>. QED BY <1>3, <1>4

(* Optimising the newest state alone leaves as much fixed as before.         *)
LEMMA FreezeNewest ==
  ASSUME WindowInv, FreezeInv, OptimiseNewest
  PROVE  rtFixed' = rtFixed /\ UNCHANGED <<rtStates, imuFrames, lastFreeze>>
<1>. DEFINE second   == Before(rtStates, Newest, 1)
            unfreeze == {s \in rtStates : \A x \in rtStates :
                                            x >= s => x \notin rtFixed}
            allFixed == FreezeUntil(rtFixed, rtStates, second)
            first    == Min(unfreeze)
<1>1. /\ rtFixed' = IF second = Newest THEN rtFixed
                    ELSE UnfreezeFrom(allFixed, rtStates, first)
      /\ UNCHANGED <<rtStates, imuFrames, lastFreeze>> /\ phase = "matching"
  BY DEF OptimiseNewest, Go, window
<1>2. rtStates # {} /\ rtStates \subseteq Id
  BY <1>1 DEF WindowInv
<1>3. /\ Newest \in rtStates /\ Newest \in Nat /\ Newest \in imuFrames
      /\ \A s \in rtStates : s \in Nat /\ s <= Newest
  BY <1>2, NewestIs
<1>4. second \in rtStates
  BY <1>2, <1>3, BeforeIs
<1>. HIDE DEF second
<1>5. allFixed = {x \in rtStates : x <= second \/ x <= lastFreeze}
  <2>1. second \in Nat /\ lastFreeze \in Nat
        /\ rtFixed = {x \in rtStates : x <= lastFreeze}
    BY <1>3, <1>4 DEF FreezeInv
  <2>. QED BY <1>2, <2>1, FreezeExtends
<1>6. \A s \in rtStates : s \in unfreeze <=> s > lastFreeze
  BY <1>3 DEF FreezeInv
<1>7. IsMin(unfreeze, first)
  <2>1. Newest \in unfreeze
    BY <1>3, <1>6 DEF FreezeInv
  <2>. QED BY <1>2, <2>1, StatesOrdered
<1>8. first \in rtStates /\ first > lastFreeze /\ first \in Nat
      /\ \A x \in rtStates : x > lastFreeze => first <= x
  BY <1>6, <1>7 DEF IsMin
<1>. HIDE DEF unfreeze, first, allFixed
<1>9. UnfreezeFrom(allFixed, rtStates, first) = rtFixed
  <2>1. lastFreeze \in Nat /\ rtFixed = {x \in rtStates : x <= lastFreeze}
    BY DEF FreezeInv
  <2>2. UnfreezeFrom(allFixed, rtStates, first) = {x \in allFixed : x < first}
    BY <1>8 DEF UnfreezeFrom
  <2>3. \A x \in rtStates : x < first <=> x <= lastFreeze
    BY <1>3, <1>8, <2>1
  <2>. QED BY <1>5, <2>1, <2>2, <2>3
<1>. QED BY <1>1, <1>9

(* The realtime graph has exactly the states up to lastFreeze_ fixed.        *)
LEMMA FreezeStep ==
  ASSUME WindowInv, FreezeInv, [Next]_vars
  PROVE  FreezeInv'
<1>1. CASE AddStates
  <2>. DEFINE id == IF rtStates = {} THEN 1 ELSE Newest + 1
  <2>1. /\ id \in Nat /\ \A s \in rtStates : s \in Nat /\ s < id
        /\ rtStates' = rtStates \cup {id} /\ imuFrames' = imuFrames \cup {id}
    BY <1>1, NewState
  <2>2. lastFreeze < id
    BY NewestIs DEF FreezeInv
  <2>3. UNCHANGED <<rtFixed, lastFreeze>>
    BY <1>1 DEF AddStates, fixation
  <2>. HIDE DEF id
  <2>. QED BY <2>1, <2>2, <2>3 DEF FreezeInv
<1>2. CASE OptimiseNewest
  BY <1>2, FreezeNewest DEF FreezeInv
<1>3. CASE FreezeOldStates
  BY <1>3, FreezeOldest
<1>4. CASE EliminateImuFrame
  <2>. DEFINE s == Min(imuFrames)
  <2>1. imuFrames' = imuFrames \ {s} /\ imuFrames' # {}
    BY <1>4, OldestImuFrame
  <2>2. /\ rtStates' = rtStates \ {s} /\ rtFixed' = rtFixed \ {s}
        /\ UNCHANGED lastFreeze
    BY <1>4 DEF EliminateImuFrame, Forget
  <2>3. rtStates # {}
    BY <2>1 DEF WindowInv
  <2>4. rtStates' # {}
    BY <2>1, <2>2 DEF WindowInv
  <2>. HIDE DEF s
  <2>. QED BY <2>1, <2>2, <2>4 DEF FreezeInv
<1>5. ASSUME UNCHANGED <<rtStates, rtFixed, lastFreeze>>, imuFrames' \subseteq imuFrames
      PROVE  FreezeInv'
  BY <1>5 DEF FreezeInv
<1>6. ASSUME NEW i \in Id, CloseLoop(i) \/ ConvertKeyframe(i)
                           \/ ConvertLoopFrame(i)
      PROVE  FreezeInv'
  <2>1. CASE CloseLoop(i)
    BY <2>1, <1>5 DEF CloseLoop
  <2>2. CASE ConvertKeyframe(i)
    BY <2>2, <1>5 DEF ConvertKeyframe, fixation
  <2>3. CASE ConvertLoopFrame(i)
    <3>1. UNCHANGED <<rtStates, fixation, imuFrames>>
      BY <2>3 DEF ConvertLoopFrame
    <3>. QED BY <3>1, <1>5 DEF fixation
  <2>. QED BY <1>6, <2>1, <2>2, <2>3
<1>7. ASSUME NEW asKeyframe \in BOOLEAN, SetKeyframe(asKeyframe)
      PROVE  FreezeInv'
  <2>1. UNCHANGED <<rtStates, fixation, window>>
    BY <1>7 DEF SetKeyframe
  <2>. QED BY <2>1, <1>5 DEF fixation, window
<1>8. CASE KeepAsKeyframe
  <2>1. UNCHANGED <<rtStates, fixation>> /\ imuFrames' \subseteq imuFrames
    BY <1>8 DEF KeepAsKeyframe
  <2>. QED BY <2>1, <1>5 DEF fixation
<1>9. CASE ImportFullGraph \/ FinalImport
  <2>1. UNCHANGED <<rtStates, fixation, imuFrames>>
    BY <1>9 DEF ImportFullGraph, FinalImport, Synchronise
  <2>. QED BY <2>1, <1>5 DEF fixation
<1>10. CASE Expand \/ DoFinalBa
  <2>1. UNCHANGED <<rtStates, rtFixed, lastFreeze, imuFrames>>
    BY <1>10 DEF Expand, DoFinalBa, fixation
  <2>. QED BY <2>1, <1>5
<1>11. CASE StartFull \/ FinishFull \/ OptimiseRealtimeGraph \/ SkipImport
            \/ Publish \/ Eliminated \/ KeepLoopFrames \/ Stop \/ PublishImport
            \/ Finished \/ UNCHANGED vars
  <2>1. UNCHANGED <<rtStates, fixation, window>>
    BY <1>11 DEF StartFull, FinishFull, OptimiseRealtimeGraph, SkipImport,
       Publish, Eliminated, KeepLoopFrames, Stop, PublishImport, Finished, vars
  <2>. QED BY <2>1, <1>5 DEF fixation, window
<1>. QED BY <1>1, <1>2, <1>3, <1>4, <1>6, <1>7, <1>8, <1>9, <1>10, <1>11 DEF Next

(* ------------------------------------------------------------------------- *)
(* What the full graph holds fixed, if no loop is closed before the first    *)
(* freezing: some first states, all of which the realtime graph holds fixed. *)

FullFixedInv ==
  /\ fullFixed \subseteq rtFixed /\ fullFixed \subseteq fullStates
  /\ \A s \in fullStates, x \in fullFixed : s <= x => s \in fullFixed

(* Freezing after unfreezing from the same state fixes all up to it.         *)
LEMMA FreezeAgain ==
  ASSUME NEW S, S \subseteq Id, NEW fixed, fixed \subseteq S, NEW s \in Nat,
         \A x \in fixed : x <= s,
         \A y \in S, x \in fixed : y <= x => y \in fixed
  PROVE  FreezeUntil(fixed, S, s) = {x \in S : x <= s}
<1>1. \A x \in S : x \in Nat
  BY StatesFinite
<1>2. ASSUME NEW x \in S, x <= s, x \notin fixed
      PROVE  (x .. s) \cap fixed = {}
  BY <1>1, <1>2
<1>. QED BY <1>1, <1>2 DEF FreezeUntil

(* The optimisation may move everything after the start of the loop, which   *)
(* is fixed in the realtime graph, or is the first state.                    *)
LEMMA FixedByClosure ==
  ASSUME ~EarlyClosures, WindowInv, StatesInv, FreezeInv, FullFixedInv,
         NEW i, CloseLoop(i)
  PROVE  FullFixedInv'
<1>. DEFINE start == LoopStart(i)
            free  == UnfreezeFrom(fullFixed, fullStates, start)
<1>1. /\ fullFixed' = IF start = Min(rtStates) THEN free
                      ELSE FreezeUntil(free, fullStates, start)
      /\ UNCHANGED <<rtStates, fullStates, rtFixed>>
      /\ phase = "recognising" /\ ~Deferring /\ lastFreeze # 0
  BY DEF CloseLoop, Go
<1>2. fullStates = rtStates /\ rtStates # {} /\ rtStates \subseteq Id
  BY <1>1, EmptyToSet DEF StatesInv, WindowInv
<1>3. start \in rtStates /\ (start = Min(rtStates) \/ start <= lastFreeze)
  <2>. DEFINE s == BackTo(rtStates,
                          Before(rtStates, loopId[i], NumPoseGraphFrames),
                          OldEnough(Time(i)))
  <2>1. start = BackTo(rtStates, s, 1 .. lastFreeze)
    BY <1>1 DEF LoopStart
  <2>. HIDE DEF s, start
  <2>2. start \in rtStates /\ (start = Min(rtStates) \/ start \in 1 .. lastFreeze)
    BY <1>2, <2>1, BackToIs
  <2>. QED BY <2>2 DEF FreezeInv
<1>. HIDE DEF start
<1>4. /\ \A s \in rtStates : s \in Nat
      /\ IsMin(rtStates, Min(rtStates))
  BY <1>2, StatesFinite, StatesOrdered
<1>5. free = {x \in fullFixed : x < start}
  BY <1>2, <1>3 DEF UnfreezeFrom
<1>. HIDE DEF free
<1>6. CASE start = Min(rtStates)
  <2>1. free = {}
    BY <1>2, <1>4, <1>5, <1>6 DEF FullFixedInv, IsMin
  <2>. QED BY <1>1, <1>6, <2>1 DEF FullFixedInv
<1>7. CASE start # Min(rtStates)
  <2>1. FreezeUntil(free, fullStates, start) = {x \in fullStates : x <= start}
    <3>1. free \subseteq fullStates
      BY <1>5 DEF FullFixedInv
    <3>2. \A x \in free : x <= start
      BY <1>2, <1>3, <1>4, <1>5, <3>1
    <3>3. \A y \in fullStates, x \in free : y <= x => y \in free
      BY <1>2, <1>3, <1>4, <1>5, <3>1 DEF FullFixedInv
    <3>. QED BY <1>2, <1>3, <1>4, <3>1, <3>2, <3>3, FreezeAgain
  <2>. QED BY <1>1, <1>2, <1>3, <1>4, <1>7, <2>1 DEF FullFixedInv, FreezeInv
<1>. QED BY <1>6, <1>7

(* The full graph has some first states fixed, at most those.                *)
LEMMA FullFixedStep ==
  ASSUME ~EarlyClosures, WindowInv, StatesInv, FreezeInv, FullFixedInv,
         [Next]_vars
  PROVE  FullFixedInv'
<1>1. CASE AddStates
  <2>. DEFINE id == IF rtStates = {} THEN 1 ELSE Newest + 1
  <2>1. \A s \in rtStates : s \in Nat /\ s < id
    BY <1>1, NewState
  <2>2. fullStates' \subseteq fullStates \cup {id} /\ fullStates \subseteq fullStates'
        /\ UNCHANGED <<rtFixed, fullFixed>>
    BY <1>1 DEF AddStates, fixation
  <2>3. id \in Nat
    BY <1>1, NewState
  <2>4. rtFixed \subseteq rtStates
    BY DEF FreezeInv
  <2>. HIDE DEF id
  <2>. QED BY <2>1, <2>2, <2>3, <2>4 DEF FullFixedInv
<1>2. CASE OptimiseNewest
  <2>1. UNCHANGED <<rtFixed, fullStates, fullFixed>>
    BY <1>2, FreezeNewest DEF OptimiseNewest
  <2>. QED BY <2>1 DEF FullFixedInv
<1>3. CASE FreezeOldStates
  <2>1. UNCHANGED <<fullStates, fullFixed>> /\ rtFixed \subseteq rtFixed'
    BY <1>3 DEF FreezeOldStates, FreezeUntil
  <2>. QED BY <2>1 DEF FullFixedInv
<1>4. CASE EliminateImuFrame
  <2>. DEFINE s == Min(imuFrames)
  <2>1. s \in imuFrames
    BY <1>4, OldestImuFrame
  <2>2. /\ rtFixed' = rtFixed \ {s} /\ UNCHANGED fullFixed
        /\ fullStates \ {s} \subseteq fullStates' /\ fullStates' \subseteq fullStates
    BY <1>4 DEF EliminateImuFrame, Forget
  <2>. HIDE DEF s
  <2>3. s \notin rtFixed
    <3>1. s \in Nat /\ lastFreeze \in Nat /\ lastFreeze < s
      BY <2>1 DEF FreezeInv, WindowInv, Id
    <3>. QED BY <3>1 DEF FreezeInv
  <2>. QED BY <2>2, <2>3 DEF FullFixedInv
<1>5. CASE ImportFullGraph \/ FinalImport
  <2>1. fullStates' = rtStates
    BY <1>5, StatesSynchronise DEF ImportFullGraph, FinalImport
  <2>2. UNCHANGED <<rtFixed, fullFixed>>
    BY <1>5 DEF ImportFullGraph, FinalImport, Synchronise, fixation
  <2>3. rtFixed \subseteq rtStates
    BY DEF FreezeInv
  <2>4. ASSUME NEW s \in rtStates, NEW x \in fullFixed, s <= x
        PROVE  s \in fullFixed
    <3>1. s \in fullStates \/ s \in ToSet(backlog)
      BY DEF StatesInv
    <3>2. x \in fullStates
      BY DEF FullFixedInv
    <3>3. s \in ToSet(backlog) => x < s
      BY <3>2 DEF StatesInv
    <3>4. s \in Nat /\ x \in Nat
      BY <3>2 DEF StatesInv, WindowInv, Id
    <3>. QED BY <2>4, <3>1, <3>2, <3>3, <3>4 DEF FullFixedInv
  <2>. QED BY <2>1, <2>2, <2>3, <2>4 DEF FullFixedInv
<1>6. ASSUME UNCHANGED <<fullStates, rtFixed, fullFixed>> PROVE FullFixedInv'
  BY <1>6 DEF FullFixedInv
<1>7. ASSUME NEW i \in Id, CloseLoop(i) \/ ConvertKeyframe(i)
                           \/ ConvertLoopFrame(i)
      PROVE  FullFixedInv'
  <2>1. CASE CloseLoop(i)
    BY <2>1, FixedByClosure
  <2>2. CASE ConvertKeyframe(i)
    BY <2>2, <1>6 DEF ConvertKeyframe, fixation
  <2>3. CASE ConvertLoopFrame(i)
    <3>1. UNCHANGED <<fullStates, fixation>>
      BY <2>3 DEF ConvertLoopFrame
    <3>. QED BY <3>1, <1>6 DEF fixation
  <2>. QED BY <1>7, <2>1, <2>2, <2>3
<1>8. ASSUME NEW asKeyframe \in BOOLEAN, SetKeyframe(asKeyframe)
      PROVE  FullFixedInv'
  <2>1. UNCHANGED <<fullStates, fixation>>
    BY <1>8 DEF SetKeyframe
  <2>. QED BY <2>1, <1>6 DEF fixation
<1>9. CASE DoFinalBa
  <2>1. UNCHANGED <<fullStates, rtFixed>> /\ fullFixed' = {}
    BY <1>9 DEF DoFinalBa
  <2>. QED BY <2>1 DEF FullFixedInv
<1>10. CASE StartFull \/ FinishFull \/ OptimiseRealtimeGraph \/ SkipImport
            \/ Publish \/ KeepAsKeyframe \/ Eliminated \/ KeepLoopFrames
            \/ Expand \/ Stop \/ PublishImport \/ Finished \/ UNCHANGED vars
  <2>1. UNCHANGED <<fullStates, fixation>>
    BY <1>10 DEF StartFull, FinishFull, OptimiseRealtimeGraph, SkipImport,
       Publish, KeepAsKeyframe, Eliminated, KeepLoopFrames, Expand, Stop,
       PublishImport, Finished, vars
  <2>. QED BY <2>1, <1>6 DEF fixation
<1>. QED BY <1>1, <1>2, <1>3, <1>4, <1>5, <1>7, <1>8, <1>9, <1>10 DEF Next

(* ------------------------------------------------------------------------- *)
(* The states whose pose may differ in the graphs are such as the full graph *)
(* does not hold fixed, and there are none unless it is away.                *)

DifferInv ==
  /\ Deferring \/ differ = {}
  /\ differ \subseteq rtStates /\ differ \cap fullFixed = {}

(* The import copies every state that is newer than what both graphs fix.    *)
Movable == {s \in rtStates : \A x \in fullFixed \cap rtFixed : s > x}

(* So does the model of the two loops that do it.                            *)
LEMMA CopiedIs ==
  ASSUME StatesInv
  PROVE  Copied(WithoutEliminated(WithBacklog).states, fullFixed, rtFixed)
           = Movable
BY ImportedStates DEF Copied, Movable

(* What differs is copied.                                                   *)
LEMMA DifferIsCopied ==
  ASSUME WindowInv, StatesInv, FullFixedInv, DifferInv
  PROVE  differ \subseteq Movable
<1>. SUFFICES ASSUME NEW s \in differ, NEW x \in fullFixed, ~(s > x)
              PROVE  FALSE
  BY DEF Movable, DifferInv
<1>1. /\ s \in rtStates /\ s \notin fullFixed /\ x \in fullStates
      /\ s \in Nat /\ x \in Nat
  BY DEF DifferInv, FullFixedInv, StatesInv, WindowInv, Id
<1>2. s \in fullStates => s > x
  BY <1>1 DEF FullFixedInv
<1>3. s \in ToSet(backlog) => s > x
  BY <1>1 DEF StatesInv
<1>4. s \in fullStates \/ s \in ToSet(backlog)
  BY <1>1 DEF StatesInv
<1>. QED BY <1>2, <1>3, <1>4

(* Poses differ only where the full graph is, or was, being optimised.       *)
LEMMA DifferStep ==
  ASSUME FlagInv, WindowInv, StatesInv, FreezeInv, FullFixedInv, DifferInv,
         [Next]_vars
  PROVE  DifferInv' \/ phase' = "final"
<1>1. CASE AddStates
  <2>. DEFINE id == IF rtStates = {} THEN 1 ELSE Newest + 1
  <2>1. /\ \A s \in rtStates : s \in Nat /\ s < id
        /\ id \in Nat /\ rtStates' = rtStates \cup {id}
    BY <1>1, NewState
  <2>2. /\ differ' = IF Deferring THEN differ \cup {id} ELSE differ
        /\ UNCHANGED <<flags, fullFixed>>
    BY <1>1 DEF AddStates, fixation
  <2>3. id \notin fullFixed
    BY <2>1 DEF FullFixedInv, FreezeInv
  <2>. HIDE DEF id
  <2>. QED BY <2>1, <2>2, <2>3 DEF DifferInv, Deferring, flags
<1>2. ASSUME NEW i \in Id, CloseLoop(i) PROVE DifferInv'
  <2>1. ~Deferring /\ UNCHANGED <<closing, available, differ>>
    BY <1>2 DEF CloseLoop
  <2>. QED BY <2>1 DEF DifferInv, Deferring
<1>3. CASE StartFull
  <2>1. closing' = TRUE /\ UNCHANGED <<rtStates, differ, fullFixed>>
    BY <1>3 DEF StartFull, fixation
  <2>. QED BY <2>1 DEF DifferInv, Deferring
<1>4. CASE FinishFull
  <2>1. /\ available' = TRUE /\ UNCHANGED <<rtStates, fullFixed>>
        /\ differ' = differ \cup ((fullStates \ fullFixed) \cap rtStates)
    BY <1>4 DEF FinishFull, fixation
  <2>. QED BY <2>1 DEF DifferInv, Deferring
<1>5. CASE OptimiseRealtimeGraph
  <2>1. /\ differ' = IF Deferring THEN differ \cup (rtStates \ rtFixed)
                     ELSE differ \ (rtStates \ rtFixed)
        /\ UNCHANGED <<rtStates, fullFixed, flags>>
    BY <1>5 DEF OptimiseRealtimeGraph, Adopt, fixation
  <2>. QED BY <2>1 DEF DifferInv, Deferring, flags, FullFixedInv
<1>6. CASE ImportFullGraph \/ FinalImport
  <2>1. differ' = differ \ Movable
    BY <1>6, CopiedIs DEF ImportFullGraph, FinalImport, Synchronise
  <2>2. differ' = {}
    BY <2>1, DifferIsCopied
  <2>. QED BY <2>2 DEF DifferInv
<1>7. CASE EliminateImuFrame
  <2>1. /\ rtStates' = rtStates \ {Min(imuFrames)}
        /\ differ' = differ \ {Min(imuFrames)} /\ UNCHANGED <<flags, fullFixed>>
    BY <1>7 DEF EliminateImuFrame, Forget
  <2>. QED BY <2>1 DEF DifferInv, Deferring, flags
<1>8. ASSUME UNCHANGED <<flags, rtStates, differ, fullFixed>> PROVE DifferInv'
  BY <1>8 DEF DifferInv, Deferring, flags
<1>9. ASSUME NEW m \in Id, ConvertKeyframe(m) \/ ConvertLoopFrame(m)
      PROVE  DifferInv'
  <2>1. UNCHANGED <<flags, rtStates, differ, fixation>>
    BY <1>9 DEF ConvertKeyframe, ConvertLoopFrame
  <2>. QED BY <2>1, <1>8 DEF fixation
<1>10. ASSUME NEW asKeyframe \in BOOLEAN, SetKeyframe(asKeyframe)
       PROVE  DifferInv'
  <2>1. UNCHANGED <<flags, rtStates, differ, fixation>>
    BY <1>10 DEF SetKeyframe
  <2>. QED BY <2>1, <1>8 DEF fixation
<1>11. CASE OptimiseNewest \/ FreezeOldStates
  <2>1. UNCHANGED <<flags, rtStates, differ, fullFixed>>
    BY <1>11 DEF OptimiseNewest, FreezeOldStates
  <2>. QED BY <2>1, <1>8
<1>12. CASE SkipImport \/ Publish \/ KeepAsKeyframe \/ Eliminated
            \/ KeepLoopFrames \/ Expand \/ Stop \/ PublishImport \/ Finished
            \/ UNCHANGED vars
  <2>1. UNCHANGED <<flags, rtStates, differ, fixation>>
    BY <1>12 DEF SkipImport, Publish, KeepAsKeyframe, Eliminated,
       KeepLoopFrames, Expand, Stop, PublishImport, Finished, vars
  <2>. QED BY <2>1, <1>8 DEF fixation
<1>13. CASE DoFinalBa
  BY <1>13 DEF DoFinalBa, Go
<1>. QED BY <1>1, <1>2, <1>3, <1>4, <1>5, <1>6, <1>7, <1>9, <1>10, <1>11, <1>12,
            <1>13 DEF Next

(* ------------------------------------------------------------------------- *)
(* Loops.  loopId leads every state to the first state of its loop, which    *)
(* belongs to itself; no state of a closed loop leads past its start; and    *)
(* the full graph optimises with everything free after the first state of    *)
(* the loop.                                                                 *)

LoopInv ==
  /\ loopId \in [Id -> Nat] /\ fullFixed \subseteq Id
  /\ \A s \in rtStates : /\ loopId[s] \in rtStates /\ loopId[s] <= s
                         /\ loopId[loopId[s]] = loopId[s]
                         /\ loopId[s] = s \/ loopId[s] \in keyframes
  /\ \A d \in closed :
       /\ d \in Id \X Id /\ rtStates # {} /\ d[2] <= Newest
       /\ \A s \in rtStates : d[1] <= s /\ s <= d[2] => loopId[s] <= d[1]
  /\ constraints \subseteq closed /\ (constraints # {} => needs \/ closing)
  /\ \A c \in constraints :
       c[1] \in keyframes /\ \A x \in fullFixed : x <= loopId[c[1]]

(* A loop closure leaves nothing fixed in the full graph after the first     *)
(* state of the loop.                                                        *)
LEMMA ClosureFixes ==
  ASSUME WindowInv, StatesInv, LoopInv, NEW i, CloseLoop(i)
  PROVE  \A x \in fullFixed' : x \in Id /\ x <= loopId[i]
<1>. DEFINE start == LoopStart(i)
            free  == UnfreezeFrom(fullFixed, fullStates, start)
            first == Before(rtStates, loopId[i], NumPoseGraphFrames)
            old   == BackTo(rtStates, first, OldEnough(Time(i)))
<1>1. /\ fullFixed' = IF start = Min(rtStates) THEN free
                      ELSE FreezeUntil(free, fullStates, start)
      /\ ~Deferring /\ i \in poseGraphFrames
  BY DEF CloseLoop
<1>2. /\ fullStates = rtStates /\ rtStates # {} /\ rtStates \subseteq Id
      /\ i \in rtStates
  BY <1>1, EmptyToSet DEF StatesInv, WindowInv
<1>3. /\ loopId[i] \in rtStates /\ IsMin(rtStates, Min(rtStates))
      /\ \A s \in rtStates : s \in Nat
  BY <1>2, StatesOrdered, StatesFinite DEF LoopInv
<1>4. first \in rtStates /\ first <= loopId[i]
  BY <1>2, <1>3, Sizes, BeforeIs
<1>. HIDE DEF first
<1>5. old \in rtStates /\ (old = Min(rtStates) \/ old <= first)
  BY <1>2, BackToIs
<1>6. start = IF lastFreeze = 0 THEN old ELSE BackTo(rtStates, old, 1 .. lastFreeze)
  BY DEF LoopStart, first
<1>. HIDE DEF old, start
<1>7. start \in rtStates /\ (start = Min(rtStates) \/ start <= old)
  BY <1>2, <1>3, <1>5, <1>6, BackToIs
<1>8. start <= loopId[i] /\ start \in Nat /\ loopId[i] \in Nat
  BY <1>3, <1>4, <1>5, <1>7 DEF IsMin
<1>9. \A x \in free : x \in Id /\ x < start
  BY <1>2, <1>7 DEF UnfreezeFrom, LoopInv
<1>. HIDE DEF free
<1>10. \A x \in fullFixed' : x \in Id /\ x <= start
  <2>1. \A x \in free : x \in Id /\ x <= start
    BY <1>8, <1>9 DEF Id
  <2>2. \A x \in fullFixed' : x \in free \/ (x \in fullStates /\ x <= start)
    BY <1>1 DEF FreezeUntil
  <2>. QED BY <1>2, <2>1, <2>2
<1>. QED BY <1>8, <1>10 DEF Id

(* A loop that meets earlier ones takes over the id of the earliest.         *)
LEMMA LoopClose ==
  ASSUME FlagInv, WindowInv, StatesInv, LoopInv, NEW i, CloseLoop(i)
  PROVE  LoopInv'
<1>. DEFINE p == loopId[i]
<1>1. /\ loopId' = [s \in Id |-> IF s \in rtStates /\ s >= p THEN p ELSE loopId[s]]
      /\ constraints' = constraints \cup {<<i, Newest>>}
      /\ closed' = closed \cup {<<i, Newest>>} /\ needs'
      /\ UNCHANGED <<rtStates, keyframes>>
      /\ ~needs /\ ~closing /\ phase = "recognising" /\ i \in poseGraphFrames
  BY DEF CloseLoop, Attempt, LoopIds, Go, Deferring
<1>2. constraints = {}
  BY <1>1 DEF LoopInv
<1>3. /\ i \in rtStates /\ i \in keyframes /\ i \in Id /\ rtStates # {}
      /\ rtStates \subseteq Id /\ \A s \in rtStates : s \in Nat
  BY <1>1, StatesFinite DEF WindowInv
<1>4. /\ Newest \in Id /\ Newest' = Newest /\ Newest \in Nat
  BY <1>1, <1>3, NewestIs DEF Newest
<1>5. /\ p \in rtStates /\ p <= i /\ loopId[p] = p /\ p \in Nat
      /\ p \in keyframes
  BY <1>3 DEF LoopInv
<1>6. \A x \in fullFixed' : x \in Id /\ x <= p
  BY ClosureFixes
<1>. HIDE DEF p
<1>7. loopId' \in [Id -> Nat]
  BY <1>1, <1>5 DEF LoopInv
<1>8. ASSUME NEW s \in rtStates
      PROVE  /\ loopId'[s] \in rtStates /\ loopId'[s] <= s
             /\ loopId'[loopId'[s]] = loopId'[s]
             /\ loopId'[s] = s \/ loopId'[s] \in keyframes
  <2>1. CASE s >= p
    BY <1>1, <1>3, <1>5, <2>1
  <2>2. CASE ~(s >= p)
    <3>1. /\ loopId'[s] = loopId[s] /\ loopId[s] \in rtStates /\ loopId[s] <= s
          /\ loopId[loopId[s]] = loopId[s]
          /\ loopId[s] = s \/ loopId[s] \in keyframes
      BY <1>1, <1>3, <2>2 DEF LoopInv
    <3>2. ~(loopId[s] >= p)
      <4>1. s \in Nat /\ loopId[s] \in Nat /\ p \in Nat
        BY <1>3, <1>5, <3>1
      <4>. QED BY <2>2, <3>1, <4>1
    <3>3. loopId'[loopId[s]] = loopId[loopId[s]]
      BY <1>1, <1>3, <3>1, <3>2
    <3>. QED BY <3>1, <3>3
  <2>. QED BY <2>1, <2>2
<1>9. ASSUME NEW d \in closed, NEW s \in rtStates, d[1] <= s, s <= d[2]
      PROVE  loopId'[s] <= d[1]
  <2>1. loopId[s] <= d[1] /\ d[1] \in Nat /\ d[2] \in Nat
    BY <1>9 DEF LoopInv, Id
  <2>2. p <= d[1] \/ ~(s >= p)
    <3>. SUFFICES ASSUME d[1] < p, p <= s PROVE FALSE
      BY <1>3, <1>5, <2>1
    <3>1. p <= d[2] /\ d[1] <= p
      BY <1>3, <1>5, <1>9, <2>1
    <3>2. loopId[p] <= d[1]
      BY <1>5, <3>1 DEF LoopInv
    <3>. QED BY <1>5, <2>1, <3>2
  <2>. QED BY <1>1, <1>3, <2>1, <2>2
<1>10. \A s \in rtStates : i <= s => loopId'[s] <= i
  BY <1>1, <1>3, <1>5
<1>11. \A d \in closed' :
         /\ d \in Id \X Id /\ d[2] <= Newest
         /\ \A s \in rtStates : d[1] <= s /\ s <= d[2] => loopId'[s] <= d[1]
  <2>. SUFFICES ASSUME NEW d \in closed'
                PROVE  /\ d \in Id \X Id /\ d[2] <= Newest
                       /\ \A s \in rtStates : d[1] <= s /\ s <= d[2]
                                                => loopId'[s] <= d[1]
    OBVIOUS
  <2>1. CASE d \in closed
    BY <2>1, <1>9 DEF LoopInv
  <2>2. CASE d = <<i, Newest>>
    BY <2>2, <1>3, <1>4, <1>10
  <2>. QED BY <1>1, <2>1, <2>2
<1>12. loopId'[i] = p
  BY <1>1, <1>3, <1>5
<1>13. constraints' = {<<i, Newest>>}
  BY <1>1, <1>2
<1>14. fullFixed' \subseteq Id /\ \A x \in fullFixed' : x <= loopId'[i]
  BY <1>6, <1>12
<1>. QED BY <1>1, <1>3, <1>4, <1>7, <1>8, <1>11, <1>13, <1>14 DEF LoopInv

(* The states of a loop and of those it meets stay variable.                 *)
LEMMA LoopStep ==
  ASSUME FlagInv, WindowInv, StatesInv, LoopInv, [Next]_vars
  PROVE  LoopInv' \/ phase' = "final"
<1>1. CASE AddStates
  <2>. DEFINE id == IF rtStates = {} THEN 1 ELSE Newest + 1
  <2>1. /\ id \in Id /\ id \in Nat /\ \A s \in rtStates : s \in Nat /\ s < id
        /\ rtStates' = rtStates \cup {id} /\ Newest' = id
    BY <1>1, NewState
  <2>2. /\ loopId' = [loopId EXCEPT ![id] = id]
        /\ UNCHANGED <<needs, closing, keyframes, constraints, closed, fullFixed>>
    BY <1>1 DEF AddStates, flags, fixation
  <2>. HIDE DEF id
  <2>3. loopId' \in [Id -> Nat] /\ loopId'[id] = id
    BY <2>1, <2>2 DEF LoopInv
  <2>4. \A s \in rtStates : s \in Id /\ s # id /\ loopId'[s] = loopId[s]
    BY <2>1, <2>2 DEF LoopInv, WindowInv
  <2>5. \A s \in rtStates' :
          /\ loopId'[s] \in rtStates' /\ loopId'[s] <= s
          /\ loopId'[loopId'[s]] = loopId'[s]
          /\ loopId'[s] = s \/ loopId'[s] \in keyframes'
    BY <2>1, <2>2, <2>3, <2>4 DEF LoopInv
  <2>6. ASSUME NEW d \in closed'
        PROVE  /\ d \in Id \X Id /\ d[2] < id
               /\ \A s \in rtStates' : d[1] <= s /\ s <= d[2]
                                         => loopId'[s] <= d[1]
    <3>1. d \in Id \X Id /\ d[2] < id
      <4>1. d \in Id \X Id /\ d[2] <= Newest /\ rtStates # {}
        BY <2>2 DEF LoopInv
      <4>2. Newest \in Nat /\ Newest < id
        BY <2>1, <4>1, NewestIs
      <4>3. d[2] \in Nat
        BY <4>1 DEF Id
      <4>. QED BY <2>1, <4>1, <4>2, <4>3
    <3>2. ~(id <= d[2])
      BY <2>1, <3>1 DEF Id
    <3>. QED BY <2>1, <2>2, <2>4, <3>1, <3>2 DEF LoopInv
  <2>7. \A d \in closed' : d[2] <= id
    BY <2>1, <2>6 DEF Id
  <2>8. \A c \in constraints' :
          c[1] \in keyframes' /\ \A x \in fullFixed' : x <= loopId'[c[1]]
    BY <2>2, <2>4 DEF LoopInv, WindowInv
  <2>9. rtStates' # {} /\ fullFixed' \subseteq Id
    BY <2>1, <2>2 DEF LoopInv
  <2>10. constraints' \subseteq closed' /\ (constraints' # {} => needs' \/ closing')
    BY <2>2 DEF LoopInv
  <2>. QED BY <2>1, <2>3, <2>5, <2>6, <2>7, <2>8, <2>9, <2>10 DEF LoopInv
<1>2. ASSUME NEW i \in Id, CloseLoop(i) PROVE LoopInv'
  BY <1>2, LoopClose
<1>3. CASE EliminateImuFrame
  <2>. DEFINE s == Min(imuFrames)
  <2>1. /\ rtStates' = rtStates \ {s} /\ s \notin keyframes
        /\ UNCHANGED <<needs, closing, keyframes, loopId, constraints, closed,
                       fullFixed>>
    BY <1>3 DEF EliminateImuFrame, Forget, flags, places
  <2>2. Newest' = Newest /\ imuFrames' # {} /\ imuFrames' \subseteq rtStates'
    BY <1>3, StatesEliminate, OldestImuFrame, WindowEliminate DEF WindowInv
  <2>. HIDE DEF s
  <2>. QED BY <2>1, <2>2 DEF LoopInv
<1>4. ASSUME NEW asKeyframe \in BOOLEAN, SetKeyframe(asKeyframe)
      PROVE  LoopInv'
  <2>1. /\ keyframes \subseteq keyframes' /\ Newest' = Newest
        /\ UNCHANGED <<needs, closing, rtStates, loopId, constraints, closed,
                       fullFixed>>
    BY <1>4 DEF SetKeyframe, flags, fixation, Newest
  <2>. QED BY <2>1 DEF LoopInv
<1>5. CASE StartFull
  <2>1. /\ closing' = TRUE /\ Newest' = Newest
        /\ UNCHANGED <<rtStates, keyframes, loopId, constraints, closed, fullFixed>>
    BY <1>5 DEF StartFull, places, fixation, Newest
  <2>. QED BY <2>1 DEF LoopInv
<1>6. CASE FinishFull
  <2>1. /\ constraints' = {} /\ Newest' = Newest
        /\ UNCHANGED <<rtStates, keyframes, loopId, closed, fullFixed>>
    BY <1>6 DEF FinishFull, fixation, Newest
  <2>. QED BY <2>1 DEF LoopInv
<1>7. ASSUME UNCHANGED <<needs, closing, rtStates, keyframes, loopId,
                         constraints, closed, fullFixed>>
      PROVE  LoopInv'
  BY <1>7 DEF LoopInv, Newest
<1>8. ASSUME NEW m \in Id, ConvertKeyframe(m) \/ ConvertLoopFrame(m)
      PROVE  LoopInv'
  <2>1. UNCHANGED <<flags, rtStates, keyframes, loopId, constraints, closed,
                    fixation>>
    BY <1>8 DEF ConvertKeyframe, ConvertLoopFrame, places
  <2>. QED BY <2>1, <1>7 DEF flags, fixation
<1>9. CASE OptimiseNewest \/ FreezeOldStates
  <2>1. UNCHANGED <<flags, rtStates, keyframes, places, fullFixed>>
    BY <1>9 DEF OptimiseNewest, FreezeOldStates
  <2>. QED BY <2>1, <1>7 DEF flags, places
<1>10. CASE ImportFullGraph \/ FinalImport
  <2>1. UNCHANGED <<needs, closing, rtStates, keyframes, places, fixation>>
    BY <1>10 DEF ImportFullGraph, FinalImport, Synchronise
  <2>. QED BY <2>1, <1>7 DEF places, fixation
<1>11. CASE OptimiseRealtimeGraph \/ SkipImport \/ Publish \/ KeepAsKeyframe
            \/ Eliminated \/ KeepLoopFrames \/ Expand \/ Stop \/ PublishImport
            \/ Finished \/ UNCHANGED vars
  <2>1. UNCHANGED <<flags, rtStates, keyframes, places, fixation>>
    BY <1>11 DEF OptimiseRealtimeGraph, SkipImport, Publish, KeepAsKeyframe,
       Eliminated, KeepLoopFrames, Expand, Stop, PublishImport, Finished, vars
  <2>. QED BY <2>1, <1>7 DEF flags, places, fixation
<1>12. CASE DoFinalBa
  BY <1>12 DEF DoFinalBa, Go
<1>. QED BY <1>1, <1>2, <1>3, <1>4, <1>5, <1>6, <1>8, <1>9, <1>10, <1>11, <1>12
         DEF Next

(* ------------------------------------------------------------------------- *)
(* What was moved and not announced yet: along a frame's way the newest      *)
(* state and those of a loop-closure attempt, then states that the           *)
(* optimisation or the import counts as updated, and nothing after it was    *)
(* published.  The import updates the states of an attempt because none of   *)
(* them is fixed in both graphs.                                             *)

Announced == IF updatedSync # {} THEN updatedSync ELSE updated
Quiet == {"eliminating", "converting", "loops", "expanding", "idle",
          "stopping", "stopped", "final"}

ChangeInv ==
  /\ attempted \subseteq Movable
  /\ phase \notin {"deciding", "optimising"} => attempted = {}
  /\ phase \notin {"publishing", "parting"} => updatedSync = {}
  /\ phase \in {"matching", "recognising", "deciding", "optimising"}
       => changed \subseteq {Newest} \cup attempted
  /\ phase = "importing"
       => changed \cup {Newest} \subseteq updated /\ updated \subseteq Movable
  /\ phase = "publishing" => changed \cup {Newest} \subseteq Announced
  /\ phase = "parting" => changed \cup {Newest} \subseteq updatedSync
  /\ phase \in Quiet => changed = {}

(* What the realtime graph does not hold fixed is newer than all it does.    *)
LEMMA VariableIsMovable ==
  ASSUME WindowInv, FreezeInv
  PROVE  /\ rtStates \ rtFixed \subseteq Movable
         /\ rtStates # {} => Newest \in rtStates \ rtFixed
<1>1. /\ lastFreeze \in Nat /\ \A s \in rtStates : s \in Nat
      /\ rtFixed = {s \in rtStates : s <= lastFreeze}
  BY StatesFinite DEF FreezeInv, WindowInv
<1>2. rtStates \ rtFixed \subseteq Movable
  BY <1>1 DEF Movable
<1>3. rtStates # {} => Newest \in rtStates /\ Newest > lastFreeze
  BY <1>1, NewestIs DEF FreezeInv
<1>4. rtStates # {} => Newest \notin rtFixed
  BY <1>1, <1>3
<1>. QED BY <1>2, <1>3, <1>4

(* The import reports the states it moves.                                   *)
LEMMA ChangeSynchronise ==
  ASSUME WindowInv, StatesInv, FreezeInv, ChangeInv, rtStates # {}, NEW from,
         NEW to, <<from, to>> \in {<<"importing", "publishing">>,
                                   <<"stopping", "parting">>},
         Synchronise(from, to)
  PROVE  ChangeInv'
<1>1. /\ phase = from /\ phase' = to
      /\ updatedSync' = Movable /\ changed' = changed \cup Movable
      /\ UNCHANGED <<rtStates, rtFixed, fullFixed, attempted, updated>>
  BY CopiedIs DEF Synchronise, Go, fixation
<1>2. Newest \in Movable /\ Newest' = Newest /\ Movable' = Movable
  BY <1>1, VariableIsMovable DEF Newest, Movable
<1>3. phase \in Quiet \/ phase = "importing"
  BY <1>1 DEF Quiet
<1>4. changed \subseteq Movable /\ attempted = {}
  BY <1>1, <1>3 DEF ChangeInv, Quiet
<1>. QED BY <1>1, <1>2, <1>4 DEF ChangeInv, Announced, Quiet

(* What was moved is reported, or is about to be.                            *)
LEMMA ChangeStep ==
  ASSUME FlagInv, WindowInv, StatesInv, FreezeInv, LoopInv, ChangeInv,
         [Next]_vars
  PROVE  ChangeInv'
<1>. USE DEF Quiet
<1>0. phase # "idle" => rtStates # {}
  BY DEF WindowInv
<1>1. CASE AddStates
  <2>. DEFINE id == IF rtStates = {} THEN 1 ELSE Newest + 1
  <2>1. Newest' = id
    BY <1>1, NewState
  <2>2. /\ changed' = changed \cup {id}
        /\ UNCHANGED <<attempted, updated, updatedSync>>
        /\ phase = "idle" /\ phase' = "matching"
    BY <1>1 DEF AddStates, Go
  <2>. HIDE DEF id
  <2>3. attempted = {}
    BY <2>2 DEF ChangeInv
  <2>. QED BY <2>1, <2>2, <2>3 DEF ChangeInv
<1>2. ASSUME UNCHANGED <<rtStates, rtFixed, fullFixed, attempted, updated,
                         updatedSync>>,
             \/ phase' = phase /\ UNCHANGED changed
             \/ {phase, phase'} \subseteq Quiet /\ UNCHANGED changed
             \/ /\ phase \in {"matching", "recognising", "deciding"}
                /\ phase' \in {"recognising", "optimising"} /\ phase # phase'
                /\ phase = "deciding" => phase' = "optimising"
                /\ changed' \subseteq changed \cup {Newest}
      PROVE  ChangeInv'
  <2>1. Newest' = Newest /\ Movable' = Movable /\ Announced' = Announced
    BY <1>2 DEF Newest, Movable, Announced
  <2>2. CASE phase' = phase /\ UNCHANGED changed
    BY <1>2, <2>1, <2>2 DEF ChangeInv
  <2>3. CASE {phase, phase'} \subseteq Quiet /\ UNCHANGED changed
    BY <1>2, <2>1, <2>3 DEF ChangeInv
  <2>4. CASE /\ phase \in {"matching", "recognising", "deciding"}
             /\ phase' \in {"recognising", "optimising"} /\ phase # phase'
             /\ phase = "deciding" => phase' = "optimising"
             /\ changed' \subseteq changed \cup {Newest}
    BY <1>2, <2>1, <2>4 DEF ChangeInv
  <2>. QED BY <1>2, <2>2, <2>3, <2>4
<1>3. CASE OptimiseNewest
  <2>1. /\ UNCHANGED <<rtStates, fullFixed, attempted, updated, updatedSync>>
        /\ phase = "matching" /\ phase' = "recognising"
        /\ changed' = changed \cup {Newest}
    BY <1>3 DEF OptimiseNewest, Go
  <2>2. UNCHANGED rtFixed
    BY <1>3, FreezeNewest
  <2>. QED BY <2>1, <2>2, <1>2
<1>4. ASSUME NEW i \in Id, CloseLoop(i) PROVE ChangeInv'
  <2>. DEFINE moved == {s \in rtStates : s > i}
  <2>1. /\ changed' = changed \cup moved /\ attempted' = attempted \cup moved
        /\ UNCHANGED <<rtStates, rtFixed, updated, updatedSync>>
        /\ phase = "recognising" /\ phase' = "deciding" /\ i \in poseGraphFrames
    BY <1>4 DEF CloseLoop, Attempt, Go
  <2>2. i \in rtStates /\ loopId[i] \in rtStates /\ loopId[i] <= i
    BY <2>1 DEF WindowInv, LoopInv
  <2>3. \A x \in fullFixed' : x \in Nat /\ x <= i
    <3>1. \A x \in fullFixed' : x \in Id /\ x <= loopId[i]
      BY <1>4, ClosureFixes
    <3>2. loopId[i] \in Nat /\ i \in Nat
      BY <2>2, StatesFinite DEF WindowInv
    <3>. QED BY <2>2, <3>1, <3>2 DEF Id
  <2>4. moved \subseteq Movable'
    <3>1. \A s \in rtStates : s \in Nat
      BY StatesFinite DEF WindowInv
    <3>. QED BY <2>1, <2>2, <2>3, <3>1 DEF Movable
  <2>. HIDE DEF moved
  <2>5. attempted = {} /\ Newest' = Newest
    BY <2>1 DEF ChangeInv, Newest
  <2>. QED BY <2>1, <2>4, <2>5 DEF ChangeInv
<1>5. ASSUME NEW asKeyframe \in BOOLEAN, SetKeyframe(asKeyframe)
      PROVE  ChangeInv'
  <2>1. /\ UNCHANGED <<rtStates, fixation, report>>
        /\ phase \in {"recognising", "deciding"} /\ phase' = "optimising"
    BY <1>5 DEF SetKeyframe
  <2>. QED BY <2>1, <1>2 DEF fixation, report
<1>6. CASE OptimiseRealtimeGraph
  <2>. DEFINE moved == rtStates \ rtFixed
  <2>1. /\ updated' = attempted \cup moved /\ attempted' = {}
        /\ changed' = changed \cup moved
        /\ UNCHANGED <<rtStates, fixation, updatedSync>>
        /\ phase = "optimising" /\ phase' = "importing"
    BY <1>6 DEF OptimiseRealtimeGraph, Updated, Go
  <2>2. moved \subseteq Movable /\ Newest \in moved
    BY <1>0, <2>1, VariableIsMovable
  <2>3. Movable' = Movable /\ Newest' = Newest
    BY <2>1 DEF Movable, Newest, fixation
  <2>. HIDE DEF moved
  <2>. QED BY <2>1, <2>2, <2>3 DEF ChangeInv
<1>7. CASE SkipImport
  <2>1. /\ UNCHANGED <<rtStates, fixation, report>>
        /\ phase = "importing" /\ phase' = "publishing"
    BY <1>7 DEF SkipImport, Go
  <2>2. UNCHANGED <<attempted, updated, updatedSync, changed>>
    BY <2>1 DEF report
  <2>3. Newest' = Newest
    BY <2>1 DEF Newest
  <2>4. attempted = {} /\ updatedSync = {} /\ changed \cup {Newest} \subseteq updated
    BY <2>1 DEF ChangeInv
  <2>. QED BY <2>1, <2>2, <2>3, <2>4 DEF ChangeInv, Announced
<1>8. CASE ImportFullGraph \/ FinalImport
  <2>1. phase # "idle"
    BY <1>8 DEF ImportFullGraph, FinalImport, Synchronise, Go
  <2>. QED BY <1>8, <2>1, <1>0, ChangeSynchronise DEF ImportFullGraph, FinalImport
<1>9. CASE Publish \/ PublishImport
  <2>1. /\ changed' = {} /\ updatedSync' = {}
        /\ phase \in {"publishing", "parting"} /\ phase' \in {"eliminating", "stopped"}
        /\ UNCHANGED attempted
    <3>1. CASE Publish
      <4>1. /\ changed' = changed \ (Announced \cup affected)
            /\ updatedSync' = {} /\ UNCHANGED attempted
            /\ phase = "publishing" /\ phase' = "eliminating"
        BY <3>1 DEF Publish, Announced, Go
      <4>. QED BY <4>1 DEF ChangeInv
    <3>2. CASE PublishImport
      <4>1. /\ changed' = changed \ (updatedSync \cup affected)
            /\ updatedSync' = {} /\ UNCHANGED attempted
            /\ phase = "parting" /\ phase' = "stopped"
        BY <3>2 DEF PublishImport, Go
      <4>. QED BY <4>1 DEF ChangeInv
    <3>. QED BY <1>9, <3>1, <3>2
  <2>2. attempted' = {}
    BY <2>1 DEF ChangeInv
  <2>. QED BY <2>1, <2>2 DEF ChangeInv
<1>10. CASE EliminateImuFrame
  <2>1. /\ changed' = changed \ {Min(imuFrames)} /\ phase = "eliminating"
        /\ UNCHANGED <<phase, attempted, updatedSync>>
    BY <1>10 DEF EliminateImuFrame, Forget
  <2>. QED BY <2>1 DEF ChangeInv
<1>11. CASE FreezeOldStates
  <2>1. /\ phase = "converting" /\ phase' = "loops"
        /\ UNCHANGED <<changed, attempted, updatedSync>>
    BY <1>11 DEF FreezeOldStates, Go, report
  <2>. QED BY <2>1 DEF ChangeInv
<1>12. CASE DoFinalBa
  <2>1. /\ phase = "stopped" /\ phase' = "final"
        /\ changed' = {} /\ UNCHANGED <<attempted, updatedSync>>
    BY <1>12 DEF DoFinalBa, Go
  <2>. QED BY <2>1 DEF ChangeInv
<1>13. ASSUME NEW m \in Id, ConvertKeyframe(m) \/ ConvertLoopFrame(m)
       PROVE  ChangeInv'
  <2>1. UNCHANGED <<rtStates, fixation, report>>
    BY <1>13 DEF ConvertKeyframe, ConvertLoopFrame
  <2>2. {phase, phase'} \subseteq {"converting", "loops", "expanding"}
    BY <1>13 DEF ConvertKeyframe, ConvertLoopFrame
  <2>. QED BY <2>1, <2>2, <1>2 DEF fixation, report
<1>14. CASE KeepAsKeyframe \/ Eliminated \/ KeepLoopFrames \/ Expand \/ Stop
  <2>1. UNCHANGED <<rtStates, fixation, report>>
    BY <1>14 DEF KeepAsKeyframe, Eliminated, KeepLoopFrames, Expand, Stop
  <2>2. {phase, phase'} \subseteq Quiet
    BY <1>14 DEF KeepAsKeyframe, Eliminated, KeepLoopFrames, Expand, Stop, Go
  <2>. QED BY <2>1, <2>2, <1>2 DEF fixation, report
<1>15. CASE StartFull \/ FinishFull \/ Finished \/ UNCHANGED vars
  <2>1. UNCHANGED <<phase, rtStates, fixation, report>>
    BY <1>15 DEF StartFull, FinishFull, Finished, vars
  <2>. QED BY <2>1, <1>2 DEF fixation, report
<1>. QED BY <1>1, <1>3, <1>4, <1>5, <1>6, <1>7, <1>8, <1>9, <1>10, <1>11, <1>12,
            <1>13, <1>14, <1>15 DEF Next

(* ------------------------------------------------------------------------- *)
(* A keyframe is left: doWeNeedANewKeyframe makes the first frames keyframes *)
(* and applyStrategy keeps NumKeyframes of them.                             *)

KeyframeInv ==
  \/ rtStates = {}
  \/ /\ phase \in {"matching", "recognising", "deciding"}
     /\ Cardinality(rtStates) < 4
  \/ keyFrames \cup (imuFrames \cap keyframes) # {}

(* A keyframe is left after every step.                                      *)
LEMMA KeyframeStep ==
  ASSUME WindowInv, KeyframeInv, [Next]_vars
  PROVE  KeyframeInv' \/ phase' = "final"
<1>0. /\ rtStates = {} => phase = "idle"
      /\ rtStates # {} => Newest \in imuFrames
  BY NewestIs DEF WindowInv
<1>1. CASE AddStates
  <2>. DEFINE id == IF rtStates = {} THEN 1 ELSE Newest + 1
  <2>1. /\ rtStates' = rtStates \cup {id} /\ imuFrames' = imuFrames \cup {id}
        /\ UNCHANGED <<keyframes, keyFrames>>
        /\ phase = "idle" /\ phase' = "matching"
    BY <1>1 DEF AddStates, Go
  <2>. HIDE DEF id
  <2>2. CASE rtStates = {}
    <3>1. rtStates' = {id}
      BY <2>1, <2>2
    <3>2. Cardinality(rtStates') = 1
      BY <3>1, FS_Singleton
    <3>. QED BY <2>1, <3>2 DEF KeyframeInv
  <2>3. CASE rtStates # {}
    BY <2>1, <2>3 DEF KeyframeInv
  <2>. QED BY <2>2, <2>3
<1>2. ASSUME UNCHANGED rtStates,
             \/ phase \notin {"matching", "recognising", "deciding"}
             \/ phase' \in {"matching", "recognising", "deciding"},
             keyFrames \cup (imuFrames \cap keyframes)
               \subseteq keyFrames' \cup (imuFrames' \cap keyframes')
      PROVE  KeyframeInv'
  BY <1>2 DEF KeyframeInv
<1>3. CASE OptimiseNewest
  <2>1. UNCHANGED <<rtStates, keyframes, window>> /\ phase' = "recognising"
    BY <1>3 DEF OptimiseNewest, Go
  <2>. QED BY <2>1, <1>2 DEF window
<1>4. ASSUME NEW i \in Id, CloseLoop(i) PROVE KeyframeInv'
  <2>1. UNCHANGED <<rtStates, keyframes, keyFrames, imuFrames>> /\ phase' = "deciding"
    BY <1>4 DEF CloseLoop, Go
  <2>. QED BY <2>1, <1>2
<1>5. ASSUME NEW asKeyframe \in BOOLEAN, SetKeyframe(asKeyframe)
      PROVE  KeyframeInv'
  <2>1. /\ UNCHANGED <<rtStates, window>> /\ keyframes \subseteq keyframes'
        /\ Cardinality(rtStates) < 4 => Newest \in keyframes'
        /\ phase # "idle"
    BY <1>5 DEF SetKeyframe
  <2>2. UNCHANGED <<imuFrames, keyFrames>>
    BY <2>1 DEF window
  <2>. QED BY <1>0, <2>1, <2>2 DEF KeyframeInv
<1>6. ASSUME phase \notin {"matching", "recognising", "deciding"}, phase # "idle",
             rtStates' # {} => keyFrames' \cup (imuFrames' \cap keyframes') # {}
      PROVE  KeyframeInv'
  BY <1>6 DEF KeyframeInv
<1>7. CASE EliminateImuFrame
  <2>1. /\ imuFrames' = imuFrames \ {Min(imuFrames)}
        /\ Min(imuFrames) \notin keyframes
        /\ UNCHANGED <<keyframes, keyFrames>> /\ phase = "eliminating"
    BY <1>7 DEF EliminateImuFrame
  <2>. QED BY <1>0, <1>6, <2>1 DEF KeyframeInv
<1>8. ASSUME NEW m \in Id, ConvertKeyframe(m) PROVE KeyframeInv'
  <2>1. /\ Cardinality(keyFrames) > NumKeyframes /\ keyFrames' = keyFrames \ {m}
        /\ phase = "converting"
    BY <1>8 DEF ConvertKeyframe
  <2>2. keyFrames' # {}
    <3>1. keyFrames # {} /\ keyFrames # {m}
      BY <2>1, FS_EmptySet, FS_Singleton, Sizes
    <3>. QED BY <2>1, <3>1
  <2>. QED BY <2>1, <2>2, <1>6
<1>9. ASSUME NEW m \in Id, ConvertLoopFrame(m) PROVE KeyframeInv'
  <2>1. UNCHANGED <<rtStates, keyframes, keyFrames, imuFrames>> /\ phase = "loops"
    BY <1>9 DEF ConvertLoopFrame
  <2>. QED BY <2>1, <1>2
<1>10. CASE KeepAsKeyframe
  <2>1. /\ imuFrames' = imuFrames \ {Min(imuFrames)}
        /\ keyFrames' = keyFrames \cup {Min(imuFrames)}
        /\ UNCHANGED <<rtStates, keyframes>> /\ phase = "eliminating"
    BY <1>10 DEF KeepAsKeyframe
  <2>. QED BY <2>1, <1>2
<1>11. CASE ImportFullGraph \/ FinalImport
  <2>1. /\ keyFrames \subseteq keyFrames'
        /\ UNCHANGED <<rtStates, keyframes, imuFrames>>
        /\ phase \in {"importing", "stopping"}
    BY <1>11 DEF ImportFullGraph, FinalImport, Synchronise, Go
  <2>. QED BY <2>1, <1>2
<1>12. CASE Expand
  <2>1. UNCHANGED <<rtStates, keyframes, imuFrames>> /\ phase = "expanding"
    BY <1>12 DEF Expand, Go
  <2>2. keyFrames \subseteq keyFrames'
    BY <1>12, ExpandEffect
  <2>. QED BY <2>1, <2>2, <1>2
<1>13. CASE OptimiseRealtimeGraph \/ SkipImport \/ Publish \/ Eliminated
            \/ FreezeOldStates \/ KeepLoopFrames \/ Stop \/ PublishImport
  <2>1. /\ UNCHANGED <<rtStates, keyframes, window>>
        /\ phase \notin {"matching", "recognising", "deciding"}
    BY <1>13 DEF OptimiseRealtimeGraph, SkipImport, Publish, Eliminated,
       FreezeOldStates, KeepLoopFrames, Stop, PublishImport, Go
  <2>. QED BY <2>1, <1>2 DEF window
<1>14. CASE StartFull \/ FinishFull \/ Finished \/ UNCHANGED vars
  <2>1. UNCHANGED <<phase, rtStates, keyframes, window>>
    BY <1>14 DEF StartFull, FinishFull, Finished, vars
  <2>. QED BY <2>1, <1>2 DEF window
<1>15. CASE DoFinalBa
  BY <1>15 DEF DoFinalBa, Go
<1>. QED BY <1>1, <1>3, <1>4, <1>5, <1>7, <1>8, <1>9, <1>10, <1>11, <1>12,
            <1>13, <1>14, <1>15 DEF Next

(* Some keyframe is not of a loop that the full graph is closing ...         *)
FreeKeyframe ==
  \E k \in keyFrames \cup (imuFrames \cap keyframes) :
    k \notin currentLoopClosureFrames

(* ... when a frame that is no keyframe may have to refer to one: as it is   *)
(* published or eliminated.                                                  *)
KeyframeLeft ==
  phase \in {"publishing", "eliminating", "parting"}
    => currentLoopClosureFrames = {} \/ FreeKeyframe

(* With one, a frame that is no keyframe has a keyframe to refer to.         *)
LEMMA HasCandidate ==
  ASSUME WindowInv, KeyframeInv, KeyframeLeft, NEW s \in imuFrames,
         s \notin keyframes, phase \in {"publishing", "eliminating", "parting"}
  PROVE  OverlapCandidates(s, FALSE) # {}
<1>1. PICK k \in keyFrames \cup (imuFrames \cap keyframes) :
        k \notin currentLoopClosureFrames
  BY DEF KeyframeInv, KeyframeLeft, FreeKeyframe, WindowInv
<1>2. k # s /\ k \in keyframes
  BY <1>1 DEF WindowInv
<1>. QED BY <1>1, <1>2 DEF OverlapCandidates

(* ------------------------------------------------------------------------- *)
(* Only doFinalBa leads to the end, and nothing follows it.                  *)

LEMMA FinalStep ==
  ASSUME FlagInv, [Next]_vars
  PROVE  /\ phase = "final" => UNCHANGED vars
         /\ phase # "final" /\ phase' = "final" => DoFinalBa
<1>. USE DEF Go
<1>1. CASE DoFinalBa
  BY <1>1 DEF DoFinalBa
<1>2. CASE Finished \/ UNCHANGED vars
  BY <1>2 DEF Finished, vars
<1>3. ASSUME phase # "final" /\ (phase' # "final" \/ UNCHANGED phase)
      PROVE  /\ phase = "final" => UNCHANGED vars
             /\ phase # "final" /\ phase' = "final" => DoFinalBa
  BY <1>3
<1>4. CASE AddStates \/ OptimiseNewest \/ OptimiseRealtimeGraph \/ SkipImport
           \/ ImportFullGraph \/ Publish \/ FreezeOldStates \/ KeepLoopFrames
           \/ Expand \/ FinalImport \/ PublishImport
  <2>1. phase # "final" /\ phase' # "final"
    BY <1>4 DEF AddStates, OptimiseNewest, OptimiseRealtimeGraph, SkipImport,
       ImportFullGraph, Synchronise, Publish, FreezeOldStates, KeepLoopFrames,
       Expand, FinalImport, PublishImport
  <2>. QED BY <2>1, <1>3
<1>5. ASSUME NEW i \in Id, CloseLoop(i) \/ ConvertKeyframe(i)
                           \/ ConvertLoopFrame(i)
      PROVE  phase # "final" /\ phase' # "final"
  BY <1>5 DEF CloseLoop, ConvertKeyframe, ConvertLoopFrame
<1>6. ASSUME NEW asKeyframe \in BOOLEAN, SetKeyframe(asKeyframe)
      PROVE  phase # "final" /\ phase' # "final"
  BY <1>6 DEF SetKeyframe
<1>7. CASE StartFull \/ FinishFull
  BY <1>7, <1>3 DEF StartFull, FinishFull, FlagInv
<1>8. CASE KeepAsKeyframe \/ EliminateImuFrame \/ Eliminated \/ Stop
  <2>1. phase # "final" /\ phase' # "final"
    BY <1>8 DEF KeepAsKeyframe, EliminateImuFrame, Eliminated, Stop
  <2>. QED BY <2>1, <1>3
<1>. QED BY <1>1, <1>2, <1>3, <1>4, <1>5, <1>6, <1>7, <1>8 DEF Next

(* ------------------------------------------------------------------------- *)
(* The inductive invariant.  What is needed of the windows, of the loops and *)
(* of the changes is needed until doFinalBa only.                            *)

CoreInv ==
  /\ FlagInv /\ StatesInv /\ FreezeInv
  /\ phase = "final" \/ (WindowInv /\ LoopInv /\ ChangeInv)

(* Nothing is wrong at the start.                                            *)
LEMMA CoreInit == Init => CoreInv
<1>. SUFFICES ASSUME Init PROVE CoreInv
  OBVIOUS
<1>1. FlagInv
  BY DEF Init, FlagInv, Phases
<1>2. StatesInv
  BY EmptyToSet DEF Init, StatesInv, Deferring
<1>3. FreezeInv
  BY DEF Init, FreezeInv
<1>4. WindowInv
  BY DEF Init, WindowInv
<1>5. LoopInv
  BY DEF Init, LoopInv
<1>6. ChangeInv
  BY DEF Init, ChangeInv, Quiet
<1>. QED BY <1>1, <1>2, <1>3, <1>4, <1>5, <1>6 DEF CoreInv

(* Each part is kept with the help of the others.                            *)
LEMMA CoreStep ==
  ASSUME CoreInv, [Next]_vars
  PROVE  CoreInv'
<1>1. CASE phase = "final"
  <2>1. UNCHANGED vars
    BY <1>1, FinalStep DEF CoreInv
  <2>2. UNCHANGED <<phase, needs, closing, available, rtStates, fullStates,
                    rtFixed, lastFreeze, imuFrames, backlog, eliminateStates>>
    BY <2>1 DEF vars, flags, fixation, window, deferred
  <2>3. FlagInv'
    BY FlagStep DEF CoreInv
  <2>4. StatesInv'
    BY <2>2 DEF CoreInv, StatesInv, Deferring, Newest
  <2>5. FreezeInv'
    BY <2>2 DEF CoreInv, FreezeInv
  <2>. QED BY <1>1, <2>2, <2>3, <2>4, <2>5 DEF CoreInv
<1>2. CASE phase # "final"
  <2>1. FlagInv /\ WindowInv /\ StatesInv /\ FreezeInv /\ LoopInv /\ ChangeInv
    BY <1>2 DEF CoreInv
  <2>2. FlagInv' /\ StatesInv' /\ FreezeInv' /\ ChangeInv'
    BY <2>1, FlagStep, StatesStep, FreezeStep, ChangeStep
  <2>3. (WindowInv' /\ LoopInv') \/ phase' = "final"
    BY <2>1, WindowStep, LoopStep
  <2>. QED BY <2>2, <2>3 DEF CoreInv
<1>. QED BY <1>1, <1>2

(* The windows, the states of the graphs, what is frozen, the loops that are *)
(* closed and the changes that are reported are in order in every state.     *)
THEOREM CoreAlways == Spec => []CoreInv
<1>. QED BY CoreInit, CoreStep, PTL DEF Spec

(* Every state of the realtime graph is in exactly one of the sets that      *)
(* applyStrategy, addLoopClosureFrame and the import move it between.        *)
THEOREM WindowPartitioned == Spec => []WindowPartition
<1>1. CoreInv => WindowPartition
  BY DEF CoreInv, WindowInv, WindowPartition
<1>. QED BY <1>1, CoreAlways, PTL

(* While the full graph optimises a loop closure, every state of the loop,   *)
(* and of each earlier loop it falls into, is variable in it.                *)
THEOREM LoopsVariable == Spec => []LoopsStayVariable
<1>1. ASSUME CoreInv PROVE LoopsStayVariable
  <2>. SUFFICES ASSUME closing, NEW c \in constraints, NEW d \in closed,
                       d[1] <= c[1], c[1] <= d[2],
                       NEW s \in fullStates, s > d[1], s \in fullFixed
                PROVE  FALSE
    BY DEF LoopsStayVariable
  <2>1. WindowInv /\ LoopInv
    BY <1>1 DEF CoreInv, FlagInv
  <2>2. /\ c[1] \in rtStates /\ s <= loopId[c[1]]
        /\ loopId[c[1]] <= d[1]
    BY <2>1 DEF LoopInv, WindowInv
  <2>3. loopId[c[1]] \in Nat /\ s \in Nat /\ d[1] \in Nat
    <3>1. /\ d \in Id \X Id /\ s \in Id /\ c[1] \in Id
          /\ loopId \in [Id -> Nat]
      BY <2>1, <2>2 DEF LoopInv, WindowInv
    <3>. QED BY <3>1 DEF Id
  <2>. QED BY <2>2, <2>3
<1>. QED BY <1>1, CoreAlways, PTL

(* Whatever a loop-closure attempt, the optimisations or the import moved    *)
(* was announced once the frame is published.                                *)
THEOREM AllAnnounced == Spec => []ChangesAnnounced
<1>1. CoreInv => ChangesAnnounced
  BY DEF CoreInv, ChangeInv, ChangesAnnounced, Quiet
<1>. QED BY <1>1, CoreAlways, PTL

(* ------------------------------------------------------------------------- *)
(* The hypothesis that no loop is closed before anything was frozen: what    *)
(* the full graph fixes and where the poses differ.                          *)

FixedInv ==
  /\ CoreInv /\ FullFixedInv
  /\ IF phase = "final" THEN differ = {} ELSE DifferInv

(* At the start nothing is fixed and no pose differs.                        *)
LEMMA FixedInit == Init => FixedInv
<1>. SUFFICES ASSUME Init PROVE FixedInv
  OBVIOUS
<1>1. FullFixedInv /\ DifferInv /\ phase = "idle"
  BY DEF Init, FullFixedInv, DifferInv
<1>. QED BY <1>1, CoreInit DEF FixedInv

(* The two graphs stay together with respect to what is fixed and where.     *)
LEMMA FixedStep ==
  ASSUME ~EarlyClosures, FixedInv, [Next]_vars
  PROVE  FixedInv'
<1>1. CoreInv'
  BY CoreStep DEF FixedInv
<1>2. CASE phase = "final"
  <2>1. UNCHANGED <<phase, fullFixed, rtFixed, fullStates, differ>>
    BY <1>2, FinalStep DEF FixedInv, CoreInv, vars, fixation
  <2>. QED BY <1>1, <1>2, <2>1 DEF FixedInv, FullFixedInv
<1>3. CASE phase # "final"
  <2>1. /\ FlagInv /\ WindowInv /\ StatesInv /\ FreezeInv /\ FullFixedInv
        /\ DifferInv
    BY <1>3 DEF FixedInv, CoreInv
  <2>2. FullFixedInv'
    BY <2>1, FullFixedStep
  <2>3. phase' = "final" => differ' = {}
    BY <1>3, <2>1, FinalStep DEF DoFinalBa
  <2>4. phase' # "final" => DifferInv'
    BY <2>1, DifferStep
  <2>. QED BY <1>1, <2>2, <2>3, <2>4 DEF FixedInv
<1>. QED BY <1>2, <1>3

(* If no loop is closed before anything was frozen, the full graph fixes a   *)
(* first part of the states, and poses differ only beyond it.                *)
THEOREM FixedAlways == ASSUME ~EarlyClosures PROVE Spec => []FixedInv
<1>1. FixedInv /\ [Next]_vars => FixedInv'
  BY FixedStep
<1>. QED BY <1>1, FixedInit, PTL DEF Spec

(* Unless loops are closed before anything was frozen: whenever no           *)
(* full-graph optimisation is under way or waits to be imported, every state *)
(* has the same pose in both graphs.                                         *)
THEOREM PosesTakenOver == ASSUME ~EarlyClosures PROVE Spec => []PosesAgree
<1>1. FixedInv => PosesAgree
  BY DEF FixedInv, DifferInv, PosesAgree
<1>. QED BY <1>1, FixedAlways, PTL

(* Unless loops are closed before anything was frozen: the realtime graph    *)
(* fixes the states up to lastFreeze, the full graph some first ones of      *)
(* these.                                                                    *)
THEOREM FixedOldest == ASSUME ~EarlyClosures PROVE Spec => []FixedAreOldest
<1>1. FixedInv => FixedAreOldest
  BY DEF FixedInv, CoreInv, FreezeInv, FullFixedInv, FixedAreOldest
<1>. QED BY <1>1, FixedAlways, PTL

(* ------------------------------------------------------------------------- *)
(* The assertions.  expandKeyframe is only called for frames of the window:  *)
(* the links it is called for do not lead to IMU frames.                     *)

IsSound(g) ==
  /\ g = [links |-> g.links, key |-> g.key, loop |-> g.loop,
          poseGraph |-> g.poseGraph, good |-> g.good]
  /\ g.good
  /\ \A l \in g.links : l \cap imuFrames = {}

(* The expansion starts from the window as it is.                            *)
LEMMA WindowSound == WindowInv => IsSound(WindowGraph)
BY DEF IsSound, WindowGraph, WindowInv

(* Expanding a keyframe or a loop-closure frame meets no assertion.          *)
LEMMA ExpandedSound ==
  ASSUME NEW g, IsSound(g), NEW s, s \notin imuFrames, s \in g.key \cup g.loop,
         NEW h, h = Expanded(g, s)
  PROVE  IsSound(h)
<1>. DEFINE to == {x \in Id : {s, x} \in g.links}
            e  == [links     |-> {l \in g.links : s \notin l},
                   key       |-> g.key \cup ((to \cap g.poseGraph) \ g.loop),
                   loop      |-> g.loop,
                   poseGraph |-> g.poseGraph \ to,
                   good      |-> g.good /\ (s \notin imuFrames
                                            /\ s \in g.key \cup g.loop)]
<1>1. h = e
  BY DEF Expanded
<1>2. IsSound(e)
  <2>. HIDE DEF to
  <2>1. e.good
    BY Zenon DEF IsSound
  <2>2. e.links = {l \in g.links : s \notin l}
    OBVIOUS
  <2>3. e = [links |-> e.links, key |-> e.key, loop |-> e.loop,
             poseGraph |-> e.poseGraph, good |-> e.good]
    OBVIOUS
  <2>. HIDE DEF e
  <2>. QED BY <2>1, <2>2, <2>3 DEF IsSound
<1>. HIDE DEF e
<1>. QED BY <1>1, <1>2

(* Setting one field of such a record.                                       *)
LEMMA KeyChanged ==
  ASSUME NEW g, g = [links |-> g.links, key |-> g.key, loop |-> g.loop,
                     poseGraph |-> g.poseGraph, good |-> g.good],
         NEW key, NEW h, h = [g EXCEPT !.key = key]
  PROVE  h = [links |-> g.links, key |-> key, loop |-> g.loop,
              poseGraph |-> g.poseGraph, good |-> g.good]
BY Zenon

(* Nor does the turn of doFinalBa for one state.                             *)
LEMMA ReenterSound ==
  ASSUME NEW g, IsSound(g), NEW s, NEW h, h = Reenter(g, s)
  PROVE  IsSound(h)
<1>. DEFINE frames == g.key \cup {s}
            entered == [g EXCEPT !.key = frames]
            inside == IF s \in g.loop THEN g ELSE entered
<1>1. h = IF s \in fullStates /\ \E l \in g.links : s \in l
            THEN Expanded(inside, s) ELSE g
  BY Zenon DEF Reenter
<1>2. g = [links |-> g.links, key |-> g.key, loop |-> g.loop,
           poseGraph |-> g.poseGraph, good |-> g.good]
  BY DEF IsSound
<1>3. entered = [links |-> g.links, key |-> frames, loop |-> g.loop,
                 poseGraph |-> g.poseGraph, good |-> g.good]
  BY <1>2, KeyChanged
<1>. HIDE DEF entered
<1>4. /\ IsSound(entered) /\ s \in entered.key
  <2>1. /\ entered.links = g.links /\ entered.key = frames
        /\ entered.loop = g.loop /\ entered.poseGraph = g.poseGraph
    BY <1>3
  <2>2. entered.good = g.good
    BY <1>3, Zenon
  <2>3. g.good /\ \A l \in g.links : l \cap imuFrames = {}
    BY DEF IsSound
  <2>. QED BY <1>3, <2>1, <2>2, <2>3, Zenon DEF IsSound
<1>5. IsSound(inside) /\ s \in inside.key \cup inside.loop
  BY <1>4
<1>. HIDE DEF inside
<1>6. (\E l \in g.links : s \in l) => s \notin imuFrames
  BY DEF IsSound
<1>. QED BY <1>1, <1>5, <1>6, ExpandedSound

(* doFinalBa's walk over the states is well defined.                         *)
Walk(f, n) ==
  f = [s \in 0 .. n |-> IF s = 0 THEN WindowGraph ELSE Reenter(f[s - 1], s)]

(* By a least state at which it would not be.                                *)
LEMMA WalkExists ==
  ASSUME NEW n \in Nat
  PROVE  \E f : Walk(f, n)
<1>. DEFINE stuck == {m \in Nat : ~ \E f : Walk(f, m)}
<1>. SUFFICES ASSUME stuck # {} PROVE FALSE
  OBVIOUS
<1>1. PICK m \in stuck : \A x \in stuck : m <= x
  BY NatsHaveMin DEF HasMin, IsMin
<1>2. CASE m = 0
  <2>1. Walk([s \in 0 .. 0 |-> WindowGraph], 0)
    BY DEF Walk
  <2>. QED BY <1>2, <2>1
<1>3. CASE m # 0
  <2>1. m - 1 \in Nat /\ m - 1 \notin stuck
    BY <1>1, <1>3
  <2>2. PICK f : Walk(f, m - 1)
    BY <2>1
  <2>. DEFINE h == [s \in 0 .. m |-> IF s = m THEN Reenter(f[m - 1], m) ELSE f[s]]
  <2>3. Walk(h, m)
    <3>1. ASSUME NEW s \in 0 .. m
          PROVE  h[s] = IF s = 0 THEN WindowGraph ELSE Reenter(h[s - 1], s)
      <4>1. CASE s = m
        <5>1. h[s - 1] = f[m - 1]
          BY <1>3, <4>1
        <5>. QED BY <1>3, <4>1, <5>1
      <4>2. CASE s # m
        <5>1. s \in 0 .. (m - 1) /\ h[s] = f[s]
          BY <4>2
        <5>2. f[s] = IF s = 0 THEN WindowGraph ELSE Reenter(f[s - 1], s)
          BY <2>2, <5>1 DEF Walk
        <5>3. s # 0 => h[s - 1] = f[s - 1]
          BY <4>2
        <5>. QED BY <5>1, <5>2, <5>3
      <4>. QED BY <4>1, <4>2
    <3>2. h = [s \in 0 .. m |-> h[s]]
      OBVIOUS
    <3>. HIDE DEF h
    <3>. QED BY <3>1, <3>2 DEF Walk
  <2>. QED BY <1>1, <2>3
<1>. QED BY <1>2, <1>3

(* Hence nor does the whole walk of doFinalBa.                               *)
LEMMA AllExpandedSound == WindowInv => IsSound(AllExpanded)
<1>. SUFFICES ASSUME WindowInv PROVE IsSound(AllExpanded)
  OBVIOUS
<1>. DEFINE upTo == CHOOSE f : Walk(f, MaxFrames)
<1>1. AllExpanded = upTo[MaxFrames]
  BY DEF AllExpanded, Walk
<1>2. Walk(upTo, MaxFrames)
  BY WalkExists, Sizes
<1>. HIDE DEF upTo
<1>. DEFINE unsound == {s \in 0 .. MaxFrames : ~ IsSound(upTo[s])}
<1>. SUFFICES ASSUME unsound # {} PROVE FALSE
  BY <1>1, Sizes
<1>3. PICK m \in unsound : \A x \in unsound : m <= x
  <2>1. \A s \in unsound : s \in Nat
    OBVIOUS
  <2>. HIDE DEF unsound
  <2>. QED BY <2>1, NatsHaveMin DEF HasMin, IsMin
<1>4. upTo[m] = IF m = 0 THEN WindowGraph ELSE Reenter(upTo[m - 1], m)
  BY <1>2 DEF Walk
<1>5. m # 0 => IsSound(upTo[m - 1])
  BY <1>3, Sizes
<1>. QED BY <1>3, <1>4, <1>5, WindowSound, ReenterSound

(* Frames without links are passed over.                                     *)
LEMMA ExpandIfLinkedSound ==
  ASSUME NEW g, IsSound(g), NEW s, s \in imuFrames \cup g.key \cup g.loop,
         NEW h, h = ExpandIfLinked(g, s)
  PROVE  IsSound(h)
<1>1. (\E l \in g.links : s \in l) => s \notin imuFrames
  BY DEF IsSound
<1>. QED BY <1>1, ExpandedSound DEF ExpandIfLinked

(* The expansion of applyStrategy throws nothing.                            *)
LEMMA ExpandSound ==
  ASSUME WindowInv, Expand, failed = "none"
  PROVE  failed' = "none"
<1>1. ASSUME NEW g, IsSound(g), Adjust(g) PROVE failed' = "none"
  BY <1>1 DEF Adjust, Check, IsSound
<1>2. \/ \E k \in MostOverlapped(Newest) :
           \/ Adjust(ExpandIfLinked(WindowGraph, k))
           \/ \E l \in loopClosureFrames :
                Adjust(ExpandIfLinked(ExpandIfLinked(WindowGraph, k), l))
      \/ UNCHANGED failed
  BY DEF Expand
<1>3. IsSound(WindowGraph) /\ IsGraph(WindowGraph)
  BY WindowSound DEF IsGraph, WindowGraph, WindowInv
<1>4. ASSUME NEW k \in MostOverlapped(Newest), NEW g,
             g = ExpandIfLinked(WindowGraph, k)
      PROVE  IsSound(g) /\ g.loop = loopClosureFrames
  <2>1. k \in imuFrames \cup WindowGraph.key \cup WindowGraph.loop
    BY DEF MostOverlapped, OverlapCandidates, WindowGraph
  <2>2. IsSound(g)
    BY <1>3, <1>4, <2>1, ExpandIfLinkedSound
  <2>3. IsGraph(g)
    BY <1>3, <1>4, ExpandKeeps
  <2>. QED BY <2>2, <2>3 DEF IsGraph
<1>5. ASSUME NEW k \in MostOverlapped(Newest), NEW l \in loopClosureFrames
      PROVE  IsSound(ExpandIfLinked(ExpandIfLinked(WindowGraph, k), l))
  BY <1>4, ExpandIfLinkedSound
<1>. QED BY <1>1, <1>2, <1>4, <1>5

(* doFinalBa throws nothing.                                                 *)
LEMMA FinalBaSound ==
  ASSUME WindowInv, DoFinalBa, failed = "none"
  PROVE  failed' = "none"
<1>. DEFINE key == AllExpanded.key \cup loopClosureFrames
            g   == [AllExpanded EXCEPT !.key = key]
<1>1. Check(g.good, "must be keyframe")
  BY Zenon DEF DoFinalBa, Adjust
<1>2. IsSound(AllExpanded)
  BY AllExpandedSound
<1>3. AllExpanded = [links |-> AllExpanded.links, key |-> AllExpanded.key,
                     loop |-> AllExpanded.loop,
                     poseGraph |-> AllExpanded.poseGraph,
                     good |-> AllExpanded.good]
  BY <1>2, Zenon DEF IsSound
<1>4. g = [links |-> AllExpanded.links, key |-> key, loop |-> AllExpanded.loop,
           poseGraph |-> AllExpanded.poseGraph, good |-> AllExpanded.good]
  BY <1>3, KeyChanged
<1>. HIDE DEF g
<1>5. g.good = AllExpanded.good
  BY <1>4, Zenon
<1>6. AllExpanded.good
  BY <1>2, Zenon DEF IsSound
<1>. QED BY <1>1, <1>5, <1>6, Zenon DEF Check

(* The import stops at the same state in both graphs, finds every state, and *)
(* leaves the same states in both.                                           *)
LEMMA SynchroniseSound ==
  ASSUME WindowInv, StatesInv, FullFixedInv, DifferInv, NEW from, NEW to,
         Synchronise(from, to), failed = "none"
  PROVE  failed' = "none"
<1>. DEFINE both == fullFixed \cap rtFixed
<1>1. failed' = IF ~ Movable \subseteq rtStates THEN "state not present"
                ELSE IF both # {} /\ Max(both) \in differ THEN "O-O"
                ELSE IF rtStates # rtStates THEN "inconsistent states"
                ELSE failed
  BY CopiedIs, ImportedStates DEF Synchronise
<1>2. Movable \subseteq rtStates
  BY DEF Movable
<1>3. both # {} => Max(both) \notin differ
  <2>1. both \subseteq Id /\ both \cap differ = {}
    BY DEF FullFixedInv, StatesInv, DifferInv
  <2>. HIDE DEF both
  <2>2. both # {} => Max(both) \in both
    BY <2>1, StatesOrdered DEF IsMax
  <2>. QED BY <2>1, <2>2
<1>. HIDE DEF both
<1>. QED BY <1>1, <1>2, <1>3

(* A keyframe is left in every state, to the end.                            *)
KeyframesInv == CoreInv /\ (phase = "final" \/ KeyframeInv)

(* In every state a keyframe is left, once there were four frames.           *)
THEOREM KeyframesAlways == Spec => []KeyframesInv
<1>1. Init => KeyframesInv
  BY CoreInit DEF Init, KeyframesInv, KeyframeInv
<1>2. ASSUME KeyframesInv, [Next]_vars PROVE KeyframesInv'
  <2>1. CoreInv'
    BY <1>2, CoreStep DEF KeyframesInv
  <2>2. CASE phase = "final"
    BY <1>2, <2>1, <2>2, FinalStep DEF KeyframesInv, CoreInv, vars
  <2>3. CASE phase # "final"
    BY <1>2, <2>1, <2>3, KeyframeStep DEF KeyframesInv, CoreInv
  <2>. QED BY <2>2, <2>3
<1>. QED BY <1>1, <1>2, PTL DEF Spec

(* A step throws nothing: each exception with the part that excludes it.     *)
LEMMA SoundStep ==
  ASSUME FixedInv, KeyframesInv, KeyframeLeft, failed = "none", [Next]_vars
  PROVE  failed' = "none"
<1>1. CASE phase = "final"
  BY <1>1, FinalStep DEF FixedInv, CoreInv, vars
<1>2. CASE phase # "final"
  <2>1. /\ FlagInv /\ WindowInv /\ StatesInv /\ FreezeInv /\ ChangeInv
        /\ FullFixedInv /\ DifferInv /\ KeyframeInv
    BY <1>2 DEF FixedInv, KeyframesInv, CoreInv
  <2>2. CASE ImportFullGraph \/ FinalImport
    BY <2>1, <2>2, SynchroniseSound DEF ImportFullGraph, FinalImport
  <2>3. CASE Publish
    <3>1. phase = "publishing" /\ Check(Newest \in Announced \cup affected,
                                        "current state not announced")
      BY <2>3 DEF Publish, Announced, Go
    <3>. QED BY <2>1, <3>1 DEF ChangeInv, Check
  <2>4. CASE PublishImport
    <3>1. phase = "parting" /\ Check(Newest \in updatedSync \cup affected,
                                     "current state not announced")
      BY <2>4 DEF PublishImport, Go
    <3>. QED BY <2>1, <3>1 DEF ChangeInv, Check
  <2>5. CASE EliminateImuFrame
    <3>. DEFINE s == Min(imuFrames)
    <3>1. s \in imuFrames /\ phase = "eliminating"
      BY <2>1, <2>5, OldestImuFrame
    <3>2. /\ s \notin keyframes
          /\ failed' = IF OverlapCandidates(s, FALSE) = {} THEN "no keyframe!"
                       ELSE IF s \in loopClosureFrames THEN "bug" ELSE failed
      BY <2>5 DEF EliminateImuFrame
    <3>. HIDE DEF s
    <3>3. OverlapCandidates(s, FALSE) # {}
      BY <2>1, <3>1, <3>2, HasCandidate
    <3>4. s \notin loopClosureFrames
      BY <2>1, <3>1 DEF WindowInv
    <3>. QED BY <3>2, <3>3, <3>4
  <2>6. CASE Expand
    BY <2>1, <2>6, ExpandSound
  <2>7. CASE DoFinalBa
    BY <2>1, <2>7, FinalBaSound
  <2>8. ASSUME NEW i \in Id, CloseLoop(i) \/ ConvertKeyframe(i)
                             \/ ConvertLoopFrame(i)
        PROVE  failed' = "none"
    BY <2>8 DEF CloseLoop, ConvertKeyframe, ConvertLoopFrame
  <2>9. ASSUME NEW asKeyframe \in BOOLEAN, SetKeyframe(asKeyframe)
        PROVE  failed' = "none"
    BY <2>9 DEF SetKeyframe
  <2>10. CASE AddStates \/ OptimiseNewest \/ StartFull \/ FinishFull
              \/ OptimiseRealtimeGraph \/ SkipImport \/ KeepAsKeyframe
              \/ Eliminated \/ FreezeOldStates \/ KeepLoopFrames \/ Stop
              \/ Finished \/ UNCHANGED vars
    <3>1. UNCHANGED failed
      BY <2>10 DEF AddStates, OptimiseNewest, StartFull, FinishFull,
         OptimiseRealtimeGraph, SkipImport, KeepAsKeyframe, Eliminated,
         FreezeOldStates, KeepLoopFrames, Stop, Finished, vars
    <3>. QED BY <3>1
  <2>. QED BY <2>2, <2>3, <2>4, <2>5, <2>6, <2>7, <2>8, <2>9, <2>10 DEF Next
<1>. QED BY <1>1, <1>2

(* None of the exceptions is thrown, if no loop is closed before anything    *)
(* was frozen and some keyframe belongs to no loop being closed whenever a   *)
(* frame may have to refer to one.                                           *)
THEOREM AssertionsHold ==
  ASSUME ~EarlyClosures
  PROVE  Spec /\ []KeyframeLeft => []NoAssertionFails
<1>1. Init => NoAssertionFails
  BY DEF Init, NoAssertionFails
<1>2. FixedInv /\ KeyframesInv /\ KeyframeLeft /\ NoAssertionFails /\ [Next]_vars
        => NoAssertionFails'
  BY SoundStep DEF NoAssertionFails
<1>. QED BY <1>1, <1>2, FixedAlways, KeyframesAlways, PTL DEF Spec

(* ------------------------------------------------------------------------- *)
(* The trajectory.                                                           *)

LEMMA TellNewest ==
  ASSUME WindowInv, KeyframeInv, KeyframeLeft, TrajectoryComplete, Tell,
         rtStates # {}, phase \in {"publishing", "parting"}
  PROVE  trajectory \subseteq trajectory' /\ Newest \in trajectory'
<1>1. CASE Newest \in keyframes
  BY <1>1 DEF Tell
<1>2. CASE Newest \notin keyframes
  <2>1. OverlapCandidates(Newest, FALSE) # {}
    BY <1>2, NewestIs, HasCandidate
  <2>2. PICK k \in OverlapCandidates(Newest, FALSE) \cup {0} :
          /\ k = 0 => OverlapCandidates(Newest, FALSE) = {}
          /\ trajectory' = IF KeyframeKnown(k) THEN trajectory \cup {Newest}
                                            ELSE trajectory
    BY <1>2 DEF Tell
  <2>3. k \in keyframes /\ k # Newest
    BY <2>1, <2>2 DEF OverlapCandidates
  <2>4. k \in Id /\ k \in Nat /\ Newest \in Nat /\ k <= Newest
    BY <2>3, NewestIs DEF WindowInv
  <2>5. k \in trajectory
    BY <2>3, <2>4 DEF TrajectoryComplete
  <2>. QED BY <2>2, <2>3, <2>5 DEF KeyframeKnown
<1>. QED BY <1>1, <1>2

(* A published frame stays known, with a keyframe to refer to.               *)
LEMMA TrajectoryStep ==
  ASSUME KeyframesInv, KeyframeLeft, TrajectoryComplete, [Next]_vars
  PROVE  TrajectoryComplete'
<1>1. CASE phase = "final"
  <2>1. UNCHANGED <<phase, rtStates, trajectory>>
    BY <1>1, FinalStep DEF KeyframesInv, CoreInv, vars, report
  <2>. QED BY <2>1 DEF TrajectoryComplete, Newest
<1>2. CASE phase # "final"
  <2>1. WindowInv /\ StatesInv /\ KeyframeInv
    BY <1>2 DEF KeyframesInv, CoreInv
  <2>2. phase # "idle" => rtStates # {}
    BY <2>1 DEF WindowInv
  <2>. DEFINE Underway == {"matching", "recognising", "deciding", "optimising",
                           "importing", "publishing"}
  <2>3. ASSUME UNCHANGED <<rtStates, trajectory>>,
               phase \notin Underway \/ phase' \in Underway
        PROVE  TrajectoryComplete'
    BY <2>3 DEF TrajectoryComplete, Newest
  <2>4. CASE AddStates
    <3>. DEFINE id == IF rtStates = {} THEN 1 ELSE Newest + 1
    <3>1. /\ Newest' = id /\ phase = "idle" /\ phase' = "matching"
          /\ UNCHANGED trajectory
      BY <2>1, <2>4, NewState DEF AddStates, Go
    <3>2. ASSUME NEW s \in Id PROVE s > id \/ s = id \/ s \in trajectory
      <4>1. s \in Nat /\ s >= 1
        BY DEF Id
      <4>2. CASE rtStates = {}
        BY <4>1, <4>2
      <4>3. CASE rtStates # {}
        <5>1. s > Newest \/ s \in trajectory
          BY <3>1, <4>3 DEF TrajectoryComplete
        <5>. QED BY <2>1, <4>1, <4>3, <5>1, NewestIs
      <4>. QED BY <4>2, <4>3
    <3>. HIDE DEF id
    <3>. QED BY <3>1, <3>2 DEF TrajectoryComplete
  <2>5. CASE EliminateImuFrame
    <3>1. UNCHANGED <<phase, trajectory>> /\ Newest' = Newest /\ rtStates # {}
      BY <2>1, <2>2, <2>5, StatesEliminate DEF EliminateImuFrame
    <3>. QED BY <3>1 DEF TrajectoryComplete
  <2>6. CASE Publish \/ PublishImport
    <3>1. Tell /\ UNCHANGED rtStates /\ phase \in {"publishing", "parting"}
      BY <2>6 DEF Publish, PublishImport, Go
    <3>2. trajectory \subseteq trajectory' /\ Newest \in trajectory'
          /\ Newest' = Newest
      BY <2>1, <2>2, <3>1, TellNewest DEF Newest
    <3>. QED BY <3>1, <3>2 DEF TrajectoryComplete
  <2>7. CASE OptimiseNewest \/ OptimiseRealtimeGraph \/ SkipImport
             \/ FreezeOldStates \/ KeepLoopFrames \/ Expand
    <3>1. UNCHANGED <<rtStates, trajectory>>
      BY <2>7 DEF OptimiseNewest, OptimiseRealtimeGraph, SkipImport,
         FreezeOldStates, KeepLoopFrames, Expand, report
    <3>2. phase \notin Underway \/ phase' \in Underway
      BY <2>7 DEF OptimiseNewest, OptimiseRealtimeGraph, SkipImport,
         FreezeOldStates, KeepLoopFrames, Expand, Go
    <3>. QED BY <2>3, <3>1, <3>2
  <2>8. CASE ImportFullGraph \/ FinalImport
    <3>1. /\ UNCHANGED <<rtStates, trajectory>>
          /\ phase = "stopping" \/ phase' = "publishing"
      BY <2>8 DEF ImportFullGraph, FinalImport, Synchronise, Go
    <3>. QED BY <2>3, <3>1
  <2>9. ASSUME NEW i \in Id, CloseLoop(i) \/ ConvertKeyframe(i)
                             \/ ConvertLoopFrame(i)
        PROVE  TrajectoryComplete'
    <3>1. UNCHANGED <<rtStates, trajectory>>
      BY <2>9 DEF CloseLoop, ConvertKeyframe, ConvertLoopFrame, report
    <3>2. phase \notin Underway \/ phase' \in Underway
      BY <2>9 DEF CloseLoop, ConvertKeyframe, ConvertLoopFrame, Go
    <3>. QED BY <2>3, <3>1, <3>2
  <2>10. ASSUME NEW asKeyframe \in BOOLEAN, SetKeyframe(asKeyframe)
         PROVE  TrajectoryComplete'
    <3>1. UNCHANGED <<rtStates, trajectory>> /\ phase' \in Underway
      BY <2>10 DEF SetKeyframe, report
    <3>. QED BY <2>3, <3>1
  <2>11. CASE KeepAsKeyframe \/ Eliminated \/ Stop
    <3>1. UNCHANGED <<rtStates, trajectory>> /\ phase \notin Underway
      BY <2>11 DEF KeepAsKeyframe, Eliminated, Stop, report
    <3>. QED BY <2>3, <3>1
  <2>12. CASE StartFull \/ FinishFull \/ Finished \/ UNCHANGED vars
    <3>1. UNCHANGED <<phase, rtStates, trajectory>>
      BY <2>12 DEF StartFull, FinishFull, Finished, vars, report
    <3>. QED BY <2>3, <3>1
  <2>13. CASE DoFinalBa
    <3>1. UNCHANGED <<rtStates, trajectory>> /\ phase = "stopped"
      BY <2>13 DEF DoFinalBa, Go
    <3>. QED BY <2>3, <3>1
  <2>. QED BY <2>4, <2>5, <2>6, <2>7, <2>8, <2>9, <2>10, <2>11, <2>12, <2>13
           DEF Next
<1>. QED BY <1>1, <1>2

(* Every frame that was published can be asked for by its id, if some        *)
(* keyframe belongs to no loop being closed: without one, a frame would have *)
(* no keyframe to be stored with.                                            *)
THEOREM AllFramesKnown == Spec /\ []KeyframeLeft => []TrajectoryComplete
<1>1. Init => TrajectoryComplete
  BY DEF Init, TrajectoryComplete
<1>2. KeyframesInv /\ KeyframeLeft /\ TrajectoryComplete /\ [Next]_vars
        => TrajectoryComplete'
  BY TrajectoryStep
<1>. QED BY <1>1, <1>2, KeyframesAlways, PTL DEF Spec

(* ------------------------------------------------------------------------- *)
(* If at most one frame comes while the full graph is being optimised, some  *)
(* keyframe is always left: the frames of the loop become keyframes again    *)
(* only as the frame that closed it leaves, the next frame is the first to   *)
(* push other keyframes out, and the one after that imports the result.      *)

Matching == {"matching", "recognising", "deciding", "optimising", "importing"}
Leaving  == {"publishing", "eliminating"}

LoopFramesLeave ==
  \/ /\ backlog = <<>> /\ phase \notin {"idle", "stopping"}
     /\ keyFrames \cap currentLoopClosureFrames = {}
  \/ backlog = <<>> /\ phase \in {"idle", "stopping"} /\ FreeKeyframe
  \/ Len(backlog) = 1 /\ phase \in Matching \cup Leaving /\ FreeKeyframe
  \/ Len(backlog) = 1 /\ phase \notin Matching \cup Leaving
  \/ Len(backlog) > 1 /\ phase \in Matching /\ ~closing

LoopFramesInv ==
  /\ currentLoopClosureFrames \subseteq rtStates \ imuFrames
  /\ currentLoopClosureFrames # {} => (needs \/ Deferring) /\ LoopFramesLeave

(* A keyframe that is free stays free while nothing leaves the keyframes.    *)
LEMMA FreeKeyframeStays ==
  ASSUME FreeKeyframe, UNCHANGED currentLoopClosureFrames,
         keyFrames \cup (imuFrames \cap keyframes)
           \subseteq keyFrames' \cup (imuFrames' \cap keyframes')
  PROVE  FreeKeyframe'
<1>. QED BY DEF FreeKeyframe

(* The frame that closed the loop leaves a free keyframe: none of the loop   *)
(* is a keyframe until then.                                                 *)
LEMMA FreeKeyframeBefore ==
  ASSUME KeyframeInv, WindowInv, LoopFramesInv, phase \notin Matching \cup {"idle"},
         keyFrames \cap currentLoopClosureFrames = {}
  PROVE  FreeKeyframe
<1>1. rtStates # {} => keyFrames \cup (imuFrames \cap keyframes) # {}
  BY DEF KeyframeInv, Matching
<1>2. rtStates # {}
  BY DEF WindowInv
<1>. QED BY <1>1, <1>2 DEF FreeKeyframe, LoopFramesInv

(* Loop frames leave the keyframes a free one after every step.              *)
LEMMA LoopFramesStep ==
  ASSUME MaxBacklog <= 1, FlagInv, WindowInv, StatesInv, KeyframeInv,
         LoopFramesInv, phase # "final", [Next]_vars
  PROVE  LoopFramesInv'
<1>. DEFINE current == currentLoopClosureFrames
<1>0. /\ current \subseteq rtStates \ imuFrames
      /\ current # {} => (needs \/ Deferring) /\ LoopFramesLeave
      /\ backlog \in Seq(Id) /\ Len(backlog) \in Nat
      /\ ~Deferring => backlog = <<>>
      /\ backlog = <<>> => Len(backlog) = 0
      /\ needs => phase \in {"deciding", "optimising"} /\ ~Deferring
      /\ ~(closing /\ available)
  BY DEF LoopFramesInv, StatesInv, FlagInv, Deferring
<1>1. ASSUME current' = {} PROVE LoopFramesInv'
  BY <1>1 DEF LoopFramesInv
<1>2. ASSUME UNCHANGED <<rtStates, imuFrames, currentLoopClosureFrames,
                         keyFrames, backlog>>,
             keyframes \subseteq keyframes',
             needs \/ Deferring => needs' \/ Deferring', closing' => closing \/ needs,
             \/ phase' = phase
             \/ phase \in Matching /\ phase' \in Matching
             \/ phase \in Leaving /\ phase' \in Leaving
             \/ phase \in Leaving /\ phase' = "converting"
             \/ {phase, phase'} \subseteq {"converting", "loops", "expanding"}
             \/ phase = "importing" /\ phase' = "publishing" /\ ~available
             \/ phase = "eliminating" /\ phase' = "idle"
             \/ phase = "idle" /\ phase' = "stopping"
      PROVE  LoopFramesInv'
  <2>1. current' = current /\ current' \subseteq rtStates' \ imuFrames'
    BY <1>0, <1>2
  <2>2. SUFFICES ASSUME current # {} PROVE LoopFramesLeave'
    BY <1>0, <1>2, <2>1 DEF LoopFramesInv
  <2>3. needs \/ Deferring
    BY <1>0, <2>2
  <2>4. FreeKeyframe => FreeKeyframe'
    BY <1>2, FreeKeyframeStays
  <2>5. CASE /\ backlog = <<>> /\ phase \notin {"idle", "stopping"}
             /\ keyFrames \cap current = {}
    <3>1. phase \notin Matching => FreeKeyframe
      BY <2>5, FreeKeyframeBefore
    <3>. QED BY <1>2, <2>4, <2>5, <3>1 DEF LoopFramesLeave, Matching, Leaving
  <2>6. CASE backlog = <<>> /\ phase \in {"idle", "stopping"} /\ FreeKeyframe
    BY <1>2, <2>4, <2>6 DEF LoopFramesLeave, Matching, Leaving
  <2>7. CASE Len(backlog) = 1 /\ phase \in Matching \cup Leaving /\ FreeKeyframe
    BY <1>2, <2>4, <2>7 DEF LoopFramesLeave, Matching, Leaving
  <2>8. CASE Len(backlog) = 1 /\ phase \notin Matching \cup Leaving
    BY <1>2, <2>8 DEF LoopFramesLeave, Matching, Leaving
  <2>9. CASE Len(backlog) > 1 /\ phase \in Matching /\ ~closing
    <3>1. ~needs /\ available
      BY <1>0, <2>3, <2>9 DEF Deferring
    <3>. QED BY <1>2, <2>9, <3>1 DEF LoopFramesLeave, Matching, Leaving
  <2>. QED BY <1>0, <2>2, <2>5, <2>6, <2>7, <2>8, <2>9 DEF LoopFramesLeave
<1>3. CASE AddStates
  <2>. DEFINE id == IF rtStates = {} THEN 1 ELSE Newest + 1
  <2>1. /\ \A s \in rtStates : s \in Nat /\ s < id
        /\ rtStates' = rtStates \cup {id} /\ imuFrames' = imuFrames \cup {id}
        /\ id \in Id /\ id \in Nat
    BY <1>3, NewState
  <2>2. /\ phase = "idle" /\ phase' = "matching"
        /\ closing => Len(backlog) < MaxBacklog
        /\ Deferring => backlog' = Append(backlog, id)
        /\ UNCHANGED <<flags, currentLoopClosureFrames, keyframes, keyFrames>>
    BY <1>3 DEF AddStates, Go
  <2>. HIDE DEF id
  <2>3. current' \subseteq rtStates' \ imuFrames'
    BY <1>0, <2>1, <2>2
  <2>4. SUFFICES ASSUME current # {} PROVE Deferring' /\ LoopFramesLeave'
    BY <2>2, <2>3 DEF LoopFramesInv
  <2>5. Deferring /\ UNCHANGED <<closing, available>>
    BY <1>0, <2>2, <2>4 DEF flags
  <2>6. Len(backlog') = Len(backlog) + 1
    BY <1>0, <2>1, <2>2, <2>5
  <2>7. CASE backlog = <<>> /\ FreeKeyframe
    <3>1. FreeKeyframe'
      BY <2>1, <2>2, <2>7, FreeKeyframeStays
    <3>2. Len(backlog') = 1
      BY <1>0, <2>6, <2>7
    <3>. QED BY <2>2, <2>5, <3>1, <3>2 DEF LoopFramesLeave, Matching, Deferring
  <2>8. CASE Len(backlog) = 1
    <3>1. ~closing
      BY <2>2, <2>8, SizesAssumption
    <3>. QED BY <2>2, <2>5, <2>6, <2>8, <3>1 DEF LoopFramesLeave, Matching, Deferring
  <2>. QED BY <1>0, <2>2, <2>4, <2>7, <2>8 DEF LoopFramesLeave, Matching
<1>4. ASSUME NEW i \in Id, CloseLoop(i) PROVE LoopFramesInv'
  <2>. DEFINE back == {i} \cup LinkedPoseGraphFrames(i)
  <2>1. /\ ~needs /\ ~Deferring /\ phase' = "deciding" /\ needs' = TRUE
        /\ i \in poseGraphFrames /\ current' = current \cup back
        /\ UNCHANGED <<rtStates, imuFrames, keyFrames, backlog>>
    BY <1>4 DEF CloseLoop, BringBack, Go, deferred
  <2>2. current = {} /\ backlog = <<>>
    BY <1>0, <2>1
  <2>3. back \subseteq poseGraphFrames
    BY <2>1 DEF LinkedPoseGraphFrames
  <2>. HIDE DEF back
  <2>4. /\ current' \subseteq rtStates' \ imuFrames'
        /\ keyFrames' \cap current' = {}
    BY <2>1, <2>2, <2>3 DEF WindowInv
  <2>. QED BY <2>1, <2>2, <2>4 DEF LoopFramesInv, LoopFramesLeave
<1>5. CASE OptimiseNewest \/ OptimiseRealtimeGraph \/ SkipImport \/ Publish
           \/ Eliminated \/ FreezeOldStates \/ KeepLoopFrames
  <2>1. UNCHANGED <<rtStates, keyframes, window, currentLoopClosureFrames,
                    flags, deferred>>
    BY <1>5 DEF OptimiseNewest, OptimiseRealtimeGraph, SkipImport, Publish,
       Eliminated, FreezeOldStates, KeepLoopFrames
  <2>2. /\ UNCHANGED <<imuFrames, keyFrames, backlog, needs, closing, available>>
        /\ Deferring' = Deferring
    BY <2>1 DEF window, flags, deferred, Deferring
  <2>3. \/ phase = "matching" /\ phase' = "recognising"
        \/ phase = "optimising" /\ phase' = "importing"
        \/ phase = "importing" /\ phase' = "publishing" /\ ~available
        \/ phase = "publishing" /\ phase' = "eliminating"
        \/ phase = "eliminating" /\ phase' \in {"idle", "converting"}
        \/ phase = "converting" /\ phase' = "loops"
        \/ phase = "loops" /\ phase' = "expanding"
    BY <1>5 DEF OptimiseNewest, OptimiseRealtimeGraph, SkipImport, Publish,
       Eliminated, FreezeOldStates, KeepLoopFrames, Go
  <2>. QED BY <1>2, <2>1, <2>2, <2>3 DEF Matching, Leaving
<1>6. ASSUME NEW asKeyframe \in BOOLEAN, SetKeyframe(asKeyframe)
      PROVE  LoopFramesInv'
  <2>1. /\ UNCHANGED <<rtStates, window, currentLoopClosureFrames, flags, deferred>>
        /\ keyframes \subseteq keyframes'
        /\ phase \in {"recognising", "deciding"} /\ phase' = "optimising"
    BY <1>6 DEF SetKeyframe
  <2>2. /\ UNCHANGED <<imuFrames, keyFrames, backlog, needs, closing, available>>
        /\ Deferring' = Deferring
    BY <2>1 DEF window, flags, deferred, Deferring
  <2>. QED BY <1>2, <2>1, <2>2 DEF Matching
<1>7. CASE StartFull \/ FinishFull
  <2>1. /\ UNCHANGED <<phase, rtStates, keyframes, window,
                       currentLoopClosureFrames, deferred>>
        /\ (needs /\ closing') \/ (closing /\ ~closing' /\ available')
    BY <1>7 DEF StartFull, FinishFull
  <2>. QED BY <1>2, <2>1 DEF window, deferred, Deferring
<1>8. CASE Finished \/ UNCHANGED vars
  <2>1. UNCHANGED <<phase, rtStates, keyframes, window, flags,
                    currentLoopClosureFrames, deferred>>
    BY <1>8 DEF Finished, vars
  <2>. QED BY <1>2, <2>1 DEF window, flags, deferred, Deferring
<1>9. CASE ImportFullGraph \/ FinalImport \/ DoFinalBa
  BY <1>1, <1>9 DEF ImportFullGraph, FinalImport, Synchronise, DoFinalBa
<1>10. CASE Stop
  <2>1. /\ UNCHANGED <<rtStates, keyframes, window, flags,
                       currentLoopClosureFrames, deferred>>
        /\ phase = "idle" /\ ~closing
        /\ phase' = IF available THEN "stopping" ELSE "stopped"
    BY <1>10 DEF Stop
  <2>2. CASE available
    BY <1>2, <2>1, <2>2 DEF window, flags, deferred, Deferring
  <2>3. CASE ~available
    BY <1>0, <1>1, <2>1, <2>3 DEF Deferring
  <2>. QED BY <2>2, <2>3
<1>11. CASE PublishImport
  <2>1. phase = "parting" /\ UNCHANGED currentLoopClosureFrames
    BY <1>11 DEF PublishImport, Go
  <2>2. ~needs /\ ~Deferring
    BY <2>1 DEF FlagInv, Deferring
  <2>. QED BY <1>0, <1>1, <2>1, <2>2
<1>12. ASSUME NEW m \in Id, ConvertKeyframe(m) \/ ConvertLoopFrame(m)
       PROVE  LoopFramesInv'
  <2>1. /\ UNCHANGED <<rtStates, imuFrames, currentLoopClosureFrames, flags,
                       deferred>>
        /\ keyFrames' \subseteq keyFrames
        /\ phase \in {"converting", "loops"}
        /\ phase' \in {"converting", "loops", "expanding"}
    BY <1>12 DEF ConvertKeyframe, ConvertLoopFrame
  <2>2. /\ UNCHANGED <<backlog, needs, closing, available>>
        /\ Deferring' = Deferring
    BY <2>1 DEF flags, deferred, Deferring
  <2>3. SUFFICES ASSUME current # {} PROVE LoopFramesLeave'
    BY <1>0, <2>1, <2>2 DEF LoopFramesInv
  <2>. QED BY <1>0, <2>1, <2>2, <2>3 DEF LoopFramesLeave, Matching, Leaving
<1>13. CASE KeepAsKeyframe \/ EliminateImuFrame
  <2>. DEFINE s == Min(imuFrames)
  <2>1. s \in imuFrames /\ imuFrames' = imuFrames \ {s}
    BY <1>13, OldestImuFrame
  <2>2. /\ phase = "eliminating" /\ UNCHANGED <<phase, keyframes, flags,
                                                currentLoopClosureFrames, backlog>>
        /\ \/ s \notin keyframes /\ rtStates' = rtStates \ {s}
              /\ keyFrames' = keyFrames
           \/ s \in keyframes /\ rtStates' = rtStates
              /\ keyFrames' = keyFrames \cup {s}
    BY <1>13 DEF KeepAsKeyframe, EliminateImuFrame, Forget, deferred
  <2>. HIDE DEF s
  <2>3. /\ current' = current /\ current' \subseteq rtStates' \ imuFrames'
        /\ Deferring' = Deferring /\ UNCHANGED <<needs, closing, available>>
    BY <1>0, <2>1, <2>2 DEF flags, Deferring
  <2>4. SUFFICES ASSUME current # {} PROVE LoopFramesLeave'
    BY <1>0, <2>3 DEF LoopFramesInv
  <2>5. FreeKeyframe => FreeKeyframe'
    BY <2>1, <2>2, FreeKeyframeStays
  <2>6. keyFrames \cap current = {} => keyFrames' \cap current' = {}
    BY <1>0, <2>1, <2>2, <2>3
  <2>. QED BY <1>0, <2>2, <2>3, <2>4, <2>5, <2>6
           DEF LoopFramesLeave, Matching, Leaving
<1>14. CASE Expand
  <2>1. /\ UNCHANGED <<rtStates, keyframes, imuFrames, flags, deferred,
                       currentLoopClosureFrames>>
        /\ phase = "expanding" /\ phase' = "idle"
    BY <1>14 DEF Expand, Go
  <2>2. /\ UNCHANGED <<backlog, needs, closing, available>>
        /\ Deferring' = Deferring /\ keyFrames \subseteq keyFrames'
    BY <1>14, <2>1, ExpandEffect DEF flags, deferred, Deferring
  <2>3. SUFFICES ASSUME current # {} PROVE LoopFramesLeave'
    BY <1>0, <2>1, <2>2 DEF LoopFramesInv
  <2>4. CASE backlog = <<>> /\ keyFrames \cap current = {}
    <3>1. FreeKeyframe
      BY <2>1, <2>4, FreeKeyframeBefore DEF Matching
    <3>2. FreeKeyframe'
      BY <2>1, <2>2, <3>1, FreeKeyframeStays
    <3>. QED BY <2>1, <2>2, <2>4, <3>2 DEF LoopFramesLeave
  <2>5. CASE Len(backlog) = 1
    BY <2>1, <2>2, <2>5 DEF LoopFramesLeave, Matching, Leaving
  <2>. QED BY <1>0, <2>1, <2>3, <2>4, <2>5 DEF LoopFramesLeave, Matching
<1>. QED BY <1>3, <1>4, <1>5, <1>6, <1>7, <1>8, <1>9, <1>10, <1>11, <1>12, <1>13,
            <1>14 DEF Next

LoopFramesAlone == KeyframesInv /\ (phase = "final" \/ LoopFramesInv)

(* Then a frame that is published or eliminated finds a keyframe.            *)
LEMMA KeyframeIsLeft ==
  ASSUME LoopFramesAlone
  PROVE  KeyframeLeft
<1>1. SUFFICES ASSUME phase \in {"publishing", "eliminating", "parting"},
                      currentLoopClosureFrames # {}
               PROVE  FreeKeyframe
  BY DEF KeyframeLeft
<1>2. /\ FlagInv /\ WindowInv /\ KeyframeInv /\ LoopFramesInv
      /\ needs \/ Deferring
      /\ LoopFramesLeave
  BY <1>1 DEF LoopFramesAlone, KeyframesInv, CoreInv, LoopFramesInv
<1>3. phase # "parting"
  BY <1>2 DEF FlagInv, Deferring
<1>4. CASE keyFrames \cap currentLoopClosureFrames = {}
  BY <1>1, <1>2, <1>4, FreeKeyframeBefore DEF Matching
<1>5. CASE FreeKeyframe
  BY <1>5
<1>. QED BY <1>1, <1>2, <1>3, <1>4, <1>5 DEF LoopFramesLeave, Matching, Leaving

(* A keyframe is left if at most one frame comes during an optimisation of   *)
(* the full graph.                                                           *)
THEOREM KeyframeLeftIfPrompt ==
  ASSUME MaxBacklog <= 1
  PROVE  Spec => []KeyframeLeft
<1>1. Init => phase = "final" \/ LoopFramesInv
  BY DEF Init, LoopFramesInv
<1>2. ASSUME KeyframesInv, KeyframesInv', LoopFramesAlone, [Next]_vars
      PROVE  LoopFramesAlone'
  <2>1. CASE phase = "final"
    <3>1. UNCHANGED phase
      BY <1>2, <2>1, FinalStep DEF KeyframesInv, CoreInv, vars
    <3>. QED BY <1>2, <2>1, <3>1 DEF LoopFramesAlone
  <2>2. CASE phase # "final"
    <3>1. FlagInv /\ WindowInv /\ StatesInv /\ KeyframeInv /\ LoopFramesInv
      BY <1>2, <2>2 DEF LoopFramesAlone, KeyframesInv, CoreInv
    <3>. QED BY <1>2, <2>2, <3>1, LoopFramesStep DEF LoopFramesAlone
  <2>. QED BY <2>1, <2>2
<1>3. Init /\ KeyframesInv => LoopFramesAlone
  BY <1>1 DEF LoopFramesAlone
<1>. QED BY <1>2, <1>3, KeyframeIsLeft, KeyframesAlways, PTL DEF Spec

(* So with such an optimisation, and none before anything was frozen, none   *)
(* of the exceptions is thrown, whatever the sizes of the windows.           *)
THEOREM AssertionsHoldIfPrompt ==
  ASSUME MaxBacklog <= 1, ~EarlyClosures
  PROVE  Spec => []NoAssertionFails
<1>. QED BY AssertionsHold, KeyframeLeftIfPrompt, PTL

(* And every published frame can be asked for by its id.                     *)
THEOREM AllFramesKnownIfPrompt ==
  ASSUME MaxBacklog <= 1
  PROVE  Spec => []TrajectoryComplete
<1>. QED BY AllFramesKnown, KeyframeLeftIfPrompt, PTL

(* ------------------------------------------------------------------------- *)
(* The integral of the IMU error term.                                       *)

(* The measurements have increasing stamps, and a slope between any two.     *)
Slope(n) == (Rate(n + 1) - Rate(n)) \div (Stamp(n + 1) - Stamp(n))

(* A number that leaves no rest is a multiple.                               *)
LEMMA NoRest ==
  ASSUME NEW a \in Int, NEW w \in Nat, w > 0, a % w = 0
  PROVE  a \div w \in Int /\ a = (a \div w) * w
OBVIOUS

(* The quotient of a multiple is exact.                                      *)
LEMMA Quotient ==
  ASSUME NEW z \in Int, NEW w \in Nat, w > 0
  PROVE  (z * w) \div w = z
OBVIOUS

(* The measurements have whole stamps and rates, the stamps increase, and    *)
(* each rate follows from the one before by the slope between them.          *)
LEMMA Measurements ==
  /\ Len(Imu) \in Nat /\ Len(Imu) > 0
  /\ \A n \in 1 .. Len(Imu) : Stamp(n) \in Int /\ Rate(n) \in Int
  /\ \A n \in 1 .. Len(Imu) - 1 :
       /\ Stamp(n) < Stamp(n + 1) /\ Slope(n) \in Int
       /\ Rate(n + 1) = Rate(n) + Slope(n) * (Stamp(n + 1) - Stamp(n))
<1>1. /\ Len(Imu) \in Nat /\ Len(Imu) > 0
      /\ \A n \in 1 .. Len(Imu) : Stamp(n) \in Int /\ Rate(n) \in Int
  <2>. DEFINE M == [stamp : Int, rate : Int]
  <2>1. Imu \in Seq(M) /\ Len(Imu) > 0
    BY ImuAssumption
  <2>2. \A x \in M : x.stamp \in Int /\ x.rate \in Int
    OBVIOUS
  <2>. HIDE DEF M
  <2>3. Len(Imu) \in Nat /\ \A n \in 1 .. Len(Imu) : Imu[n] \in M
    BY <2>1, ElementOfSeq
  <2>. QED BY <2>1, <2>2, <2>3 DEF Stamp, Rate
<1>2. ASSUME NEW n \in 1 .. Len(Imu) - 1
      PROVE  /\ Stamp(n) < Stamp(n + 1) /\ Slope(n) \in Int
             /\ Rate(n + 1) = Rate(n) + Slope(n) * (Stamp(n + 1) - Stamp(n))
  <2>1. /\ n + 1 \in 2 .. Len(Imu) /\ (n + 1) - 1 = n
        /\ n \in 1 .. Len(Imu) /\ n + 1 \in 1 .. Len(Imu)
    BY <1>1
  <2>2. /\ Stamp(n) < Stamp(n + 1)
        /\ (Rate(n + 1) - Rate(n)) % (Stamp(n + 1) - Stamp(n)) = 0
    BY <2>1, ImuAssumption
  <2>. DEFINE a == Rate(n + 1) - Rate(n)
              w == Stamp(n + 1) - Stamp(n)
  <2>3. a \in Int /\ w \in Nat /\ w > 0 /\ a % w = 0
    <3>1. /\ Rate(n) \in Int /\ Rate(n + 1) \in Int
          /\ Stamp(n) \in Int /\ Stamp(n + 1) \in Int
      BY <1>1, <2>1
    <3>2. a % w = 0
      BY <2>2
    <3>3. a \in Int /\ w \in Nat /\ w > 0
      BY <2>2, <3>1
    <3>. HIDE DEF a, w
    <3>. QED BY <3>2, <3>3
  <2>4. Slope(n) = a \div w
    BY DEF Slope
  <2>. HIDE DEF a, w
  <2>5. Slope(n) \in Int /\ a = Slope(n) * w
    BY <2>3, <2>4, NoRest
  <2>. QED BY <1>1, <2>1, <2>2, <2>5 DEF a, w
<1>. QED BY <1>1, <1>2

(* In the order of their numbers, by a least number that is out of order.    *)
LEMMA StampsIncrease ==
  ASSUME NEW m \in 1 .. Len(Imu), NEW n \in 1 .. Len(Imu), m < n
  PROVE  Stamp(m) < Stamp(n)
<1>. DEFINE bad == {k \in Nat : k <= Len(Imu) /\ m < k /\ ~ Stamp(m) < Stamp(k)}
<1>. SUFFICES ASSUME bad # {}
              PROVE  FALSE
  BY Measurements
<1>1. PICK k \in bad : \A x \in bad : k <= x
  <2>1. HasMin(bad)
    <3>1. \A x \in bad : x \in Nat
      OBVIOUS
    <3>. HIDE DEF bad
    <3>. QED BY <3>1, NatsHaveMin
  <2>. HIDE DEF bad
  <2>. QED BY <2>1 DEF HasMin, IsMin
<1>2. k - 1 \in 1 .. Len(Imu) - 1 /\ Stamp(k - 1) < Stamp(k)
  BY <1>1, Measurements
<1>3. k - 1 \notin bad
  BY <1>1
<1>4. m = k - 1 \/ Stamp(m) < Stamp(k - 1)
  BY <1>1, <1>2, <1>3
<1>5. /\ k \in 1 .. Len(Imu) /\ Stamp(m) \in Int /\ Stamp(k) \in Int
      /\ Stamp(k - 1) \in Int
  BY <1>1, <1>2, Measurements
<1>. QED BY <1>1, <1>2, <1>4, <1>5

(* The straight line through two neighbouring measurements.                  *)
Line(n, t) == Rate(n) + Slope(n) * (t - Stamp(n))

(* The blend of the code is on it: between the values at two of its points,  *)
(* the value at a third.                                                     *)
LEMMA BlendIs ==
  ASSUME NEW a \in Int, NEW slope \in Int, NEW part \in Int,
         NEW whole \in Nat, whole > 0
  PROVE  Blend(a, a + slope * whole, part, whole) = a + slope * part
<1>1. (whole - part) * a + part * (a + slope * whole) = (a + slope * part) * whole
  OBVIOUS
<1>2. a + slope * part \in Int
  OBVIOUS
<1>3. ((a + slope * part) * whole) \div whole = a + slope * part
  BY <1>2, Quotient
<1>. QED BY <1>1, <1>3 DEF Blend

(* The signal is the line between the two measurements next to it.           *)
LEMMA SignalIs ==
  ASSUME NEW k \in 1 .. Len(Imu) - 1, NEW t \in Int,
         Stamp(k) <= t, t <= Stamp(k + 1)
  PROVE  Signal(t) = Line(k, t)
<1>. DEFINE P(n) == n \in 1 .. Len(Imu) - 1 /\ Stamp(n) <= t /\ t <= Stamp(n + 1)
            n0 == CHOOSE n : P(n)
<1>1. P(k)
  OBVIOUS
<1>2. P(n0)
  <2>. HIDE DEF P
  <2>. QED BY <1>1, Zenon
<1>3. Signal(t) = Blend(Rate(n0), Rate(n0 + 1), t - Stamp(n0),
                        Stamp(n0 + 1) - Stamp(n0))
  BY DEF Signal
<1>. HIDE DEF n0
<1>4. /\ Rate(n0) \in Int /\ Rate(k) \in Int
      /\ Stamp(n0) \in Int /\ Stamp(n0 + 1) \in Int
      /\ Stamp(k) \in Int /\ Stamp(k + 1) \in Int
      /\ Slope(n0) \in Int /\ Slope(k) \in Int
      /\ Stamp(n0) < Stamp(n0 + 1)
      /\ Rate(n0 + 1) = Rate(n0) + Slope(n0) * (Stamp(n0 + 1) - Stamp(n0))
      /\ Rate(k + 1) = Rate(k) + Slope(k) * (Stamp(k + 1) - Stamp(k))
  <2>1. /\ n0 \in 1 .. Len(Imu) /\ n0 + 1 \in 1 .. Len(Imu)
        /\ k \in 1 .. Len(Imu) /\ k + 1 \in 1 .. Len(Imu)
    BY <1>2, Measurements
  <2>. QED BY <1>2, <2>1, Measurements
<1>5. Signal(t) = Line(n0, t)
  <2>. DEFINE whole == Stamp(n0 + 1) - Stamp(n0)
              part == t - Stamp(n0)
  <2>1. whole \in Nat /\ whole > 0 /\ part \in Int
    <3>1. /\ Stamp(n0) \in Int /\ Stamp(n0 + 1) \in Int
          /\ Stamp(n0) < Stamp(n0 + 1)
      BY <1>4, Zenon
    <3>. QED BY <3>1
  <2>2. Blend(Rate(n0), Rate(n0) + Slope(n0) * whole, part, whole)
          = Rate(n0) + Slope(n0) * part
    <3>. HIDE DEF whole, part
    <3>. QED BY <1>4, <2>1, BlendIs
  <2>. QED BY <1>3, <1>4, <2>2 DEF Line
<1>6. CASE n0 = k
  BY <1>5, <1>6
<1>7. CASE n0 < k
  <2>1. n0 + 1 \in 1 .. Len(Imu) /\ n0 + 1 <= k /\ k \in 1 .. Len(Imu)
    BY <1>2, <1>7, Measurements
  <2>2. n0 + 1 = k
    <3>. SUFFICES ASSUME n0 + 1 # k
                  PROVE  FALSE
      OBVIOUS
    <3>1. Stamp(n0 + 1) < Stamp(k)
      BY <2>1, StampsIncrease
    <3>. QED BY <1>2, <1>4, <3>1
  <2>3. t = Stamp(k)
    BY <1>2, <1>4, <2>2
  <2>4. Line(n0, t) = Rate(k)
    BY <1>4, <2>2, <2>3 DEF Line
  <2>5. Line(k, t) = Rate(k)
    BY <1>4, <2>3 DEF Line
  <2>. QED BY <1>5, <2>4, <2>5
<1>8. CASE k < n0
  <2>1. k + 1 \in 1 .. Len(Imu) /\ k + 1 <= n0 /\ n0 \in 1 .. Len(Imu)
    BY <1>2, <1>8, Measurements
  <2>2. k + 1 = n0
    <3>. SUFFICES ASSUME k + 1 # n0
                  PROVE  FALSE
      OBVIOUS
    <3>1. Stamp(k + 1) < Stamp(n0)
      BY <2>1, StampsIncrease
    <3>. QED BY <1>2, <1>4, <3>1
  <2>3. t = Stamp(n0)
    BY <1>2, <1>4, <2>2
  <2>4. Line(n0, t) = Rate(n0)
    BY <1>4, <2>3 DEF Line
  <2>5. Line(k, t) = Rate(n0)
    BY <1>4, <2>2, <2>3 DEF Line
  <2>. QED BY <1>5, <2>4, <2>5
<1>. QED BY <1>2, <1>6, <1>7, <1>8

(* The recursion of Area is well founded.                                    *)
AreaUpTo(f, n) ==
  f = [t \in Stamp(1) .. Stamp(1) + n |->
         IF t = Stamp(1) THEN 0 ELSE f[t - 1] + Signal(t - 1) + Signal(t)]

(* A function that satisfies the recursion exists, by a least time without.  *)
LEMMA AreaExists ==
  ASSUME NEW n \in Nat
  PROVE  \E f : AreaUpTo(f, n)
<1>. DEFINE stuck == {m \in Nat : ~ \E f : AreaUpTo(f, m)}
            t0 == Stamp(1)
<1>. SUFFICES ASSUME stuck # {} PROVE FALSE
  OBVIOUS
<1>0. t0 \in Int
  BY Measurements
<1>. HIDE DEF t0
<1>1. PICK m \in stuck : \A x \in stuck : m <= x
  BY NatsHaveMin DEF HasMin, IsMin
<1>2. CASE m = 0
  <2>1. AreaUpTo([t \in t0 .. t0 + 0 |-> 0], 0)
    BY <1>0 DEF AreaUpTo, t0
  <2>. QED BY <1>2, <2>1
<1>3. CASE m # 0
  <2>1. m - 1 \in Nat /\ m - 1 \notin stuck
    BY <1>1, <1>3
  <2>2. PICK f : AreaUpTo(f, m - 1)
    BY <2>1
  <2>. DEFINE last == t0 + m
              h == [t \in t0 .. last |->
                      IF t = last THEN f[last - 1] + Signal(last - 1) + Signal(last)
                                  ELSE f[t]]
  <2>3. ASSUME NEW t \in t0 .. last
        PROVE  h[t] = IF t = t0 THEN 0
                      ELSE h[t - 1] + Signal(t - 1) + Signal(t)
    <3>1. CASE t = last
      <4>1. h[t - 1] = f[t - 1] /\ t # t0
        BY <1>0, <1>3, <3>1
      <4>. QED BY <3>1, <4>1
    <3>2. CASE t # last
      <4>1. t \in t0 .. t0 + (m - 1) /\ h[t] = f[t]
        BY <1>0, <3>2
      <4>2. f[t] = IF t = t0 THEN 0 ELSE f[t - 1] + Signal(t - 1) + Signal(t)
        BY <2>2, <4>1 DEF AreaUpTo, t0
      <4>3. t # t0 => h[t - 1] = f[t - 1]
        BY <1>0, <3>2
      <4>. QED BY <4>1, <4>2, <4>3
    <3>. QED BY <3>1, <3>2
  <2>4. h = [t \in t0 .. last |-> h[t]]
    OBVIOUS
  <2>5. AreaUpTo(h, m)
    <3>. HIDE DEF h
    <3>. QED BY <2>3, <2>4 DEF AreaUpTo, t0
  <2>. QED BY <1>1, <2>5
<1>. QED BY <1>2, <1>3

(* So the area at a time follows from the one at the time before.            *)
LEMMA AreaIs ==
  ASSUME NEW t \in Stamp(1) .. Stamp(Len(Imu))
  PROVE  Area[t] = IF t = Stamp(1) THEN 0
                   ELSE Area[t - 1] + Signal(t - 1) + Signal(t)
<1>. DEFINE n == Stamp(Len(Imu)) - Stamp(1)
<1>1. Stamp(1) \in Int /\ Stamp(Len(Imu)) \in Int
  BY Measurements
<1>2. n \in Nat /\ Stamp(1) + n = Stamp(Len(Imu))
  BY <1>1
<1>3. Area = CHOOSE f : AreaUpTo(f, n)
  BY <1>2 DEF Area, AreaUpTo
<1>4. AreaUpTo(Area, n)
  <2>. HIDE DEF n
  <2>1. \E f : AreaUpTo(f, n)
    BY <1>2, AreaExists
  <2>. QED BY <1>3, <2>1
<1>. QED BY <1>2, <1>4 DEF AreaUpTo

(* Every instant of the measurements is between two of them.                 *)
LEMMA Between ==
  ASSUME NEW t \in Int, NEW a \in 1 .. Len(Imu), NEW b \in 1 .. Len(Imu),
         Stamp(a) <= t, t < Stamp(b)
  PROVE  \E k \in 1 .. Len(Imu) - 1 :
           a <= k /\ k < b /\ Stamp(k) <= t /\ t < Stamp(k + 1)
<1>. DEFINE later == {n \in Nat : a < n /\ n <= b /\ t < Stamp(n)}
<1>1. a \in Nat /\ b \in Nat /\ Len(Imu) \in Nat /\ Stamp(a) \in Int
      /\ Stamp(b) \in Int
  BY Measurements
<1>2. a < b
  <2>1. a = b \/ (b < a => Stamp(b) < Stamp(a))
    BY StampsIncrease
  <2>. QED BY <1>1, <2>1
<1>3. b \in later
  BY <1>1, <1>2
<1>4. PICK n \in later : \A x \in later : n <= x
  <2>1. \A x \in later : x \in Nat
    OBVIOUS
  <2>. HIDE DEF later
  <2>. QED BY <1>3, <2>1, NatsHaveMin DEF HasMin, IsMin
<1>5. n - 1 \in 1 .. Len(Imu) - 1 /\ a <= n - 1 /\ n - 1 < b
  BY <1>1, <1>4
<1>6. Stamp(n - 1) <= t
  <2>1. Stamp(n - 1) \in Int
    BY <1>5, Measurements
  <2>2. n - 1 \notin later
    BY <1>4
  <2>. QED BY <1>1, <1>4, <1>5, <2>1, <2>2
<1>7. (n - 1) + 1 = n /\ t < Stamp(n)
  BY <1>4
<1>. QED BY <1>5, <1>6, <1>7

(* The line has whole values at whole times,                                 *)
LEMMA LineInt ==
  ASSUME NEW k \in 1 .. Len(Imu) - 1, NEW t \in Int
  PROVE  Line(k, t) \in Int
<1>1. k \in 1 .. Len(Imu) /\ Slope(k) \in Int
  BY Measurements
<1>2. Rate(k) \in Int /\ Stamp(k) \in Int
  BY <1>1, Measurements
<1>. QED BY <1>1, <1>2 DEF Line

(* and rises by its slope.                                                   *)
LEMMA LineMoves ==
  ASSUME NEW k \in 1 .. Len(Imu) - 1, NEW t \in Int, NEW n \in Int
  PROVE  Line(k, t + n) = Line(k, t) + Slope(k) * n
<1>1. k \in 1 .. Len(Imu) /\ Slope(k) \in Int
  BY Measurements
<1>2. Rate(k) \in Int /\ Stamp(k) \in Int
  BY <1>1, Measurements
<1>. DEFINE d == Slope(k)
            r == Rate(k)
            s == Stamp(k)
<1>3. r + d * ((t + n) - s) = (r + d * (t - s)) + d * n
  <2>1. d \in Int /\ r \in Int /\ s \in Int
    BY <1>1, <1>2
  <2>. HIDE DEF d, r, s
  <2>. QED BY <2>1
<1>. QED BY <1>3 DEF Line

Covered(t) == t \in Stamp(1) .. Stamp(Len(Imu))

(* The signal and the area under it are whole wherever they are measured.    *)
LEMMA SignalInt ==
  ASSUME NEW t, Covered(t), Len(Imu) > 1
  PROVE  Signal(t) \in Int
<1>1. Len(Imu) \in Nat /\ Stamp(1) \in Int /\ Stamp(Len(Imu)) \in Int
  BY Measurements
<1>2. t \in Int /\ Stamp(1) <= t /\ t <= Stamp(Len(Imu))
  BY <1>1 DEF Covered
<1>3. CASE t < Stamp(Len(Imu))
  <2>1. PICK k \in 1 .. Len(Imu) - 1 : Stamp(k) <= t /\ t < Stamp(k + 1)
    BY <1>1, <1>2, <1>3, Between
  <2>2. k + 1 \in 1 .. Len(Imu)
    BY <1>1
  <2>3. Stamp(k + 1) \in Int
    BY <2>2, Measurements
  <2>4. Signal(t) = Line(k, t)
    BY <1>2, <2>1, <2>3, SignalIs
  <2>. QED BY <1>2, <2>4, LineInt
<1>4. CASE t = Stamp(Len(Imu))
  <2>. DEFINE k == Len(Imu) - 1
  <2>1. k \in 1 .. Len(Imu) - 1 /\ k + 1 = Len(Imu)
    BY <1>1
  <2>2. Stamp(k) < Stamp(k + 1) /\ Stamp(k) \in Int
    BY <2>1, Measurements
  <2>3. Stamp(k) <= t /\ t <= Stamp(k + 1)
    BY <1>1, <1>4, <2>1, <2>2
  <2>. HIDE DEF k
  <2>4. Signal(t) = Line(k, t)
    BY <1>2, <2>1, <2>3, SignalIs
  <2>. QED BY <1>2, <2>1, <2>4, LineInt
<1>. QED BY <1>1, <1>2, <1>3, <1>4

(* The area by a least time at which it is not.                              *)
LEMMA AreaInt ==
  ASSUME NEW t, Covered(t)
  PROVE  t \in Int /\ Area[t] \in Int
<1>. DEFINE bad == {n \in Nat : Covered(Stamp(1) + n) /\ Area[Stamp(1) + n] \notin Int}
<1>1. Stamp(1) \in Int /\ Stamp(Len(Imu)) \in Int /\ Len(Imu) \in Nat
  BY Measurements
<1>2. t - Stamp(1) \in Nat /\ Stamp(1) + (t - Stamp(1)) = t /\ t \in Int
  BY <1>1 DEF Covered
<1>. SUFFICES ASSUME bad # {}
              PROVE  FALSE
  BY <1>2
<1>3. PICK n \in bad : \A x \in bad : n <= x
  <2>1. \A x \in bad : x \in Nat
    OBVIOUS
  <2>. HIDE DEF bad
  <2>. QED BY <2>1, NatsHaveMin DEF HasMin, IsMin
<1>. DEFINE u == Stamp(1) + n
<1>4. Covered(u) /\ Area[u] \notin Int
  BY <1>3
<1>5. Area[u] = IF u = Stamp(1) THEN 0 ELSE Area[u - 1] + Signal(u - 1) + Signal(u)
  <2>1. u \in Stamp(1) .. Stamp(Len(Imu))
    BY <1>4 DEF Covered
  <2>. QED BY <2>1, AreaIs
<1>6. u # Stamp(1)
  BY <1>4, <1>5
<1>7. n - 1 \in Nat /\ Stamp(1) + (n - 1) = u - 1
  BY <1>1, <1>3, <1>6
<1>8. Covered(u - 1) /\ Len(Imu) > 1
  <2>1. u \in Int /\ Stamp(1) < u /\ u <= Stamp(Len(Imu))
    BY <1>1, <1>3, <1>4, <1>6 DEF Covered
  <2>. HIDE DEF u
  <2>2. ASSUME Len(Imu) = 1
        PROVE  FALSE
    <3>1. Stamp(Len(Imu)) = Stamp(1)
      BY <2>2
    <3>. QED BY <1>1, <2>1, <3>1
  <2>3. Covered(u - 1)
    BY <1>1, <2>1 DEF Covered
  <2>4. Len(Imu) \in Nat /\ Len(Imu) > 0
    BY Measurements
  <2>5. Len(Imu) # 1
    BY <2>2
  <2>6. \A m \in Nat : m > 0 /\ m # 1 => m > 1
    OBVIOUS
  <2>. QED BY <2>3, <2>4, <2>5, <2>6, Zenon
<1>9. Area[u - 1] \in Int
  <2>1. n - 1 \notin bad
    BY <1>3
  <2>. QED BY <1>7, <1>8, <2>1
<1>10. Signal(u - 1) \in Int /\ Signal(u) \in Int
  BY <1>4, <1>8, SignalInt
<1>. QED BY <1>4, <1>5, <1>6, <1>9, <1>10

(* Between two measurements the trapezoid of the code is the area.           *)
LEMMA Trapezoid ==
  ASSUME NEW k \in 1 .. Len(Imu) - 1, NEW x \in Int, NEW y \in Int,
         Stamp(k) <= x, x <= y, y <= Stamp(k + 1)
  PROVE  /\ (Line(k, x) + Line(k, y)) * (y - x) = Area[y] - Area[x]
         /\ Covered(x) /\ Covered(y)
<1>. DEFINE S(z) == (Line(k, x) + Line(k, z)) * (z - x)
            bad == {n \in Nat : x + n <= y /\ S(x + n) # Area[x + n] - Area[x]}
<1>1. /\ Len(Imu) \in Nat /\ Stamp(1) \in Int /\ Stamp(Len(Imu)) \in Int
      /\ k \in 1 .. Len(Imu) /\ k + 1 \in 1 .. Len(Imu)
      /\ 1 \in 1 .. Len(Imu) /\ Len(Imu) \in 1 .. Len(Imu)
  BY Measurements
<1>2. /\ Stamp(k) \in Int /\ Stamp(k + 1) \in Int /\ Rate(k) \in Int
      /\ Slope(k) \in Int
  BY <1>1, Measurements
<1>3. Stamp(1) <= Stamp(k) /\ Stamp(k + 1) <= Stamp(Len(Imu))
  <2>1. k = 1 \/ Stamp(1) < Stamp(k)
    BY <1>1, StampsIncrease
  <2>2. k + 1 = Len(Imu) \/ Stamp(k + 1) < Stamp(Len(Imu))
    BY <1>1, StampsIncrease
  <2>. QED BY <1>1, <1>2, <2>1, <2>2
<1>4. \A z \in x .. y : Covered(z) /\ Area[z] \in Int
  <2>. TAKE z \in x .. y
  <2>1. Covered(z)
    BY <1>1, <1>2, <1>3 DEF Covered
  <2>. QED BY <2>1, AreaInt
<1>5. bad = {}
  <2>. SUFFICES ASSUME bad # {}
                PROVE  FALSE
    OBVIOUS
  <2>1. PICK n \in bad : \A i \in bad : n <= i
    <3>1. \A i \in bad : i \in Nat
      OBVIOUS
    <3>. HIDE DEF bad
    <3>. QED BY <3>1, NatsHaveMin DEF HasMin, IsMin
  <2>2. n # 0
    <3>1. S(x) = Area[x] - Area[x]
      <4>1. Area[x] \in Int
        BY <1>4
      <4>2. Line(k, x) \in Int
        BY LineInt
      <4>. QED BY <4>1, <4>2
    <3>. QED BY <2>1, <3>1
  <2>. DEFINE z == x + n
  <2>3. n \in Nat /\ n - 1 \in Nat /\ z \in x .. y /\ z - 1 \in x .. y
        /\ x + (n - 1) = z - 1 /\ z \in Int
    BY <2>1, <2>2
  <2>4. S(z - 1) = Area[z - 1] - Area[x]
    <3>1. n - 1 \notin bad
      BY <2>1, <2>3
    <3>. QED BY <2>3, <3>1
  <2>5. Area[z] = Area[z - 1] + Signal(z - 1) + Signal(z)
    <3>1. Covered(z) /\ Covered(z - 1)
      BY <1>4, <2>3
    <3>2. z \in Stamp(1) .. Stamp(Len(Imu)) /\ z # Stamp(1)
      BY <1>1, <2>3, <3>1 DEF Covered
    <3>. QED BY <3>2, AreaIs
  <2>6. Signal(z - 1) = Line(k, z - 1) /\ Signal(z) = Line(k, z)
    <3>1. /\ z - 1 \in Int /\ Stamp(k) <= z - 1 /\ z - 1 <= Stamp(k + 1)
          /\ Stamp(k) <= z /\ z <= Stamp(k + 1)
      BY <1>2, <2>3
    <3>. QED BY <2>3, <3>1, SignalIs
  <2>. DEFINE a == Line(k, x)
              d == Slope(k)
  <2>7. a \in Int /\ d \in Int /\ Line(k, z) = a + d * n
        /\ Line(k, z - 1) = a + d * (n - 1)
    <3>1. \A m \in Int : Line(k, x + m) = Line(k, x) + Slope(k) * m
      BY LineMoves
    <3>2. z - 1 = x + (n - 1) /\ n \in Int /\ n - 1 \in Int
      BY <2>3
    <3>3. Line(k, x) \in Int /\ Slope(k) \in Int
      BY <1>2, LineInt
    <3>. HIDE DEF bad, S
    <3>. QED BY <3>1, <3>2, <3>3, Zenon
  <2>8. S(z) = (a + (a + d * n)) * n /\ S(z - 1) = (a + (a + d * (n - 1))) * (n - 1)
    BY <2>3, <2>7
  <2>9. Area[z] \in Int /\ Area[z - 1] \in Int /\ Area[x] \in Int
    BY <1>4, <2>3
  <2>10. S(z) # Area[z] - Area[x]
    BY <2>1
  <2>. HIDE DEF S, a, d, z
  <2>11. (a + (a + d * n)) * n
          = (a + (a + d * (n - 1))) * (n - 1) + (a + d * (n - 1)) + (a + d * n)
    BY <2>3, <2>7
  <2>12. S(z) = S(z - 1) + Line(k, z - 1) + Line(k, z)
    BY <2>7, <2>8, <2>11
  <2>13. S(z) = (Area[z - 1] - Area[x]) + Signal(z - 1) + Signal(z)
    BY <2>12, <2>4, <2>6
  <2>14. Signal(z - 1) \in Int /\ Signal(z) \in Int
    BY <2>3, <2>6, LineInt DEF z
  <2>. QED BY <2>5, <2>9, <2>10, <2>13, <2>14
<1>6. y - x \in Nat /\ x + (y - x) = y /\ x \in x .. y /\ y \in x .. y
  OBVIOUS
<1>7. S(y) = Area[y] - Area[x]
  <2>1. y - x \notin bad
    BY <1>5
  <2>2. x + (y - x) <= y
    BY <1>6
  <2>3. S(x + (y - x)) = Area[x + (y - x)] - Area[x]
    <3>. HIDE DEF S
    <3>. QED BY <1>6, <2>1, <2>2
  <2>. HIDE DEF S
  <2>. QED BY <1>6, <2>3
<1>. QED BY <1>4, <1>6, <1>7

(* Measurements a to b; the loop over them, after those until end.           *)
Run(a, b) == [n \in 1 .. b - a + 1 |-> a + n - 1]

Begin(t0) == [time |-> t0, started |-> FALSE, over |-> FALSE, sum |-> 0]

SoFar(t0, t1, end) ==
  IF end <= t0 THEN Begin(t0)
  ELSE [time |-> end, started |-> TRUE, over |-> end = t1,
        sum |-> Area[end] - Area[t0]]

Until(t1, t) == IF t1 < t THEN t1 ELSE t

(* The measurements of a run, in their order.                                *)
LEMMA RunIs ==
  ASSUME NEW a \in 1 .. Len(Imu), NEW b \in a .. Len(Imu)
  PROVE  /\ Run(a, b) \in Seq(1 .. Len(Imu)) /\ Len(Run(a, b)) = b - a + 1
         /\ \A k \in a .. b : Run(a, b)[k - a + 1] = k
<1>1. Len(Imu) \in Nat
  BY Measurements
<1>2. b - a + 1 \in Nat
  BY <1>1
<1>. QED BY <1>1, <1>2 DEF Run

(* A time span the measurements cover, with a measurement inside it.         *)
Spanned(a, b, t0, t1) ==
  /\ a \in 1 .. Len(Imu) /\ b \in 1 .. Len(Imu) /\ t0 \in Int /\ t1 \in Int
  /\ Stamp(a) <= t0 /\ t0 < t1 /\ t1 <= Stamp(b)
  /\ \E n \in 1 .. Len(Imu) : t0 < Stamp(n) /\ Stamp(n) <= t1

(* The numbers of the measurements of such a span are what they seem.        *)
LEMMA SpanIs ==
  ASSUME NEW a, NEW b, NEW t0, NEW t1, Spanned(a, b, t0, t1)
  PROVE  /\ a \in Int /\ b \in Int /\ Len(Imu) \in Nat /\ a < b
         /\ \A k \in a .. b : k \in 1 .. Len(Imu) /\ Stamp(k) \in Int
         /\ \A k \in a .. b - 1 :
              k \in 1 .. Len(Imu) - 1 /\ Stamp(k) < Stamp(k + 1)
         /\ \A k \in a .. b - 1 : Stamp(k) <= t0 => Stamp(k + 1) <= t1
<1>1. a \in Int /\ b \in Int /\ Len(Imu) \in Nat
  BY Measurements DEF Spanned
<1>2. Stamp(a) \in Int /\ Stamp(b) \in Int
  BY Measurements DEF Spanned
<1>3. a < b
  <2>1. a = b \/ (b < a => Stamp(b) < Stamp(a))
    BY StampsIncrease DEF Spanned
  <2>. QED BY <1>1, <1>2, <2>1 DEF Spanned
<1>4. \A k \in a .. b : k \in 1 .. Len(Imu)
  BY <1>1 DEF Spanned
<1>5. \A k \in a .. b : Stamp(k) \in Int
  BY <1>4, Measurements
<1>6. \A k \in a .. b - 1 : k \in 1 .. Len(Imu) - 1
  BY <1>1 DEF Spanned
<1>7. \A k \in a .. b - 1 : Stamp(k) < Stamp(k + 1)
  BY <1>6, Measurements
<1>8. ASSUME NEW k \in a .. b - 1, Stamp(k) <= t0
      PROVE  Stamp(k + 1) <= t1
  <2>1. PICK n \in 1 .. Len(Imu) : t0 < Stamp(n) /\ Stamp(n) <= t1
    BY DEF Spanned
  <2>2. /\ k \in Int /\ k + 1 \in a .. b /\ k \in a .. b
        /\ n \in Int /\ Stamp(n) \in Int /\ t0 \in Int /\ t1 \in Int
    BY <1>1, Measurements DEF Spanned
  <2>3. /\ Stamp(k) \in Int /\ Stamp(k + 1) \in Int
        /\ k \in 1 .. Len(Imu) /\ k + 1 \in 1 .. Len(Imu)
    BY <1>4, <1>5, <2>2
  <2>4. k < n
    <3>1. n = k \/ (n < k => Stamp(n) < Stamp(k))
      BY <2>3, StampsIncrease
    <3>. QED BY <1>8, <2>1, <2>2, <2>3, <3>1
  <2>5. n = k + 1 \/ Stamp(k + 1) < Stamp(n)
    <3>1. n = k + 1 \/ k + 1 < n
      BY <2>2, <2>4
    <3>. QED BY <2>3, <3>1, StampsIncrease
  <2>. QED BY <2>1, <2>2, <2>3, <2>5
<1>. QED BY <1>1, <1>3, <1>4, <1>5, <1>6, <1>7, <1>8

(* What a turn of the loop computes with a measurement but the last.         *)
TurnAt(k, m, t1, acc) ==
  LET next == Stamp(m)
      end  == IF t1 < next THEN t1 ELSE next
      dt   == end - acc.time
      w1   == IF t1 < next THEN Blend(Rate(k), Rate(m), dt, next - Stamp(k))
                           ELSE Rate(m)
      w0   == IF acc.started THEN Rate(k)
                             ELSE Blend(w1, Rate(k), dt, end - Stamp(k))
  IN  IF acc.over \/ dt <= 0 THEN acc
      ELSE [time |-> end, started |-> TRUE, over |-> end = t1,
            sum |-> acc.sum + (w0 + w1) * dt]

(* It does that, unless the loop is over.                                    *)
LEMMA TurnIsAt ==
  ASSUME NEW a \in 1 .. Len(Imu), NEW b \in a .. Len(Imu), NEW k \in a .. b,
         NEW t1, NEW acc
  PROVE  /\ acc.over => Turn(Run(a, b), t1, acc, k - a + 1) = acc
         /\ k # b => Turn(Run(a, b), t1, acc, k - a + 1)
                       = TurnAt(k, k + 1, t1, acc)
<1>. DEFINE d == Run(a, b)
            n == k - a + 1
<1>1. acc.over => Turn(d, t1, acc, n) = acc
  <2>. HIDE DEF d, n
  <2>. QED BY DEF Turn
<1>2. ASSUME k # b
      PROVE  Turn(d, t1, acc, n) = TurnAt(k, k + 1, t1, acc)
  <2>1. Len(Imu) \in Nat
    BY Measurements
  <2>2. Len(d) = b - a + 1
    BY RunIs
  <2>3. d[n] = k
    BY RunIs
  <2>4. n # Len(d)
    BY <1>2, <2>1, <2>2
  <2>5. d[n + 1] = k + 1
    <3>1. k + 1 \in a .. b /\ (k + 1) - a + 1 = n + 1
      BY <2>1, <1>2
    <3>2. d[(k + 1) - a + 1] = k + 1
      BY <3>1, RunIs
    <3>. QED BY <3>1, <3>2
  <2>6. Turn(d, t1, acc, n) = TurnAt(d[n], d[n + 1], t1, acc)
    <3>. HIDE DEF d, n
    <3>. QED BY <2>4, Zenon DEF Turn, TurnAt
  <2>. HIDE DEF d, n
  <2>. QED BY <2>3, <2>5, <2>6
<1>. QED BY <1>1, <1>2

(* The values of the loop, field by field.                                   *)
LEMMA SoFarIs ==
  ASSUME NEW t0, NEW t1, NEW end, ~(end <= t0)
  PROVE  /\ SoFar(t0, t1, end).time = end /\ SoFar(t0, t1, end).started
         /\ end = t1 => SoFar(t0, t1, end).over
         /\ end # t1 => ~SoFar(t0, t1, end).over
         /\ SoFar(t0, t1, end).sum = Area[end] - Area[t0]
<1>. DEFINE r == [time |-> end, started |-> TRUE, over |-> end = t1,
                  sum |-> Area[end] - Area[t0]]
<1>1. SoFar(t0, t1, end) = r
  BY Zenon DEF SoFar
<1>2. r.time = end
  BY Zenon
<1>3. r.started = TRUE
  BY Zenon
<1>4. r.over = (end = t1)
  BY Zenon
<1>5. r.sum = Area[end] - Area[t0]
  BY Zenon
<1>. HIDE DEF r
<1>. QED BY <1>1, <1>2, <1>3, <1>4, <1>5, Zenon

(* One turn takes the loop from measurement k to the next, or to the end.    *)
LEMMA TurnStep ==
  ASSUME NEW a, NEW b, NEW t0, NEW t1, Spanned(a, b, t0, t1),
         NEW k \in a .. b
  PROVE  Turn(Run(a, b), t1, SoFar(t0, t1, Until(t1, Stamp(k))), k - a + 1)
           = SoFar(t0, t1, IF k = b THEN t1 ELSE Until(t1, Stamp(k + 1)))
<1>. DEFINE acc == SoFar(t0, t1, Until(t1, Stamp(k)))
<1>1. /\ a \in 1 .. Len(Imu) /\ b \in a .. Len(Imu) /\ b \in Int
      /\ t0 \in Int /\ t1 \in Int
      /\ t0 < t1 /\ Stamp(k) \in Int
      /\ k \in 1 .. Len(Imu) /\ Stamp(b) \in Int /\ t1 <= Stamp(b)
  <2>1. a \in 1 .. Len(Imu) /\ b \in 1 .. Len(Imu) /\ t0 \in Int /\ t1 \in Int
        /\ t0 < t1 /\ t1 <= Stamp(b)
    BY DEF Spanned
  <2>2. /\ a \in Int /\ b \in Int /\ Len(Imu) \in Nat /\ a < b
        /\ k \in 1 .. Len(Imu) /\ Stamp(k) \in Int
    BY SpanIs
  <2>3. Stamp(b) \in Int
    BY <2>1, Measurements
  <2>. QED BY <2>1, <2>2, <2>3
<1>2. /\ acc.over => Turn(Run(a, b), t1, acc, k - a + 1) = acc
      /\ k # b => Turn(Run(a, b), t1, acc, k - a + 1)
                    = TurnAt(k, k + 1, t1, acc)
  <2>. HIDE DEF acc
  <2>. QED BY <1>1, TurnIsAt
<1>3. CASE t1 <= Stamp(k)
  <2>1. Until(t1, Stamp(k)) = t1
    BY <1>1, <1>3 DEF Until
  <2>2. acc = SoFar(t0, t1, t1) /\ ~(t1 <= t0)
    BY <1>1, <2>1
  <2>3. acc.over
    <3>1. SoFar(t0, t1, t1).over
      BY <2>2, SoFarIs
    <3>. HIDE DEF acc
    <3>. QED BY <2>2, <3>1, Zenon
  <2>4. k # b => Until(t1, Stamp(k + 1)) = t1
    <3>. SUFFICES ASSUME k # b PROVE Until(t1, Stamp(k + 1)) = t1
      OBVIOUS
    <3>1. k \in a .. b - 1 /\ k + 1 \in a .. b
      BY <1>1
    <3>2. Stamp(k) < Stamp(k + 1) /\ Stamp(k + 1) \in Int
      BY <3>1, SpanIs
    <3>. QED BY <1>1, <1>3, <3>2 DEF Until
  <2>. QED BY <1>2, <2>2, <2>3, <2>4
<1>4. CASE Stamp(k) < t1
  <2>1. k # b
    BY <1>1, <1>4
  <2>2. k \in a .. b - 1 /\ k + 1 \in a .. b
    BY <1>1, <2>1
  <2>3. /\ k \in 1 .. Len(Imu) - 1 /\ Stamp(k) < Stamp(k + 1)
        /\ Stamp(k + 1) \in Int
        /\ Stamp(k) <= t0 => Stamp(k + 1) <= t1
    BY <2>2, SpanIs
  <2>. DEFINE next == Stamp(k + 1)
              end  == Until(t1, next)
              whole == next - Stamp(k)
  <2>4. Until(t1, Stamp(k)) = Stamp(k)
    BY <1>1, <1>4 DEF Until
  <2>5. end \in Int /\ end <= next /\ end <= t1 /\ Stamp(k) < end
        /\ (end = next \/ (t1 < next /\ end = t1)) /\ next \in Int
    BY <1>1, <1>4, <2>3 DEF Until
  <2>6. k + 1 \in 1 .. Len(Imu)
    BY <2>2, SpanIs
  <2>7. /\ Rate(k) \in Int /\ Rate(k + 1) \in Int /\ Slope(k) \in Int
        /\ Rate(k + 1) = Rate(k) + Slope(k) * whole
        /\ whole \in Nat /\ whole > 0
    <3>1. Rate(k) \in Int /\ Rate(k + 1) \in Int
      BY <1>1, <2>6, Measurements
    <3>2. Slope(k) \in Int /\ Rate(k + 1) = Rate(k) + Slope(k) * whole
      BY <2>3, Measurements
    <3>. QED BY <1>1, <2>3, <3>1, <3>2
  <2>8. TurnAt(k, k + 1, t1, acc) =
          LET dt == end - acc.time
              w1 == IF t1 < next THEN Blend(Rate(k), Rate(k + 1), dt, whole)
                                 ELSE Rate(k + 1)
              w0 == IF acc.started THEN Rate(k)
                                   ELSE Blend(w1, Rate(k), dt, end - Stamp(k))
          IN  IF acc.over \/ dt <= 0 THEN acc
              ELSE [time |-> end, started |-> TRUE, over |-> end = t1,
                    sum |-> acc.sum + (w0 + w1) * dt]
    <3>. HIDE DEF acc
    <3>. QED BY Zenon DEF TurnAt, Until
  <2>9. SoFar(t0, t1, IF k = b THEN t1 ELSE Until(t1, Stamp(k + 1)))
          = SoFar(t0, t1, end)
    BY <2>1
  <2>10. Line(k, next) = Rate(k + 1) /\ Line(k, Stamp(k)) = Rate(k)
    BY <1>1, <2>7 DEF Line
  <2>. HIDE DEF next, end, whole
  <2>11. CASE Stamp(k) <= t0
    <3>1. acc = Begin(t0)
      BY <2>4, <2>11 DEF SoFar
    <3>2. end = next
      BY <1>1, <2>3, <2>5, <2>11 DEF next
    <3>3. CASE end <= t0
      <4>1. TurnAt(k, k + 1, t1, acc) = acc
        <5>1. acc.time = t0
          BY <3>1 DEF Begin
        <5>2. end - acc.time <= 0
          BY <1>1, <2>5, <3>3, <5>1
        <5>. HIDE DEF acc
        <5>. QED BY <2>8, <5>2
      <4>. QED BY <1>2, <2>1, <2>9, <3>1, <3>3, <4>1 DEF SoFar
    <3>4. CASE t0 < end
      <4>. DEFINE dt == end - t0
      <4>1. dt \in Int /\ ~(dt <= 0) /\ ~(t1 < next)
        BY <1>1, <2>5, <3>2, <3>4
      <4>2. Blend(Rate(k + 1), Rate(k), dt, end - Stamp(k)) = Line(k, t0)
        <5>. DEFINE d == Slope(k)
                    e == 0 - d
                    r == Rate(k + 1)
        <5>1. end - Stamp(k) = whole
          BY <3>2 DEF whole
        <5>2. e \in Int /\ r \in Int /\ Rate(k) = r + e * whole
          <6>1. d \in Int /\ r \in Int /\ r = Rate(k) + d * whole
                /\ Rate(k) \in Int /\ whole \in Int
            BY <2>7
          <6>. HIDE DEF d, r
          <6>. QED BY <6>1
        <5>3. Blend(r, r + e * whole, dt, whole) = r + e * dt
          <6>1. dt \in Int /\ whole \in Nat /\ whole > 0
            BY <2>7, <4>1
          <6>2. e \in Int /\ r \in Int
            BY <5>2
          <6>. HIDE DEF e, r, dt
          <6>. QED BY <6>1, <6>2, BlendIs
        <5>4. r + e * dt = Line(k, t0)
          <6>1. Line(k, next + (t0 - next)) = Line(k, next) + d * (t0 - next)
            <7>1. next \in Int /\ t0 - next \in Int
              BY <1>1, <2>5
            <7>. HIDE DEF dt, e, r
            <7>. QED BY <2>3, <7>1, LineMoves, Zenon
          <6>2. next + (t0 - next) = t0
            BY <1>1, <2>5
          <6>3. Line(k, t0) = r + d * (t0 - next)
            BY <2>10, <6>1, <6>2
          <6>4. dt = next - t0
            BY <3>2
          <6>5. e * (next - t0) = d * (t0 - next)
            <7>1. next \in Int /\ t0 \in Int /\ d \in Int
              BY <1>1, <2>5, <2>7
            <7>. HIDE DEF d
            <7>. QED BY <7>1
          <6>. HIDE DEF d, r, dt, e
          <6>. QED BY <6>3, <6>4, <6>5
        <5>. HIDE DEF d, e, dt
        <5>. QED BY <5>1, <5>2, <5>3, <5>4
      <4>3. TurnAt(k, k + 1, t1, acc)
              = [time |-> end, started |-> TRUE, over |-> end = t1,
                 sum |-> 0 + (Line(k, t0) + Line(k, end)) * dt]
        <5>1. acc.time = t0 /\ ~acc.started /\ ~acc.over /\ acc.sum = 0
          BY <3>1 DEF Begin
        <5>2. Rate(k + 1) = Line(k, end)
          BY <2>10, <3>2
        <5>3. end - acc.time = dt
          BY <5>1
        <5>. HIDE DEF acc, dt
        <5>. QED BY <2>8, <4>1, <4>2, <5>1, <5>2, <5>3
      <4>4. (Line(k, t0) + Line(k, end)) * dt = Area[end] - Area[t0]
        <5>1. Stamp(k) <= t0 /\ t0 <= end /\ end <= Stamp(k + 1)
          BY <1>1, <2>5, <2>11, <3>4 DEF next
        <5>. QED BY <1>1, <2>3, <2>5, <5>1, Trapezoid
      <4>5. 0 + (Line(k, t0) + Line(k, end)) * dt = Area[end] - Area[t0]
        <5>1. Line(k, t0) \in Int /\ Line(k, end) \in Int
          BY <1>1, <2>3, <2>5, LineInt
        <5>2. (Line(k, t0) + Line(k, end)) * dt \in Int
          <6>. HIDE DEF dt
          <6>. QED BY <4>1, <5>1
        <5>. QED BY <4>4, <5>2
      <4>6. ~(end <= t0)
        BY <1>1, <2>5, <3>4
      <4>. QED BY <1>2, <2>1, <2>9, <4>3, <4>5, <4>6 DEF SoFar
    <3>. QED BY <1>1, <2>5, <3>3, <3>4
  <2>12. CASE t0 < Stamp(k)
    <3>. DEFINE dt == end - Stamp(k)
    <3>1. acc = SoFar(t0, t1, Stamp(k)) /\ ~(Stamp(k) <= t0) /\ Stamp(k) # t1
      BY <1>1, <1>4, <2>4, <2>12
    <3>2. /\ acc.time = Stamp(k) /\ acc.started /\ ~acc.over
          /\ acc.sum = Area[Stamp(k)] - Area[t0]
      <4>. DEFINE stamp == Stamp(k)
                  sofar == SoFar(t0, t1, stamp)
      <4>1. /\ sofar.time = stamp /\ sofar.started /\ ~sofar.over
            /\ sofar.sum = Area[stamp] - Area[t0]
        <5>1. ~(stamp <= t0) /\ stamp # t1
          BY <3>1
        <5>. HIDE DEF stamp
        <5>. QED BY <5>1, SoFarIs
      <4>2. acc = sofar
        BY <3>1
      <4>. HIDE DEF acc, sofar
      <4>. QED BY <4>1, <4>2, Zenon
    <3>3. dt \in Int /\ ~(dt <= 0) /\ ~(end <= t0)
      BY <1>1, <2>5, <2>12
    <3>4. (IF t1 < next THEN Blend(Rate(k), Rate(k + 1), dt, whole)
                        ELSE Rate(k + 1)) = Line(k, end)
      <4>1. CASE t1 < next
        <5>. DEFINE d == Slope(k)
                    r == Rate(k)
        <5>1. d \in Int /\ r \in Int /\ Rate(k + 1) = r + d * whole
          BY <2>7
        <5>2. Blend(r, r + d * whole, dt, whole) = r + d * dt
          <6>1. dt \in Int /\ whole \in Nat /\ whole > 0
            BY <2>7, <3>3
          <6>2. d \in Int /\ r \in Int
            BY <5>1
          <6>. HIDE DEF d, r, dt
          <6>. QED BY <6>1, <6>2, BlendIs
        <5>3. Line(k, end) = r + d * dt
          BY DEF Line
        <5>. HIDE DEF d, dt
        <5>. QED BY <4>1, <5>1, <5>2, <5>3
      <4>2. CASE ~(t1 < next)
        <5>1. end = next
          BY <2>5, <4>2
        <5>. QED BY <2>10, <4>2, <5>1
      <4>. QED BY <4>1, <4>2
    <3>5. TurnAt(k, k + 1, t1, acc)
            = [time |-> end, started |-> TRUE, over |-> end = t1,
               sum |-> (Area[Stamp(k)] - Area[t0])
                         + (Line(k, Stamp(k)) + Line(k, end)) * dt]
      <4>1. end - acc.time = dt
        BY <3>2
      <4>. HIDE DEF acc, dt
      <4>. QED BY <2>8, <2>10, <3>2, <3>3, <3>4, <4>1
    <3>6. /\ (Line(k, Stamp(k)) + Line(k, end)) * dt = Area[end] - Area[Stamp(k)]
          /\ Covered(Stamp(k)) /\ Covered(end)
      <4>1. Stamp(k) <= Stamp(k) /\ Stamp(k) <= end /\ end <= Stamp(k + 1)
        BY <1>1, <2>5 DEF next
      <4>. QED BY <1>1, <2>3, <2>5, <4>1, Trapezoid
    <3>7. Area[Stamp(k)] \in Int /\ Area[end] \in Int /\ Area[t0] \in Int
      <4>1. Covered(t0)
        <5>1. PICK j \in 1 .. Len(Imu) - 1 :
                a <= j /\ j < b /\ Stamp(j) <= t0 /\ t0 < Stamp(j + 1)
          <6>1. a \in 1 .. Len(Imu) /\ b \in 1 .. Len(Imu) /\ Stamp(a) <= t0
                /\ t0 < Stamp(b)
            BY <1>1 DEF Spanned
          <6>. QED BY <1>1, <6>1, Between
        <5>2. Len(Imu) \in Nat /\ j + 1 \in 1 .. Len(Imu)
          BY Measurements
        <5>3. Stamp(j + 1) \in Int
          BY <5>2, Measurements
        <5>4. t0 <= t0 /\ t0 <= Stamp(j + 1)
          BY <1>1, <5>1, <5>3
        <5>. HIDE DEF dt, acc
        <5>. QED BY <1>1, <5>1, <5>4, Trapezoid
      <4>. QED BY <3>6, <4>1, AreaInt
    <3>8. (Area[Stamp(k)] - Area[t0])
            + (Line(k, Stamp(k)) + Line(k, end)) * dt = Area[end] - Area[t0]
      <4>. HIDE DEF dt
      <4>. QED BY <3>6, <3>7
    <3>. QED BY <1>2, <2>1, <2>9, <3>3, <3>5, <3>8 DEF SoFar
  <2>. QED BY <1>1, <2>11, <2>12
<1>. QED BY <1>1, <1>3, <1>4

(* The loop of the integral is well defined.                                 *)
Turns(f, n, deque, t0, t1) ==
  f = [i \in 0 .. n |-> IF i = 0 THEN Begin(t0)
                        ELSE Turn(deque, t1, f[i - 1], i)]

(* The loop over the deque exists, by a least turn that is not defined.      *)
LEMMA TurnsExist ==
  ASSUME NEW n \in Nat, NEW deque, NEW t0, NEW t1
  PROVE  \E f : Turns(f, n, deque, t0, t1)
<1>. DEFINE stuck == {m \in Nat : ~ \E f : Turns(f, m, deque, t0, t1)}
<1>. SUFFICES ASSUME stuck # {} PROVE FALSE
  OBVIOUS
<1>1. PICK m \in stuck : \A x \in stuck : m <= x
  BY NatsHaveMin DEF HasMin, IsMin
<1>2. CASE m = 0
  <2>1. Turns([i \in 0 .. 0 |-> Begin(t0)], 0, deque, t0, t1)
    BY DEF Turns
  <2>. QED BY <1>2, <2>1
<1>3. CASE m # 0
  <2>1. m - 1 \in Nat /\ m - 1 \notin stuck
    BY <1>1, <1>3
  <2>2. PICK f : Turns(f, m - 1, deque, t0, t1)
    BY <2>1
  <2>. DEFINE h == [i \in 0 .. m |->
                      IF i = m THEN Turn(deque, t1, f[m - 1], m) ELSE f[i]]
  <2>3. ASSUME NEW i \in 0 .. m
        PROVE  h[i] = IF i = 0 THEN Begin(t0) ELSE Turn(deque, t1, h[i - 1], i)
    <3>1. CASE i = m
      <4>1. h[i - 1] = f[m - 1]
        BY <1>3, <3>1
      <4>. QED BY <1>3, <3>1, <4>1
    <3>2. CASE i # m
      <4>1. i \in 0 .. (m - 1) /\ h[i] = f[i]
        BY <3>2
      <4>2. f[i] = IF i = 0 THEN Begin(t0) ELSE Turn(deque, t1, f[i - 1], i)
        BY <2>2, <4>1 DEF Turns
      <4>3. i # 0 => h[i - 1] = f[i - 1]
        BY <3>2
      <4>. QED BY <4>1, <4>2, <4>3
    <3>. QED BY <3>1, <3>2
  <2>4. h = [i \in 0 .. m |-> h[i]]
    OBVIOUS
  <2>5. Turns(h, m, deque, t0, t1)
    <3>. HIDE DEF h
    <3>. QED BY <2>3, <2>4 DEF Turns
  <2>. QED BY <1>1, <2>5
<1>. QED BY <1>2, <1>3

(* The integral is its sum after the last turn.                              *)
LEMMA IntegralIs ==
  ASSUME NEW deque, NEW t0, NEW t1, Len(deque) \in Nat
  PROVE  \E f : /\ Turns(f, Len(deque), deque, t0, t1)
                /\ Integral(deque, t0, t1) = f[Len(deque)].sum
<1>. DEFINE f == CHOOSE g : Turns(g, Len(deque), deque, t0, t1)
<1>1. Integral(deque, t0, t1) = f[Len(deque)].sum
  BY DEF Integral, Turns, Begin
<1>2. Turns(f, Len(deque), deque, t0, t1)
  BY TurnsExist
<1>. QED BY <1>1, <1>2

(* The integral of the code is the exact one.                                *)
LEMMA IntegralExact ==
  ASSUME NEW a, NEW b, NEW t0, NEW t1, Spanned(a, b, t0, t1)
  PROVE  Integral(Run(a, b), t0, t1) = ExactIntegral(t0, t1)
<1>. DEFINE d == Run(a, b)
            end(k) == IF k > b THEN t1 ELSE Until(t1, Stamp(k))
<1>1. /\ a \in 1 .. Len(Imu) /\ b \in a .. Len(Imu) /\ a \in Int /\ b \in Int
      /\ t0 \in Int /\ t1 \in Int /\ t0 < t1 /\ Stamp(a) <= t0 /\ a < b
      /\ Stamp(a) \in Int
  <2>1. a \in 1 .. Len(Imu) /\ b \in 1 .. Len(Imu) /\ t0 \in Int /\ t1 \in Int
        /\ t0 < t1 /\ Stamp(a) <= t0
    BY DEF Spanned
  <2>2. a \in Int /\ b \in Int /\ Len(Imu) \in Nat /\ a < b
    BY SpanIs
  <2>3. Stamp(a) \in Int
    BY <2>1, Measurements
  <2>. QED BY <2>1, <2>2, <2>3
<1>2. Len(d) = b - a + 1
  BY <1>1, RunIs
<1>. HIDE DEF d
<1>3. PICK f : /\ Turns(f, Len(d), d, t0, t1)
               /\ Integral(d, t0, t1) = f[Len(d)].sum
  BY <1>1, <1>2, IntegralIs
<1>4. /\ f[0] = Begin(t0)
      /\ \A k \in a .. b : f[k - a + 1] = Turn(d, t1, f[k - a], k - a + 1)
  <2>1. \A i \in 0 .. Len(d) : f[i] = IF i = 0 THEN Begin(t0)
                                      ELSE Turn(d, t1, f[i - 1], i)
    BY <1>3 DEF Turns
  <2>2. f[0] = Begin(t0)
    BY <1>1, <1>2, <2>1
  <2>3. ASSUME NEW k \in a .. b
        PROVE  f[k - a + 1] = Turn(d, t1, f[k - a], k - a + 1)
    <3>1. k - a + 1 \in 0 .. Len(d) /\ k - a + 1 # 0 /\ (k - a + 1) - 1 = k - a
      BY <1>1, <1>2
    <3>. QED BY <2>1, <3>1
  <2>. QED BY <2>2, <2>3
<1>. DEFINE bad == {n \in Nat : /\ n <= b - a + 1
                                /\ f[n] # SoFar(t0, t1, end(a + n))}
<1>5. bad = {}
  <2>. SUFFICES ASSUME bad # {}
                PROVE  FALSE
    OBVIOUS
  <2>1. PICK n \in bad : \A x \in bad : n <= x
    <3>1. \A x \in bad : x \in Nat
      OBVIOUS
    <3>. HIDE DEF bad
    <3>. QED BY <3>1, NatsHaveMin DEF HasMin, IsMin
  <2>2. n # 0
    <3>1. end(a + 0) = Stamp(a)
      BY <1>1 DEF Until
    <3>. HIDE DEF end
    <3>2. SoFar(t0, t1, end(a + 0)) = Begin(t0)
      BY <1>1, <3>1 DEF SoFar
    <3>. QED BY <1>4, <2>1, <3>2
  <2>. DEFINE k == a + (n - 1)
  <2>3. n - 1 \in Nat /\ k \in a .. b /\ k - a + 1 = n /\ k - a = n - 1
        /\ k + 1 = a + n /\ n - 1 <= b - a + 1 /\ k \in Int
    BY <1>1, <2>1, <2>2
  <2>4. f[n - 1] = SoFar(t0, t1, end(k))
    <3>1. n - 1 \notin bad
      BY <2>1, <2>3
    <3>. HIDE DEF end
    <3>. QED BY <2>3, <3>1
  <2>5. end(k) = Until(t1, Stamp(k))
    BY <1>1, <2>3
  <2>6. f[n] = SoFar(t0, t1, IF k = b THEN t1 ELSE Until(t1, Stamp(k + 1)))
    <3>1. f[n] = Turn(d, t1, f[n - 1], n)
      BY <1>4, <2>3
    <3>. HIDE DEF k, end
    <3>2. Turn(d, t1, SoFar(t0, t1, Until(t1, Stamp(k))), k - a + 1)
            = SoFar(t0, t1, IF k = b THEN t1 ELSE Until(t1, Stamp(k + 1)))
      BY <2>3, TurnStep DEF d
    <3>. QED BY <2>3, <2>4, <2>5, <3>1, <3>2
  <2>7. (IF k = b THEN t1 ELSE Until(t1, Stamp(k + 1))) = end(a + n)
    BY <1>1, <2>3
  <2>8. f[n] # SoFar(t0, t1, end(a + n))
    BY <2>1
  <2>. HIDE DEF k, end
  <2>. QED BY <2>6, <2>7, <2>8
<1>6. f[Len(d)] = SoFar(t0, t1, t1)
  <2>. DEFINE n == b - a + 1
  <2>1. n \in Nat /\ n <= b - a + 1 /\ end(a + n) = t1
    BY <1>1
  <2>2. n \notin bad
    BY <1>5
  <2>. HIDE DEF end
  <2>. QED BY <1>2, <2>1, <2>2
<1>7. ~(t1 <= t0)
  BY <1>1
<1>8. f[Len(d)].sum = Area[t1] - Area[t0]
  BY <1>6, <1>7, SoFarIs
<1>. QED BY <1>3, <1>8 DEF ExactIntegral, d

(* ------------------------------------------------------------------------- *)
(* The measurements between the frames.                                      *)

(* The times of the states.                                                  *)
LEMMA Times ==
  /\ FramePeriod \in Nat /\ FramePeriod > 0 /\ Overlap \in Nat
  /\ \A s \in Int : Time(s) \in Int /\ Time(s + 1) = Time(s) + FramePeriod
  /\ \A x \in Int, y \in Int : x < y => Time(x) < Time(y)
<1>1. FramePeriod \in Nat /\ FramePeriod > 0 /\ Overlap \in Nat
  BY TimesAssumption
<1>2. ASSUME NEW s \in Int
      PROVE  Time(s) \in Int /\ Time(s + 1) = Time(s) + FramePeriod
  <2>1. (s + 1) * FramePeriod = s * FramePeriod + FramePeriod
    BY <1>1
  <2>. QED BY <1>1, <2>1 DEF Time
<1>3. ASSUME NEW x \in Int, NEW y \in Int, x < y
      PROVE  Time(x) < Time(y)
  <2>1. (y - x) * FramePeriod > 0
    BY <1>1, <1>3
  <2>2. y * FramePeriod = x * FramePeriod + (y - x) * FramePeriod
    BY <1>1
  <2>. QED BY <1>1, <2>1, <2>2 DEF Time
<1>. QED BY <1>1, <1>2, <1>3

(* Between two states that follow each other there is a measurement.         *)
LEMMA MeasuredBetween ==
  ASSUME NEW from \in Id, NEW to \in Id, from < to
  PROVE  \E n \in 1 .. Len(Imu) : Time(from) < Stamp(n) /\ Stamp(n) <= Time(to)
<1>1. MaxFrames \in Nat /\ from \in Int /\ to \in Int
  BY Sizes DEF Id
<1>2. from \in 1 .. MaxFrames - 1
  BY <1>1 DEF Id
<1>3. PICK n \in 1 .. Len(Imu) :
        Time(from) < Stamp(n) /\ Stamp(n) <= Time(from + 1)
  BY <1>2, ImuCoverage
<1>4. Time(from + 1) <= Time(to)
  <2>. DEFINE k == from + 1
  <2>1. k \in Int /\ (k = to \/ k < to)
    BY <1>1
  <2>2. Time(k) \in Int /\ Time(to) \in Int /\ (k < to => Time(k) < Time(to))
    <3>. HIDE DEF k
    <3>. QED BY <1>1, <2>1, Times
  <2>. HIDE DEF k
  <2>3. Time(k) <= Time(to)
    BY <2>1, <2>2
  <2>. QED BY <2>3 DEF k
<1>5. Stamp(n) \in Int /\ Time(from + 1) \in Int /\ Time(to) \in Int
  BY <1>1, Times, Measurements
<1>. QED BY <1>3, <1>4, <1>5

(* The measurements of a new frame cover the time since the one before.      *)
LEMMA DequeIs ==
  ASSUME NEW s \in Id, s # 1
  PROVE  \E a \in 1 .. Len(Imu), b \in 1 .. Len(Imu) :
           /\ b \in a .. Len(Imu) /\ Deque(s) = Run(a, b)
           /\ Stamp(a) <= Time(s - 1) /\ Time(s) <= Stamp(b)
<1>. DEFINE old == {n \in 1 .. Len(Imu) : Stamp(n) <= Time(s - 1) - Overlap}
            new == {n \in 1 .. Len(Imu) : Stamp(n) >= Time(s) + Overlap}
            first == IF old = {} THEN 1 ELSE CHOOSE n \in old : \A m \in old : m <= n
            last == CHOOSE n \in new : \A m \in new : n <= m
<1>1. /\ Len(Imu) \in Nat /\ Len(Imu) > 0 /\ s \in Int /\ s - 1 \in Id
      /\ Overlap \in Nat
      /\ Time(s) \in Int /\ Time(s - 1) \in Int /\ Time(s - 1) < Time(s)
      /\ \A n \in 1 .. Len(Imu) : Stamp(n) \in Int
  <2>1. s \in Int /\ s - 1 \in Id
    BY Sizes DEF Id
  <2>. QED BY <2>1, Times, Measurements
<1>2. first \in 1 .. Len(Imu) /\ Stamp(first) <= Time(s - 1)
  <2>1. CASE old = {}
    <3>1. Stamp(1) <= Time(1) /\ Time(1) <= Time(s - 1)
      <4>1. 1 \in Int /\ s - 1 \in Int /\ (1 = s - 1 \/ 1 < s - 1)
        BY <1>1 DEF Id
      <4>. DEFINE k == s - 1
      <4>2. Time(1) \in Int /\ (1 < k => Time(1) < Time(k))
        <5>. HIDE DEF k
        <5>. QED BY <4>1, Times DEF k
      <4>3. Stamp(1) <= Time(1)
        BY ImuCoverage
      <4>. QED BY <1>1, <4>1, <4>2, <4>3
    <3>2. Time(1) \in Int /\ 1 \in 1 .. Len(Imu)
      BY <1>1, Times
    <3>. QED BY <1>1, <2>1, <3>1, <3>2
  <2>2. CASE old # {}
    <3>1. HasMax(old)
      <4>1. old \subseteq 1 .. Len(Imu) /\ \A n \in old : n \in Nat
        BY <1>1
      <4>2. IsFiniteSet(old)
        <5>1. IsFiniteSet(1 .. Len(Imu))
          BY <1>1, FS_Interval
        <5>. HIDE DEF old
        <5>. QED BY <4>1, <5>1, FS_Subset
      <4>. HIDE DEF old
      <4>. QED BY <2>2, <4>1, <4>2, FiniteSetHasMax
    <3>2. \E n \in old : \A m \in old : m <= n
      <4>. HIDE DEF old
      <4>. QED BY <3>1 DEF HasMax, IsMax
    <3>3. first \in old
      <4>. HIDE DEF old
      <4>. QED BY <2>2, <3>2
    <3>. HIDE DEF first
    <3>. QED BY <1>1, <3>3
  <2>. QED BY <2>1, <2>2
<1>3. last \in 1 .. Len(Imu) /\ Time(s) <= Stamp(last)
  <2>1. new # {}
    <3>1. PICK n \in 1 .. Len(Imu) : Time(s) + Overlap <= Stamp(n)
      BY ImuCoverage
    <3>. QED BY <1>1, <3>1
  <2>2. \E n \in new : \A m \in new : n <= m
    <3>1. \A n \in new : n \in Nat
      BY <1>1
    <3>. HIDE DEF new
    <3>. QED BY <2>1, <3>1, NatsHaveMin DEF HasMin, IsMin
  <2>3. last \in new
    <3>. HIDE DEF new
    <3>. QED BY <2>2
  <2>. HIDE DEF last
  <2>. QED BY <1>1, <2>3
<1>4. Deque(s) = Run(first, last)
  BY DEF Deque, Run
<1>. HIDE DEF first, last
<1>5. first <= last
  <2>1. Stamp(first) < Stamp(last)
    BY <1>1, <1>2, <1>3
  <2>2. last < first => Stamp(last) < Stamp(first)
    BY <1>2, <1>3, StampsIncrease
  <2>. QED BY <1>1, <1>2, <1>3, <2>1, <2>2
<1>6. last \in first .. Len(Imu)
  BY <1>1, <1>2, <1>3, <1>5
<1>. QED BY <1>2, <1>3, <1>4, <1>6

(* A run that continues another one inside it or at its end joins it.        *)
LEMMA JoinedIs ==
  ASSUME NEW a \in 1 .. Len(Imu), NEW b \in a .. Len(Imu),
         NEW c \in 1 .. Len(Imu), NEW d \in c .. Len(Imu), c <= b
  PROVE  Joined(Run(a, b), Run(c, d)) = Run(a, IF d <= b THEN b ELSE d)
<1>. DEFINE p == Run(a, b)
            q == Run(c, d)
            newer == {n \in 1 .. Len(q) : Stamp(q[n]) > Stamp(Last(p))}
<1>1. /\ Len(Imu) \in Nat /\ a \in Nat /\ b \in Nat /\ c \in Nat /\ d \in Nat
      /\ a <= b /\ c <= d /\ b \in 1 .. Len(Imu)
  BY Measurements
<1>2. /\ p \in Seq(1 .. Len(Imu)) /\ Len(p) = b - a + 1
      /\ q \in Seq(1 .. Len(Imu)) /\ Len(q) = d - c + 1
      /\ \A k \in a .. b : p[k - a + 1] = k
      /\ \A k \in c .. d : q[k - c + 1] = k
  BY RunIs
<1>3. Last(p) = b
  <2>1. p[b - a + 1] = b
    BY <1>1, <1>2
  <2>. QED BY <1>2, <2>1 DEF Last
<1>4. newer = {n \in 1 .. d - c + 1 : b < c + n - 1}
  <2>1. ASSUME NEW n \in 1 .. d - c + 1
        PROVE  Stamp(q[n]) > Stamp(Last(p)) <=> b < c + n - 1
    <3>. DEFINE k == c + n - 1
    <3>1. k \in c .. d /\ k - c + 1 = n /\ k \in 1 .. Len(Imu) /\ k \in Nat
      BY <1>1
    <3>2. q[n] = k
      BY <1>2, <3>1
    <3>. HIDE DEF k
    <3>3. /\ b < k => Stamp(b) < Stamp(k)
          /\ k < b => Stamp(k) < Stamp(b)
          /\ Stamp(b) \in Int /\ Stamp(k) \in Int
      BY <1>1, <3>1, StampsIncrease, Measurements
    <3>4. Stamp(k) > Stamp(b) <=> b < k
      <4>1. CASE b < k
        BY <3>3, <4>1
      <4>2. CASE k < b
        BY <1>1, <3>1, <3>3, <4>2
      <4>3. CASE k = b
        BY <1>1, <3>3, <4>3
      <4>. QED BY <1>1, <3>1, <4>1, <4>2, <4>3
    <3>. QED BY <1>3, <3>2, <3>4 DEF k
  <2>. QED BY <1>2, <2>1
<1>. HIDE DEF newer
<1>5. Joined(p, q) = IF newer = {} THEN p
                     ELSE p \o SubSeq(q, Min(newer), Len(q))
  BY Zenon DEF Joined, newer
<1>6. CASE d <= b
  <2>1. newer = {}
    BY <1>1, <1>4, <1>6
  <2>. QED BY <1>5, <1>6, <2>1
<1>7. CASE b < d
  <2>. DEFINE n0 == b - c + 2
  <2>1. IsMin(newer, n0)
    BY <1>1, <1>4, <1>7 DEF IsMin
  <2>2. Min(newer) = n0 /\ newer # {}
    BY <2>1, MinIs DEF IsMin
  <2>3. Joined(p, q) = p \o SubSeq(q, n0, Len(q))
    BY <1>5, <2>2
  <2>. DEFINE r == SubSeq(q, n0, Len(q))
              z == Run(a, d)
  <2>4. n0 \in 1 .. Len(q) /\ Len(q) \in Nat /\ n0 \in Nat
    BY <1>1, <1>2, <1>7
  <2>5. /\ r \in Seq(1 .. Len(Imu)) /\ Len(r) = d - b
        /\ \A i \in 1 .. d - b : r[i] = b + i
    <3>1. /\ r \in Seq(1 .. Len(Imu)) /\ Len(r) = Len(q) - n0 + 1
          /\ \A i \in 1 .. Len(q) - n0 + 1 : r[i] = q[n0 + i - 1]
      <4>1. \A i \in n0 .. Len(q) : q[i] \in 1 .. Len(Imu)
        <5>. TAKE i \in n0 .. Len(q)
        <5>1. i \in 1 .. Len(q)
          BY <2>4
        <5>. HIDE DEF q, n0
        <5>. QED BY <1>2, <5>1, ElementOfSeq
      <4>. HIDE DEF p, q, n0
      <4>. QED BY <2>4, <4>1, SubSeqProperties
    <3>2. Len(q) - n0 + 1 = d - b
      BY <1>1, <1>2
    <3>3. ASSUME NEW i \in 1 .. d - b
          PROVE  q[n0 + i - 1] = b + i
      <4>1. b + i \in c .. d /\ (b + i) - c + 1 = n0 + i - 1
        BY <1>1
      <4>2. q[(b + i) - c + 1] = b + i
        BY <1>2, <4>1
      <4>. QED BY <4>1, <4>2
    <3>. QED BY <3>1, <3>2, <3>3
  <2>6. z \in Seq(1 .. Len(Imu)) /\ Len(z) = d - a + 1
        /\ \A k \in a .. d : z[k - a + 1] = k
    <3>1. d \in a .. Len(Imu)
      BY <1>1, <1>7
    <3>. QED BY <3>1, RunIs
  <2>. HIDE DEF p, q, r, z, n0
  <2>7. p \o r \in Seq(1 .. Len(Imu)) /\ Len(p \o r) = Len(p) + Len(r)
        /\ \A i \in 1 .. Len(p) + Len(r) :
             (p \o r)[i] = IF i <= Len(p) THEN p[i] ELSE r[i - Len(p)]
    BY <1>2, <2>5, ConcatProperties
  <2>8. Len(p) + Len(r) = d - a + 1 /\ Len(p) = b - a + 1
    BY <1>1, <1>2, <2>5
  <2>9. ASSUME NEW i \in 1 .. d - a + 1
        PROVE  (p \o r)[i] = z[i]
    <3>. DEFINE k == a + i - 1
    <3>1. k \in a .. d /\ k - a + 1 = i /\ k \in Nat
      BY <1>1
    <3>2. z[i] = k
      BY <2>6, <3>1
    <3>3. CASE i <= Len(p)
      <4>1. k \in a .. b
        BY <1>1, <2>8, <3>1, <3>3
      <4>2. p[i] = k
        BY <1>2, <3>1, <4>1
      <4>3. (p \o r)[i] = p[i]
        BY <2>7, <2>8, <3>3
      <4>. QED BY <3>2, <4>2, <4>3
    <3>4. CASE ~(i <= Len(p))
      <4>1. i - Len(p) \in 1 .. d - b /\ b + (i - Len(p)) = k
        BY <1>1, <2>8, <3>4
      <4>2. r[i - Len(p)] = k
        BY <2>5, <4>1
      <4>3. (p \o r)[i] = r[i - Len(p)]
        BY <2>7, <2>8, <3>4
      <4>. QED BY <3>2, <4>2, <4>3
    <3>. QED BY <3>3, <3>4
  <2>10. p \o r = z
    BY <2>6, <2>7, <2>8, <2>9, SeqEqual
  <2>. QED BY <1>1, <1>7, <2>3, <2>10 DEF p, q, r, z
<1>. QED BY <1>1, <1>6, <1>7

(* An IMU error between two states: its measurements cover the time between  *)
(* them, and if it was integrated, it was all of it.                         *)
LinkOf(link, from, to) ==
  /\ from \in Id /\ to \in Id /\ from < to
  /\ link \in [deque : Seq(1 .. Len(Imu)), t0 : Int, t1 : Int,
               done : BOOLEAN, sum : Int]
  /\ link.t0 = Time(from) /\ link.t1 = Time(to)
  /\ \E a \in 1 .. Len(Imu), b \in 1 .. Len(Imu) :
       /\ b \in a .. Len(Imu) /\ link.deque = Run(a, b)
       /\ Stamp(a) <= Time(from) /\ Time(to) <= Stamp(b)
  /\ link.done => link.sum = ExactIntegral(Time(from), Time(to))

(* Measurements that cover the time between two states give its integral.    *)
LEMMA RunCovers ==
  ASSUME NEW from \in Id, NEW to \in Id, from < to,
         NEW a \in 1 .. Len(Imu), NEW b \in a .. Len(Imu),
         Stamp(a) <= Time(from), Time(to) <= Stamp(b)
  PROVE  /\ Integral(Run(a, b), Time(from), Time(to))
              = ExactIntegral(Time(from), Time(to))
         /\ Area[Time(from)] \in Int /\ Area[Time(to)] \in Int
         /\ ExactIntegral(Time(from), Time(to)) \in Int
<1>1. /\ from \in Int /\ to \in Int /\ Time(from) \in Int /\ Time(to) \in Int
      /\ Time(from) < Time(to) /\ b \in 1 .. Len(Imu) /\ Len(Imu) \in Nat
  <2>1. from \in Int /\ to \in Int /\ b \in 1 .. Len(Imu) /\ Len(Imu) \in Nat
    BY Measurements DEF Id
  <2>. QED BY <2>1, Times
<1>2. Spanned(a, b, Time(from), Time(to))
  <2>1. \E n \in 1 .. Len(Imu) : Time(from) < Stamp(n) /\ Stamp(n) <= Time(to)
    BY MeasuredBetween
  <2>. QED BY <1>1, <2>1 DEF Spanned
<1>3. Covered(Time(from)) /\ Covered(Time(to))
  <2>1. /\ 1 \in 1 .. Len(Imu) /\ Len(Imu) \in 1 .. Len(Imu)
        /\ a \in Nat /\ b \in Nat
    BY <1>1
  <2>2. /\ Stamp(1) \in Int /\ Stamp(a) \in Int /\ Stamp(b) \in Int
        /\ Stamp(Len(Imu)) \in Int
    BY <1>1, <2>1, Measurements
  <2>3. Stamp(1) <= Stamp(a)
    <3>1. a = 1 \/ Stamp(1) < Stamp(a)
      BY <2>1, StampsIncrease
    <3>. QED BY <2>2, <3>1
  <2>4. Stamp(b) <= Stamp(Len(Imu))
    <3>1. b = Len(Imu) \/ Stamp(b) < Stamp(Len(Imu))
      BY <1>1, <2>1, StampsIncrease
    <3>. QED BY <2>2, <3>1
  <2>. QED BY <1>1, <2>2, <2>3, <2>4 DEF Covered
<1>4. Area[Time(from)] \in Int /\ Area[Time(to)] \in Int
  BY <1>3, AreaInt
<1>. QED BY <1>2, <1>4, IntegralExact DEF ExactIntegral

(* What the optimisations make of an IMU error is one still, and exact.      *)
LEMMA EvaluateOf ==
  ASSUME NEW link, NEW from, NEW to, LinkOf(link, from, to)
  PROVE  /\ LinkOf(Evaluate(link), from, to)
         /\ Evaluate(link).sum = ExactIntegral(Time(from), Time(to))
         /\ RedoPreintegration(link).sum = ExactIntegral(Time(from), Time(to))
<1>. DEFINE sum == Integral(link.deque, link.t0, link.t1)
            again == [link EXCEPT !.done = TRUE, !.sum = sum]
<1>1. /\ from \in Id /\ to \in Id /\ from < to
      /\ link \in [deque : Seq(1 .. Len(Imu)), t0 : Int, t1 : Int,
                   done : BOOLEAN, sum : Int]
      /\ link.t0 = Time(from) /\ link.t1 = Time(to)
      /\ link.done => link.sum = ExactIntegral(Time(from), Time(to))
  BY DEF LinkOf
<1>2. PICK a \in 1 .. Len(Imu), b \in 1 .. Len(Imu) :
        /\ b \in a .. Len(Imu) /\ link.deque = Run(a, b)
        /\ Stamp(a) <= Time(from) /\ Time(to) <= Stamp(b)
  BY DEF LinkOf
<1>3. sum = ExactIntegral(Time(from), Time(to)) /\ sum \in Int
  BY <1>1, <1>2, RunCovers
<1>. HIDE DEF sum
<1>4. /\ again \in [deque : Seq(1 .. Len(Imu)), t0 : Int, t1 : Int,
                    done : BOOLEAN, sum : Int]
      /\ again.t0 = link.t0 /\ again.t1 = link.t1 /\ again.deque = link.deque
      /\ again.sum = sum
  BY <1>1, <1>3
<1>5. RedoPreintegration(link) = again
  BY DEF RedoPreintegration, sum
<1>. HIDE DEF again
<1>6. LinkOf(again, from, to)
  BY <1>1, <1>2, <1>3, <1>4 DEF LinkOf
<1>. QED BY <1>1, <1>3, <1>4, <1>5, <1>6 DEF Evaluate

(* The IMU error of a new state leads from the one before.                   *)
LEMMA ImuLinkOf ==
  ASSUME NEW to \in Id, to # 1
  PROVE  LinkOf(ImuLink(to - 1, to), to - 1, to)
<1>. DEFINE link == ImuLink(to - 1, to)
<1>1. PICK a \in 1 .. Len(Imu), b \in 1 .. Len(Imu) :
        /\ b \in a .. Len(Imu) /\ Deque(to) = Run(a, b)
        /\ Stamp(a) <= Time(to - 1) /\ Time(to) <= Stamp(b)
  BY DequeIs
<1>2. to - 1 \in Id /\ to - 1 < to /\ to \in Int /\ to - 1 \in Int
  BY Sizes DEF Id
<1>3. Time(to - 1) \in Int /\ Time(to) \in Int
  BY <1>2, Times
<1>4. Deque(to) \in Seq(1 .. Len(Imu))
  BY <1>1, RunIs
<1>5. /\ link \in [deque : Seq(1 .. Len(Imu)), t0 : Int, t1 : Int,
                   done : BOOLEAN, sum : Int]
      /\ link.t0 = Time(to - 1) /\ link.t1 = Time(to)
      /\ link.deque = Deque(to) /\ ~link.done
  BY <1>3, <1>4 DEF ImuLink
<1>. HIDE DEF link
<1>. QED BY <1>1, <1>2, <1>5 DEF LinkOf, link

(* Two of them that meet make one.                                           *)
LEMMA AppendedOf ==
  ASSUME NEW link, NEW more, NEW from, NEW via, NEW to,
         LinkOf(link, from, via), LinkOf(more, via, to)
  PROVE  LinkOf(Appended(link, more), from, to)
<1>. DEFINE M == [deque : Seq(1 .. Len(Imu)), t0 : Int, t1 : Int,
                  done : BOOLEAN, sum : Int]
            deque == Joined(link.deque, more.deque)
            sum == link.sum + Integral(more.deque, link.t1, more.t1)
            both == [link EXCEPT !.deque = deque, !.t1 = more.t1, !.sum = sum]
<1>1. /\ from \in Id /\ via \in Id /\ to \in Id /\ from < via /\ via < to
      /\ link \in M /\ more \in M
      /\ link.t0 = Time(from) /\ link.t1 = Time(via) /\ more.t1 = Time(to)
      /\ link.done => link.sum = ExactIntegral(Time(from), Time(via))
  BY DEF LinkOf
<1>2. PICK a \in 1 .. Len(Imu), b \in 1 .. Len(Imu) :
        /\ b \in a .. Len(Imu) /\ link.deque = Run(a, b)
        /\ Stamp(a) <= Time(from) /\ Time(via) <= Stamp(b)
  BY DEF LinkOf
<1>3. PICK c \in 1 .. Len(Imu), d \in 1 .. Len(Imu) :
        /\ d \in c .. Len(Imu) /\ more.deque = Run(c, d)
        /\ Stamp(c) <= Time(via) /\ Time(to) <= Stamp(d)
  BY DEF LinkOf
<1>4. /\ a \in Nat /\ b \in Nat /\ c \in Nat /\ d \in Nat /\ Len(Imu) \in Nat
      /\ b \in 1 .. Len(Imu) /\ d \in 1 .. Len(Imu) /\ a <= b /\ c <= d
  BY <1>2, <1>3, Measurements
<1>5. /\ Stamp(b) \in Int /\ Stamp(c) \in Int /\ Stamp(d) \in Int
  BY <1>4, Measurements
<1>6. /\ from \in Int /\ via \in Int /\ to \in Int
      /\ Time(from) \in Int /\ Time(via) \in Int /\ Time(to) \in Int
      /\ from < to
  <2>1. from \in Int /\ via \in Int /\ to \in Int
    BY <1>1 DEF Id
  <2>. QED BY <1>1, <2>1, Times
<1>7. c <= b
  <2>1. b < c => Stamp(b) < Stamp(c)
    BY <1>4, StampsIncrease
  <2>. QED BY <1>2, <1>3, <1>4, <1>5, <1>6, <2>1
<1>. DEFINE e == IF d <= b THEN b ELSE d
<1>8. deque = Run(a, e) /\ e \in a .. Len(Imu) /\ Time(to) <= Stamp(e)
  <2>1. deque = Run(a, e)
    BY <1>2, <1>3, <1>7, JoinedIs
  <2>2. e \in a .. Len(Imu)
    BY <1>4, <1>7
  <2>3. d <= b => Stamp(d) <= Stamp(b)
    <3>1. d < b => Stamp(d) < Stamp(b)
      BY <1>4, StampsIncrease
    <3>. QED BY <1>4, <1>5, <3>1
  <2>4. Time(to) <= Stamp(e)
    BY <1>3, <1>5, <1>6, <2>3
  <2>. QED BY <2>1, <2>2, <2>4
<1>. HIDE DEF e, deque
<1>9. deque \in Seq(1 .. Len(Imu))
  BY <1>8, RunIs
<1>10. /\ Integral(more.deque, link.t1, more.t1)
            = ExactIntegral(Time(via), Time(to))
       /\ Area[Time(via)] \in Int /\ Area[Time(to)] \in Int
       /\ Area[Time(from)] \in Int
       /\ ExactIntegral(Time(via), Time(to)) \in Int
  <2>1. /\ Integral(Run(c, d), Time(via), Time(to))
             = ExactIntegral(Time(via), Time(to))
        /\ Area[Time(via)] \in Int /\ Area[Time(to)] \in Int
        /\ ExactIntegral(Time(via), Time(to)) \in Int
    BY <1>1, <1>3, RunCovers
  <2>2. Area[Time(from)] \in Int
    BY <1>1, <1>2, RunCovers
  <2>. QED BY <1>1, <1>3, <2>1, <2>2
<1>11. sum \in Int
  <2>1. link.sum \in Int
    BY <1>1
  <2>. QED BY <1>10, <2>1
<1>12. link.done => sum = ExactIntegral(Time(from), Time(to))
  <2>. SUFFICES ASSUME link.done
                PROVE  sum = ExactIntegral(Time(from), Time(to))
    OBVIOUS
  <2>1. sum = (Area[Time(via)] - Area[Time(from)])
                + (Area[Time(to)] - Area[Time(via)])
    BY <1>1, <1>10 DEF ExactIntegral
  <2>. HIDE DEF sum
  <2>. QED BY <1>10, <2>1 DEF ExactIntegral
<1>. HIDE DEF sum
<1>13. /\ both \in M /\ both.t0 = link.t0 /\ both.t1 = more.t1
       /\ both.deque = deque /\ both.sum = sum /\ (both.done <=> link.done)
  <2>1. more.t1 \in Int
    BY <1>1
  <2>. QED BY <1>1, <1>9, <1>11, <2>1
<1>14. Appended(link, more) = both
  BY DEF Appended, deque, sum
<1>. HIDE DEF both
<1>15. LinkOf(both, from, to)
  <2>1. both.t0 = Time(from) /\ both.t1 = Time(to)
    BY <1>1, <1>13
  <2>2. \E first, last \in 1 .. Len(Imu) :
          /\ last \in first .. Len(Imu) /\ both.deque = Run(first, last)
          /\ Stamp(first) <= Time(from) /\ Time(to) <= Stamp(last)
    <3>1. e \in 1 .. Len(Imu)
      BY <1>4, <1>8
    <3>. QED BY <1>2, <1>8, <1>13, <3>1
  <2>3. both.done => both.sum = ExactIntegral(Time(from), Time(to))
    BY <1>12, <1>13
  <2>. QED BY <1>1, <1>6, <1>13, <2>1, <2>2, <2>3 DEF LinkOf
<1>. QED BY <1>14, <1>15

(* ------------------------------------------------------------------------- *)
(* The IMU errors of a graph make a chain.                                   *)

(* The state before s in S.                                                  *)
Previous(S, s) == Max({x \in S : x < s})

(* A state other than the first has one before it.                           *)
LEMMA PreviousIs ==
  ASSUME NEW S, S \subseteq Id, 1 \in S, NEW s \in S, s # 1
  PROVE  /\ Previous(S, s) \in S /\ Previous(S, s) < s
         /\ \A x \in S : x < s => x <= Previous(S, s)
<1>. DEFINE T == {x \in S : x < s}
<1>1. T \subseteq Id /\ 1 \in T
  <2>1. s \in Id
    OBVIOUS
  <2>2. 1 < s
    BY <2>1 DEF Id
  <2>. QED BY <2>2
<1>. HIDE DEF T
<1>2. IsMax(T, Max(T))
  BY <1>1, StatesOrdered
<1>. HIDE DEF T
<1>3. Max(T) \in T /\ \A x \in T : x <= Max(T)
  BY <1>2 DEF IsMax
<1>4. Previous(S, s) = Max(T)
  BY DEF Previous, T
<1>. QED BY <1>3, <1>4 DEF T

(* It is the one with this property.                                         *)
LEMMA PreviousFound ==
  ASSUME NEW S, S \subseteq Id, NEW s \in S, NEW p \in S, p < s,
         \A x \in S : x < s => x <= p
  PROVE  Previous(S, s) = p
<1>1. IsMax({x \in S : x < s}, p)
  BY DEF IsMax, Id
<1>. QED BY <1>1, MaxIs DEF Previous

(* The IMU errors link each state with the one before.                       *)
Chained(S, links_) ==
  /\ S \subseteq Id /\ links_ = [s \in Id |-> links_[s]]
  /\ \A s \in S \ {1} : LinkOf(links_[s], Previous(S, s), s)

(* Elimination of a state that is neither the first nor the newest.          *)
LEMMA MergeChained ==
  ASSUME NEW S, NEW links_, Chained(S, links_), 1 \in S,
         NEW s \in S, s # 1, NEW later \in S, s < later,
         NEW T, {x \in T : x > s} = {x \in S : x > s}
  PROVE  Chained(S \ {s}, MergeImu(links_, T, s))
<1>. DEFINE U == {x \in S : x > s}
            next == Min(U)
            p == Previous(S, s)
            M == MergeImu(links_, T, s)
<1>1. /\ S \subseteq Id /\ links_ = [z \in Id |-> links_[z]]
      /\ \A z \in S \ {1} : LinkOf(links_[z], Previous(S, z), z)
      /\ \A x \in S : x \in Nat /\ x >= 1
  <2>1. S \subseteq Id
    BY DEF Chained
  <2>2. \A x \in S : x \in Nat /\ x >= 1
    BY <2>1 DEF Id
  <2>. QED BY <2>1, <2>2 DEF Chained
<1>2. next \in S /\ s < next /\ \A x \in S : s < x => next <= x
  <2>1. U \subseteq Id /\ later \in U
    BY <1>1
  <2>2. IsMin(U, Min(U))
    <3>. HIDE DEF U
    <3>. QED BY <2>1, StatesOrdered
  <2>3. next \in U /\ \A x \in U : next <= x
    <3>. HIDE DEF U
    <3>. QED BY <2>2 DEF IsMin
  <2>. HIDE DEF next
  <2>. QED BY <1>1, <2>3
<1>3. M = [links_ EXCEPT ![next] = Appended(links_[s], links_[next]),
                         ![s] = NoLink]
  BY DEF MergeImu
<1>4. p \in S /\ p < s /\ \A x \in S : x < s => x <= p
  BY <1>1, PreviousIs
<1>. HIDE DEF next, p, M, U
<1>5. /\ M = [z \in Id |-> M[z]]
      /\ M[next] = Appended(links_[s], links_[next])
      /\ \A z \in Id \ {s, next} : M[z] = links_[z]
  <2>1. next \in Id /\ s \in Id /\ next # s
    BY <1>1, <1>2
  <2>2. DOMAIN links_ = Id
    BY <1>1
  <2>. QED BY <1>3, <2>1, <2>2
<1>6. next # 1 /\ LinkOf(links_[next], s, next)
  <2>1. next # 1
    BY <1>1, <1>2
  <2>2. \A x \in S : x < next => x <= s
    BY <1>1, <1>2
  <2>3. Previous(S, next) = s
    BY <1>1, <1>2, <2>2, PreviousFound
  <2>. QED BY <1>1, <1>2, <2>1, <2>3
<1>7. LinkOf(links_[s], p, s)
  BY <1>1 DEF p
<1>8. LinkOf(M[next], p, next)
  BY <1>5, <1>6, <1>7, AppendedOf
<1>9. ASSUME NEW z \in (S \ {s}) \ {1}
      PROVE  LinkOf(M[z], Previous(S \ {s}, z), z)
  <2>. DEFINE R == S \ {s}
  <2>1. R \subseteq Id /\ z \in R /\ z \in S \ {1} /\ z # s
    BY <1>1
  <2>2. CASE z = next
    <3>1. p \in R /\ p < next /\ \A x \in R : x < next => x <= p
      BY <1>1, <1>2, <1>4
    <3>2. Previous(R, next) = p
      <4>. HIDE DEF R
      <4>. QED BY <2>1, <2>2, <3>1, PreviousFound
    <3>. QED BY <1>8, <2>2, <3>2
  <2>3. CASE z # next
    <3>. DEFINE q == Previous(S, z)
    <3>1. q \in S /\ q < z /\ \A x \in S : x < z => x <= q
      BY <1>1, <2>1, PreviousIs
    <3>. HIDE DEF q
    <3>2. q # s
      <4>. SUFFICES ASSUME q = s PROVE FALSE
        OBVIOUS
      <4>1. s < z
        BY <3>1
      <4>2. next <= z /\ next < z
        BY <1>1, <1>2, <2>1, <2>3, <4>1
      <4>3. next <= s
        BY <1>2, <3>1, <4>2
      <4>. QED BY <1>1, <1>2, <4>3
    <3>3. Previous(R, z) = q
      <4>1. q \in R /\ \A x \in R : x < z => x <= q
        BY <3>1, <3>2
      <4>. HIDE DEF R
      <4>. QED BY <2>1, <3>1, <4>1, PreviousFound
    <3>4. M[z] = links_[z]
      BY <1>5, <2>1, <2>3
    <3>. QED BY <1>1, <2>1, <3>3, <3>4 DEF q
  <2>. QED BY <2>2, <2>3
<1>. QED BY <1>1, <1>5, <1>9 DEF Chained, M

(* A new state, linked to the newest one.                                    *)
LEMMA AddChained ==
  ASSUME NEW S, NEW links_, Chained(S, links_), NEW id \in Id,
         S = {} => id = 1,
         S # {} => id - 1 \in S, \A x \in S : x < id,
         NEW link, id # 1 => link = ImuLink(id - 1, id)
  PROVE  Chained(S \cup {id}, [links_ EXCEPT ![id] = link])
<1>. DEFINE T == S \cup {id}
            M == [links_ EXCEPT ![id] = link]
<1>1. /\ S \subseteq Id /\ links_ = [z \in Id |-> links_[z]]
      /\ \A z \in S \ {1} : LinkOf(links_[z], Previous(S, z), z)
      /\ T \subseteq Id /\ id \in Nat
  <2>1. id \in Nat
    BY DEF Id
  <2>. QED BY <2>1 DEF Chained
<1>2. /\ M = [z \in Id |-> M[z]] /\ M[id] = link
      /\ \A z \in Id \ {id} : M[z] = links_[z]
  <2>1. DOMAIN links_ = Id
    BY <1>1
  <2>. QED BY <2>1
<1>. HIDE DEF M
<1>3. ASSUME NEW z \in T \ {1}
      PROVE  LinkOf(M[z], Previous(T, z), z)
  <2>1. CASE z = id
    <3>1. id # 1 /\ id - 1 \in T /\ id - 1 < id
      BY <1>1, <2>1
    <3>2. \A x \in T : x < id => x <= id - 1
      BY <1>1 DEF Id
    <3>3. Previous(T, id) = id - 1
      <4>. HIDE DEF T
      <4>. QED BY <1>1, <2>1, <3>1, <3>2, PreviousFound
    <3>. QED BY <1>2, <2>1, <3>1, <3>3, ImuLinkOf
  <2>2. CASE z # id
    <3>1. z \in S \ {1} /\ z \in Id \ {id} /\ ~(id < z)
      BY <1>1, <2>2 DEF Id
    <3>2. {x \in T : x < z} = {x \in S : x < z}
      BY <3>1
    <3>3. Previous(T, z) = Previous(S, z)
      BY <3>2 DEF Previous
    <3>. QED BY <1>1, <1>2, <3>1, <3>3
  <2>. QED BY <2>1, <2>2
<1>. QED BY <1>1, <1>2, <1>3 DEF Chained, M

(* Integrating some of the errors, or taking them from the other graph.      *)
LEMMA SomeChained ==
  ASSUME NEW S, NEW links_, Chained(S, links_),
         NEW M, M = [s \in Id |-> M[s]],
         \A s \in S \ {1} : LinkOf(links_[s], Previous(S, s), s)
                              => LinkOf(M[s], Previous(S, s), s)
  PROVE  Chained(S, M)
BY DEF Chained

(* The elimination of the states that are gone is well defined.              *)
Eliminations(f, n, g) ==
  f = [s \in 0 .. n |->
         IF s = 0 THEN g.imu
         ELSE IF s \in eliminateStates THEN MergeImu(f[s - 1], g.states, s)
         ELSE f[s - 1]]

(* By a least number of eliminations that is not defined.                    *)
LEMMA EliminationsExist ==
  ASSUME NEW n \in Nat, NEW g
  PROVE  \E f : Eliminations(f, n, g)
<1>. DEFINE stuck == {m \in Nat : ~ \E f : Eliminations(f, m, g)}
            Step(before, s) == IF s \in eliminateStates
                               THEN MergeImu(before, g.states, s) ELSE before
<1>. SUFFICES ASSUME stuck # {} PROVE FALSE
  OBVIOUS
<1>0. \A f, m : Eliminations(f, m, g) <=>
        f = [s \in 0 .. m |-> IF s = 0 THEN g.imu ELSE Step(f[s - 1], s)]
  BY DEF Eliminations
<1>1. PICK m \in stuck : \A x \in stuck : m <= x
  BY NatsHaveMin DEF HasMin, IsMin
<1>. HIDE DEF Step
<1>2. CASE m = 0
  <2>. DEFINE h == [s \in 0 .. 0 |-> g.imu]
  <2>1. h = [s \in 0 .. 0 |-> IF s = 0 THEN g.imu ELSE Step(h[s - 1], s)]
    OBVIOUS
  <2>2. Eliminations(h, 0, g)
    BY <1>0, <2>1
  <2>. QED BY <1>1, <1>2, <2>2
<1>3. CASE m # 0
  <2>1. m - 1 \in Nat /\ m - 1 \notin stuck
    BY <1>1, <1>3
  <2>2. PICK f : Eliminations(f, m - 1, g)
    BY <2>1
  <2>. DEFINE h == [s \in 0 .. m |-> IF s = m THEN Step(f[m - 1], m) ELSE f[s]]
  <2>3. ASSUME NEW s \in 0 .. m
        PROVE  h[s] = IF s = 0 THEN g.imu ELSE Step(h[s - 1], s)
    <3>1. CASE s = m
      <4>1. h[s - 1] = f[m - 1]
        BY <1>3, <3>1
      <4>. QED BY <1>3, <3>1, <4>1
    <3>2. CASE s # m
      <4>1. s \in 0 .. (m - 1) /\ h[s] = f[s]
        BY <3>2
      <4>2. f = [i \in 0 .. (m - 1) |-> IF i = 0 THEN g.imu ELSE Step(f[i - 1], i)]
        BY <1>0, <2>2
      <4>3. f[s] = IF s = 0 THEN g.imu ELSE Step(f[s - 1], s)
        BY <4>1, <4>2
      <4>4. s # 0 => h[s - 1] = f[s - 1]
        BY <3>2
      <4>. QED BY <4>1, <4>3, <4>4
    <3>. QED BY <3>1, <3>2
  <2>4. h = [s \in 0 .. m |-> h[s]]
    OBVIOUS
  <2>5. Eliminations(h, m, g)
    <3>. HIDE DEF h
    <3>1. h = [s \in 0 .. m |-> IF s = 0 THEN g.imu ELSE Step(h[s - 1], s)]
      BY <2>3, <2>4
    <3>. QED BY <1>0, <3>1
  <2>. QED BY <1>1, <2>5
<1>. QED BY <1>2, <1>3

(* The eliminated states leave the chain, the oldest first.                  *)
LEMMA WithoutChained ==
  ASSUME NEW g, Chained(g.states, g.imu), 1 \in g.states,
         eliminateStates \subseteq g.states, 1 \notin eliminateStates,
         NEW later \in g.states, later \notin eliminateStates,
         \A e \in eliminateStates : e < later
  PROVE  Chained(WithoutEliminated(g).states, WithoutEliminated(g).imu)
<1>. DEFINE f == CHOOSE h : Eliminations(h, MaxFrames, g)
            left(n) == g.states \ {e \in eliminateStates : e <= n}
            bad == {n \in Nat : n <= MaxFrames /\ ~Chained(left(n), f[n])}
<1>1. /\ WithoutEliminated(g).states = g.states \ eliminateStates
      /\ WithoutEliminated(g).imu = f[MaxFrames]
  BY DEF WithoutEliminated, Eliminations
<1>2. Eliminations(f, MaxFrames, g)
  BY Sizes, EliminationsExist
<1>. HIDE DEF f
<1>3. /\ f[0] = g.imu
      /\ \A s \in 1 .. MaxFrames :
           /\ s \in eliminateStates => f[s] = MergeImu(f[s - 1], g.states, s)
           /\ s \notin eliminateStates => f[s] = f[s - 1]
  <2>. DEFINE Step(before, s) == IF s \in eliminateStates
                                 THEN MergeImu(before, g.states, s) ELSE before
  <2>1. f = [s \in 0 .. MaxFrames |-> IF s = 0 THEN g.imu ELSE Step(f[s - 1], s)]
    BY <1>2 DEF Eliminations
  <2>. HIDE DEF Step
  <2>2. f[0] = g.imu /\ \A s \in 1 .. MaxFrames : f[s] = Step(f[s - 1], s)
    BY <2>1, Sizes
  <2>. QED BY <2>2, Zenon DEF Step
<1>4. /\ g.states \subseteq Id /\ MaxFrames \in Nat
      /\ \A x \in g.states : x \in Nat /\ x >= 1 /\ x <= MaxFrames
  <2>1. g.states \subseteq Id
    BY DEF Chained
  <2>. QED BY <2>1, Sizes DEF Id
<1>5. bad = {}
  <2>. SUFFICES ASSUME bad # {}
                PROVE  FALSE
    OBVIOUS
  <2>1. PICK n \in bad : \A x \in bad : n <= x
    <3>1. \A x \in bad : x \in Nat
      OBVIOUS
    <3>. HIDE DEF bad
    <3>. QED BY <3>1, NatsHaveMin DEF HasMin, IsMin
  <2>2. n \in Nat /\ n <= MaxFrames /\ ~Chained(left(n), f[n])
    BY <2>1
  <2>3. n # 0
    <3>1. left(0) = g.states
      BY <1>4
    <3>. HIDE DEF left
    <3>. QED BY <1>3, <2>2, <3>1
  <2>. DEFINE m == n - 1
  <2>4. m \in Nat /\ m <= MaxFrames /\ n \in 1 .. MaxFrames /\ m < n
    BY <1>4, <2>2, <2>3
  <2>5. Chained(left(m), f[m])
    <3>1. m \notin bad
      BY <2>1, <2>4
    <3>. HIDE DEF left, m
    <3>. QED BY <2>4, <3>1
  <2>6. CASE n \in eliminateStates
    <3>1. left(n) = left(m) \ {n}
      BY <1>4, <2>2, <2>6
    <3>2. /\ n \in left(m) /\ n # 1 /\ 1 \in left(m) /\ later \in left(m)
          /\ n < later
      BY <1>4, <2>2, <2>6
    <3>3. {x \in g.states : x > n} = {x \in left(m) : x > n}
      BY <1>4, <2>2
    <3>4. f[n] = MergeImu(f[m], g.states, n)
      BY <1>3, <2>4, <2>6
    <3>. HIDE DEF left, m
    <3>5. Chained(left(m) \ {n}, MergeImu(f[m], g.states, n))
      BY <2>5, <3>2, <3>3, MergeChained
    <3>. QED BY <2>2, <3>1, <3>4, <3>5
  <2>7. CASE n \notin eliminateStates
    <3>1. left(n) = left(m)
      BY <1>4, <2>2, <2>7
    <3>2. f[n] = f[m]
      BY <1>3, <2>4, <2>7
    <3>. HIDE DEF left, m
    <3>. QED BY <2>2, <2>5, <3>1, <3>2
  <2>. QED BY <2>6, <2>7
<1>6. left(MaxFrames) = g.states \ eliminateStates
  BY <1>4
<1>7. Chained(left(MaxFrames), f[MaxFrames])
  <2>1. MaxFrames \notin bad
    BY <1>5
  <2>. HIDE DEF left
  <2>. QED BY <1>4, <2>1
<1>. HIDE DEF left
<1>. QED BY <1>1, <1>6, <1>7

(* The first state stays, as a keyframe; each state that waits follows one   *)
(* of the full graph or another one that waits, and what is to be eliminated *)
(* is one of these.                                                          *)
FirstInv ==
  \/ rtStates = {} /\ ~Deferring
  \/ /\ 1 \in rtStates /\ 1 \in fullStates
     /\ \/ 1 \in keyframes
        \/ rtStates = {1} /\ phase \in {"matching", "recognising", "deciding"}

WaitingInv ==
  /\ \A b \in ToSet(backlog) : b - 1 \in fullStates \cup ToSet(backlog)
  /\ eliminateStates \subseteq fullStates \cup ToSet(backlog)

LinksInv ==
  /\ FirstInv /\ WaitingInv
  /\ Chained(rtStates, rtImu) /\ Chained(fullStates, fullImu)

(* The full graph takes up the states that waited.                           *)
LEMMA BacklogChained ==
  ASSUME WindowInv, StatesInv, LinksInv
  PROVE  Chained(WithBacklog.states, WithBacklog.imu)
<1>. DEFINE waiting == ToSet(backlog)
            states == fullStates \cup waiting
            M == [s \in Id |-> IF s \in waiting
                               THEN ImuLink(Max({x \in states : x < s}), s)
                               ELSE fullImu[s]]
<1>1. WithBacklog.states = states /\ WithBacklog.imu = M
  BY DEF WithBacklog
<1>2. /\ states \subseteq Id /\ waiting \subseteq Id
      /\ \A b \in waiting : b - 1 \in states
      /\ \A b \in waiting, x \in fullStates : x < b
      /\ \A s \in fullStates \ {1} : LinkOf(fullImu[s], Previous(fullStates, s), s)
  <2>1. fullStates \subseteq Id /\ backlog \in Seq(Id)
    BY DEF StatesInv
  <2>2. ToSet(backlog) \subseteq Id
    BY <2>1 DEF ToSet
  <2>. QED BY <2>1, <2>2 DEF StatesInv, LinksInv, WaitingInv, Chained
<1>3. M = [s \in Id |-> M[s]]
  OBVIOUS
<1>4. \A s \in Id : M[s] = IF s \in waiting THEN ImuLink(Previous(states, s), s)
                           ELSE fullImu[s]
  BY DEF Previous
<1>. HIDE DEF M
<1>5. ASSUME NEW s \in states \ {1}
      PROVE  LinkOf(M[s], Previous(states, s), s)
  <2>1. s \in Id /\ s \in Nat /\ \A x \in states : x \in Nat
    BY <1>2 DEF Id
  <2>2. CASE s \in waiting
    <3>1. s - 1 \in states /\ s - 1 < s /\ \A x \in states : x < s => x <= s - 1
      BY <1>2, <2>1, <2>2
    <3>2. Previous(states, s) = s - 1
      <4>. HIDE DEF states, waiting
      <4>. QED BY <1>2, <3>1, PreviousFound
    <3>. HIDE DEF states, waiting
    <3>. QED BY <1>4, <2>1, <2>2, <3>2, ImuLinkOf
  <2>3. CASE s \notin waiting
    <3>1. s \in fullStates \ {1}
      BY <2>3
    <3>2. {x \in states : x < s} = {x \in fullStates : x < s}
      <4>1. \A b \in waiting : s < b /\ b \in Nat
        BY <1>2, <2>1, <3>1
      <4>2. \A b \in waiting : ~(b < s)
        BY <2>1, <4>1
      <4>. QED BY <4>2
    <3>3. Previous(states, s) = Previous(fullStates, s)
      BY <3>2 DEF Previous
    <3>. QED BY <1>2, <1>4, <2>1, <2>3, <3>1, <3>3
  <2>. QED BY <2>2, <2>3
<1>. QED BY <1>1, <1>2, <1>3, <1>5 DEF Chained

(* The first frame stays.                                                    *)
LEMMA FirstStep ==
  ASSUME FlagInv, WindowInv, StatesInv, FirstInv, [Next]_vars
  PROVE  FirstInv'
<1>. USE DEF Go, Running, window, flags
<1>1. CASE AddStates
  <2>. DEFINE id == IF rtStates = {} THEN 1 ELSE Newest + 1
  <2>1. /\ rtStates' = rtStates \cup {id} /\ UNCHANGED <<keyframes, flags>>
        /\ phase = "idle" /\ phase' = "matching"
        /\ IF Deferring THEN UNCHANGED fullStates
                        ELSE fullStates' = fullStates \cup {id}
    BY <1>1 DEF AddStates
  <2>2. CASE rtStates = {}
    <3>1. id = 1 /\ ~Deferring
      BY <2>2 DEF FirstInv
    <3>. HIDE DEF id
    <3>. QED BY <2>1, <2>2, <3>1 DEF FirstInv
  <2>3. CASE rtStates # {}
    <3>1. 1 \in rtStates /\ 1 \in fullStates /\ 1 \in keyframes
      BY <2>1, <2>3 DEF FirstInv
    <3>. HIDE DEF id
    <3>. QED BY <2>1, <3>1 DEF FirstInv
  <2>. QED BY <2>2, <2>3
<1>2. CASE EliminateImuFrame
  <2>. DEFINE s == Min(imuFrames)
  <2>1. s \in rtStates /\ phase = "eliminating"
    BY <1>2, OldestImuFrame
  <2>2. /\ s \notin keyframes /\ rtStates' = rtStates \ {s}
        /\ UNCHANGED keyframes
        /\ UNCHANGED fullStates \/ fullStates' = fullStates \ {s}
    BY <1>2 DEF EliminateImuFrame, Forget
  <2>. HIDE DEF s
  <2>3. 1 \in rtStates /\ 1 \in fullStates /\ 1 \in keyframes
    BY <2>1 DEF FirstInv
  <2>. QED BY <2>2, <2>3 DEF FirstInv
<1>3. CASE ImportFullGraph \/ FinalImport
  <2>1. PICK from \in {"importing", "stopping"}, to \in {"publishing", "parting"} :
          Synchronise(from, to)
    BY <1>3 DEF ImportFullGraph, FinalImport
  <2>2. /\ UNCHANGED <<rtStates, keyframes>> /\ fullStates' = rtStates
        /\ phase = from
    BY <2>1, StatesSynchronise DEF Synchronise
  <2>3. rtStates # {}
    BY <2>2 DEF WindowInv
  <2>. QED BY <2>2, <2>3 DEF FirstInv
<1>4. ASSUME UNCHANGED <<rtStates, fullStates>>, keyframes \subseteq keyframes',
             \/ phase \notin {"matching", "recognising", "deciding"}
             \/ phase' \in {"matching", "recognising", "deciding"},
             Deferring' => Deferring \/ rtStates # {}
      PROVE  FirstInv'
  BY <1>4 DEF FirstInv
<1>5. CASE OptimiseNewest
  <2>1. UNCHANGED <<rtStates, fullStates, keyframes, flags>> /\ phase' = "recognising"
    BY <1>5 DEF OptimiseNewest
  <2>. QED BY <2>1, <1>4 DEF Deferring
<1>6. ASSUME NEW i \in Id, CloseLoop(i) PROVE FirstInv'
  <2>1. /\ UNCHANGED <<rtStates, fullStates, keyframes, closing, available>>
        /\ phase' = "deciding"
    BY <1>6 DEF CloseLoop
  <2>. QED BY <2>1, <1>4 DEF Deferring
<1>7. ASSUME NEW asKeyframe \in BOOLEAN, SetKeyframe(asKeyframe)
      PROVE  FirstInv'
  <2>1. /\ UNCHANGED <<rtStates, fullStates, flags>>
        /\ keyframes' = IF asKeyframe THEN keyframes \cup {Newest} ELSE keyframes
        /\ Cardinality(rtStates) < 4 => asKeyframe
        /\ phase \in {"recognising", "deciding"}
    BY <1>7 DEF SetKeyframe
  <2>2. 1 \in rtStates /\ 1 \in fullStates
    BY <2>1 DEF FirstInv, WindowInv
  <2>3. 1 \in keyframes'
    <3>1. CASE rtStates = {1}
      <4>1. Cardinality(rtStates) = 1
        BY <3>1, FS_Singleton
      <4>2. Newest = 1
        BY <3>1, NewestIs
      <4>. QED BY <2>1, <4>1, <4>2
    <3>2. CASE rtStates # {1}
      BY <2>1, <2>2, <3>2 DEF FirstInv
    <3>. QED BY <3>1, <3>2
  <2>. QED BY <2>1, <2>2, <2>3 DEF FirstInv
<1>8. CASE StartFull \/ FinishFull
  <2>1. /\ UNCHANGED <<rtStates, fullStates, keyframes, phase>>
        /\ Deferring' => Deferring \/ phase = "optimising"
    BY <1>8 DEF StartFull, FinishFull, Deferring
  <2>2. Deferring' => Deferring \/ rtStates # {}
    BY <2>1 DEF WindowInv
  <2>. QED BY <2>1, <2>2, <1>4
<1>9. CASE OptimiseRealtimeGraph \/ SkipImport \/ Publish \/ KeepAsKeyframe
           \/ Eliminated \/ FreezeOldStates \/ KeepLoopFrames \/ Expand \/ Stop
           \/ PublishImport \/ DoFinalBa
  <2>1. /\ UNCHANGED <<rtStates, fullStates, keyframes, flags>>
        /\ phase \notin {"matching", "recognising", "deciding"}
    BY <1>9 DEF OptimiseRealtimeGraph, SkipImport, Publish, KeepAsKeyframe,
       Eliminated, FreezeOldStates, KeepLoopFrames, Expand, Stop,
       PublishImport, DoFinalBa
  <2>. QED BY <2>1, <1>4 DEF Deferring
<1>10. ASSUME NEW m \in Id, ConvertKeyframe(m) \/ ConvertLoopFrame(m)
       PROVE  FirstInv'
  <2>1. /\ UNCHANGED <<rtStates, fullStates, keyframes, flags>>
        /\ phase \notin {"matching", "recognising", "deciding"}
    BY <1>10 DEF ConvertKeyframe, ConvertLoopFrame
  <2>. QED BY <2>1, <1>4 DEF Deferring
<1>11. CASE Finished \/ UNCHANGED vars
  <2>1. UNCHANGED <<rtStates, fullStates, keyframes, flags, phase>>
    BY <1>11 DEF Finished, vars
  <2>. QED BY <2>1, <1>4 DEF Deferring
<1>. QED BY <1>1, <1>2, <1>3, <1>5, <1>6, <1>7, <1>8, <1>9, <1>10, <1>11 DEF Next

(* addStates: the IMU error of the new frame goes where the frame goes.      *)
LEMMA LinksAdd ==
  ASSUME WindowInv, StatesInv, LinksInv, AddStates
  PROVE  WaitingInv' /\ Chained(rtStates, rtImu)' /\ Chained(fullStates, fullImu)'
<1>. DEFINE id == IF rtStates = {} THEN 1 ELSE Newest + 1
            link == IF rtStates = {} THEN NoLink ELSE ImuLink(Newest, id)
<1>1. /\ id \in Id /\ id \in Nat /\ \A s \in rtStates : s \in Nat /\ s < id
      /\ rtStates' = rtStates \cup {id}
  BY NewState
<1>2. /\ rtImu' = [rtImu EXCEPT ![id] = link] /\ UNCHANGED eliminateStates
      /\ IF Deferring
           THEN /\ backlog' = Append(backlog, id)
                /\ UNCHANGED <<fullStates, fullImu>>
           ELSE /\ fullStates' = fullStates \cup {id}
                /\ fullImu' = [fullImu EXCEPT ![id] = link]
                /\ UNCHANGED backlog
  BY DEF AddStates
<1>3. rtStates # {} => id - 1 \in rtStates /\ link = ImuLink(id - 1, id)
  <2>1. SUFFICES ASSUME rtStates # {}
                 PROVE  id - 1 \in rtStates /\ link = ImuLink(id - 1, id)
    OBVIOUS
  <2>2. Newest \in rtStates /\ Newest \in Nat /\ id = Newest + 1
    BY <2>1, NewestIs
  <2>3. id - 1 = Newest
    BY <2>2
  <2>. QED BY <2>1, <2>2, <2>3
<1>4. rtStates = {} => id = 1
  OBVIOUS
<1>. HIDE DEF id, link
<1>5. Chained(rtStates, rtImu) /\ Chained(fullStates, fullImu)
  BY DEF LinksInv
<1>6. id # 1 => rtStates # {}
  BY <1>4
<1>7. Chained(rtStates, rtImu)'
  <2>1. Chained(rtStates \cup {id}, [rtImu EXCEPT ![id] = link])
    BY <1>1, <1>3, <1>4, <1>5, AddChained
  <2>. QED BY <1>1, <1>2, <2>1 DEF Chained
<1>8. CASE Deferring
  <2>1. Chained(fullStates, fullImu)'
    BY <1>2, <1>5, <1>8 DEF Chained
  <2>2. rtStates # {}
    BY <1>8 DEF LinksInv, FirstInv
  <2>3. ToSet(backlog') = ToSet(backlog) \cup {id}
    <3>1. backlog \in Seq(Id)
      BY DEF StatesInv
    <3>2. backlog' = Append(backlog, id)
      BY <1>2, <1>8
    <3>. QED BY <1>1, <3>1, <3>2, AppendToSet
  <2>4. id - 1 \in fullStates \cup ToSet(backlog)
    BY <1>3, <2>2 DEF StatesInv
  <2>5. WaitingInv'
    BY <1>2, <1>8, <2>3, <2>4 DEF LinksInv, WaitingInv
  <2>. QED BY <1>7, <2>1, <2>5
<1>9. CASE ~Deferring
  <2>1. fullStates = rtStates /\ backlog = <<>> /\ eliminateStates = {}
    BY <1>9, EmptyToSet DEF StatesInv
  <2>2. Chained(fullStates \cup {id}, [fullImu EXCEPT ![id] = link])
    BY <1>1, <1>3, <1>4, <1>5, <2>1, AddChained
  <2>3. Chained(fullStates, fullImu)'
    BY <1>2, <1>9, <2>2 DEF Chained
  <2>4. WaitingInv'
    BY <1>2, <1>9, <2>1, EmptyToSet DEF WaitingInv
  <2>. QED BY <1>7, <2>3, <2>4
<1>. QED BY <1>8, <1>9

(* eliminateStateByImuMerge: in both graphs, or in one.                      *)
LEMMA LinksEliminate ==
  ASSUME WindowInv, StatesInv, LinksInv, EliminateImuFrame
  PROVE  WaitingInv' /\ Chained(rtStates, rtImu)' /\ Chained(fullStates, fullImu)'
<1>. DEFINE s == Min(imuFrames)
<1>1. /\ s \in rtStates /\ s < Newest /\ phase = "eliminating"
  BY OldestImuFrame
<1>2. /\ s \notin keyframes /\ rtStates' = rtStates \ {s}
      /\ rtImu' = MergeImu(rtImu, rtStates, s) /\ UNCHANGED backlog
      /\ IF Deferring
           THEN /\ eliminateStates' = eliminateStates \cup {s}
                /\ UNCHANGED <<fullStates, fullImu>>
           ELSE /\ fullStates' = fullStates \ {s}
                /\ fullImu' = MergeImu(fullImu, fullStates, s)
                /\ UNCHANGED eliminateStates
  BY DEF EliminateImuFrame, Forget
<1>. HIDE DEF s
<1>3. 1 \in rtStates /\ 1 \in fullStates /\ s # 1
  BY <1>1, <1>2 DEF LinksInv, FirstInv
<1>4. Newest \in rtStates
  BY <1>1, NewestIs
<1>5. Chained(rtStates, rtImu) /\ Chained(fullStates, fullImu)
  BY DEF LinksInv
<1>6. Chained(rtStates, rtImu)'
  <2>1. Chained(rtStates \ {s}, MergeImu(rtImu, rtStates, s))
    BY <1>1, <1>3, <1>4, <1>5, MergeChained
  <2>. QED BY <1>2, <2>1 DEF Chained
<1>7. CASE Deferring
  <2>1. Chained(fullStates, fullImu)'
    BY <1>2, <1>5, <1>7 DEF Chained
  <2>2. s \in fullStates \cup ToSet(backlog)
    BY <1>1 DEF StatesInv
  <2>3. WaitingInv'
    BY <1>2, <1>7, <2>2 DEF LinksInv, WaitingInv
  <2>. QED BY <1>6, <2>1, <2>3
<1>8. CASE ~Deferring
  <2>1. fullStates = rtStates /\ backlog = <<>> /\ eliminateStates = {}
    BY <1>8, EmptyToSet DEF StatesInv
  <2>2. Chained(fullStates \ {s}, MergeImu(fullImu, fullStates, s))
    BY <1>1, <1>3, <1>4, <1>5, <2>1, MergeChained
  <2>3. Chained(fullStates, fullImu)'
    BY <1>2, <1>8, <2>2 DEF Chained
  <2>4. WaitingInv'
    BY <1>2, <1>8, <2>1, EmptyToSet DEF WaitingInv
  <2>. QED BY <1>6, <2>3, <2>4
<1>. QED BY <1>7, <1>8

(* The import: what waited is linked, what is gone merged, and the IMU       *)
(* errors that are copied stand for the same times in both graphs.           *)
LEMMA LinksSynchronise ==
  ASSUME WindowInv, StatesInv, LinksInv, NEW from, NEW to, Synchronise(from, to)
  PROVE  WaitingInv' /\ Chained(rtStates, rtImu)' /\ Chained(fullStates, fullImu)'
<1>. DEFINE graph == WithoutEliminated(WithBacklog)
            copied == Copied(graph.states, fullFixed, rtFixed)
<1>1. /\ fullStates' = graph.states /\ fullImu' = graph.imu
      /\ backlog' = <<>> /\ eliminateStates' = {} /\ UNCHANGED rtStates
      /\ rtImu' = [s \in Id |-> IF s \in copied THEN graph.imu[s] ELSE rtImu[s]]
      /\ Deferring
  BY DEF Synchronise, Deferring
<1>2. graph.states = rtStates
  BY ImportedStates
<1>3. rtStates # {} /\ 1 \in rtStates /\ 1 \in fullStates
  BY <1>1 DEF LinksInv, FirstInv
<1>4. Chained(graph.states, graph.imu)
  <2>. DEFINE g == WithBacklog
  <2>1. Chained(g.states, g.imu)
    BY BacklogChained
  <2>2. g.states = fullStates \cup ToSet(backlog)
    BY DEF WithBacklog
  <2>3. /\ 1 \in g.states /\ eliminateStates \subseteq g.states
        /\ 1 \notin eliminateStates
        /\ Newest \in g.states /\ Newest \notin eliminateStates
        /\ \A e \in eliminateStates : e < Newest
    <3>1. Newest \in rtStates
      BY <1>3, NewestIs
    <3>. HIDE DEF g
    <3>. QED BY <1>3, <2>2, <3>1 DEF StatesInv, LinksInv, WaitingInv
  <2>. HIDE DEF g
  <2>4. Chained(WithoutEliminated(g).states, WithoutEliminated(g).imu)
    BY <2>1, <2>3, WithoutChained
  <2>. QED BY <2>4 DEF g
<1>. HIDE DEF graph, copied
<1>5. Chained(fullStates, fullImu)'
  BY <1>1, <1>4 DEF Chained
<1>6. Chained(rtStates, rtImu)'
  <2>1. Chained(rtStates, rtImu)
    BY DEF LinksInv
  <2>2. rtImu' = [s \in Id |-> rtImu'[s]]
    BY <1>1
  <2>3. ASSUME NEW s \in rtStates \ {1}
        PROVE  LinkOf(rtImu'[s], Previous(rtStates, s), s)
    <3>1. s \in Id /\ LinkOf(rtImu[s], Previous(rtStates, s), s)
      BY <2>1 DEF Chained
    <3>2. LinkOf(graph.imu[s], Previous(rtStates, s), s)
      BY <1>2, <1>4 DEF Chained
    <3>3. rtImu'[s] = graph.imu[s] \/ rtImu'[s] = rtImu[s]
      BY <1>1, <3>1
    <3>. QED BY <3>1, <3>2, <3>3
  <2>4. Chained(rtStates, rtImu')
    BY <2>1, <2>2, <2>3 DEF Chained
  <2>. QED BY <1>1, <2>4 DEF Chained
<1>7. WaitingInv'
  BY <1>1, EmptyToSet DEF WaitingInv
<1>. QED BY <1>5, <1>6, <1>7

(* The optimisations integrate some of the IMU errors.                       *)
LEMMA LinksOptimise ==
  ASSUME FlagInv, WindowInv, StatesInv, LinksInv,
         \/ OptimiseNewest \/ FinishFull \/ OptimiseRealtimeGraph \/ DoFinalBa
  PROVE  Chained(rtStates, rtImu)' /\ Chained(fullStates, fullImu)'
<1>1. Chained(rtStates, rtImu) /\ Chained(fullStates, fullImu)
  BY DEF LinksInv
<1>2. UNCHANGED <<rtStates, fullStates>>
  BY DEF OptimiseNewest, FinishFull, OptimiseRealtimeGraph, DoFinalBa
<1>3. ASSUME NEW S, NEW l, Chained(S, l), NEW M, M = [s \in Id |-> M[s]],
             \A s \in Id : \/ M[s] = l[s]
                           \/ M[s] = Evaluate(l[s])
      PROVE  Chained(S, M)
  <2>1. ASSUME NEW s \in S \ {1}
        PROVE  LinkOf(M[s], Previous(S, s), s)
    <3>1. s \in Id /\ LinkOf(l[s], Previous(S, s), s)
      BY <1>3 DEF Chained
    <3>2. LinkOf(Evaluate(l[s]), Previous(S, s), s)
      BY <3>1, EvaluateOf
    <3>. QED BY <1>3, <3>1, <3>2
  <2>. QED BY <1>3, <2>1 DEF Chained
<1>4. ASSUME Chained(rtStates, rtImu'), Chained(fullStates, fullImu')
      PROVE  Chained(rtStates, rtImu)' /\ Chained(fullStates, fullImu)'
  BY <1>2, <1>4 DEF Chained
<1>5. CASE OptimiseNewest
  <2>1. /\ rtImu' = [rtImu EXCEPT ![Newest] = Evaluate(@)] /\ UNCHANGED fullImu
    BY <1>5 DEF OptimiseNewest
  <2>2. DOMAIN rtImu = Id
    BY <1>1 DEF Chained
  <2>3. /\ rtImu' = [s \in Id |-> rtImu'[s]]
        /\ \A s \in Id : rtImu'[s] = rtImu[s] \/ rtImu'[s] = Evaluate(rtImu[s])
    BY <2>1, <2>2
  <2>4. Chained(rtStates, rtImu')
    BY <1>1, <1>3, <2>3
  <2>. QED BY <1>1, <1>4, <2>1, <2>4
<1>6. CASE FinishFull
  <2>1. /\ UNCHANGED rtImu /\ fullImu' = [s \in Id |-> fullImu'[s]]
        /\ \A s \in Id : fullImu'[s] = fullImu[s] \/ fullImu'[s] = Evaluate(fullImu[s])
    BY <1>6 DEF FinishFull
  <2>2. Chained(fullStates, fullImu')
    BY <1>1, <1>3, <2>1
  <2>. QED BY <1>1, <1>4, <2>1, <2>2
<1>7. CASE OptimiseRealtimeGraph
  <2>1. /\ rtImu' = [s \in Id |-> rtImu'[s]]
        /\ \A s \in Id : rtImu'[s] = rtImu[s] \/ rtImu'[s] = Evaluate(rtImu[s])
    BY <1>7 DEF OptimiseRealtimeGraph
  <2>2. Chained(rtStates, rtImu')
    BY <1>1, <1>3, <2>1
  <2>3. CASE Deferring
    <3>1. UNCHANGED fullImu
      BY <1>7, <2>3 DEF OptimiseRealtimeGraph, Adopt
    <3>. QED BY <1>1, <1>4, <2>2, <3>1
  <2>4. CASE ~Deferring
    <3>1. /\ fullImu' = [s \in Id |-> fullImu'[s]]
          /\ \A s \in Id : fullImu'[s] = fullImu[s] \/ fullImu'[s] = rtImu'[s]
      <4>. DEFINE moved == rtStates \ rtFixed
                  imu_ == [s \in Id |-> IF s \in moved /\ rtImu[s] # NoLink
                                        THEN Evaluate(rtImu[s]) ELSE rtImu[s]]
      <4>1. rtImu' = imu_ /\ Adopt(moved, imu_)
        BY <1>7 DEF OptimiseRealtimeGraph
      <4>. HIDE DEF moved, imu_
      <4>2. fullImu' = [s \in Id |-> IF \A x \in rtFixed : s >= x
                                     THEN imu_[s] ELSE fullImu[s]]
        BY <2>4, <4>1 DEF Adopt
      <4>. QED BY <4>1, <4>2
    <3>2. fullStates = rtStates
      BY <2>4, EmptyToSet DEF StatesInv
    <3>3. ASSUME NEW s \in fullStates \ {1}
          PROVE  LinkOf(fullImu'[s], Previous(fullStates, s), s)
      <4>1. s \in Id
        BY <1>1 DEF Chained
      <4>2. /\ LinkOf(fullImu[s], Previous(fullStates, s), s)
            /\ LinkOf(rtImu'[s], Previous(fullStates, s), s)
        BY <1>1, <2>2, <3>2 DEF Chained
      <4>. QED BY <3>1, <4>1, <4>2
    <3>4. Chained(fullStates, fullImu')
      BY <1>1, <3>1, <3>3 DEF Chained
    <3>. QED BY <1>4, <2>2, <3>4
  <2>. QED BY <2>3, <2>4
<1>8. CASE DoFinalBa
  <2>1. /\ rtImu' = fullImu' /\ fullImu' = [s \in Id |-> fullImu'[s]]
        /\ \A s \in Id : fullImu'[s] = fullImu[s] \/ fullImu'[s] = Evaluate(fullImu[s])
        /\ phase = "stopped"
    BY <1>8 DEF DoFinalBa, Go
  <2>2. fullStates = rtStates
    BY <2>1, EmptyToSet DEF StatesInv, FlagInv, Deferring
  <2>3. Chained(fullStates, fullImu')
    BY <1>1, <1>3, <2>1
  <2>. QED BY <1>4, <2>1, <2>2, <2>3
<1>. QED BY <1>5, <1>6, <1>7, <1>8

(* Every step before the end keeps the IMU errors chained.                   *)
LEMMA LinksStep ==
  ASSUME FlagInv, WindowInv, StatesInv, LinksInv, [Next]_vars
  PROVE  LinksInv'
<1>. USE DEF deferred, imu
<1>1. FirstInv'
  BY FirstStep DEF LinksInv
<1>2. ASSUME WaitingInv', Chained(rtStates, rtImu)', Chained(fullStates, fullImu)'
      PROVE  LinksInv'
  BY <1>1, <1>2 DEF LinksInv
<1>3. ASSUME UNCHANGED <<fullStates, deferred>>
      PROVE  WaitingInv'
  BY <1>3 DEF LinksInv, WaitingInv
<1>4. ASSUME UNCHANGED <<rtStates, fullStates, deferred, imu>>
      PROVE  LinksInv'
  <2>1. Chained(rtStates, rtImu)' /\ Chained(fullStates, fullImu)'
    BY <1>4 DEF LinksInv, Chained
  <2>. QED BY <1>2, <1>3, <1>4, <2>1
<1>5. CASE AddStates
  BY <1>2, <1>5, LinksAdd
<1>6. CASE EliminateImuFrame
  BY <1>2, <1>6, LinksEliminate
<1>7. CASE ImportFullGraph \/ FinalImport
  BY <1>2, <1>7, LinksSynchronise DEF ImportFullGraph, FinalImport
<1>8. CASE OptimiseNewest \/ FinishFull \/ OptimiseRealtimeGraph \/ DoFinalBa
  <2>1. Chained(rtStates, rtImu)' /\ Chained(fullStates, fullImu)'
    BY <1>8, LinksOptimise
  <2>2. UNCHANGED <<fullStates, deferred>>
    BY <1>8 DEF OptimiseNewest, FinishFull, OptimiseRealtimeGraph, DoFinalBa
  <2>. QED BY <1>2, <1>3, <2>1, <2>2
<1>9. ASSUME NEW i \in Id, CloseLoop(i) \/ ConvertKeyframe(i)
                           \/ ConvertLoopFrame(i)
      PROVE  LinksInv'
  BY <1>9, <1>4 DEF CloseLoop, ConvertKeyframe, ConvertLoopFrame
<1>10. ASSUME NEW asKeyframe \in BOOLEAN, SetKeyframe(asKeyframe)
       PROVE  LinksInv'
  BY <1>10, <1>4 DEF SetKeyframe
<1>11. CASE StartFull \/ SkipImport \/ Publish \/ KeepAsKeyframe \/ Eliminated
            \/ FreezeOldStates \/ KeepLoopFrames \/ Expand \/ Stop
            \/ PublishImport \/ Finished \/ UNCHANGED vars
  <2>1. UNCHANGED <<rtStates, fullStates, deferred, imu>>
    BY <1>11 DEF StartFull, SkipImport, Publish, KeepAsKeyframe, Eliminated,
       FreezeOldStates, KeepLoopFrames, Expand, Stop, PublishImport, Finished,
       vars
  <2>. QED BY <2>1, <1>4
<1>. QED BY <1>5, <1>6, <1>7, <1>8, <1>9, <1>10, <1>11 DEF Next

(* Nothing is linked at the start.                                           *)
LEMMA LinksInit == Init => LinksInv
<1>. SUFFICES ASSUME Init PROVE LinksInv
  OBVIOUS
<1>1. FirstInv
  BY DEF Init, FirstInv, Deferring
<1>2. WaitingInv
  BY EmptyToSet DEF Init, WaitingInv
<1>3. Chained(rtStates, rtImu) /\ Chained(fullStates, fullImu)
  BY DEF Init, Chained
<1>. QED BY <1>1, <1>2, <1>3 DEF LinksInv

(* An IMU error that is in its chain is exact.                               *)
LEMMA ChainExact ==
  ASSUME NEW S, NEW links_, Chained(S, links_), NEW s \in S \ {1}
  PROVE  LinkExact(links_[s], Max({x \in S : x < s}), s)
<1>. DEFINE p == Previous(S, s)
<1>1. LinkOf(links_[s], p, s)
  BY DEF Chained
<1>2. Max({x \in S : x < s}) = p
  BY DEF Previous
<1>. HIDE DEF p
<1>3. /\ p \in Id /\ s \in Id /\ links_[s].t0 = Time(p) /\ links_[s].t1 = Time(s)
  BY <1>1 DEF LinkOf
<1>4. ExactIntegrals[p][s] = ExactIntegral(Time(p), Time(s))
  BY <1>3 DEF ExactIntegrals
<1>5. /\ Evaluate(links_[s]).sum = ExactIntegral(Time(p), Time(s))
      /\ RedoPreintegration(links_[s]).sum = ExactIntegral(Time(p), Time(s))
  BY <1>1, EvaluateOf
<1>. QED BY <1>2, <1>3, <1>4, <1>5 DEF LinkExact

(* In both graphs the IMU error between a state and the one before is, in    *)
(* every state and to the last digit, the integral of the measured signal    *)
(* over the whole time between them, integrated in one go or appended piece  *)
(* by piece as states are eliminated (ImuError::append), and whether it was  *)
(* deferred, imported or copied between the graphs.                          *)
THEOREM ImuErrorsExact == Spec => []ImuLinksExact
<1>. DEFINE I == CoreInv /\ LinksInv
<1>1. Init => I
  BY CoreInit, LinksInit
<1>2. I /\ [Next]_vars => I'
  <2>. SUFFICES ASSUME I, [Next]_vars PROVE I'
    OBVIOUS
  <2>1. CoreInv'
    BY CoreStep
  <2>2. CASE phase = "final"
    <3>1. UNCHANGED vars
      BY <2>2, FinalStep DEF CoreInv
    <3>2. UNCHANGED <<flags, rtStates, fullStates, keyframes, phase, deferred, imu>>
      BY <3>1 DEF vars
    <3>3. UNCHANGED <<needs, closing, available, backlog, eliminateStates,
                      rtImu, fullImu>>
      BY <3>2 DEF flags, deferred, imu
    <3>4. LinksInv'
      BY <3>2, <3>3 DEF LinksInv, FirstInv, WaitingInv, Chained, Deferring
    <3>. QED BY <2>1, <3>4
  <2>3. CASE phase # "final"
    <3>1. FlagInv /\ WindowInv /\ StatesInv
      BY <2>3 DEF CoreInv
    <3>. QED BY <2>1, <3>1, LinksStep
  <2>. QED BY <2>2, <2>3
<1>3. I => ImuLinksExact
  BY ChainExact DEF ImuLinksExact, LinksInv
<1>. HIDE DEF I
<1>. QED BY <1>1, <1>2, <1>3, PTL DEF Spec
=============================================================================
