-------------------------- MODULE Endpoints_proofs --------------------------
(* The two ends of the system: DatasetReader, for every number of cameras,   *)
(* every recording and every tolerance, and Publisher, for every number of   *)
(* states and every size of its queue.                                       *)
EXTENDS DatasetReader, Publisher, FiniteSetTheorems, SequenceTheorems,
        WellFoundedInduction, TLAPS

(* ------------------------------------------------------------------------- *)
(* Least and greatest elements of sets of natural numbers.                   *)

IsMax(S, m) == m \in S /\ \A s \in S : s \in Nat /\ s <= m
IsMin(S, m) == m \in S /\ \A s \in S : s \in Nat /\ m <= s
HasMax(S) == IsMax(S, Max(S))
HasMin(S) == IsMin(S, Min(S))

(* The element that is at least, or at most, every other is the one that     *)
(* Max, or Min, chooses.                                                     *)
LEMMA MaxIs ==
  ASSUME NEW S, NEW m, IsMax(S, m)
  PROVE  Max(S) = m /\ HasMax(S)
<1>. DEFINE P(x) == x \in S /\ \A y \in S : x >= y
<1>1. P(m)
  BY DEF IsMax
<1>2. Max(S) = CHOOSE x : P(x)
  BY DEF Max
<1>. HIDE DEF P
<1>3. P(Max(S))
  BY <1>1, <1>2, Zenon
<1>4. Max(S) \in S /\ Max(S) >= m
  BY <1>3 DEF P, IsMax
<1>5. Max(S) = m
  BY <1>4 DEF IsMax
<1>. QED BY <1>5 DEF HasMax

(* The same for the least.                                                   *)
LEMMA MinIs ==
  ASSUME NEW S, NEW m, IsMin(S, m)
  PROVE  Min(S) = m /\ HasMin(S)
<1>. DEFINE P(x) == x \in S /\ \A y \in S : x <= y
<1>1. P(m)
  BY DEF IsMin
<1>2. Min(S) = CHOOSE x : P(x)
  BY DEF Min
<1>. HIDE DEF P
<1>3. P(Min(S))
  BY <1>1, <1>2, Zenon
<1>4. Min(S) \in S /\ m >= Min(S)
  BY <1>3 DEF P, IsMin
<1>5. Min(S) = m
  BY <1>4 DEF IsMin
<1>. QED BY <1>5 DEF HasMin

(* Every set of natural numbers that is not empty has a least element.       *)
LEMMA NatsHaveMin ==
  ASSUME NEW S, \A s \in S : s \in Nat, S # {}
  PROVE  HasMin(S)
<1>1. PICK m \in S : \A y \in S : ~(<<y, m>> \in OpToRel(<, Nat))
  BY NatLessThanWellFounded, WFMin
<1>2. \A y \in S : ~(y < m)
  BY <1>1 DEF OpToRel
<1>3. IsMin(S, m)
  BY <1>2 DEF IsMin
<1>. QED BY <1>3, MinIs

(* So has every finite one a greatest: the least subset without one would    *)
(* lose an element and still not have one.                                   *)
LEMMA FiniteSetHasMax ==
  ASSUME NEW S, IsFiniteSet(S), \A s \in S : s \in Nat, S # {}
  PROVE  HasMax(S)
<1>. DEFINE Bad == {T \in FiniteSubsetsOf(S) : T # {} /\ ~\E m : IsMax(T, m)}
<1>1. CASE Bad = {}
  <2>1. S \in FiniteSubsetsOf(S)
    BY DEF FiniteSubsetsOf
  <2>2. PICK m : IsMax(S, m)
    BY <1>1, <2>1
  <2>. QED BY <2>2, MaxIs
<1>2. CASE Bad # {}
  <2>1. PICK T \in Bad :
          \A U \in Bad : ~(<<U, T>> \in StrictSubsetOrdering(S))
    BY <1>2, WFMin, FS_StrictSubsetOrderingWellFounded
  <2>2. PICK x \in T : TRUE
    OBVIOUS
  <2>. DEFINE U == T \ {x}
  <2>3. U \in FiniteSubsetsOf(S) /\ <<U, T>> \in StrictSubsetOrdering(S)
    BY FS_RemoveElement DEF FiniteSubsetsOf, StrictSubsetOrdering
  <2>4. U \notin Bad
    BY <2>1, <2>3
  <2>5. T \subseteq S /\ x \in Nat /\ \A y \in T : y \in Nat
    BY DEF FiniteSubsetsOf
  <2>6. CASE U = {}
    <3>1. IsMax(T, x)
      BY <2>5, <2>6 DEF IsMax
    <3>. QED BY <3>1
  <2>7. CASE U # {}
    <3>1. PICK m : IsMax(U, m)
      BY <2>3, <2>4, <2>7
    <3>2. IsMax(T, m) \/ IsMax(T, x)
      BY <2>5, <3>1 DEF IsMax
    <3>. QED BY <3>2
  <2>. QED BY <2>6, <2>7
<1>. QED BY <1>1, <1>2

----------------------------------------------------------------------------
(* DatasetReader                                                             *)

Images == UNION {[D -> Times] : D \in SUBSET Cameras}
Frames == [time : Nat, imu : Nat, images : Images, depth : Images]

ReaderTypeOK ==
  /\ recorded \in [Cameras -> SUBSET Times]
  /\ withDepth \in SUBSET Cameras
  /\ left \in [Cameras -> SUBSET Times]
  /\ depthLeft \in [withDepth -> SUBSET Times]
  /\ place \in {"sync", "imu", "callback", "finished", "undefined"}
  /\ imuRead \in Nat
  /\ delivered \in Seq(Frames)
  /\ place \in {"imu", "callback"} =>
       frame \in [time : Nat, images : Images, depth : Images]

Handing == place \in {"imu", "callback"}

(* What is in hand is complete, like what was delivered, up to the IMU       *)
(* measurements that are being read.                                         *)
GroupComplete(images) ==
  /\ \/ DOMAIN images = SyncCameras
     \/ \E c \in Cameras \ SyncCameras : DOMAIN images = {c}
  /\ \A c, d \in DOMAIN images : images[c] - images[d] <= Tolerance

CompleteInv ==
  /\ \A n \in 1 .. Len(delivered) : FrameComplete(n)
  /\ Handing => GroupComplete(frame.images)
  /\ place = "callback" => imuRead > frame.time + Ahead

(* Images are taken in the order of time.                                    *)
OrderInv ==
  /\ \A c \in Cameras : \A u \in left[c] :
       /\ \A n \in 1 .. Len(delivered) : delivered[n].time <= u
       /\ Handing => frame.time <= u
  /\ Handing => \A n \in 1 .. Len(delivered) : delivered[n].time <= frame.time

(* An image of a synchronised camera is still to be read, was given up, is   *)
(* in hand or was delivered; what was delivered is not read again.           *)
InHand(c) == IF Handing /\ c \in DOMAIN frame.images THEN {frame.images[c]}
                                                     ELSE {}

AccountedFor ==
  \A c \in SyncCameras :
    /\ left[c] \subseteq Undelivered(c) \ InHand(c)
    /\ place \in {"sync", "imu", "callback"} =>
         \A u \in Undelivered(c) :
           u \in left[c] \/ <<c, u>> \in dropped \/ u \in InHand(c)

NoCounterparts ==
  \A image \in dropped :
    image[1] \in SyncCameras => ~HasCounterparts(image[1], image[2])

ReaderInv ==
  ReaderTypeOK /\ CompleteInv /\ OrderInv /\ AccountedFor /\ NoCounterparts

(* The oldest image that is left, and the first camera that has it.          *)
LEMMA Oldest ==
  ASSUME ReaderTypeOK, Remaining # {}
  PROVE  /\ ArgMin \in Cameras /\ left[ArgMin] # {}
         /\ Min(left[ArgMin]) = MinTime
         /\ MinTime \in left[ArgMin] /\ MinTime \in Times
         /\ \A c \in Cameras : \A u \in left[c] : MinTime <= u
<1>. DEFINE firsts == {Min(left[c]) : c \in Remaining}
            at0    == {c \in Remaining : Min(left[c]) = MinTime}
<1>1. \A c \in Remaining : HasMin(left[c])
  <2>. SUFFICES ASSUME NEW c \in Remaining
                PROVE  HasMin(left[c])
    OBVIOUS
  <2>1. left[c] # {} /\ \A u \in left[c] : u \in Nat
    BY DEF Remaining, ReaderTypeOK, Times
  <2>. QED BY <2>1, NatsHaveMin
<1>2. HasMin(firsts)
  <2>1. \A u \in firsts : u \in Nat
    BY <1>1 DEF HasMin, IsMin
  <2>2. firsts # {}
    OBVIOUS
  <2>. QED BY <2>1, <2>2, NatsHaveMin
<1>3. PICK c \in Remaining : Min(left[c]) = MinTime
  BY <1>2 DEF HasMin, IsMin, MinTime
<1>4. HasMin(at0)
  <2>1. at0 # {}
    BY <1>3
  <2>2. \A d \in at0 : d \in Nat
    BY DEF Remaining, Cameras
  <2>. QED BY <2>1, <2>2, NatsHaveMin
<1>5. ArgMin \in at0
  BY <1>4 DEF HasMin, IsMin, ArgMin
<1>6. ArgMin \in Cameras /\ left[ArgMin] # {} /\ Min(left[ArgMin]) = MinTime
  BY <1>5 DEF Remaining
<1>7. MinTime \in left[ArgMin]
  BY <1>1, <1>5, <1>6 DEF HasMin, IsMin
<1>8. MinTime \in Times
  BY <1>6, <1>7 DEF ReaderTypeOK
<1>9. ASSUME NEW d \in Cameras, NEW u \in left[d]
      PROVE  MinTime <= u
  <2>1. d \in Remaining
    BY DEF Remaining
  <2>2. Min(left[d]) \in Nat /\ Min(left[d]) <= u /\ u \in Nat
    BY <1>1, <2>1 DEF HasMin, IsMin
  <2>3. MinTime <= Min(left[d])
    BY <1>2, <2>1 DEF HasMin, IsMin, MinTime
  <2>4. MinTime \in Nat
    BY <1>8 DEF Times
  <2>. QED BY <2>2, <2>3, <2>4
<1>. QED BY <1>6, <1>7, <1>8, <1>9

(* The next image of a camera that has some.                                 *)
LEMMA NextImage ==
  ASSUME NEW S, S \subseteq Times, S # {}
  PROVE  Min(S) \in S /\ Min(S) \in Nat /\ \A u \in S : Min(S) <= u
<1>1. \A u \in S : u \in Nat
  BY DEF Times
<1>2. HasMin(S)
  BY <1>1, NatsHaveMin
<1>. QED BY <1>2 DEF HasMin, IsMin

(* An iterator only advances, and only past the next image.                  *)
LEMMA AdvancedOnly ==
  ASSUME NEW D, NEW iterators \in [D -> SUBSET Times], NEW cameras
  PROVE  /\ Advanced(iterators, cameras) \in [D -> SUBSET Times]
         /\ \A c \in D : Advanced(iterators, cameras)[c] \subseteq iterators[c]
         /\ \A c \in D : \A u \in iterators[c] :
              \/ u \in Advanced(iterators, cameras)[c]
              \/ c \in cameras /\ u = Min(iterators[c])
         /\ \A c \in D \cap cameras :
              Min(iterators[c]) \notin Advanced(iterators, cameras)[c]
BY DEF Advanced

(* What the invariant says of the recording alone.                           *)
LEMMA ReaderSizes ==
  /\ NumCameras \in Nat /\ Tolerance \in Nat /\ Ahead \in Nat
  /\ LastImage \in Nat /\ LastImu \in Nat
  /\ SyncCameras \subseteq Cameras
  /\ \A d \in Depths : d \subseteq Cameras
BY DatasetAssumption

LEMMA ReaderStarts ==
  ASSUME ReaderInit
  PROVE  ReaderInv
<1>1. ReaderTypeOK
  BY ReaderSizes DEF ReaderInit, ReaderTypeOK
<1>2. CompleteInv /\ OrderInv
  BY DEF ReaderInit, CompleteInv, OrderInv, Handing
<1>3. AccountedFor
  BY ReaderSizes DEF ReaderInit, AccountedFor, Undelivered, InHand, Handing
<1>4. NoCounterparts
  BY DEF ReaderInit, NoCounterparts
<1>. QED BY <1>1, <1>2, <1>3, <1>4 DEF ReaderInv

(* Images are only lost from the candidates.                                 *)
LEMMA SameCandidates ==
  ASSUME recorded' = recorded, delivered' = delivered
  PROVE  /\ \A c : Undelivered(c)' = Undelivered(c)
         /\ \A c, s : HasCounterparts(c, s)' = HasCounterparts(c, s)
BY DEF Undelivered, HasCounterparts

(* An image whose group is not synchronised has no counterparts: a           *)
(* counterpart that is left would be near enough, and one that was given up  *)
(* would have had this image and the others as its own.                      *)
LEMMA DroppedAlone ==
  ASSUME ReaderInv, place = "sync", Remaining # {}, ArgMin \in SyncCameras,
         ~IsSynched(SyncCameras)
  PROVE  ~HasCounterparts(ArgMin, MinTime)
<1>. USE DEF ReaderInv
<1>1. /\ ArgMin \in Cameras /\ Min(left[ArgMin]) = MinTime
      /\ left[ArgMin] # {} /\ MinTime \in left[ArgMin] /\ MinTime \in Times
      /\ \A c \in Cameras : \A u \in left[c] : MinTime <= u
  BY Oldest
<1>. SUFFICES ASSUME HasCounterparts(ArgMin, MinTime)
              PROVE  FALSE
  OBVIOUS
<1>2. PICK from \in Times :
        /\ from <= MinTime /\ MinTime <= from + Tolerance
        /\ \A d \in SyncCameras \ {ArgMin} :
             \E u \in Undelivered(d) : from <= u /\ u <= from + Tolerance
  BY DEF HasCounterparts
<1>3. \A c \in SyncCameras : Undelivered(c) \subseteq Times
  BY ReaderSizes DEF Undelivered, ReaderTypeOK
<1>4. MinTime \in Undelivered(ArgMin)
  BY <1>1 DEF AccountedFor
<1>5. CASE \A d \in SyncCameras \ {ArgMin} :
             \E u \in left[d] : from <= u /\ u <= from + Tolerance
  <2>1. ASSUME NEW d \in SyncCameras
        PROVE  /\ left[d] # {} /\ Min(left[d]) \in Nat
               /\ from <= Min(left[d]) /\ Min(left[d]) <= from + Tolerance
    <3>1. d \in Cameras /\ left[d] \subseteq Times
      BY ReaderSizes DEF ReaderTypeOK
    <3>2. PICK u \in left[d] : from <= u /\ u <= from + Tolerance
      BY <1>1, <1>2, <1>5
    <3>3. /\ Min(left[d]) \in left[d] /\ Min(left[d]) \in Nat
          /\ Min(left[d]) <= u
      BY <3>1, <3>2, NextImage
    <3>4. MinTime <= Min(left[d])
      BY <1>1, <3>1, <3>3
    <3>. QED BY <1>1, <1>2, <3>1, <3>2, <3>3, <3>4, ReaderSizes DEF Times
  <2>2. \A c, d \in SyncCameras : Min(left[c]) - Min(left[d]) <= Tolerance
    BY <2>1, ReaderSizes DEF Times
  <2>. QED BY <2>1, <2>2 DEF IsSynched
<1>6. ASSUME NEW d \in SyncCameras \ {ArgMin},
             ~\E u \in left[d] : from <= u /\ u <= from + Tolerance
      PROVE  FALSE
  <2>1. PICK u \in Undelivered(d) : from <= u /\ u <= from + Tolerance
    BY <1>2
  <2>2. <<d, u>> \in dropped
    BY <1>6, <2>1 DEF AccountedFor, InHand, Handing
  <2>3. \A e \in SyncCameras \ {d} :
          \E t \in Undelivered(e) : from <= t /\ t <= from + Tolerance
    BY <1>2, <1>4
  <2>4. HasCounterparts(d, u)
    BY <2>1, <2>3 DEF HasCounterparts
  <2>. QED BY <2>2, <2>4 DEF NoCounterparts
<1>. QED BY <1>5, <1>6

LEMMA DropKeeps ==
  ASSUME ReaderInv, Drop
  PROVE  ReaderInv'
<1>. USE DEF ReaderInv
<1>. DEFINE c0 == ArgMin
<1>1. /\ c0 \in Cameras /\ Min(left[c0]) = MinTime
      /\ MinTime \in left[c0] /\ MinTime \in Times
  BY Oldest DEF Drop
<1>2. /\ left' \in [Cameras -> SUBSET Times]
      /\ \A c \in Cameras : left'[c] \subseteq left[c]
      /\ \A c \in Cameras : \A u \in left[c] :
           u \in left'[c] \/ (c = c0 /\ u = MinTime)
  BY <1>1, AdvancedOnly DEF Drop, ReaderTypeOK
<1>3. place = "sync" /\ place' \in {"sync", "finished"} /\ ~Handing /\ ~Handing'
  BY DEF Drop, Handing
<1>4. /\ recorded' = recorded /\ withDepth' = withDepth /\ depthLeft' = depthLeft
      /\ frame' = frame /\ imuRead' = imuRead /\ delivered' = delivered
      /\ dropped' = dropped \cup {<<c0, MinTime>>}
  BY DEF Drop, files
<1>5. ReaderTypeOK'
  BY <1>2, <1>3, <1>4 DEF ReaderTypeOK
<1>6. CompleteInv'
  BY <1>3, <1>4 DEF CompleteInv, FrameComplete
<1>7. OrderInv'
  BY <1>2, <1>3, <1>4 DEF OrderInv
<1>8. AccountedFor'
  BY <1>2, <1>3, <1>4, SameCandidates, ReaderSizes DEF AccountedFor, InHand
<1>9. c0 \in SyncCameras => ~HasCounterparts(c0, MinTime)
  BY DroppedAlone DEF Drop, NeedsSync
<1>10. NoCounterparts'
  BY <1>4, <1>9, SameCandidates DEF NoCounterparts
<1>. QED BY <1>5, <1>6, <1>7, <1>8, <1>10

(* Images are not read again when the iterators advance.                     *)
LEMMA TakeKeeps ==
  ASSUME ReaderInv, TakeImages
  PROVE  ReaderInv'
<1>. USE DEF ReaderInv
<1>. DEFINE group == IF ArgMin \in SyncCameras THEN SyncCameras ELSE {ArgMin}
            rest  == Advanced(left, group)
            again == IF ArgMin \in withDepth \ SyncCameras THEN {ArgMin} ELSE {}
            noDepth == ArgMin \in withDepth /\ depthLeft[ArgMin] = {}
            past    == \E c \in again : rest[c] = {}
            twice == Advanced(rest, again)
            image(c) == Min(IF c \in again THEN rest[c] ELSE left[c])
<1>1. /\ ArgMin \in Cameras /\ left[ArgMin] # {} /\ MinTime \in Times
      /\ \A c \in Cameras : \A u \in left[c] : MinTime <= u
  BY Oldest DEF TakeImages
<1>2. group \subseteq Cameras /\ \A c \in group : left[c] # {}
  BY <1>1, ReaderSizes DEF TakeImages, NeedsSync, IsSynched
<1>3. /\ rest \in [Cameras -> SUBSET Times] /\ twice \in [Cameras -> SUBSET Times]
      /\ \A c \in Cameras : rest[c] \subseteq left[c]
      /\ \A c \in Cameras : twice[c] \subseteq rest[c]
  BY AdvancedOnly DEF ReaderTypeOK
<1>4. /\ recorded' = recorded /\ withDepth' = withDepth /\ dropped' = dropped
      /\ imuRead' = imuRead /\ delivered' = delivered /\ place = "sync"
      /\ ~Handing /\ left' \in {rest, twice}
  BY DEF TakeImages, files, Handing
<1>5. /\ left' \in [Cameras -> SUBSET Times]
      /\ \A c \in Cameras : left'[c] \subseteq left[c]
  BY <1>3, <1>4
<1>6. depthLeft' \in [withDepth -> SUBSET Times]
  BY <1>4, AdvancedOnly DEF TakeImages, ReaderTypeOK
<1>7. NoCounterparts'
  BY <1>4, SameCandidates DEF NoCounterparts
<1>8. CASE noDepth \/ past
  <2>1. ~Handing' /\ place' \in {"finished", "undefined"}
    BY <1>8 DEF TakeImages, Handing
  <2>2. ReaderTypeOK'
    BY <1>4, <1>5, <1>6, <2>1 DEF ReaderTypeOK
  <2>3. CompleteInv' /\ OrderInv'
    BY <1>4, <1>5, <2>1 DEF CompleteInv, FrameComplete, OrderInv
  <2>4. AccountedFor'
    BY <1>4, <1>5, <2>1, SameCandidates, ReaderSizes DEF AccountedFor, InHand
  <2>. QED BY <1>7, <2>2, <2>3, <2>4
<1>9. CASE ~(noDepth \/ past)
  <2>1. /\ place' = "imu" /\ Handing' /\ left' = twice
        /\ frame' = [time |-> MinTime, images |-> [c \in group |-> image(c)],
                     depth |-> [c \in {ArgMin} \cap withDepth |->
                                  Min(depthLeft[c])]]
    BY <1>9 DEF TakeImages, Handing
  <2>2. \A c \in group : image(c) \in Times /\ image(c) \in left[c]
    <3>. SUFFICES ASSUME NEW c \in group
                  PROVE  image(c) \in Times /\ image(c) \in left[c]
      OBVIOUS
    <3>. DEFINE from == IF c \in again THEN rest[c] ELSE left[c]
    <3>1. from # {} /\ from \subseteq Times /\ from \subseteq left[c]
      BY <1>2, <1>3, <1>9 DEF ReaderTypeOK
    <3>2. Min(from) \in from
      BY <3>1, NextImage
    <3>. QED BY <3>1, <3>2
  <2>3. frame'.images \in Images /\ DOMAIN frame'.images = group
    BY <1>2, <2>1, <2>2 DEF Images
  <2>4. frame'.depth \in Images
    <3>1. \A c \in {ArgMin} \cap withDepth : Min(depthLeft[c]) \in Times
      BY <1>9, NextImage DEF ReaderTypeOK
    <3>2. {ArgMin} \cap withDepth \in SUBSET Cameras
      BY <1>1
    <3>. QED BY <2>1, <3>1, <3>2 DEF Images
  <2>5. frame' \in [time : Nat, images : Images, depth : Images]
    BY <1>1, <2>1, <2>3, <2>4 DEF Times
  <2>6. ReaderTypeOK'
    BY <1>4, <1>5, <1>6, <2>1, <2>5 DEF ReaderTypeOK
  <2>7. GroupComplete(frame'.images)
    <3>1. CASE ArgMin \in SyncCameras
      <4>1. \A c, d \in group : image(c) - image(d) <= Tolerance
        BY <1>4, <3>1 DEF TakeImages, NeedsSync, IsSynched
      <4>. QED BY <2>1, <2>3, <3>1, <4>1 DEF GroupComplete
    <3>2. CASE ArgMin \notin SyncCameras
      <4>1. \A u \in Times : u - u <= Tolerance
        BY ReaderSizes DEF Times
      <4>2. \A c, d \in group : c = d /\ image(c) \in Times
        BY <2>2, <3>2
      <4>. QED BY <1>1, <2>1, <2>3, <3>2, <4>1, <4>2 DEF GroupComplete
    <3>. QED BY <3>1, <3>2
  <2>8. CompleteInv'
    BY <1>4, <2>1, <2>7 DEF CompleteInv, FrameComplete
  <2>9. OrderInv'
    <3>1. \A c \in Cameras : \A u \in left'[c] : MinTime <= u
      BY <1>1, <1>5
    <3>2. \A n \in 1 .. Len(delivered) : delivered[n].time <= MinTime
      BY <1>1, Oldest DEF OrderInv, TakeImages
    <3>. QED BY <1>4, <1>5, <2>1, <3>1, <3>2 DEF OrderInv
  <2>10. AccountedFor'
    <3>1. \A c \in SyncCameras : Undelivered(c)' = Undelivered(c)
      BY <1>4, SameCandidates
    <3>2. ASSUME NEW c \in SyncCameras
          PROVE  /\ left'[c] \subseteq Undelivered(c) \ InHand(c)'
                 /\ \A u \in Undelivered(c) :
                      \/ u \in left'[c] \/ <<c, u>> \in dropped'
                      \/ u \in InHand(c)'
      <4>1. c \in Cameras /\ c \notin again /\ twice[c] = rest[c]
        BY <1>3, ReaderSizes DEF Advanced
      <4>2. CASE c \in group
        <5>1. InHand(c)' = {Min(left[c])}
          BY <2>1, <2>3, <4>1, <4>2 DEF InHand
        <5>2. Min(left[c]) \notin rest[c]
          BY <4>1, <4>2, AdvancedOnly DEF ReaderTypeOK
        <5>3. \A u \in left[c] : u \in rest[c] \/ u = Min(left[c])
          BY <4>1, AdvancedOnly DEF ReaderTypeOK
        <5>. QED BY <1>4, <1>5, <2>1, <4>1, <5>1, <5>2, <5>3
                 DEF AccountedFor, InHand
      <4>3. CASE c \notin group
        <5>1. InHand(c)' = {} /\ rest[c] = left[c]
          BY <2>3, <4>1, <4>3 DEF InHand, Advanced, ReaderTypeOK
        <5>. QED BY <1>4, <2>1, <4>1, <5>1 DEF AccountedFor, InHand
      <4>. QED BY <4>2, <4>3
    <3>. QED BY <3>1, <3>2 DEF AccountedFor
  <2>. QED BY <1>7, <2>6, <2>8, <2>9, <2>10
<1>. QED BY <1>8, <1>9

LEMMA ReadKeeps ==
  ASSUME ReaderInv, ReadImu
  PROVE  ReaderInv'
<1>. USE DEF ReaderInv
<1>1. /\ recorded' = recorded /\ withDepth' = withDepth /\ left' = left
      /\ depthLeft' = depthLeft /\ frame' = frame /\ dropped' = dropped
      /\ delivered' = delivered /\ place = "imu"
  BY DEF ReadImu, files
<1>2. Handing /\ place' \in {"imu", "callback", "finished"}
  BY DEF ReadImu, Handing
<1>3. imuRead' \in Nat
  BY DEF ReadImu, ReaderTypeOK
<1>4. place' = "callback" => imuRead' > frame'.time + Ahead
  <2>1. frame.time \in Nat
    BY <1>1 DEF ReaderTypeOK
  <2>. QED BY <1>1, <1>3, <2>1, ReaderSizes DEF ReadImu
<1>5. ReaderTypeOK'
  BY <1>1, <1>2, <1>3 DEF ReaderTypeOK
<1>6. CompleteInv' /\ OrderInv'
  BY <1>1, <1>2, <1>4 DEF CompleteInv, FrameComplete, OrderInv, Handing
<1>7. AccountedFor'
  BY <1>1, <1>2, SameCandidates DEF AccountedFor, InHand, Handing
<1>8. NoCounterparts'
  BY <1>1, SameCandidates DEF NoCounterparts
<1>. QED BY <1>5, <1>6, <1>7, <1>8

LEMMA AddKeeps ==
  ASSUME ReaderInv, AddImages
  PROVE  ReaderInv'
<1>. USE DEF ReaderInv
<1>. DEFINE added == [time |-> frame.time, imu |-> imuRead,
                      images |-> frame.images, depth |-> frame.depth]
            last  == Len(delivered) + 1
<1>1. /\ recorded' = recorded /\ withDepth' = withDepth /\ left' = left
      /\ depthLeft' = depthLeft /\ dropped' = dropped /\ imuRead' = imuRead
      /\ delivered' = Append(delivered, added)
      /\ place = "callback" /\ place' = "sync"
  BY DEF AddImages, files
<1>2. Handing /\ ~Handing'
  BY <1>1 DEF Handing
<1>3. added \in Frames
  BY <1>1 DEF ReaderTypeOK, Frames
<1>. HIDE DEF added
<1>4. /\ delivered \in Seq(Frames) /\ delivered' \in Seq(Frames)
      /\ Len(delivered) \in Nat /\ Len(delivered') = last
      /\ \A n \in 1 .. Len(delivered) : delivered'[n] = delivered[n]
      /\ delivered'[last] = added
  BY <1>1, <1>3 DEF ReaderTypeOK
<1>5. /\ added.time = frame.time /\ added.imu = imuRead
      /\ added.images = frame.images
  BY DEF added
<1>6. ReaderTypeOK'
  BY <1>1, <1>2, <1>4 DEF ReaderTypeOK, Handing
<1>7. \A n \in 1 .. Len(delivered') :
        n \in 1 .. Len(delivered) \/ n = last
  BY <1>4
<1>8. CompleteInv'
  <2>1. ASSUME NEW n \in 1 .. Len(delivered)
        PROVE  FrameComplete(n)'
    <3>1. n \in Nat /\ (n > 1 => n - 1 \in 1 .. Len(delivered))
      BY <1>4
    <3>2. FrameComplete(n)
      BY DEF CompleteInv
    <3>. QED BY <1>4, <3>1, <3>2 DEF FrameComplete
  <2>2. ASSUME NEW n \in Nat, n = last
        PROVE  FrameComplete(n)'
    <3>1. n > 1 => n - 1 \in 1 .. Len(delivered)
      BY <1>4, <2>2
    <3>2. n > 1 => delivered'[n - 1].time <= frame.time
      BY <1>2, <1>4, <3>1 DEF OrderInv
    <3>3. GroupComplete(frame.images) /\ imuRead > frame.time + Ahead
      BY <1>1, <1>2 DEF CompleteInv
    <3>4. delivered'[n] = added
      BY <1>4, <2>2
    <3>. QED BY <1>5, <3>2, <3>3, <3>4 DEF FrameComplete, GroupComplete
  <2>3. \A n \in 1 .. Len(delivered') : FrameComplete(n)'
    BY <1>4, <1>7, <2>1, <2>2
  <2>. QED BY <1>1, <1>2, <2>3 DEF CompleteInv
<1>9. OrderInv'
  BY <1>1, <1>2, <1>4, <1>5, <1>7 DEF OrderInv
<1>10. \A c : Undelivered(c)' = Undelivered(c) \ InHand(c)
  <2>. SUFFICES ASSUME NEW c
                PROVE  Undelivered(c)' = Undelivered(c) \ InHand(c)
    OBVIOUS
  <2>. DEFINE had == {delivered[n].images[c] :
                        n \in {m \in 1 .. Len(delivered) :
                                 c \in DOMAIN delivered[m].images}}
              has == {delivered'[n].images[c] :
                        n \in {m \in 1 .. Len(delivered') :
                                 c \in DOMAIN delivered'[m].images}}
  <2>1. \A x \in has : x \in had \cup InHand(c)
    BY <1>2, <1>4, <1>5, <1>7 DEF InHand
  <2>2. \A x \in had : x \in has
    <3>1. \A n \in 1 .. Len(delivered) : n \in 1 .. Len(delivered')
      BY <1>4
    <3>. QED BY <1>4, <3>1
  <2>3. \A x \in InHand(c) : x \in has
    <3>1. last \in 1 .. Len(delivered')
      BY <1>4
    <3>. QED BY <1>4, <1>5, <3>1 DEF InHand
  <2>. QED BY <1>1, <2>1, <2>2, <2>3 DEF Undelivered
<1>11. AccountedFor'
  BY <1>1, <1>2, <1>10 DEF AccountedFor, InHand
<1>12. NoCounterparts'
  <2>1. ASSUME NEW c, NEW s, HasCounterparts(c, s)'
        PROVE  HasCounterparts(c, s)
    <3>1. \A d : Undelivered(d)' \subseteq Undelivered(d)
      BY <1>10
    <3>. QED BY <2>1, <3>1 DEF HasCounterparts
  <2>. QED BY <1>1, <2>1 DEF NoCounterparts
<1>. QED BY <1>6, <1>8, <1>9, <1>11, <1>12

LEMMA ReaderStep ==
  ASSUME ReaderInv, [ReaderNext]_readerVars
  PROVE  ReaderInv'
<1>1. CASE Finish
  <2>1. /\ UNCHANGED <<recorded, withDepth, left, depthLeft, frame, imuRead,
                       dropped, delivered>>
        /\ ~Handing /\ ~Handing' /\ place' = "finished"
    BY <1>1 DEF Finish, files, Handing
  <2>. QED BY <2>1, SameCandidates
       DEF ReaderInv, ReaderTypeOK, CompleteInv, FrameComplete, OrderInv,
           AccountedFor, InHand, NoCounterparts, Handing
<1>2. CASE UNCHANGED readerVars
  BY <1>2, SameCandidates
  DEF readerVars, files, ReaderInv, ReaderTypeOK, CompleteInv, FrameComplete,
      OrderInv, AccountedFor, InHand, NoCounterparts, Handing
<1>. QED BY <1>1, <1>2, DropKeeps, TakeKeeps, ReadKeeps, AddKeeps
     DEF ReaderNext, Finished

LEMMA ReaderSafe == ReaderSpec => []ReaderInv
<1>. QED BY ReaderStarts, ReaderStep, PTL DEF ReaderSpec

(* Whatever the cameras recorded, the frames that DatasetReader delivers are *)
(* complete, within the tolerance and in order, with their IMU measurements, *)
(* and no image of a synchronised camera that has counterparts is given up.  *)
THEOREM ReaderSynchronises == ReaderSpec => []Synchronised
<1>1. ReaderInv => Synchronised
  BY DEF ReaderInv, CompleteInv, NoCounterparts, Synchronised
<1>. QED BY <1>1, ReaderSafe, PTL

----------------------------------------------------------------------------
(* Publisher                                                                 *)

Publication == [number : Nat \ {0}, id : Id, keyframe : Id, updated : SUBSET Id]
Propagation == [start : Nat, end : Nat, count : [Stamps -> Nat]]
TrajectoryRecord ==
  [keyframe : [Id -> Nat], of : [Id -> Nat], relative : [Id -> Nat],
   all : SUBSET Id, imu : SUBSET Stamps, live : Propagation]

Busy(c) == at[c] \in {"waiting", "setting", "inside"}

(* The publications on their way to the trajectory.                          *)
Pending ==
  IF Busy("publishing") THEN <<hand["publishing"]>> \o queue
  ELSE IF Busy("stopping") THEN <<hand["stopping"]>> ELSE queue

Handled == Cardinality(trajectory.all)

PublisherTypes ==
  /\ number \in Nat /\ current \in 0 .. MaxStates
  /\ keyframeOf \in [Id -> Nat] /\ moved \in [Id -> Nat]
  /\ offset \in [Id -> Nat]
  /\ queue \in Seq(Publication)
  /\ phase \in {"running", "shut down", "published"}
  /\ at \in [Threads -> {"idle", "waiting", "setting", "inside", "drawing"}]
  /\ hand \in [Callers -> [number : Nat, id : Id, keyframe : Id,
                           updated : SUBSET Id]]
  /\ first \in [Callers -> Nat]
  /\ trajectory \in TrajectoryRecord
  /\ DOMAIN marker = Segments

(* One caller after the other, and the last publication is alone.            *)
CallerInv ==
  /\ at["stopping"] # "idle" =>
       at["publishing"] = "idle" /\ phase = "published"
  /\ phase # "running" => queue = <<>>
  /\ phase # "running" => current # 0
  /\ phase = "published" => at["publishing"] = "idle"
  /\ at["imu"] \in {"idle", "setting", "inside"}

(* The publications come in the order of their states, none is missing.      *)
InOrder(q, base, newest) ==
  /\ base + Len(q) = newest
  /\ \A i \in 1 .. Len(q) : q[i].id = base + i

SequenceInv ==
  /\ trajectory.all = 1 .. Handled
  /\ Busy("stopping") => Handled = current
  /\ InOrder(Pending, IF Busy("stopping") THEN current - 1 ELSE Handled, current)

(* What moved keyframe k last, of the first i publications of q, is n; if    *)
(* none of them did, the trajectory has it.                                  *)
LastMove(q, key, i, k, n) ==
  \/ \E j \in 1 .. i : /\ k \in q[j].updated /\ n = q[j].number
                       /\ \A l \in j + 1 .. i : k \notin q[l].updated
  \/ (\A j \in 1 .. i : k \notin q[j].updated) /\ n = key[k]

(* A publication that is pending has the keyframe of its state, and the      *)
(* offset of its state is what moved that keyframe last until then.          *)
PendingOk(q, of, away, key) ==
  \A i \in 1 .. Len(q) :
    /\ q[i] \in Publication
    /\ q[i].updated \subseteq 1 .. q[i].id /\ q[i].id \in q[i].updated
    /\ q[i].keyframe <= q[i].id /\ of[q[i].keyframe] = q[i].keyframe
    /\ of[q[i].id] = q[i].keyframe
    /\ q[i].keyframe # q[i].id =>
         LastMove(q, key, i, q[i].keyframe, away[q[i].id])

PendingInv == PendingOk(Pending, keyframeOf, offset, trajectory.keyframe)

(* The estimator's keyframes are where the last publication moved them.      *)
EstimatorOk(q, newest, of, move, away, key) ==
  /\ \A s \in 1 .. newest : of[s] \in 1 .. s /\ of[of[s]] = of[s]
  /\ \A s \in Id : s > newest => of[s] = 0
  /\ \A s \in 1 .. newest : of[s] = s =>
       away[s] = 0 /\ LastMove(q, key, Len(q), s, move[s])

EstimatorInv ==
  EstimatorOk(Pending, current, keyframeOf, moved, offset, trajectory.keyframe)

(* What the trajectory knows, and what it knows of a state that is not       *)
(* published again.                                                          *)
Again == IF Busy("stopping") THEN current ELSE 0

KnowledgeOk(known, newest, of, away, again) ==
  /\ \A s \in Id : s > newest => known.keyframe[s] = 0 /\ known.of[s] = 0
  /\ \A s \in 1 .. newest :
       /\ of[s] = s <=> known.keyframe[s] # 0
       /\ of[s] # s =>
            /\ known.of[s] \in 1 .. newest
            /\ known.keyframe[known.of[s]] # 0
            /\ s # again => known.of[s] = of[s] /\ known.relative[s] = away[s]

KnowledgeInv == KnowledgeOk(trajectory, Handled, keyframeOf, offset, Again)

(* The path shows the trajectory, where it is not about to be drawn again.   *)
Shown(g) == \A c \in Callers : at[c] = "drawing" => g < SegmentOf(first[c])
MarkerInv ==
  /\ \A c \in Callers : at[c] = "drawing" =>
       /\ first[c] \in 1 .. Handled
       /\ Handled \in hand[c].updated /\ hand[c].updated \subseteq 1 .. Handled
  /\ \A g \in Segments :
       /\ \A s \in DOMAIN marker[g] : s \in 1 .. Handled /\ SegmentOf(s) <= g
       /\ g > SegmentOf(Handled) => DOMAIN marker[g] = {}
       /\ Shown(g) => \A s \in DOMAIN marker[g] :
                        marker[g][s] = Pose(trajectory, s)
  /\ \A s \in 1 .. Handled :
       Shown(SegmentOf(s)) => s \in DOMAIN marker[SegmentOf(s)]

(* The measurements that wait are the last ones; the trajectory has the      *)
(* others, but for those it dropped.                                         *)
FedStamp == clock - Cardinality(buffered)
SensorInv ==
  /\ clock \in 0 .. LastStamp /\ FedStamp \in 0 .. clock
  /\ buffered = FedStamp + 1 .. clock
  /\ clock - FedStamp <= IF at["imu"] = "idle" THEN MaxMissed ELSE MaxMissed + 1
  /\ current # 0 => Time(current) + Overlap <= clock
  /\ trajectory.imu = {t \in 1 .. FedStamp :
                         Handled # 0 => Time(Handled) - t < Forget}

PropagationInv == Handled # 0 => PropagatedOnce(trajectory)

PublisherGood ==
  /\ PublisherTypes /\ CallerInv /\ SequenceInv /\ PendingInv /\ EstimatorInv
  /\ KnowledgeInv /\ MarkerInv /\ SensorInv /\ PropagationInv

PublisherInv == torn \/ lost # {} \/ PublisherGood

(* The sizes, one by one.                                                    *)
LEMMA PublisherSizes ==
  /\ MaxStates \in Nat /\ MaxStates > 0 /\ Period \in Nat /\ Period > 0
  /\ LastStamp \in Nat /\ LastStamp > 0 /\ Forget \in Nat /\ Forget > 0
  /\ QueueSize \in Nat /\ QueueSize > 0 /\ Segment \in Nat /\ Segment > 0
  /\ Overlap \in Nat /\ MaxMissed \in Nat /\ MaxMissed < Overlap
BY TrajectoryAssumption, PublisherAssumption

(* A later state has a later time.                                           *)
LEMMA StateTimes ==
  ASSUME NEW s \in Nat, NEW t \in Nat
  PROVE  /\ Time(s) \in Nat /\ (s > 0 => Time(s) > 0)
         /\ s <= t => Time(s) <= Time(t)
<1>1. Period \in Nat /\ Period > 0
  BY PublisherSizes
<1>2. Time(s) \in Nat /\ Time(t) \in Nat
  BY <1>1 DEF Time
<1>3. ASSUME s > 0 PROVE Time(s) > 0
  BY <1>1, <1>3 DEF Time
<1>4. ASSUME s <= t PROVE Time(s) <= Time(t)
  <2>1. PICK d \in Nat : t = s + d
    <3>1. t - s \in Nat /\ t = s + (t - s)
      BY <1>4
    <3>. QED BY <3>1
  <2>2. Period * (s + d) = Period * s + Period * d /\ Period * d \in Nat
    BY <1>1
  <2>. QED BY <1>1, <1>2, <2>1, <2>2 DEF Time
<1>. QED BY <1>2, <1>3, <1>4

(* The segment of a state.                                                   *)
LEMMA SegmentBounds ==
  ASSUME NEW s \in Nat
  PROVE  /\ SegmentOf(s) \in Nat /\ SegmentOf(s) * Segment \in Nat
         /\ SegmentOf(s) * Segment <= s
         /\ s < SegmentOf(s) * Segment + Segment
<1>1. Segment \in Nat /\ Segment > 0
  BY PublisherSizes
<1>. QED BY <1>1 DEF SegmentOf

(* The multiples of a number are that far apart.                             *)
LEMMA Multiples ==
  ASSUME NEW m \in Nat, NEW n \in Nat, NEW w \in Nat, m < n
  PROVE  m * w \in Nat /\ n * w \in Nat /\ m * w + w <= n * w
<1>1. n - m - 1 \in Nat /\ n = m + 1 + (n - m - 1)
  OBVIOUS
<1>2. PICK d \in Nat : n = m + 1 + d
  BY <1>1
<1>3. (m + 1 + d) * w = m * w + w + d * w
      /\ m * w \in Nat /\ d * w \in Nat /\ n * w \in Nat
  OBVIOUS
<1>. QED BY <1>2, <1>3

(* A state before the end of a segment is in no later one, and one after its *)
(* beginning in no earlier one.                                              *)
LEMMA SegmentBefore ==
  ASSUME NEW s \in Nat, NEW g \in Nat
  PROVE  /\ s < g * Segment + Segment => SegmentOf(s) <= g
         /\ g * Segment <= s => g <= SegmentOf(s)
<1>1. /\ Segment \in Nat /\ Segment > 0 /\ g * Segment \in Nat
      /\ SegmentOf(s) \in Nat /\ SegmentOf(s) * Segment \in Nat
      /\ SegmentOf(s) * Segment <= s /\ s < SegmentOf(s) * Segment + Segment
  BY SegmentBounds, PublisherSizes
<1>2. g < SegmentOf(s) => g * Segment + Segment <= SegmentOf(s) * Segment
  BY <1>1, Multiples
<1>3. SegmentOf(s) < g => SegmentOf(s) * Segment + Segment <= g * Segment
  BY <1>1, Multiples
<1>. QED BY <1>1, <1>2, <1>3

(* Later states are in later segments.                                       *)
LEMMA SegmentMonotone ==
  ASSUME NEW s \in Nat, NEW t \in Nat, s <= t
  PROVE  SegmentOf(s) <= SegmentOf(t)
<1>1. s < SegmentOf(t) * Segment + Segment
  BY SegmentBounds, PublisherSizes
<1>. QED BY <1>1, SegmentBefore, SegmentBounds

(* From the first state of its segment on, or from state 1.                  *)
LEMMA SegmentStart ==
  ASSUME NEW s \in Nat, s > 0
  PROVE  LET d == Max({1, SegmentOf(s) * Segment}) IN
           /\ d \in 1 .. s /\ SegmentOf(d) = SegmentOf(s)
           /\ \A t \in Nat : t > 0 /\ SegmentOf(t) >= SegmentOf(s) => t >= d
<1>. DEFINE b == SegmentOf(s) * Segment
            d == Max({1, b})
<1>1. b \in Nat /\ b <= s /\ Segment \in Nat /\ Segment > 0 /\ s < b + Segment
      /\ SegmentOf(s) \in Nat
  BY SegmentBounds, PublisherSizes
<1>2. /\ d = IF b >= 1 THEN b ELSE 1
  <2>1. CASE b >= 1
    <3>1. IsMax({1, b}, b)
      BY <1>1, <2>1 DEF IsMax
    <3>. QED BY <2>1, <3>1, MaxIs
  <2>2. CASE ~(b >= 1)
    <3>1. IsMax({1, b}, 1)
      BY <1>1, <2>2 DEF IsMax
    <3>. QED BY <2>2, <3>1, MaxIs
  <2>. QED BY <2>1, <2>2
<1>. HIDE DEF d
<1>3. d \in 1 .. s /\ d \in Nat
  BY <1>1, <1>2
<1>4. SegmentOf(d) <= SegmentOf(s)
  BY <1>3, SegmentMonotone
<1>5. ASSUME NEW t \in Nat, t > 0, SegmentOf(t) >= SegmentOf(s) PROVE t >= d
  <2>1. SegmentOf(t) \in Nat /\ SegmentOf(t) * Segment <= t
        /\ SegmentOf(t) * Segment \in Nat
    BY SegmentBounds
  <2>2. SegmentOf(s) < SegmentOf(t) => b + Segment <= SegmentOf(t) * Segment
    BY <1>1, <2>1, Multiples
  <2>3. b <= t
    BY <1>1, <1>5, <2>1, <2>2
  <2>. QED BY <1>1, <1>2, <1>5, <2>3
<1>6. SegmentOf(s) <= SegmentOf(d)
  <2>1. CASE SegmentOf(s) = 0
    BY <1>3, <2>1, SegmentBounds
  <2>2. CASE SegmentOf(s) # 0
    <3>1. 0 * Segment + Segment <= b
      BY <1>1, <2>2, Multiples
    <3>2. b = d
      BY <1>1, <1>2, <3>1
    <3>. QED BY <1>1, <1>3, <3>2, SegmentBefore
  <2>. QED BY <2>1, <2>2
<1>7. SegmentOf(d) = SegmentOf(s)
  <2>1. SegmentOf(d) \in Nat
    BY <1>3, SegmentBounds
  <2>. QED BY <1>1, <1>4, <1>6, <2>1
<1>. QED BY <1>3, <1>5, <1>7 DEF d

(* A stamp that is the last of some is the greatest of them.                 *)
LEMMA MaxWithLast ==
  ASSUME NEW S, NEW m \in Nat, m \in S, \A t \in S : t \in Nat /\ t <= m
  PROVE  Max(S) = m
<1>1. IsMax(S, m)
  BY DEF IsMax
<1>. QED BY <1>1, MaxIs

(* And one that is the first of them is the least.                           *)
LEMMA MinWithFirst ==
  ASSUME NEW S, NEW m \in Nat, m \in S, \A t \in S : t \in Nat /\ m <= t
  PROVE  Min(S) = m
<1>1. IsMin(S, m)
  BY DEF IsMin
<1>. QED BY <1>1, MinIs

(* A finite, non-empty set of stamps has a least and a greatest one.         *)
LEMMA StampsOrdered ==
  ASSUME NEW S \in SUBSET Stamps, S # {}
  PROVE  Max(S) \in S /\ Min(S) \in S /\ \A t \in S : Min(S) <= t /\ t <= Max(S)
<1>1. IsFiniteSet(S) /\ \A t \in S : t \in Nat
  <2>1. IsFiniteSet(Stamps)
    BY PublisherSizes, FS_Interval DEF Stamps
  <2>2. \A t \in S : t \in Nat
    BY DEF Stamps
  <2>3. IsFiniteSet(S)
    BY <2>1, FS_Subset
  <2>. QED BY <2>2, <2>3
<1>2. HasMax(S) /\ HasMin(S)
  BY <1>1, FiniteSetHasMax, NatsHaveMin
<1>. QED BY <1>2 DEF HasMax, IsMax, HasMin, IsMin

(* A propagation goes on to the last of the measurements.                    *)
LEMMA AppendToIs ==
  ASSUME NEW live \in Propagation, NEW imu \in SUBSET Stamps, NEW end \in imu,
         \A t \in imu : t <= end
  PROVE  LET r == AppendTo(live, imu, end) IN
           /\ r \in Propagation /\ r.start = live.start /\ r.end = end
           /\ \A t \in Stamps : r.count[t] =
                IF live.end < t /\ t <= end /\ Min(imu) < t
                  THEN live.count[t] + 1 ELSE live.count[t]
<1>1. end \in Nat /\ \A t \in imu : t \in Nat
  BY PublisherSizes DEF Stamps
<1>2. Max(imu) = end
  BY <1>1, MaxWithLast
<1>. DEFINE c == [t \in Stamps |-> IF live.end < t /\ t <= end /\ Min(imu) < t
                                     THEN live.count[t] + 1 ELSE live.count[t]]
<1>3. AppendTo(live, imu, end) = [start |-> live.start, end |-> end, count |-> c]
  <2>1. AppendTo(live, imu, end) = [live EXCEPT !.end = end, !.count = c]
    <3>1. ~(Max(imu) < end)
      BY <1>1, <1>2
    <3>2. c = [t \in Stamps |->
                 IF live.end < t /\ t <= end /\ Min(imu) < t
                   THEN live.count[t] + 1 ELSE live.count[t]]
      OBVIOUS
    <3>. HIDE DEF c
    <3>. QED BY <3>1, <3>2 DEF AppendTo, Propagation
  <2>. HIDE DEF c
  <2>. QED BY <2>1 DEF Propagation
<1>4. c \in [Stamps -> Nat]
  BY DEF Propagation
<1>5. end \in Nat
  BY <1>1
<1>. QED BY <1>3, <1>4, <1>5 DEF Propagation

(* A new one goes over every interval from its start on once, if there is a  *)
(* measurement at the start.                                                 *)
LEMMA FreshPropagation ==
  ASSUME NEW start \in Stamps, NEW imu \in SUBSET Stamps, NEW end \in imu,
         start \in imu, \A t \in imu : t <= end
  PROVE  LET r == AppendTo(Propagator(start), imu, end) IN
           /\ r \in Propagation /\ r.start = start /\ r.end = end
           /\ \A t \in Stamps :
                r.count[t] = IF start < t /\ t <= end THEN 1 ELSE 0
<1>. DEFINE p == Propagator(start)
<1>1. p \in Propagation /\ p.start = start /\ p.end = start
      /\ \A t \in Stamps : p.count[t] = 0
  BY PublisherSizes DEF Propagator, Propagation, Stamps
<1>2. Min(imu) \in imu /\ Min(imu) <= start
  BY StampsOrdered
<1>. HIDE DEF p
<1>3. /\ AppendTo(p, imu, end) \in Propagation
      /\ AppendTo(p, imu, end).start = start /\ AppendTo(p, imu, end).end = end
      /\ \A t \in Stamps : AppendTo(p, imu, end).count[t] =
           IF start < t /\ t <= end /\ Min(imu) < t THEN 0 + 1 ELSE 0
  <2>1. LET r == AppendTo(p, imu, end) IN
           /\ r \in Propagation /\ r.start = p.start /\ r.end = end
           /\ \A t \in Stamps : r.count[t] =
                IF p.end < t /\ t <= end /\ Min(imu) < t
                  THEN p.count[t] + 1 ELSE p.count[t]
    BY <1>1, AppendToIs
  <2>. QED BY <1>1, <2>1
<1>4. \A t \in Stamps : start < t => Min(imu) < t
  <2>1. \A t \in Stamps : t \in Nat
    BY DEF Stamps
  <2>2. Min(imu) \in Nat /\ start \in Nat
    BY <1>2, <2>1
  <2>. QED BY <1>2, <2>1, <2>2
<1>. QED BY <1>3, <1>4 DEF p

(* What one more measurement changes.                                        *)
LEMMA AddImuIs ==
  ASSUME NEW from \in TrajectoryRecord, NEW stamp \in Stamps,
         \A t \in from.imu : t <= stamp
  PROVE  LET r == AddImu(from, stamp) IN
           /\ r \in TrajectoryRecord
           /\ r.keyframe = from.keyframe /\ r.of = from.of
           /\ r.relative = from.relative /\ r.all = from.all
           /\ r.imu = from.imu \cup {stamp}
           /\ from.all # {} /\ Known(from, Max(from.all))
                /\ ~(stamp < Time(Max(from.all)))
              => r.live = AppendTo(from.live, r.imu, stamp)
<1>. DEFINE imu == from.imu \cup {stamp}
            live == AppendTo(from.live, imu, stamp)
<1>1. from.live \in Propagation /\ imu \in SUBSET Stamps /\ stamp \in imu
      /\ \A t \in imu : t <= stamp
  BY PublisherSizes DEF TrajectoryRecord, Stamps
<1>2. live \in Propagation
  BY <1>1, AppendToIs
<1>. HIDE DEF live
<1>3. CASE from.all = {} \/ ~Known(from, Max(from.all)) \/ stamp < Time(Max(from.all))
  <2>1. AddImu(from, stamp) = [from EXCEPT !.imu = imu]
    BY <1>3 DEF AddImu
  <2>. QED BY <1>1, <1>3, <2>1 DEF TrajectoryRecord
<1>4. CASE ~(from.all = {} \/ ~Known(from, Max(from.all))
             \/ stamp < Time(Max(from.all)))
  <2>1. AddImu(from, stamp) = [from EXCEPT !.imu = imu, !.live = live]
    BY <1>4 DEF AddImu, live, TrajectoryRecord
  <2>. QED BY <1>1, <1>2, <1>4, <2>1 DEF TrajectoryRecord, live
<1>. QED BY <1>3, <1>4

(* Feeding the measurements one after the other is well defined: by a least  *)
(* number of them with which it is not.                                      *)
FedUpTo(f, n, from, stamps) ==
  f = [t \in 0 .. n |->
         IF t = 0 THEN from
         ELSE IF t \in stamps THEN AddImu(f[t - 1], t) ELSE f[t - 1]]

(* It is, for every number of measurements.                                  *)
LEMMA FedExists ==
  ASSUME NEW n \in Nat, NEW from, NEW stamps
  PROVE  \E f : FedUpTo(f, n, from, stamps)
<1>. DEFINE Bad == {m \in Nat : ~\E f : FedUpTo(f, m, from, stamps)}
<1>1. SUFFICES ASSUME Bad # {} PROVE FALSE
  OBVIOUS
<1>2. HasMin(Bad)
  BY <1>1, NatsHaveMin
<1>3. PICK m \in Bad : \A x \in Bad : m <= x
  BY <1>2 DEF HasMin, IsMin
<1>4. CASE m = 0
  <2>. DEFINE f == [t \in 0 .. 0 |-> from]
  <2>1. f[0] = from /\ \A t \in 0 .. 0 : t = 0
    OBVIOUS
  <2>2. FedUpTo(f, 0, from, stamps)
    BY <2>1 DEF FedUpTo
  <2>. QED BY <1>4, <2>2
<1>5. CASE m # 0
  <2>1. m - 1 \in Nat /\ m - 1 \notin Bad
    BY <1>3, <1>5
  <2>2. PICK f : FedUpTo(f, m - 1, from, stamps)
    BY <2>1
  <2>. DEFINE next(t) == IF t \in stamps THEN AddImu(f[t - 1], t) ELSE f[t - 1]
              g == [t \in 0 .. m |-> IF t = m THEN next(m) ELSE f[t]]
  <2>3. \A t \in 0 .. m : t # 0 => t - 1 \in 0 .. m /\ t - 1 # m
    BY <1>5
  <2>4. \A t \in 0 .. m - 1 :
          f[t] = IF t = 0 THEN from
                 ELSE IF t \in stamps THEN AddImu(f[t - 1], t) ELSE f[t - 1]
    BY <2>2 DEF FedUpTo
  <2>5. ASSUME NEW t \in 0 .. m
        PROVE  g[t] = IF t = 0 THEN from
                      ELSE IF t \in stamps THEN AddImu(g[t - 1], t) ELSE g[t - 1]
    <3>1. t # 0 => g[t - 1] = f[t - 1]
      BY <2>3
    <3>2. CASE t = m
      BY <1>5, <3>1, <3>2
    <3>3. CASE t # m
      <4>1. t \in 0 .. m - 1
        BY <3>3
      <4>. QED BY <2>4, <3>1, <3>3, <4>1
    <3>. QED BY <3>2, <3>3
  <2>6. g = [t \in 0 .. m |-> g[t]]
    OBVIOUS
  <2>. HIDE DEF g
  <2>7. FedUpTo(g, m, from, stamps)
    BY <2>5, <2>6 DEF FedUpTo
  <2>. QED BY <2>7
<1>. QED BY <1>4, <1>5

(* Fed is the trajectory after the last of them.                             *)
LEMMA FedIs ==
  ASSUME NEW from, NEW stamps
  PROVE  \E f : /\ Fed(from, stamps) = f[LastStamp] /\ f[0] = from
                /\ \A t \in Stamps :
                     f[t] = IF t \in stamps THEN AddImu(f[t - 1], t) ELSE f[t - 1]
<1>. DEFINE f == CHOOSE f : FedUpTo(f, LastStamp, from, stamps)
<1>1. Fed(from, stamps) = f[LastStamp]
  BY DEF Fed, FedUpTo
<1>2. FedUpTo(f, LastStamp, from, stamps)
  BY FedExists, PublisherSizes
<1>. HIDE DEF f
<1>3. \A t \in 0 .. LastStamp :
         f[t] = IF t = 0 THEN from
                ELSE IF t \in stamps THEN AddImu(f[t - 1], t) ELSE f[t - 1]
  BY <1>2 DEF FedUpTo
<1>4. 0 \in 0 .. LastStamp /\ \A t \in Stamps : t \in 0 .. LastStamp /\ t # 0
  BY PublisherSizes DEF Stamps
<1>. QED BY <1>1, <1>3, <1>4

(* The measurements from one stamp to another are fed: the states stay, and  *)
(* the propagation, if it ends before them, goes on to the last of them and  *)
(* over every interval once.                                                 *)
Continues(r, from, fed) ==
  /\ r \in TrajectoryRecord
  /\ r.keyframe = from.keyframe /\ r.of = from.of
  /\ r.relative = from.relative /\ r.all = from.all
  /\ r.imu = from.imu \cup fed

(* So they are, by the propagation after each of them.                       *)
LEMMA FedContinues ==
  ASSUME NEW from \in TrajectoryRecord, NEW lower \in 0 .. LastStamp,
         NEW upper \in lower .. LastStamp, \A t \in from.imu : t <= lower
  PROVE  LET r == Fed(from, lower + 1 .. upper)
             base == Max(from.all) IN
           /\ Continues(r, from, lower + 1 .. upper)
           /\ /\ from.all # {} /\ Known(from, base) /\ Time(base) \in from.imu
              /\ Time(base) \in Stamps /\ lower \in from.imu
              /\ PropagatedOnce(from)
              => PropagatedOnce(r)
<1>. DEFINE base == Max(from.all)
            Known1 == from.all # {} /\ Known(from, base)
                      /\ Time(base) \in from.imu /\ Time(base) \in Stamps
                      /\ lower \in from.imu /\ PropagatedOnce(from)
            stamps == lower + 1 .. upper
            Good(r, t) ==
              LET end == IF t <= lower THEN lower ELSE IF t <= upper THEN t ELSE upper IN
                /\ Continues(r, from, lower + 1 .. end)
                /\ Known1 => /\ r.live.start = Time(base) /\ r.live.end = end
                             /\ \A u \in Stamps : r.live.count[u] =
                                  IF Time(base) < u /\ u <= end THEN 1 ELSE 0
<1>1. PICK f : /\ Fed(from, stamps) = f[LastStamp] /\ f[0] = from
               /\ \A t \in Stamps :
                    f[t] = IF t \in stamps THEN AddImu(f[t - 1], t) ELSE f[t - 1]
  BY FedIs
<1>2. LastStamp \in Nat /\ LastStamp > 0 /\ lower \in Nat /\ upper \in Nat
      /\ lower <= upper /\ upper <= LastStamp /\ Stamps = 1 .. LastStamp
  BY PublisherSizes DEF Stamps
<1>3. Known1 => Max(from.imu) = lower
  <2>1. \A t \in from.imu : t \in Nat
    BY <1>2 DEF TrajectoryRecord
  <2>. QED BY <1>2, <2>1, MaxWithLast
<1>4. Good(f[0], 0)
  <2>1. f[0] = from /\ lower + 1 .. lower = {} /\ from.imu = from.imu \cup {}
    BY <1>1, <1>2
  <2>2. Continues(f[0], from, lower + 1 .. lower)
    BY <2>1 DEF Continues
  <2>3. Known1 => /\ from.live.start = Time(base) /\ from.live.end = lower
                  /\ \A u \in Stamps : from.live.count[u] =
                       IF Time(base) < u /\ u <= lower THEN 1 ELSE 0
    BY <1>3 DEF PropagatedOnce
  <2>. QED BY <1>2, <2>1, <2>2, <2>3
<1>. HIDE DEF Known1
<1>5. ASSUME NEW t \in Stamps, Good(f[t - 1], t - 1)
      PROVE  Good(f[t], t)
  <2>. DEFINE g == f[t - 1]
  <2>. HIDE DEF g
  <2>1. f[t] = IF t \in stamps THEN AddImu(g, t) ELSE g
    BY <1>1 DEF g
  <2>2. CASE t <= lower
    BY <1>2, <1>5, <2>1, <2>2 DEF g
  <2>3. CASE upper < t
    <3>1. f[t] = g
      BY <1>2, <2>1, <2>3
    <3>2. Good(g, t - 1)
      BY <1>5 DEF g
    <3>3. CASE t - 1 <= lower
      <4>1. t - 1 = lower /\ upper = lower
        BY <1>2, <2>3, <3>3
      <4>. QED BY <1>2, <2>3, <3>1, <3>2, <4>1
    <3>4. CASE ~(t - 1 <= lower)
      <4>1. t - 1 <= upper => t - 1 = upper
        BY <1>2, <2>3
      <4>. QED BY <1>2, <2>3, <3>1, <3>2, <3>4, <4>1
    <3>. QED BY <3>3, <3>4
  <2>4. CASE lower < t /\ t <= upper
    <3>1. t \in stamps /\ f[t] = AddImu(g, t)
      BY <1>2, <2>1, <2>4
    <3>2. /\ Continues(g, from, lower + 1 .. t - 1)
          /\ Known1 => /\ g.live.start = Time(base) /\ g.live.end = t - 1
                       /\ \A u \in Stamps : g.live.count[u] =
                            IF Time(base) < u /\ u <= t - 1 THEN 1 ELSE 0
      <4>1. Good(g, t - 1)
        BY <1>5 DEF g
      <4>2. t - 1 <= lower => t - 1 = lower
        BY <1>2, <2>4
      <4>3. t - 1 <= upper
        BY <1>2, <2>4
      <4>. QED BY <4>1, <4>2, <4>3
    <3>3. g \in TrajectoryRecord /\ g.imu = from.imu \cup (lower + 1 .. t - 1)
          /\ \A u \in g.imu : u \in Nat /\ u <= t
      <4>1. \A u \in from.imu : u \in Nat /\ u <= lower
        BY <1>2 DEF TrajectoryRecord
      <4>. QED BY <1>2, <2>4, <3>2, <4>1 DEF Continues
    <3>. DEFINE r == AddImu(g, t)
    <3>4. /\ r \in TrajectoryRecord
          /\ r.keyframe = g.keyframe /\ r.of = g.of
          /\ r.relative = g.relative /\ r.all = g.all
          /\ r.imu = g.imu \cup {t}
          /\ g.all # {} /\ Known(g, Max(g.all)) /\ ~(t < Time(Max(g.all)))
              => r.live = AppendTo(g.live, r.imu, t)
      BY <3>3, AddImuIs
    <3>. HIDE DEF r
    <3>5. r.imu = from.imu \cup (lower + 1 .. t)
      <4>1. (lower + 1 .. t - 1) \cup {t} = lower + 1 .. t
        BY <1>2, <2>4
      <4>. QED BY <3>3, <3>4, <4>1
    <3>6. Continues(r, from, lower + 1 .. t)
      BY <3>2, <3>4, <3>5 DEF Continues
    <3>7. ASSUME Known1
          PROVE  /\ r.live.start = Time(base) /\ r.live.end = t
                 /\ \A u \in Stamps : r.live.count[u] =
                      IF Time(base) < u /\ u <= t THEN 1 ELSE 0
      <4>1. from.all # {} /\ Known(from, base) /\ Time(base) \in from.imu
            /\ Time(base) \in Nat /\ Time(base) <= lower
        BY <1>2, <3>7 DEF Known1, TrajectoryRecord
      <4>2. g.all = from.all /\ Known(g, base) = Known(from, base)
        BY <3>2 DEF Continues, Known
      <4>3. r.live = AppendTo(g.live, r.imu, t)
        BY <1>2, <2>4, <3>4, <4>1, <4>2
      <4>4. r.imu \in SUBSET Stamps /\ t \in r.imu /\ \A u \in r.imu : u <= t
            /\ g.live \in Propagation /\ Time(base) \in r.imu
        BY <1>2, <3>3, <3>4, <4>1 DEF TrajectoryRecord
      <4>5. LET q == AppendTo(g.live, r.imu, t) IN
              /\ q.start = g.live.start /\ q.end = t
              /\ \A u \in Stamps : q.count[u] =
                   IF g.live.end < u /\ u <= t /\ Min(r.imu) < u
                     THEN g.live.count[u] + 1 ELSE g.live.count[u]
        BY <4>4, AppendToIs
      <4>6. Min(r.imu) \in Nat /\ Min(r.imu) <= Time(base)
        BY <1>2, <4>4, StampsOrdered
      <4>7. g.live.start = Time(base) /\ g.live.end = t - 1
            /\ \A u \in Stamps : g.live.count[u] =
                 IF Time(base) < u /\ u <= t - 1 THEN 1 ELSE 0
        BY <3>2, <3>7
      <4>8. ASSUME NEW u \in Stamps
            PROVE  r.live.count[u] = IF Time(base) < u /\ u <= t THEN 1 ELSE 0
        <5>1. r.live.count[u] = IF t - 1 < u /\ u <= t /\ Min(r.imu) < u
                                  THEN g.live.count[u] + 1 ELSE g.live.count[u]
          BY <4>3, <4>5, <4>7
        <5>2. g.live.count[u] = IF Time(base) < u /\ u <= t - 1 THEN 1 ELSE 0
          BY <4>7
        <5>. QED BY <1>2, <2>4, <4>1, <4>6, <5>1, <5>2
      <4>. QED BY <4>3, <4>5, <4>7, <4>8
    <3>8. f[t] = r
      BY <3>1 DEF r
    <3>. QED BY <1>2, <2>4, <3>6, <3>7, <3>8
  <2>. QED BY <1>2, <2>2, <2>3, <2>4
<1>6. Good(f[LastStamp], LastStamp)
  <2>. DEFINE Bad == {n \in Nat : n <= LastStamp /\ ~Good(f[n], n)}
  <2>. HIDE DEF Good
  <2>1. SUFFICES ASSUME Bad # {} PROVE FALSE
    BY <1>2
  <2>2. HasMin(Bad)
    BY <2>1, NatsHaveMin
  <2>3. PICK n \in Bad : \A x \in Bad : n <= x
    BY <2>2 DEF HasMin, IsMin
  <2>4. n # 0
    BY <1>4, <2>3
  <2>5. n \in Stamps /\ n - 1 \in Nat /\ n - 1 \notin Bad
    BY <1>2, <2>3, <2>4
  <2>6. Good(f[n - 1], n - 1)
    BY <1>2, <2>3, <2>5
  <2>. QED BY <1>5, <2>3, <2>5, <2>6
<1>. DEFINE r == Fed(from, stamps)
<1>. HIDE DEF r
<1>7. Good(r, LastStamp)
  BY <1>1, <1>6 DEF r
<1>8. /\ Continues(r, from, stamps)
      /\ Known1 => /\ r.live.start = Time(base) /\ r.live.end = upper
                   /\ \A u \in Stamps : r.live.count[u] =
                        IF Time(base) < u /\ u <= upper THEN 1 ELSE 0
  <2>1. LastStamp <= lower => lower = upper
    BY <1>2
  <2>2. LastStamp <= upper => LastStamp = upper
    BY <1>2
  <2>. QED BY <1>7, <2>1, <2>2
<1>9. ASSUME Known1 PROVE PropagatedOnce(r)
  <2>1. r.all = from.all /\ r.imu = from.imu \cup stamps /\ lower \in from.imu
    BY <1>8, <1>9 DEF Continues, Known1
  <2>2. Max(r.imu) = upper
    <3>1. \A t \in from.imu : t \in Nat
      BY <1>2 DEF TrajectoryRecord
    <3>2. upper \in r.imu /\ \A t \in r.imu : t \in Nat /\ t <= upper
      BY <1>2, <2>1, <3>1
    <3>. QED BY <1>2, <3>2, MaxWithLast
  <2>. QED BY <1>8, <1>9, <2>1, <2>2 DEF PropagatedOnce
<1>. QED BY <1>8, <1>9 DEF r, Known1

(* What a publication changes in the trajectory, field by field.             *)
LEMMA UpdatedIs ==
  ASSUME NEW old \in TrajectoryRecord, NEW p \in Publication
  PROVE  LET u   == Update(old, p)
             imu == {t \in old.imu : Time(p.id) - t < Forget} IN
           /\ u \in TrajectoryRecord
           /\ u.all = old.all \cup {p.id} /\ u.imu = imu
           /\ u.live = IF imu = {} THEN Propagator(Time(p.id))
                       ELSE AppendTo(Propagator(Time(p.id)), imu, Max(imu))
           /\ u.keyframe = [s \in Id |->
                IF \/ s \in p.updated /\ old.keyframe[s] # 0
                   \/ s = p.id /\ p.keyframe = p.id
                  THEN p.number ELSE old.keyframe[s]]
           /\ p.keyframe = p.id => u.of = old.of /\ u.relative = old.relative
           /\ p.keyframe # p.id =>
                /\ u.relative = [old.relative EXCEPT
                                   ![p.id] = u.keyframe[p.keyframe]]
                /\ u.keyframe[p.keyframe] # 0 =>
                     u.of = [old.of EXCEPT ![p.id] = p.keyframe]
<1>. DEFINE u == Update(old, p)
            imu == {t \in old.imu : Time(p.id) - t < Forget}
            live == IF imu = {} THEN Propagator(Time(p.id))
                    ELSE AppendTo(Propagator(Time(p.id)), imu, Max(imu))
            moving == [s \in Id |-> IF s \in p.updated /\ old.keyframe[s] # 0
                                      THEN p.number ELSE old.keyframe[s]]
            key == IF p.keyframe = p.id THEN [moving EXCEPT ![p.id] = p.number]
                                        ELSE moving
            of == IF p.keyframe # p.id /\ moving[p.keyframe] # 0
                    THEN [old.of EXCEPT ![p.id] = p.keyframe] ELSE old.of
            relative == IF p.keyframe # p.id
                          THEN [old.relative EXCEPT ![p.id] = moving[p.keyframe]]
                          ELSE old.relative
            all == old.all \cup {p.id}
<1>1. /\ old.keyframe \in [Id -> Nat] /\ old.of \in [Id -> Nat]
      /\ old.relative \in [Id -> Nat] /\ old.all \subseteq Id
      /\ old.imu \subseteq Stamps /\ old.live \in Propagation
      /\ p.number \in Nat /\ p.number # 0 /\ p.id \in Id /\ p.keyframe \in Id
      /\ p.updated \subseteq Id
  BY DEF TrajectoryRecord, Publication
<1>2. moving \in [Id -> Nat] /\ key \in [Id -> Nat]
  BY <1>1
<1>3. of \in [Id -> Nat] /\ relative \in [Id -> Nat]
  BY <1>1, <1>2, PublisherSizes DEF Id
<1>4. live \in Propagation
  <2>0. \A t \in Stamps : t \in Nat
    BY PublisherSizes DEF Stamps
  <2>1. Time(p.id) \in Nat
    <3>1. p.id \in Nat
      BY <1>1, PublisherSizes DEF Id
    <3>. QED BY <3>1, StateTimes
  <2>2. Propagator(Time(p.id)) \in Propagation
    BY <2>1 DEF Propagator, Propagation
  <2>3. CASE imu # {}
    <3>1. imu \in SUBSET Stamps
      BY <1>1
    <3>2. Max(imu) \in imu /\ \A t \in imu : t <= Max(imu)
      BY <2>3, <3>1, StampsOrdered
    <3>. HIDE DEF imu
    <3>3. AppendTo(Propagator(Time(p.id)), imu, Max(imu)) \in Propagation
      BY <2>2, <3>1, <3>2, AppendToIs
    <3>. QED BY <2>3, <3>3
  <2>. QED BY <2>2, <2>3
<1>5. Inserted(old, p) = [old EXCEPT !.all = all, !.keyframe = key, !.of = of,
                                     !.relative = relative]
  BY DEF Inserted, TrajectoryRecord
<1>. HIDE DEF live, key, of, relative, all
<1>6. u = [old EXCEPT !.all = all, !.keyframe = key, !.of = of,
                      !.relative = relative, !.imu = imu, !.live = live]
  <2>1. u = [Inserted(old, p) EXCEPT !.imu = imu, !.live = live]
    <3>. HIDE DEF u
    <3>1. u = Update(old, p)
      BY DEF u
    <3>. QED BY <3>1, <1>5 DEF Update, TrajectoryRecord, live
  <2>. HIDE DEF u, imu
  <2>. QED BY <1>5, <2>1 DEF TrajectoryRecord
<1>7. /\ u.all = all /\ u.keyframe = key /\ u.of = of /\ u.relative = relative
      /\ u.imu = imu /\ u.live = live
      /\ u = [keyframe |-> key, of |-> of, relative |-> relative, all |-> all,
              imu |-> imu, live |-> live]
  <2>. HIDE DEF u, imu, moving
  <2>. QED BY <1>6 DEF TrajectoryRecord
<1>8. all \subseteq Id /\ imu \subseteq Stamps
  BY <1>1 DEF all
<1>9. u \in TrajectoryRecord
  <2>. HIDE DEF u, imu, moving
  <2>. QED BY <1>2, <1>3, <1>4, <1>7, <1>8 DEF TrajectoryRecord
<1>10. key = [s \in Id |->
                IF \/ s \in p.updated /\ old.keyframe[s] # 0
                   \/ s = p.id /\ p.keyframe = p.id
                  THEN p.number ELSE old.keyframe[s]]
  BY <1>1 DEF key
<1>11. p.keyframe # p.id => key = moving
  BY DEF key
<1>12. /\ p.keyframe = p.id => of = old.of /\ relative = old.relative
       /\ p.keyframe # p.id =>
            /\ relative = [old.relative EXCEPT ![p.id] = key[p.keyframe]]
            /\ key[p.keyframe] # 0 => of = [old.of EXCEPT ![p.id] = p.keyframe]
  <2>. HIDE DEF moving, key
  <2>. QED BY <1>11 DEF of, relative
<1>. HIDE DEF u, imu, moving
<1>13. /\ u.all = old.all \cup {p.id} /\ u.imu = imu
       /\ u.live = IF imu = {} THEN Propagator(Time(p.id))
                   ELSE AppendTo(Propagator(Time(p.id)), imu, Max(imu))
  BY <1>7 DEF all, live
<1>14. /\ u.keyframe = [s \in Id |->
                IF \/ s \in p.updated /\ old.keyframe[s] # 0
                   \/ s = p.id /\ p.keyframe = p.id
                  THEN p.number ELSE old.keyframe[s]]
  BY <1>7, <1>10
<1>15. /\ p.keyframe = p.id => u.of = old.of /\ u.relative = old.relative
       /\ p.keyframe # p.id =>
                /\ u.relative = [old.relative EXCEPT
                                   ![p.id] = u.keyframe[p.keyframe]]
                /\ u.keyframe[p.keyframe] # 0 =>
                     u.of = [old.of EXCEPT ![p.id] = p.keyframe]
  BY <1>7, <1>12
<1>. QED BY <1>9, <1>13, <1>14, <1>15, Zenon DEF u, imu

(* Where the publications and the states of the trajectory stay as they are. *)
SameStates ==
  /\ trajectory'.keyframe = trajectory.keyframe
  /\ trajectory'.of = trajectory.of
  /\ trajectory'.relative = trajectory.relative
  /\ trajectory'.all = trajectory.all

(* Where nothing is published or handed on, the publications stay in order.  *)
LEMMA NothingPending ==
  ASSUME SequenceInv, PendingInv, EstimatorInv, KnowledgeInv, SameStates,
         Pending' = Pending, Busy("stopping")' <=> Busy("stopping"),
         UNCHANGED <<current, keyframeOf, moved, offset>>
  PROVE  SequenceInv' /\ PendingInv' /\ EstimatorInv' /\ KnowledgeInv'
<1>1. Handled' = Handled /\ Again' = Again
  BY DEF Handled, SameStates, Again
<1>2. SequenceInv'
  BY <1>1 DEF SequenceInv, SameStates
<1>3. PendingInv' /\ EstimatorInv'
  BY DEF PendingInv, EstimatorInv, SameStates
<1>4. KnowledgeInv'
  BY <1>1 DEF KnowledgeInv, KnowledgeOk, SameStates
<1>. QED BY <1>2, <1>3, <1>4

(* Where nobody begins or ends to draw.                                      *)
LEMMA NothingDrawn ==
  ASSUME MarkerInv, SameStates, marker' = marker,
         \A c \in Callers : /\ at'[c] = "drawing" <=> at[c] = "drawing"
                            /\ at[c] = "drawing" => /\ first'[c] = first[c]
                                                    /\ hand'[c] = hand[c]
  PROVE  MarkerInv'
<1>1. Handled' = Handled
  BY DEF Handled, SameStates
<1>2. \A g : Shown(g)' = Shown(g)
  BY DEF Shown
<1>3. \A s : Pose(trajectory, s)' = Pose(trajectory, s)
  BY DEF Pose, SameStates
<1>. QED BY <1>1, <1>2, <1>3 DEF MarkerInv

(* Where no state is published and no measurement comes or is fed.           *)
LEMMA NothingSensed ==
  ASSUME SensorInv, trajectory' = trajectory, UNCHANGED sensor,
         current' = current, at'["imu"] = "idle" <=> at["imu"] = "idle"
  PROVE  SensorInv'
<1>1. Handled' = Handled /\ FedStamp' = FedStamp /\ clock' = clock
      /\ buffered' = buffered
  BY DEF Handled, FedStamp, sensor
<1>. QED BY <1>1 DEF SensorInv

(* Where the trajectory is left alone, so is the propagation.                *)
LEMMA NothingFed ==
  ASSUME PropagationInv, trajectory' = trajectory
  PROVE  PropagationInv'
BY DEF PropagationInv, Handled

(* The place of a thread.                                                    *)
LEMMA GoIs ==
  ASSUME PublisherTypes, NEW t \in Threads, NEW from, NEW to, Go(t, from, to)
  PROVE  /\ ~torn /\ at[t] = from /\ at'[t] = to
         /\ \A u \in Threads : u # t => at'[u] = at[u]
         /\ DOMAIN at' = Threads
BY DEF Go, PublisherTypes

(* The queue hands on publications in their order.                           *)
LEMMA QueueHands ==
  ASSUME NEW q \in Seq(Publication), q # <<>>
  PROVE  /\ Head(q) \in Publication /\ Tail(q) \in Seq(Publication)
         /\ <<Head(q)>> \o Tail(q) = q
<1>1. Head(q) \in Publication /\ Tail(q) \in Seq(Publication)
      /\ Len(Tail(q)) = Len(q) - 1 /\ \A i \in 1 .. Len(q) - 1 : Tail(q)[i] = q[i + 1]
      /\ Len(q) \in Nat /\ Len(q) > 0 /\ Head(q) = q[1]
  OBVIOUS
<1>. DEFINE r == <<Head(q)>> \o Tail(q)
<1>2. r \in Seq(Publication) /\ Len(r) = Len(q)
  BY <1>1
<1>3. ASSUME NEW i \in 1 .. Len(q) PROVE r[i] = q[i]
  <2>1. CASE i = 1
    BY <1>1, <2>1
  <2>2. CASE i # 1
    <3>1. i - 1 \in 1 .. Len(q) - 1 /\ (i - 1) + 1 = i
      BY <1>1, <2>2
    <3>2. r[i] = Tail(q)[i - 1]
      BY <1>1, <2>2, <3>1
    <3>. QED BY <1>1, <3>1, <3>2
  <2>. QED BY <2>1, <2>2
<1>. QED BY <1>1, <1>2, <1>3

(* What is pending in the places of the callers.                             *)
LEMMA PendingAt ==
  ASSUME PublisherTypes, CallerInv
  PROVE  /\ Busy("publishing") => Pending = <<hand["publishing"]>> \o queue
         /\ Busy("stopping") => Pending = <<hand["stopping"]>>
         /\ ~Busy("publishing") /\ ~Busy("stopping") => Pending = queue
         /\ Busy("stopping") => ~Busy("publishing") /\ queue = <<>>
         /\ phase # "published" => ~Busy("stopping")
BY DEF Pending, CallerInv, Busy

(* The next publication is taken: it is pending still.                       *)
LEMMA TakeStep ==
  ASSUME PublisherGood, Take
  PROVE  PublisherGood'
<1>. USE DEF PublisherGood, Threads, Callers
<1>1. /\ at["publishing"] = "idle" /\ at'["publishing"] = "waiting"
      /\ at'["stopping"] = at["stopping"] /\ at'["imu"] = at["imu"]
      /\ DOMAIN at' = Threads
  BY GoIs DEF Take
<1>2. /\ phase = "running" /\ queue # <<>> /\ queue \in Seq(Publication)
      /\ hand' = [hand EXCEPT !["publishing"] = Head(queue)]
      /\ queue' = Tail(queue)
      /\ UNCHANGED <<number, current, keyframeOf, moved, offset, lost, phase,
                     first, sensor, locked, torn, trajectory, marker>>
      /\ at' = [at EXCEPT !["publishing"] = "waiting"]
  BY DEF Take, Go, PublisherTypes
<1>3. Head(queue) \in Publication /\ Tail(queue) \in Seq(Publication)
      /\ <<Head(queue)>> \o Tail(queue) = queue
  BY <1>2, QueueHands
<1>4. PublisherTypes'
  <2>1. Head(queue) \in [number : Nat, id : Id, keyframe : Id,
                         updated : SUBSET Id]
    BY <1>3 DEF Publication
  <2>. QED BY <1>1, <1>2, <1>3, <2>1 DEF PublisherTypes
<1>5. CallerInv'
  BY <1>1, <1>2 DEF CallerInv
<1>6. Pending = queue /\ Pending' = <<Head(queue)>> \o Tail(queue)
      /\ ~Busy("stopping") /\ ~Busy("stopping")'
  <2>1. hand'["publishing"] = Head(queue)
    BY <1>2 DEF PublisherTypes
  <2>. QED BY <1>1, <1>2, <2>1 DEF Pending, Busy, CallerInv
<1>7. SameStates
  BY <1>2 DEF SameStates
<1>8. SequenceInv' /\ PendingInv' /\ EstimatorInv' /\ KnowledgeInv'
  BY <1>2, <1>3, <1>6, <1>7, NothingPending
<1>9. MarkerInv'
  <2>1. \A c \in Callers : /\ at'[c] = "drawing" <=> at[c] = "drawing"
                           /\ at[c] = "drawing" => /\ first'[c] = first[c]
                                                   /\ hand'[c] = hand[c]
    BY <1>1, <1>2 DEF PublisherTypes
  <2>. QED BY <1>2, <1>7, <2>1, NothingDrawn
<1>10. SensorInv' /\ PropagationInv'
  BY <1>1, <1>2, NothingSensed, NothingFed
<1>. QED BY <1>4, <1>5, <1>8, <1>9, <1>10

(* The lock is tested, or taken.                                             *)
LEMMA LockingStep ==
  ASSUME PublisherGood, NEW t \in Threads, (Test(t) /\ t \in Callers) \/ Lock(t)
  PROVE  PublisherGood'
<1>. USE DEF PublisherGood
<1>1. PICK from \in {"waiting", "setting"}, to \in {"setting", "inside"} :
        /\ Go(t, from, to)
        /\ from = "waiting" => t \in Callers
        /\ UNCHANGED <<estimator, callers, sensor, trajectory, marker>>
  BY DEF Test, Lock
<1>2. /\ at[t] = from /\ at'[t] = to /\ at' = [at EXCEPT ![t] = to]
      /\ \A u \in Threads : u # t => at'[u] = at[u]
      /\ DOMAIN at' = Threads
  <2>1. at' = [at EXCEPT ![t] = to]
    BY <1>1 DEF Go
  <2>. QED BY <1>1, <2>1, GoIs
<1>3. /\ UNCHANGED <<number, current, keyframeOf, moved, offset, queue, lost,
                     phase, hand, first, clock, buffered, trajectory, marker>>
      /\ UNCHANGED sensor
  BY <1>1 DEF estimator, callers, sensor
<1>4. PublisherTypes'
  BY <1>1, <1>2, <1>3 DEF PublisherTypes
<1>5. CallerInv'
  BY <1>1, <1>2, <1>3 DEF CallerInv, Threads, Callers
<1>6. \A c \in Callers : /\ at'[c] = "drawing" <=> at[c] = "drawing"
                         /\ at'[c] = "idle" <=> at[c] = "idle"
                         /\ Busy(c)' <=> Busy(c)
  BY <1>1, <1>2 DEF Busy, Threads
<1>7. Pending' = Pending
  BY <1>3, <1>6 DEF Pending, Callers
<1>8. SameStates
  BY <1>3 DEF SameStates
<1>9. SequenceInv' /\ PendingInv' /\ EstimatorInv' /\ KnowledgeInv'
  BY <1>3, <1>6, <1>7, <1>8, NothingPending DEF Callers
<1>10. MarkerInv'
  BY <1>3, <1>6, <1>8, NothingDrawn
<1>11. at'["imu"] = "idle" <=> at["imu"] = "idle"
  BY <1>1, <1>2 DEF Threads
<1>12. SensorInv' /\ PropagationInv'
  BY <1>3, <1>11, NothingSensed, NothingFed
<1>. QED BY <1>4, <1>5, <1>9, <1>10, <1>12

(* The queue is shut down while nothing is in it.                            *)
LEMMA ShutdownStep ==
  ASSUME PublisherGood, ShutdownQueue, lost' = {}
  PROVE  PublisherGood'
<1>. USE DEF PublisherGood
<1>1. /\ phase = "running" /\ current # 0 /\ phase' = "shut down"
      /\ queue' = <<>>
      /\ \A n \in 1 .. Len(queue) : queue[n].id \in lost'
      /\ UNCHANGED <<number, current, keyframeOf, moved, offset, at, hand, first,
                     clock, buffered, locked, torn, trajectory, marker>>
      /\ UNCHANGED sensor
  BY DEF ShutdownQueue, callers, sensor
<1>2. queue = <<>>
  <2>1. queue \in Seq(Publication)
    BY DEF PublisherTypes
  <2>2. Len(queue) \in Nat
    BY <2>1
  <2>3. ASSUME Len(queue) # 0 PROVE queue[1].id \in lost'
    <3>1. 1 \in 1 .. Len(queue)
      BY <2>2, <2>3
    <3>. QED BY <1>1, <3>1
  <2>4. Len(queue) = 0
    BY <2>3
  <2>. QED BY <2>1, <2>4
<1>3. PublisherTypes' /\ CallerInv'
  BY <1>1, <1>2 DEF PublisherTypes, CallerInv
<1>4. Pending' = Pending /\ (Busy("stopping")' <=> Busy("stopping"))
  BY <1>1, <1>2 DEF Pending, Busy
<1>5. SameStates
  BY <1>1 DEF SameStates
<1>6. SequenceInv' /\ PendingInv' /\ EstimatorInv' /\ KnowledgeInv'
  BY <1>1, <1>4, <1>5, NothingPending
<1>7. MarkerInv'
  BY <1>1, <1>5, NothingDrawn
<1>8. SensorInv' /\ PropagationInv'
  BY <1>1, NothingSensed, NothingFed
<1>. QED BY <1>3, <1>6, <1>7, <1>8

(* The trajectory knows the states it has handled, up to the newest one.     *)
LEMMA HandledIs ==
  ASSUME PublisherTypes, SequenceInv
  PROVE  /\ Handled \in Nat /\ Handled <= current /\ current \in Nat
         /\ current <= MaxStates
         /\ Handled = 0 => trajectory.all = {}
         /\ Handled # 0 => trajectory.all # {} /\ Max(trajectory.all) = Handled
<1>1. IsFiniteSet(trajectory.all) /\ trajectory.all \subseteq Id
  <2>1. trajectory \in TrajectoryRecord
    BY DEF PublisherTypes
  <2>2. trajectory.all \subseteq Id
    BY <2>1 DEF TrajectoryRecord
  <2>3. IsFiniteSet(Id)
    BY PublisherSizes, FS_Interval DEF Id
  <2>. QED BY <2>2, <2>3, FS_Subset
<1>2. Handled \in Nat
  BY <1>1, FS_CardinalityType DEF Handled
<1>3. current \in Nat /\ current <= MaxStates
  <2>1. current \in 0 .. MaxStates
    BY DEF PublisherTypes
  <2>. QED BY <2>1, PublisherSizes
<1>4. Handled <= current
  <2>1. Len(Pending) \in Nat
    <3>1. queue \in Seq(Publication)
      BY DEF PublisherTypes
    <3>2. Len(queue) \in Nat /\ \A h : Len(<<h>> \o queue) = Len(queue) + 1
      BY <3>1
    <3>. QED BY <3>2 DEF Pending
  <2>. QED BY <1>2, <1>3, <2>1 DEF SequenceInv, InOrder
<1>5. trajectory.all = 1 .. Handled
  BY DEF SequenceInv
<1>6. Handled # 0 => trajectory.all # {} /\ Max(trajectory.all) = Handled
  <2>1. ASSUME Handled # 0 PROVE Max(1 .. Handled) = Handled /\ 1 .. Handled # {}
    <3>1. /\ Handled \in 1 .. Handled
          /\ \A t \in 1 .. Handled : t \in Nat /\ t <= Handled
      BY <1>2, <2>1
    <3>2. Max(1 .. Handled) = Handled
      BY <1>2, <3>1, MaxWithLast
    <3>. QED BY <3>1, <3>2
  <2>. QED BY <1>5, <2>1
<1>. QED BY <1>2, <1>3, <1>4, <1>5, <1>6

(* The trajectory knows the states that were handled, and no others.         *)
LEMMA KnownIs ==
  ASSUME PublisherTypes, SequenceInv, KnowledgeInv, NEW s \in Id
  PROVE  Known(trajectory, s) <=> s <= Handled
<1>1. Handled \in Nat /\ s \in 1 .. MaxStates /\ MaxStates \in Nat
  BY HandledIs, PublisherSizes DEF Id
<1>2. CASE s <= Handled
  <2>1. s \in 1 .. Handled
    BY <1>1, <1>2
  <2>. QED BY <1>2, <2>1 DEF KnowledgeInv, KnowledgeOk, Known
<1>3. CASE ~(s <= Handled)
  BY <1>1, <1>3 DEF KnowledgeInv, KnowledgeOk, Known
<1>. QED BY <1>2, <1>3

(* A state is published when the measurements that have been fed go beyond   *)
(* it, whatever waits.                                                       *)
LEMMA FedBeyond ==
  ASSUME PublisherTypes, SequenceInv, SensorInv
  PROVE  /\ FedStamp \in 0 .. LastStamp /\ FedStamp \in Nat
         /\ clock \in FedStamp .. LastStamp /\ clock \in Nat
         /\ current # 0 => Time(current) <= FedStamp
         /\ \A s \in 1 .. current :
              Time(s) \in Nat /\ Time(s) > 0 /\ Time(s) <= FedStamp
<1>1. /\ MaxMissed < Overlap /\ MaxMissed \in Nat /\ Overlap \in Nat
      /\ LastStamp \in Nat /\ current \in Nat
  BY HandledIs, PublisherSizes
<1>2. /\ FedStamp \in Nat /\ clock \in Nat /\ FedStamp <= clock
      /\ clock <= LastStamp /\ clock - FedStamp <= MaxMissed + 1
      /\ current # 0 => Time(current) + Overlap <= clock
  BY <1>1 DEF SensorInv
<1>3. current # 0 => Time(current) <= FedStamp
  <2>1. Time(current) \in Nat
    BY <1>1, StateTimes
  <2>. QED BY <1>1, <1>2, <2>1
<1>4. ASSUME NEW s \in 1 .. current
      PROVE  Time(s) \in Nat /\ Time(s) > 0 /\ Time(s) <= FedStamp
  <2>1. s \in Nat /\ s > 0 /\ s <= current /\ current # 0
    BY <1>1
  <2>2. Time(s) \in Nat /\ Time(s) > 0 /\ Time(s) <= Time(current)
        /\ Time(current) \in Nat
    BY <1>1, <2>1, StateTimes
  <2>. QED BY <1>2, <1>3, <2>1, <2>2
<1>. QED BY <1>1, <1>2, <1>3, <1>4

(* A measurement arrives, and waits for the trajectory.                      *)
LEMMA ReceiveStep ==
  ASSUME PublisherGood, ReceiveImu
  PROVE  PublisherGood'
<1>. USE DEF PublisherGood
<1>1. /\ at["imu"] = "idle" /\ clock < LastStamp
      /\ locked => Cardinality(buffered) < MaxMissed
      /\ clock' = clock + 1 /\ buffered' = buffered \cup {clock + 1}
      /\ at' = [at EXCEPT !["imu"] = IF locked THEN "idle" ELSE "setting"]
      /\ UNCHANGED <<number, current, keyframeOf, moved, offset, queue, lost,
                     phase, hand, first, locked, torn, trajectory, marker>>
  BY DEF ReceiveImu, estimator, callers
<1>2. /\ at'["imu"] = IF locked THEN "idle" ELSE "setting"
      /\ at'["publishing"] = at["publishing"] /\ at'["stopping"] = at["stopping"]
  BY <1>1 DEF PublisherTypes, Threads, Callers
<1>3. PublisherTypes' /\ CallerInv'
  BY <1>1, <1>2 DEF PublisherTypes, CallerInv
<1>4. /\ Busy("publishing")' <=> Busy("publishing")
      /\ Busy("stopping")' <=> Busy("stopping")
  BY <1>2 DEF Busy
<1>5. Pending' = Pending /\ SameStates
  BY <1>1, <1>4 DEF Pending, SameStates
<1>6. SequenceInv' /\ PendingInv' /\ EstimatorInv' /\ KnowledgeInv'
  BY <1>1, <1>4, <1>5, NothingPending
<1>7. MarkerInv'
  <2>1. \A c \in Callers : at'[c] = at[c]
    BY <1>2 DEF Callers
  <2>. QED BY <1>1, <1>5, <2>1, NothingDrawn
<1>8. SensorInv'
  <2>. DEFINE low == FedStamp
  <2>1. low \in Nat /\ clock \in low .. LastStamp /\ clock \in Nat
        /\ buffered = low + 1 .. clock
        /\ low = clock - Cardinality(buffered)
        /\ MaxMissed \in Nat /\ LastStamp \in Nat
    BY FedBeyond, PublisherSizes DEF SensorInv, FedStamp
  <2>2. buffered' = low + 1 .. clock + 1 /\ clock' = clock + 1
    BY <1>1, <2>1
  <2>3. Cardinality(low + 1 .. clock + 1) = clock + 1 - low
        /\ Cardinality(low + 1 .. clock) = clock - low
    <3>1. \A a, b \in Int : Cardinality(a .. b) = IF a > b THEN 0 ELSE b - a + 1
      BY FS_Interval
    <3>. HIDE DEF low
    <3>2. low + 1 \in Int /\ clock + 1 \in Int /\ clock \in Int /\ low <= clock
      BY <2>1
    <3>3. Cardinality(low + 1 .. clock)
            = IF low + 1 > clock THEN 0 ELSE clock - (low + 1) + 1
      BY <3>1, <3>2
    <3>5. Cardinality(low + 1 .. clock + 1)
            = IF low + 1 > clock + 1 THEN 0 ELSE clock + 1 - (low + 1) + 1
      BY <3>1, <3>2
    <3>4. low \in Int
      BY <2>1
    <3>. QED BY <3>2, <3>3, <3>4, <3>5
  <2>4. FedStamp' = low
    BY <2>1, <2>2, <2>3 DEF FedStamp
  <2>. HIDE DEF low
  <2>5. clock' - low <= IF at'["imu"] = "idle" THEN MaxMissed ELSE MaxMissed + 1
    <3>1. clock - low <= MaxMissed
      BY <1>1 DEF SensorInv, low
    <3>2. locked => clock - low < MaxMissed
      BY <1>1, <2>1, <2>3
    <3>. QED BY <1>2, <2>1, <2>2, <3>1, <3>2
  <2>6. current' # 0 => Time(current') + Overlap <= clock'
    <3>1. Overlap \in Nat /\ current \in Nat
      BY HandledIs, PublisherSizes
    <3>2. Time(current) \in Nat
      BY <3>1, StateTimes
    <3>3. current # 0 => Time(current) + Overlap <= clock
      BY DEF SensorInv
    <3>. QED BY <1>1, <2>1, <2>2, <3>1, <3>2, <3>3
  <2>7. Handled' = Handled
    BY <1>1 DEF Handled
  <2>8. trajectory'.imu = {t \in 1 .. low : Handled # 0 => Time(Handled) - t < Forget}
    BY <1>1 DEF SensorInv, low
  <2>9. clock' \in 0 .. LastStamp /\ low \in 0 .. clock'
    BY <1>1, <2>1, <2>2
  <2>10. /\ clock' \in 0 .. LastStamp /\ FedStamp' \in 0 .. clock'
         /\ buffered' = FedStamp' + 1 .. clock'
    BY <2>2, <2>4, <2>9
  <2>. QED BY <2>4, <2>5, <2>6, <2>7, <2>8, <2>10 DEF SensorInv
<1>9. PropagationInv'
  BY <1>1, NothingFed
<1>. QED BY <1>3, <1>6, <1>7, <1>8, <1>9

(* The measurements that waited are fed.                                     *)
LEMMA FeedStep ==
  ASSUME PublisherGood, FeedImu
  PROVE  PublisherGood'
<1>. USE DEF PublisherGood
<1>1. /\ at["imu"] = "inside" /\ at' = [at EXCEPT !["imu"] = "idle"]
      /\ trajectory' = Fed(trajectory, buffered) /\ buffered' = {}
      /\ UNCHANGED <<number, current, keyframeOf, moved, offset, queue, lost,
                     phase, hand, first, clock, torn, marker>>
  BY DEF FeedImu, Go, estimator, callers
<1>2. /\ at'["imu"] = "idle"
      /\ at'["publishing"] = at["publishing"] /\ at'["stopping"] = at["stopping"]
  BY <1>1 DEF PublisherTypes, Threads, Callers
<1>. DEFINE low == FedStamp
            base == Max(trajectory.all)
<1>3. /\ low \in Nat /\ clock \in Nat /\ low <= clock /\ LastStamp \in Nat
      /\ low \in 0 .. LastStamp /\ clock \in low .. LastStamp
      /\ buffered = low + 1 .. clock
      /\ trajectory \in TrajectoryRecord
      /\ trajectory.imu = {t \in 1 .. low : Handled # 0 => Time(Handled) - t < Forget}
  <2>1. trajectory \in TrajectoryRecord
    BY DEF PublisherTypes
  <2>2. low \in Nat /\ clock \in Nat /\ low <= clock /\ LastStamp \in Nat
        /\ low \in 0 .. LastStamp /\ clock \in low .. LastStamp
    BY FedBeyond, PublisherSizes
  <2>. QED BY <2>1, <2>2 DEF SensorInv
<1>4. \A t \in trajectory.imu : t <= low
  BY <1>3
<1>. HIDE DEF low
<1>5. /\ Continues(trajectory', trajectory, buffered)
      /\ /\ trajectory.all # {} /\ Known(trajectory, base)
         /\ Time(base) \in trajectory.imu
         /\ Time(base) \in Stamps /\ low \in trajectory.imu
         /\ PropagatedOnce(trajectory)
         => PropagatedOnce(trajectory')
  BY <1>1, <1>3, <1>4, FedContinues
<1>6. SameStates /\ trajectory' \in TrajectoryRecord
      /\ trajectory'.imu = trajectory.imu \cup (low + 1 .. clock)
  BY <1>3, <1>5 DEF SameStates, Continues
<1>7. PublisherTypes' /\ CallerInv'
  BY <1>1, <1>2, <1>6 DEF PublisherTypes, CallerInv
<1>8. /\ Busy("publishing")' <=> Busy("publishing")
      /\ Busy("stopping")' <=> Busy("stopping")
  BY <1>2 DEF Busy
<1>9. Pending' = Pending
  BY <1>1, <1>8 DEF Pending
<1>10. SequenceInv' /\ PendingInv' /\ EstimatorInv' /\ KnowledgeInv'
  BY <1>1, <1>6, <1>8, <1>9, NothingPending
<1>11. MarkerInv'
  <2>1. \A c \in Callers : at'[c] = at[c]
    BY <1>2 DEF Callers
  <2>. QED BY <1>1, <1>6, <2>1, NothingDrawn
<1>12. Handled' = Handled
  BY <1>6 DEF Handled, SameStates
<1>13. Handled # 0 => /\ Time(Handled) \in Nat /\ Time(Handled) > 0
                      /\ Time(Handled) <= low
  <2>1. Handled # 0 => Handled \in 1 .. current
    BY HandledIs
  <2>. QED BY <2>1, FedBeyond DEF low
<1>14. SensorInv'
  <2>1. FedStamp' = clock
    BY <1>1, <1>3, FS_EmptySet DEF FedStamp
  <2>2. clock + 1 .. clock = {}
    BY <1>3
  <2>3. trajectory'.imu = {t \in 1 .. clock : Handled # 0 => Time(Handled) - t < Forget}
    <3>1. 1 .. clock = (1 .. low) \cup (low + 1 .. clock)
      BY <1>3
    <3>2. ASSUME NEW t \in low + 1 .. clock, Handled # 0
          PROVE  Time(Handled) - t < Forget
      BY <1>3, <1>13, <3>2, PublisherSizes
    <3>. QED BY <1>3, <1>6, <3>1, <3>2
  <2>4. /\ clock \in 0 .. LastStamp /\ clock \in 0 .. clock
        /\ clock - clock <= MaxMissed
    BY <1>3, PublisherSizes
  <2>5. current # 0 => Time(current) + Overlap <= clock
    BY DEF SensorInv
  <2>. QED BY <1>1, <1>2, <1>12, <2>1, <2>2, <2>3, <2>4, <2>5 DEF SensorInv
<1>15. PropagationInv'
  <2>1. SUFFICES ASSUME Handled # 0 PROVE PropagatedOnce(trajectory')
    BY <1>12 DEF PropagationInv, PropagatedOnce
  <2>2. trajectory.all # {} /\ base = Handled
    BY <2>1, HandledIs
  <2>3. Handled \in Id /\ Known(trajectory, Handled)
    <3>1. Handled \in Id
      BY <2>1, HandledIs, PublisherSizes DEF Id
    <3>. QED BY <3>1, KnownIs, HandledIs
  <2>4. Time(Handled) \in trajectory.imu /\ Time(Handled) \in Stamps
        /\ low \in trajectory.imu
    <3>1. Time(Handled) - Time(Handled) < Forget /\ Time(Handled) - low < Forget
          /\ Time(Handled) \in 1 .. low /\ low \in 1 .. low
          /\ Time(Handled) \in 1 .. LastStamp
      BY <1>3, <1>13, <2>1, PublisherSizes
    <3>. QED BY <1>3, <2>1, <3>1 DEF Stamps
  <2>5. PropagatedOnce(trajectory)
    BY <2>1 DEF PropagationInv
  <2>. HIDE DEF base
  <2>. QED BY <1>5, <2>2, <2>3, <2>4, <2>5
<1>. QED BY <1>7, <1>10, <1>11, <1>14, <1>15

(* The path is drawn again, from the segment of the first affected state on. *)
LEMMA DrawStep ==
  ASSUME PublisherGood, NEW c \in Callers, DrawPath(c)
  PROVE  PublisherGood'
<1>. USE DEF PublisherGood
<1>. DEFINE d == DrawnFrom(c)
            latest == Max(hand[c].updated)
            drawn(g) == g \in SegmentOf(d) .. SegmentOf(latest)
<1>1. /\ at[c] = "drawing" /\ at' = [at EXCEPT ![c] = "idle"]
      /\ marker' = [g \in Segments |-> IF drawn(g) THEN Points(d, latest, g)
                                                   ELSE marker[g]]
      /\ UNCHANGED <<number, current, keyframeOf, moved, offset, queue, lost,
                     phase, hand, first, clock, buffered, torn, trajectory>>
      /\ UNCHANGED sensor
  BY DEF DrawPath, Go, estimator, callers, sensor
<1>2. /\ at'[c] = "idle" /\ at'["imu"] = at["imu"]
      /\ \A o \in Callers : o # c => at'[o] = at[o] /\ at[o] # "drawing"
  BY <1>1 DEF PublisherTypes, Threads, Callers, CallerInv
<1>3. PublisherTypes'
  <2>1. DOMAIN marker' = Segments
    BY <1>1
  <2>. QED BY <1>1, <2>1 DEF PublisherTypes
<1>4. CallerInv'
  BY <1>1, <1>2 DEF CallerInv, Callers
<1>5. \A o \in Callers : Busy(o)' <=> Busy(o)
  BY <1>1, <1>2 DEF Busy
<1>6. Pending' = Pending /\ SameStates /\ Handled' = Handled
  BY <1>1, <1>5 DEF Pending, SameStates, Callers, Handled
<1>7. SequenceInv' /\ PendingInv' /\ EstimatorInv' /\ KnowledgeInv'
  BY <1>1, <1>5, <1>6, NothingPending DEF Callers
<1>8. SensorInv' /\ PropagationInv'
  BY <1>1, <1>2, NothingSensed, NothingFed
<1>9. /\ first[c] \in 1 .. Handled /\ first[c] \in Nat /\ first[c] > 0
      /\ Handled \in Nat /\ Handled > 0 /\ latest = Handled
      /\ Handled <= MaxStates /\ MaxStates \in Nat
  <2>1. first[c] \in 1 .. Handled
        /\ Handled \in hand[c].updated /\ hand[c].updated \subseteq 1 .. Handled
    BY <1>1 DEF MarkerInv
  <2>2. Handled \in Nat /\ Handled <= MaxStates /\ MaxStates \in Nat
    BY HandledIs, PublisherSizes
  <2>3. Max(hand[c].updated) = Handled
    BY <2>1, <2>2, MaxWithLast
  <2>. QED BY <2>1, <2>2, <2>3
<1>10. /\ d \in 1 .. first[c] /\ SegmentOf(d) = SegmentOf(first[c])
       /\ \A t \in Nat : t > 0 /\ SegmentOf(t) >= SegmentOf(d) => t >= d
  BY <1>9, SegmentStart DEF DrawnFrom
<1>11. \A s \in Nat : SegmentOf(s) \in Nat
  BY SegmentBounds
<1>12. \A g : Shown(g)'
  BY <1>2 DEF Shown, Callers
<1>13. \A g \in Nat : g < SegmentOf(d) => Shown(g)
  BY <1>2, <1>10 DEF Shown
<1>. HIDE DEF d, latest
<1>14. ASSUME NEW g \in Segments, drawn(g)
       PROVE  /\ \A s \in DOMAIN marker'[g] :
                   /\ s \in 1 .. Handled /\ SegmentOf(s) <= g
                   /\ marker'[g][s] = Pose(trajectory, s)
              /\ \A s \in 1 .. Handled : SegmentOf(s) = g => s \in DOMAIN marker'[g]
              /\ g <= SegmentOf(Handled)
  <2>. DEFINE own  == {s \in d .. latest : SegmentOf(s) = g}
              link == {s \in Id : s = g * Segment - 1 /\ Known(trajectory, s)}
  <2>1. marker'[g] = [s \in own \cup link |-> Pose(trajectory, s)]
    BY <1>1, <1>14 DEF Points
  <2>2. g \in Nat /\ g >= SegmentOf(d) /\ g <= SegmentOf(Handled)
        /\ d \in Nat /\ d > 0
    BY <1>9, <1>10, <1>11, <1>14
  <2>3. ASSUME NEW s \in own \cup link
        PROVE  s \in 1 .. Handled /\ SegmentOf(s) <= g
    <3>1. CASE s \in own
      BY <1>9, <2>2, <3>1
    <3>2. CASE s \in link
      <4>1. s \in Id /\ s = g * Segment - 1 /\ Known(trajectory, s)
        BY <3>2
      <4>2. s \in Nat /\ s > 0 /\ s <= Handled
        BY <1>9, <4>1, KnownIs DEF Id
      <4>3. s < g * Segment + Segment
        <5>1. g * Segment \in Nat /\ Segment \in Nat
          BY <2>2, PublisherSizes
        <5>. QED BY <4>1, <5>1
      <4>4. SegmentOf(s) <= g
        BY <2>2, <4>2, <4>3, SegmentBefore
      <4>. QED BY <1>9, <4>2, <4>4
    <3>. QED BY <2>3, <3>1, <3>2
  <2>4. ASSUME NEW s \in 1 .. Handled, SegmentOf(s) = g PROVE s \in own
    <3>1. s \in Nat /\ s > 0
      BY <1>9
    <3>2. s >= d
      BY <1>10, <2>2, <2>4, <3>1
    <3>. QED BY <1>9, <2>2, <2>4, <3>1, <3>2
  <2>. HIDE DEF own, link
  <2>. QED BY <2>1, <2>2, <2>3, <2>4
<1>15. ASSUME NEW g \in Segments, ~drawn(g)
       PROVE  /\ marker'[g] = marker[g]
              /\ g < SegmentOf(d) \/ g > SegmentOf(Handled)
  <2>1. g \in Nat
    BY <1>9, <1>11 DEF Segments
  <2>2. SegmentOf(d) \in Nat /\ SegmentOf(Handled) \in Nat
    BY <1>9, <1>10, <1>11
  <2>. QED BY <1>1, <1>9, <1>15, <2>1, <2>2
<1>16. ASSUME NEW s \in 1 .. Handled PROVE s \in DOMAIN marker'[SegmentOf(s)]
  <2>. DEFINE g == SegmentOf(s)
  <2>1. s \in Nat /\ g \in Nat /\ g <= SegmentOf(Handled) /\ g \in Segments
    <3>1. s \in Nat /\ s <= Handled /\ s <= MaxStates
      BY <1>9
    <3>2. g \in Nat /\ g <= SegmentOf(Handled) /\ g <= SegmentOf(MaxStates)
      BY <1>9, <1>11, <3>1, SegmentMonotone
    <3>. QED BY <1>9, <1>11, <3>1, <3>2 DEF Segments
  <2>2. CASE drawn(g)
    BY <1>14, <2>1, <2>2
  <2>3. CASE ~drawn(g)
    <3>1. SegmentOf(Handled) \in Nat
      BY <1>9, <1>11
    <3>2. marker'[g] = marker[g] /\ g < SegmentOf(d)
      BY <1>15, <2>1, <2>3, <3>1
    <3>3. Shown(g)
      BY <1>13, <2>1, <3>2
    <3>. QED BY <3>2, <3>3 DEF MarkerInv
  <2>. QED BY <2>2, <2>3
<1>17. ASSUME NEW g \in Segments
       PROVE  /\ \A s \in DOMAIN marker'[g] :
                   /\ s \in 1 .. Handled /\ SegmentOf(s) <= g
                   /\ marker'[g][s] = Pose(trajectory, s)
              /\ g > SegmentOf(Handled) => DOMAIN marker'[g] = {}
  <2>1. g \in Nat /\ SegmentOf(Handled) \in Nat
    BY <1>9, <1>11 DEF Segments
  <2>2. CASE drawn(g)
    BY <1>14, <2>1, <2>2
  <2>3. CASE ~drawn(g)
    <3>1. marker'[g] = marker[g] /\ (g < SegmentOf(d) \/ g > SegmentOf(Handled))
      BY <1>15, <2>3
    <3>2. g > SegmentOf(Handled) => DOMAIN marker[g] = {}
      BY DEF MarkerInv
    <3>3. g < SegmentOf(d) =>
            \A s \in DOMAIN marker[g] : marker[g][s] = Pose(trajectory, s)
      BY <1>13, <2>1 DEF MarkerInv
    <3>4. \A s \in DOMAIN marker[g] : s \in 1 .. Handled /\ SegmentOf(s) <= g
      BY DEF MarkerInv
    <3>. QED BY <3>1, <3>2, <3>3, <3>4
  <2>. QED BY <2>2, <2>3
<1>18. MarkerInv'
  <2>1. \A o \in Callers : at'[o] # "drawing"
    BY <1>2
  <2>. HIDE DEF drawn
  <2>2. \A s : Pose(trajectory, s)' = Pose(trajectory, s)
    BY <1>1 DEF Pose
  <2>. QED BY <1>6, <1>12, <1>16, <1>17, <2>1, <2>2 DEF MarkerInv
<1>. QED BY <1>3, <1>4, <1>7, <1>8, <1>18

(* r has publication p after those of q.                                     *)
Appends(r, q, p) ==
  /\ Len(q) \in Nat /\ Len(r) = Len(q) + 1 /\ r[Len(q) + 1] = p
  /\ \A j \in 1 .. Len(q) : r[j] = q[j]

(* Then what moved a keyframe last is p, or the same as before.              *)
LEMMA MoveAppended ==
  ASSUME NEW q, NEW r, NEW p, NEW key, Appends(r, q, p)
  PROVE  /\ \A i \in 0 .. Len(q) : \A k, n :
              LastMove(q, key, i, k, n) => LastMove(r, key, i, k, n)
         /\ \A k : k \in p.updated => LastMove(r, key, Len(r), k, p.number)
         /\ \A k, n : k \notin p.updated /\ LastMove(q, key, Len(q), k, n)
                        => LastMove(r, key, Len(r), k, n)
<1>. DEFINE m == Len(q)
<1>1. m \in Nat /\ (\A j \in 1 .. m : r[j] = q[j]) /\ r[m + 1] = p
      /\ Len(r) = m + 1
  BY DEF Appends
<1>. HIDE DEF m
<1>2. ASSUME NEW i \in 0 .. m, NEW k, NEW n, LastMove(q, key, i, k, n)
      PROVE  LastMove(r, key, i, k, n)
  <2>1. \A j \in 1 .. i : r[j] = q[j] /\ \A l \in j + 1 .. i : r[l] = q[l]
    BY <1>1
  <2>. QED BY <1>2, <2>1 DEF LastMove
<1>3. ASSUME NEW k, k \in p.updated PROVE LastMove(r, key, m + 1, k, p.number)
  <2>1. m + 1 \in 1 .. m + 1 /\ m + 1 + 1 .. m + 1 = {}
    BY <1>1
  <2>. QED BY <1>1, <1>3, <2>1 DEF LastMove
<1>4. ASSUME NEW k, NEW n, k \notin p.updated, LastMove(q, key, m, k, n)
      PROVE  LastMove(r, key, m + 1, k, n)
  <2>1. CASE \E j \in 1 .. m : /\ k \in q[j].updated /\ n = q[j].number
                               /\ \A l \in j + 1 .. m : k \notin q[l].updated
    <3>1. PICK j \in 1 .. m : /\ k \in q[j].updated /\ n = q[j].number
                              /\ \A l \in j + 1 .. m : k \notin q[l].updated
      BY <2>1
    <3>2. ASSUME NEW l \in j + 1 .. m + 1 PROVE k \notin r[l].updated
      <4>1. CASE l = m + 1
        BY <1>1, <1>4, <4>1
      <4>2. CASE l # m + 1
        <5>1. l \in j + 1 .. m /\ l \in 1 .. m
          BY <1>1, <4>2
        <5>. QED BY <1>1, <3>1, <5>1
      <4>. QED BY <4>1, <4>2
    <3>3. j \in 1 .. m + 1 /\ k \in r[j].updated /\ n = r[j].number
      BY <1>1, <3>1
    <3>. QED BY <3>2, <3>3 DEF LastMove
  <2>2. CASE (\A j \in 1 .. m : k \notin q[j].updated) /\ n = key[k]
    <3>1. ASSUME NEW j \in 1 .. m + 1 PROVE k \notin r[j].updated
      <4>1. CASE j = m + 1
        BY <1>1, <1>4, <4>1
      <4>2. CASE j # m + 1
        <5>1. j \in 1 .. m
          BY <1>1, <4>2
        <5>. QED BY <1>1, <2>2, <5>1
      <4>. QED BY <4>1, <4>2
    <3>. QED BY <2>2, <3>1 DEF LastMove
  <2>. QED BY <1>4, <2>1, <2>2 DEF LastMove
<1>. QED BY <1>1, <1>2, <1>3, <1>4 DEF m

(* The estimator publishes its newest state, for the first time or again: it *)
(* settles the state's keyframe, its offset, and what moved with it.         *)
Publishes(p, newest, of, move, away, of1, move1, away1) ==
  /\ p \in Publication /\ p.id \in {newest, newest + 1}
  /\ p.updated \subseteq 1 .. p.id /\ p.id \in p.updated
  /\ p.keyframe # p.id => p.keyframe < p.id /\ of[p.keyframe] = p.keyframe
  /\ p.id = newest => (p.keyframe = p.id <=> of[p.id] = p.id)
  /\ of1[p.id] = p.keyframe
  /\ \A s \in Id : s # p.id => of1[s] = of[s] /\ away1[s] = away[s]
  /\ \A s \in Id : move1[s] = IF s \in p.updated THEN p.number ELSE move[s]
  /\ away1[p.id] = IF p.keyframe = p.id THEN 0 ELSE move1[p.keyframe]

(* What is pending, and the estimator, stay as they should be.               *)
LEMMA PublishedOk ==
  ASSUME NEW q, NEW r, NEW p, NEW key, Appends(r, q, p), NEW newest \in Nat,
         NEW of, NEW move, NEW away, NEW of1, NEW move1, NEW away1,
         Publishes(p, newest, of, move, away, of1, move1, away1),
         \A i \in 1 .. Len(q) : q[i].id < p.id,
         PendingOk(q, of, away, key), EstimatorOk(q, newest, of, move, away, key)
  PROVE  /\ PendingOk(r, of1, away1, key)
         /\ EstimatorOk(r, p.id, of1, move1, away1, key)
<1>1. /\ p \in Publication /\ p.id \in {newest, newest + 1}
      /\ p.updated \subseteq 1 .. p.id /\ p.id \in p.updated
      /\ p.keyframe # p.id => p.keyframe < p.id /\ of[p.keyframe] = p.keyframe
      /\ p.id = newest => (p.keyframe = p.id <=> of[p.id] = p.id)
      /\ of1[p.id] = p.keyframe
      /\ \A s \in Id : s # p.id => of1[s] = of[s] /\ away1[s] = away[s]
      /\ \A s \in Id : move1[s] = IF s \in p.updated THEN p.number ELSE move[s]
      /\ away1[p.id] = IF p.keyframe = p.id THEN 0 ELSE move1[p.keyframe]
  BY DEF Publishes
<1>2. /\ p.id \in Nat /\ p.id > 0 /\ p.id <= MaxStates /\ MaxStates \in Nat
      /\ p.keyframe \in Nat /\ p.keyframe > 0 /\ p.keyframe <= p.id
      /\ p.id \in Id /\ p.keyframe \in Id
  BY <1>1, PublisherSizes DEF Publication, Id
<1>3. /\ \A i \in 0 .. Len(q) : \A k, n :
              LastMove(q, key, i, k, n) => LastMove(r, key, i, k, n)
      /\ \A k : k \in p.updated => LastMove(r, key, Len(r), k, p.number)
      /\ \A k, n : k \notin p.updated /\ LastMove(q, key, Len(q), k, n)
                        => LastMove(r, key, Len(r), k, n)
  BY MoveAppended
<1>4. \A s \in 1 .. p.id : s \in Id /\ s \in Nat /\ (s # p.id => s \in 1 .. newest)
  BY <1>1, <1>2 DEF Id
<1>5. of1[p.keyframe] = p.keyframe
  BY <1>1, <1>2
<1>6. ASSUME NEW k \in 1 .. p.id, of1[k] = k
      PROVE  away1[k] = 0 /\ LastMove(r, key, Len(r), k, move1[k])
  <2>1. CASE k = p.id
    <3>1. p.keyframe = p.id
      BY <1>1, <1>6, <2>1
    <3>. QED BY <1>1, <1>2, <1>3, <2>1, <3>1
  <2>2. CASE k # p.id
    <3>1. k \in 1 .. newest /\ k \in Id /\ of[k] = k
      BY <1>1, <1>4, <1>6, <2>2
    <3>2. away[k] = 0 /\ LastMove(q, key, Len(q), k, move[k])
      BY <3>1 DEF EstimatorOk
    <3>. QED BY <1>1, <1>3, <2>2, <3>1, <3>2
  <2>. QED BY <2>1, <2>2
<1>7. ASSUME NEW s \in 1 .. p.id PROVE of1[s] \in 1 .. s /\ of1[of1[s]] = of1[s]
  <2>1. CASE s = p.id
    BY <1>1, <1>2, <1>5, <2>1
  <2>2. CASE s # p.id
    <3>1. s \in 1 .. newest /\ s \in Id /\ s \in Nat /\ s < p.id
      BY <1>2, <1>4, <2>2
    <3>2. of[s] \in 1 .. s /\ of[of[s]] = of[s] /\ of1[s] = of[s]
      BY <1>1, <2>2, <3>1 DEF EstimatorOk
    <3>3. of[s] \in 1 .. p.id /\ of[s] # p.id
      BY <1>2, <3>1, <3>2
    <3>4. of1[of[s]] = of[of[s]]
      BY <1>1, <1>4, <3>3
    <3>. QED BY <3>2, <3>4
  <2>. QED BY <2>1, <2>2
<1>8. ASSUME NEW s \in Id, s > p.id PROVE of1[s] = 0
  <2>1. s # p.id /\ s > newest
    BY <1>1, <1>2, <1>8 DEF Id
  <2>. QED BY <1>1, <2>1 DEF EstimatorOk
<1>9. EstimatorOk(r, p.id, of1, move1, away1, key)
  BY <1>6, <1>7, <1>8 DEF EstimatorOk
<1>10. ASSUME NEW i \in 1 .. Len(r)
       PROVE  /\ r[i] \in Publication
              /\ r[i].updated \subseteq 1 .. r[i].id /\ r[i].id \in r[i].updated
              /\ r[i].keyframe <= r[i].id /\ of1[r[i].keyframe] = r[i].keyframe
              /\ of1[r[i].id] = r[i].keyframe
              /\ r[i].keyframe # r[i].id =>
                   LastMove(r, key, i, r[i].keyframe, away1[r[i].id])
  <2>1. CASE i = Len(q) + 1
    <3>1. r[i] = p /\ i = Len(r)
      BY <2>1 DEF Appends
    <3>2. p.keyframe # p.id => LastMove(r, key, i, p.keyframe, away1[p.id])
      <4>1. p.keyframe \in 1 .. p.id
        BY <1>2
      <4>. QED BY <1>1, <1>5, <1>6, <3>1, <4>1
    <3>. QED BY <1>1, <1>2, <1>5, <3>1, <3>2
  <2>2. CASE i # Len(q) + 1
    <3>1. i \in 1 .. Len(q) /\ r[i] = q[i] /\ i \in 0 .. Len(q)
      BY <2>2 DEF Appends
    <3>2. /\ q[i] \in Publication
          /\ q[i].updated \subseteq 1 .. q[i].id /\ q[i].id \in q[i].updated
          /\ q[i].keyframe <= q[i].id /\ of[q[i].keyframe] = q[i].keyframe
          /\ of[q[i].id] = q[i].keyframe
          /\ q[i].keyframe # q[i].id =>
               LastMove(q, key, i, q[i].keyframe, away[q[i].id])
      BY <3>1 DEF PendingOk
    <3>3. q[i].id \in Id /\ q[i].keyframe \in Id /\ q[i].id # p.id
          /\ q[i].keyframe # p.id
      <4>1. q[i].id < p.id
        BY <3>1
      <4>2. q[i].id \in Id /\ q[i].keyframe \in Id
        BY <3>2 DEF Publication
      <4>3. q[i].id \in Nat /\ q[i].keyframe \in Nat
        BY <4>2 DEF Id
      <4>. QED BY <1>2, <3>2, <4>1, <4>2, <4>3
    <3>4. of1[q[i].id] = of[q[i].id] /\ away1[q[i].id] = away[q[i].id]
          /\ of1[q[i].keyframe] = of[q[i].keyframe]
      BY <1>1, <3>3
    <3>. QED BY <1>3, <3>1, <3>2, <3>4
  <2>3. Len(r) = Len(q) + 1 /\ Len(q) \in Nat
    BY DEF Appends
  <2>. QED BY <2>1, <2>2
<1>11. PendingOk(r, of1, away1, key)
  BY <1>10 DEF PendingOk
<1>. QED BY <1>9, <1>11

(* The sequences that are pending.                                           *)
LEMMA Appended2 ==
  ASSUME NEW q \in Seq(Publication), NEW p \in Publication, NEW h
  PROVE  /\ Appends(Append(q, p), q, p)
         /\ Appends(<<h>> \o Append(q, p), <<h>> \o q, p)
<1>1. /\ Len(q) \in Nat /\ Len(Append(q, p)) = Len(q) + 1
      /\ Append(q, p)[Len(q) + 1] = p
      /\ \A j \in 1 .. Len(q) : Append(q, p)[j] = q[j]
      /\ Append(q, p) \in Seq(Publication)
  OBVIOUS
<1>2. ASSUME NEW t \in Seq(Publication)
      PROVE  /\ Len(<<h>> \o t) = Len(t) + 1 /\ (<<h>> \o t)[1] = h
             /\ \A j \in 2 .. Len(t) + 1 : (<<h>> \o t)[j] = t[j - 1]
  OBVIOUS
<1>. DEFINE a == Append(q, p)
<1>. HIDE DEF a
<1>3. /\ Len(q) \in Nat /\ Len(a) = Len(q) + 1 /\ a[Len(q) + 1] = p
      /\ \A j \in 1 .. Len(q) : a[j] = q[j]
      /\ a \in Seq(Publication)
  BY <1>1 DEF a
<1>4. /\ Len(<<h>> \o q) = Len(q) + 1 /\ (<<h>> \o q)[1] = h
      /\ \A j \in 2 .. Len(q) + 1 : (<<h>> \o q)[j] = q[j - 1]
  BY <1>2
<1>5. /\ Len(<<h>> \o a) = Len(a) + 1 /\ (<<h>> \o a)[1] = h
      /\ \A j \in 2 .. Len(a) + 1 : (<<h>> \o a)[j] = a[j - 1]
  BY <1>2, <1>3
<1>. DEFINE x == <<h>> \o q
            y == <<h>> \o a
<1>. HIDE DEF x, y
<1>6. ASSUME NEW j \in 1 .. Len(x) PROVE y[j] = x[j]
  <2>1. CASE j = 1
    BY <1>4, <1>5, <2>1 DEF x, y
  <2>2. CASE j # 1
    <3>1. j \in 2 .. Len(q) + 1 /\ j \in 2 .. Len(a) + 1 /\ j - 1 \in 1 .. Len(q)
      BY <1>3, <1>4, <2>2 DEF x
    <3>. QED BY <1>3, <1>4, <1>5, <3>1 DEF x, y
  <2>. QED BY <2>1, <2>2
<1>7. y[Len(x) + 1] = p
  <2>1. Len(x) + 1 \in 2 .. Len(a) + 1 /\ Len(x) + 1 - 1 = Len(q) + 1
    BY <1>3, <1>4 DEF x
  <2>. QED BY <1>3, <1>5, <2>1 DEF y
<1>8. Appends(y, x, p)
  BY <1>3, <1>4, <1>5, <1>6, <1>7 DEF Appends, x, y
<1>9. Appends(a, q, p)
  BY <1>3 DEF Appends
<1>. QED BY <1>8, <1>9 DEF a, x, y

(* There are so many of them.                                                *)
LEMMA PendingLength ==
  ASSUME PublisherTypes
  PROVE  Len(Pending) \in Nat
<1>1. queue \in Seq(Publication)
  BY DEF PublisherTypes
<1>2. Len(queue) \in Nat /\ \A h : Len(<<h>> \o queue) = Len(queue) + 1
  BY <1>1
<1>. QED BY <1>2 DEF Pending

(* A frame is published.                                                     *)
LEMMA PublishStep ==
  ASSUME PublisherGood, NEW keyframe \in Id, NEW others \in Moves,
         Publish(keyframe, others), lost = {}, lost' = {}
  PROVE  PublisherGood'
<1>. USE DEF PublisherGood
<1>1. PICK p :
      /\ p = [number |-> number + 1, id |-> current + 1, keyframe |-> keyframe,
              updated |-> others \cup {current + 1}]
      /\ phase = "running" /\ p.id \in Id /\ Time(p.id) + Overlap <= clock
      /\ keyframe = p.id \/ (keyframe < p.id /\ keyframeOf[keyframe] = keyframe)
      /\ number' = number + 1 /\ current' = p.id
      /\ keyframeOf' = [keyframeOf EXCEPT ![p.id] = keyframe]
      /\ moved' = [h \in Id |-> IF h \in p.updated THEN p.number ELSE moved[h]]
      /\ offset' = [offset EXCEPT ![p.id] = IF keyframe = p.id THEN 0
                                                         ELSE moved'[keyframe]]
      /\ queue' = Append(queue, p)
      /\ UNCHANGED <<phase, at, hand, first, clock, buffered, torn, trajectory,
                     marker>>
  <2>. DEFINE s == current + 1
              p == [number |-> number + 1, id |-> s, keyframe |-> keyframe,
                    updated |-> others \cup {s}]
  <2>1. lost' = IF Len(queue) = QueueSize THEN lost \cup {Head(queue).id} ELSE lost
    BY DEF Publish
  <2>2. Len(queue) # QueueSize
    BY <2>1
  <2>3. p.id = s /\ p.number = number + 1 /\ p.updated = others \cup {s}
    OBVIOUS
  <2>4. /\ phase = "running" /\ s \in Id /\ Time(s) + Overlap <= clock
        /\ keyframe = s \/ (keyframe < s /\ keyframeOf[keyframe] = keyframe)
        /\ number' = number + 1 /\ current' = s
        /\ keyframeOf' = [keyframeOf EXCEPT ![s] = keyframe]
        /\ moved' = [h \in Id |-> IF h \in p.updated THEN p.number ELSE moved[h]]
        /\ offset' = [offset EXCEPT ![s] = IF keyframe = s THEN 0
                                                           ELSE moved'[keyframe]]
        /\ queue' = Append(queue, p)
        /\ UNCHANGED <<phase, at, hand, first, clock, buffered, torn, trajectory,
                       marker>>
    BY <2>2 DEF Publish, callers, sensor
  <2>5. p = [number |-> number + 1, id |-> current + 1, keyframe |-> keyframe,
             updated |-> others \cup {current + 1}]
    OBVIOUS
  <2>. HIDE DEF p
  <2>. QED BY <2>3, <2>4, <2>5
<1>2. /\ p.number = number + 1 /\ p.id = current + 1 /\ p.keyframe = keyframe
      /\ p.updated = others \cup {p.id}
  BY <1>1
<1>3. /\ current \in Nat /\ p.id \in Nat /\ p.id > 0 /\ Handled \in Nat
      /\ Handled <= current /\ MaxStates \in Nat /\ p.id <= MaxStates
      /\ others \subseteq 1 .. current
      /\ number \in Nat /\ keyframe \in Nat /\ keyframe > 0 /\ keyframe <= p.id
  <2>1. current \in Nat /\ MaxStates \in Nat /\ Handled \in Nat
        /\ Handled <= current
    BY HandledIs, PublisherSizes
  <2>2. others \subseteq 1 .. current
    BY <2>1 DEF Moves, Since
  <2>3. number \in Nat
    BY DEF PublisherTypes
  <2>4. p.id \in 1 .. MaxStates /\ keyframe \in 1 .. MaxStates
    BY <1>1 DEF Id
  <2>. QED BY <1>1, <2>1, <2>2, <2>3, <2>4
<1>4. p \in Publication
  <2>1. others \cup {current + 1} \in SUBSET Id
    BY <1>1, <1>2, <1>3 DEF Id
  <2>2. number + 1 \in Nat \ {0} /\ current + 1 \in Id
    BY <1>1, <1>2, <1>3
  <2>. QED BY <1>1, <2>1, <2>2 DEF Publication
<1>5. /\ keyframeOf'[p.id] = keyframe
      /\ \A s \in Id : s # p.id => /\ keyframeOf'[s] = keyframeOf[s]
                                  /\ offset'[s] = offset[s]
      /\ \A s \in Id : moved'[s] = IF s \in p.updated THEN p.number ELSE moved[s]
      /\ offset'[p.id] = IF keyframe = p.id THEN 0 ELSE moved'[keyframe]
      /\ keyframeOf' \in [Id -> Nat] /\ moved' \in [Id -> Nat]
      /\ offset' \in [Id -> Nat]
  <2>1. keyframeOf \in [Id -> Nat] /\ moved \in [Id -> Nat] /\ offset \in [Id -> Nat]
    BY DEF PublisherTypes
  <2>2. p.number \in Nat
    BY <1>2, <1>3
  <2>3. moved' \in [Id -> Nat]
    BY <1>1, <2>1, <2>2
  <2>4. (IF keyframe = p.id THEN 0 ELSE moved'[keyframe]) \in Nat
    BY <2>3
  <2>. QED BY <1>1, <1>3, <2>1, <2>3, <2>4
<1>6. PublisherTypes'
  <2>1. queue' \in Seq(Publication)
    BY <1>1, <1>4 DEF PublisherTypes
  <2>2. number' \in Nat /\ current' \in 0 .. MaxStates
    BY <1>1, <1>3
  <2>. QED BY <1>1, <1>5, <2>1, <2>2 DEF PublisherTypes
<1>7. CallerInv'
  BY <1>1, <1>3 DEF CallerInv
<1>8. (\A c \in Callers : Busy(c)' <=> Busy(c)) /\ ~Busy("stopping")
      /\ ~Busy("stopping")'
  BY <1>1 DEF Busy, CallerInv
<1>9. Appends(Pending', Pending, p)
  <2>1. queue \in Seq(Publication)
    BY DEF PublisherTypes
  <2>2. Appends(queue', queue, p)
        /\ Appends(<<hand["publishing"]>> \o queue', <<hand["publishing"]>> \o queue, p)
    BY <1>1, <1>4, <2>1, Appended2
  <2>. QED BY <1>1, <1>8, <2>2 DEF Pending, Callers
<1>10. Handled' = Handled /\ SameStates /\ Again = 0 /\ Again' = 0
  BY <1>1, <1>8 DEF Handled, SameStates, Again
<1>11. InOrder(Pending, Handled, current)
  BY <1>8 DEF SequenceInv
<1>12. SequenceInv'
  <2>1. InOrder(Pending', Handled, p.id)
    <3>. DEFINE x == Pending
                y == Pending'
    <3>1. /\ Len(x) \in Nat /\ Len(y) = Len(x) + 1 /\ y[Len(x) + 1] = p
          /\ \A i \in 1 .. Len(x) : y[i] = x[i]
      BY <1>9, PendingLength DEF Appends
    <3>2. Handled + Len(x) = current /\ \A i \in 1 .. Len(x) : x[i].id = Handled + i
      BY <1>11 DEF InOrder
    <3>. HIDE DEF x, y
    <3>3. ASSUME NEW i \in 1 .. Len(y) PROVE y[i].id = Handled + i
      <4>1. CASE i = Len(x) + 1
        BY <1>2, <1>3, <3>1, <3>2, <4>1
      <4>2. CASE i # Len(x) + 1
        <5>1. i \in 1 .. Len(x)
          BY <3>1, <4>2
        <5>. QED BY <3>1, <3>2, <5>1
      <4>. QED BY <4>1, <4>2
    <3>4. Handled + Len(y) = p.id
      <4>1. p.id = current + 1 /\ Handled \in Nat /\ current \in Nat
        BY <1>2, <1>3
      <4>. QED BY <3>1, <3>2, <4>1
    <3>. QED BY <3>3, <3>4 DEF InOrder, y
  <2>. QED BY <1>1, <1>8, <1>10, <2>1 DEF SequenceInv
<1>13. PendingInv' /\ EstimatorInv'
  <2>1. Publishes(p, current, keyframeOf, moved, offset,
                  keyframeOf', moved', offset')
    <3>1. p.updated \subseteq 1 .. p.id /\ p.id \in p.updated
      <4>1. 1 .. current \subseteq 1 .. p.id /\ p.id \in 1 .. p.id
        <5>1. p.id = current + 1 /\ current \in Nat
          BY <1>2, <1>3
        <5>. QED BY <5>1
      <4>2. p.updated = others \cup {p.id} /\ others \subseteq 1 .. current
        BY <1>2, <1>3
      <4>. QED BY <4>1, <4>2
    <3>. QED BY <1>1, <1>2, <1>3, <1>4, <1>5, <3>1 DEF Publishes
  <2>2. \A i \in 1 .. Len(Pending) : Pending[i].id < p.id
    BY <1>2, <1>3, <1>11, PendingLength DEF InOrder
  <2>3. PendingOk(Pending, keyframeOf, offset, trajectory.keyframe)
        /\ EstimatorOk(Pending, current, keyframeOf, moved, offset,
                       trajectory.keyframe)
    BY DEF PendingInv, EstimatorInv
  <2>4. PendingOk(Pending', keyframeOf', offset', trajectory.keyframe)
        /\ EstimatorOk(Pending', p.id, keyframeOf', moved', offset',
                       trajectory.keyframe)
    BY <1>3, <1>9, <2>1, <2>2, <2>3, PublishedOk
  <2>. QED BY <1>1, <2>4 DEF PendingInv, EstimatorInv
<1>14. KnowledgeInv'
  <2>1. \A s \in 1 .. Handled : s \in Id /\ s # p.id
    BY <1>2, <1>3 DEF Id
  <2>. QED BY <1>1, <1>5, <1>10, <2>1 DEF KnowledgeInv, KnowledgeOk
<1>15. MarkerInv'
  BY <1>1, <1>10, NothingDrawn
<1>16. SensorInv'
  <2>1. FedStamp' = FedStamp /\ Handled' = Handled /\ clock' = clock
        /\ buffered' = buffered /\ at' = at /\ trajectory' = trajectory
    BY <1>1, <1>10 DEF FedStamp
  <2>2. Time(current') + Overlap <= clock'
    BY <1>1
  <2>. QED BY <2>1, <2>2 DEF SensorInv
<1>17. PropagationInv'
  BY <1>1, NothingFed
<1>. QED BY <1>6, <1>7, <1>12, <1>13, <1>14, <1>15, <1>16, <1>17

(* The last state is published once more.                                    *)
LEMMA PublishFinalStep ==
  ASSUME PublisherGood, NEW keyframe \in Id, NEW others \in Since,
         PublishFinal(keyframe, others)
  PROVE  PublisherGood'
<1>. USE DEF PublisherGood
<1>1. PICK p :
      /\ p = [number |-> number + 1, id |-> current, keyframe |-> keyframe,
              updated |-> others \cup {current}]
      /\ at["stopping"] = "idle" /\ at' = [at EXCEPT !["stopping"] = "waiting"]
      /\ phase = "shut down" /\ at["publishing"] = "idle"
      /\ keyframeOf[keyframe] = keyframe
      /\ keyframeOf[p.id] = p.id => keyframe = p.id
      /\ phase' = "published" /\ number' = number + 1
      /\ keyframeOf' = [keyframeOf EXCEPT ![p.id] = keyframe]
      /\ moved' = [h \in Id |-> IF h \in p.updated THEN p.number ELSE moved[h]]
      /\ offset' = [offset EXCEPT ![p.id] = IF keyframe = p.id THEN 0
                                                         ELSE moved'[keyframe]]
      /\ hand' = [hand EXCEPT !["stopping"] = p]
      /\ UNCHANGED <<current, queue, lost, first, clock, buffered, torn,
                     trajectory, marker>>
      /\ UNCHANGED sensor
  <2>. DEFINE p == [number |-> number + 1, id |-> current, keyframe |-> keyframe,
                    updated |-> others \cup {current}]
  <2>1. p.id = current /\ p.number = number + 1 /\ p.updated = others \cup {current}
    OBVIOUS
  <2>2. /\ at["stopping"] = "idle" /\ at' = [at EXCEPT !["stopping"] = "waiting"]
        /\ phase = "shut down" /\ at["publishing"] = "idle"
        /\ keyframeOf[keyframe] = keyframe
        /\ keyframeOf[current] = current => keyframe = current
        /\ phase' = "published" /\ number' = number + 1
        /\ keyframeOf' = [keyframeOf EXCEPT ![current] = keyframe]
        /\ moved' = [h \in Id |-> IF h \in p.updated THEN p.number ELSE moved[h]]
        /\ offset' = [offset EXCEPT ![current] = IF keyframe = current THEN 0
                                                           ELSE moved'[keyframe]]
        /\ hand' = [hand EXCEPT !["stopping"] = p]
        /\ UNCHANGED <<current, queue, lost, first, clock, buffered, torn,
                       trajectory, marker>>
        /\ UNCHANGED sensor
    BY DEF PublishFinal, Go, sensor
  <2>3. p = [number |-> number + 1, id |-> current, keyframe |-> keyframe,
             updated |-> others \cup {current}]
    OBVIOUS
  <2>. HIDE DEF p
  <2>4. keyframeOf[p.id] = p.id => keyframe = p.id
    BY <2>1, <2>2
  <2>5. /\ keyframeOf' = [keyframeOf EXCEPT ![p.id] = keyframe]
        /\ offset' = [offset EXCEPT ![p.id] = IF keyframe = p.id THEN 0
                                               ELSE moved'[keyframe]]
    BY <2>1, <2>2
  <2>. WITNESS p
  <2>. QED BY <2>2, <2>3, <2>4, <2>5
<1>2. /\ p.number = number + 1 /\ p.id = current /\ p.keyframe = keyframe
      /\ p.updated = others \cup {current}
  BY <1>1
<1>3. /\ current \in Nat /\ current > 0 /\ current <= MaxStates
      /\ MaxStates \in Nat /\ Handled \in Nat /\ current \in Id
      /\ others \subseteq 1 .. current /\ number \in Nat
      /\ keyframe \in Nat /\ keyframe > 0
  <2>1. current \in Nat /\ current <= MaxStates /\ MaxStates \in Nat
        /\ Handled \in Nat
    BY HandledIs, PublisherSizes
  <2>2. others \subseteq 1 .. current
    BY <2>1 DEF Since
  <2>3. number \in Nat
    BY DEF PublisherTypes
  <2>4. current # 0
    BY <1>1 DEF CallerInv
  <2>5. keyframe \in 1 .. MaxStates
    BY DEF Id
  <2>. QED BY <2>1, <2>2, <2>3, <2>4, <2>5 DEF Id
<1>4. keyframe <= current
  <2>1. \A s \in Id : s > current => keyframeOf[s] = 0
    BY DEF EstimatorInv, EstimatorOk
  <2>2. keyframe > current => keyframe = 0
    BY <1>1, <2>1
  <2>. QED BY <1>3, <2>2
<1>5. p \in Publication
  <2>1. others \cup {current} \in SUBSET Id
    BY <1>3 DEF Id
  <2>2. number + 1 \in Nat \ {0}
    BY <1>3
  <2>. QED BY <1>1, <1>3, <2>1, <2>2 DEF Publication
<1>6. /\ keyframeOf'[p.id] = keyframe
      /\ \A s \in Id : s # p.id => /\ keyframeOf'[s] = keyframeOf[s]
                                  /\ offset'[s] = offset[s]
      /\ \A s \in Id : moved'[s] = IF s \in p.updated THEN p.number ELSE moved[s]
      /\ offset'[p.id] = IF keyframe = p.id THEN 0 ELSE moved'[keyframe]
      /\ keyframeOf' \in [Id -> Nat] /\ moved' \in [Id -> Nat]
      /\ offset' \in [Id -> Nat]
  <2>1. keyframeOf \in [Id -> Nat] /\ moved \in [Id -> Nat] /\ offset \in [Id -> Nat]
    BY DEF PublisherTypes
  <2>2. p.number \in Nat
    BY <1>2, <1>3
  <2>3. moved' \in [Id -> Nat]
    BY <1>1, <2>1, <2>2
  <2>4. (IF keyframe = p.id THEN 0 ELSE moved'[keyframe]) \in Nat
    BY <2>3
  <2>. QED BY <1>1, <1>2, <1>3, <2>1, <2>3, <2>4
<1>7. /\ at'["stopping"] = "waiting" /\ at'["publishing"] = "idle"
      /\ at'["imu"] = at["imu"]
      /\ hand'["stopping"] = p /\ hand'["publishing"] = hand["publishing"]
  BY <1>1 DEF PublisherTypes, Threads, Callers
<1>8. PublisherTypes'
  <2>1. p \in [number : Nat, id : Id, keyframe : Id, updated : SUBSET Id]
    BY <1>5 DEF Publication
  <2>2. number' \in Nat
    <3>1. number' = number + 1
      BY <1>1
    <3>. QED BY <1>3, <3>1
  <2>. QED BY <1>1, <1>6, <2>1, <2>2 DEF PublisherTypes
<1>9. queue = <<>> /\ queue' = <<>>
  BY <1>1 DEF CallerInv
<1>10. CallerInv'
  BY <1>1, <1>3, <1>7, <1>9 DEF CallerInv
<1>11. ~Busy("publishing") /\ ~Busy("stopping") /\ Busy("stopping")'
       /\ ~Busy("publishing")'
  BY <1>1, <1>7 DEF Busy
<1>12. Pending = <<>> /\ Pending' = <<p>>
  BY <1>7, <1>9, <1>11 DEF Pending
<1>13. Handled' = Handled /\ SameStates /\ Again' = current
  BY <1>1, <1>11 DEF Handled, SameStates, Again
<1>14. Handled = current
  BY <1>3, <1>11, <1>12 DEF SequenceInv, InOrder
<1>15. Appends(Pending', Pending, p) /\ Len(<<p>>) = 1 /\ <<p>>[1] = p
  BY <1>12 DEF Appends
<1>16. SequenceInv'
  <2>1. InOrder(<<p>>, current - 1, current)
    BY <1>2, <1>3, <1>15 DEF InOrder
  <2>. QED BY <1>1, <1>11, <1>12, <1>13, <1>14, <2>1 DEF SequenceInv, SameStates
<1>17. PendingInv' /\ EstimatorInv'
  <2>1. Publishes(p, current, keyframeOf, moved, offset,
                  keyframeOf', moved', offset')
    <3>1. p.updated \subseteq 1 .. p.id /\ p.id \in p.updated
      BY <1>2, <1>3
    <3>2. p.keyframe # p.id => p.keyframe < p.id
      BY <1>2, <1>3, <1>4
    <3>. QED BY <1>1, <1>2, <1>3, <1>5, <1>6, <3>1, <3>2 DEF Publishes
  <2>2. \A i \in 1 .. Len(Pending) : Pending[i].id < p.id
    BY <1>12
  <2>3. PendingOk(Pending, keyframeOf, offset, trajectory.keyframe)
        /\ EstimatorOk(Pending, current, keyframeOf, moved, offset,
                       trajectory.keyframe)
    BY DEF PendingInv, EstimatorInv
  <2>4. PendingOk(Pending', keyframeOf', offset', trajectory.keyframe)
        /\ EstimatorOk(Pending', p.id, keyframeOf', moved', offset',
                       trajectory.keyframe)
    BY <1>3, <1>15, <2>1, <2>2, <2>3, PublishedOk
  <2>. QED BY <1>1, <1>2, <2>4 DEF PendingInv, EstimatorInv
<1>18. KnowledgeInv'
  <2>1. \A s \in 1 .. Handled : /\ s \in Id
                                /\ keyframeOf'[s] = s <=> keyframeOf[s] = s
                                /\ s # current => keyframeOf'[s] = keyframeOf[s]
                                                  /\ offset'[s] = offset[s]
    <3>1. \A s \in 1 .. Handled : s \in Id
      BY <1>3, <1>14 DEF Id
    <3>. QED BY <1>1, <1>2, <1>6, <3>1
  <2>2. Again = 0
    BY <1>11 DEF Again
  <2>3. \A s \in 1 .. Handled : s # 0
    BY <1>3
  <2>4. KnowledgeOk(trajectory, Handled, keyframeOf, offset, 0)
    BY <2>2 DEF KnowledgeInv
  <2>5. KnowledgeOk(trajectory, Handled, keyframeOf', offset', current)
    BY <2>1, <2>3, <2>4 DEF KnowledgeOk
  <2>. QED BY <1>1, <1>13, <2>5 DEF KnowledgeInv
<1>19. MarkerInv'
  <2>1. \A c \in Callers : at'[c] # "drawing" /\ at[c] # "drawing"
    BY <1>1, <1>7 DEF Callers
  <2>. QED BY <1>1, <1>13, <2>1, NothingDrawn
<1>20. SensorInv' /\ PropagationInv'
  BY <1>1, <1>7, NothingSensed, NothingFed
<1>. QED BY <1>8, <1>10, <1>16, <1>17, <1>18, <1>19, <1>20

(* q is r after its first publication p, that the trajectory takes up: p     *)
(* moves the keyframes it updated.                                           *)
Hands(q, r, p) ==
  /\ Len(r) \in Nat /\ Len(q) = Len(r) + 1 /\ q[1] = p
  /\ \A j \in 1 .. Len(r) : r[j] = q[j + 1]

Takes(p, key, key1, k) == key1[k] = IF k \in p.updated THEN p.number ELSE key[k]

(* What moved a keyframe last is the same when the first publication is in   *)
(* the trajectory.                                                           *)
LEMMA MoveHanded ==
  ASSUME NEW q, NEW r, NEW p, Hands(q, r, p), NEW key, NEW key1,
         NEW k, NEW n, Takes(p, key, key1, k),
         NEW i \in 1 .. Len(q), LastMove(q, key, i, k, n)
  PROVE  LastMove(r, key1, i - 1, k, n)
<1>1. /\ Len(r) \in Nat /\ Len(q) = Len(r) + 1 /\ i \in Nat /\ i > 0
      /\ i <= Len(r) + 1 /\ i - 1 \in Nat /\ q[1] = p
      /\ \A j \in 1 .. i - 1 : r[j] = q[j + 1] /\ j + 1 \in 1 .. i /\ j \in Nat
  BY DEF Hands
<1>2. CASE \A j \in 1 .. i : k \notin q[j].updated
  <2>1. n = key[k]
    BY <1>2 DEF LastMove
  <2>2. 1 \in 1 .. i
    BY <1>1
  <2>3. k \notin p.updated /\ key1[k] = n
    BY <1>1, <1>2, <2>1, <2>2 DEF Takes
  <2>4. \A j \in 1 .. i - 1 : k \notin r[j].updated
    BY <1>1, <1>2
  <2>. QED BY <2>3, <2>4 DEF LastMove
<1>3. CASE ~\A j \in 1 .. i : k \notin q[j].updated
  <2>1. PICK j \in 1 .. i : /\ k \in q[j].updated /\ n = q[j].number
                            /\ \A l \in j + 1 .. i : k \notin q[l].updated
    BY <1>3 DEF LastMove
  <2>2. ASSUME NEW l \in j .. i - 1 PROVE k \notin r[l].updated
    <3>1. l \in 1 .. i - 1 /\ l + 1 \in j + 1 .. i
      BY <1>1, <2>1
    <3>. QED BY <1>1, <2>1, <3>1
  <2>3. CASE j = 1
    <3>1. key1[k] = n
      BY <1>1, <2>1, <2>3 DEF Takes
    <3>. QED BY <2>2, <2>3, <3>1 DEF LastMove
  <2>4. CASE j # 1
    <3>1. j - 1 \in 1 .. i - 1 /\ (j - 1) + 1 = j
      BY <1>1, <2>4
    <3>2. r[j - 1] = q[j]
      BY <1>1, <3>1
    <3>3. k \in r[j - 1].updated /\ n = r[j - 1].number
          /\ \A l \in (j - 1) + 1 .. i - 1 : k \notin r[l].updated
      BY <2>1, <2>2, <3>1, <3>2
    <3>. QED BY <3>1, <3>3 DEF LastMove
  <2>. QED BY <2>3, <2>4
<1>. QED BY <1>2, <1>3

(* The publications that are still pending, and the estimator.               *)
LEMMA HandedOk ==
  ASSUME NEW q, NEW r, NEW p, Hands(q, r, p), NEW newest \in Nat,
         newest <= MaxStates, NEW of, NEW move, NEW away, NEW key, NEW key1,
         \A k \in Id : of[k] = k => Takes(p, key, key1, k),
         PendingOk(q, of, away, key), EstimatorOk(q, newest, of, move, away, key)
  PROVE  /\ PendingOk(r, of, away, key1)
         /\ EstimatorOk(r, newest, of, move, away, key1)
         /\ p.keyframe # p.id => away[p.id] = key1[p.keyframe]
<1>1. Len(r) \in Nat /\ Len(q) = Len(r) + 1 /\ q[1] = p
      /\ \A j \in 1 .. Len(r) : r[j] = q[j + 1]
  BY DEF Hands
<1>2. ASSUME NEW i \in 1 .. Len(r)
      PROVE  /\ r[i] \in Publication
             /\ r[i].updated \subseteq 1 .. r[i].id /\ r[i].id \in r[i].updated
             /\ r[i].keyframe <= r[i].id /\ of[r[i].keyframe] = r[i].keyframe
             /\ of[r[i].id] = r[i].keyframe
             /\ r[i].keyframe # r[i].id =>
                  LastMove(r, key1, i, r[i].keyframe, away[r[i].id])
  <2>1. i + 1 \in 1 .. Len(q) /\ (i + 1) - 1 = i /\ r[i] = q[i + 1]
    BY <1>1
  <2>2. /\ r[i] \in Publication
        /\ r[i].updated \subseteq 1 .. r[i].id /\ r[i].id \in r[i].updated
        /\ r[i].keyframe <= r[i].id /\ of[r[i].keyframe] = r[i].keyframe
        /\ of[r[i].id] = r[i].keyframe
        /\ r[i].keyframe # r[i].id =>
             LastMove(q, key, i + 1, r[i].keyframe, away[r[i].id])
    BY <2>1 DEF PendingOk
  <2>3. r[i].keyframe \in Id
    BY <2>2 DEF Publication
  <2>4. r[i].keyframe # r[i].id =>
          LastMove(r, key1, (i + 1) - 1, r[i].keyframe, away[r[i].id])
    BY <2>1, <2>2, <2>3, MoveHanded
  <2>. QED BY <2>1, <2>2, <2>4
<1>3. PendingOk(r, of, away, key1)
  BY <1>2 DEF PendingOk
<1>4. ASSUME NEW s \in 1 .. newest, of[s] = s
      PROVE  away[s] = 0 /\ LastMove(r, key1, Len(r), s, move[s])
  <2>1. s \in Id
    BY PublisherSizes DEF Id
  <2>2. away[s] = 0 /\ LastMove(q, key, Len(q), s, move[s])
    BY <1>4 DEF EstimatorOk
  <2>3. Len(q) \in 1 .. Len(q) /\ Len(q) - 1 = Len(r)
    BY <1>1
  <2>4. LastMove(r, key1, Len(q) - 1, s, move[s])
    BY <1>4, <2>1, <2>2, <2>3, MoveHanded
  <2>. QED BY <2>2, <2>3, <2>4
<1>5. EstimatorOk(r, newest, of, move, away, key1)
  BY <1>4 DEF EstimatorOk
<1>6. ASSUME p.keyframe # p.id PROVE away[p.id] = key1[p.keyframe]
  <2>1. 1 \in 1 .. Len(q) /\ 1 - 1 = 0
    BY <1>1
  <2>2. /\ LastMove(q, key, 1, p.keyframe, away[p.id])
        /\ of[p.keyframe] = p.keyframe /\ p.keyframe \in Id
    BY <1>1, <1>6, <2>1 DEF PendingOk, Publication
  <2>3. LastMove(r, key1, 1 - 1, p.keyframe, away[p.id])
    BY <2>1, <2>2, MoveHanded
  <2>4. 1 .. 1 - 1 = {}
    OBVIOUS
  <2>. QED BY <2>3, <2>4 DEF LastMove
<1>. QED BY <1>3, <1>5, <1>6

(* A publication whose state is the next one, or is published again, moves   *)
(* the keyframes it updated in the trajectory.                               *)
LEMMA KeyframesTaken ==
  ASSUME NEW old \in TrajectoryRecord, NEW p \in Publication, NEW newest \in Nat,
         NEW again, NEW of, NEW away,
         KnowledgeOk(old, newest, of, away, again), p.id <= newest + 1,
         p.updated \subseteq 1 .. p.id, p.id \in p.updated,
         of[p.id] = p.keyframe, NEW k \in Id, of[k] = k
  PROVE  Takes(p, old.keyframe, Update(old, p).keyframe, k)
<1>. DEFINE u == Update(old, p)
<1>1. u.keyframe = [s \in Id |->
                IF \/ s \in p.updated /\ old.keyframe[s] # 0
                   \/ s = p.id /\ p.keyframe = p.id
                  THEN p.number ELSE old.keyframe[s]]
  BY UpdatedIs
<1>2. /\ p.id \in Nat /\ k \in Nat /\ k > 0
  BY PublisherSizes DEF Publication, Id
<1>. HIDE DEF u
<1>3. CASE k \in p.updated
  <2>1. k <= p.id
    BY <1>2, <1>3
  <2>2. k # p.id => old.keyframe[k] # 0
    <3>1. k # p.id => k \in 1 .. newest
      BY <1>2, <2>1
    <3>. QED BY <3>1 DEF KnowledgeOk
  <2>3. k = p.id => p.keyframe = p.id
    OBVIOUS
  <2>4. u.keyframe[k] = p.number
    BY <1>1, <1>3, <2>2, <2>3
  <2>. QED BY <1>3, <2>4 DEF Takes, u
<1>4. CASE k \notin p.updated
  BY <1>1, <1>4 DEF Takes, u
<1>. QED BY <1>3, <1>4

(* The trajectory knows what is published, when it takes up a publication    *)
(* whose state is the next one, or is published again.                       *)
LEMMA KnowledgeHanded ==
  ASSUME NEW old \in TrajectoryRecord, NEW p \in Publication, NEW newest \in Nat,
         NEW again, NEW of, NEW away,
         KnowledgeOk(old, newest, of, away, again),
         \/ newest = p.id - 1 /\ again = 0
         \/ newest = p.id /\ again = p.id,
         p.updated \subseteq 1 .. p.id, p.id \in p.updated, p.keyframe <= p.id,
         of[p.keyframe] = p.keyframe, of[p.id] = p.keyframe,
         p.keyframe # p.id => away[p.id] = Update(old, p).keyframe[p.keyframe]
  PROVE  KnowledgeOk(Update(old, p), p.id, of, away, 0)
<1>. DEFINE u == Update(old, p)
<1>1. /\ u \in TrajectoryRecord
      /\ u.keyframe = [s \in Id |->
                IF \/ s \in p.updated /\ old.keyframe[s] # 0
                   \/ s = p.id /\ p.keyframe = p.id
                  THEN p.number ELSE old.keyframe[s]]
      /\ p.keyframe = p.id => u.of = old.of /\ u.relative = old.relative
      /\ p.keyframe # p.id =>
           /\ u.relative = [old.relative EXCEPT ![p.id] = u.keyframe[p.keyframe]]
           /\ u.keyframe[p.keyframe] # 0 =>
                     u.of = [old.of EXCEPT ![p.id] = p.keyframe]
      /\ p.keyframe # p.id => away[p.id] = u.keyframe[p.keyframe]
  BY UpdatedIs
<1>2. /\ p.id \in Nat /\ p.keyframe \in Nat /\ p.number \in Nat /\ p.number # 0
      /\ p.id \in Id /\ p.keyframe \in Id /\ p.id > 0 /\ p.keyframe > 0
      /\ MaxStates \in Nat /\ p.id <= MaxStates
      /\ \A s \in Id : s \in Nat /\ s > 0 /\ s <= MaxStates
  BY PublisherSizes DEF Publication, Id
<1>3. /\ old.keyframe \in [Id -> Nat] /\ old.of \in [Id -> Nat]
      /\ old.relative \in [Id -> Nat]
  BY DEF TrajectoryRecord
<1>. HIDE DEF u
<1>4. /\ \A s \in Id : u.keyframe[s] = IF \/ s \in p.updated /\ old.keyframe[s] # 0
                                          \/ s = p.id /\ p.keyframe = p.id
                                         THEN p.number ELSE old.keyframe[s]
      /\ \A s \in Id : s # p.id \/ p.keyframe = p.id
                       => u.relative[s] = old.relative[s]
      /\ p.keyframe # p.id => u.relative[p.id] = u.keyframe[p.keyframe]
  BY <1>1, <1>2, <1>3
<1>5. \A s \in Id : s > newest => /\ old.keyframe[s] = 0 /\ old.of[s] = 0
  BY DEF KnowledgeOk
<1>6. \A s \in 1 .. newest :
        /\ of[s] = s <=> old.keyframe[s] # 0
        /\ of[s] # s =>
             /\ old.of[s] \in 1 .. newest /\ old.keyframe[old.of[s]] # 0
             /\ s # again => old.of[s] = of[s] /\ old.relative[s] = away[s]
  BY DEF KnowledgeOk
<1>7. newest <= p.id /\ p.id <= newest + 1 /\ newest \in Nat
  BY <1>2
<1>8. \A s \in Id : u.keyframe[s] # 0 <=> \/ old.keyframe[s] # 0
                                          \/ s = p.id /\ p.keyframe = p.id
  BY <1>2, <1>4
<1>9. p.keyframe # p.id => u.keyframe[p.keyframe] # 0 /\ old.keyframe[p.keyframe] # 0
  <2>1. p.keyframe # p.id => p.keyframe \in 1 .. newest
    BY <1>2, <1>7
  <2>. QED BY <1>2, <1>6, <1>8, <2>1
<1>10. /\ p.keyframe # p.id => u.of[p.id] = p.keyframe
       /\ \A s \in Id : s # p.id \/ p.keyframe = p.id => u.of[s] = old.of[s]
  BY <1>1, <1>2, <1>3, <1>9
<1>11. ASSUME NEW s \in Id, s > p.id PROVE u.keyframe[s] = 0 /\ u.of[s] = 0
  <2>1. s > newest /\ s # p.id /\ s \in Nat
    BY <1>2, <1>7, <1>11
  <2>. QED BY <1>4, <1>5, <1>10, <2>1
<1>12. old.keyframe[p.id] # 0 => p.keyframe = p.id
  <2>1. CASE newest = p.id
    <3>1. p.id \in 1 .. newest
      BY <1>2, <2>1
    <3>. QED BY <1>6, <3>1
  <2>2. CASE newest = p.id - 1
    <3>1. p.id > newest
      BY <1>2, <2>2
    <3>. QED BY <1>2, <1>5, <3>1
  <2>. QED BY <2>1, <2>2
<1>13. ASSUME NEW s \in 1 .. p.id
       PROVE  /\ of[s] = s <=> u.keyframe[s] # 0
              /\ of[s] # s =>
                   /\ u.of[s] \in 1 .. p.id
                   /\ u.keyframe[u.of[s]] # 0
                   /\ s # 0 => u.of[s] = of[s] /\ u.relative[s] = away[s]
  <2>0. s \in Id /\ s \in Nat
    BY <1>2 DEF Id
  <2>1. CASE s = p.id
    <3>1. of[s] = s <=> u.keyframe[s] # 0
      BY <1>8, <1>12, <2>0, <2>1
    <3>2. ASSUME of[s] # s
          PROVE  /\ u.of[s] = of[s] /\ u.relative[s] = away[s]
                 /\ u.of[s] \in 1 .. p.id /\ u.keyframe[u.of[s]] # 0
      <4>1. p.keyframe # p.id /\ p.keyframe \in 1 .. p.id
        BY <1>2, <2>1, <3>2
      <4>. QED BY <1>1, <1>4, <1>9, <1>10, <2>1, <4>1
    <3>. QED BY <3>1, <3>2
  <2>2. CASE s # p.id
    <3>1. s \in 1 .. newest /\ s # again
      BY <1>2, <1>7, <2>0, <2>2
    <3>2. u.of[s] = old.of[s] /\ u.relative[s] = old.relative[s]
          /\ (u.keyframe[s] # 0 <=> old.keyframe[s] # 0)
      BY <1>4, <1>8, <1>10, <2>0, <2>2
    <3>3. ASSUME of[s] # s
          PROVE  /\ u.of[s] = of[s] /\ u.relative[s] = away[s]
                 /\ u.of[s] \in 1 .. p.id /\ u.keyframe[u.of[s]] # 0
      <4>1. /\ old.of[s] \in 1 .. newest /\ old.keyframe[old.of[s]] # 0
            /\ old.of[s] = of[s] /\ old.relative[s] = away[s]
        BY <1>6, <3>1, <3>3
      <4>2. old.of[s] \in Id /\ old.of[s] \in 1 .. p.id
        BY <1>2, <1>7, <4>1 DEF Id
      <4>. QED BY <1>8, <3>2, <4>1, <4>2
    <3>. QED BY <1>6, <3>1, <3>2, <3>3
  <2>. QED BY <2>1, <2>2
<1>14. KnowledgeOk(u, p.id, of, away, 0)
  BY <1>11, <1>13 DEF KnowledgeOk
<1>. QED BY <1>14 DEF u

(* The states that a publication affects are among those there are then, and *)
(* the others stay where they are.                                           *)
LEMMA AffectedIs ==
  ASSUME NEW old \in TrajectoryRecord, NEW p \in Publication, NEW newest \in Nat,
         NEW of, NEW away, NEW again, KnowledgeOk(old, newest, of, away, again),
         newest <= p.id, p.updated \subseteq 1 .. p.id, p.id \in p.updated,
         p.keyframe # p.id => Update(old, p).keyframe[p.keyframe] # 0
  PROVE  /\ Affected(old, p) \subseteq 1 .. p.id /\ p.id \in Affected(old, p)
         /\ \A s \in 1 .. newest :
              s \notin Affected(old, p) => Pose(Update(old, p), s) = Pose(old, s)
<1>. DEFINE u == Update(old, p)
            A == Affected(old, p)
<1>1. /\ u.keyframe = [s \in Id |->
                IF \/ s \in p.updated /\ old.keyframe[s] # 0
                   \/ s = p.id /\ p.keyframe = p.id
                  THEN p.number ELSE old.keyframe[s]]
      /\ p.keyframe = p.id => u.of = old.of /\ u.relative = old.relative
      /\ p.keyframe # p.id =>
           /\ u.relative = [old.relative EXCEPT ![p.id] = u.keyframe[p.keyframe]]
           /\ u.of = [old.of EXCEPT ![p.id] = p.keyframe]
  BY UpdatedIs
<1>2. /\ p.id \in Nat /\ p.id \in Id /\ p.id <= MaxStates /\ MaxStates \in Nat
      /\ p.updated \subseteq Id
      /\ \A s \in Id : s \in Nat /\ s > 0 /\ s <= MaxStates
  BY PublisherSizes DEF Publication, Id
<1>3. /\ old.keyframe \in [Id -> Nat] /\ old.of \in [Id -> Nat]
      /\ old.relative \in [Id -> Nat]
  BY DEF TrajectoryRecord
<1>4. /\ p.updated \subseteq A
      /\ \A s \in Id, k \in p.updated :
           old.keyframe[k] # 0 /\ old.of[s] = k => s \in A
      /\ \A s \in A : \/ s \in p.updated
                      \/ s \in Id /\ old.of[s] \in p.updated
  BY DEF Affected
<1>. HIDE DEF u, A
<1>5. A \subseteq 1 .. p.id
  <2>1. ASSUME NEW s \in Id, old.of[s] \in p.updated PROVE s \in 1 .. p.id
    <3>1. old.of[s] # 0 /\ s \in Nat /\ s > 0
      BY <1>2, <2>1
    <3>2. s <= newest
      BY <3>1 DEF KnowledgeOk
    <3>. QED BY <1>2, <3>1, <3>2
  <2>. QED BY <1>4, <2>1
<1>6. ASSUME NEW s \in 1 .. newest, s \notin A PROVE Pose(u, s) = Pose(old, s)
  <2>1. s \notin p.updated /\ s # p.id /\ s \in Id
    BY <1>2, <1>4, <1>6 DEF Id
  <2>2. /\ u.keyframe[s] = old.keyframe[s] /\ u.of[s] = old.of[s]
        /\ u.relative[s] = old.relative[s]
    BY <1>1, <1>2, <1>3, <2>1
  <2>3. CASE old.keyframe[s] # 0
    BY <2>2, <2>3 DEF Pose
  <2>4. CASE old.keyframe[s] = 0
    <3>1. /\ old.of[s] \in 1 .. newest /\ old.keyframe[old.of[s]] # 0
      BY <2>4 DEF KnowledgeOk
    <3>2. old.of[s] \notin p.updated /\ old.of[s] \in Id
      BY <1>2, <1>4, <1>6, <2>1, <3>1 DEF Id
    <3>3. u.keyframe[old.of[s]] = old.keyframe[old.of[s]]
      BY <1>1, <3>2
    <3>. QED BY <2>2, <2>4, <3>3 DEF Pose
  <2>. QED BY <2>3, <2>4
<1>7. p.id \in A
  BY <1>4
<1>. QED BY <1>5, <1>6, <1>7 DEF u, A

(* A finite, non-empty set of states has a first one.                        *)
LEMMA FirstOf ==
  ASSUME NEW n \in Nat, NEW S \in SUBSET (1 .. n), S # {}
  PROVE  Min(S) \in S /\ \A s \in S : Min(S) <= s
<1>1. \A s \in S : s \in Nat
  OBVIOUS
<1>2. HasMin(S)
  BY <1>1, NatsHaveMin
<1>. QED BY <1>2 DEF HasMin, IsMin

(* The first of the pending publications is the one that is handed on.       *)
LEMMA HandedFirst ==
  ASSUME PublisherGood, NEW c \in Callers, Busy(c)
  PROVE  /\ Hands(Pending, queue, hand[c]) /\ queue \in Seq(Publication)
         /\ \A o \in Callers : o # c => ~Busy(o) /\ at[o] # "drawing"
<1>. USE DEF PublisherGood
<1>1. queue \in Seq(Publication)
  BY DEF PublisherTypes
<1>2. \A h : /\ Len(queue) \in Nat /\ Len(<<h>> \o queue) = Len(queue) + 1
             /\ (<<h>> \o queue)[1] = h
             /\ \A j \in 1 .. Len(queue) : (<<h>> \o queue)[j + 1] = queue[j]
  BY <1>1
<1>3. CASE c = "publishing"
  <2>1. at["stopping"] = "idle"
    BY <1>3 DEF CallerInv, Busy
  <2>2. Pending = <<hand[c]>> \o queue
    BY <1>3, PendingAt
  <2>. QED BY <1>1, <1>2, <1>3, <2>1, <2>2 DEF Hands, Callers, Busy
<1>4. CASE c = "stopping"
  <2>1. at["publishing"] = "idle" /\ queue = <<>>
    BY <1>4 DEF CallerInv, Busy
  <2>2. Pending = <<hand[c]>>
    BY <1>4, PendingAt
  <2>3. \A h : <<h>>[1] = h /\ Len(<<h>>) = 1
    OBVIOUS
  <2>4. Len(queue) = 0
    BY <2>1
  <2>. QED BY <1>1, <1>4, <2>1, <2>2, <2>3, <2>4 DEF Hands, Callers, Busy
<1>. QED BY <1>3, <1>4 DEF Callers

(* The trajectory takes up a publication.                                    *)
LEMMA UpdateStep ==
  ASSUME PublisherGood, NEW c \in Callers, UpdateTrajectory(c)
  PROVE  PublisherGood'
<1>. USE DEF PublisherGood
<1>1. PICK p :
      /\ p = hand[c] /\ at[c] = "inside" /\ at' = [at EXCEPT ![c] = "drawing"]
      /\ trajectory' = Update(trajectory, p)
      /\ first' = [first EXCEPT ![c] = Min(Affected(trajectory, p))]
      /\ UNCHANGED <<number, current, keyframeOf, moved, offset, queue, lost,
                     phase, hand, clock, buffered, torn, marker>>
      /\ UNCHANGED sensor
  BY DEF UpdateTrajectory, Go, estimator, callers, sensor
<1>2. /\ at'[c] = "drawing" /\ at'["imu"] = at["imu"]
      /\ \A o \in Callers : o # c => at'[o] = at[o]
  BY <1>1 DEF PublisherTypes, Threads, Callers
<1>3. /\ Hands(Pending, queue, p) /\ queue \in Seq(Publication)
      /\ \A o \in Callers : o # c => ~Busy(o) /\ at[o] # "drawing"
  <2>1. Busy(c)
    BY <1>1 DEF Busy
  <2>. QED BY <1>1, <2>1, HandedFirst
<1>4. \A o \in Callers : ~Busy(o)' /\ at[o] # "drawing"
  BY <1>1, <1>2, <1>3 DEF Busy
<1>5. Pending' = queue /\ Len(queue) \in Nat
  BY <1>1, <1>3, <1>4 DEF Pending, Callers
<1>. DEFINE again == Again
            old == Handled
<1>6. /\ p \in Publication
      /\ p.updated \subseteq 1 .. p.id /\ p.id \in p.updated
      /\ p.keyframe <= p.id /\ keyframeOf[p.keyframe] = p.keyframe
      /\ keyframeOf[p.id] = p.keyframe
  <2>1. 1 \in 1 .. Len(Pending) /\ Pending[1] = p
    BY <1>3 DEF Hands
  <2>. QED BY <2>1 DEF PendingInv, PendingOk
<1>7. /\ old \in Nat /\ current \in Nat /\ current <= MaxStates
      /\ p.id \in Nat /\ p.id > 0 /\ p.id \in Id /\ MaxStates \in Nat
      /\ trajectory \in TrajectoryRecord
  <2>1. p.id \in 1 .. MaxStates /\ p.id \in Id
    BY <1>6 DEF Publication, Id
  <2>2. trajectory \in TrajectoryRecord
    BY DEF PublisherTypes
  <2>3. /\ old \in Nat /\ current \in Nat /\ current <= MaxStates
        /\ MaxStates \in Nat
    BY HandledIs, PublisherSizes
  <2>. HIDE DEF old
  <2>. QED BY <2>1, <2>2, <2>3
<1>8. /\ p.id + Len(queue) = current /\ p.id <= current
      /\ \A i \in 1 .. Len(queue) : queue[i].id = p.id + i
      /\ \/ old = p.id - 1 /\ again = 0
         \/ old = p.id /\ again = p.id
  <2>1. PICK base : /\ base = IF Busy("stopping") THEN current - 1 ELSE Handled
                    /\ InOrder(Pending, base, current)
    BY DEF SequenceInv
  <2>2. base \in Int
    BY <1>7, <2>1
  <2>3. /\ base + Len(Pending) = current
        /\ \A i \in 1 .. Len(Pending) : Pending[i].id = base + i
    BY <2>1 DEF InOrder
  <2>. DEFINE all == Pending
  <2>4. /\ Len(all) = Len(queue) + 1 /\ all[1] = p
        /\ \A j \in 1 .. Len(queue) : queue[j] = all[j + 1]
    BY <1>3 DEF Hands
  <2>. HIDE DEF all, old, again
  <2>5. base + Len(all) = current
        /\ \A i \in 1 .. Len(all) : all[i].id = base + i
    BY <2>3 DEF all
  <2>6. 1 \in 1 .. Len(all)
    BY <1>5, <2>4
  <2>7. p.id = base + 1 /\ p.id + Len(queue) = current
    BY <1>5, <1>7, <2>2, <2>4, <2>5, <2>6
  <2>8. ASSUME NEW i \in 1 .. Len(queue) PROVE queue[i].id = p.id + i
    <3>1. i + 1 \in 1 .. Len(all)
      BY <1>5, <2>4
    <3>2. queue[i] = all[i + 1] /\ all[i + 1].id = base + (i + 1)
      BY <2>4, <2>5, <3>1
    <3>3. base + (i + 1) = p.id + i
      BY <2>2, <2>7
    <3>. QED BY <3>2, <3>3
  <2>9. p.id <= current
    BY <1>5, <1>7, <2>7
  <2>10. CASE Busy("stopping")
    <3>1. old = current /\ again = current /\ base = current - 1
      BY <2>1, <2>10 DEF SequenceInv, Again, old, again
    <3>. QED BY <1>7, <2>7, <2>8, <2>9, <3>1
  <2>11. CASE ~Busy("stopping")
    <3>1. base = old /\ again = 0
      BY <2>1, <2>11 DEF Again, old, again
    <3>. QED BY <1>7, <2>7, <2>8, <2>9, <3>1
  <2>. QED BY <2>10, <2>11
<1>9. old <= p.id /\ p.id <= old + 1 /\ old <= current
  BY <1>7, <1>8
<1>10. /\ trajectory' \in TrajectoryRecord
       /\ trajectory'.all = 1 .. p.id
       /\ trajectory'.imu = {t \in trajectory.imu : Time(p.id) - t < Forget}
  <2>1. /\ trajectory' \in TrajectoryRecord
        /\ trajectory'.all = trajectory.all \cup {p.id}
        /\ trajectory'.imu = {t \in trajectory.imu : Time(p.id) - t < Forget}
    BY <1>1, <1>6, <1>7, UpdatedIs
  <2>2. trajectory.all = 1 .. old
    BY DEF SequenceInv
  <2>. HIDE DEF old
  <2>3. (1 .. old) \cup {p.id} = 1 .. p.id
    BY <1>7, <1>9
  <2>. QED BY <2>1, <2>2, <2>3
<1>11. Handled' = p.id
  <2>1. Cardinality(1 .. p.id) = p.id
    BY <1>7, FS_Interval
  <2>. QED BY <1>10, <2>1 DEF Handled
<1>. HIDE DEF old, again
<1>12. SequenceInv'
  <2>1. InOrder(queue, p.id, current)
    BY <1>8 DEF InOrder
  <2>. QED BY <1>1, <1>4, <1>5, <1>10, <1>11, <2>1 DEF SequenceInv, Callers
<1>13. /\ p.keyframe # p.id => offset[p.id] = trajectory'.keyframe[p.keyframe]
       /\ PendingOk(queue, keyframeOf, offset, trajectory'.keyframe)
       /\ EstimatorOk(queue, current, keyframeOf, moved, offset,
                      trajectory'.keyframe)
       /\ KnowledgeOk(trajectory', p.id, keyframeOf, offset, 0)
  <2>. DEFINE key  == trajectory.keyframe
              key1 == Update(trajectory, p).keyframe
  <2>1. KnowledgeOk(trajectory, old, keyframeOf, offset, again)
    BY DEF KnowledgeInv, old, again
  <2>2. \A k \in Id : keyframeOf[k] = k => Takes(p, key, key1, k)
    BY <1>6, <1>7, <1>9, <2>1, KeyframesTaken
  <2>3. /\ PendingOk(Pending, keyframeOf, offset, key)
        /\ EstimatorOk(Pending, current, keyframeOf, moved, offset, key)
    BY DEF PendingInv, EstimatorInv
  <2>. HIDE DEF key, key1
  <2>4. /\ PendingOk(queue, keyframeOf, offset, key1)
        /\ EstimatorOk(queue, current, keyframeOf, moved, offset, key1)
        /\ p.keyframe # p.id => offset[p.id] = key1[p.keyframe]
    BY <1>3, <1>7, <2>2, <2>3, HandedOk
  <2>5. KnowledgeOk(Update(trajectory, p), p.id, keyframeOf, offset, 0)
    BY <1>6, <1>7, <1>8, <2>1, <2>4, KnowledgeHanded DEF key1
  <2>. QED BY <1>1, <2>4, <2>5 DEF key1
<1>14. PendingInv' /\ EstimatorInv' /\ KnowledgeInv'
  <2>1. Again' = 0
    BY <1>4 DEF Again, Callers
  <2>. QED BY <1>1, <1>5, <1>11, <1>13, <2>1 DEF PendingInv, EstimatorInv, KnowledgeInv
<1>15. PICK f :
         /\ f \in 1 .. p.id /\ first' = [first EXCEPT ![c] = f]
         /\ \A s \in 1 .. old :
              s < f => Pose(trajectory', s) = Pose(trajectory, s)
  <2>1. KnowledgeOk(trajectory, old, keyframeOf, offset, again)
    BY DEF KnowledgeInv, old, again
  <2>2. p.keyframe # p.id => trajectory'.keyframe[p.keyframe] # 0
    <3>1. p.keyframe \in 1 .. p.id
      BY <1>6, <1>7 DEF Publication, Id
    <3>. QED BY <1>6, <1>13, <3>1 DEF KnowledgeOk
  <2>3. /\ Affected(trajectory, p) \subseteq 1 .. p.id
        /\ p.id \in Affected(trajectory, p)
        /\ \A s \in 1 .. old : s \notin Affected(trajectory, p)
                               => Pose(trajectory', s) = Pose(trajectory, s)
    BY <1>1, <1>6, <1>7, <1>9, <2>1, <2>2, AffectedIs
  <2>4. /\ Min(Affected(trajectory, p)) \in Affected(trajectory, p)
        /\ \A s \in Affected(trajectory, p) : Min(Affected(trajectory, p)) <= s
    BY <1>7, <2>3, FirstOf
  <2>. DEFINE f == Min(Affected(trajectory, p))
              A == Affected(trajectory, p)
  <2>5. f \in A /\ \A s \in A : f <= s
    BY <2>4
  <2>6. A \subseteq 1 .. p.id
        /\ \A s \in 1 .. old : s \notin A => Pose(trajectory', s) = Pose(trajectory, s)
    BY <2>3
  <2>7. first' = [first EXCEPT ![c] = f]
    BY <1>1
  <2>. HIDE DEF f, A
  <2>8. f \in 1 .. p.id
    BY <2>5, <2>6
  <2>9. \A s \in 1 .. old : s < f => s \notin A
    BY <1>7, <2>5, <2>8
  <2>. QED BY <2>6, <2>7, <2>8, <2>9
<1>16. PublisherTypes'
  <2>1. f \in Nat
    BY <1>7, <1>15
  <2>2. first' \in [Callers -> Nat]
    BY <1>15, <2>1 DEF PublisherTypes
  <2>. QED BY <1>1, <1>10, <2>2 DEF PublisherTypes
<1>17. CallerInv'
  BY <1>1, <1>2 DEF CallerInv, Callers
<1>18. first'[c] = f /\ hand'[c] = p
  BY <1>1, <1>15 DEF PublisherTypes
<1>19. /\ \A g : Shown(g)
       /\ \A g : Shown(g)' => g < SegmentOf(f)
  <2>1. \A g : Shown(g)
    BY <1>4 DEF Shown
  <2>. QED BY <1>2, <1>18, <2>1 DEF Shown
<1>20. MarkerInv'
  <2>0. /\ f \in Nat /\ f <= p.id
        /\ \A s \in Nat : SegmentOf(s) \in Nat
        /\ \A s, t \in Nat : s <= t => SegmentOf(s) <= SegmentOf(t)
    BY <1>7, <1>15, SegmentBounds, SegmentMonotone
  <2>1. \A s \in Nat : SegmentOf(s) < SegmentOf(f) => s < f
    <3>1. ASSUME NEW s \in Nat, SegmentOf(s) < SegmentOf(f), ~(s < f) PROVE FALSE
      <4>1. f <= s
        BY <2>0, <3>1
      <4>2. SegmentOf(f) <= SegmentOf(s)
        BY <2>0, <4>1
      <4>. QED BY <2>0, <3>1, <4>2
    <3>. QED BY <3>1
  <2>2. \A o \in Callers : at'[o] = "drawing" =>
          /\ first'[o] \in 1 .. p.id
          /\ p.id \in hand'[o].updated /\ hand'[o].updated \subseteq 1 .. p.id
    BY <1>2, <1>4, <1>6, <1>15, <1>18
  <2>3. ASSUME NEW g \in Segments
        PROVE  /\ \A s \in DOMAIN marker[g] : s \in 1 .. old /\ SegmentOf(s) <= g
               /\ g > SegmentOf(old) => DOMAIN marker[g] = {}
               /\ \A s \in DOMAIN marker[g] : marker[g][s] = Pose(trajectory, s)
    BY <1>19 DEF MarkerInv, old
  <2>4. \A s \in 1 .. old : s \in DOMAIN marker[SegmentOf(s)]
    BY <1>19 DEF MarkerInv, old
  <2>5. ASSUME NEW g \in Segments
        PROVE  /\ \A s \in DOMAIN marker[g] : s \in 1 .. p.id /\ SegmentOf(s) <= g
               /\ g > SegmentOf(p.id) => DOMAIN marker[g] = {}
               /\ g < SegmentOf(f) => \A s \in DOMAIN marker[g] :
                                        marker[g][s] = Pose(trajectory', s)
    <3>1. g \in Nat /\ SegmentOf(old) <= SegmentOf(p.id) /\ SegmentOf(old) \in Nat
          /\ SegmentOf(p.id) \in Nat /\ SegmentOf(f) \in Nat
      <4>1. SegmentOf(MaxStates) \in Nat
        BY <1>7, <2>0
      <4>. QED BY <1>7, <1>9, <2>0, <4>1 DEF Segments
    <3>2. g > SegmentOf(p.id) => DOMAIN marker[g] = {}
      BY <2>3, <3>1
    <3>3. \A s \in DOMAIN marker[g] : s \in 1 .. p.id /\ SegmentOf(s) <= g
      BY <1>7, <1>9, <2>3
    <3>4. ASSUME g < SegmentOf(f), NEW s \in DOMAIN marker[g]
          PROVE  marker[g][s] = Pose(trajectory', s)
      <4>1. s \in 1 .. old /\ SegmentOf(s) <= g /\ marker[g][s] = Pose(trajectory, s)
        BY <2>3
      <4>2. s \in Nat /\ SegmentOf(s) \in Nat
        BY <1>7, <2>0, <4>1
      <4>3. SegmentOf(s) < SegmentOf(f)
        BY <3>1, <3>4, <4>1, <4>2
      <4>4. s < f
        BY <2>1, <4>2, <4>3
      <4>. QED BY <1>15, <4>1, <4>4
    <3>. QED BY <3>2, <3>3, <3>4
  <2>6. \A s \in 1 .. p.id :
          SegmentOf(s) < SegmentOf(f) => s \in DOMAIN marker[SegmentOf(s)]
    <3>1. ASSUME NEW s \in 1 .. p.id, SegmentOf(s) < SegmentOf(f)
          PROVE  s \in 1 .. old
      <4>1. s \in Nat /\ s > 0
        BY <1>7
      <4>2. s < f
        BY <2>1, <3>1, <4>1
      <4>. QED BY <1>7, <1>9, <2>0, <4>1, <4>2
    <3>. QED BY <2>4, <3>1
  <2>7. \A s : Pose(trajectory, s)' = Pose(trajectory', s)
    BY DEF Pose
  <2>. QED BY <1>1, <1>11, <1>19, <2>2, <2>5, <2>6, <2>7 DEF MarkerInv
<1>21. /\ FedStamp' = FedStamp /\ FedStamp \in Nat /\ p.id \in 1 .. current
       /\ Time(p.id) \in 1 .. FedStamp /\ FedStamp <= LastStamp
       /\ LastStamp \in Nat /\ Forget \in Nat /\ Forget > 0
  <2>1. FedStamp' = FedStamp
    BY <1>1 DEF FedStamp
  <2>2. FedStamp \in Nat /\ FedStamp <= LastStamp /\ LastStamp \in Nat
        /\ Forget \in Nat /\ Forget > 0
    BY FedBeyond, PublisherSizes
  <2>3. p.id \in 1 .. current
    BY <1>7, <1>8
  <2>4. Time(p.id) \in Nat /\ Time(p.id) > 0 /\ Time(p.id) <= FedStamp
    BY <2>3, FedBeyond
  <2>. QED BY <2>1, <2>2, <2>3, <2>4
<1>22. trajectory'.imu = {t \in 1 .. FedStamp : Time(p.id) - t < Forget}
  <2>1. trajectory.imu = {t \in 1 .. FedStamp : old # 0 => Time(old) - t < Forget}
    BY DEF SensorInv, old
  <2>2. Time(old) \in Nat /\ Time(old) <= Time(p.id) /\ Time(p.id) \in Nat
    BY <1>7, <1>9, StateTimes
  <2>3. \A t \in 1 .. FedStamp : Time(p.id) - t < Forget => Time(old) - t < Forget
    BY <1>21, <2>2
  <2>. QED BY <1>10, <2>1, <2>3
<1>23. SensorInv'
  <2>1. p.id # 0
    BY <1>7
  <2>. QED BY <1>1, <1>2, <1>11, <1>21, <1>22, <2>1 DEF SensorInv, sensor
<1>24. PropagationInv'
  <2>. DEFINE imu == trajectory'.imu
              start == Time(p.id)
              end == FedStamp
  <2>1. Max(trajectory'.all) = p.id
    <3>1. p.id \in 1 .. p.id /\ \A t \in 1 .. p.id : t \in Nat /\ t <= p.id
      BY <1>7
    <3>2. Max(1 .. p.id) = p.id
      BY <1>7, <3>1, MaxWithLast
    <3>. QED BY <1>10, <3>2
  <2>2. /\ end \in Nat /\ start \in Nat /\ start <= end
        /\ start \in 1 .. end /\ end \in 1 .. end /\ start \in Stamps
    BY <1>21 DEF Stamps
  <2>3. imu = {t \in 1 .. end : start - t < Forget}
    BY <1>22
  <2>. HIDE DEF imu, start, end
  <2>4. start \in imu /\ end \in imu
    BY <1>21, <2>2, <2>3
  <2>5. imu \in SUBSET Stamps /\ \A t \in imu : t \in Nat /\ t <= end
    BY <1>21, <2>2, <2>3 DEF Stamps, end
  <2>6. Max(imu) = end
    BY <2>2, <2>4, <2>5, MaxWithLast
  <2>7. trajectory'.live = AppendTo(Propagator(start), imu, end)
    <3>. DEFINE kept == {t \in trajectory.imu : Time(p.id) - t < Forget}
    <3>1. trajectory'.live = IF kept = {} THEN Propagator(Time(p.id))
                             ELSE AppendTo(Propagator(Time(p.id)), kept, Max(kept))
      BY <1>1, <1>6, <1>7, UpdatedIs
    <3>2. imu = kept
      BY <1>10 DEF imu
    <3>. HIDE DEF kept
    <3>. QED BY <2>4, <2>6, <3>1, <3>2 DEF start
  <2>8. /\ trajectory'.live.start = start /\ trajectory'.live.end = end
        /\ \A t \in Stamps :
             trajectory'.live.count[t] = IF start < t /\ t <= end THEN 1 ELSE 0
    <3>1. LET r == AppendTo(Propagator(start), imu, end) IN
            /\ r.start = start /\ r.end = end
            /\ \A t \in Stamps :
                 r.count[t] = IF start < t /\ t <= end THEN 1 ELSE 0
      BY <2>2, <2>4, <2>5, FreshPropagation
    <3>. QED BY <2>7, <3>1
  <2>9. PropagatedOnce(trajectory')
    BY <2>1, <2>6, <2>8 DEF PropagatedOnce, start, imu
  <2>. QED BY <2>9 DEF PropagationInv, PropagatedOnce
<1>. QED BY <1>12, <1>14, <1>16, <1>17, <1>20, <1>23, <1>24

(* Nothing is published at the start.                                        *)
LEMMA PublisherStarts ==
  ASSUME Init
  PROVE  PublisherGood
<1>1. /\ number = 0 /\ current = 0 /\ queue = <<>> /\ lost = {}
      /\ phase = "running"
      /\ keyframeOf = [s \in Id |-> 0] /\ moved = [s \in Id |-> 0]
      /\ offset = [s \in Id |-> 0]
      /\ at = [t \in Threads |-> "idle"]
      /\ hand = [c \in Callers |-> NoPublication] /\ first = [c \in Callers |-> 1]
      /\ clock = 0 /\ buffered = {} /\ trajectory = Empty
      /\ marker = [g \in Segments |-> <<>>]
  BY DEF Init
<1>2. /\ at["publishing"] = "idle" /\ at["stopping"] = "idle" /\ at["imu"] = "idle"
      /\ \A c \in Callers : at[c] = "idle"
  BY <1>1 DEF Threads, Callers
<1>3. /\ trajectory.keyframe = [s \in Id |-> 0] /\ trajectory.of = [s \in Id |-> 0]
      /\ trajectory.relative = [s \in Id |-> 0] /\ trajectory.all = {}
      /\ trajectory.imu = {} /\ trajectory.live = Propagator(0)
  BY <1>1 DEF Empty
<1>4. Handled = 0 /\ FedStamp = 0
  <2>1. Cardinality({}) = 0
    BY FS_EmptySet
  <2>. QED BY <1>1, <1>3, <2>1 DEF Handled, FedStamp
<1>5. ~Busy("publishing") /\ ~Busy("stopping") /\ Pending = <<>>
  BY <1>1, <1>2 DEF Busy, Pending
<1>6. /\ MaxStates \in Nat /\ LastStamp \in Nat /\ 0 .. MaxStates # {} /\ 1 \in Id
      /\ MaxMissed \in Nat
  BY PublisherSizes DEF Id
<1>7. PublisherTypes
  <2>1. number \in Nat /\ current \in 0 .. MaxStates
    BY <1>1, <1>6
  <2>2. /\ keyframeOf \in [Id -> Nat] /\ moved \in [Id -> Nat]
        /\ offset \in [Id -> Nat] /\ queue \in Seq(Publication)
        /\ phase \in {"running", "shut down", "published"}
        /\ at \in [Threads -> {"idle", "waiting", "setting", "inside", "drawing"}]
        /\ first \in [Callers -> Nat] /\ DOMAIN marker = Segments
    BY <1>1
  <2>3. NoPublication \in [number : Nat, id : Id, keyframe : Id,
                           updated : SUBSET Id]
    BY <1>6 DEF NoPublication
  <2>4. hand \in [Callers -> [number : Nat, id : Id, keyframe : Id,
                              updated : SUBSET Id]]
    BY <1>1, <2>3
  <2>5. Propagator(0) \in Propagation
    BY DEF Propagator, Propagation
  <2>6. trajectory \in TrajectoryRecord
    BY <1>1, <2>5 DEF Empty, TrajectoryRecord
  <2>. QED BY <2>1, <2>2, <2>4, <2>6 DEF PublisherTypes
<1>8. CallerInv
  BY <1>1, <1>2 DEF CallerInv
<1>9. SequenceInv
  BY <1>1, <1>3, <1>4, <1>5 DEF SequenceInv, InOrder
<1>10. PendingInv
  BY <1>5 DEF PendingInv, PendingOk
<1>11. EstimatorInv
  BY <1>1, <1>5 DEF EstimatorInv, EstimatorOk
<1>12. KnowledgeInv
  BY <1>3, <1>4 DEF KnowledgeInv, KnowledgeOk
<1>13. MarkerInv
  BY <1>1, <1>2, <1>4 DEF MarkerInv
<1>14. SensorInv
  <2>1. 0 + 1 .. 0 = {} /\ 1 .. 0 = {}
    OBVIOUS
  <2>. QED BY <1>1, <1>2, <1>3, <1>4, <1>6, <2>1 DEF SensorInv
<1>15. PropagationInv
  BY <1>4 DEF PropagationInv
<1>. QED BY <1>7, <1>8, <1>9, <1>10, <1>11, <1>12, <1>13, <1>14, <1>15
     DEF PublisherGood

(* No step goes on when the trajectory is torn, and none finds again what is *)
(* lost; every other step keeps the parts together.                          *)
LEMMA PublisherSteps ==
  ASSUME PublisherInv, [Next]_vars
  PROVE  PublisherInv'
<1>1. CASE UNCHANGED vars
  <2>1. /\ torn' = torn /\ lost' = lost
        /\ UNCHANGED <<number, current, keyframeOf, moved, offset, queue, phase,
                       at, hand, first, clock, buffered, trajectory, marker>>
        /\ UNCHANGED sensor
    BY <1>1 DEF vars, estimator, callers, sensor
  <2>2. ASSUME PublisherGood PROVE PublisherGood'
    <3>1. Pending' = Pending /\ (Busy("stopping")' <=> Busy("stopping")) /\ SameStates
      BY <2>1 DEF Pending, Busy, SameStates
    <3>2. SequenceInv' /\ PendingInv' /\ EstimatorInv' /\ KnowledgeInv'
      BY <2>1, <2>2, <3>1, NothingPending DEF PublisherGood
    <3>3. MarkerInv' /\ SensorInv' /\ PropagationInv'
      BY <2>1, <2>2, <3>1, NothingDrawn, NothingSensed, NothingFed DEF PublisherGood
    <3>4. PublisherTypes' /\ CallerInv'
      BY <2>1, <2>2 DEF PublisherGood, PublisherTypes, CallerInv
    <3>. QED BY <3>2, <3>3, <3>4 DEF PublisherGood
  <2>. QED BY <2>1, <2>2 DEF PublisherInv
<1>2. CASE Next
  <2>1. ~torn
    BY <1>2 DEF Next, Publish, PublishFinal, ShutdownQueue, Take, Call, Test, Lock,
                UpdateTrajectory, DrawPath, ReceiveImu, FeedImu, Go
  <2>2. lost \subseteq lost'
    BY <1>2 DEF Next, Publish, PublishFinal, ShutdownQueue, Take, Call, Test, Lock,
                UpdateTrajectory, DrawPath, ReceiveImu, FeedImu, Go, estimator
  <2>3. ASSUME lost' = {} PROVE PublisherGood'
    <3>1. lost = {} /\ PublisherGood
      BY <2>1, <2>2, <2>3 DEF PublisherInv
    <3>2. CASE \E keyframe \in Id, others \in Moves : Publish(keyframe, others)
      BY <2>3, <3>1, <3>2, PublishStep
    <3>3. CASE \E keyframe \in Id, others \in Since : PublishFinal(keyframe, others)
      BY <3>1, <3>3, PublishFinalStep
    <3>4. CASE ShutdownQueue
      BY <2>3, <3>1, <3>4, ShutdownStep
    <3>5. CASE Take
      BY <3>1, <3>5, TakeStep
    <3>6. ASSUME NEW c \in Callers, Call(c) PROVE PublisherGood'
      <4>1. c \in Threads
        BY DEF Threads
      <4>2. CASE Test(c) \/ Lock(c)
        BY <3>1, <4>1, <4>2, LockingStep
      <4>3. CASE UpdateTrajectory(c)
        BY <3>1, <4>3, UpdateStep
      <4>4. CASE DrawPath(c)
        BY <3>1, <4>4, DrawStep
      <4>. QED BY <3>6, <4>2, <4>3, <4>4 DEF Call
    <3>7. CASE ReceiveImu
      BY <3>1, <3>7, ReceiveStep
    <3>8. CASE Lock("imu")
      BY <3>1, <3>8, LockingStep DEF Threads
    <3>9. CASE FeedImu
      BY <3>1, <3>9, FeedStep
    <3>. QED BY <1>2, <3>2, <3>3, <3>4, <3>5, <3>6, <3>7, <3>8, <3>9 DEF Next
  <2>. QED BY <2>3 DEF PublisherInv
<1>. QED BY <1>1, <1>2

(* The parts fit, unless the trajectory is torn or a publication is lost.    *)
THEOREM PublisherFits == Spec => []PublisherInv
<1>1. Init => PublisherInv
  BY PublisherStarts DEF PublisherInv
<1>2. PublisherInv /\ [Next]_vars => PublisherInv'
  BY PublisherSteps
<1>. QED BY <1>1, <1>2, PTL DEF Spec

(* When every publication was handled and none was lost, the path shows      *)
(* every state where its keyframe was last moved to, although only the       *)
(* segments from the first affected state on are published again             *)
(* (publishEstimatorUpdate, Trajectory::update).                             *)
LEMMA ShownThen == PublisherInv => PathCurrent
<1>1. SUFFICES ASSUME PublisherInv, Quiet
               PROVE  /\ \A s \in 1 .. current : s \in DOMAIN marker[SegmentOf(s)]
                      /\ \A g \in Segments : \A s \in DOMAIN marker[g] :
                           marker[g][s] = <<moved[keyframeOf[s]], offset[s]>>
  BY DEF PathCurrent
<1>2. /\ PublisherTypes /\ SequenceInv /\ EstimatorInv /\ KnowledgeInv /\ MarkerInv
      /\ queue = <<>> /\ \A c \in Callers : at[c] = "idle"
  BY <1>1 DEF Quiet, PublisherInv, PublisherGood
<1>3. Pending = <<>> /\ ~Busy("stopping") /\ ~Busy("publishing")
  BY <1>2 DEF Pending, Busy, Callers
<1>4. Handled = current /\ current \in Nat /\ Again = 0
  BY <1>2, <1>3, HandledIs DEF SequenceInv, InOrder, Again
<1>5. \A g : Shown(g)
  BY <1>2 DEF Shown
<1>6. \A s \in 1 .. current : s \in DOMAIN marker[SegmentOf(s)]
  BY <1>2, <1>4, <1>5 DEF MarkerInv
<1>7. ASSUME NEW s \in 1 .. current, keyframeOf[s] = s
      PROVE  offset[s] = 0 /\ moved[s] = trajectory.keyframe[s]
  <2>1. offset[s] = 0 /\ LastMove(<<>>, trajectory.keyframe, Len(<<>>), s, moved[s])
    BY <1>2, <1>3, <1>7 DEF EstimatorInv, EstimatorOk
  <2>2. 1 .. Len(<<>>) = {}
    OBVIOUS
  <2>. QED BY <2>1, <2>2 DEF LastMove
<1>8. ASSUME NEW s \in 1 .. current
      PROVE  Pose(trajectory, s) = <<moved[keyframeOf[s]], offset[s]>>
  <2>1. /\ keyframeOf[s] = s <=> trajectory.keyframe[s] # 0
        /\ keyframeOf[s] # s /\ s # 0 =>
             trajectory.of[s] = keyframeOf[s] /\ trajectory.relative[s] = offset[s]
    BY <1>2, <1>4 DEF KnowledgeInv, KnowledgeOk
  <2>2. keyframeOf[s] \in 1 .. s /\ keyframeOf[keyframeOf[s]] = keyframeOf[s]
    BY <1>2 DEF EstimatorInv, EstimatorOk
  <2>3. s # 0 /\ keyframeOf[s] \in 1 .. current
    BY <1>4, <2>2
  <2>4. CASE keyframeOf[s] = s
    BY <1>7, <2>1, <2>4 DEF Pose
  <2>5. CASE keyframeOf[s] # s
    <3>1. moved[keyframeOf[s]] = trajectory.keyframe[keyframeOf[s]]
      BY <1>7, <2>2, <2>3
    <3>. QED BY <2>1, <2>3, <2>5, <3>1 DEF Pose
  <2>. QED BY <2>4, <2>5
<1>9. ASSUME NEW g \in Segments, NEW s \in DOMAIN marker[g]
      PROVE  marker[g][s] = <<moved[keyframeOf[s]], offset[s]>>
  BY <1>2, <1>4, <1>5, <1>8 DEF MarkerInv
<1>. QED BY <1>6, <1>9

(* As a theorem: the path that is shown follows the estimator.               *)
THEOREM PathFollows == Spec => []PathCurrent
BY PublisherFits, ShownThen, PTL

(* The pose that is predicted between two frames went over every IMU         *)
(* measurement since the newest state once, also those that waited for the   *)
(* trajectory's lock (realtimePredictAndPublish, addImuMeasurement).         *)
THEOREM PredictedOnce == Spec => []PredictionExact
<1>1. PublisherInv => PredictionExact
  <2>1. ASSUME PublisherGood, trajectory.all # {} PROVE PropagatedOnce(trajectory)
    BY <2>1, HandledIs DEF PublisherGood, PropagationInv
  <2>. QED BY <2>1 DEF PublisherInv, PredictionExact
<1>. QED BY <1>1, PublisherFits, PTL
=============================================================================
