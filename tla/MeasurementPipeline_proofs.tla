--------------------- MODULE MeasurementPipeline_proofs ---------------------
(* MeasurementPipeline for every stream and every size of the queues: the    *)
(* exclusive use of the estimator, type correctness, the account of the      *)
(* images, the order of the publications, the time each one covers, and what *)
(* is left when a blocking dataset has ended.                                *)
EXTENDS MeasurementPipeline, FiniteSetTheorems, SequenceTheorems,
        WellFoundedInduction, TLAPS

(* ------------------------------------------------------------------------- *)
(* The estimator.  Only Match launches an optimisation, and it leaves.       *)

JoinedAtStop == {"final", "finalCall", "finalDone", "joinPublisher", "stopped"}

EstimatorInv == pc \in {"match"} \cup JoinedAtStop => opt = "none"

(* Init satisfies the invariant and every step of any thread keeps it.       *)
LEMMA EstimatorInvariant == Spec => []EstimatorInv
<1>1. Init => EstimatorInv
  BY DEF Init, EstimatorInv
<1>2. EstimatorInv /\ [Next]_vars => EstimatorInv'
  <2>. SUFFICES ASSUME EstimatorInv, [Next]_vars PROVE EstimatorInv'
    OBVIOUS
  <2>. USE DEF EstimatorInv, JoinedAtStop
  <2>1. CASE Sensors \/ SenseImu \/ SenseImage \/ Publisher
    BY <2>1 DEF Sensors, ReadImu, EndOfImu, ReadImage, SenseImu, SenseImage,
                Publisher, TakePublication, CallBack
  <2>2. CASE Process
    BY <2>2 DEF Process, PeekImu, CopyImage, JoinIdle, DropTooOld, CheckBack,
         CollectImu, PopImage, JoinOpt, Match, MatchFails, Return
  <2>3. CASE Stop
    BY <2>3 DEF Stop, AppLoop, JoinLast, FinalImport, FinalCallBack, Final,
       JoinPublisher
  <2>4. CASE Optimise
    BY <2>4 DEF Optimise, OptimisePublish, Marginalise
  <2>5. CASE Stopped \/ UNCHANGED vars
    BY <2>5 DEF Stopped, vars
  <2>. QED BY <2>1, <2>2, <2>3, <2>4, <2>5 DEF Next
<1>. QED BY <1>1, <1>2, PTL DEF Spec

(* The optimisation thread is joined on every way to the matcher and to the  *)
(* final import (processFrame, stopThreading): neither shares the estimator. *)
THEOREM EstimatorNeverShared == Spec => []EstimatorExclusive
<1>1. EstimatorInv => EstimatorExclusive
  BY DEF EstimatorInv, JoinedAtStop, EstimatorExclusive, Optimising
<1>. QED BY <1>1, EstimatorInvariant, PTL

(* ------------------------------------------------------------------------- *)
(* Types                                                                     *)

(* A dropping push keeps the elements' type and respects the size.           *)
LEMMA PushDroppingType ==
  ASSUME NEW S, NEW q \in Seq(S), NEW v \in S, NEW cap \in Nat \ {0},
         Len(q) <= cap
  PROVE  /\ PushDropping(q, v, cap) \in Seq(S)
         /\ Len(PushDropping(q, v, cap)) <= cap
         /\ PushDropping(q, v, cap) # <<>>
<1>1. CASE Len(q) < cap
  BY <1>1 DEF PushDropping
<1>2. CASE Len(q) = cap
  <2>1. q # <<>> /\ Tail(q) \in Seq(S) /\ Len(Tail(q)) = Len(q) - 1
    BY <1>2
  <2>. QED BY <1>2, <2>1 DEF PushDropping
<1>. QED BY <1>1, <1>2

(* A non-empty set of indices of a sequence has a largest element.           *)
LEMMA LargestIndex ==
  ASSUME NEW S, NEW d \in Seq(S), NEW I \in SUBSET DOMAIN d, I # {}
  PROVE  \E i \in I : \A j \in I : j <= i
<1>. DEFINE Back == {Len(d) - i : i \in I}
<1>1. I \subseteq 1 .. Len(d) /\ Len(d) \in Nat
  OBVIOUS
<1>2. Back \subseteq Nat /\ Back # {}
  BY <1>1
<1>3. \E n \in Back : \A m \in Back : n <= m
  <2>. HIDE DEF Back
  <2>1. PICK n \in Back : \A m \in Back : <<m, n>> \notin OpToRel(<, Nat)
    BY <1>2, WFMin, NatLessThanWellFounded
  <2>2. ASSUME NEW m \in Back PROVE n <= m
    <3>1. m \in Nat /\ n \in Nat
      BY <1>2
    <3>2. ~(m < n)
      BY <2>1, <3>1 DEF OpToRel
    <3>. QED BY <3>1, <3>2
  <2>. QED BY <2>2
<1>4. PICK i \in I : \A m \in Back : Len(d) - i <= m
  BY <1>3
<1>5. ASSUME NEW j \in I PROVE j <= i
  <2>1. Len(d) - i <= Len(d) - j
    BY <1>4
  <2>. QED BY <1>1, <2>1
<1>. QED BY <1>5

(* Trimming leaves a sequence of samples.                                    *)
LEMMA TrimType ==
  ASSUME NEW S, NEW d \in Seq(S), NEW t
  PROVE  Trim(d, t) \in Seq(S)
<1>. DEFINE old == {i \in DOMAIN d : d[i] <= t - Overlap}
            k == CHOOSE i \in old : \A j \in old : j <= i
<1>1. CASE old = {}
  BY <1>1 DEF Trim
<1>2. CASE old # {}
  <2>1. Trim(d, t) = SubSeq(d, k, Len(d))
    BY <1>2 DEF Trim
  <2>2. \E i \in old : \A j \in old : j <= i
    BY <1>2, LargestIndex
  <2>3. k \in 1 .. Len(d)
    BY <2>2
  <2>4. \A i \in k .. Len(d) : d[i] \in S
    BY <2>3
  <2>. HIDE DEF k
  <2>. QED BY <2>1, <2>3, <2>4, SubSeqProperties
<1>. QED BY <1>1, <1>2

(* What the types need besides themselves: a data set's reader has an image  *)
(* left to read, processFrame has an image in hand, and what is optimised or *)
(* published at the end is a state.                                          *)
Working == {"tooOld", "checkBack", "collect", "detect", "joinOpt", "match"}

ReaderSupplied  == blocking /\ reader # "done" => nextFrame <= Len(FrameTimes)
ProcessSupplied == /\ pc \in Working => frame \in Images
                   /\ opt = "optimise" => current \in Images
FinalSupplied   == /\ initialised => current \in Images
                   /\ pc = "finalCall" => initialised

(* The images are positive time stamps, and the bounds are positive.         *)
LEMMA Bounds ==
  /\ Len(FrameTimes) \in Nat \ {0} /\ FrameTimes \in Seq(Images)
  /\ \A i \in 1 .. Len(FrameTimes) : FrameTimes[i] \in Images
  /\ Images \subseteq Nat \ {0}
  /\ LastImu \in Nat \ {0} /\ CameraCap \in Nat \ {0} /\ ImuCap \in Nat \ {0}
  /\ PublicationCap \in Nat \ {0}
<1>1. FrameTimes \in Seq(Nat \ {0}) /\ FrameTimes # <<>>
  BY StreamAssumption
<1>2. Len(FrameTimes) \in Nat \ {0} /\ DOMAIN FrameTimes = 1 .. Len(FrameTimes)
  BY <1>1
<1>3. \A i \in 1 .. Len(FrameTimes) : FrameTimes[i] \in Images
  BY <1>2 DEF Images
<1>4. Images \subseteq Nat \ {0}
  BY <1>1, <1>2 DEF Images
<1>5. FrameTimes \in Seq(Images)
  BY <1>1, <1>2, <1>3, IsASeq
<1>6. /\ LastImu \in Nat \ {0} /\ CameraCap \in Nat \ {0}
      /\ ImuCap \in Nat \ {0} /\ PublicationCap \in Nat \ {0}
  BY StreamAssumption
<1>. QED BY <1>2, <1>3, <1>4, <1>5, <1>6

(* -- the sensor side ------------------------------------------------------ *)

SensorInv == SensorType /\ ReaderSupplied

(* The sensors' types; a data set's reader never runs past its images.       *)
LEMMA SensorInvariant == Spec => []SensorInv
<1>. USE Bounds DEF SensorInv, SensorType, ReaderSupplied
<1>1. Init => SensorInv
  BY StreamAssumption DEF Init
<1>2. SensorInv /\ [Next]_vars => SensorInv'
  <2>. SUFFICES ASSUME SensorInv, [Next]_vars PROVE SensorInv'
    OBVIOUS
  <2>1. CASE Sensors
    BY <2>1 DEF Sensors, ReadImu, EndOfImu, ReadImage
  <2>2. CASE SenseImu \/ SenseImage
    BY <2>2 DEF SenseImu, SenseImage, MoreFrames
  <2>3. CASE AppLoop
    BY <2>3 DEF AppLoop
  <2>4. CASE Process
    <3>1. UNCHANGED <<blocking, sensors>>
      BY <2>4 DEF Process, PeekImu, CopyImage, JoinIdle, DropTooOld, CheckBack,
           CollectImu, PopImage, JoinOpt, Match, MatchFails
    <3>. QED BY <3>1 DEF sensors
  <2>5. CASE JoinLast \/ FinalImport \/ FinalCallBack \/ Final
             \/ JoinPublisher \/ Optimise \/ Publisher
    BY <2>5 DEF JoinLast, FinalImport, FinalCallBack, Final, JoinPublisher,
       Optimise, OptimisePublish,
         Marginalise, Publisher, TakePublication, CallBack, sensors
  <2>6. CASE Stopped \/ UNCHANGED vars
    BY <2>6 DEF Stopped, vars, sensors
  <2>. QED BY <2>1, <2>2, <2>3, <2>4, <2>5, <2>6 DEF Next, Stop
<1>. QED BY <1>1, <1>2, PTL DEF Spec

(* -- the queues into processFrame ----------------------------------------- *)

(* The queues' types and sizes.                                              *)
LEMMA InputInvariant == Spec => []InputType
<1>. USE Bounds DEF InputType
<1>1. Init => InputType
  BY DEF Init
<1>2. SensorInv /\ InputType /\ [Next]_vars => InputType'
  <2>. SUFFICES ASSUME SensorInv, InputType, [Next]_vars PROVE InputType'
    OBVIOUS
  <2>1. CASE ReadImu
    <3>1. nextImu \in Samples
      BY <2>1 DEF ReadImu, SensorInv, SensorType, Samples
    <3>2. imuQ' \in Seq(Samples) /\ Len(imuQ') <= ImuCap
      BY <2>1, <3>1 DEF ReadImu
    <3>. QED BY <2>1, <3>2 DEF ReadImu, process
  <2>2. CASE ReadImage
    <3>1. FrameTimes[nextFrame] \in Images
      BY <2>2 DEF ReadImage, SensorInv, SensorType, ReaderSupplied
    <3>2. camQ' \in Seq(Images) /\ Len(camQ') = 1
      BY <2>2, <3>1 DEF ReadImage
    <3>. QED BY <2>2, <3>2 DEF ReadImage, process
  <2>3. CASE SenseImu
    <3>1. nextImu \in Samples
      BY <2>3 DEF SenseImu, SensorInv, SensorType, Samples
    <3>2. imuQ' \in Seq(Samples) /\ Len(imuQ') <= ImuCap
      BY <2>3, <3>1, PushDroppingType DEF SenseImu
    <3>. QED BY <2>3, <3>2 DEF SenseImu, process
  <2>4. CASE SenseImage
    <3>1. FrameTimes[nextFrame] \in Images
      BY <2>4 DEF SenseImage, MoreFrames, SensorInv, SensorType
    <3>2. camQ' \in Seq(Images) /\ Len(camQ') <= CameraCap
      BY <2>4, <3>1, PushDroppingType DEF SenseImage
    <3>. QED BY <2>4, <3>2 DEF SenseImage, process
  <2>5. CASE PeekImu
    <3>1. imuSeen' = imuSeen \/ (imuQ # <<>> /\ imuSeen' = Head(imuQ))
      BY <2>5 DEF PeekImu
    <3>2. imuSeen' \in Samples \cup {0}
      BY <3>1
    <3>. QED BY <2>5, <3>2 DEF PeekImu
  <2>6. CASE DropTooOld \/ PopImage
    <3>1. camQ # <<>> /\ camQ' = Tail(camQ)
      BY <2>6 DEF DropTooOld, PopImage
    <3>2. camQ' \in Seq(Images) /\ Len(camQ') \in Nat /\ Len(camQ') < Len(camQ)
      BY <3>1
    <3>3. UNCHANGED <<blocking, imuQ, imuSeen, deque>>
      BY <2>6 DEF DropTooOld, PopImage
    <3>. QED BY <3>2, <3>3
  <2>7. CASE CollectImu
    <3>1. UNCHANGED <<blocking, camQ, imuSeen>>
      BY <2>7 DEF CollectImu
    <3>2. CASE UNCHANGED <<imuQ, deque>>
      BY <3>1, <3>2
    <3>3. CASE imuQ # <<>> /\ imuQ' = Tail(imuQ)
               /\ deque' = Append(deque, Head(imuQ))
      <4>1. imuQ' \in Seq(Samples) /\ Len(imuQ') <= ImuCap
        BY <3>3
      <4>2. Head(imuQ) \in Samples
        BY <3>3
      <4>3. deque' \in Seq(Samples)
        BY <3>3, <4>2
      <4>. QED BY <3>1, <4>1, <4>3
    <3>. QED BY <2>7, <3>2, <3>3 DEF CollectImu
  <2>8. CASE JoinOpt
    <3>1. deque' \in Seq(Samples)
      BY <2>8, TrimType DEF JoinOpt
    <3>. QED BY <2>8, <3>1 DEF JoinOpt
  <2>9. CASE EndOfImu \/ CopyImage \/ JoinIdle \/ CheckBack \/ Match
             \/ MatchFails
    <3>1. UNCHANGED <<blocking, camQ, imuQ, imuSeen, deque>>
      BY <2>9 DEF EndOfImu, CopyImage, JoinIdle, CheckBack, Match, MatchFails,
           process
    <3>. QED BY <3>1
  <2>10. CASE Stop \/ Optimise \/ Publisher \/ Stopped \/ UNCHANGED vars
    BY <2>10 DEF Stop, AppLoop, JoinLast, FinalImport, FinalCallBack, Final,
       JoinPublisher, Optimise,
         OptimisePublish, Marginalise, Publisher, TakePublication, CallBack,
         Stopped, vars, process
  <2>. QED BY <2>1, <2>2, <2>3, <2>4, <2>5, <2>6, <2>7, <2>8, <2>9, <2>10
           DEF Next, Sensors, Process
<1>. QED BY <1>1, <1>2, SensorInvariant, PTL DEF Spec

(* -- processFrame's own state --------------------------------------------- *)

ControlInv == ControlType /\ ProcessSupplied /\ FinalSupplied

(* The control's types; no step works on an image that is not there.         *)
LEMMA ControlInvariant == Spec => []ControlInv
<1>. USE Bounds DEF ControlInv, ControlType, ProcessSupplied, FinalSupplied,
             Working
<1>1. Init => ControlInv
  BY DEF Init
<1>2. EstimatorInv /\ InputType /\ ControlInv /\ [Next]_vars => ControlInv'
  <2>. SUFFICES ASSUME EstimatorInv, InputType, ControlInv, [Next]_vars
                PROVE  ControlInv'
    OBVIOUS
  <2>1. CASE Sensors \/ SenseImu \/ SenseImage \/ Publisher \/ Stopped
             \/ UNCHANGED vars
    <3>1. UNCHANGED <<pc, process, estimator, opt, ending>>
      BY <2>1 DEF Sensors, ReadImu, EndOfImu, ReadImage, SenseImu, SenseImage,
           Publisher, TakePublication, CallBack, Stopped, vars
    <3>. QED BY <3>1 DEF process, estimator, ending
  <2>2. CASE CopyImage
    <3>1. camQ # <<>> => Head(camQ) \in Images
      BY DEF InputType
    <3>2. CASE camQ = <<>>
      BY <2>2, <3>2 DEF CopyImage, Return, estimator, ending
    <3>3. CASE camQ # <<>>
      BY <2>2, <3>1, <3>3 DEF CopyImage, estimator, ending
    <3>. QED BY <3>2, <3>3
  <2>3. CASE PeekImu \/ JoinIdle \/ CheckBack
    <3>1. CASE PeekImu
      BY <3>1 DEF PeekImu, Return, estimator, ending
    <3>2. CASE JoinIdle
      BY <3>2 DEF JoinIdle, Return, estimator, ending
    <3>3. CASE CheckBack
      BY <3>3 DEF CheckBack, Return, estimator, ending
    <3>. QED BY <2>3, <3>1, <3>2, <3>3
  <2>4. CASE CollectImu
    BY <2>4 DEF CollectImu, Return, estimator, ending
  <2>5. CASE DropTooOld \/ PopImage
    <3>1. CASE DropTooOld
      BY <3>1 DEF DropTooOld, Return, estimator, ending
    <3>2. CASE PopImage
      BY <3>2 DEF PopImage, Return, estimator, ending
    <3>. QED BY <2>5, <3>1, <3>2
  <2>6. CASE JoinOpt
    BY <2>6 DEF JoinOpt, estimator, ending
  <2>7. CASE Match
    BY <2>7 DEF Match, Return, ending
  <2>8. CASE MatchFails
    BY <2>8 DEF MatchFails, Return, ending, EstimatorInv
  <2>9. CASE Stop
    <3>1. UNCHANGED <<process, current, initialised>>
      BY <2>9 DEF Stop, AppLoop, JoinLast, FinalImport, FinalCallBack, Final,
         JoinPublisher, estimator
    <3>2. CASE AppLoop
      BY <3>1, <3>2 DEF AppLoop, process
    <3>3. CASE JoinLast
      BY <3>1, <3>3 DEF JoinLast, process
    <3>4. CASE Final
      BY <3>1, <3>4 DEF Final, process
    <3>5. CASE FinalImport \/ FinalCallBack \/ JoinPublisher
      BY <3>1, <3>5 DEF FinalImport, FinalCallBack, JoinPublisher, process,
         ending
    <3>. QED BY <2>9, <3>2, <3>3, <3>4, <3>5 DEF Stop
  <2>10. CASE Optimise
    BY <2>10 DEF Optimise, OptimisePublish, Marginalise, process, estimator,
         ending
  <2>. QED BY <2>1, <2>2, <2>3, <2>4, <2>5, <2>6, <2>7, <2>8, <2>9, <2>10
           DEF Next, Process
<1>. QED BY <1>1, <1>2, EstimatorInvariant, InputInvariant, PTL DEF Spec

(* -- the publications and the history ------------------------------------- *)

(* The publications' types and the size of their queue.                      *)
LEMMA OutputInvariant == Spec => []OutputType
<1>. USE Bounds DEF OutputType
<1>1. Init => OutputType
  BY DEF Init
<1>2. ControlInv /\ OutputType /\ [Next]_vars => OutputType'
  <2>. SUFFICES ASSUME ControlInv, OutputType, [Next]_vars PROVE OutputType'
    OBVIOUS
  <2>1. CASE OptimisePublish
    <3>1. current \in Images
      BY <2>1 DEF OptimisePublish, ControlInv, ProcessSupplied
    <3>2. pubQ' \in Seq(Images) /\ Len(pubQ') <= PublicationCap
      BY <2>1, <3>1, PushDroppingType DEF OptimisePublish
    <3>. QED BY <2>1, <3>2 DEF OptimisePublish
  <2>2. CASE TakePublication
    <3>1. CASE queuesShut
      BY <2>2, <3>1 DEF TakePublication
    <3>2. CASE ~queuesShut
      <4>1. /\ pubQ # <<>> /\ pubQ' = Tail(pubQ) /\ inHand' = <<Head(pubQ)>>
            /\ publisher' = "calling" /\ UNCHANGED <<delivered, repeated>>
        BY <2>2, <3>2 DEF TakePublication
      <4>2. pubQ' \in Seq(Images) /\ Len(pubQ') <= PublicationCap
        BY <4>1
      <4>3. inHand' \in Seq(Images) /\ inHand' # <<>>
        BY <4>1
      <4>. QED BY <4>1, <4>2, <4>3
    <3>. QED BY <3>1, <3>2
  <2>3. CASE CallBack
    BY <2>3 DEF CallBack
  <2>4. CASE Sensors \/ SenseImu \/ SenseImage \/ AppLoop \/ JoinLast
             \/ FinalImport \/ Final \/ JoinPublisher \/ Marginalise
             \/ Stopped \/ UNCHANGED vars
    <3>1. UNCHANGED publish
      BY <2>4 DEF Sensors, ReadImu, EndOfImu, ReadImage, SenseImu, SenseImage,
           AppLoop, JoinLast, FinalImport, Final, JoinPublisher, Marginalise,
           Stopped, vars
    <3>. QED BY <3>1 DEF publish
  <2>5. CASE Process
    <3>1. UNCHANGED publish
      BY <2>5 DEF Process, PeekImu, CopyImage, JoinIdle, DropTooOld, CheckBack,
           CollectImu, PopImage, JoinOpt, Match, MatchFails
    <3>. QED BY <3>1 DEF publish
  <2>6. CASE FinalCallBack
    <3>1. /\ current \in Images /\ Len(delivered) \in Nat
          /\ repeated' = <<[state |-> current, after |-> Len(delivered)]>>
          /\ UNCHANGED <<pubQ, publisher, inHand, delivered>>
      BY <2>6 DEF FinalCallBack, ControlInv, FinalSupplied
    <3>2. ASSUME NEW r \in [state : Images, after : Nat]
          PROVE  <<r>> \in Seq([state : Images, after : Nat]) /\ Len(<<r>>) = 1
      OBVIOUS
    <3>3. [state |-> current, after |-> Len(delivered)]
            \in [state : Images, after : Nat]
      BY <3>1
    <3>. QED BY <3>1, <3>2, <3>3
  <2>. QED BY <2>1, <2>2, <2>3, <2>4, <2>5, <2>6
           DEF Next, Stop, Optimise, Publisher
<1>. QED BY <1>1, <1>2, ControlInvariant, PTL DEF Spec

(* The history's types.                                                      *)
LEMMA LedgerInvariant == Spec => []LedgerType
<1>. USE Bounds DEF LedgerType
<1>1. Init => LedgerType
  BY DEF Init
<1>2. ControlInv /\ LedgerType /\ [Next]_vars => LedgerType'
  <2>. SUFFICES ASSUME ControlInv, LedgerType, [Next]_vars PROVE LedgerType'
    OBVIOUS
  <2>1. CASE SenseImage
    BY <2>1 DEF SenseImage
  <2>2. CASE DropTooOld \/ PopImage
    <3>1. frame \in Images
      BY <2>2 DEF DropTooOld, PopImage, ControlInv, ProcessSupplied, Working
    <3>2. /\ handled' \in {handled, Append(handled, frame)}
          /\ tooOld' \in {tooOld, tooOld \cup {frame}}
          /\ UNCHANGED reported
      BY <2>2 DEF DropTooOld, PopImage
    <3>. QED BY <3>1, <3>2
  <2>3. CASE Sensors \/ SenseImu \/ Stop \/ Optimise \/ Publisher \/ Stopped
             \/ UNCHANGED vars
    <3>1. UNCHANGED ledger
      BY <2>3 DEF Sensors, ReadImu, EndOfImu, ReadImage, SenseImu, Stop,
           AppLoop, JoinLast, FinalImport, FinalCallBack, Final,
           JoinPublisher, Optimise, OptimisePublish,
           Marginalise, Publisher, TakePublication, CallBack, Stopped, vars
    <3>. QED BY <3>1 DEF ledger
  <2>4. CASE PeekImu \/ CopyImage \/ JoinIdle \/ CheckBack \/ CollectImu
             \/ JoinOpt \/ Match \/ MatchFails
    <3>1. UNCHANGED ledger
      BY <2>4 DEF PeekImu, CopyImage, JoinIdle, CheckBack, CollectImu, JoinOpt,
           Match, MatchFails
    <3>. QED BY <3>1 DEF ledger
  <2>. QED BY <2>1, <2>2, <2>3, <2>4 DEF Next, Process
<1>. QED BY <1>1, <1>2, ControlInvariant, PTL DEF Spec

(* All state is well-typed, and no queue outgrows the size it is pushed with *)
(* (addImages, addImuMeasurement, optimisePublishMarginalise).               *)
THEOREM TypeCorrect == Spec => []TypeOK
<1>1. SensorInv /\ InputType /\ ControlInv /\ OutputType /\ LedgerType
        => TypeOK
  BY DEF SensorInv, ControlInv, TypeOK
<1>. QED BY <1>1, SensorInvariant, InputInvariant, ControlInvariant,
            OutputInvariant, LedgerInvariant, PTL

(* ------------------------------------------------------------------------- *)
(* The image between its copy and its pop.                                   *)

Holding == pc \in {"tooOld", "checkBack", "collect", "detect"}

(* A data set's reader waits for an empty queue, a live sensor drops the     *)
(* front but adds its own image: when processFrame comes to pop the image it *)
(* has copied, PopBlocking finds one, behind a blocking reader the same one. *)
THEOREM PopNeverWaits == Spec => []PopReady
<1>1. Init => PopReady
  BY DEF Init, PopReady
<1>2. InputType /\ PopReady /\ [Next]_vars => PopReady'
  <2>. SUFFICES ASSUME InputType, PopReady, [Next]_vars PROVE PopReady'
    OBVIOUS
  <2>. USE DEF PopReady
  <2>1. CASE ReadImage
    BY <2>1 DEF ReadImage, process
  <2>2. CASE SenseImage
    <3>1. camQ' # <<>>
      BY <2>2 DEF SenseImage, PushDropping, InputType
    <3>. QED BY <2>2, <3>1 DEF SenseImage, process
  <2>3. CASE ReadImu \/ EndOfImu \/ SenseImu \/ Optimise \/ Publisher
             \/ Stopped \/ UNCHANGED vars
    BY <2>3 DEF ReadImu, EndOfImu, SenseImu, Optimise, OptimisePublish,
         Marginalise, Publisher, TakePublication, CallBack, Stopped, vars,
         process
  <2>4. CASE CopyImage
    BY <2>4 DEF CopyImage, Return
  <2>5. CASE PeekImu \/ CheckBack \/ CollectImu
    BY <2>5 DEF PeekImu, CheckBack, CollectImu, Return
  <2>6. CASE JoinIdle \/ DropTooOld \/ PopImage \/ JoinOpt \/ Match
             \/ MatchFails
    BY <2>6 DEF JoinIdle, DropTooOld, PopImage, JoinOpt, Match, MatchFails,
         Return
  <2>7. CASE Stop
    BY <2>7 DEF Stop, AppLoop, JoinLast, FinalImport, FinalCallBack, Final,
       JoinPublisher
  <2>. QED BY <2>1, <2>2, <2>3, <2>4, <2>5, <2>6, <2>7
           DEF Next, Sensors, Process
<1>. QED BY <1>1, <1>2, InputInvariant, PTL DEF Spec

(* ------------------------------------------------------------------------- *)
(* The account of the images.  LossReported alone is not inductive: the pop  *)
(* may remove another image than the copied one.  What saves the order is    *)
(* that the queue, the copied image and what is still to come all lie after  *)
(* every image that is done with.                                            *)

Beyond(done, old, x) == /\ \A k \in DOMAIN done : done[k] < x
                        /\ \A t \in old : t < x

OrderInv ==
  /\ Increasing(handled) /\ Increasing(camQ)
  /\ \A i \in DOMAIN camQ : Beyond(handled, tooOld, camQ[i])
  /\ Holding => /\ Beyond(handled, tooOld, frame)
                /\ \A i \in DOMAIN camQ : frame <= camQ[i]
  /\ \A j \in nextFrame .. Len(FrameTimes) :
       /\ Beyond(handled, tooOld, FrameTimes[j])
       /\ \A i \in DOMAIN camQ : camQ[i] < FrameTimes[j]
       /\ Holding => frame < FrameTimes[j]

CountInv ==
  /\ IsFiniteSet(tooOld)
  /\ nextFrame - 1 = Len(camQ) + Len(handled) + Cardinality(tooOld) + reported

AccountInv == OrderInv /\ CountInv

(* What the account needs of the types.                                      *)
Typed ==
  /\ nextFrame \in Nat \ {0} /\ camQ \in Seq(Nat) /\ handled \in Seq(Nat)
  /\ frame \in Nat /\ tooOld \subseteq Nat /\ reported \in Nat

(* Nothing has arrived and nothing is counted.                               *)
LEMMA AccountInit == Init => AccountInv
<1>. SUFFICES ASSUME Init PROVE AccountInv
  OBVIOUS
<1>1. CountInv
  BY FS_EmptySet DEF Init, CountInv
<1>2. OrderInv
  BY DEF Init, OrderInv, Beyond, Increasing, Holding
<1>. QED BY <1>1, <1>2 DEF AccountInv

(* The image times are natural numbers in increasing order.                  *)
LEMMA TimesIncrease ==
  /\ Len(FrameTimes) \in Nat
  /\ \A i \in 1 .. Len(FrameTimes) : FrameTimes[i] \in Nat
  /\ \A i, j \in 1 .. Len(FrameTimes) : i < j => FrameTimes[i] < FrameTimes[j]
BY StreamAssumption, Bounds

(* The terms of the sum are numbers.                                         *)
LEMMA Terms ==
  ASSUME CountInv, Typed
  PROVE  /\ nextFrame \in Nat /\ Len(camQ) \in Nat /\ Len(handled) \in Nat
         /\ Cardinality(tooOld) \in Nat /\ reported \in Nat
BY FS_CardinalityType DEF CountInv, Typed

(* An image arrives in a queue with room.                                    *)
LEMMA AccountArrival ==
  ASSUME AccountInv, Typed, nextFrame <= Len(FrameTimes),
         camQ' = Append(camQ, FrameTimes[nextFrame]),
         nextFrame' = nextFrame + 1, UNCHANGED <<pc, frame, ledger>>
  PROVE  AccountInv'
<1>1. CountInv'
  <2>1. Len(camQ') = Len(camQ) + 1
    BY DEF Typed
  <2>2. UNCHANGED <<handled, tooOld, reported>>
    BY DEF ledger
  <2>. QED BY <2>1, <2>2, Terms, SMTT(30) DEF AccountInv, CountInv
<1>2. OrderInv'
  BY TimesIncrease, SMTT(60)
     DEF AccountInv, Typed, ledger, OrderInv, Beyond, Increasing, Holding
<1>. QED BY <1>1, <1>2 DEF AccountInv

(* What Tail leaves of the queue.                                            *)
LEMMA TailOfQueue ==
  ASSUME Typed, OrderInv, camQ # <<>>
  PROVE  /\ Tail(camQ) \in Seq(Nat) /\ Len(Tail(camQ)) = Len(camQ) - 1
         /\ 1 \in DOMAIN camQ
         /\ \A i \in DOMAIN Tail(camQ) :
              /\ i + 1 \in DOMAIN camQ /\ Tail(camQ)[i] = camQ[i + 1]
              /\ camQ[1] < Tail(camQ)[i]
         /\ Increasing(Tail(camQ))
<1>1. /\ Tail(camQ) \in Seq(Nat) /\ Len(Tail(camQ)) = Len(camQ) - 1
      /\ 1 \in DOMAIN camQ
      /\ \A i \in DOMAIN Tail(camQ) :
           i \in Nat \ {0} /\ i + 1 \in DOMAIN camQ
           /\ Tail(camQ)[i] = camQ[i + 1]
  BY DEF Typed
<1>2. \A i, j \in DOMAIN camQ : i < j => camQ[i] < camQ[j]
  BY DEF OrderInv, Increasing
<1>3. \A i \in DOMAIN Tail(camQ) : camQ[1] < Tail(camQ)[i]
  BY <1>1, <1>2
<1>4. Increasing(Tail(camQ))
  BY <1>1, <1>2 DEF Increasing
<1>. QED BY <1>1, <1>3, <1>4

(* An image arrives and the front of the full queue is dropped and reported. *)
LEMMA AccountDrop ==
  ASSUME AccountInv, Typed, nextFrame <= Len(FrameTimes), camQ # <<>>,
         camQ' = Append(Tail(camQ), FrameTimes[nextFrame]),
         reported' = reported + 1, nextFrame' = nextFrame + 1,
         UNCHANGED <<pc, frame, handled, tooOld>>
  PROVE  AccountInv'
<1>1. CountInv'
  <2>1. Len(camQ') = Len(camQ)
    BY TailOfQueue DEF AccountInv
  <2>2. IsFiniteSet(tooOld') /\ Cardinality(tooOld') = Cardinality(tooOld)
    BY DEF AccountInv, CountInv
  <2>3. nextFrame' - 1
          = Len(camQ) + Len(handled) + Cardinality(tooOld) + (reported + 1)
    <3>1. nextFrame - 1
            = Len(camQ) + Len(handled) + Cardinality(tooOld) + reported
      BY DEF AccountInv, CountInv
    <3>2. /\ nextFrame \in Nat /\ Len(camQ) \in Nat /\ Len(handled) \in Nat
          /\ Cardinality(tooOld) \in Nat /\ reported \in Nat
      BY Terms DEF AccountInv
    <3>. QED BY <3>1, <3>2, SMTT(30)
  <2>. QED BY <2>1, <2>2, <2>3 DEF CountInv
<1>2. OrderInv'
  BY TimesIncrease, TailOfQueue, SMTT(60)
     DEF AccountInv, Typed, OrderInv, Beyond, Increasing, Holding
<1>. QED BY <1>1, <1>2 DEF AccountInv

(* The image in hand is done with, one way or the other, and the front of    *)
(* the queue is popped.                                                      *)
LEMMA AccountPop ==
  ASSUME AccountInv, Typed, Holding, camQ # <<>>, camQ' = Tail(camQ),
         \/ handled' = Append(handled, frame) /\ UNCHANGED tooOld
         \/ tooOld' = tooOld \cup {frame} /\ UNCHANGED handled,
         ~Holding', UNCHANGED <<nextFrame, reported>>
  PROVE  AccountInv'
<1>1. CountInv'
  <2>1. Len(camQ') = Len(camQ) - 1
    BY TailOfQueue DEF AccountInv
  <2>2. frame \notin tooOld
    BY DEF AccountInv, OrderInv, Beyond, Typed
  <2>3. CASE handled' = Append(handled, frame) /\ UNCHANGED tooOld
    <3>1. Len(handled') = Len(handled) + 1
      BY <2>3 DEF Typed
    <3>. QED BY <2>1, <2>3, <3>1, Terms DEF AccountInv, CountInv
  <2>4. CASE tooOld' = tooOld \cup {frame} /\ UNCHANGED handled
    <3>1. /\ IsFiniteSet(tooOld')
          /\ Cardinality(tooOld') = Cardinality(tooOld) + 1
      BY <2>2, <2>4, FS_AddElement DEF AccountInv, CountInv
    <3>. QED BY <2>1, <2>4, <3>1, Terms DEF AccountInv, CountInv
  <2>. QED BY <2>3, <2>4
<1>2. Increasing(camQ')
  BY TailOfQueue DEF AccountInv
<1>3. Increasing(handled')
  <2>1. Increasing(handled) /\ \A k \in DOMAIN handled : handled[k] < frame
    BY DEF AccountInv, OrderInv, Beyond
  <2>2. CASE handled' = handled
    BY <2>1, <2>2
  <2>3. CASE handled' = Append(handled, frame)
    <3>1. DOMAIN handled = 1 .. Len(handled) /\ Len(handled) \in Nat
      BY DEF Typed
    <3>2. /\ DOMAIN handled' = 1 .. Len(handled) + 1
          /\ \A i \in 1 .. Len(handled) : handled'[i] = handled[i]
          /\ handled'[Len(handled) + 1] = frame
      BY <2>3 DEF Typed
    <3>. QED BY <2>1, <3>1, <3>2 DEF Increasing
  <2>. QED BY <2>2, <2>3
<1>4. ASSUME NEW x \in Nat, Beyond(handled, tooOld, x), frame < x
      PROVE  Beyond(handled', tooOld', x)
  <2>1. CASE handled' = Append(handled, frame) /\ UNCHANGED tooOld
    BY <1>4, <2>1 DEF Beyond, Typed
  <2>2. CASE tooOld' = tooOld \cup {frame} /\ UNCHANGED handled
    BY <1>4, <2>2 DEF Beyond
  <2>. QED BY <2>1, <2>2
<1>5. ASSUME NEW i \in DOMAIN camQ'
      PROVE  /\ camQ'[i] \in Nat /\ frame < camQ'[i]
             /\ Beyond(handled, tooOld, camQ'[i])
             /\ \E k \in DOMAIN camQ : camQ'[i] = camQ[k]
  BY TailOfQueue DEF AccountInv, OrderInv, Typed
<1>6. \A i \in DOMAIN camQ' : Beyond(handled', tooOld', camQ'[i])
  BY <1>4, <1>5
<1>7. ASSUME NEW j \in nextFrame .. Len(FrameTimes)
      PROVE  /\ Beyond(handled', tooOld', FrameTimes[j])
             /\ \A i \in DOMAIN camQ' : camQ'[i] < FrameTimes[j]
  <2>1. FrameTimes[j] \in Nat
    BY TimesIncrease DEF Typed
  <2>2. Beyond(handled, tooOld, FrameTimes[j]) /\ frame < FrameTimes[j]
    BY DEF AccountInv, OrderInv
  <2>3. Beyond(handled', tooOld', FrameTimes[j])
    BY <1>4, <2>1, <2>2
  <2>. QED BY <1>5, <2>3 DEF AccountInv, OrderInv
<1>8. OrderInv'
  BY <1>2, <1>3, <1>6, <1>7 DEF OrderInv
<1>. QED BY <1>1, <1>8 DEF AccountInv

(* Steps that leave the images where they are and hold no new one.           *)
LEMMA AccountKept ==
  ASSUME AccountInv, Holding' => Holding /\ UNCHANGED frame,
         UNCHANGED <<nextFrame, camQ, ledger>>
  PROVE  AccountInv'
<1>1. CountInv'
  BY DEF AccountInv, CountInv, ledger
<1>2. OrderInv'
  BY DEF AccountInv, OrderInv, Beyond, Increasing, ledger
<1>. QED BY <1>1, <1>2 DEF AccountInv

(* The front image is copied: it is beyond everything that is done with, and *)
(* no queued image is before it.                                             *)
LEMMA AccountCopy ==
  ASSUME AccountInv, Typed, camQ # <<>>, frame' = Head(camQ),
         UNCHANGED <<nextFrame, camQ, ledger>>
  PROVE  AccountInv'
<1>1. CountInv'
  BY DEF AccountInv, CountInv, ledger
<1>2. /\ Head(camQ) = camQ[1] /\ 1 \in DOMAIN camQ
      /\ \A i \in DOMAIN camQ : camQ[i] \in Nat /\ camQ[1] <= camQ[i]
  <2>1. /\ Head(camQ) = camQ[1] /\ 1 \in DOMAIN camQ
        /\ \A i \in DOMAIN camQ : camQ[i] \in Nat /\ (i = 1 \/ 1 < i)
    BY DEF Typed
  <2>. QED BY <2>1 DEF AccountInv, OrderInv, Increasing
<1>3. OrderInv'
  BY <1>2 DEF AccountInv, OrderInv, Increasing, ledger
<1>. QED BY <1>1, <1>3 DEF AccountInv

(* The invariants above give the types the account needs.                    *)
LEMMA TypesOfAccount ==
  SensorInv /\ InputType /\ ControlInv /\ LedgerType => Typed
<1>. SUFFICES ASSUME SensorInv, InputType, ControlInv, LedgerType PROVE Typed
  OBVIOUS
<1>1. Images \subseteq Nat
  BY Bounds
<1>2. camQ \in Seq(Nat) /\ handled \in Seq(Nat)
  BY <1>1, SeqMonotonic DEF InputType, LedgerType
<1>3. nextFrame \in Nat \ {0}
  BY Bounds DEF SensorInv, SensorType
<1>4. frame \in Nat
  BY <1>1 DEF ControlInv, ControlType
<1>5. tooOld \subseteq Nat /\ reported \in Nat
  BY <1>1 DEF LedgerType
<1>. QED BY <1>2, <1>3, <1>4, <1>5 DEF Typed

(* The account is inductive, given the types and that the pop finds one.     *)
LEMMA AccountInvariant == Spec => []AccountInv
<1>1. SensorInv /\ InputType /\ Typed /\ PopReady /\ AccountInv /\ [Next]_vars
        => AccountInv'
  <2>. SUFFICES ASSUME SensorInv, InputType, Typed, PopReady, AccountInv,
                       [Next]_vars
                PROVE  AccountInv'
    OBVIOUS
  <2>. USE DEF Holding
  <2>1. CASE ReadImage
    <3>1. camQ' = Append(camQ, FrameTimes[nextFrame])
      BY <2>1 DEF ReadImage
    <3>2. nextFrame <= Len(FrameTimes)
      BY <2>1 DEF ReadImage, SensorInv, ReaderSupplied
    <3>. QED BY <2>1, <3>1, <3>2, AccountArrival DEF ReadImage, process
  <2>2. CASE SenseImage
    <3>1. CASE Len(camQ) < CameraCap
      BY <2>2, <3>1, AccountArrival
         DEF SenseImage, MoreFrames, PushDropping, process, ledger
    <3>2. CASE ~(Len(camQ) < CameraCap)
      <4>1. camQ # <<>>
        BY <3>2, Bounds
      <4>. QED BY <2>2, <3>2, <4>1, AccountDrop
               DEF SenseImage, MoreFrames, PushDropping, process
    <3>. QED BY <3>1, <3>2
  <2>3. CASE DropTooOld \/ PopImage
    BY <2>3, AccountPop DEF DropTooOld, PopImage, Return, sensors
  <2>4. CASE CopyImage
    <3>1. CASE camQ = <<>>
      BY <2>4, <3>1, AccountKept DEF CopyImage, Return, sensors
    <3>2. CASE camQ # <<>>
      BY <2>4, <3>2, AccountCopy DEF CopyImage, sensors
    <3>. QED BY <3>1, <3>2
  <2>5. CASE PeekImu \/ CheckBack \/ CollectImu
    BY <2>5, AccountKept DEF PeekImu, CheckBack, CollectImu, Return, sensors
  <2>6. CASE JoinIdle \/ JoinOpt \/ Match \/ MatchFails
    BY <2>6, AccountKept DEF JoinIdle, JoinOpt, Match, MatchFails, Return,
       sensors
  <2>7. CASE ReadImu \/ EndOfImu \/ SenseImu
    BY <2>7, AccountKept DEF ReadImu, EndOfImu, SenseImu, process
  <2>8. CASE Stop
    BY <2>8, AccountKept DEF Stop, AppLoop, JoinLast, FinalImport,
       FinalCallBack, Final, JoinPublisher,
       process, sensors
  <2>9. CASE Optimise \/ Publisher
    BY <2>9, AccountKept DEF Optimise, OptimisePublish, Marginalise, Publisher,
       TakePublication, CallBack, process, sensors
  <2>10. CASE Stopped \/ UNCHANGED vars
    BY <2>10, AccountKept DEF Stopped, vars, process, sensors
  <2>. QED BY <2>1, <2>2, <2>3, <2>4, <2>5, <2>6, <2>7, <2>8, <2>9, <2>10
           DEF Next, Sensors, Process
<1>. QED BY <1>1, AccountInit, TypesOfAccount, SensorInvariant, InputInvariant,
            ControlInvariant, LedgerInvariant, PopNeverWaits, PTL DEF Spec

(* No image is processed twice or out of order, and every image the sensors  *)
(* produced is queued, processed, given up at startup or among the drops     *)
(* that addImages returned, for every queue size and every interleaving of   *)
(* sensors and processFrame (addImages, getNextFrame, processFrame).         *)
THEOREM ImagesAccounted == Spec => []LossReported
<1>1. AccountInv => LossReported
  BY DEF AccountInv, OrderInv, CountInv, LossReported
<1>. QED BY <1>1, AccountInvariant, PTL

(* ------------------------------------------------------------------------- *)
(* The publications.  A state is optimised after its image was handled, and  *)
(* everything that was published before it is an older image: that, and the  *)
(* order inside each of the three places a publication passes through, is    *)
(* what survives every step of the four threads.                             *)

Before(s, t) == \A i \in DOMAIN s, j \in DOMAIN t : s[i] < t[j]
Below(s, x)  == \A i \in DOMAIN s : s[i] < x
Among(s, t)  == \A i \in DOMAIN s : \E j \in DOMAIN t : s[i] = t[j]
Member(x, t) == \E j \in DOMAIN t : x = t[j]

PublishInv ==
  /\ Increasing(delivered) /\ Increasing(inHand) /\ Increasing(pubQ)
  /\ Before(delivered, inHand) /\ Before(delivered, pubQ)
  /\ Before(inHand, pubQ)
  /\ Among(delivered, handled) /\ Among(inHand, handled)
  /\ Among(pubQ, handled)
  /\ opt = "optimise" =>
       /\ Member(current, handled)
       /\ Below(delivered, current) /\ Below(inHand, current)
       /\ Below(pubQ, current)
  /\ pc \in {"joinOpt", "match"} =>
       /\ Member(frame, handled)
       /\ Below(delivered, frame) /\ Below(inHand, frame)
       /\ Below(pubQ, frame) /\ (opt = "optimise" => current < frame)

(* What the publications need of the types.                                  *)
PublishTyped ==
  /\ delivered \in Seq(Nat) /\ inHand \in Seq(Nat) /\ pubQ \in Seq(Nat)
  /\ handled \in Seq(Nat) /\ current \in Nat /\ frame \in Nat
  /\ (publisher = "calling") = (inHand # <<>>)

(* The types of what is published follow from the type invariant.            *)
LEMMA TypesOfPublish ==
  OutputType /\ ControlInv /\ LedgerType => PublishTyped
<1>. SUFFICES ASSUME OutputType, ControlInv, LedgerType PROVE PublishTyped
  OBVIOUS
<1>1. Images \subseteq Nat
  BY Bounds
<1>2. /\ delivered \in Seq(Nat) /\ inHand \in Seq(Nat) /\ pubQ \in Seq(Nat)
      /\ handled \in Seq(Nat)
  BY <1>1, SeqMonotonic DEF OutputType, LedgerType
<1>3. current \in Nat /\ frame \in Nat
  BY <1>1 DEF ControlInv, ControlType
<1>. QED BY <1>2, <1>3 DEF PublishTyped, OutputType

(* What comes out of two sequences that are in order, one after the other.   *)
LEMMA IncreasingConcat ==
  ASSUME NEW s \in Seq(Nat), NEW t \in Seq(Nat)
  PROVE  /\ s \o t \in Seq(Nat)
         /\ Increasing(s) /\ Increasing(t) /\ Before(s, t)
              => Increasing(s \o t)
         /\ \A u \in Seq(Nat) : /\ Before(s, u) /\ Before(t, u)
                                     => Before(s \o t, u)
                                /\ Among(s, u) /\ Among(t, u)
                                     => Among(s \o t, u)
         /\ \A x \in Nat : Below(s, x) /\ Below(t, x) => Below(s \o t, x)
<1>. SUFFICES ASSUME NEW c, c = s \o t
              PROVE  /\ c \in Seq(Nat)
                     /\ Increasing(s) /\ Increasing(t) /\ Before(s, t)
                          => Increasing(c)
                     /\ \A u \in Seq(Nat) : /\ Before(s, u) /\ Before(t, u)
                                                 => Before(c, u)
                                            /\ Among(s, u) /\ Among(t, u)
                                                 => Among(c, u)
                     /\ \A x \in Nat : Below(s, x) /\ Below(t, x)
                                         => Below(c, x)
  OBVIOUS
<1>1. /\ Len(s) \in Nat /\ Len(t) \in Nat /\ c \in Seq(Nat)
      /\ DOMAIN s = 1 .. Len(s) /\ DOMAIN t = 1 .. Len(t)
      /\ DOMAIN c = 1 .. Len(s) + Len(t)
      /\ \A i \in DOMAIN c :
           c[i] = IF i <= Len(s) THEN s[i] ELSE t[i - Len(s)]
  OBVIOUS
<1>2. \A i \in DOMAIN c : \/ i \in DOMAIN s /\ c[i] = s[i]
                          \/ /\ i > Len(s) /\ i - Len(s) \in DOMAIN t
                             /\ c[i] = t[i - Len(s)]
  BY <1>1
<1>3. ASSUME Increasing(s), Increasing(t), Before(s, t)
      PROVE  Increasing(c)
  <2>. SUFFICES ASSUME NEW i \in DOMAIN c, NEW j \in DOMAIN c, i < j
                PROVE  c[i] < c[j]
    BY DEF Increasing
  <2>1. CASE j \in DOMAIN s
    BY <1>1, <1>3, <2>1 DEF Increasing
  <2>2. CASE i \in DOMAIN s /\ j \notin DOMAIN s
    BY <1>1, <1>2, <1>3, <2>2 DEF Before
  <2>3. CASE i \notin DOMAIN s /\ j \notin DOMAIN s
    <3>1. /\ i - Len(s) \in DOMAIN t /\ c[i] = t[i - Len(s)]
          /\ j - Len(s) \in DOMAIN t /\ c[j] = t[j - Len(s)]
          /\ i - Len(s) < j - Len(s)
      BY <1>1, <2>3
    <3>. QED BY <1>3, <3>1 DEF Increasing
  <2>. QED BY <1>1, <2>1, <2>2, <2>3
<1>4. ASSUME NEW u \in Seq(Nat), Before(s, u), Before(t, u) PROVE Before(c, u)
  BY <1>2, <1>4 DEF Before
<1>5. ASSUME NEW u \in Seq(Nat), Among(s, u), Among(t, u) PROVE Among(c, u)
  <2>. SUFFICES ASSUME NEW i \in DOMAIN c PROVE \E j \in DOMAIN u : c[i] = u[j]
    BY DEF Among
  <2>1. CASE i \in DOMAIN s /\ c[i] = s[i]
    BY <1>5, <2>1 DEF Among
  <2>2. CASE i - Len(s) \in DOMAIN t /\ c[i] = t[i - Len(s)]
    BY <1>5, <2>2 DEF Among
  <2>. QED BY <1>2, <2>1, <2>2
<1>6. ASSUME NEW x \in Nat, Below(s, x), Below(t, x) PROVE Below(c, x)
  BY <1>2, <1>6 DEF Below
<1>. QED BY <1>1, <1>3, <1>4, <1>5, <1>6

(* The pieces in order make PublishedInOrder.                                *)
LEMMA PublishedIsOrdered ==
  PublishInv /\ PublishTyped => PublishedInOrder
<1>. SUFFICES ASSUME PublishInv, PublishTyped PROVE PublishedInOrder
  OBVIOUS
<1>1. /\ delivered \o inHand \in Seq(Nat) /\ Increasing(delivered \o inHand)
      /\ Before(delivered \o inHand, pubQ)
  BY IncreasingConcat DEF PublishInv, PublishTyped
<1>2. /\ (delivered \o inHand) \o pubQ \in Seq(Nat)
      /\ Increasing((delivered \o inHand) \o pubQ)
  BY <1>1, IncreasingConcat DEF PublishInv, PublishTyped
<1>3. CASE opt = "optimise"
  <2>1. Below(delivered \o inHand, current)
    BY <1>3, IncreasingConcat DEF PublishInv, PublishTyped
  <2>2. Below((delivered \o inHand) \o pubQ, current)
    BY <1>1, <1>3, <2>1, IncreasingConcat DEF PublishInv, PublishTyped
  <2>. DEFINE one == <<current>>
              all == (delivered \o inHand) \o pubQ
  <2>3. /\ one \in Seq(Nat) /\ Increasing(one)
        /\ DOMAIN one = {1} /\ one[1] = current
    BY DEF Increasing, PublishTyped
  <2>. HIDE DEF one, all
  <2>4. Before(all, one)
    BY <2>2, <2>3 DEF Before, Below, all
  <2>5. Increasing(all \o one)
    BY <1>2, <2>3, <2>4, IncreasingConcat DEF all
  <2>. QED BY <1>3, <2>5 DEF PublishedInOrder, all, one
<1>4. CASE opt # "optimise"
  <2>1. ((delivered \o inHand) \o pubQ) \o <<>> = (delivered \o inHand) \o pubQ
    BY <1>2
  <2>. QED BY <1>2, <1>4, <2>1 DEF PublishedInOrder
<1>. QED BY <1>3, <1>4

(* The newest state joins the queue, at the cost of the oldest if it is full.*)
LEMMA PublishKept ==
  ASSUME PublishInv, PublishTyped, OutputType, opt = "optimise",
         pubQ' = PushDropping(pubQ, current, PublicationCap),
         opt' = "marginalise",
         UNCHANGED <<delivered, inHand, pc, frame, handled>>
  PROVE  PublishInv'
<1>. DEFINE rest == IF Len(pubQ) < PublicationCap THEN pubQ ELSE Tail(pubQ)
<1>1. /\ rest \in Seq(Nat) /\ pubQ' = Append(rest, current)
      /\ \A i \in DOMAIN rest :
           \E k \in Nat : i + k \in DOMAIN pubQ /\ rest[i] = pubQ[i + k]
      /\ \A i, j \in DOMAIN rest : i < j => rest[i] < rest[j]
  <2>1. CASE Len(pubQ) < PublicationCap
    <3>1. \A i \in DOMAIN pubQ : i + 0 = i
      BY DEF PublishTyped
    <3>. QED BY <2>1, <3>1
             DEF PushDropping, PublishTyped, PublishInv, Increasing
  <2>2. CASE ~(Len(pubQ) < PublicationCap)
    <3>1. pubQ # <<>>
      BY <2>2, Bounds
    <3>2. /\ Tail(pubQ) \in Seq(Nat)
          /\ \A i \in DOMAIN Tail(pubQ) :
               /\ i \in Nat /\ i + 1 \in DOMAIN pubQ
               /\ Tail(pubQ)[i] = pubQ[i + 1]
      BY <3>1 DEF PublishTyped
    <3>3. \A i, j \in DOMAIN Tail(pubQ) :
            i < j => Tail(pubQ)[i] < Tail(pubQ)[j]
      BY <3>2 DEF PublishInv, Increasing
    <3>. QED BY <2>2, <3>2, <3>3 DEF PushDropping
  <2>. QED BY <2>1, <2>2
<1>. HIDE DEF rest
<1>2. /\ Before(delivered, rest) /\ Before(inHand, rest)
      /\ Below(rest, current) /\ Among(rest, handled)
      /\ pc \in {"joinOpt", "match"} => Below(rest, frame)
  BY <1>1 DEF PublishInv, Before, Below, Among
<1>3. \A i \in DOMAIN pubQ' : \/ i \in DOMAIN rest /\ pubQ'[i] = rest[i]
                              \/ i = Len(rest) + 1 /\ pubQ'[i] = current
  <2>. SUFFICES ASSUME NEW r \in Seq(Nat), NEW q, q = Append(r, current)
                PROVE  \A i \in DOMAIN q : \/ i \in DOMAIN r /\ q[i] = r[i]
                                           \/ i = Len(r) + 1 /\ q[i] = current
    BY <1>1
  <2>. QED BY DEF PublishTyped
<1>4. Increasing(pubQ')
  <2>. SUFFICES ASSUME NEW i \in DOMAIN pubQ', NEW j \in DOMAIN pubQ', i < j
                PROVE  pubQ'[i] < pubQ'[j]
    BY DEF Increasing
  <2>1. /\ Len(rest) \in Nat /\ DOMAIN rest = 1 .. Len(rest)
        /\ DOMAIN pubQ' = 1 .. Len(rest) + 1
    BY <1>1 DEF PublishTyped
  <2>2. i \in DOMAIN rest /\ pubQ'[i] = rest[i]
    BY <1>3, <2>1
  <2>. QED BY <1>1, <1>2, <1>3, <2>2 DEF Below
<1>5. Before(delivered, pubQ') /\ Before(inHand, pubQ')
  BY <1>2, <1>3 DEF PublishInv, Before, Below
<1>6. Among(pubQ', handled)
  BY <1>2, <1>3 DEF PublishInv, Among, Member
<1>7. pc \in {"joinOpt", "match"} => Below(pubQ', frame)
  BY <1>2, <1>3 DEF PublishInv, Below
<1>. QED BY <1>4, <1>5, <1>6, <1>7 DEF PublishInv

(* The publishing thread takes the oldest publication.                       *)
LEMMA TakeKept ==
  ASSUME PublishInv, PublishTyped, publisher = "waiting", pubQ # <<>>,
         inHand' = <<Head(pubQ)>>, pubQ' = Tail(pubQ),
         UNCHANGED <<delivered, pc, frame, handled, opt, current>>
  PROVE  PublishInv'
<1>1. /\ inHand = <<>> /\ 1 \in DOMAIN pubQ /\ DOMAIN inHand' = {1}
      /\ inHand'[1] = pubQ[1]
      /\ \A i \in DOMAIN pubQ' : /\ i \in Nat /\ i + 1 \in DOMAIN pubQ
                                 /\ 1 < i + 1 /\ pubQ'[i] = pubQ[i + 1]
  BY DEF PublishTyped
<1>2. \A i \in DOMAIN inHand' : i = 1
  BY <1>1
<1>3. /\ Increasing(inHand') /\ Before(inHand', pubQ') /\ Increasing(pubQ')
  <2>1. Increasing(inHand')
    BY <1>2 DEF Increasing
  <2>2. Before(inHand', pubQ')
    BY <1>1, <1>2 DEF Before, PublishInv, Increasing
  <2>3. Increasing(pubQ')
    BY <1>1 DEF PublishInv, Increasing
  <2>. QED BY <2>1, <2>2, <2>3
<1>4. Before(delivered, inHand') /\ Before(delivered, pubQ')
  BY <1>1, <1>2 DEF PublishInv, Before
<1>5. Among(inHand', handled) /\ Among(pubQ', handled)
  BY <1>1, <1>2 DEF PublishInv, Among
<1>6. \A x : Below(pubQ, x) => Below(inHand', x) /\ Below(pubQ', x)
  BY <1>1, <1>2 DEF Below
<1>. QED BY <1>3, <1>4, <1>5, <1>6 DEF PublishInv

(* The callback has seen what was in hand.                                   *)
LEMMA CallBackKept ==
  ASSUME PublishInv, PublishTyped, inHand' = <<>>,
         delivered' = delivered \o inHand,
         UNCHANGED <<pubQ, pc, frame, handled, opt, current>>
  PROVE  PublishInv'
<1>1. /\ delivered' \in Seq(Nat) /\ Increasing(delivered')
      /\ Before(delivered', pubQ) /\ Among(delivered', handled)
  BY IncreasingConcat DEF PublishInv, PublishTyped
<1>2. /\ opt = "optimise" => Below(delivered', current)
      /\ pc \in {"joinOpt", "match"} => Below(delivered', frame)
  BY IncreasingConcat DEF PublishInv, PublishTyped
<1>3. /\ Increasing(inHand') /\ Before(delivered', inHand')
      /\ Before(inHand', pubQ) /\ Among(inHand', handled)
      /\ \A x : Below(inHand', x)
  BY DEF Increasing, Before, Among, Below
<1>. QED BY <1>1, <1>2, <1>3 DEF PublishInv

(* An image is handled: everything published so far is an older image.       *)
LEMMA HandledKept ==
  ASSUME PublishInv, PublishTyped, AccountInv, pc = "detect",
         handled' = Append(handled, frame), frame' \in {frame, 0},
         pc' = "joinOpt" => frame' = frame, pc' # "match",
         UNCHANGED <<delivered, inHand, pubQ, opt, current>>
  PROVE  PublishInv'
<1>1. \A k \in DOMAIN handled : handled[k] < frame
  BY DEF AccountInv, OrderInv, Holding, Beyond
<1>2. /\ \A x : Member(x, handled) => Member(x, handled')
      /\ \A x : Member(x, handled) => x < frame
      /\ Member(frame, handled')
  <2>1. /\ \A k \in DOMAIN handled :
             k \in DOMAIN handled' /\ handled'[k] = handled[k]
        /\ Len(handled) + 1 \in DOMAIN handled'
        /\ handled'[Len(handled) + 1] = frame
    BY DEF PublishTyped
  <2>. QED BY <1>1, <2>1 DEF Member
<1>3. ASSUME NEW s, Among(s, handled)
      PROVE  Among(s, handled') /\ Below(s, frame)
  BY <1>2, <1>3 DEF Among, Member, Below
<1>. QED BY <1>2, <1>3 DEF PublishInv

(* A new state, its optimisation launched.                                   *)
LEMMA LaunchKept ==
  ASSUME PublishInv, pc = "match", pc' = "returned", current' = frame,
         UNCHANGED <<delivered, inHand, pubQ, handled>>
  PROVE  PublishInv'
BY DEF PublishInv

(* What is on the way to the callback is in order, in every state.           *)
LEMMA PublishInvariant == Spec => []PublishInv
<1>1. Init => PublishInv
  BY DEF Init, PublishInv, Increasing, Before, Among
<1>2. EstimatorInv /\ OutputType /\ PublishTyped /\ AccountInv /\ PublishInv
        /\ [Next]_vars => PublishInv'
  <2>. SUFFICES ASSUME EstimatorInv, OutputType, PublishTyped, AccountInv,
                       PublishInv, [Next]_vars
                PROVE  PublishInv'
    OBVIOUS
  <2>1. ASSUME UNCHANGED <<delivered, inHand, pubQ, current, handled>>,
               opt' = opt \/ opt' # "optimise",
               pc' \in {"joinOpt", "match"} =>
                  pc \in {"joinOpt", "match"} /\ UNCHANGED frame
        PROVE  PublishInv'
    BY <2>1 DEF PublishInv
  <2>2. CASE Sensors \/ SenseImu \/ SenseImage
    BY <2>1, <2>2 DEF Sensors, ReadImu, EndOfImu, ReadImage, SenseImu,
       SenseImage, publish, process, estimator, ledger
  <2>3. CASE PeekImu \/ CopyImage \/ JoinIdle \/ DropTooOld \/ CheckBack
             \/ CollectImu
    BY <2>1, <2>3 DEF PeekImu, CopyImage, JoinIdle, DropTooOld, CheckBack,
       CollectImu, Return, publish, estimator, ledger
  <2>4. CASE PopImage
    BY <2>4, HandledKept DEF PopImage, Return, publish, estimator
  <2>5. CASE JoinOpt
    BY <2>1, <2>5 DEF JoinOpt, publish, estimator, ledger
  <2>6. CASE Match
    BY <2>6, LaunchKept DEF Match, Return, publish, ledger
  <2>7. CASE MatchFails
    <3>1. opt = "none" /\ opt' = opt /\ pc' = "returned"
      BY <2>7 DEF MatchFails, EstimatorInv, Return
    <3>. QED BY <2>7, <3>1 DEF PublishInv, MatchFails, publish, ledger
  <2>8. CASE Stop
    BY <2>1, <2>8 DEF Stop, AppLoop, JoinLast, FinalImport, FinalCallBack,
       Final, JoinPublisher, publish, process, estimator, ledger
  <2>9. CASE OptimisePublish
    BY <2>9, PublishKept DEF OptimisePublish, process, ledger
  <2>10. CASE Marginalise
    BY <2>1, <2>10 DEF Marginalise, publish, process, estimator, ledger
  <2>11. CASE TakePublication
    <3>1. CASE queuesShut
      BY <2>1, <2>11, <3>1 DEF TakePublication, publish, process, estimator,
         ledger, PublishInv
    <3>2. CASE ~queuesShut
      BY <2>11, <3>2, TakeKept DEF TakePublication, process, estimator, ledger
    <3>. QED BY <3>1, <3>2
  <2>12. CASE CallBack
    BY <2>12, CallBackKept DEF CallBack, process, estimator, ledger
  <2>13. CASE Stopped \/ UNCHANGED vars
    BY <2>1, <2>13 DEF Stopped, vars, publish, process, estimator, ledger
  <2>. QED BY <2>2, <2>3, <2>4, <2>5, <2>6, <2>7, <2>8, <2>9, <2>10, <2>11,
              <2>12, <2>13 DEF Next, Process, Optimise, Publisher
<1>. QED BY <1>1, <1>2, TypesOfPublish, EstimatorInvariant, OutputInvariant,
            ControlInvariant, LedgerInvariant, AccountInvariant, PTL DEF Spec

(* The publishing thread hands the states to the callback in the order of    *)
(* their images, each at most once, whatever publications the full queue has *)
(* dropped, for every size of that queue (publishingLoop,                    *)
(* optimisePublishMarginalise).                                              *)
THEOREM PublicationsInOrder == Spec => []PublishedInOrder
BY PublishInvariant, PublishedIsOrdered, TypesOfPublish, OutputInvariant,
   ControlInvariant, LedgerInvariant, PTL

(* ------------------------------------------------------------------------- *)
(* The publication of stopThreading.  Once the frontend is initialised the   *)
(* current state is that of the last image handled, and from its             *)
(* optimisation on it is somewhere on the way to the callback: the pushes    *)
(* only drop older ones.  Once the queues are shut down the publishing       *)
(* thread has no more than what is in its hand.                              *)

NoNewer(x)   == \A k \in DOMAIN handled : handled[k] <= x
Published(x) == Member(x, delivered) \/ Member(x, inHand) \/ Member(x, pubQ)

NewestInv ==
  /\ pc \in {"joinOpt", "match"} => NoNewer(frame)
  /\ initialised =>
       /\ pc \notin {"joinOpt", "match"} => NoNewer(current)
       /\ opt # "optimise" => Published(current)
  /\ pc \in JoinedAtStop => queuesShut
  /\ Len(inHand) <= 1
  /\ repeated # <<>> => pc \in {"finalDone", "joinPublisher", "stopped"}
  /\ \A k \in DOMAIN repeated :
       /\ initialised /\ repeated[k].state = current
       /\ Len(delivered) + Len(inHand) <= repeated[k].after + 1

(* What is pushed is in the queue afterwards, whatever is dropped.           *)
LEMMA PushedIsMember ==
  ASSUME NEW q \in Seq(Nat), NEW v \in Nat, NEW cap \in Nat \ {0}
  PROVE  Member(v, PushDropping(q, v, cap))
<1>. DEFINE rest == IF Len(q) < cap THEN q ELSE Tail(q)
<1>1. rest \in Seq(Nat)
  <2>1. CASE Len(q) < cap
    BY <2>1
  <2>2. CASE ~(Len(q) < cap)
    <3>1. q # <<>>
      BY <2>2
    <3>. QED BY <2>2, <3>1
  <2>. QED BY <2>1, <2>2
<1>2. PushDropping(q, v, cap) = Append(rest, v)
  BY DEF PushDropping
<1>. HIDE DEF rest
<1>3. /\ Len(rest) + 1 \in DOMAIN Append(rest, v)
      /\ Append(rest, v)[Len(rest) + 1] = v
  BY <1>1
<1>. QED BY <1>2, <1>3 DEF Member

(* The publishing thread takes one publication: it is in hand, the others    *)
(* stay.                                                                     *)
LEMMA TakeNewest ==
  ASSUME NewestInv, PublishTyped, publisher = "waiting", ~queuesShut,
         pubQ # <<>>, inHand' = <<Head(pubQ)>>, pubQ' = Tail(pubQ),
         UNCHANGED <<delivered, repeated, pc, frame, handled, opt, estimator,
                     queuesShut>>
  PROVE  NewestInv'
<1>1. /\ DOMAIN inHand' = {1} /\ inHand'[1] = pubQ[1] /\ Len(inHand') = 1
      /\ \A i \in DOMAIN pubQ :
           i # 1 => i - 1 \in DOMAIN pubQ' /\ pubQ'[i - 1] = pubQ[i]
  <2>1. ASSUME NEW q \in Seq(Nat), q # <<>>
        PROVE  /\ Head(q) = q[1] /\ Len(Tail(q)) = Len(q) - 1
               /\ Len(q) \in Nat /\ DOMAIN q = 1 .. Len(q)
               /\ DOMAIN Tail(q) = 1 .. Len(q) - 1
               /\ \A i \in 1 .. Len(q) - 1 : Tail(q)[i] = q[i + 1]
    BY <2>1
  <2>2. ASSUME NEW x
        PROVE  DOMAIN <<x>> = {1} /\ <<x>>[1] = x /\ Len(<<x>>) = 1
    OBVIOUS
  <2>3. DOMAIN inHand' = {1} /\ inHand'[1] = pubQ[1] /\ Len(inHand') = 1
    BY <2>1, <2>2 DEF PublishTyped
  <2>4. ASSUME NEW i \in DOMAIN pubQ, i # 1
        PROVE  i - 1 \in DOMAIN pubQ' /\ pubQ'[i - 1] = pubQ[i]
    <3>1. /\ Len(pubQ) \in Nat /\ DOMAIN pubQ = 1 .. Len(pubQ)
          /\ DOMAIN pubQ' = 1 .. Len(pubQ) - 1
          /\ \A k \in 1 .. Len(pubQ) - 1 : pubQ'[k] = pubQ[k + 1]
      BY <2>1 DEF PublishTyped
    <3>2. i - 1 \in 1 .. Len(pubQ) - 1 /\ (i - 1) + 1 = i
      BY <2>4, <3>1
    <3>. QED BY <3>1, <3>2
  <2>. QED BY <2>3, <2>4
<1>2. ASSUME NEW x, Member(x, pubQ)
      PROVE  Member(x, inHand') \/ Member(x, pubQ')
  BY <1>1, <1>2 DEF Member
<1>3. inHand = <<>>
  BY DEF PublishTyped
<1>4. Published(current) => Published(current)'
  <2>1. ~Member(current, inHand)
    BY <1>3 DEF Member
  <2>. QED BY <1>2, <2>1 DEF Published, Member, estimator
<1>5. repeated = <<>>
  BY DEF NewestInv, JoinedAtStop
<1>. QED BY <1>1, <1>4, <1>5 DEF NewestInv, NoNewer, estimator

(* The callback returns: what was in hand is delivered.                      *)
LEMMA CallBackNewest ==
  ASSUME NewestInv, PublishTyped, inHand' = <<>>,
         delivered' = delivered \o inHand,
         UNCHANGED <<pubQ, repeated, pc, frame, handled, opt, estimator,
                     queuesShut>>
  PROVE  NewestInv'
<1>1. /\ Len(inHand') = 0 /\ Len(delivered') = Len(delivered) + Len(inHand)
      /\ Len(delivered) \in Nat /\ Len(inHand) \in Nat
      /\ DOMAIN delivered' = 1 .. Len(delivered')
      /\ DOMAIN delivered = 1 .. Len(delivered)
      /\ DOMAIN inHand = 1 .. Len(inHand)
      /\ \A i \in DOMAIN delivered : delivered'[i] = delivered[i]
      /\ \A i \in DOMAIN inHand : delivered'[Len(delivered) + i] = inHand[i]
  BY DEF PublishTyped
<1>2. ASSUME NEW x, Member(x, delivered) \/ Member(x, inHand)
      PROVE  Member(x, delivered')
  <2>1. CASE Member(x, delivered)
    BY <1>1, <2>1 DEF Member
  <2>2. CASE Member(x, inHand)
    <3>1. PICK i \in DOMAIN inHand : x = inHand[i]
      BY <2>2 DEF Member
    <3>2. Len(delivered) + i \in DOMAIN delivered'
      BY <1>1
    <3>. QED BY <1>1, <3>1, <3>2 DEF Member
  <2>. QED BY <1>2, <2>1, <2>2
<1>3. Published(current) => Published(current)'
  BY <1>2 DEF Published, Member, estimator
<1>. QED BY <1>1, <1>3 DEF NewestInv, NoNewer, estimator

(* The stopping thread's call joins the history.                             *)
LEMMA FinalCallNewest ==
  ASSUME NewestInv, PublishTyped, FinalSupplied, FinalCallBack
  PROVE  NewestInv'
<1>1. /\ pc = "finalCall" /\ pc' = "finalDone"
      /\ UNCHANGED <<delivered, inHand, pubQ, handled, opt, estimator, ending>>
      /\ repeated' = <<[state |-> current, after |-> Len(delivered)]>>
  BY DEF FinalCallBack, ledger
<1>6. initialised
  BY <1>1, Zenon DEF FinalSupplied
<1>2. DOMAIN repeated' = {1} /\ repeated'[1].state = current
      /\ repeated'[1].after = Len(delivered)
  BY <1>1
<1>3. /\ Len(delivered) \in Nat /\ Len(inHand) \in Nat /\ Len(inHand) <= 1
  BY DEF PublishTyped, NewestInv
<1>4. ASSUME NEW k \in DOMAIN repeated'
      PROVE  /\ repeated'[k].state = current
             /\ Len(delivered) + Len(inHand) <= repeated'[k].after + 1
  BY <1>2, <1>3
<1>5. /\ queuesShut /\ NoNewer(current)
      /\ opt # "optimise" => Published(current)
  BY <1>1, <1>6 DEF NewestInv, JoinedAtStop
<1>. QED BY <1>1, <1>3, <1>4, <1>5, <1>6
         DEF NewestInv, NoNewer, Published, Member, estimator, ending

(* The newest state is known at every place of the threads.                  *)
LEMMA NewestInvariant == Spec => []NewestInv
<1>1. Init => NewestInv
  BY DEF Init, NewestInv, NoNewer, JoinedAtStop
<1>2. EstimatorInv /\ PublishTyped /\ FinalSupplied /\ AccountInv /\ NewestInv
        /\ [Next]_vars => NewestInv'
  <2>. SUFFICES ASSUME EstimatorInv, PublishTyped, FinalSupplied, AccountInv,
                       NewestInv, [Next]_vars
                PROVE  NewestInv'
    OBVIOUS
  <2>1. ASSUME UNCHANGED <<publish, current, initialised, handled>>,
               opt' = "optimise" => opt = "optimise",
               opt = "optimise" => opt' = "optimise",
               pc' \in {"joinOpt", "match"} <=> pc \in {"joinOpt", "match"},
               pc \in {"joinOpt", "match"} => UNCHANGED frame,
               pc' \in JoinedAtStop => queuesShut',
               pc \in {"finalDone", "joinPublisher", "stopped"}
                 => pc' \in {"finalDone", "joinPublisher", "stopped"}
        PROVE  NewestInv'
    BY <2>1 DEF NewestInv, NoNewer, Published, Member, publish
  <2>2. CASE Sensors \/ SenseImu \/ SenseImage
    BY <2>1, <2>2 DEF Sensors, ReadImu, EndOfImu, ReadImage, SenseImu,
       SenseImage, process, estimator, ledger, ending, NewestInv
  <2>3. CASE PeekImu \/ CopyImage \/ JoinIdle \/ DropTooOld \/ CheckBack
             \/ CollectImu
    <3>1. /\ UNCHANGED <<publish, estimator, handled, ending>>
          /\ pc \notin JoinedAtStop \cup {"joinOpt", "match"}
          /\ pc' \notin JoinedAtStop \cup {"joinOpt", "match"}
      BY <2>3 DEF PeekImu, CopyImage, JoinIdle, DropTooOld, CheckBack,
         CollectImu, Return, ledger, JoinedAtStop
    <3>2. opt' = opt \/ (opt' # "optimise" /\ opt # "optimise")
      <4>1. CASE JoinIdle
        BY <4>1 DEF JoinIdle
      <4>2. CASE ~JoinIdle
        BY <2>3, <4>2 DEF PeekImu, CopyImage, DropTooOld, CheckBack, CollectImu
      <4>. QED BY <4>1, <4>2
    <3>. QED BY <2>1, <3>1, <3>2 DEF estimator, JoinedAtStop
  <2>4. CASE PopImage
    <3>1. /\ pc = "detect" /\ UNCHANGED <<publish, estimator, opt, ending>>
          /\ handled' = Append(handled, frame)
          /\ pc' \notin JoinedAtStop
          /\ \/ ~initialised /\ pc' = "returned"
             \/ pc' = "joinOpt" /\ UNCHANGED frame
      BY <2>4 DEF PopImage, Return, JoinedAtStop
    <3>2. \A k \in DOMAIN handled : handled[k] < frame
      BY <3>1 DEF AccountInv, OrderInv, Holding, Beyond
    <3>3. \A k \in DOMAIN handled' : handled'[k] <= frame
      <4>1. ASSUME NEW s \in Seq(Nat), NEW x \in Nat,
                   NEW k \in DOMAIN Append(s, x)
            PROVE  \/ k \in DOMAIN s /\ Append(s, x)[k] = s[k]
                   \/ Append(s, x)[k] = x
        OBVIOUS
      <4>2. handled \in Seq(Nat) /\ frame \in Nat
        BY DEF PublishTyped
      <4>3. \A k \in DOMAIN handled : handled[k] \in Nat
        BY <4>2
      <4>4. ASSUME NEW k \in DOMAIN handled' PROVE handled'[k] <= frame
        <5>1. handled' = Append(handled, frame)
          BY <3>1
        <5>2. CASE k \in DOMAIN handled /\ handled'[k] = handled[k]
          BY <3>2, <4>2, <4>3, <5>2
        <5>3. CASE handled'[k] = frame
          BY <4>2, <5>3
        <5>. QED BY <4>1, <4>2, <5>1, <5>2, <5>3
      <4>. QED BY <4>4
    <3>. QED BY <3>1, <3>3
             DEF NewestInv, NoNewer, Published, Member, publish, estimator
  <2>5. CASE JoinOpt
    <3>1. /\ pc = "joinOpt" /\ pc' = "match" /\ opt # "optimise"
          /\ opt' = "none" /\ UNCHANGED <<publish, estimator, handled, frame>>
      BY <2>5 DEF JoinOpt, ledger
    <3>. QED BY <2>1, <3>1 DEF estimator, JoinedAtStop
  <2>6. CASE Match \/ MatchFails
    <3>1. /\ pc = "match" /\ pc' = "returned"
          /\ UNCHANGED <<publish, handled>>
          /\ \/ current' = frame /\ opt' = "optimise"
             \/ ~initialised /\ ~initialised'
      <4>1. CASE Match
        BY <4>1 DEF Match, Return, ledger
      <4>2. CASE MatchFails
        BY <4>2, Zenon DEF MatchFails, Return, ledger
      <4>. QED BY <2>6, <4>1, <4>2
    <3>. QED BY <3>1 DEF NewestInv, NoNewer, JoinedAtStop, publish
  <2>7. CASE AppLoop
    <3>1. /\ pc = "returned" /\ pc' \in {"start", "joinLast"}
          /\ UNCHANGED <<publish, estimator, handled, opt>>
      BY <2>7 DEF AppLoop, ledger
    <3>. QED BY <2>1, <3>1 DEF estimator, JoinedAtStop
  <2>8. CASE JoinLast
    <3>1. /\ pc = "joinLast" /\ pc' = "final" /\ queuesShut'
          /\ opt # "optimise" /\ opt' = "none"
          /\ UNCHANGED <<publish, estimator, handled>>
      BY <2>8 DEF JoinLast, ledger
    <3>. QED BY <2>1, <3>1 DEF estimator
  <2>9. CASE FinalImport \/ Final \/ JoinPublisher
    <3>1. /\ pc \in JoinedAtStop /\ pc' \in JoinedAtStop
          /\ pc \in {"finalDone", "joinPublisher", "stopped"}
               => pc' \in {"finalDone", "joinPublisher", "stopped"}
          /\ UNCHANGED <<publish, estimator, handled, opt, queuesShut>>
      BY <2>9 DEF FinalImport, Final, JoinPublisher, ledger, ending,
         JoinedAtStop
    <3>. QED BY <2>1, <3>1 DEF estimator, JoinedAtStop, NewestInv
  <2>10. CASE FinalCallBack
    BY <2>10, FinalCallNewest
  <2>11. CASE OptimisePublish
    <3>1. /\ UNCHANGED <<delivered, inHand, repeated, handled, frame, pc,
                         estimator, queuesShut>>
          /\ pubQ' = PushDropping(pubQ, current, PublicationCap)
      BY <2>11 DEF OptimisePublish, process, ledger, ending
    <3>2. Member(current, pubQ)'
      BY <3>1, PushedIsMember, Bounds DEF PublishTyped, Member, estimator
    <3>. QED BY <3>1, <3>2 DEF NewestInv, NoNewer, Published, Member, estimator
  <2>12. CASE Marginalise
    <3>1. /\ UNCHANGED <<publish, estimator, handled, frame, pc, queuesShut>>
          /\ opt # "optimise" /\ opt' # "optimise"
      BY <2>12 DEF Marginalise, process, ledger, ending
    <3>. QED BY <2>1, <3>1 DEF estimator, NewestInv
  <2>13. CASE TakePublication
    <3>1. /\ UNCHANGED <<delivered, repeated, pc, frame, handled, opt,
                         estimator, queuesShut>>
          /\ publisher = "waiting"
      BY <2>13 DEF TakePublication, process, ledger, ending
    <3>2. CASE queuesShut
      <4>1. UNCHANGED <<pubQ, inHand>>
        BY <2>13, <3>2 DEF TakePublication
      <4>. QED BY <3>1, <4>1
               DEF NewestInv, NoNewer, Published, Member, estimator
    <3>3. CASE ~queuesShut
      BY <2>13, <3>1, <3>3, TakeNewest DEF TakePublication
    <3>. QED BY <3>2, <3>3
  <2>14. CASE CallBack
    BY <2>14, CallBackNewest DEF CallBack, process, ledger, ending
  <2>15. CASE Stopped \/ UNCHANGED vars
    <3>1. UNCHANGED <<publish, estimator, handled, frame, pc, opt, queuesShut>>
      BY <2>15 DEF Stopped, vars, process, ledger, ending
    <3>. QED BY <2>1, <3>1 DEF estimator, NewestInv
  <2>. QED BY <2>2, <2>3, <2>4, <2>5, <2>6, <2>7, <2>8, <2>9, <2>10, <2>11,
              <2>12, <2>13, <2>14, <2>15
           DEF Next, Process, Stop, Optimise, Publisher
<1>. QED BY <1>1, <1>2, TypesOfPublish, EstimatorInvariant, OutputInvariant,
            ControlInvariant, LedgerInvariant, AccountInvariant, PTL
         DEF Spec, ControlInv

(* The publication stopThreading makes itself is of the newest state, which  *)
(* the publishing thread has delivered, has in hand or has lost with the     *)
(* queue; at most the one in hand is older and yet delivered after it, for   *)
(* every stream and every size of that queue (stopThreading,                 *)
(* publishingLoop).                                                          *)
THEOREM FinalIsNewest == Spec => []FinalNewest
<1>1. PublishInv /\ EstimatorInv /\ NewestInv => FinalNewest
  <2>. SUFFICES ASSUME PublishInv, EstimatorInv, NewestInv,
                       NEW k \in DOMAIN repeated
                PROVE  LET published == ToSet(delivered) \cup ToSet(inHand)
                                          \cup ToSet(pubQ)
                       IN  /\ repeated[k].state \in published
                           /\ \A s \in published : s <= repeated[k].state
                           /\ Len(delivered) + Len(inHand)
                                <= repeated[k].after + 1
    BY DEF FinalNewest
  <2>1. /\ initialised /\ repeated[k].state = current
        /\ Len(delivered) + Len(inHand) <= repeated[k].after + 1
    BY DEF NewestInv
  <2>2. pc \in {"finalDone", "joinPublisher", "stopped"}
    <3>1. repeated # <<>>
      OBVIOUS
    <3>. QED BY <3>1 DEF NewestInv
  <2>3. opt = "none"
    BY <2>2 DEF EstimatorInv, JoinedAtStop
  <2>4. Published(current) /\ NoNewer(current)
    BY <2>1, <2>2, <2>3 DEF NewestInv
  <2>5. ASSUME NEW s, Among(s, handled)
        PROVE  \A x \in ToSet(s) : x <= current
    BY <2>4, <2>5 DEF Among, NoNewer, ToSet
  <2>6. \A s : Member(current, s) => current \in ToSet(s)
    BY DEF Member, ToSet
  <2>. QED BY <2>1, <2>4, <2>5, <2>6 DEF Published, PublishInv
<1>. QED BY <1>1, PublishInvariant, EstimatorInvariant, NewestInvariant, PTL

(* ------------------------------------------------------------------------- *)
(* The IMU samples.  Deque and queue together are one run without a gap that *)
(* ends at the last sample read, and its oldest sample is not younger than   *)
(* any image still to be propagated from or to.                              *)

Consecutive(s) == \A i \in 1 .. Len(s) - 1 : s[i + 1] = s[i] + 1
NoSample == imuQ = <<>> /\ deque = <<>>
Newest   == IF imuQ # <<>> THEN Last(imuQ) ELSE Last(deque)

RunInv ==
  /\ Consecutive(deque) /\ Consecutive(imuQ)
  /\ deque # <<>> /\ imuQ # <<>> => Head(imuQ) = Last(deque) + 1
  /\ reader = "parked" => blocking
  /\ reader # "parked" /\ ~NoSample => Newest = nextImu - 1
  /\ blocking /\ ~NoSample => nextImu - 1 > FrameTimes[1] + Skip

OldestBy(x) == IF deque # <<>> THEN Head(deque) <= x
                               ELSE imuQ # <<>> /\ Head(imuQ) <= x

FrontInv ==
  /\ firstFrame /\ pc # "collect" => deque = <<>>
  /\ firstFrame => last = 0 /\ current = 0
  /\ ~firstFrame => deque # <<>>
  /\ pc \in {"copy", "tooOld", "checkBack"} => firstFrame
  /\ pc \in {"joinIdle", "detect", "joinOpt", "match"} => ~firstFrame
  /\ pc = "copy" => OldestBy(imuSeen)
  /\ pc \in {"checkBack", "collect"} => OldestBy(frame)
  /\ pc = "collect" /\ firstFrame => Newest >= frame + Overlap
  /\ pc \in {"detect", "joinOpt", "match"} =>
       Head(deque) <= frame /\ Last(deque) >= frame + Overlap

StatesInv ==
  /\ last # 0 => Head(deque) <= last
  /\ current # 0 => Head(deque) <= current /\ Member(current, handled)
  /\ ~firstFrame /\ pc # "detect" =>
       \E k \in DOMAIN handled : Head(deque) <= handled[k]
  /\ pc \in {"joinOpt", "match"} => Member(frame, handled)
  /\ pc = "joinOpt" => current < frame

CoverInv == RunInv /\ FrontInv /\ StatesInv

(* Behind a blocking reader an image only arrives with the samples it needs, *)
(* and what stopThreading finds it leaves processed.                         *)
Ended == {"joinLast", "final", "finalCall", "finalDone", "joinPublisher",
          "stopped"}

Arrived == \A i \in 1 .. nextFrame - 1 :
             \/ \E k \in DOMAIN camQ : FrameTimes[i] = camQ[k]
             \/ FrameTimes[i] \in tooOld
             \/ Member(FrameTimes[i], handled)

DrainInv ==
  /\ stopping \/ pc \in Ended => reader = "done"
  /\ pc \in Ended => camQ = <<>>
  /\ stopping => /\ pc \in {"joinIdle", "joinOpt", "match"} => camQ = <<>>
                 /\ pc = "returned" /\ ~result => camQ = <<>>
  /\ reader = "image" => nextImu - 1 > FrameTimes[nextFrame] + Lead
  /\ reader # "parked" /\ camQ # <<>> => nextImu - 1 > camQ[1] + Lead
  /\ reader # "parked" /\ NoSample => nextImu - 1 <= FrameTimes[1] + Lead
  /\ Arrived

(* What the samples need of the types.                                       *)
CoverTyped ==
  /\ imuQ \in Seq(Nat) /\ deque \in Seq(Nat) /\ camQ \in Seq(Nat)
  /\ handled \in Seq(Nat) /\ frame \in Nat /\ current \in Nat /\ last \in Nat
  /\ imuSeen \in Nat /\ nextImu \in Nat /\ nextFrame \in Nat \ {0}
  /\ blocking \in BOOLEAN
  /\ pc \in {"joinOpt", "match", "detect"} => frame > 0
  /\ Overlap \in Nat /\ Lead \in Nat /\ Overlap <= Lead /\ Skip \in Int

(* So do those of the measurements.                                          *)
LEMMA TypesOfCover ==
  SensorInv /\ InputType /\ ControlInv /\ LedgerType => CoverTyped
<1>. SUFFICES ASSUME SensorInv, InputType, ControlInv, LedgerType
              PROVE  CoverTyped
  OBVIOUS
<1>1. Images \subseteq Nat /\ Images \subseteq Nat \ {0} /\ LastImu \in Nat
  BY Bounds
<1>2. Samples \subseteq Nat
  BY <1>1 DEF Samples
<1>3. /\ imuQ \in Seq(Nat) /\ deque \in Seq(Nat) /\ camQ \in Seq(Nat)
      /\ handled \in Seq(Nat)
  BY <1>1, <1>2, SeqMonotonic DEF InputType, LedgerType
<1>4. /\ frame \in Nat /\ current \in Nat /\ last \in Nat
      /\ pc \in {"joinOpt", "match", "detect"} => frame > 0
  BY <1>1 DEF ControlInv, ControlType, ProcessSupplied, Working
<1>5. /\ imuSeen \in Nat /\ nextImu \in Nat /\ nextFrame \in Nat \ {0}
      /\ blocking \in BOOLEAN
  BY <1>1, <1>2, Bounds DEF InputType, SensorInv, SensorType
<1>6. Overlap \in Nat /\ Lead \in Nat /\ Overlap <= Lead /\ Skip \in Int
  BY StreamAssumption
<1>. QED BY <1>3, <1>4, <1>5, <1>6 DEF CoverTyped

(* The numbers of the stream.                                                *)
LEMMA FirstTime == FrameTimes[1] \in Nat /\ Skip \in Int /\ Lead \in Nat
<1>1. 1 \in 1 .. Len(FrameTimes)
  BY Bounds
<1>. QED BY <1>1, TimesIncrease, StreamAssumption

(* Samples without a gap: one more,                                          *)
LEMMA ConsecutiveAppend ==
  ASSUME NEW s \in Seq(Nat), NEW x \in Nat, Consecutive(s),
         s # <<>> => x = Last(s) + 1
  PROVE  /\ Append(s, x) \in Seq(Nat) /\ Append(s, x) # <<>>
         /\ Consecutive(Append(s, x)) /\ Last(Append(s, x)) = x
         /\ Head(Append(s, x)) = IF s = <<>> THEN x ELSE Head(s)
<1>. SUFFICES ASSUME NEW t, t = Append(s, x)
              PROVE  /\ t \in Seq(Nat) /\ t # <<>>
                     /\ Consecutive(t) /\ Last(t) = x
                     /\ Head(t) = IF s = <<>> THEN x ELSE Head(s)
  OBVIOUS
<1>1. /\ Len(s) \in Nat /\ t \in Seq(Nat) /\ Len(t) = Len(s) + 1
      /\ \A i \in 1 .. Len(s) : t[i] = s[i]
      /\ t[Len(s) + 1] = x /\ t # <<>>
  OBVIOUS
<1>2. Last(t) = x
  BY <1>1 DEF Last
<1>3. Head(t) = IF s = <<>> THEN x ELSE Head(s)
  <2>1. Head(t) = t[1]
    BY <1>1
  <2>2. CASE s = <<>>
    BY <1>1, <2>1, <2>2
  <2>3. CASE s # <<>>
    <3>1. Len(s) >= 1 /\ Head(s) = s[1]
      BY <1>1, <2>3
    <3>. QED BY <1>1, <2>1, <2>3, <3>1
  <2>. QED BY <2>2, <2>3
<1>4. Consecutive(t)
  <2>. SUFFICES ASSUME NEW i \in 1 .. Len(s) PROVE t[i + 1] = t[i] + 1
    BY <1>1 DEF Consecutive
  <2>1. CASE i = Len(s)
    <3>1. s # <<>> /\ Last(s) = s[Len(s)]
      BY <1>1 DEF Last
    <3>. QED BY <1>1, <2>1, <3>1
  <2>2. CASE i # Len(s)
    <3>1. i \in 1 .. Len(s) - 1 /\ i + 1 \in 1 .. Len(s)
      BY <1>1, <2>2
    <3>. QED BY <1>1, <3>1 DEF Consecutive
  <2>. QED BY <2>1, <2>2
<1>. QED BY <1>1, <1>2, <1>3, <1>4

(* and one fewer.                                                            *)
LEMMA ConsecutiveTail ==
  ASSUME NEW s \in Seq(Nat), s # <<>>, Consecutive(s)
  PROVE  /\ Tail(s) \in Seq(Nat) /\ Consecutive(Tail(s))
         /\ Head(s) \in Nat /\ Last(s) \in Nat
         /\ IF Tail(s) = <<>>
              THEN Last(s) = Head(s)
              ELSE Last(Tail(s)) = Last(s) /\ Head(Tail(s)) = Head(s) + 1
<1>. SUFFICES ASSUME NEW t, t = Tail(s)
              PROVE  /\ t \in Seq(Nat) /\ Consecutive(t)
                     /\ Head(s) \in Nat /\ Last(s) \in Nat
                     /\ IF t = <<>>
                          THEN Last(s) = Head(s)
                          ELSE Last(t) = Last(s) /\ Head(t) = Head(s) + 1
  OBVIOUS
<1>1. /\ t \in Seq(Nat) /\ Len(s) \in Nat \ {0} /\ Len(t) = Len(s) - 1
      /\ \A i \in 1 .. Len(s) - 1 : t[i] = s[i + 1]
      /\ Head(s) = s[1] /\ s[1] \in Nat /\ s[Len(s)] \in Nat
  OBVIOUS
<1>2. Consecutive(t)
  <2>. SUFFICES ASSUME NEW i \in 1 .. Len(s) - 2 PROVE t[i + 1] = t[i] + 1
    BY <1>1 DEF Consecutive
  <2>1. /\ i + 1 \in 1 .. Len(s) - 1 /\ i \in 1 .. Len(s) - 1
        /\ i + 1 \in Nat
    BY <1>1
  <2>2. t[i] = s[i + 1] /\ t[i + 1] = s[(i + 1) + 1]
    BY <1>1, <2>1
  <2>. QED BY <2>1, <2>2 DEF Consecutive
<1>3. CASE t = <<>>
  <2>1. \A q \in Seq(Nat) : q = <<>> => Len(q) = 0
    OBVIOUS
  <2>2. Len(s) = 1
    BY <1>1, <1>3, <2>1
  <2>. QED BY <1>1, <1>2, <1>3, <2>2 DEF Last
<1>4. CASE t # <<>>
  <2>1. Len(s) - 1 \in 1 .. Len(s) - 1 /\ 1 \in 1 .. Len(s) - 1
    BY <1>1, <1>4
  <2>2. Last(t) = s[Len(s)] /\ Head(t) = s[1 + 1]
    BY <1>1, <1>4, <2>1 DEF Last
  <2>3. s[1 + 1] = s[1] + 1
    BY <2>1 DEF Consecutive
  <2>. QED BY <1>1, <1>2, <1>4, <2>2, <2>3 DEF Last
<1>. QED BY <1>3, <1>4

(* Trimming to a time that the deque reaches back to keeps that and the end. *)
LEMMA TrimKeeps ==
  ASSUME NEW d \in Seq(Nat), d # <<>>, Consecutive(d), NEW t \in Nat,
         Head(d) <= t
  PROVE  /\ Trim(d, t) \in Seq(Nat) /\ Trim(d, t) # <<>>
         /\ Consecutive(Trim(d, t)) /\ Head(Trim(d, t)) <= t
         /\ Last(Trim(d, t)) = Last(d)
<1>. DEFINE old == {i \in DOMAIN d : d[i] <= t - Overlap}
            k == CHOOSE i \in old : \A j \in old : j <= i
<1>1. CASE old = {}
  BY <1>1 DEF Trim
<1>2. CASE old # {}
  <2>1. Trim(d, t) = SubSeq(d, k, Len(d))
    BY <1>2 DEF Trim
  <2>2. \E i \in old : \A j \in old : j <= i
    BY <1>2, LargestIndex
  <2>3. k \in 1 .. Len(d) /\ d[k] <= t - Overlap
    BY <2>2
  <2>. HIDE DEF k
  <2>. SUFFICES ASSUME NEW r, r = SubSeq(d, k, Len(d))
                PROVE  /\ r \in Seq(Nat) /\ r # <<>> /\ Consecutive(r)
                       /\ Head(r) <= t /\ Last(r) = Last(d)
    BY <2>1
  <2>4. Len(d) \in Nat /\ Overlap \in Nat /\ d[k] \in Nat
    BY <2>3, StreamAssumption, SMTT(30)
  <2>5. /\ r \in Seq(Nat) /\ Len(r) = Len(d) - k + 1
        /\ \A i \in 1 .. Len(d) - k + 1 : r[i] = d[k + i - 1]
    <3>1. \A i \in k .. Len(d) : d[i] \in Nat
      BY <2>3
    <3>2. k \in Int /\ Len(d) \in Int /\ k <= Len(d)
      BY <2>3, <2>4
    <3>3. SubSeq(d, k, Len(d)) \in Seq(Nat)
      BY <3>1, <3>2, SubSeqProperties
    <3>4. Len(SubSeq(d, k, Len(d))) = Len(d) - k + 1
      BY <3>1, <3>2, SubSeqProperties
    <3>5. \A i \in 1 .. Len(d) - k + 1 :
            SubSeq(d, k, Len(d))[i] = d[k + i - 1]
      BY <3>1, <3>2, SubSeqProperties
    <3>. QED BY <3>3, <3>4, <3>5
  <2>6. /\ 1 \in 1 .. Len(d) - k + 1 /\ k + 1 - 1 = k
        /\ Len(d) - k + 1 \in 1 .. Len(d) - k + 1
        /\ k + (Len(d) - k + 1) - 1 = Len(d)
    BY <2>3, <2>4
  <2>7. r # <<>> /\ Head(r) = d[k] /\ Last(r) = d[Len(d)]
    BY <2>5, <2>6 DEF Last
  <2>8. Consecutive(r)
    <3>. SUFFICES ASSUME NEW i \in 1 .. Len(d) - k PROVE r[i + 1] = r[i] + 1
      BY <2>3, <2>4, <2>5 DEF Consecutive
    <3>1. /\ i \in 1 .. Len(d) - k + 1 /\ i + 1 \in 1 .. Len(d) - k + 1
          /\ k + (i + 1) - 1 = (k + i - 1) + 1
          /\ k + i - 1 \in 1 .. Len(d) - 1
      BY <2>3, <2>4
    <3>2. r[i] = d[k + i - 1] /\ r[i + 1] = d[(k + i - 1) + 1]
      BY <2>5, <3>1
    <3>. QED BY <3>1, <3>2 DEF Consecutive
  <2>. QED BY <2>3, <2>4, <2>5, <2>7, <2>8 DEF Last
<1>. QED BY <1>1, <1>2

(* The next sample comes to the back of the queue.                           *)
LEMMA SampleArrives ==
  ASSUME RunInv, CoverTyped, reader # "parked",
         imuQ' = Append(imuQ, nextImu), nextImu' = nextImu + 1,
         UNCHANGED <<deque, blocking>>, reader' # "parked",
         blocking => nextImu > FrameTimes[1] + Skip
  PROVE  /\ RunInv' /\ ~NoSample'
         /\ ~NoSample =>
              Newest' >= Newest /\ Newest' \in Int /\ Newest \in Int
         /\ \A x \in Nat : OldestBy(x) => OldestBy(x)'
<1>1. nextImu \in Nat /\ imuQ \in Seq(Nat) /\ deque \in Seq(Nat)
  BY DEF CoverTyped
<1>2. FrameTimes[1] \in Nat /\ Skip \in Int
  BY FirstTime
<1>3. imuQ # <<>> => nextImu = Last(imuQ) + 1
  <2>1. imuQ # <<>> => Last(imuQ) = nextImu - 1 /\ Last(imuQ) \in Nat
    BY <1>1, ConsecutiveTail DEF RunInv, NoSample, Newest
  <2>. QED BY <1>1, <2>1
<1>4. /\ imuQ' # <<>> /\ Consecutive(imuQ') /\ Last(imuQ') = nextImu
      /\ Head(imuQ') = IF imuQ = <<>> THEN nextImu ELSE Head(imuQ)
  BY <1>1, <1>3, ConsecutiveAppend DEF RunInv
<1>5. deque # <<>> /\ imuQ = <<>> => nextImu = Last(deque) + 1
  <2>1. deque # <<>> /\ imuQ = <<>>
          => Last(deque) = nextImu - 1 /\ Last(deque) \in Nat
    BY <1>1, ConsecutiveTail DEF RunInv, NoSample, Newest
  <2>. QED BY <1>1, <2>1
<1>6. ~NoSample' /\ Newest' = nextImu
  BY <1>4 DEF NoSample, Newest
<1>7. RunInv'
  <2>1. Newest' = nextImu' - 1
    BY <1>1, <1>6
  <2>2. blocking' => nextImu' - 1 > FrameTimes[1] + Skip
    BY <1>1, <1>2
  <2>. QED BY <1>4, <1>5, <1>6, <2>1, <2>2 DEF RunInv
<1>8. ~NoSample => Newest' >= Newest /\ Newest' \in Int /\ Newest \in Int
  <2>1. ~NoSample => Newest = nextImu - 1
    BY DEF RunInv
  <2>. QED BY <1>1, <1>6, <2>1
<1>9. \A x \in Nat : OldestBy(x) => OldestBy(x)'
  BY <1>4 DEF OldestBy
<1>. QED BY <1>6, <1>7, <1>8, <1>9

(* The oldest sample of the queue comes to the back of the deque.            *)
LEMMA SampleCollected ==
  ASSUME RunInv, CoverTyped, imuQ # <<>>,
         deque' = Append(deque, Head(imuQ)), imuQ' = Tail(imuQ),
         UNCHANGED <<reader, nextImu, blocking>>
  PROVE  /\ RunInv' /\ ~NoSample' /\ deque' # <<>> /\ Newest' = Newest
         /\ deque # <<>> => Head(deque') = Head(deque)
         /\ \A x \in Nat : OldestBy(x) => OldestBy(x)'
<1>1. imuQ \in Seq(Nat) /\ deque \in Seq(Nat)
  BY DEF CoverTyped
<1>2. /\ imuQ' \in Seq(Nat) /\ Consecutive(imuQ') /\ Head(imuQ) \in Nat
      /\ IF imuQ' = <<>>
           THEN Last(imuQ) = Head(imuQ)
           ELSE Last(imuQ') = Last(imuQ) /\ Head(imuQ') = Head(imuQ) + 1
  BY <1>1, ConsecutiveTail DEF RunInv
<1>3. deque # <<>> => Head(imuQ) = Last(deque) + 1
  BY DEF RunInv
<1>4. /\ deque' \in Seq(Nat) /\ deque' # <<>> /\ Consecutive(deque')
      /\ Last(deque') = Head(imuQ)
      /\ Head(deque') = IF deque = <<>> THEN Head(imuQ) ELSE Head(deque)
  BY <1>1, <1>2, <1>3, ConsecutiveAppend DEF RunInv
<1>5. ~NoSample' /\ ~NoSample /\ Newest' = Newest
  BY <1>2, <1>4 DEF NoSample, Newest
<1>6. RunInv'
  BY <1>2, <1>4, <1>5 DEF RunInv
<1>7. \A x \in Nat : OldestBy(x) => OldestBy(x)'
  BY <1>4 DEF OldestBy
<1>. QED BY <1>4, <1>5, <1>6, <1>7

(* The deque is trimmed to a time it reaches back to.                        *)
LEMMA DequeTrimmed ==
  ASSUME RunInv, CoverTyped, NEW t \in Nat, deque # <<>>, Head(deque) <= t,
         deque' = Trim(deque, t), UNCHANGED <<imuQ, reader, nextImu, blocking>>
  PROVE  /\ RunInv' /\ deque' # <<>> /\ Last(deque') = Last(deque)
         /\ Head(deque') <= t /\ Head(deque') \in Nat
<1>1. /\ deque' \in Seq(Nat) /\ deque' # <<>> /\ Consecutive(deque')
      /\ Last(deque') = Last(deque) /\ Head(deque') <= t
  BY TrimKeeps DEF RunInv, CoverTyped
<1>2. Head(deque') \in Nat
  BY <1>1
<1>3. Newest' = Newest /\ ~NoSample' /\ ~NoSample
  BY <1>1 DEF Newest, NoSample
<1>4. RunInv'
  BY <1>1, <1>3 DEF RunInv
<1>. QED BY <1>1, <1>2, <1>4

(* The sensors' steps, as the rest of the pipeline sees them.                *)
RoomForImu == SenseImu => Len(imuQ) < ImuCap

(* While the IMU queue has room, sensors append the next sample.             *)
LEMMA CoverSensors ==
  ASSUME CoverInv, CoverTyped, RoomForImu, Sensors \/ SenseImu \/ SenseImage
  PROVE  CoverInv'
<1>1. UNCHANGED <<blocking, pc, deque, frame, imuSeen, firstFrame, last,
                  current, handled>>
  BY DEF Sensors, ReadImu, EndOfImu, ReadImage, SenseImu, SenseImage, process,
     estimator, ledger
<1>2. StatesInv'
  BY <1>1 DEF CoverInv, StatesInv, Member
<1>3. CASE imuQ' = imuQ
  <2>1. RunInv'
    <3>1. CASE ReadImu
      <4>1. blocking /\ ~NoSample => nextImu' - 1 > FrameTimes[1] + Skip
        BY <3>1, FirstTime DEF ReadImu, CoverInv, RunInv, CoverTyped
      <4>2. reader' # "parked" /\ ~NoSample => Newest = nextImu' - 1
        <5>1. reader' # "parked" => NoSample
          <6>. SUFFICES ASSUME reader' # "parked", ~NoSample PROVE FALSE
            OBVIOUS
          <6>1. nextImu > FrameTimes[1] + Skip /\ Len(imuQ) < ImuCap
            <7>1. nextImu - 1 > FrameTimes[1] + Skip
              BY <3>1 DEF ReadImu, CoverInv, RunInv
            <7>2. nextImu > FrameTimes[1] + Skip
              BY <7>1, FirstTime DEF CoverTyped
            <7>. QED BY <3>1, <7>2 DEF ReadImu
          <6>2. imuQ' = Append(imuQ, nextImu)
            BY <3>1, <6>1 DEF ReadImu
          <6>. QED BY <1>3, <6>2 DEF CoverTyped
        <5>. QED BY <5>1
      <4>3. blocking
        BY <3>1 DEF ReadImu
      <4>. QED BY <1>1, <1>3, <4>1, <4>2, <4>3
           DEF CoverInv, RunInv, NoSample, Newest
    <3>2. CASE EndOfImu \/ ReadImage \/ SenseImage
      <4>1. /\ UNCHANGED nextImu
            /\ reader' = "parked" <=> reader = "parked"
        BY <3>2 DEF EndOfImu, ReadImage, SenseImage
      <4>. QED BY <1>1, <1>3, <4>1 DEF CoverInv, RunInv, NoSample, Newest
    <3>3. CASE SenseImu
      <4>1. imuQ' = Append(imuQ, nextImu)
        BY <3>3 DEF SenseImu, RoomForImu, PushDropping
      <4>. QED BY <1>3, <4>1 DEF CoverTyped
    <3>. QED BY <3>1, <3>2, <3>3 DEF Sensors
  <2>2. FrontInv'
    BY <1>1, <1>3 DEF CoverInv, FrontInv, OldestBy, Newest
  <2>. QED BY <1>2, <2>1, <2>2 DEF CoverInv
<1>4. CASE imuQ' # imuQ
  <2>1. /\ imuQ' = Append(imuQ, nextImu) /\ nextImu' = nextImu + 1
        /\ reader # "parked" /\ reader' # "parked"
        /\ blocking => nextImu > FrameTimes[1] + Skip
    <3>1. CASE ReadImu
      BY <1>4, <3>1 DEF ReadImu
    <3>2. CASE EndOfImu \/ ReadImage \/ SenseImage
      BY <1>4, <3>2 DEF EndOfImu, ReadImage, SenseImage
    <3>3. CASE SenseImu
      BY <3>3 DEF SenseImu, RoomForImu, PushDropping, CoverInv, RunInv
    <3>. QED BY <3>1, <3>2, <3>3 DEF Sensors
  <2>2. /\ RunInv' /\ ~NoSample'
        /\ ~NoSample =>
             Newest' >= Newest /\ Newest' \in Int /\ Newest \in Int
        /\ \A x \in Nat : OldestBy(x) => OldestBy(x)'
    BY <1>1, <2>1, SampleArrives DEF CoverInv
  <2>3. FrontInv'
    BY <1>1, <2>2 DEF CoverInv, FrontInv, CoverTyped, OldestBy, NoSample
  <2>. QED BY <1>2, <2>2, <2>3 DEF CoverInv
<1>. QED BY <1>3, <1>4

(* processFrame's steps until the image is popped.                           *)
LEMMA CoverTakesImage ==
  ASSUME CoverInv, CoverTyped, AccountInv,
         \/ PeekImu \/ CopyImage \/ JoinIdle \/ DropTooOld \/ CheckBack
         \/ CollectImu
  PROVE  CoverInv'
<1>. USE DEF CoverInv, Return
<1>1. UNCHANGED <<blocking, reader, nextImu, last, current, handled>>
  BY DEF PeekImu, CopyImage, JoinIdle, DropTooOld, CheckBack, CollectImu,
     sensors, estimator, ledger
<1>2. ASSUME UNCHANGED <<imuQ, deque>> PROVE RunInv'
  BY <1>1, <1>2 DEF RunInv, NoSample, Newest
<1>3. ASSUME UNCHANGED <<deque, firstFrame>>, pc # "detect",
             pc' \notin {"joinOpt", "match"}
      PROVE  StatesInv'
  BY <1>1, <1>3 DEF StatesInv, Member
<1>4. CASE PeekImu
  <2>1. deque = <<>> /\ firstFrame
    BY <1>4 DEF PeekImu, FrontInv
  <2>2. imuQ # <<>> => Head(imuQ) <= Head(imuQ)
    BY DEF CoverTyped
  <2>3. FrontInv'
    BY <1>1, <1>4, <2>1, <2>2 DEF PeekImu, FrontInv, OldestBy
  <2>. QED BY <1>2, <1>3, <1>4, <2>3 DEF PeekImu
<1>5. CASE CopyImage
  <2>1. UNCHANGED <<imuQ, deque, firstFrame, imuSeen>>
    BY <1>5 DEF CopyImage
  <2>2. ASSUME camQ # <<>>, ~firstFrame PROVE OldestBy(Head(camQ))
    <3>1. deque # <<>> /\ Head(deque) \in Nat
      BY <2>2 DEF FrontInv, CoverTyped
    <3>2. PICK k \in DOMAIN handled : Head(deque) <= handled[k]
      BY <1>5, <2>2 DEF StatesInv, CopyImage
    <3>3. /\ Head(camQ) \in Nat /\ handled[k] \in Nat
          /\ handled[k] < Head(camQ)
      <4>1. Head(camQ) = camQ[1] /\ 1 \in DOMAIN camQ /\ Head(camQ) \in Nat
        BY <2>2 DEF CoverTyped
      <4>2. handled[k] < camQ[1]
        BY <4>1 DEF AccountInv, OrderInv, Beyond
      <4>. QED BY <4>1, <4>2 DEF CoverTyped
    <3>. QED BY <3>1, <3>2, <3>3 DEF OldestBy
  <2>3. ASSUME camQ # <<>>, firstFrame, ~(Head(camQ) - Overlap <= imuSeen)
        PROVE  OldestBy(Head(camQ))
    <3>1. pc = "copy" /\ deque = <<>> /\ imuQ # <<>> /\ Head(imuQ) <= imuSeen
      BY <1>5, <2>3 DEF CopyImage, FrontInv, OldestBy
    <3>2. /\ Head(camQ) \in Nat /\ imuSeen \in Nat /\ Overlap \in Nat
          /\ Head(imuQ) \in Nat
      BY <2>3, <3>1 DEF CoverTyped
    <3>. QED BY <2>3, <3>1, <3>2 DEF OldestBy
  <2>4. FrontInv'
    <3>1. CASE camQ = <<>>
      BY <1>1, <1>5, <2>1, <3>1 DEF CopyImage, FrontInv
    <3>2. CASE camQ # <<>> /\ ~firstFrame
      <4>1. OldestBy(frame)' /\ pc' = "collect"
        BY <1>5, <2>1, <2>2, <3>2 DEF CopyImage, OldestBy
      <4>. QED BY <1>1, <2>1, <3>2, <4>1 DEF FrontInv
    <3>3. CASE camQ # <<>> /\ firstFrame
      <4>1. /\ pc' \in {"tooOld", "checkBack"}
            /\ pc' = "checkBack" => OldestBy(frame)'
        BY <1>5, <2>1, <2>3, <3>3 DEF CopyImage, OldestBy
      <4>2. deque = <<>>
        BY <1>5, <3>3 DEF CopyImage, FrontInv
      <4>. QED BY <1>1, <2>1, <3>3, <4>1, <4>2 DEF FrontInv
    <3>. QED BY <3>1, <3>2, <3>3
  <2>5. StatesInv'
    BY <1>3, <1>5, <2>1 DEF CopyImage
  <2>. QED BY <1>2, <2>1, <2>4, <2>5
<1>6. CASE JoinIdle \/ DropTooOld
  <2>1. /\ UNCHANGED <<imuQ, deque, firstFrame>> /\ pc' = "returned"
        /\ pc \in {"joinIdle", "tooOld"}
    BY <1>6 DEF JoinIdle, DropTooOld
  <2>2. FrontInv'
    BY <1>1, <2>1 DEF FrontInv
  <2>. QED BY <1>2, <1>3, <2>1, <2>2
<1>7. CASE CheckBack
  <2>1. /\ UNCHANGED <<imuQ, deque, firstFrame>> /\ pc = "checkBack"
        /\ \/ pc' = "returned"
           \/ /\ pc' = "collect" /\ frame' = frame /\ imuQ # <<>>
              /\ ~(Last(imuQ) < frame + Overlap)
    BY <1>7 DEF CheckBack
  <2>2. FrontInv'
    <3>1. CASE pc' = "returned"
      BY <1>1, <2>1, <3>1 DEF FrontInv
    <3>2. CASE pc' = "collect"
      <4>1. Last(imuQ) \in Nat
        BY <2>1, <3>2, ConsecutiveTail DEF RunInv, CoverTyped
      <4>2. Newest >= frame + Overlap
        BY <2>1, <3>2, <4>1 DEF Newest, CoverTyped
      <4>. QED BY <1>1, <2>1, <3>2, <4>2 DEF FrontInv, OldestBy, Newest
    <3>. QED BY <2>1, <3>1, <3>2
  <2>. QED BY <1>2, <1>3, <2>1, <2>2
<1>8. CASE CollectImu
  <2>1. pc = "collect" /\ OldestBy(frame)
    BY <1>8 DEF CollectImu, FrontInv
  <2>2. CASE deque # <<>> /\ Last(deque) >= frame + Overlap
    <3>1. /\ UNCHANGED <<imuQ, deque, frame>> /\ pc' = "detect" /\ ~firstFrame'
      BY <1>8, <2>2 DEF CollectImu
    <3>2. FrontInv'
      BY <1>1, <2>1, <2>2, <3>1 DEF FrontInv, OldestBy
    <3>3. StatesInv'
      BY <1>1, <3>1 DEF StatesInv, Member
    <3>. QED BY <1>2, <3>1, <3>2, <3>3
  <2>3. CASE ~(deque # <<>> /\ Last(deque) >= frame + Overlap) /\ imuQ = <<>>
    <3>1. UNCHANGED <<imuQ, deque, firstFrame>> /\ pc' = "returned"
      BY <1>8, <2>3 DEF CollectImu
    <3>2. ~firstFrame
      BY <2>1, <2>3 DEF FrontInv, OldestBy, Newest
    <3>3. FrontInv'
      BY <1>1, <3>1, <3>2 DEF FrontInv
    <3>. QED BY <1>2, <1>3, <2>1, <3>1, <3>3
  <2>4. CASE /\ ~(deque # <<>> /\ Last(deque) >= frame + Overlap)
             /\ imuQ # <<>>
    <3>1. /\ deque' = Append(deque, Head(imuQ)) /\ imuQ' = Tail(imuQ)
          /\ UNCHANGED <<pc, frame, firstFrame>>
      BY <1>8, <2>4 DEF CollectImu
    <3>2. /\ RunInv' /\ deque' # <<>> /\ Newest' = Newest
          /\ deque # <<>> => Head(deque') = Head(deque)
          /\ \A x \in Nat : OldestBy(x) => OldestBy(x)'
      BY <1>1, <2>4, <3>1, SampleCollected
    <3>3. OldestBy(frame)'
      BY <2>1, <3>1, <3>2 DEF CoverTyped, OldestBy
    <3>4. FrontInv'
      BY <1>1, <2>1, <3>1, <3>2, <3>3 DEF FrontInv
    <3>5. StatesInv'
      BY <1>1, <2>1, <3>1, <3>2 DEF StatesInv, FrontInv, Member
    <3>. QED BY <3>2, <3>4, <3>5
  <2>. QED BY <2>2, <2>3, <2>4
<1>. QED BY <1>4, <1>5, <1>6, <1>7, <1>8

(* processFrame's steps from the pop on.                                     *)
LEMMA CoverUsesImage ==
  ASSUME CoverInv, CoverTyped, AccountInv,
         PopImage \/ JoinOpt \/ Match \/ MatchFails
  PROVE  CoverInv'
<1>. USE DEF CoverInv, Return
<1>1. UNCHANGED <<blocking, reader, nextImu, imuQ, firstFrame>>
  BY DEF PopImage, JoinOpt, Match, MatchFails, sensors
<1>2. ASSUME UNCHANGED deque PROVE RunInv'
  BY <1>1, <1>2 DEF RunInv, NoSample, Newest
<1>3. ~firstFrame /\ deque # <<>> /\ Head(deque) \in Nat
  <2>1. ~firstFrame /\ deque # <<>>
    BY DEF FrontInv, PopImage, JoinOpt, Match, MatchFails
  <2>. QED BY <2>1 DEF CoverTyped
<1>4. CASE PopImage
  <2>1. /\ handled' = Append(handled, frame) /\ pc = "detect"
        /\ UNCHANGED <<deque, last, current>>
        /\ \/ pc' = "returned"
           \/ pc' = "joinOpt" /\ frame' = frame
    BY <1>4 DEF PopImage, estimator
  <2>2. /\ \A x : Member(x, handled) => Member(x, handled')
        /\ Member(frame, handled')
        /\ \E k \in DOMAIN handled' : handled'[k] = frame
        /\ \A x : Member(x, handled) => x < frame
    <3>1. /\ \A k \in DOMAIN handled :
               k \in DOMAIN handled' /\ handled'[k] = handled[k]
          /\ Len(handled) + 1 \in DOMAIN handled'
          /\ handled'[Len(handled) + 1] = frame
      BY <2>1 DEF CoverTyped
    <3>2. \A k \in DOMAIN handled : handled[k] < frame
      BY <2>1 DEF AccountInv, OrderInv, Holding, Beyond
    <3>. QED BY <3>1, <3>2 DEF Member
  <2>3. FrontInv'
    BY <1>1, <1>3, <2>1 DEF FrontInv
  <2>4. StatesInv'
    <3>1. Head(deque) <= frame
      BY <2>1 DEF FrontInv
    <3>2. current < frame
      BY <2>1, <2>2 DEF StatesInv, CoverTyped
    <3>. QED BY <1>1, <2>1, <2>2, <3>1, <3>2 DEF StatesInv
  <2>. QED BY <1>2, <2>1, <2>3, <2>4
<1>5. CASE JoinOpt
  <2>1. /\ pc = "joinOpt" /\ pc' = "match"
        /\ UNCHANGED <<frame, current, handled>>
        /\ last' = IF current # 0 THEN current ELSE last
        /\ deque' = IF current # 0 THEN Trim(deque, current) ELSE deque
    BY <1>5 DEF JoinOpt, estimator, ledger
  <2>2. /\ Member(frame, handled) /\ current < frame /\ frame \in Nat
        /\ Head(deque) <= frame /\ Last(deque) >= frame + Overlap
    BY <2>1 DEF StatesInv, FrontInv, CoverTyped
  <2>3. CASE current # 0
    <3>1. Head(deque) <= current /\ current \in Nat
      BY <2>3 DEF StatesInv, CoverTyped
    <3>2. /\ RunInv' /\ deque' # <<>> /\ Last(deque') = Last(deque)
          /\ Head(deque') <= current /\ Head(deque') \in Nat
      BY <1>1, <1>3, <2>1, <2>3, <3>1, DequeTrimmed
    <3>3. FrontInv'
      BY <1>1, <1>3, <2>1, <2>2, <3>1, <3>2 DEF FrontInv
    <3>4. StatesInv'
      BY <1>1, <2>1, <2>2, <2>3, <3>1, <3>2 DEF StatesInv, Member
    <3>. QED BY <3>2, <3>3, <3>4
  <2>4. CASE current = 0
    <3>1. UNCHANGED <<deque, last>>
      BY <2>1, <2>4
    <3>2. FrontInv'
      BY <1>1, <1>3, <2>1, <2>2, <3>1 DEF FrontInv
    <3>3. StatesInv'
      BY <1>1, <2>1, <2>2, <2>4, <3>1 DEF StatesInv, Member
    <3>. QED BY <1>2, <3>1, <3>2, <3>3
  <2>. QED BY <2>3, <2>4
<1>6. CASE Match \/ MatchFails
  <2>1. /\ pc = "match" /\ pc' = "returned" /\ current' \in {frame, 0}
        /\ UNCHANGED <<deque, last, handled>>
    BY <1>6 DEF Match, MatchFails, ledger
  <2>2. FrontInv'
    BY <1>1, <1>3, <2>1 DEF FrontInv
  <2>3. StatesInv'
    BY <1>1, <2>1 DEF StatesInv, FrontInv, Member
  <2>. QED BY <1>2, <2>1, <2>2, <2>3
<1>. QED BY <1>4, <1>5, <1>6

(* Every step keeps the samples of the deque without a gap.                  *)
LEMMA CoverStep ==
  ASSUME CoverInv, CoverTyped, AccountInv, RoomForImu, [Next]_vars
  PROVE  CoverInv'
<1>1. ASSUME UNCHANGED <<blocking, nextImu, imuQ, deque, frame, imuSeen,
                         firstFrame, last, current, handled>>,
             (reader' = "parked") <=> (reader = "parked"),
             pc' = pc \/ pc' \in {"returned", "start"} \cup Ended,
             pc' # pc => pc # "detect" /\ pc # "collect"
      PROVE  CoverInv'
  <2>1. RunInv'
    BY <1>1 DEF CoverInv, RunInv, NoSample, Newest
  <2>2. FrontInv'
    BY <1>1 DEF CoverInv, FrontInv, OldestBy, Newest, Ended
  <2>3. StatesInv'
    BY <1>1 DEF CoverInv, StatesInv, Member, Ended
  <2>. QED BY <2>1, <2>2, <2>3 DEF CoverInv
<1>2. CASE Sensors \/ SenseImu \/ SenseImage
  BY <1>2, CoverSensors
<1>3. CASE Process
  BY <1>3, CoverTakesImage, CoverUsesImage DEF Process
<1>4. CASE AppLoop
  <2>1. /\ UNCHANGED <<blocking, nextImu, imuQ, process, estimator, ledger>>
        /\ pc = "returned" /\ pc' \in {"joinLast", "start"}
    BY <1>4 DEF AppLoop
  <2>2. (reader' = "parked") <=> (reader = "parked")
    BY <1>4 DEF AppLoop, CoverInv, RunInv
  <2>. QED BY <1>1, <2>1, <2>2 DEF process, estimator, ledger, Ended
<1>5. CASE JoinLast \/ FinalImport \/ FinalCallBack \/ Final
           \/ JoinPublisher \/ Optimise \/ Publisher
  BY <1>1, <1>5 DEF JoinLast, FinalImport, FinalCallBack, Final,
     JoinPublisher, Optimise, OptimisePublish,
     Marginalise, Publisher, TakePublication, CallBack, process, estimator,
     ledger, sensors, Ended
<1>6. CASE Stopped \/ UNCHANGED vars
  BY <1>1, <1>6 DEF Stopped, vars, process, estimator, ledger, sensors
<1>. QED BY <1>2, <1>3, <1>4, <1>5, <1>6 DEF Next, Stop

(* At the start there are none.                                              *)
LEMMA CoverInit == Init => CoverInv
BY DEF Init, CoverInv, RunInv, FrontInv, StatesInv, Consecutive, NoSample

(* What the invariant says of the image that is handled.                     *)
LEMMA CoverMeans == CoverInv /\ CoverTyped => PropagationCovered
<1>. SUFFICES ASSUME CoverInv, CoverTyped PROVE PropagationCovered
  OBVIOUS
<1>1. \A i \in 1 .. Len(deque) - 1 : deque[i + 1] = deque[i] + 1
  BY DEF CoverInv, RunInv, Consecutive
<1>2. pc \in {"detect", "match"} => Last(deque) >= frame
  <2>1. pc \in {"detect", "match"} =>
          deque # <<>> /\ Last(deque) >= frame + Overlap
    BY DEF CoverInv, FrontInv
  <2>2. deque # <<>> => Last(deque) \in Nat
    BY ConsecutiveTail DEF CoverInv, RunInv, CoverTyped
  <2>. QED BY <2>1, <2>2 DEF CoverTyped
<1>3. /\ last # 0 => Head(deque) <= last
      /\ current # 0 => Head(deque) <= current
  BY DEF CoverInv, StatesInv
<1>. QED BY <1>1, <1>2, <1>3 DEF PropagationCovered

(* As long as no IMU sample meets a full queue of a live system, whatever is *)
(* propagated is covered without a gap from the last state past the image,   *)
(* although the deque is trimmed to a state that an optimisation running     *)
(* besides has replaced (processFrame, ImuError::propagation).               *)
THEOREM CoveredWithoutDrops ==
  Spec /\ [][RoomForImu]_vars => []PropagationCovered
<1>1. CoverInv /\ CoverTyped /\ AccountInv /\ [Next]_vars
        /\ [RoomForImu]_vars => CoverInv'
  <2>. SUFFICES ASSUME CoverInv, CoverTyped, AccountInv, [Next]_vars,
                       [RoomForImu]_vars
                PROVE  CoverInv'
    OBVIOUS
  <2>1. CASE RoomForImu
    BY <2>1, CoverStep
  <2>2. CASE UNCHANGED vars
    <3>1. nextImu' = nextImu
      BY <2>2 DEF vars, sensors
    <3>2. ~SenseImu
      <4>1. nextImu \in Nat
        BY DEF CoverTyped
      <4>2. nextImu + 1 # nextImu
        BY <4>1
      <4>. QED BY <3>1, <4>2 DEF SenseImu
    <3>. QED BY <3>2, CoverStep DEF RoomForImu
  <2>. QED BY <2>1, <2>2
<1>. QED BY <1>1, CoverInit, CoverMeans, TypesOfCover, SensorInvariant,
            InputInvariant, ControlInvariant, LedgerInvariant,
            AccountInvariant, PTL DEF Spec

(* ------------------------------------------------------------------------- *)
(* Draining.  Behind a blocking reader an image is queued only after the     *)
(* samples past it, so a FALSE of processFrame means an empty queue.         *)

NoStartDelay == Skip <= Lead

(* The kind of reader does not change.                                       *)
LEMMA BlockingKept == [Next]_vars => blocking' = blocking
<1>. SUFFICES ASSUME [Next]_vars PROVE blocking' = blocking
  OBVIOUS
<1>1. CASE Sensors \/ SenseImu \/ SenseImage \/ Stop \/ Optimise \/ Publisher
           \/ Stopped \/ UNCHANGED vars
  BY <1>1 DEF Sensors, ReadImu, EndOfImu, ReadImage, SenseImu, SenseImage,
     Stop, AppLoop, JoinLast, FinalImport, FinalCallBack, Final,
     JoinPublisher, Optimise, OptimisePublish,
     Marginalise, Publisher, TakePublication, CallBack, Stopped, vars
<1>2. CASE Process
  BY <1>2 DEF Process, PeekImu, CopyImage, JoinIdle, DropTooOld, CheckBack,
     CollectImu, PopImage, JoinOpt, Match, MatchFails
<1>. QED BY <1>1, <1>2 DEF Next

(* Behind a blocking reader no sample is dropped.                            *)
LEMMA CoveredBehindReader == Spec => [](blocking => CoverInv)
<1>1. (blocking => CoverInv) /\ CoverTyped /\ AccountInv /\ [Next]_vars
        => (blocking => CoverInv)'
  <2>. SUFFICES ASSUME blocking => CoverInv, CoverTyped, AccountInv,
                       [Next]_vars, blocking'
                PROVE  CoverInv'
    OBVIOUS
  <2>1. blocking
    BY BlockingKept
  <2>2. RoomForImu
    BY <2>1 DEF RoomForImu, SenseImu
  <2>. QED BY <2>1, <2>2, CoverStep
<1>. QED BY <1>1, CoverInit, TypesOfCover, SensorInvariant, InputInvariant,
            ControlInvariant, LedgerInvariant, AccountInvariant, PTL DEF Spec

(* What the samples allow to say when a queued image is looked at.           *)
LEMMA SamplesReach ==
  ASSUME NoStartDelay, CoverInv, CoverTyped, DrainInv, InputType,
         reader # "parked", camQ # <<>>
  PROVE  /\ ~NoSample /\ Newest \in Nat
         /\ camQ[1] \in Nat /\ Newest > camQ[1] + Overlap
         /\ imuQ = <<>> => ~firstFrame \/ pc = "collect"
<1>1. /\ nextImu \in Nat /\ Lead \in Nat /\ Overlap \in Nat /\ Overlap <= Lead
      /\ FrameTimes[1] \in Nat
  BY FirstTime DEF CoverTyped
<1>2. camQ[1] \in Nat /\ camQ[1] >= FrameTimes[1]
  <2>1. 1 \in DOMAIN camQ /\ camQ[1] \in Images
    BY DEF InputType
  <2>2. PICK i \in DOMAIN FrameTimes : camQ[1] = FrameTimes[i]
    BY <2>1 DEF Images
  <2>3. /\ i \in 1 .. Len(FrameTimes) /\ 1 \in 1 .. Len(FrameTimes)
        /\ FrameTimes[i] \in Nat /\ FrameTimes[1] \in Nat
    BY <2>2, Bounds, TimesIncrease
  <2>4. i = 1 \/ FrameTimes[1] < FrameTimes[i]
    BY <2>3, TimesIncrease
  <2>. QED BY <2>2, <2>3, <2>4
<1>3. nextImu - 1 > camQ[1] + Lead
  BY DEF DrainInv
<1>4. ~NoSample
  BY <1>1, <1>2, <1>3 DEF DrainInv
<1>5. Newest = nextImu - 1
  BY <1>4 DEF CoverInv, RunInv
<1>6. imuQ = <<>> => ~firstFrame \/ pc = "collect"
  BY <1>4 DEF NoSample, CoverInv, FrontInv
<1>. QED BY <1>1, <1>2, <1>3, <1>4, <1>5, <1>6

(* The sensors behind a blocking reader.                                     *)
LEMMA DrainSensors ==
  ASSUME NoStartDelay, blocking, CoverInv, CoverTyped, DrainInv, SensorInv,
         Sensors
  PROVE  DrainInv'
<1>1. UNCHANGED <<pc, result, deque, stopping, tooOld, handled>>
  BY DEF Sensors, ReadImu, EndOfImu, ReadImage, process, ending, ledger
<1>2. ~stopping /\ pc \notin Ended
  BY DEF Sensors, ReadImu, EndOfImu, ReadImage, DrainInv
<1>3. /\ nextImu \in Nat /\ Lead \in Nat /\ FrameTimes[1] \in Nat
      /\ nextFrame \in Nat \ {0}
  BY FirstTime DEF CoverTyped
<1>4. CASE ReadImu
  <2>1. /\ UNCHANGED <<camQ, nextFrame>> /\ nextImu' = nextImu + 1
        /\ reader = "imu" /\ reader' \in {"imu", "image", "parked"}
    BY <1>4 DEF ReadImu
  <2>2. reader' = "image" => nextImu' - 1 > FrameTimes[nextFrame'] + Lead
    <3>1. FrameTimes[nextFrame] \in Nat
      <4>1. nextFrame \in 1 .. Len(FrameTimes)
        BY <1>3, <2>1, Bounds DEF SensorInv, ReaderSupplied
      <4>. QED BY <4>1, TimesIncrease
    <3>. QED BY <1>3, <1>4, <2>1, <3>1 DEF ReadImu
  <2>3. reader' # "parked" /\ camQ' # <<>> => nextImu' - 1 > camQ'[1] + Lead
    <3>1. camQ # <<>> => nextImu - 1 > camQ[1] + Lead
      BY <2>1 DEF DrainInv
    <3>2. camQ # <<>> => camQ[1] \in Nat
      BY DEF CoverTyped
    <3>. QED BY <1>3, <2>1, <3>1, <3>2
  <2>4. reader' # "parked" /\ NoSample'
          => nextImu' - 1 <= FrameTimes[1] + Lead
    <3>. SUFFICES ASSUME reader' # "parked", NoSample'
                  PROVE  nextImu <= FrameTimes[1] + Lead
      BY <1>3, <2>1
    <3>1. ~(nextImu > FrameTimes[1] + Skip)
      <4>. SUFFICES ASSUME nextImu > FrameTimes[1] + Skip PROVE FALSE
        OBVIOUS
      <4>1. imuQ' = Append(imuQ, nextImu)
        BY <1>4 DEF ReadImu
      <4>2. ASSUME NEW q \in Seq(Nat), NEW x \in Nat PROVE Append(q, x) # <<>>
        OBVIOUS
      <4>3. imuQ \in Seq(Nat) /\ nextImu \in Nat
        BY DEF CoverTyped
      <4>4. imuQ' # <<>>
        BY <4>1, <4>2, <4>3, Zenon
      <4>. QED BY <4>4 DEF NoSample
    <3>. QED BY <1>3, <3>1, FirstTime DEF NoStartDelay
  <2>5. Arrived'
    BY <1>1, <2>1 DEF DrainInv, Arrived, Member
  <2>. QED BY <1>1, <1>2, <2>2, <2>3, <2>4, <2>5 DEF DrainInv
<1>5. CASE EndOfImu
  <2>1. /\ UNCHANGED <<camQ, nextFrame, nextImu, imuQ>>
        /\ reader = "imu" /\ reader' = "done"
    BY <1>5 DEF EndOfImu
  <2>. QED BY <1>1, <1>2, <2>1 DEF DrainInv, Arrived, Member, NoSample
<1>6. CASE ReadImage
  <2>1. /\ UNCHANGED <<nextImu, imuQ>> /\ reader = "image"
        /\ camQ = <<>> /\ camQ' = <<FrameTimes[nextFrame]>>
        /\ nextFrame' = nextFrame + 1 /\ reader' \in {"imu", "done"}
    BY <1>6 DEF ReadImage
  <2>2. camQ'[1] = FrameTimes[nextFrame] /\ 1 \in DOMAIN camQ'
    BY <2>1
  <2>3. Arrived'
    <3>. SUFFICES ASSUME NEW i \in 1 .. nextFrame' - 1
                  PROVE  \/ \E k \in DOMAIN camQ' : FrameTimes[i] = camQ'[k]
                         \/ FrameTimes[i] \in tooOld
                         \/ Member(FrameTimes[i], handled)
      BY <1>1 DEF Arrived, Member
    <3>1. CASE i = nextFrame
      BY <2>2, <3>1
    <3>2. CASE i # nextFrame
      BY <1>3, <2>1, <3>2 DEF DrainInv, Arrived
    <3>. QED BY <3>1, <3>2
  <2>. QED BY <1>1, <1>2, <2>1, <2>2, <2>3 DEF DrainInv, NoSample
<1>. QED BY <1>4, <1>5, <1>6 DEF Sensors

(* The image that is popped is the one in hand, and the only one.            *)
LEMMA DrainPop ==
  ASSUME blocking, CoverTyped, DrainInv, InputType, PopReady, Holding,
         camQ' = Tail(camQ),
         \/ tooOld' = tooOld \cup {frame} /\ UNCHANGED handled
         \/ handled' = Append(handled, frame) /\ UNCHANGED tooOld,
         UNCHANGED nextFrame
  PROVE  camQ' = <<>> /\ Arrived'
<1>1. /\ camQ # <<>> /\ Head(camQ) = frame /\ Len(camQ) <= 1
      /\ camQ \in Seq(Images)
  BY DEF PopReady, Holding, InputType
<1>2. Len(camQ) = 1 /\ DOMAIN camQ = {1} /\ camQ[1] = frame
  <2>1. Len(camQ) \in Nat /\ Len(camQ) # 0 /\ DOMAIN camQ = 1 .. Len(camQ)
    BY <1>1
  <2>2. Len(camQ) = 1 /\ Head(camQ) = camQ[1]
    BY <1>1, <2>1
  <2>. QED BY <1>1, <2>1, <2>2
<1>3. camQ' = <<>>
  BY <1>1, <1>2
<1>4. Arrived'
  <2>. SUFFICES ASSUME NEW i \in 1 .. nextFrame - 1
                PROVE  \/ FrameTimes[i] \in tooOld'
                       \/ Member(FrameTimes[i], handled')
    BY DEF Arrived
  <2>1. \/ FrameTimes[i] = frame
        \/ FrameTimes[i] \in tooOld \/ Member(FrameTimes[i], handled)
    BY <1>2 DEF DrainInv, Arrived
  <2>2. CASE tooOld' = tooOld \cup {frame} /\ UNCHANGED handled
    BY <2>1, <2>2 DEF Member
  <2>3. CASE handled' = Append(handled, frame) /\ UNCHANGED tooOld
    <3>1. /\ \A k \in DOMAIN handled :
               k \in DOMAIN handled' /\ handled'[k] = handled[k]
          /\ Len(handled) + 1 \in DOMAIN handled'
          /\ handled'[Len(handled) + 1] = frame
      BY <2>3 DEF CoverTyped
    <3>. QED BY <2>1, <2>3, <3>1 DEF Member
  <2>. QED BY <2>2, <2>3
<1>. QED BY <1>3, <1>4

(* processFrame behind a blocking reader.                                    *)
LEMMA DrainProcess ==
  ASSUME NoStartDelay, blocking, CoverInv, CoverInv', CoverTyped, DrainInv,
         InputType, PopReady, Process
  PROVE  DrainInv'
<1>1. /\ UNCHANGED <<reader, nextImu, nextFrame, stopping>>
      /\ pc \notin Ended /\ pc' \notin Ended
  BY DEF Process, PeekImu, CopyImage, JoinIdle, DropTooOld, CheckBack,
     CollectImu, PopImage, JoinOpt, Match, MatchFails, sensors, ending, Ended,
     Return
<1>2. NoSample' => NoSample
  <2>1. CASE UNCHANGED <<imuQ, deque>>
    BY <2>1 DEF NoSample
  <2>2. CASE CollectImu
    <3>1. \/ UNCHANGED <<imuQ, deque>>
          \/ deque' = Append(deque, Head(imuQ)) /\ imuQ # <<>>
      BY <2>2 DEF CollectImu
    <3>2. imuQ # <<>> => Append(deque, Head(imuQ)) # <<>>
      <4>1. deque \in Seq(Nat) /\ imuQ \in Seq(Nat)
        BY DEF CoverTyped
      <4>2. \A x \in Nat : Len(Append(deque, x)) = Len(deque) + 1
        BY <4>1
      <4>3. Len(deque) \in Nat
        BY <4>1
      <4>4. imuQ # <<>> => Head(imuQ) \in Nat
        BY <4>1
      <4>5. imuQ # <<>> => Len(Append(deque, Head(imuQ))) > 0
        BY <4>2, <4>3, <4>4
      <4>. QED BY <4>5
    <3>. QED BY <3>1, <3>2 DEF NoSample
  <2>3. CASE JoinOpt
    <3>1. pc' = "match"
      BY <2>3 DEF JoinOpt
    <3>2. deque' # <<>>
      BY <3>1 DEF CoverInv, FrontInv
    <3>. QED BY <3>2 DEF NoSample
  <2>. QED BY <2>1, <2>2, <2>3
       DEF Process, PeekImu, CopyImage, JoinIdle, DropTooOld, CheckBack,
           PopImage, Match, MatchFails
<1>3. ASSUME camQ' = <<>>, Arrived' PROVE DrainInv'
  BY <1>1, <1>2, <1>3 DEF DrainInv
<1>4. ASSUME UNCHANGED <<camQ, tooOld, handled>>,
             stopping => /\ pc' \in {"joinIdle", "joinOpt", "match"}
                               => camQ = <<>>
                         /\ pc' = "returned" /\ ~result' => camQ = <<>>
      PROVE  DrainInv'
  BY <1>1, <1>2, <1>4 DEF DrainInv, Arrived, Member
<1>5. CASE DropTooOld \/ PopImage
  <2>1. /\ Holding /\ camQ' = Tail(camQ)
        /\ \/ tooOld' = tooOld \cup {frame} /\ UNCHANGED handled
           \/ handled' = Append(handled, frame) /\ UNCHANGED tooOld
    BY <1>5 DEF DropTooOld, PopImage, Holding
  <2>. QED BY <1>1, <1>3, <2>1, DrainPop
<1>6. ASSUME stopping, camQ # <<>>
      PROVE  /\ ~NoSample /\ Newest \in Nat
             /\ camQ[1] \in Nat /\ Newest > camQ[1] + Overlap
             /\ imuQ = <<>> => ~firstFrame \/ pc = "collect"
  BY <1>6, SamplesReach DEF DrainInv
<1>7. CASE PeekImu
  BY <1>4, <1>6, <1>7 DEF PeekImu, ledger, Return
<1>8. CASE CopyImage
  BY <1>4, <1>8 DEF CopyImage, ledger, Return
<1>9. CASE JoinIdle \/ JoinOpt \/ Match \/ MatchFails
  BY <1>4, <1>9 DEF JoinIdle, JoinOpt, Match, MatchFails, ledger, Return,
     DrainInv
<1>10. ASSUME pc \in {"checkBack", "collect"}
       PROVE  camQ # <<>> /\ camQ[1] = frame
  <2>1. camQ # <<>> /\ Head(camQ) = frame
    BY <1>10 DEF PopReady
  <2>. QED BY <2>1 DEF CoverTyped
<1>11. CASE CheckBack
  <2>1. UNCHANGED <<camQ, tooOld, handled>> /\ pc = "checkBack"
    BY <1>11 DEF CheckBack, ledger
  <2>2. ~stopping \/ pc' = "collect"
    <3>. SUFFICES ASSUME stopping PROVE pc' = "collect"
      OBVIOUS
    <3>1. /\ Newest > frame + Overlap /\ frame \in Nat /\ Newest \in Nat
          /\ imuQ # <<>>
      BY <1>6, <1>10, <2>1 DEF CoverInv, FrontInv
    <3>2. ~(Last(imuQ) < frame + Overlap)
      BY <3>1 DEF Newest, CoverTyped
    <3>. QED BY <1>11, <3>1, <3>2 DEF CheckBack
  <2>. QED BY <1>4, <2>1, <2>2
<1>12. CASE CollectImu
  <2>1. UNCHANGED <<camQ, tooOld, handled>> /\ pc = "collect"
    BY <1>12 DEF CollectImu, ledger
  <2>2. ~stopping \/ pc' \in {"collect", "detect"}
    <3>. SUFFICES ASSUME stopping, imuQ = <<>> PROVE pc' = "detect"
      BY <1>12 DEF CollectImu
    <3>1. /\ Newest > frame + Overlap /\ frame \in Nat /\ Newest \in Nat
          /\ ~NoSample
      BY <1>6, <1>10, <2>1
    <3>2. deque # <<>> /\ Last(deque) >= frame + Overlap
      BY <3>1 DEF Newest, NoSample, CoverTyped
    <3>. QED BY <1>12, <3>2 DEF CollectImu
  <2>. QED BY <1>4, <2>1, <2>2
<1>. QED BY <1>5, <1>7, <1>8, <1>9, <1>11, <1>12 DEF Process

(* An image in the queue has its samples before it, or is handled.           *)
LEMMA DrainStep ==
  ASSUME NoStartDelay, blocking, CoverInv, CoverInv', CoverTyped, DrainInv,
         SensorInv, InputType, PopReady, [Next]_vars
  PROVE  DrainInv'
<1>1. ASSUME UNCHANGED <<reader, nextImu, nextFrame, imuQ, deque, camQ,
                         tooOld, handled>>,
             stopping' => reader = "done",
             \/ UNCHANGED <<pc, result, stopping>>
             \/ pc' = "start"
             \/ pc' \in Ended /\ reader = "done" /\ camQ = <<>>
      PROVE  DrainInv'
  BY <1>1 DEF DrainInv, Arrived, Member, NoSample, Ended
<1>2. CASE Sensors
  BY <1>2, DrainSensors
<1>3. CASE SenseImu \/ SenseImage
  BY <1>3 DEF SenseImu, SenseImage
<1>4. CASE Process
  BY <1>4, DrainProcess
<1>5. CASE AppLoop
  <2>1. /\ UNCHANGED <<nextImu, nextFrame, imuQ, camQ, process, ledger>>
        /\ reader' = reader /\ stopping' = (reader' = "done")
        /\ pc = "returned"
        /\ pc' = IF stopping /\ ~result THEN "joinLast" ELSE "start"
    BY <1>5 DEF AppLoop
  <2>2. pc' = "joinLast" => reader = "done" /\ camQ = <<>>
    BY <2>1 DEF DrainInv
  <2>. QED BY <1>1, <2>1, <2>2 DEF process, ledger, Ended
<1>6. CASE JoinLast \/ FinalImport \/ FinalCallBack \/ Final \/ JoinPublisher
  <2>1. /\ UNCHANGED <<sensors, imuQ, camQ, process, ledger, stopping>>
        /\ pc \in Ended /\ pc' \in Ended
    BY <1>6 DEF JoinLast, FinalImport, FinalCallBack, Final, JoinPublisher,
       ending, Ended
  <2>. QED BY <1>1, <2>1 DEF DrainInv, sensors, process, ledger
<1>7. CASE Optimise \/ Publisher
  BY <1>1, <1>7 DEF Optimise, OptimisePublish, Marginalise, Publisher,
     TakePublication, CallBack, sensors, process, ledger, ending, DrainInv
<1>8. CASE Stopped \/ UNCHANGED vars
  <2>1. UNCHANGED <<sensors, imuQ, process, camQ, ledger, pc, ending>>
    BY <1>8 DEF Stopped, vars
  <2>. QED BY <1>1, <2>1 DEF sensors, process, ledger, ending, DrainInv
<1>. QED BY <1>2, <1>3, <1>4, <1>5, <1>6, <1>7, <1>8 DEF Next, Stop

(* "process all received": when stopThreading ends its loop at the first     *)
(* FALSE of processFrame, every image of a data set read so far has been     *)
(* processed or given up as too old, for every data set whose reader does    *)
(* not skip IMU samples after the first image (stopThreading, processFrame,  *)
(* DatasetReader).                                                           *)
THEOREM DrainedAtTheEnd ==
  ASSUME NoStartDelay
  PROVE  Spec => []AllProcessed
<1>1. Init => (blocking => DrainInv)
  BY FirstTime DEF Init, DrainInv, Arrived, Ended
<1>2. (blocking => CoverInv) /\ (blocking => CoverInv)' /\ CoverTyped
        /\ (blocking => DrainInv) /\ SensorInv /\ InputType /\ PopReady
        /\ [Next]_vars => (blocking => DrainInv)'
  <2>. SUFFICES ASSUME blocking => CoverInv, (blocking => CoverInv)',
                       CoverTyped, blocking => DrainInv, SensorInv,
                       InputType, PopReady, [Next]_vars, blocking'
                PROVE  DrainInv'
    OBVIOUS
  <2>1. blocking
    BY BlockingKept
  <2>. QED BY <2>1, DrainStep
<1>3. (blocking => DrainInv) => AllProcessed
  <2>. SUFFICES ASSUME DrainInv, pc \in JoinedAtStop
                PROVE  /\ camQ = <<>>
                       /\ \A i \in 1 .. nextFrame - 1 :
                            FrameTimes[i] \in tooOld
                              \cup {handled[k] : k \in DOMAIN handled}
    BY DEF AllProcessed, JoinedAtStop
  <2>1. camQ = <<>> /\ Arrived
    BY DEF DrainInv, Ended, JoinedAtStop
  <2>2. DOMAIN camQ = {}
    BY <2>1
  <2>. QED BY <2>1, <2>2 DEF Arrived, Member
<1>. QED BY <1>1, <1>2, <1>3, CoveredBehindReader, TypesOfCover,
            SensorInvariant, InputInvariant, ControlInvariant,
            LedgerInvariant, PopNeverWaits, PTL DEF Spec
============================================================================
