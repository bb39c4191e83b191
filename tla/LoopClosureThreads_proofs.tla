--------------------- MODULE LoopClosureThreads_proofs ---------------------
(* Theorems about the three threads of LoopClosureThreads.                   *)
EXTENDS LoopClosureThreads, TLAPS

(* ------------------------------------------------------------------------- *)
(* The newest frame of a set: the greatest of a set of natural numbers.      *)

IsMax(S, m) == m \in S /\ \A s \in S : s \in Nat /\ s <= m
HasMax(S) == IsMax(S, Max(S))

(* The element that is at least, or at most, every other is the one that     *)
(* Max, or Min, chooses.                                                     *)
LEMMA MaxIs ==
  ASSUME NEW S, NEW m, IsMax(S, m)
  PROVE  Max(S) = m /\ HasMax(S)
<1>. DEFINE P(x) == x \in S /\ \A y \in S : x >= y
<1>1. P(m)
  BY DEF IsMax
<1>2. Max(S) = CHOOSE x : P(x)
  BY DEF Max
<1>. HIDE DEF P
<1>3. P(Max(S))
  BY <1>1, <1>2, Zenon
<1>4. Max(S) \in S /\ Max(S) >= m
  BY <1>3 DEF P, IsMax
<1>5. Max(S) = m
  BY <1>4 DEF IsMax
<1>. QED BY <1>5 DEF HasMax

(* One more than the greatest is the greatest once it is added.              *)
LEMMA MaxWithNext ==
  ASSUME NEW S, HasMax(S)
  PROVE  /\ HasMax(S \cup {Max(S) + 1})
         /\ Max(S \cup {Max(S) + 1}) = Max(S) + 1
<1>1. IsMax(S \cup {Max(S) + 1}, Max(S) + 1)
  BY DEF HasMax, IsMax
<1>. QED BY <1>1, MaxIs

(* The greatest stays so when another one is removed.                        *)
LEMMA MaxWithout ==
  ASSUME NEW S, HasMax(S), NEW x, x # Max(S)
  PROVE  HasMax(S \ {x}) /\ Max(S \ {x}) = Max(S)
<1>1. IsMax(S \ {x}, Max(S))
  BY DEF HasMax, IsMax
<1>. QED BY <1>1, MaxIs

(* ------------------------------------------------------------------------- *)
(* processFrame joins the realtime optimisation before it adds the state and *)
(* starts it again only after the matching: in between it runs alone.        *)

Alone == WritePlaces \cup
         {"direct", "match", "guardAvailable", "guardNeeds", "attempt",
          "addLoopClosure"}

AloneInv ==
  /\ DOMAIN pc = Workers
  /\ pc["main"] \in Alone => pc["opt"] = "none"

LEMMA AloneStep == AloneInv /\ [Next]_vars => AloneInv'
<1>. SUFFICES ASSUME AloneInv, [Next]_vars PROVE AloneInv'
  OBVIOUS
<1>. USE DEF AloneInv, Alone, WritePlaces, Workers
<1>1. CASE MainStep
  <2>1. CASE Write("main")
    BY <2>1 DEF Write, ReadClosing, ReadAvailable, WriteDirect, WriteDeferred,
                Go, After
  <2>2. CASE Import("main")
    BY <2>2 DEF Import, GetAvailable, GetClosing, SyncAssert, Synchronise, Go
  <2>3. CASE JoinOptAndAdd
    BY <2>3 DEF JoinOptAndAdd
  <2>4. CASE \E l \in Landmarks : WriteLandmark("main", "match", l)
    BY <2>4 DEF WriteLandmark, Begin, Go
  <2>5. CASE LaunchOpt
    BY <2>5 DEF LaunchOpt
  <2>6. CASE \/ GuardClosing \/ GuardAvailable \/ GuardNeeds \/ NoLoopClosure
             \/ AttemptLoopClosure \/ AddLoopClosureFrame \/ TestNeeds
             \/ LaunchFull \/ StopJoinOpt \/ StopJoinFull
    BY <2>6 DEF GuardClosing, GuardAvailable, GuardNeeds, NoLoopClosure,
         AttemptLoopClosure, AddLoopClosureFrame, TestNeeds, LaunchFull,
         StopJoinOpt, StopJoinFull, Go
  <2>. QED BY <1>1, <2>1, <2>2, <2>3, <2>4, <2>5, <2>6 DEF MainStep
<1>2. CASE OptStep
  <2>1. pc["opt"] # "none" /\ DOMAIN pc' = Workers /\ pc'["main"] = pc["main"]
    BY <1>2 DEF OptStep, Write, Import, OptimiseRealtimeGraph, WriteLandmark,
         EliminateImuFrame, EndOpt, ReadClosing, ReadAvailable, WriteDirect,
         WriteDeferred, GetAvailable, GetClosing, SyncAssert, Synchronise,
         Begin, Go
  <2>. QED BY <2>1
<1>3. CASE FullThread
  BY <1>3 DEF FullThread, FullClearsNeeds, FullSetsClosing, FullSetsAvailable,
       FullClearsClosing
<1>4. CASE FrameArrives \/ Stop
  BY <1>4 DEF FrameArrives, Stop, Go
<1>5. CASE Halted \/ UNCHANGED vars
  BY <1>5 DEF Halted, vars
<1>. QED BY <1>1, <1>2, <1>3, <1>4, <1>5 DEF Next

LEMMA AloneInit == Init => AloneInv
BY DEF Init, AloneInv, Alone, WritePlaces, Workers

(* ------------------------------------------------------------------------- *)
(* Marking.  It holds for every schedule, the late launches included.        *)

Busy == WritePlaces \cup {"direct"}

(* Where each worker's current write is, and the landmarks' versions.        *)
JobsOk ==
  /\ DOMAIN pc = Workers
  /\ DOMAIN job = Workers
  /\ \A w \in Workers : pc[w] \notin Busy => job[w] = NoJob
  /\ rtVersion \in [Landmarks -> Nat]
  /\ fullVersion \in [Landmarks -> Nat]

WrittenBy(w, l) == job[w] = [kind |-> "landmark", on |-> l]

(* NothingForgotten without Quiet: a landmark the graphs disagree about is   *)
(* marked, or a worker is between its two writes of it.                      *)
MarkedOrInHand ==
  \A l \in Landmarks :
    rtVersion[l] # fullVersion[l] =>
      l \in touched \/ \E w \in Workers : WrittenBy(w, l)

MarkingInv == JobsOk /\ MarkedOrInHand

LEMMA NoJobIsNoLandmark ==
  \A l : NoJob # [kind |-> "landmark", on |-> l]
<1>. SUFFICES ASSUME NEW l, NoJob = [kind |-> "landmark", on |-> l]
              PROVE  FALSE
  OBVIOUS
<1>1. NoJob.kind = "none"
  BY DEF NoJob
<1>. QED BY <1>1

LEMMA MarkingInit == Init => MarkingInv
<1>. SUFFICES ASSUME Init PROVE MarkingInv
  OBVIOUS
<1>1. JobsOk
  BY NoJobIsNoLandmark DEF Init, JobsOk, Workers, Busy, WritePlaces
<1>2. MarkedOrInHand
  BY DEF Init, MarkedOrInHand
<1>. QED BY <1>1, <1>2 DEF MarkingInv

(* Steps that move a worker with no write in hand, or read a flag.           *)
LEMMA MarkingMove ==
  ASSUME MarkingInv, NEW w \in Workers, NEW to,
         pc' = [pc EXCEPT ![w] = to],
         to \in Busy \/ job[w] = NoJob,
         UNCHANGED <<job, marks>>
  PROVE  MarkingInv'
BY DEF MarkingInv, JobsOk, MarkedOrInHand, WrittenBy, marks

(* Steps of the background thread, and steps that keep all of it.            *)
LEMMA MarkingKept ==
  ASSUME MarkingInv, UNCHANGED <<pc, job, marks>>
  PROVE  MarkingInv'
BY DEF MarkingInv, JobsOk, MarkedOrInHand, WrittenBy, marks

LEMMA MarkingWrite ==
  ASSUME MarkingInv, NEW w \in Workers, Write(w)
  PROVE  MarkingInv'
<1>. USE DEF MarkingInv, JobsOk
<1>0. After(w) \notin Busy
  BY DEF After, Busy, WritePlaces
<1>1. CASE ReadClosing(w) \/ ReadAvailable(w)
  <2>1. PICK to \in {"deferred", "readAvailable", "direct"} :
          pc' = [pc EXCEPT ![w] = to] /\ UNCHANGED <<job, marks>>
    BY <1>1 DEF ReadClosing, ReadAvailable, Go
  <2>. QED BY <2>1, MarkingMove DEF Busy, WritePlaces
<1>2. ASSUME Go(w, "direct", After(w)) \/ Go(w, "deferred", After(w)), EndJob(w)
      PROVE  /\ DOMAIN pc' = Workers
             /\ DOMAIN job' = Workers
             /\ \A v \in Workers : pc'[v] \notin Busy => job'[v] = NoJob
             /\ \A v \in Workers, l \in Landmarks :
                  WrittenBy(v, l) /\ v # w => WrittenBy(v, l)'
  BY <1>0, <1>2, NoJobIsNoLandmark DEF Go, EndJob, WrittenBy
<1>3. CASE WriteDirect(w)
  <2>1. UNCHANGED <<rtVersion, touched>>
    BY <1>3 DEF WriteDirect
  <2>2. CASE job[w].kind = "landmark"
    <3>1. /\ job[w].on \in Landmarks \/ job[w].on \notin Landmarks
          /\ fullVersion' =
               [fullVersion EXCEPT ![job[w].on] = rtVersion[job[w].on]]
      BY <1>3, <2>2 DEF WriteDirect
    <3>2. fullVersion' \in [Landmarks -> Nat]
      BY <3>1
    <3>3. \A l \in Landmarks :
            /\ WrittenBy(w, l) => fullVersion'[l] = rtVersion[l]
            /\ fullVersion'[l] # fullVersion[l] => fullVersion'[l] = rtVersion[l]
      BY <3>1 DEF WrittenBy
    <3>. QED BY <1>2, <1>3, <2>1, <3>2, <3>3 DEF WriteDirect, MarkedOrInHand
  <2>3. CASE job[w].kind # "landmark"
    <3>1. fullVersion' = fullVersion
      BY <1>3, <2>3 DEF WriteDirect
    <3>2. \A l \in Landmarks : ~WrittenBy(w, l)
      BY <2>3 DEF WrittenBy
    <3>. QED BY <1>2, <1>3, <2>1, <3>1, <3>2 DEF WriteDirect, MarkedOrInHand
  <2>. QED BY <2>2, <2>3
<1>4. CASE WriteDeferred(w)
  <2>1. UNCHANGED <<rtVersion, fullVersion>> /\ touched \subseteq touched'
    BY <1>4 DEF WriteDeferred
  <2>2. \A l \in Landmarks : WrittenBy(w, l) => l \in touched'
    BY <1>4 DEF WriteDeferred, WrittenBy
  <2>. QED BY <1>2, <1>4, <2>1, <2>2 DEF WriteDeferred, MarkedOrInHand
<1>. QED BY <1>1, <1>3, <1>4 DEF Write

LEMMA MarkingImport ==
  ASSUME MarkingInv, NEW w \in Workers, Import(w)
  PROVE  MarkingInv'
<1>. USE DEF MarkingInv, JobsOk, Busy, WritePlaces
<1>1. CASE GetAvailable(w) \/ GetClosing(w) \/ SyncAssert(w)
  <2>1. PICK to \in {"getClosing", "strategy", "stopped", "syncAssert",
                     "synchronise"} :
          /\ pc' = [pc EXCEPT ![w] = to] /\ UNCHANGED <<job, marks>>
          /\ pc[w] \in {"getAvailable", "getClosing", "syncAssert"}
    BY <1>1 DEF GetAvailable, GetClosing, SyncAssert, Go
  <2>. QED BY <2>1, MarkingMove
<1>2. CASE Synchronise(w)
  <2>1. /\ DOMAIN pc' = Workers
        /\ \A v \in Workers : pc'[v] \notin Busy => job[v] = NoJob
    BY <1>2 DEF Synchronise, Go
  <2>2. /\ UNCHANGED <<job, rtVersion>>
        /\ fullVersion' \in [Landmarks -> Nat]
        /\ \A l \in Landmarks :
             l \in touched => fullVersion'[l] = rtVersion[l]
        /\ \A l \in Landmarks :
             l \notin touched => fullVersion'[l] = fullVersion[l]
    BY <1>2 DEF Synchronise
  <2>. QED BY <2>1, <2>2 DEF MarkedOrInHand, WrittenBy
<1>. QED BY <1>1, <1>2 DEF Import

(* A worker starts on a write: the realtime graph changes first.             *)
LEMMA MarkingBegin ==
  ASSUME MarkingInv, NEW w \in Workers, NEW from, NEW j,
         from \notin Busy, Begin(w, from, j),
         fullVersion' = fullVersion, touched' = touched,
         \/ rtVersion' = rtVersion
         \/ \E l \in Landmarks :
              /\ j = [kind |-> "landmark", on |-> l]
              /\ rtVersion' = [rtVersion EXCEPT ![l] = @ + 1]
  PROVE  MarkingInv'
<1>. USE DEF MarkingInv, JobsOk
<1>1. /\ DOMAIN pc' = Workers /\ DOMAIN job' = Workers
      /\ pc'[w] = "readClosing" /\ job'[w] = j /\ job[w] = NoJob
      /\ \A v \in Workers \ {w} : pc'[v] = pc[v] /\ job'[v] = job[v]
  BY DEF Begin, Go
<1>2. JobsOk'
  BY <1>1 DEF Busy, WritePlaces
<1>3. \A l \in Landmarks, v \in Workers : WrittenBy(v, l) => WrittenBy(v, l)'
  BY <1>1, NoJobIsNoLandmark DEF WrittenBy
<1>4. CASE rtVersion' = rtVersion
  BY <1>2, <1>3, <1>4 DEF MarkedOrInHand
<1>5. ASSUME NEW l \in Landmarks, j = [kind |-> "landmark", on |-> l],
             rtVersion' = [rtVersion EXCEPT ![l] = @ + 1]
      PROVE  MarkingInv'
  <2>1. WrittenBy(w, l)'
    BY <1>1, <1>5 DEF WrittenBy
  <2>2. \A m \in Landmarks \ {l} : rtVersion'[m] = rtVersion[m]
    BY <1>5
  <2>. QED BY <1>2, <1>3, <2>1, <2>2 DEF MarkedOrInHand
<1>. QED BY <1>4, <1>5

LEMMA MarkingMain == AloneInv /\ MarkingInv /\ MainStep => MarkingInv'
<1>. SUFFICES ASSUME AloneInv, MarkingInv, MainStep PROVE MarkingInv'
  OBVIOUS
<1>. USE DEF MarkingInv, JobsOk, Busy, WritePlaces, Workers
<1>1. CASE Write("main")
  BY <1>1, MarkingWrite
<1>2. CASE Import("main")
  BY <1>2, MarkingImport
<1>3. CASE JoinOptAndAdd
  <2>1. PICK id :
          job' = [job EXCEPT !["main"] = [kind |-> "add", on |-> id]]
    BY <1>3 DEF JoinOptAndAdd
  <2>2. /\ pc' = [main |-> "readClosing", opt |-> "none"]
        /\ job["main"] = NoJob /\ job["opt"] = NoJob /\ UNCHANGED marks
    BY <1>3 DEF JoinOptAndAdd
  <2>3. JobsOk'
    BY <2>1, <2>2 DEF marks
  <2>4. \A l : ~WrittenBy("main", l) /\ ~WrittenBy("opt", l)
    BY <2>2, NoJobIsNoLandmark DEF WrittenBy
  <2>. QED BY <2>2, <2>3, <2>4 DEF MarkedOrInHand, marks
<1>4. ASSUME NEW l \in Landmarks, WriteLandmark("main", "match", l)
      PROVE  MarkingInv'
  BY <1>4, MarkingBegin DEF WriteLandmark
<1>5. CASE \/ GuardClosing \/ GuardAvailable \/ GuardNeeds \/ NoLoopClosure
           \/ AttemptLoopClosure \/ AddLoopClosureFrame \/ TestNeeds
           \/ LaunchFull \/ StopJoinOpt \/ StopJoinFull
  <2>1. PICK to : pc' = [pc EXCEPT !["main"] = to] /\ UNCHANGED <<job, marks>>
    BY <1>5 DEF GuardClosing, GuardAvailable, GuardNeeds, NoLoopClosure,
         AttemptLoopClosure, AddLoopClosureFrame, TestNeeds, LaunchFull,
         StopJoinOpt, StopJoinFull, Go
  <2>2. pc["main"] \notin Busy
    BY <1>5 DEF GuardClosing, GuardAvailable, GuardNeeds, NoLoopClosure,
         AttemptLoopClosure, AddLoopClosureFrame, TestNeeds, LaunchFull,
         StopJoinOpt, StopJoinFull, Go
  <2>. QED BY <2>1, <2>2, MarkingMove
<1>6. CASE LaunchOpt
  <2>1. /\ pc' = [main |-> "testNeeds", opt |-> "optimise"]
        /\ UNCHANGED <<job, marks>> /\ job["main"] = NoJob /\ job["opt"] = NoJob
    BY <1>6 DEF LaunchOpt, AloneInv, Alone
  <2>. QED BY <2>1 DEF MarkedOrInHand, WrittenBy, marks
<1>. QED BY <1>1, <1>2, <1>3, <1>4, <1>5, <1>6 DEF MainStep

LEMMA MarkingOpt == MarkingInv /\ OptStep => MarkingInv'
<1>. SUFFICES ASSUME MarkingInv, OptStep PROVE MarkingInv'
  OBVIOUS
<1>. USE DEF Busy, WritePlaces, Workers
<1>1. CASE Write("opt")
  BY <1>1, MarkingWrite
<1>2. CASE Import("opt")
  BY <1>2, MarkingImport
<1>3. CASE OptimiseRealtimeGraph
  BY <1>3, MarkingBegin DEF OptimiseRealtimeGraph, marks
<1>4. CASE \E l \in Landmarks : WriteLandmark("opt", "strategy", l)
  BY <1>4, MarkingBegin DEF WriteLandmark
<1>5. CASE \E id \in rtStates : EliminateImuFrame(id)
  BY <1>5, MarkingBegin DEF EliminateImuFrame, marks
<1>6. CASE EndOpt
  BY <1>6, MarkingMove DEF EndOpt, Go, MarkingInv, JobsOk
<1>. QED BY <1>1, <1>2, <1>3, <1>4, <1>5, <1>6 DEF OptStep

LEMMA MarkingStep == AloneInv /\ MarkingInv /\ [Next]_vars => MarkingInv'
<1>. SUFFICES ASSUME AloneInv, MarkingInv, [Next]_vars PROVE MarkingInv'
  OBVIOUS
<1>1. CASE FullThread
  BY <1>1, MarkingKept DEF FullThread, FullClearsNeeds, FullSetsClosing,
       FullSetsAvailable, FullClearsClosing
<1>2. CASE FrameArrives \/ Stop
  BY <1>2, MarkingMove DEF FrameArrives, Stop, Go, MarkingInv, JobsOk, Busy,
       WritePlaces, Workers
<1>3. CASE Halted \/ UNCHANGED vars
  BY <1>3, MarkingKept DEF Halted, vars
<1>. QED BY <1>1, <1>2, <1>3, MarkingMain, MarkingOpt DEF Next

(* Whatever the schedule of the three threads, a landmark the two graphs     *)
(* disagree about is marked for the next synchronisation once no worker is   *)
(* between its two writes (addLandmark, setLandmark, removeObservation, ...).*)
THEOREM DisagreementMarked == Spec => []NothingForgotten
<1>1. MarkingInv => NothingForgotten
  <2>. SUFFICES ASSUME MarkingInv, Quiet, NEW l \in Landmarks,
                       rtVersion[l] # fullVersion[l]
                PROVE  l \in touched
    BY DEF NothingForgotten
  <2>1. \A w \in Workers : ~WrittenBy(w, l)
    BY NoJobIsNoLandmark DEF Quiet, WrittenBy
  <2>. QED BY <2>1 DEF MarkingInv, MarkedOrInHand
<1>. QED BY <1>1, AloneInit, AloneStep, MarkingInit, MarkingStep, PTL DEF Spec

(* ------------------------------------------------------------------------- *)
(* Exclusion.  It needs PromptLaunch: the realtime optimisation launched in  *)
(* a frame outlasts the launch of the background thread, up to its write of  *)
(* isLoopClosing_.                                                           *)

(* Places a worker reaches only by having read isLoopClosing_ as false.      *)
Exposed == {"readAvailable", "direct", "guardAvailable", "guardNeeds",
            "attempt", "addLoopClosure", "syncAssert", "synchronise"}

ExclusionInv ==
  /\ closing <=> full \in {"optimising", "published"}
  /\ pc["main"] \in {"testNeeds", "joinFull"} => pc["opt"] = "optimise"
  /\ full \in {"launched", "cleared"} =>
       /\ pc["opt"] = "optimise"
       /\ pc["main"] \in {"idle", "joinOpt", "stopJoinOpt"}
  /\ full \in {"optimising", "published"} =>
       \A w \in Workers : pc[w] \notin Exposed

ExclusionIInv == AloneInv /\ ExclusionInv

LEMMA ExclusionInit == Init => ExclusionInv
BY DEF Init, ExclusionInv, Exposed, Workers

LEMMA ExclusionMain ==
  PromptLaunch /\ ExclusionIInv /\ MainStep => ExclusionInv'
<1>. SUFFICES ASSUME PromptLaunch, ExclusionIInv, MainStep
              PROVE  ExclusionInv'
  OBVIOUS
<1>. USE DEF ExclusionIInv, AloneInv, ExclusionInv, Exposed, Workers, Alone,
             WritePlaces
<1>1. CASE Write("main")
  BY <1>1 DEF Write, ReadClosing, ReadAvailable, WriteDirect, WriteDeferred,
              Go, After, flags
<1>2. CASE Import("main")
  <2>1. CASE GetAvailable("main") \/ GetClosing("main")
    BY <2>1 DEF GetAvailable, GetClosing, Go, flags
  <2>2. CASE SyncAssert("main")
    BY <2>2 DEF SyncAssert, Go, flags
  <2>3. CASE Synchronise("main")
    BY <2>3 DEF Synchronise, Go
  <2>. QED BY <1>2, <2>1, <2>2, <2>3 DEF Import
<1>3. CASE JoinOptAndAdd
  BY <1>3 DEF JoinOptAndAdd, flags
<1>4. CASE \E l \in Landmarks : WriteLandmark("main", "match", l)
  BY <1>4 DEF WriteLandmark, Begin, Go, flags
<1>5. CASE LaunchOpt
  BY <1>5 DEF LaunchOpt, flags
<1>6. CASE GuardClosing \/ GuardAvailable \/ GuardNeeds \/ NoLoopClosure
  BY <1>6 DEF GuardClosing, GuardAvailable, GuardNeeds, NoLoopClosure, Go, flags
<1>7. CASE AttemptLoopClosure \/ TestNeeds
  BY <1>7 DEF AttemptLoopClosure, TestNeeds, Go, flags
<1>8. CASE AddLoopClosureFrame
  BY <1>8 DEF AddLoopClosureFrame, Go
<1>9. CASE LaunchFull \/ StopJoinOpt \/ StopJoinFull
  BY <1>9 DEF LaunchFull, StopJoinOpt, StopJoinFull, Go, flags
<1>. QED BY <1>1, <1>2, <1>3, <1>4, <1>5, <1>6, <1>7, <1>8, <1>9 DEF MainStep

LEMMA ExclusionOpt ==
  PromptLaunch /\ ExclusionIInv /\ OptStep => ExclusionInv'
<1>. SUFFICES ASSUME PromptLaunch, ExclusionIInv, OptStep
              PROVE  ExclusionInv'
  OBVIOUS
<1>. USE DEF ExclusionIInv, AloneInv, ExclusionInv, Exposed, Workers
<1>1. CASE Write("opt")
  BY <1>1 DEF Write, ReadClosing, ReadAvailable, WriteDirect, WriteDeferred,
              Go, After, flags
<1>2. CASE Import("opt")
  <2>1. CASE GetAvailable("opt") \/ GetClosing("opt")
    BY <2>1 DEF GetAvailable, GetClosing, Go, flags
  <2>2. CASE SyncAssert("opt")
    BY <2>2 DEF SyncAssert, Go, flags
  <2>3. CASE Synchronise("opt")
    BY <2>3 DEF Synchronise, Go
  <2>. QED BY <1>2, <2>1, <2>2, <2>3 DEF Import
<1>3. CASE OptimiseRealtimeGraph
  BY <1>3 DEF OptimiseRealtimeGraph, Prompt, Begin, Go, flags
<1>4. CASE \/ \E l \in Landmarks : WriteLandmark("opt", "strategy", l)
           \/ \E id \in rtStates : EliminateImuFrame(id)
           \/ EndOpt
  BY <1>4 DEF WriteLandmark, EliminateImuFrame, EndOpt, Begin, Go, flags
<1>. QED BY <1>1, <1>2, <1>3, <1>4 DEF OptStep

LEMMA ExclusionStep ==
  PromptLaunch /\ ExclusionIInv /\ [Next]_vars => ExclusionIInv'
<1>. SUFFICES ASSUME PromptLaunch, ExclusionIInv, [Next]_vars
              PROVE  ExclusionIInv'
  OBVIOUS
<1>1. AloneInv'
  BY AloneStep DEF ExclusionIInv
<1>2. CASE FullThread
  BY <1>1, <1>2 DEF FullThread, FullClearsNeeds, FullSetsClosing,
       FullSetsAvailable, FullClearsClosing, FullStep, ExclusionIInv,
       ExclusionInv, Exposed, Workers
<1>3. CASE FrameArrives \/ Stop
  BY <1>1, <1>3 DEF FrameArrives, Stop, Go, flags, ExclusionIInv, AloneInv,
       ExclusionInv, Exposed, Workers
<1>4. CASE Halted \/ UNCHANGED vars
  BY <1>1, <1>4 DEF Halted, vars, flags, ExclusionIInv, ExclusionInv
<1>. QED
  BY <1>1, <1>2, <1>3, <1>4, ExclusionMain, ExclusionOpt
     DEF Next, ExclusionIInv

(* With a prompt launch, nobody writes the full graph while the background   *)
(* thread optimises it, for any number of frames, landmarks and loop         *)
(* closures (addStates: "safe to add to the full graph").                    *)
THEOREM FullGraphNeverShared == PromptLaunch => (Spec => []FullGraphExclusive)
<1>. SUFFICES ASSUME PromptLaunch PROVE Spec => []FullGraphExclusive
  OBVIOUS
<1>1. Init => ExclusionIInv
  BY AloneInit, ExclusionInit DEF ExclusionIInv
<1>2. ExclusionIInv /\ [Next]_vars => ExclusionIInv'
  BY ExclusionStep
<1>3. ExclusionIInv => FullGraphExclusive
  BY DEF ExclusionIInv, ExclusionInv, FullGraphExclusive, DirectPlaces, Exposed
<1>. QED BY <1>1, <1>2, <1>3, PTL DEF Spec

(* ------------------------------------------------------------------------- *)
(* Announced.  Also under PromptLaunch: what waits for the import is always  *)
(* covered by a flag, a worker that goes on to the full graph has nothing    *)
(* before it in the queue, and stopThreading leaves no flag behind.          *)

Pending == backlog # <<>> \/ eliminate # {} \/ touched # {}
Imports == {"getAvailable", "getClosing", "syncAssert", "synchronise"}

AnnouncedInv ==
  /\ full = "published" => available
  /\ \A w \in Workers : /\ pc[w] = "direct" => ~available
                        /\ pc[w] = "deferred" => closing \/ available
  /\ pc["main"] \in {"guardNeeds", "attempt", "addLoopClosure"} => ~available
  /\ pc["main"] \in Imports \cup {"stopJoinFull", "stopped"} =>
       pc["opt"] \in {"none", "done"}
  /\ Pending => closing \/ available

StopInv ==
  /\ pc["main"] \in Imports \cup {"stopped"} => full = "none"
  /\ full = "none" /\ pc["main"] \notin Imports => ~available
  /\ needs => \/ pc["main"] \in Alone \cup {"testNeeds", "joinFull"}
              \/ full = "launched"

AnnouncedIInv == ExclusionIInv /\ AnnouncedInv /\ StopInv

(* At the start nothing is pending.                                          *)
LEMMA AnnouncedInit == Init => AnnouncedInv /\ StopInv
BY DEF Init, AnnouncedInv, StopInv, Pending, Imports, Workers

(* The steps of the frame thread,                                            *)
LEMMA AnnouncedMain ==
  PromptLaunch /\ AnnouncedIInv /\ MainStep => AnnouncedInv' /\ StopInv'
<1>. SUFFICES ASSUME PromptLaunch, AnnouncedIInv, MainStep
              PROVE  AnnouncedInv' /\ StopInv'
  OBVIOUS
<1>. USE DEF AnnouncedIInv, ExclusionIInv, AloneInv, ExclusionInv,
             AnnouncedInv, StopInv, Pending, Imports, Exposed, Workers, Alone,
             WritePlaces, flags, states, marks
<1>1. CASE ReadClosing("main") \/ ReadAvailable("main")
  BY <1>1 DEF ReadClosing, ReadAvailable, Go
<1>2. CASE WriteDirect("main") \/ WriteDeferred("main")
  <2>1. /\ pc["main"] \in {"direct", "deferred"}
        /\ pc' = [pc EXCEPT !["main"] = "match"]
        /\ UNCHANGED <<flags, full>>
        /\ pc["main"] = "direct" => UNCHANGED <<backlog, eliminate, touched>>
    BY <1>2 DEF WriteDirect, WriteDeferred, Go, After
  <2>. QED BY <2>1
<1>3. CASE Import("main")
  <2>1. CASE GetAvailable("main") \/ GetClosing("main")
    BY <2>1 DEF GetAvailable, GetClosing, Go
  <2>2. CASE SyncAssert("main")
    BY <2>2 DEF SyncAssert, Go
  <2>3. CASE Synchronise("main")
    BY <2>3 DEF Synchronise, Go
  <2>. QED BY <1>3, <2>1, <2>2, <2>3 DEF Import
<1>4. CASE JoinOptAndAdd
  BY <1>4 DEF JoinOptAndAdd
<1>5. CASE \E l \in Landmarks : WriteLandmark("main", "match", l)
  BY <1>5 DEF WriteLandmark, Begin, Go
<1>6. CASE LaunchOpt
  BY <1>6 DEF LaunchOpt
<1>7. CASE GuardClosing \/ GuardAvailable \/ GuardNeeds \/ NoLoopClosure
  BY <1>7 DEF GuardClosing, GuardAvailable, GuardNeeds, NoLoopClosure, Go
<1>8. CASE AttemptLoopClosure \/ TestNeeds
  BY <1>8 DEF AttemptLoopClosure, TestNeeds, Go
<1>9. CASE AddLoopClosureFrame
  BY <1>9 DEF AddLoopClosureFrame, Go
<1>10. CASE LaunchFull \/ StopJoinOpt \/ StopJoinFull
  BY <1>10 DEF LaunchFull, StopJoinOpt, StopJoinFull, Go
<1>. QED BY <1>1, <1>2, <1>3, <1>4, <1>5, <1>6, <1>7, <1>8, <1>9, <1>10
         DEF MainStep, Write

(* of the realtime optimisation,                                             *)
LEMMA AnnouncedOpt ==
  PromptLaunch /\ AnnouncedIInv /\ OptStep => AnnouncedInv' /\ StopInv'
<1>. SUFFICES ASSUME PromptLaunch, AnnouncedIInv, OptStep
              PROVE  AnnouncedInv' /\ StopInv'
  OBVIOUS
<1>. USE DEF AnnouncedIInv, ExclusionIInv, AloneInv, ExclusionInv,
             AnnouncedInv, StopInv, Pending, Imports, Exposed, Workers, Alone,
             WritePlaces, flags, states, marks
<1>1. CASE ReadClosing("opt") \/ ReadAvailable("opt")
  BY <1>1 DEF ReadClosing, ReadAvailable, Go
<1>2. CASE WriteDirect("opt") \/ WriteDeferred("opt")
  <2>1. /\ pc["opt"] \in {"direct", "deferred"}
        /\ \E to \in {"getAvailable", "strategy"} :
             pc' = [pc EXCEPT !["opt"] = to]
        /\ UNCHANGED <<flags, full>>
        /\ pc["opt"] = "direct" => UNCHANGED <<backlog, eliminate, touched>>
    BY <1>2 DEF WriteDirect, WriteDeferred, Go, After
  <2>. QED BY <2>1
<1>3. CASE Import("opt")
  <2>1. CASE GetAvailable("opt") \/ GetClosing("opt")
    BY <2>1 DEF GetAvailable, GetClosing, Go
  <2>2. CASE SyncAssert("opt")
    BY <2>2 DEF SyncAssert, Go
  <2>3. CASE Synchronise("opt")
    BY <2>3 DEF Synchronise, Go
  <2>. QED BY <1>3, <2>1, <2>2, <2>3 DEF Import
<1>4. CASE OptimiseRealtimeGraph
  BY <1>4 DEF OptimiseRealtimeGraph, Begin, Go
<1>5. CASE \/ \E l \in Landmarks : WriteLandmark("opt", "strategy", l)
           \/ \E id \in rtStates : EliminateImuFrame(id)
           \/ EndOpt
  BY <1>5 DEF WriteLandmark, EliminateImuFrame, EndOpt, Begin, Go
<1>. QED BY <1>1, <1>2, <1>3, <1>4, <1>5 DEF OptStep, Write

(* and of all threads.                                                       *)
LEMMA AnnouncedStep ==
  PromptLaunch /\ AnnouncedIInv /\ [Next]_vars => AnnouncedIInv'
<1>. SUFFICES ASSUME PromptLaunch, AnnouncedIInv, [Next]_vars
              PROVE  AnnouncedIInv'
  OBVIOUS
<1>1. ExclusionIInv'
  BY ExclusionStep DEF AnnouncedIInv
<1>. USE DEF AnnouncedIInv, ExclusionIInv, AloneInv, ExclusionInv,
             AnnouncedInv, StopInv, Pending, Imports, Exposed, Workers,
             flags, states, marks
<1>2. CASE FullThread
  BY <1>1, <1>2 DEF FullThread, FullClearsNeeds, FullSetsClosing,
       FullSetsAvailable, FullClearsClosing, FullStep
<1>3. CASE FrameArrives \/ Stop
  BY <1>1, <1>3 DEF FrameArrives, Stop, Go, Alone, WritePlaces
<1>4. CASE Halted \/ UNCHANGED vars
  BY <1>1, <1>4 DEF Halted, vars
<1>. QED
  BY <1>1, <1>2, <1>3, <1>4, AnnouncedMain, AnnouncedOpt DEF Next

(* Whatever is deferred is announced by one of the two flags, so that no     *)
(* write overtakes it and the thread that reads the flag comes to import it. *)
THEOREM DeferredAnnounced == PromptLaunch => (Spec => []PendingAnnounced)
<1>. SUFFICES ASSUME PromptLaunch PROVE Spec => []PendingAnnounced
  OBVIOUS
<1>1. Init => AnnouncedIInv
  BY AloneInit, ExclusionInit, AnnouncedInit DEF AnnouncedIInv, ExclusionIInv
<1>2. AnnouncedIInv /\ [Next]_vars => AnnouncedIInv'
  BY AnnouncedStep
<1>3. AnnouncedIInv => PendingAnnounced
  BY DEF AnnouncedIInv, AnnouncedInv, Pending, PendingAnnounced
<1>. QED BY <1>1, <1>2, <1>3, PTL DEF Spec

(* ------------------------------------------------------------------------- *)
(* The states of the two graphs.                                             *)

(* The full graph once the n states that wait in the backlog are added.      *)
WithWaiting(fu, n) == fu \cup (Max(fu) + 1 .. Max(fu) + n)

(* The realtime graph rt against the full graph fu, n waiting states, the    *)
(* pending eliminations el, and the state a worker has added or removed in   *)
(* the realtime graph only.                                                  *)
Accounted(rt, fu, n, el, added, removed) ==
  /\ n \in Nat /\ HasMax(fu) /\ HasMax(rt)
  /\ \A x \in added : x = Max(fu) + n + 1
  /\ Max(rt) = IF added = {} THEN Max(fu) + n ELSE Max(fu) + n + 1
  /\ Max(rt) \notin removed
  /\ \A x \in el : x \in WithWaiting(fu, n)
  /\ \A x \in removed : x \in WithWaiting(fu, n) /\ x \notin el
  /\ \A x : x \in rt <=> /\ x \in WithWaiting(fu, n) \/ x \in added
                         /\ x \notin el /\ x \notin removed

(* addStates in the realtime graph ...                                       *)
LEMMA AddRealtime ==
  ASSUME NEW rt, NEW fu, NEW n, NEW el, Accounted(rt, fu, n, el, {}, {})
  PROVE  Accounted(rt \cup {Max(rt) + 1}, fu, n, el, {Max(rt) + 1}, {})
<1>1. /\ HasMax(rt \cup {Max(rt) + 1})
      /\ Max(rt \cup {Max(rt) + 1}) = Max(rt) + 1
  BY MaxWithNext DEF Accounted
<1>2. Max(rt) + 1 \notin el
  BY DEF Accounted, WithWaiting, HasMax, IsMax
<1>. QED BY <1>1, <1>2 DEF Accounted

(* ... and in the full graph, at once or by way of the backlog.              *)
LEMMA AddFull ==
  ASSUME NEW rt, NEW fu, NEW x, Accounted(rt, fu, 0, {}, {x}, {})
  PROVE  Accounted(rt, fu \cup {Max(fu) + 1}, 0, {}, {}, {})
<1>1. /\ HasMax(fu \cup {Max(fu) + 1})
      /\ Max(fu \cup {Max(fu) + 1}) = Max(fu) + 1
  BY MaxWithNext DEF Accounted
<1>2. Max(fu) \in Nat /\ x = Max(fu) + 1
  BY DEF Accounted, HasMax, IsMax
<1>3. /\ \A y : y \in WithWaiting(fu, 0) <=> y \in fu
      /\ \A y : y \in WithWaiting(fu \cup {x}, 0) <=> y \in fu \cup {x}
  BY <1>1, <1>2 DEF WithWaiting
<1>. QED BY <1>1, <1>2, <1>3 DEF Accounted

(* addStates deferred: one more in the backlog.                              *)
LEMMA AddWaiting ==
  ASSUME NEW rt, NEW fu, NEW n, NEW el, NEW x,
         Accounted(rt, fu, n, el, {x}, {})
  PROVE  Accounted(rt, fu, n + 1, el, {}, {})
<1>1. Max(fu) \in Nat /\ n \in Nat /\ x = Max(fu) + n + 1
  BY DEF Accounted, HasMax, IsMax
<1>2. \A y : y \in WithWaiting(fu, n + 1) <=> y \in WithWaiting(fu, n) \/ y = x
  BY <1>1 DEF WithWaiting
<1>. QED BY <1>1, <1>2 DEF Accounted

(* eliminateImuFrames in the realtime graph ...                              *)
LEMMA EliminateRealtime ==
  ASSUME NEW rt, NEW fu, NEW n, NEW el, Accounted(rt, fu, n, el, {}, {}),
         NEW id \in rt, id # Max(rt)
  PROVE  Accounted(rt \ {id}, fu, n, el, {}, {id})
<1>1. HasMax(rt \ {id}) /\ Max(rt \ {id}) = Max(rt)
  BY MaxWithout DEF Accounted
<1>. QED BY <1>1 DEF Accounted

(* ... and in the full graph, at once or at the next synchronisation.        *)
LEMMA EliminateFull ==
  ASSUME NEW rt, NEW fu, NEW id, Accounted(rt, fu, 0, {}, {}, {id})
  PROVE  id \in fu /\ Accounted(rt, fu \ {id}, 0, {}, {}, {})
<1>1. /\ Max(fu) \in Nat /\ id # Max(fu)
      /\ \A y : y \in WithWaiting(fu, 0) <=> y \in fu
  BY DEF Accounted, HasMax, IsMax, WithWaiting
<1>2. HasMax(fu \ {id}) /\ Max(fu \ {id}) = Max(fu)
  BY <1>1, MaxWithout DEF Accounted
<1>3. \A y : y \in WithWaiting(fu \ {id}, 0) <=> y \in fu \ {id}
  BY <1>1, <1>2 DEF WithWaiting
<1>. QED BY <1>1, <1>2, <1>3 DEF Accounted

(* An elimination deferred.                                                  *)
LEMMA EliminateWaiting ==
  ASSUME NEW rt, NEW fu, NEW n, NEW el, NEW id,
         Accounted(rt, fu, n, el, {}, {id})
  PROVE  Accounted(rt, fu, n, el \cup {id}, {}, {})
BY DEF Accounted

(* synchroniseRealtimeAndFullGraph.                                          *)
LEMMA AllImported ==
  ASSUME NEW rt, NEW fu, NEW n, NEW el, Accounted(rt, fu, n, el, {}, {})
  PROVE  /\ el \subseteq WithWaiting(fu, n)
         /\ WithWaiting(fu, n) \ el = rt
         /\ Accounted(rt, rt, 0, {}, {}, {})
<1>1. WithWaiting(fu, n) \ el = rt /\ el \subseteq WithWaiting(fu, n)
  BY DEF Accounted
<1>2. Max(rt) \in Nat /\ \A y : y \in WithWaiting(rt, 0) <=> y \in rt
  BY DEF Accounted, HasMax, IsMax, WithWaiting
<1>. QED BY <1>1, <1>2 DEF Accounted

(* The state a worker has added to or removed from the realtime graph only.  *)
Added   == IF job["main"].kind = "add" THEN {job["main"].on} ELSE {}
Removed == IF job["opt"].kind = "eliminate" THEN {job["opt"].on} ELSE {}

StatesInv ==
  /\ job["main"].kind # "eliminate" /\ job["opt"].kind # "add"
  /\ backlog \in Seq(Nat)
  /\ \A i \in 1 .. Len(backlog) : backlog[i] = Max(fullStates) + i
  /\ Accounted(rtStates, fullStates, Len(backlog), eliminate, Added, Removed)

MergeInv  == StatesInv /\ Running
MergeIInv == AnnouncedIInv /\ MarkingInv /\ MergeInv

(* A worker without a job has nothing to add or eliminate.                   *)
LEMMA NothingInHand == NoJob.kind = "none"
BY DEF NoJob

(* Only one worker at a time has a state in hand.                            *)
LEMMA OneInHand ==
  MergeIInv => /\ Added # {} => Removed = {}
               /\ pc["main"] \notin Busy => Added = {}
               /\ pc["opt"] \notin Busy => Removed = {}
<1>. SUFFICES ASSUME MergeIInv
              PROVE  /\ Added # {} => Removed = {}
                     /\ pc["main"] \notin Busy => Added = {}
                     /\ pc["opt"] \notin Busy => Removed = {}
  OBVIOUS
<1>1. \A w \in Workers : pc[w] \notin Busy => job[w] = NoJob
  BY DEF MergeIInv, MarkingInv, JobsOk
<1>2. /\ pc["main"] \notin Busy => Added = {}
      /\ pc["opt"] \notin Busy => Removed = {}
  BY <1>1, NothingInHand DEF Workers, Added, Removed
<1>3. pc["main"] \in Busy => pc["opt"] \notin Busy
  BY DEF MergeIInv, AnnouncedIInv, ExclusionIInv, AloneInv, Alone, Busy,
         WritePlaces
<1>. QED BY <1>2, <1>3

(* Who writes directly finds nothing deferred.                               *)
LEMMA NothingWaiting ==
  ASSUME AnnouncedIInv, NEW w \in Workers, pc[w] = "direct"
  PROVE  backlog = <<>> /\ eliminate = {} /\ touched = {}
BY DEF AnnouncedIInv, AnnouncedInv, Pending, ExclusionIInv, ExclusionInv,
       Exposed

(* At the start the graphs have the same states.                             *)
LEMMA MergeInit == Init => MergeInv
<1>. SUFFICES ASSUME Init PROVE MergeInv
  OBVIOUS
<1>1. Added = {} /\ Removed = {} /\ Running /\ StatesInv!1
  BY NothingInHand DEF Init, Added, Removed, Workers, Running
<1>2. Max({1}) = 1 /\ HasMax({1})
  <2>1. IsMax({1}, 1)
    BY DEF IsMax
  <2>. QED BY <2>1, MaxIs
<1>3. Accounted({1}, {1}, 0, {}, {}, {})
  BY <1>2 DEF Accounted, WithWaiting
<1>4. backlog = <<>> /\ rtStates = {1} /\ fullStates = {1} /\ eliminate = {}
  BY DEF Init
<1>5. backlog \in Seq(Nat) /\ Len(backlog) = 0
  BY <1>4
<1>. QED BY <1>1, <1>3, <1>4, <1>5 DEF MergeInv, StatesInv

(* Steps that leave the states of both graphs and the write in hand alone.   *)
LEMMA MergeKept ==
  ASSUME MergeInv, UNCHANGED <<job, states, failed>>
  PROVE  MergeInv'
BY DEF MergeInv, StatesInv, Running, states, Added, Removed

(* A direct write: to two graphs that were the same.                         *)
LEMMA MergeDirect ==
  ASSUME MergeIInv, NEW w \in Workers, WriteDirect(w)
  PROVE  MergeInv'
<1>1. /\ pc[w] = "direct" /\ job' = [job EXCEPT ![w] = NoJob]
      /\ UNCHANGED <<rtStates, backlog, eliminate>> /\ Running
      /\ DOMAIN job = Workers
  BY DEF WriteDirect, Go, EndJob, MergeIInv, MarkingInv, JobsOk
<1>2. backlog = <<>> /\ eliminate = {} /\ Len(backlog) = 0
  BY <1>1, NothingWaiting DEF MergeIInv
<1>3. Accounted(rtStates, fullStates, 0, {}, Added, Removed)
  BY <1>2 DEF MergeIInv, MergeInv, StatesInv
<1>4. /\ job'["main"].kind # "eliminate" /\ job'["opt"].kind # "add"
      /\ backlog' \in Seq(Nat) /\ Len(backlog') = 0
  BY <1>1, <1>2, NothingInHand DEF MergeIInv, MergeInv, StatesInv, Workers
<1>5. ASSUME Accounted(rtStates, fullStates', 0, {}, Added', Removed'),
             failed' = failed
      PROVE  MergeInv'
  BY <1>1, <1>2, <1>4, <1>5 DEF MergeInv, StatesInv, Running
<1>6. CASE job[w].kind = "add"
  <2>1. w = "main" /\ Added # {} /\ Added = {job[w].on}
    BY <1>6 DEF Workers, Added, MergeIInv, MergeInv, StatesInv
  <2>2. Removed = {} /\ Removed' = {} /\ Added' = {}
    BY <1>1, <2>1, OneInHand, NothingInHand DEF Removed, Added
  <2>3. fullStates' = fullStates \cup {Max(fullStates) + 1} /\ failed' = failed
    BY <1>6 DEF WriteDirect
  <2>. QED BY <1>3, <1>5, <2>1, <2>2, <2>3, AddFull
<1>7. CASE job[w].kind = "eliminate"
  <2>1. w = "opt" /\ Removed # {} /\ Removed = {job[w].on}
    BY <1>7 DEF Workers, Removed, MergeIInv, MergeInv, StatesInv
  <2>2. Added = {} /\ Removed' = {} /\ Added' = {}
    BY <1>1, <2>1, OneInHand, NothingInHand DEF Removed, Added, Workers
  <2>3. Accounted(rtStates, fullStates, 0, {}, {}, {job[w].on})
    BY <1>3, <2>1, <2>2
  <2>4. /\ job[w].on \in fullStates
        /\ Accounted(rtStates, fullStates \ {job[w].on}, 0, {}, {}, {})
    BY <2>3, EliminateFull
  <2>5. fullStates' = fullStates \ {job[w].on} /\ failed' = failed
    BY <1>7, <2>4 DEF WriteDirect, Assert
  <2>. QED BY <1>5, <2>2, <2>4, <2>5
<1>8. CASE job[w].kind \in {"landmark", "copy"}
  <2>1. UNCHANGED <<fullStates, failed>>
    BY <1>8 DEF WriteDirect
  <2>2. Added' = Added /\ Removed' = Removed
    BY <1>1, <1>8, NothingInHand DEF Workers, Added, Removed
  <2>. QED BY <1>3, <1>5, <2>1, <2>2
<1>. QED BY <1>6, <1>7, <1>8 DEF WriteDirect

(* A deferred write: to one, the other to follow.                            *)
LEMMA MergeDeferred ==
  ASSUME MergeIInv, NEW w \in Workers, WriteDeferred(w)
  PROVE  MergeInv'
<1>1. /\ job' = [job EXCEPT ![w] = NoJob] /\ DOMAIN job = Workers
      /\ UNCHANGED <<rtStates, fullStates, failed>> /\ Running
  BY DEF WriteDeferred, Go, EndJob, MergeIInv, MarkingInv, JobsOk
<1>2. Accounted(rtStates, fullStates, Len(backlog), eliminate, Added, Removed)
  BY DEF MergeIInv, MergeInv, StatesInv
<1>3. job'["main"].kind # "eliminate" /\ job'["opt"].kind # "add"
  BY <1>1, NothingInHand DEF MergeIInv, MergeInv, StatesInv, Workers
<1>4. CASE job[w].kind = "add"
  <2>1. w = "main" /\ Added # {} /\ Added = {job[w].on}
    BY <1>4 DEF Workers, Added, MergeIInv, MergeInv, StatesInv
  <2>2. Removed = {} /\ Removed' = {} /\ Added' = {}
    BY <1>1, <2>1, OneInHand, NothingInHand DEF Removed, Added
  <2>3. backlog' = Append(backlog, job[w].on) /\ eliminate' = eliminate
    BY <1>4 DEF WriteDeferred
  <2>4. /\ job[w].on = Max(fullStates) + Len(backlog) + 1
        /\ Max(fullStates) \in Nat
    BY <1>2, <2>1 DEF Accounted, HasMax, IsMax
  <2>5. /\ backlog' \in Seq(Nat) /\ Len(backlog') = Len(backlog) + 1
        /\ \A i \in 1 .. Len(backlog') : backlog'[i] = Max(fullStates) + i
    BY <2>3, <2>4 DEF MergeIInv, MergeInv, StatesInv
  <2>6. Accounted(rtStates, fullStates, Len(backlog) + 1, eliminate, {}, {})
    BY <1>2, <2>1, <2>2, AddWaiting
  <2>. QED BY <1>1, <1>3, <2>2, <2>3, <2>5, <2>6
           DEF MergeInv, StatesInv, Running
<1>5. CASE job[w].kind = "eliminate"
  <2>1. w = "opt" /\ Removed # {} /\ Removed = {job[w].on}
    BY <1>5 DEF Workers, Removed, MergeIInv, MergeInv, StatesInv
  <2>2. Added = {} /\ Removed' = {} /\ Added' = {}
    BY <1>1, <2>1, OneInHand, NothingInHand DEF Removed, Added, Workers
  <2>3. eliminate' = eliminate \cup {job[w].on} /\ backlog' = backlog
    BY <1>5 DEF WriteDeferred
  <2>4. Accounted(rtStates, fullStates, Len(backlog), eliminate', {}, {})
    BY <1>2, <2>1, <2>2, <2>3, EliminateWaiting
  <2>. QED BY <1>1, <1>3, <2>2, <2>3, <2>4
           DEF MergeIInv, MergeInv, StatesInv, Running
<1>6. CASE job[w].kind \notin {"add", "eliminate"}
  <2>1. UNCHANGED <<backlog, eliminate>>
    BY <1>6 DEF WriteDeferred
  <2>2. Added' = Added /\ Removed' = Removed
    BY <1>1, <1>6, NothingInHand DEF Workers, Added, Removed
  <2>. QED BY <1>1, <1>2, <1>3, <2>1, <2>2
           DEF MergeIInv, MergeInv, StatesInv, Running
<1>. QED BY <1>4, <1>5, <1>6

(* The import and the tests of the flags before it.                          *)
LEMMA MergeImport ==
  ASSUME MergeIInv, NEW w \in Workers, Import(w)
  PROVE  MergeInv'
<1>1. CASE GetAvailable(w) \/ GetClosing(w)
  BY <1>1, MergeKept DEF MergeIInv, GetAvailable, GetClosing
<1>2. CASE SyncAssert(w)
  <2>1. ~closing
    BY <1>2 DEF SyncAssert, Go, MergeIInv, AnnouncedIInv, ExclusionIInv,
         ExclusionInv, Exposed
  <2>2. UNCHANGED <<job, states, failed>>
    BY <1>2, <2>1 DEF SyncAssert, Assert
  <2>. QED BY <2>2, MergeKept DEF MergeIInv
<1>3. CASE Synchronise(w)
  <2>1. pc["main"] \notin Busy /\ pc["opt"] \notin Busy
    BY <1>3 DEF Synchronise, Go, MergeIInv, AnnouncedIInv, AnnouncedInv,
         Imports, ExclusionIInv, AloneInv, Alone, Busy, WritePlaces, Workers
  <2>2. Added = {} /\ Removed = {}
    BY <2>1, OneInHand
  <2>3. UNCHANGED <<job, rtStates>> /\ fullStates' = Synchronised
        /\ backlog' = <<>> /\ eliminate' = {} /\ Running
    BY <1>3 DEF Synchronise, Go
  <2>4. /\ eliminate \subseteq WithBacklog /\ Synchronised = rtStates
        /\ Accounted(rtStates, rtStates, 0, {}, {}, {})
    BY <2>2, AllImported
       DEF MergeIInv, MergeInv, StatesInv, WithBacklog, Synchronised,
           WithWaiting
  <2>5. failed' = failed
    BY <1>3, <2>4 DEF Synchronise, Assert
  <2>6. Added' = {} /\ Removed' = {}
        /\ job'["main"].kind # "eliminate" /\ job'["opt"].kind # "add"
    BY <2>2, <2>3 DEF Added, Removed, MergeIInv, MergeInv, StatesInv
  <2>7. backlog' \in Seq(Nat) /\ Len(backlog') = 0
    BY <2>3
  <2>. QED BY <2>3, <2>4, <2>5, <2>6, <2>7 DEF MergeInv, StatesInv, Running
<1>. QED BY <1>1, <1>2, <1>3 DEF Import

(* A worker starts on a write that does not concern the states.              *)
LEMMA MergeBegin ==
  ASSUME MergeIInv, NEW w \in Workers, NEW from, NEW j,
         from \notin Busy, Begin(w, from, j), j.kind \in {"landmark", "copy"},
         UNCHANGED <<states, failed>>
  PROVE  MergeInv'
<1>1. /\ job' = [job EXCEPT ![w] = j] /\ DOMAIN job = Workers
      /\ pc[w] \notin Busy
  BY DEF Begin, Go, MergeIInv, MarkingInv, JobsOk
<1>2. Added' = Added /\ Removed' = Removed
  BY <1>1, OneInHand DEF Workers, Added, Removed
<1>3. job'["main"].kind # "eliminate" /\ job'["opt"].kind # "add"
  BY <1>1 DEF MergeIInv, MergeInv, StatesInv, Workers
<1>. QED BY <1>2, <1>3 DEF MergeIInv, MergeInv, StatesInv, Running, states

(* The steps of the frame thread,                                            *)
LEMMA MergeMain == MergeIInv /\ MainStep => MergeInv'
<1>. SUFFICES ASSUME MergeIInv, MainStep PROVE MergeInv'
  OBVIOUS
<1>0. "main" \in Workers
  BY DEF Workers
<1>1. CASE Write("main")
  BY <1>0, <1>1, MergeKept, MergeDirect, MergeDeferred
     DEF Write, ReadClosing, ReadAvailable, MergeIInv
<1>2. CASE Import("main")
  BY <1>0, <1>2, MergeImport
<1>3. CASE JoinOptAndAdd
  <2>. DEFINE id == Max(rtStates) + 1
  <2>1. /\ pc["main"] = "joinOpt" /\ pc["opt"] \in {"none", "done"}
        /\ rtStates' = rtStates \cup {id}
        /\ job' = [job EXCEPT !["main"] = [kind |-> "add", on |-> id]]
        /\ UNCHANGED <<fullStates, backlog, eliminate, failed>>
    BY <1>3 DEF JoinOptAndAdd
  <2>2. Added = {} /\ Removed = {}
    BY <2>1, OneInHand DEF Busy, WritePlaces
  <2>3. /\ Added' = {id} /\ Removed' = {}
        /\ job'["main"].kind # "eliminate" /\ job'["opt"].kind # "add"
    BY <2>1, <2>2 DEF Added, Removed, Workers, MergeIInv, MarkingInv, JobsOk,
                      MergeInv, StatesInv
  <2>4. Accounted(rtStates \cup {id}, fullStates, Len(backlog), eliminate,
                  {id}, {})
    BY <2>2, AddRealtime DEF MergeIInv, MergeInv, StatesInv
  <2>. HIDE DEF id
  <2>. QED BY <2>1, <2>3, <2>4 DEF MergeIInv, MergeInv, StatesInv, Running
<1>4. CASE \E l \in Landmarks : WriteLandmark("main", "match", l)
  BY <1>0, <1>4, MergeBegin DEF WriteLandmark, Busy, WritePlaces
<1>5. CASE AttemptLoopClosure
  <2>1. ~closing /\ ~available
    BY <1>0, <1>5 DEF AttemptLoopClosure, Go, MergeIInv, AnnouncedIInv,
         AnnouncedInv, ExclusionIInv, ExclusionInv, Exposed
  <2>. QED BY <1>5, <2>1, MergeKept DEF AttemptLoopClosure, Assert, MergeIInv
<1>6. CASE \/ GuardClosing \/ GuardAvailable \/ GuardNeeds \/ NoLoopClosure
           \/ AddLoopClosureFrame \/ LaunchOpt \/ TestNeeds \/ LaunchFull
           \/ StopJoinOpt \/ StopJoinFull
  BY <1>6, MergeKept
     DEF GuardClosing, GuardAvailable, GuardNeeds, NoLoopClosure,
         AddLoopClosureFrame, LaunchOpt, TestNeeds, LaunchFull, StopJoinOpt,
         StopJoinFull, MergeIInv
<1>. QED BY <1>1, <1>2, <1>3, <1>4, <1>5, <1>6 DEF MainStep

(* of the realtime optimisation,                                             *)
LEMMA MergeOpt == MergeIInv /\ OptStep => MergeInv'
<1>. SUFFICES ASSUME MergeIInv, OptStep PROVE MergeInv'
  OBVIOUS
<1>0. "opt" \in Workers
  BY DEF Workers
<1>1. CASE Write("opt")
  BY <1>0, <1>1, MergeKept, MergeDirect, MergeDeferred
     DEF Write, ReadClosing, ReadAvailable, MergeIInv
<1>2. CASE Import("opt")
  BY <1>0, <1>2, MergeImport
<1>3. CASE OptimiseRealtimeGraph
  BY <1>0, <1>3, MergeBegin DEF OptimiseRealtimeGraph, Busy, WritePlaces
<1>4. CASE \E l \in Landmarks : WriteLandmark("opt", "strategy", l)
  BY <1>0, <1>4, MergeBegin DEF WriteLandmark, Busy, WritePlaces
<1>5. ASSUME NEW id \in rtStates, EliminateImuFrame(id) PROVE MergeInv'
  <2>1. /\ pc["opt"] = "strategy" /\ rtStates' = rtStates \ {id}
        /\ job' = [job EXCEPT !["opt"] = [kind |-> "eliminate", on |-> id]]
        /\ UNCHANGED <<fullStates, backlog, eliminate, failed>>
        /\ id + NumImuFrames <= Max(rtStates)
    BY <1>5 DEF EliminateImuFrame, Begin, Go
  <2>2. id # Max(rtStates)
    BY <2>1, BoundsAssumption
       DEF MergeIInv, MergeInv, StatesInv, Accounted, HasMax, IsMax
  <2>3. Added = {} /\ Removed = {}
    <3>1. pc["main"] \notin Busy
      BY <2>1 DEF MergeIInv, AnnouncedIInv, ExclusionIInv, AloneInv, Alone,
                  Busy
    <3>. QED BY <2>1, <3>1, OneInHand DEF Busy, WritePlaces
  <2>4. /\ Added' = {} /\ Removed' = {id}
        /\ job'["main"].kind # "eliminate" /\ job'["opt"].kind # "add"
    BY <2>1, <2>3 DEF Added, Removed, Workers, MergeIInv, MarkingInv, JobsOk,
                      MergeInv, StatesInv
  <2>5. Accounted(rtStates \ {id}, fullStates, Len(backlog), eliminate,
                  {}, {id})
    BY <2>2, <2>3, EliminateRealtime DEF MergeIInv, MergeInv, StatesInv
  <2>. QED BY <2>1, <2>4, <2>5 DEF MergeIInv, MergeInv, StatesInv, Running
<1>6. CASE EndOpt
  BY <1>6, MergeKept DEF EndOpt, MergeIInv
<1>. QED BY <1>1, <1>2, <1>3, <1>4, <1>5, <1>6 DEF OptStep

(* and of all threads.                                                       *)
LEMMA MergeStep == PromptLaunch /\ MergeIInv /\ [Next]_vars => MergeIInv'
<1>. SUFFICES ASSUME PromptLaunch, MergeIInv, [Next]_vars PROVE MergeIInv'
  OBVIOUS
<1>1. AnnouncedIInv' /\ MarkingInv'
  BY AnnouncedStep, MarkingStep DEF MergeIInv, AnnouncedIInv, ExclusionIInv
<1>. SUFFICES MergeInv'
  BY <1>1 DEF MergeIInv
<1>2. CASE FullThread
  <2>1. CASE FullClearsNeeds
    <3>1. ~closing
      BY <2>1 DEF FullClearsNeeds, FullStep, MergeIInv, AnnouncedIInv,
                  ExclusionIInv, ExclusionInv
    <3>. QED BY <2>1, <3>1, MergeKept DEF FullClearsNeeds, Assert, MergeIInv
  <2>. QED BY <1>2, <2>1, MergeKept
           DEF FullThread, FullSetsClosing, FullSetsAvailable,
               FullClearsClosing, MergeIInv
<1>3. CASE FrameArrives \/ Stop
  BY <1>3, MergeKept DEF FrameArrives, Stop, MergeIInv
<1>4. CASE Halted \/ UNCHANGED vars
  BY <1>4, MergeKept DEF Halted, vars, MergeIInv
<1>. QED BY <1>2, <1>3, <1>4, MergeMain, MergeOpt DEF Next

(* No state is lost on the way, under any schedule with a prompt launch.     *)
LEMMA MergeHolds == PromptLaunch => (Spec => []MergeIInv)
<1>. SUFFICES ASSUME PromptLaunch PROVE Spec => []MergeIInv
  OBVIOUS
<1>1. Init => MergeIInv
  BY AloneInit, ExclusionInit, AnnouncedInit, MarkingInit, MergeInit
     DEF MergeIInv, AnnouncedIInv, ExclusionIInv
<1>2. MergeIInv /\ [Next]_vars => MergeIInv'
  BY MergeStep
<1>. QED BY <1>1, <1>2, PTL DEF Spec

(* No state is lost or numbered differently by the detour over the backlog,  *)
(* for any number of frames and whenever the flags change (addStates,        *)
(* eliminateImuFrames, synchroniseRealtimeAndFullGraph).                     *)
THEOREM NoStateLost == PromptLaunch => (Spec => []StatesAccounted)
<1>. SUFFICES ASSUME PromptLaunch PROVE Spec => []StatesAccounted
  OBVIOUS
<1>1. MergeIInv => StatesAccounted
  <2>. SUFFICES ASSUME MergeIInv, Quiet
                PROVE  rtStates =
                         (fullStates \cup {backlog[i] : i \in DOMAIN backlog})
                            \ eliminate
    BY DEF StatesAccounted
  <2>1. Added = {} /\ Removed = {}
    BY NothingInHand DEF Quiet, Workers, Added, Removed
  <2>2. rtStates = WithWaiting(fullStates, Len(backlog)) \ eliminate
    BY <2>1, AllImported DEF MergeIInv, MergeInv, StatesInv
  <2>3. /\ DOMAIN backlog = 1 .. Len(backlog) /\ Max(fullStates) \in Nat
        /\ Len(backlog) \in Nat
        /\ \A i \in 1 .. Len(backlog) : backlog[i] = Max(fullStates) + i
    BY DEF MergeIInv, MergeInv, StatesInv, Accounted, HasMax, IsMax
  <2>4. {backlog[i] : i \in DOMAIN backlog}
          = Max(fullStates) + 1 .. Max(fullStates) + Len(backlog)
    <3>1. \A x \in Max(fullStates) + 1 .. Max(fullStates) + Len(backlog) :
            /\ x - Max(fullStates) \in DOMAIN backlog
            /\ backlog[x - Max(fullStates)] = x
      BY <2>3
    <3>. QED BY <2>3, <3>1
  <2>. QED BY <2>2, <2>4 DEF WithWaiting
<1>. QED BY <1>1, MergeHolds, PTL

(* The assertions of the three threads about the flags hold, every state to  *)
(* eliminate is found, and after a synchronisation the two graphs have the   *)
(* same states, for any number of frames, landmarks and loop closures.       *)
THEOREM NoAssertion == PromptLaunch => (Spec => []NoAssertionFails)
<1>. SUFFICES ASSUME PromptLaunch PROVE Spec => []NoAssertionFails
  OBVIOUS
<1>1. MergeIInv => NoAssertionFails
  BY DEF MergeIInv, MergeInv, NoAssertionFails
<1>. QED BY <1>1, MergeHolds, PTL

(* When stopThreading returns, the full graph that doFinalBa and saveMap use *)
(* holds every state and every landmark of the realtime graph, and no result *)
(* and no request is left behind.                                            *)
THEOREM FinalMapHasAll == PromptLaunch => (Spec => []FinalMapComplete)
<1>. SUFFICES ASSUME PromptLaunch PROVE Spec => []FinalMapComplete
  OBVIOUS
<1>1. MergeIInv => FinalMapComplete
  <2>. SUFFICES ASSUME MergeIInv, pc["main"] = "stopped"
                PROVE  /\ rtStates = fullStates /\ rtVersion = fullVersion
                       /\ ~needs /\ ~closing /\ ~available
    BY DEF FinalMapComplete
  <2>1. ~needs /\ ~closing /\ ~available /\ pc["opt"] \in {"none", "done"}
    BY DEF MergeIInv, AnnouncedIInv, AnnouncedInv, StopInv, ExclusionIInv,
           ExclusionInv, Imports, Alone, WritePlaces
  <2>2. backlog = <<>> /\ eliminate = {} /\ touched = {}
    BY <2>1 DEF MergeIInv, AnnouncedIInv, AnnouncedInv, Pending
  <2>3. \A w \in Workers : job[w] = NoJob
    BY <2>1 DEF MergeIInv, MarkingInv, JobsOk, Workers, Busy, WritePlaces
  <2>4. rtStates = fullStates
    <3>1. Added = {} /\ Removed = {} /\ Len(backlog) = 0
      BY <2>2, <2>3, NothingInHand DEF Workers, Added, Removed
    <3>2. Accounted(rtStates, fullStates, 0, {}, {}, {})
      BY <2>2, <3>1 DEF MergeIInv, MergeInv, StatesInv
    <3>3. Max(fullStates) \in Nat /\ \A x : x \in rtStates <=> x \in fullStates
      BY <3>2 DEF Accounted, HasMax, IsMax, WithWaiting
    <3>. QED BY <3>3
  <2>5. \A l \in Landmarks : rtVersion[l] = fullVersion[l]
    BY <2>2, <2>3, NoJobIsNoLandmark
       DEF MergeIInv, MarkingInv, MarkedOrInHand, WrittenBy
  <2>. QED BY <2>1, <2>4, <2>5 DEF MergeIInv, MarkingInv, JobsOk
<1>. QED BY <1>1, MergeHolds, PTL
============================================================================
