---------------------------- MODULE FrameWindow ----------------------------
(* The life of a frame in ViSlamBackend: IMU window, keyframe window, pose   *)
(* graph, back as a loop-closure frame; which states each graph holds fixed; *)
(* what a loop closure moves, the full-graph optimisation changes and its    *)
(* import brings back; what is announced to the subscriber's Trajectory.     *)
(*                                                                           *)
(* The realtime thread runs one frame through the phases below while the     *)
(* full graph may be optimising.  Poses are abstracted to whether the graphs *)
(* agree on them and whether a change was announced; covisibility, place     *)
(* recognition and overlaps are arbitrary choices.  Landmarks are in         *)
(* GraphSync, the flags step by step in LoopClosureThreads.                  *)
EXTENDS ImuPreintegration, FiniteSets

CONSTANTS
  MaxFrames,            \* bound: frames, at least one
  NumKeyframes, NumLoopClosureFrames, NumImuFrames,       \* parameters
  NumRealtimePoseGraphFrames, NumPoseGraphFrames,         \* 12 in the code
  MinDeltaT,            \* minDeltaT, in units of time
  MaxConversions,       \* "max 3 at the time"
  Covisibilities,       \* which pairs of frames share landmarks: the cases
  MaxClosures,          \* bound: loop closures
  MaxBacklog,           \* bound: frames during one full-graph optimisation
  EarlyClosures         \* may a loop be closed before anything was frozen?

ASSUME SizesAssumption ==
  /\ {MaxFrames, NumKeyframes, NumImuFrames, MaxConversions} \subseteq Nat \ {0}
  /\ \A covisibility \in Covisibilities :
       covisibility \subseteq {{s, h} : s, h \in 1 .. MaxFrames}
  /\ {NumLoopClosureFrames, NumRealtimePoseGraphFrames, NumPoseGraphFrames,
      MinDeltaT, MaxClosures, MaxBacklog} \subseteq Nat
  /\ EarlyClosures \in BOOLEAN

Id == 1 .. MaxFrames

(* processFrame drops an image that is older than the first measurement and  *)
(* waits for those past a frame; more than one comes per frame.              *)
ASSUME ImuCoverage ==
  /\ Stamp(1) <= Time(1)
  /\ \A s \in Id : \E n \in 1 .. Len(Imu) : Time(s) + Overlap <= Stamp(n)
  /\ \A s \in 1 .. MaxFrames - 1 : \E n \in 1 .. Len(Imu) :
       Time(s) < Stamp(n) /\ Stamp(n) <= Time(s + 1)

VARIABLES
  phase,                        \* where the realtime thread is
  needs, closing, available,    \* needsFullGraphOptimisation_, isLoopClosing_,
                                \* isLoopClosureAvailable_
  rtStates, fullStates,         \* states_ of either graph
  keyframes,                    \* State::isKeyframe
  imuFrames, keyFrames, loopClosureFrames, currentLoopClosureFrames,
  poseGraphFrames,              \* AuxiliaryState::isPoseGraphFrame
  recognisable,                 \* the frames in dBow_
  recent,                       \* AuxiliaryState::recentLoopClosureFrames
  loopId,                       \* AuxiliaryState::loopId
  covisible,                    \* one of Covisibilities
  links,                        \* twoPoseLinks of the realtime graph: pairs
  rtFixed, fullFixed,           \* states whose pose and speed are fixed
  lastFreeze,                   \* lastFreeze_; 0: not set
  rtImu, fullImu,               \* previousImuLink of every state
  backlog, eliminateStates,     \* addStatesBacklog_; eliminateStates_
  constraints, closed,          \* loop closures waiting for the optimisation,
                                \* and all there ever were: pairs <<i, j>>
  differ,                       \* states whose pose may differ in the graphs
  changed,                      \* states moved since the last announcement
  attempted,                    \* updatedStatesLoopClosureAttempt_
  updated, updatedSync,         \* updatedStatesRealtime, updatedStatesSync
  affected,                     \* affectedStates_
  trajectory,                   \* states the subscriber can be asked about
  ctrPg, ctrLc, keyFrameEliminated,
  failed                        \* the assertion that failed

flags    == <<needs, closing, available>>
window   == <<imuFrames, keyFrames, loopClosureFrames, poseGraphFrames>>
fixation == <<rtFixed, fullFixed, lastFreeze>>
imu      == <<rtImu, fullImu>>
places   == <<recognisable, recent, loopId, constraints, closed>>
report   == <<changed, attempted, updated, updatedSync, trajectory>>
counters == <<ctrPg, ctrLc, keyFrameEliminated>>
deferred == <<backlog, eliminateStates>>
vars == <<covisible, phase, flags, rtStates, fullStates, keyframes, window,
          currentLoopClosureFrames, places, links, fixation, imu, deferred,
          differ, report, affected, counters, failed>>

Init ==
  /\ phase = "idle"
  /\ needs = FALSE /\ closing = FALSE /\ available = FALSE
  /\ rtStates = {} /\ fullStates = {} /\ keyframes = {}
  /\ imuFrames = {} /\ keyFrames = {} /\ loopClosureFrames = {}
  /\ currentLoopClosureFrames = {} /\ poseGraphFrames = {}
  /\ recognisable = {} /\ recent = [s \in Id |-> {}] /\ loopId = [s \in Id |-> 0]
  /\ covisible \in Covisibilities
  /\ links = {} /\ rtFixed = {} /\ fullFixed = {} /\ lastFreeze = 0
  /\ rtImu = [s \in Id |-> NoLink] /\ fullImu = [s \in Id |-> NoLink]
  /\ backlog = <<>> /\ eliminateStates = {}
  /\ constraints = {} /\ closed = {}
  /\ differ = {} /\ changed = {} /\ attempted = {} /\ updated = {}
  /\ updatedSync = {} /\ affected = {} /\ trajectory = {}
  /\ ctrPg = 0 /\ ctrLc = 0 /\ keyFrameEliminated = FALSE
  /\ failed = "none"

Running == failed = "none"
Go(from, to) == Running /\ phase = from /\ phase' = to
Check(condition, what) == failed' = IF condition THEN failed ELSE what

Deferring == closing \/ available
Newest == Max(rtStates)
Window == keyFrames \cup loopClosureFrames
Linked(s) == {h \in Id : {s, h} \in links}
Covisible(s) == {h \in Id : h # s /\ {s, h} \in covisible}

----------------------------------------------------------------------------
(* ViGraphEstimator on one graph with the states S.                          *)

(* n places before s in S, or the first state.                               *)
Before(S, s, n) ==
  LET older == {x \in S : x <= s}
      far   == {x \in older : Cardinality({z \in older : z > x}) >= n}
  IN  IF far = {} THEN Min(S) ELSE Max(far)

(* From s backwards in S until one of good, or the first state.              *)
BackTo(S, s, good) ==
  LET found == {x \in S : x <= s /\ x \in good}
  IN  IF found = {} THEN Min(S) ELSE Max(found)

OldEnough(t) == {s \in Id : t - Time(s) >= MinDeltaT}

(* freezePosesUntil, freezeSpeedAndBiasesUntil: from s backwards up to the   *)
(* first state that is fixed already.                                        *)
FreezeUntil(fixed, S, s) ==
  fixed \cup {x \in S : x <= s /\ (x .. s) \cap fixed = {}}

(* unfreezePosesFrom, unfreezeSpeedAndBiasesFrom: from the newest state back *)
(* to s.                                                                     *)
UnfreezeFrom(fixed, S, s) ==
  IF s \in S THEN {x \in fixed : x < s} ELSE {}

(* eliminateStateByImuMerge: the IMU error that leads to s takes up the one  *)
(* that leaves it.                                                           *)
MergeImu(links_, S, s) ==
  LET next == Min({x \in S : x > s}) IN
    [links_ EXCEPT ![next] = Appended(links_[s], links_[next]), ![s] = NoLink]

----------------------------------------------------------------------------
(* A frame enters.                                                           *)

AddStates ==
  LET id   == IF rtStates = {} THEN 1 ELSE Newest + 1
      link == IF rtStates = {} THEN NoLink ELSE ImuLink(Newest, id) IN
    /\ Go("idle", "matching") /\ id \in Id
    /\ closing => Len(backlog) < MaxBacklog
    /\ rtStates' = rtStates \cup {id}
    /\ imuFrames' = imuFrames \cup {id}
    /\ loopId' = [loopId EXCEPT ![id] = id]
    /\ rtImu' = [rtImu EXCEPT ![id] = link]
    /\ changed' = changed \cup {id}
    /\ IF Deferring
         THEN /\ backlog' = Append(backlog, id)
              /\ differ' = differ \cup {id}
              /\ UNCHANGED <<fullStates, fullImu>>
         ELSE /\ fullStates' = fullStates \cup {id}
              /\ fullImu' = [fullImu EXCEPT ![id] = link]
              /\ UNCHANGED <<backlog, differ>>
    /\ UNCHANGED <<covisible, flags, keyframes, keyFrames, loopClosureFrames,
                   poseGraphFrames, currentLoopClosureFrames, recognisable,
                   recent, constraints, closed, links, fixation,
                   eliminateStates, attempted, updated, updatedSync,
                   trajectory, affected, counters, failed>>

(* matchToMap optimises the newest state alone: the others are fixed, and    *)
(* set free again from the oldest state that was variable before.            *)
OptimiseNewest ==
  LET second    == Before(rtStates, Newest, 1)
      unfreeze  == {s \in rtStates : \A x \in rtStates : x >= s => x \notin rtFixed}
      allFixed  == FreezeUntil(rtFixed, rtStates, second) IN
    /\ Go("matching", "recognising")
    /\ rtFixed' = IF second = Newest THEN rtFixed
                  ELSE UnfreezeFrom(allFixed, rtStates, Min(unfreeze))
    /\ rtImu' = [rtImu EXCEPT ![Newest] = Evaluate(@)]
    /\ changed' = changed \cup {Newest}
    /\ UNCHANGED <<covisible, flags, rtStates, fullStates, keyframes, window,
                   currentLoopClosureFrames, places, links, fullFixed,
                   lastFreeze, fullImu, deferred, differ, attempted, updated,
                   updatedSync, trajectory, affected, counters, failed>>

(* attemptLoopClosure: the states after i are moved in both graphs; a loop   *)
(* that earlier closures made rigid all the way cannot be closed again.      *)
Attempt(i) ==
  LET moved == {s \in rtStates : s > i} IN
    /\ \E s \in rtStates : s > i /\ loopId[s] # loopId[i]
    /\ changed' = changed \cup moved
    /\ attempted' = attempted \cup moved
    /\ constraints' = constraints \cup {<<i, Newest>>}
    /\ closed' = closed \cup {<<i, Newest>>}

(* Slip: whatever the frame is linked to.                                    *)
AllLinked(i) == Linked(i)

LinkedPoseGraphFrames(i) == (Linked(i) \cap poseGraphFrames) \ keyFrames

(* addLoopClosureFrame, first part: i and the pose-graph frames it is linked *)
(* to come back.                                                             *)
BringBack(i) ==
  LET back == {i} \cup LinkedPoseGraphFrames(i)
      loop == loopClosureFrames \cup back IN
    /\ loopClosureFrames' = loop
    /\ currentLoopClosureFrames' = currentLoopClosureFrames \cup back
    /\ poseGraphFrames' = poseGraphFrames \ back
    /\ links' = {l \in links : i \notin l}
    /\ recent' = [s \in Id |-> IF s \in keyFrames \cup loop
                               THEN recent[s] \cup loop ELSE recent[s]]

(* Slip: the states of the loop keep the loop they belonged to.              *)
LoopIdsKept(i) == loopId

(* Everything after the start of the loop of i belongs to that loop now.     *)
LoopIds(i) == [s \in Id |-> IF s \in rtStates /\ s >= loopId[i]
                            THEN loopId[i] ELSE loopId[s]]

(* Slip: the start does not go back to lastFreeze_.                          *)
LoopStartUnclamped(i) ==
  BackTo(rtStates, Before(rtStates, loopId[i], NumPoseGraphFrames),
         OldEnough(Time(i)))

(* addLoopClosureFrame, second part: the oldest state the optimisation may   *)
(* move.                                                                     *)
LoopStart(i) ==
  LET start == BackTo(rtStates,
                      Before(rtStates, loopId[i], NumPoseGraphFrames),
                      OldEnough(Time(i)))
  IN  IF lastFreeze = 0 THEN start ELSE BackTo(rtStates, start, 1 .. lastFreeze)

CloseLoop(i) ==
  LET start == LoopStart(i)
      free  == UnfreezeFrom(fullFixed, fullStates, start) IN
    /\ Go("recognising", "deciding")
    /\ ~needs /\ ~Deferring
    /\ Cardinality(closed) < MaxClosures
    /\ lastFreeze # 0 \/ EarlyClosures
    /\ i \in recognisable \cap poseGraphFrames \cap Covisible(Newest)
    /\ i \notin loopClosureFrames /\ \A s \in Window : i \notin recent[s]
    /\ Attempt(i)
    /\ BringBack(i)
    /\ loopId' = LoopIds(i)
    /\ fullFixed' = IF start = Min(rtStates) THEN free
                    ELSE FreezeUntil(free, fullStates, start)
    /\ needs' = TRUE
    /\ UNCHANGED <<covisible, closing, available, rtStates, fullStates,
                   keyframes, imuFrames, keyFrames, recognisable, rtFixed,
                   lastFreeze, imu, deferred, differ, updated, updatedSync,
                   trajectory, affected, counters, failed>>

(* doWeNeedANewKeyframe and setKeyframe; only where a loop closure was       *)
(* looked for does a keyframe enter the database.                            *)
SetKeyframe(asKeyframe) ==
  /\ Running /\ phase \in {"recognising", "deciding"} /\ phase' = "optimising"
  /\ Cardinality(rtStates) < 4 => asKeyframe
  /\ keyframes' = IF asKeyframe THEN keyframes \cup {Newest} ELSE keyframes
  /\ recognisable' =
       IF asKeyframe /\ (phase = "deciding" \/ (~Deferring /\ ~needs))
         THEN recognisable \cup {Newest} ELSE recognisable
  /\ UNCHANGED <<covisible, flags, rtStates, fullStates, window,
                 currentLoopClosureFrames, recent, loopId, constraints, closed,
                 links, fixation, imu, deferred, differ, report, affected,
                 counters, failed>>

----------------------------------------------------------------------------
(* The two optimisations and the import.                                     *)

(* processFrame starts optimiseFullGraph once matching asked for it.         *)
StartFull ==
  /\ Running /\ phase = "optimising" /\ needs
  /\ needs' = FALSE /\ closing' = TRUE
  /\ UNCHANGED <<covisible, phase, available, rtStates, fullStates, keyframes,
                 window, currentLoopClosureFrames, places, links, fixation,
                 imu, deferred, differ, report, affected, counters, failed>>

(* optimiseFullGraph returns, on a thread of its own, whatever the realtime  *)
(* thread is doing.                                                          *)
FinishFull ==
  LET moved == fullStates \ fullFixed IN
    /\ Running /\ closing
    /\ closing' = FALSE /\ available' = TRUE
    /\ constraints' = {}
    /\ differ' = differ \cup (moved \cap rtStates)
    /\ fullImu' = [s \in Id |-> IF s \in moved /\ fullImu[s] # NoLink
                                THEN Evaluate(fullImu[s]) ELSE fullImu[s]]
    /\ UNCHANGED <<covisible, phase, needs, rtStates, fullStates, keyframes,
                   window, currentLoopClosureFrames, recognisable, recent,
                   loopId, closed, links, fixation, rtImu, deferred, report,
                   affected, counters, failed>>

(* Slip: the states of a loop-closure attempt are not remembered.            *)
UpdatedVariable(moved) == moved

(* Variable states and those of a loop-closure attempt count as updated.     *)
Updated(moved) == attempted \cup moved

(* Poses and IMU errors go over to the full graph while that is at rest.     *)
Adopt(moved, imu_) ==
  IF Deferring
    THEN differ' = differ \cup moved /\ UNCHANGED fullImu
    ELSE /\ differ' = differ \ moved
         /\ fullImu' = [s \in Id |-> IF \A x \in rtFixed : s >= x
                                     THEN imu_[s] ELSE fullImu[s]]

OptimiseRealtimeGraph ==
  LET moved == rtStates \ rtFixed
      imu_  == [s \in Id |-> IF s \in moved /\ rtImu[s] # NoLink
                            THEN Evaluate(rtImu[s]) ELSE rtImu[s]] IN
    /\ Go("optimising", "importing") /\ ~needs
    /\ rtImu' = imu_
    /\ updated' = Updated(moved) /\ attempted' = {}
    /\ changed' = changed \cup moved
    /\ Adopt(moved, imu_)
    /\ UNCHANGED <<covisible, flags, rtStates, fullStates, keyframes, window,
                   currentLoopClosureFrames, places, links, fixation, deferred,
                   updatedSync, trajectory, affected, counters, failed>>

SkipImport ==
  /\ Go("importing", "publishing") /\ ~available
  /\ UNCHANGED <<covisible, flags, rtStates, fullStates, keyframes, window,
                 currentLoopClosureFrames, places, links, fixation, imu,
                 deferred, differ, report, affected, counters, failed>>

(* The full graph takes up the states that waited, each with an IMU error    *)
(* from the one before.                                                      *)
WithBacklog ==
  LET waiting == ToSet(backlog)
      states  == fullStates \cup waiting
  IN  [states |-> states,
       imu    |-> [s \in Id |-> IF s \in waiting
                                THEN ImuLink(Max({x \in states : x < s}), s)
                                ELSE fullImu[s]]]

(* Slip: the states that were eliminated meanwhile stay.                     *)
StillThere(g) == g

(* It eliminates the ones that are gone by now, the oldest first.            *)
WithoutEliminated(g) ==
  LET upTo[s \in 0 .. MaxFrames] ==
        IF s = 0 THEN g.imu
        ELSE IF s \in eliminateStates THEN MergeImu(upTo[s - 1], g.states, s)
        ELSE upTo[s - 1]
  IN  [states |-> g.states \ eliminateStates, imu |-> upTo[MaxFrames]]

(* Slip: stops at the first state that is fixed in the realtime graph.       *)
CopiedToFixed(states, full, rt) == {s \in states : \A x \in rt : s > x}

(* From the newest state back to the first one fixed in both graphs, poses   *)
(* and IMU errors are taken from the full graph.                             *)
Copied(states, full, rt) == {s \in states : \A x \in full \cap rt : s > x}

Synchronise(from, to) ==
  LET graph  == WithoutEliminated(WithBacklog)
      both   == fullFixed \cap rtFixed
      copied == Copied(graph.states, fullFixed, rtFixed) IN
    /\ Go(from, to) /\ available /\ ~closing
    /\ keyFrames' = keyFrames \cup loopClosureFrames
    /\ loopClosureFrames' = {} /\ currentLoopClosureFrames' = {}
    /\ fullStates' = graph.states /\ fullImu' = graph.imu
    /\ backlog' = <<>> /\ eliminateStates' = {}
    /\ rtImu' = [s \in Id |-> IF s \in copied THEN graph.imu[s] ELSE rtImu[s]]
    /\ updatedSync' = copied
    /\ changed' = changed \cup copied
    /\ differ' = differ \ copied
    /\ available' = FALSE
    /\ failed' = IF ~ copied \subseteq rtStates THEN "state not present"
                 ELSE IF both # {} /\ Max(both) \in differ THEN "O-O"
                 ELSE IF graph.states # rtStates THEN "inconsistent states"
                 ELSE failed
    /\ UNCHANGED <<covisible, needs, closing, rtStates, keyframes, imuFrames,
                   poseGraphFrames, places, links, fixation, attempted,
                   updated, trajectory, affected, counters>>

ImportFullGraph == Synchronise("importing", "publishing")

----------------------------------------------------------------------------
(* What the subscriber learns.                                               *)

(* Slip: any frame will do, keyframe or not.                                 *)
AnyOverlapping(s, considerLoopClosureFrames) ==
  {k \in keyFrames \cup imuFrames \cup loopClosureFrames :
     k # s /\ (considerLoopClosureFrames \/ k \notin currentLoopClosureFrames)}

(* mostOverlappedStateId: any of these keyframes, by overlap.                *)
OverlapCandidates(s, considerLoopClosureFrames) ==
  {k \in (keyFrames \cup imuFrames \cup loopClosureFrames) \cap keyframes :
     k # s /\ (considerLoopClosureFrames \/ k \notin currentLoopClosureFrames)}

(* Trajectory::update: a keyframe is stored by itself, another frame with    *)
(* its keyframe, if that one is stored.                                      *)
KeyframeKnown(k) == k \in trajectory \cap keyframes

Tell ==
  \/ /\ Newest \in keyframes
     /\ trajectory' = trajectory \cup {Newest}
  \/ /\ Newest \notin keyframes
     /\ \E k \in OverlapCandidates(Newest, FALSE) \cup {0} :
          /\ k = 0 => OverlapCandidates(Newest, FALSE) = {}
          /\ trajectory' = IF KeyframeKnown(k) THEN trajectory \cup {Newest}
                                            ELSE trajectory

(* optimisePublishMarginalise: the states the import updated if there are    *)
(* any, else the ones the realtime optimisation did; over them the ones the  *)
(* last applyStrategy affected, flagged as not changed.                      *)
Publish ==
  LET announced == IF updatedSync # {} THEN updatedSync ELSE updated IN
    /\ Go("publishing", "eliminating")
    /\ changed' = changed \ (announced \cup affected)
    /\ updated' = {} /\ updatedSync' = {} /\ affected' = {}
    /\ Tell
    /\ Check(Newest \in announced \cup affected, "current state not announced")
    /\ UNCHANGED <<covisible, flags, rtStates, fullStates, keyframes, window,
                   currentLoopClosureFrames, places, links, fixation, imu,
                   deferred, differ, attempted, counters>>

----------------------------------------------------------------------------
(* applyStrategy.                                                            *)

(* eliminateImuFrames: the oldest frame stays as a keyframe, or its IMU      *)
(* error is merged into the next one and it is gone.                         *)
KeepAsKeyframe ==
  LET s == Min(imuFrames) IN
    /\ Running /\ phase = "eliminating" /\ Cardinality(imuFrames) > NumImuFrames
    /\ s \in keyframes
    /\ imuFrames' = imuFrames \ {s} /\ keyFrames' = keyFrames \cup {s}
    /\ loopClosureFrames' = loopClosureFrames \ {s}
    /\ UNCHANGED <<covisible, phase, flags, rtStates, fullStates, keyframes,
                   poseGraphFrames, currentLoopClosureFrames, places, links,
                   fixation, imu, deferred, differ, report, affected, counters,
                   failed>>

(* The graphs forget state s.                                                *)
Forget(s) ==
  /\ rtStates' = rtStates \ {s} /\ rtFixed' = rtFixed \ {s}
  /\ rtImu' = MergeImu(rtImu, rtStates, s)
  /\ differ' = differ \ {s}
  /\ changed' = changed \ {s}
  /\ IF Deferring
       THEN /\ eliminateStates' = eliminateStates \cup {s}
            /\ UNCHANGED <<fullStates, fullImu>>
       ELSE /\ fullStates' = fullStates \ {s}
            /\ fullImu' = MergeImu(fullImu, fullStates, s)
            /\ UNCHANGED eliminateStates

EliminateImuFrame ==
  LET s == Min(imuFrames)
      candidates == OverlapCandidates(s, FALSE) IN
    /\ Running /\ phase = "eliminating" /\ Cardinality(imuFrames) > NumImuFrames
    /\ s \notin keyframes
    /\ imuFrames' = imuFrames \ {s}
    /\ Forget(s)
    /\ failed' = IF candidates = {} THEN "no keyframe!"
                 ELSE IF s \in loopClosureFrames THEN "bug" ELSE failed
    /\ UNCHANGED <<covisible, phase, flags, keyframes, keyFrames,
                   loopClosureFrames, poseGraphFrames,
                   currentLoopClosureFrames, places, links, fullFixed,
                   lastFreeze, backlog, attempted, updated, updatedSync,
                   trajectory, affected, counters>>

(* Without a keyframe besides the newest state nothing more is done.         *)
Eliminated ==
  /\ Running /\ phase = "eliminating" /\ Cardinality(imuFrames) <= NumImuFrames
  /\ phase' = IF OverlapCandidates(Newest, TRUE) = {} THEN "idle" ELSE "converting"
  /\ UNCHANGED <<covisible, flags, rtStates, fullStates, keyframes, window,
                 currentLoopClosureFrames, places, links, fixation, imu,
                 deferred, differ, report, affected, counters, failed>>

(* The frames whose images overlap most with that of s.                      *)
MostOverlapped(s) ==
  LET all == OverlapCandidates(s, TRUE) IN
    IF all \cap Covisible(s) = {} THEN all ELSE all \cap Covisible(s)

(* What the newest frame and its keyframe k see.                             *)
InView(k) == Covisible(Newest) \cup Covisible(k)

(* Those of the frames that share least with the newest one and keyframe k.  *)
LeastCovisible(frames, k) ==
  {m \in frames : m \in InView(k) => frames \subseteq InView(k)}

(* Frame m of the window becomes a pose-graph frame.  If it shares landmarks *)
(* with the window, links are made along the spanning tree of m, the frames  *)
(* that have links already, and the one m shares most with.                  *)
LinkInto(m, counter) ==
  LET others   == Window \cap Covisible(m)
      frontier == {s \in others : Linked(s) # {}} IN
    \/ /\ others = {}
       /\ affected' = IF Deferring THEN affected \cup {m} ELSE affected
       /\ UNCHANGED <<links, counter>>
    \/ \E most \in others :
         \E to \in SUBSET (frontier \cup {most}) \ {{}} :
           /\ links' = links \cup {{m, s} : s \in to}
           /\ affected' = affected \cup to \cup {m}
           /\ counter' = counter + 1

ConvertKeyframe(m) ==
  /\ Running /\ phase = "converting"
  /\ Cardinality(keyFrames) > NumKeyframes /\ ctrPg < MaxConversions
  /\ \E k \in MostOverlapped(Newest) : m \in LeastCovisible(keyFrames, k)
  /\ keyFrames' = keyFrames \ {m}
  /\ poseGraphFrames' = poseGraphFrames \cup {m}
  /\ recent' = [recent EXCEPT ![m] = @ \cup (keyFrames \ {m})]
  /\ keyFrameEliminated' = TRUE
  /\ LinkInto(m, ctrPg)
  /\ UNCHANGED <<covisible, phase, flags, rtStates, fullStates, keyframes,
                 imuFrames, loopClosureFrames, currentLoopClosureFrames,
                 recognisable, loopId, constraints, closed, fixation, imu,
                 deferred, differ, report, ctrLc, failed>>

(* "make sure not to go and unfreeze old stuff"                              *)
FreezeId(s) == IF s > lastFreeze THEN s ELSE lastFreeze

(* Poses, speeds and biases older than the windows and                       *)
(* NumRealtimePoseGraphFrames more are fixed, if they are old enough.        *)
FreezeOldStates ==
  LET places_ == NumKeyframes + NumImuFrames + NumRealtimePoseGraphFrames
      oldest  == BackTo(rtStates, Before(rtStates, Newest, places_),
                        OldEnough(Time(Newest)))
      freezes == /\ keyFrameEliminated /\ Cardinality(rtStates) > places_
                 /\ oldest # Min(rtStates)
      id      == FreezeId(oldest) IN
    /\ Go("converting", "loops")
    /\ Cardinality(keyFrames) <= NumKeyframes \/ ctrPg = MaxConversions
    /\ lastFreeze' = IF freezes THEN id ELSE lastFreeze
    /\ rtFixed' = IF freezes THEN FreezeUntil(rtFixed, rtStates, id) ELSE rtFixed
    /\ UNCHANGED <<covisible, flags, rtStates, fullStates, keyframes, window,
                   currentLoopClosureFrames, places, links, fullFixed, imu,
                   deferred, differ, report, affected, counters, failed>>

(* A loop-closure frame may go whenever it shares nothing with the current   *)
(* frames, and must go while there are too many.                             *)
KeepLoopFrames ==
  /\ Go("loops", "expanding")
  /\ Cardinality(loopClosureFrames) <= NumLoopClosureFrames
  /\ \E k \in MostOverlapped(Newest) : loopClosureFrames \subseteq InView(k)
  /\ UNCHANGED <<covisible, flags, rtStates, fullStates, keyframes, window,
                 currentLoopClosureFrames, places, links, fixation, imu,
                 deferred, differ, report, affected, counters, failed>>

ConvertLoopFrame(m) ==
  /\ Running /\ phase = "loops"
  /\ \E k \in MostOverlapped(Newest) :
       /\ m \in LeastCovisible(loopClosureFrames, k)
       /\ \/ Cardinality(loopClosureFrames) > NumLoopClosureFrames
          \/ m \notin InView(k)
  /\ loopClosureFrames' = loopClosureFrames \ {m}
  /\ poseGraphFrames' = poseGraphFrames \cup {m}
  /\ LinkInto(m, ctrLc)
  /\ phase' = IF /\ Cardinality(loopClosureFrames) - 1 > NumLoopClosureFrames
                 /\ ctrLc' < MaxConversions THEN "loops" ELSE "expanding"
  /\ UNCHANGED <<covisible, flags, rtStates, fullStates, keyframes, imuFrames,
                 keyFrames, currentLoopClosureFrames, places, fixation, imu,
                 deferred, differ, report, ctrPg, keyFrameEliminated, failed>>

(* expandKeyframe on g, what it works on: the links of s become observations *)
(* again, the pose-graph frames they led to join the window.                 *)
Expanded(g, s) ==
  LET to == {h \in Id : {s, h} \in g.links} IN
    [links     |-> {l \in g.links : s \notin l},
     key       |-> g.key \cup ((to \cap g.poseGraph) \ g.loop),
     loop      |-> g.loop,
     poseGraph |-> g.poseGraph \ to,
     good      |-> g.good /\ (s \notin imuFrames /\ s \in g.key \cup g.loop)]

ExpandIfLinked(g, s) == IF \E l \in g.links : s \in l THEN Expanded(g, s) ELSE g

WindowGraph == [links |-> links, key |-> keyFrames, loop |-> loopClosureFrames,
                poseGraph |-> poseGraphFrames, good |-> TRUE]

Adjust(g) ==
  /\ links' = g.links /\ keyFrames' = g.key /\ poseGraphFrames' = g.poseGraph
  /\ Check(g.good, "must be keyframe")

(* The current keyframe and the most overlapping loop-closure frame are      *)
(* expanded, unless conversions stopped at their limit.                      *)
Expand ==
  /\ Go("expanding", "idle")
  /\ ctrPg' = 0 /\ ctrLc' = 0 /\ keyFrameEliminated' = FALSE
  /\ IF ctrPg < MaxConversions /\ ctrLc < MaxConversions
       THEN \E k \in MostOverlapped(Newest) :
              LET g == ExpandIfLinked(WindowGraph, k) IN
                \/ Adjust(g)
                \/ \E l \in loopClosureFrames \cap Covisible(Newest) :
                     Adjust(ExpandIfLinked(g, l))
       ELSE UNCHANGED <<covisible, links, keyFrames, poseGraphFrames, failed>>
  /\ UNCHANGED <<covisible, flags, rtStates, fullStates, keyframes, imuFrames,
                 loopClosureFrames, currentLoopClosureFrames, places, fixation,
                 imu, deferred, differ, report, affected>>

----------------------------------------------------------------------------
(* The end.                                                                  *)

(* stopThreading waits for the full optimisation ...                         *)
Stop ==
  /\ Running /\ phase = "idle" /\ rtStates # {} /\ ~closing
  /\ phase' = IF available THEN "stopping" ELSE "stopped"
  /\ UNCHANGED <<covisible, flags, rtStates, fullStates, keyframes, window,
                 currentLoopClosureFrames, places, links, fixation, imu,
                 deferred, differ, report, affected, counters, failed>>

(* ... imports its result ...                                                *)
FinalImport == Synchronise("stopping", "parting")

(* ... and publishes it, the affected states only where they were not        *)
(* updated.                                                                  *)
PublishImport ==
  /\ Go("parting", "stopped")
  /\ changed' = changed \ (updatedSync \cup affected)
  /\ updatedSync' = {} /\ affected' = {}
  /\ Tell
  /\ Check(Newest \in updatedSync \cup affected, "current state not announced")
  /\ UNCHANGED <<covisible, flags, rtStates, fullStates, keyframes, window,
                 currentLoopClosureFrames, places, links, fixation, imu,
                 deferred, differ, attempted, updated, counters>>

(* doFinalBa: s is a keyframe again and its links become observations, ...   *)
Reenter(g, s) ==
  LET inside == IF s \in g.loop THEN g ELSE [g EXCEPT !.key = @ \cup {s}]
  IN  IF s \in fullStates /\ \E l \in g.links : s \in l
        THEN Expanded(inside, s) ELSE g

(* ... state after state; ...                                                *)
AllExpanded ==
  LET upTo[s \in 0 .. MaxFrames] ==
        IF s = 0 THEN WindowGraph ELSE Reenter(upTo[s - 1], s)
  IN  upTo[MaxFrames]

(* ... every state of the full graph is set free, optimised, and imported.   *)
DoFinalBa ==
    /\ Go("stopped", "final")
    /\ Adjust([AllExpanded EXCEPT !.key = @ \cup loopClosureFrames])
    /\ loopClosureFrames' = {} /\ currentLoopClosureFrames' = {}
    /\ fullFixed' = {}
    /\ fullImu' = [s \in Id |-> IF fullImu[s] = NoLink THEN NoLink
                                                     ELSE Evaluate(fullImu[s])]
    /\ rtImu' = fullImu'
    /\ differ' = {}
    /\ changed' = {}
    /\ UNCHANGED <<covisible, flags, rtStates, fullStates, keyframes,
                   imuFrames, places, rtFixed, lastFreeze, deferred, attempted,
                   updated, updatedSync, trajectory, affected, counters>>

Finished == phase \in {"stopped", "final"} /\ UNCHANGED vars

Next ==
  \/ AddStates \/ OptimiseNewest
  \/ \E i \in Id : CloseLoop(i)
  \/ \E asKeyframe \in BOOLEAN : SetKeyframe(asKeyframe)
  \/ StartFull \/ FinishFull
  \/ OptimiseRealtimeGraph \/ SkipImport \/ ImportFullGraph \/ Publish
  \/ KeepAsKeyframe \/ EliminateImuFrame \/ Eliminated
  \/ \E m \in Id : ConvertKeyframe(m)
  \/ FreezeOldStates \/ KeepLoopFrames
  \/ \E m \in Id : ConvertLoopFrame(m)
  \/ Expand
  \/ Stop \/ FinalImport \/ PublishImport \/ DoFinalBa \/ Finished

Spec == Init /\ [][Next]_vars

----------------------------------------------------------------------------
(* Properties.                                                               *)

Phases == {"idle", "matching", "recognising", "deciding", "optimising",
           "importing", "publishing", "eliminating", "converting", "loops",
           "expanding", "stopping", "parting", "stopped", "final"}

(* Every variable has its type; states are only ever known ones.             *)
TypeOK ==
  /\ phase \in Phases
  /\ needs \in BOOLEAN /\ closing \in BOOLEAN /\ available \in BOOLEAN
  /\ rtStates \subseteq Id /\ fullStates \subseteq Id
  /\ keyframes \subseteq rtStates /\ recognisable \subseteq keyframes
  /\ imuFrames \subseteq rtStates /\ keyFrames \subseteq keyframes
  /\ loopClosureFrames \subseteq keyframes
  /\ currentLoopClosureFrames \subseteq keyframes
  /\ poseGraphFrames \subseteq keyframes
  /\ \A s \in Id : recent[s] \subseteq keyframes /\ loopId[s] \in 0 .. MaxFrames
  /\ \A l \in links : l \subseteq keyframes
  /\ rtFixed \subseteq rtStates /\ fullFixed \subseteq fullStates
  /\ lastFreeze \in {0} \cup keyframes
  /\ \A n \in 1 .. Len(backlog) : backlog[n] \in Id
  /\ eliminateStates \subseteq Id \ rtStates
  /\ constraints \subseteq closed /\ closed \subseteq Id \X Id
  /\ differ \subseteq rtStates /\ changed \subseteq Id
  /\ attempted \subseteq Id /\ updated \subseteq Id
  /\ updatedSync \subseteq Id /\ affected \subseteq Id
  /\ trajectory \subseteq Id
  /\ ctrPg \in 0 .. MaxConversions /\ ctrLc \in 0 .. MaxConversions

(* Unless a full-graph optimisation is under way or waits to be imported,    *)
(* every state has the same pose in both graphs: what a loop closure, either *)
(* optimisation or the import moved was taken over for every state           *)
(* (optimiseRealtimeGraph and synchroniseRealtimeAndFullGraph stop copying   *)
(* at the first fixed state).                                                *)
PosesAgree == ~Deferring => differ = {}

(* "also remember this throughout the created loop": while the full graph    *)
(* optimises a loop closure to frame i, every state since i is variable, and *)
(* so is every state of an earlier loop that i is part of.                   *)
LoopsStayVariable ==
  closing => \A c \in constraints, d \in closed :
               d[1] <= c[1] /\ c[1] <= d[2]
                 => \A s \in fullStates : s > d[1] => s \notin fullFixed

(* Once a frame is published, the subscriber was sent every state that was   *)
(* moved until then: by a loop-closure attempt, by the optimisations, or by  *)
(* the import.                                                               *)
ChangesAnnounced ==
  phase \in {"eliminating", "converting", "loops", "expanding", "idle",
            "stopping", "stopped"} => changed = {}

(* Every state is an IMU frame, a keyframe, a loop-closure frame or a        *)
(* pose-graph frame, and only one of these.                                  *)
WindowPartition ==
  phase # "final" =>
    /\ rtStates = imuFrames \cup keyFrames \cup loopClosureFrames
                  \cup poseGraphFrames
    /\ imuFrames \cap (keyFrames \cup loopClosureFrames \cup poseGraphFrames) = {}
    /\ keyFrames \cap (loopClosureFrames \cup poseGraphFrames) = {}
    /\ loopClosureFrames \cap poseGraphFrames = {}

(* None of the exceptions is thrown: "O-O" (the state where the import stops *)
(* is the same in both graphs), "impossible: state not present",             *)
(* "inconsistent states full vs realtime graph", "must be keyframe", "bug"   *)
(* and "no keyframe!"; the current state is among those published, which     *)
(* Trajectory::update relies on.  ("no keyframe!" is met if the full-graph   *)
(* optimisation lasts so long that only frames of its loop are left as       *)
(* keyframes: two more frames and one keyframe are enough; "O-O" if a loop   *)
(* may be closed before anything was frozen.)                                *)
NoAssertionFails == failed = "none"

ExactIntegrals ==
  [from \in Id |-> [to \in Id |-> ExactIntegral(Time(from), Time(to))]]

LinkExact(link, from, to) ==
  /\ link.t0 = Time(from) /\ link.t1 = Time(to)
  /\ Evaluate(link).sum = ExactIntegrals[from][to]
  /\ RedoPreintegration(link).sum = ExactIntegrals[from][to]

(* In both graphs the IMU errors link each state with the one before, and    *)
(* stand for the whole time between them, whatever was eliminated, deferred  *)
(* or copied.                                                                *)
ImuLinksExact ==
  phase \in {"idle", "stopped", "final"} =>
    /\ \A s \in rtStates \ {1} :
         LinkExact(rtImu[s], Max({x \in rtStates : x < s}), s)
    /\ \A s \in fullStates \ {1} :
         LinkExact(fullImu[s], Max({x \in fullStates : x < s}), s)

(* The realtime graph holds exactly the states up to lastFreeze_ fixed, the  *)
(* full graph some first states; and while the full graph is away, it holds  *)
(* none fixed that the realtime graph may still move.                        *)
FixedAreOldest ==
  /\ rtFixed = {s \in rtStates : s <= lastFreeze}
  /\ \A s \in fullStates, x \in fullFixed : s <= x => s \in fullFixed
  /\ Deferring => fullFixed \subseteq rtFixed

(* Every frame that was published can be asked for by its id: a frame that   *)
(* is no keyframe was stored with a keyframe the subscriber knows.           *)
TrajectoryComplete ==
  \A s \in Id :
    \/ rtStates = {} \/ s > Newest \/ s \in trajectory
    \/ s = Newest /\ phase \in {"matching", "recognising", "deciding",
                                "optimising", "importing", "publishing"}
=============================================================================
