------------------------ MODULE LoopClosureThreads ------------------------
(* The three threads that work on the realtime and the full graph of         *)
(* ViSlamBackend, and the three atomic flags they coordinate by:             *)
(*   "main"  ThreadedSlam::processFrame: adds states, matches, closes loops, *)
(*           launches the other two, and stopThreading at the end            *)
(*   "opt"   ThreadedSlam::optimisePublishMarginalise, one run per frame     *)
(*   full    ViSlamBackend::optimiseFullGraph, one run per loop closure      *)
(* There is no lock.  While the background thread owns the full graph the    *)
(* other two must defer what they would write into it (addStatesBacklog_,    *)
(* eliminateStates_, touchedLandmarks_) until synchroniseRealtimeAndFullGraph. *)
(*                                                                           *)
(* Grain: every read and write of a flag is a step; the work between them is *)
(* one step, during which the thread stands in a place that names it.  The   *)
(* content of a graph is its set of states and a version per landmark.       *)
EXTENDS Integers, Sequences, FiniteSets, FiniteSetsExt

CONSTANTS
  Landmarks,
  MaxFrames,    \* bound: frames processed before stopThreading
  MaxWrites,    \* bound: writes of one landmark
  NumImuFrames, \* states older than this many are eliminated or kept
  PromptLaunch  \* TRUE: the realtime optimisation outlasts the launch of the
                \* full-graph thread (its first two statements included)

ASSUME BoundsAssumption ==
  /\ MaxFrames \in Nat /\ MaxWrites \in Nat
  /\ NumImuFrames \in Nat \ {0}
  /\ PromptLaunch \in BOOLEAN

VARIABLES
  needs, closing, available, \* needsFullGraphOptimisation_, isLoopClosing_,
                             \* isLoopClosureAvailable_
  pc, job,                   \* place and current write of "main" and "opt"
  full,                      \* place of the full-graph thread
  lcTried,                   \* the loop-closure guard was passed this frame
  rtStates, fullStates,      \* states_ of the two graphs
  backlog, eliminate,        \* addStatesBacklog_, eliminateStates_
  rtVersion, fullVersion,    \* last write of each landmark in the two graphs
  touched,                   \* touchedLandmarks_
  failed                     \* the check that threw, or "none"

flags  == <<needs, closing, available>>
states == <<rtStates, fullStates, backlog, eliminate>>
marks  == <<rtVersion, fullVersion, touched>>
vars   == <<flags, pc, job, full, lcTried, states, marks, failed>>

Workers == {"main", "opt"}
NoJob   == [kind |-> "none", on |-> 0]
Jobs    == [kind : {"none", "copy"}, on : {0}]
           \cup [kind : {"add", "eliminate"}, on : 1 .. MaxFrames]
           \cup [kind : {"landmark"}, on : Landmarks]

(* Places where a worker writes the full graph itself.                       *)
DirectPlaces == {"direct", "addLoopClosure", "synchronise"}
MainPlaces == {"idle", "joinOpt", "match", "guardClosing", "guardAvailable",
               "guardNeeds", "attempt", "launchOpt", "testNeeds", "joinFull",
               "stopJoinOpt", "stopJoinFull", "stopped"}
OptPlaces  == {"none", "optimise", "strategy", "done"}
WritePlaces == {"readClosing", "readAvailable", "deferred"}
SyncPlaces == {"getAvailable", "getClosing", "syncAssert"}
Failures == {"none", "map::at", "attemptLoopClosure", "optimiseFullGraph",
             "synchroniseRealtimeAndFullGraph", "inconsistent states"}
FullPlaces == {"none", "launched", "cleared", "optimising", "published", "done"}

Init ==
  /\ needs = FALSE /\ closing = FALSE /\ available = FALSE
  /\ pc = [w \in Workers |-> IF w = "main" THEN "idle" ELSE "none"]
  /\ job = [w \in Workers |-> NoJob]
  /\ full = "none"
  /\ lcTried = FALSE
  /\ rtStates = {1} /\ fullStates = {1}
  /\ backlog = <<>> /\ eliminate = {}
  /\ rtVersion = [l \in Landmarks |-> 0]
  /\ fullVersion = [l \in Landmarks |-> 0]
  /\ touched = {}
  /\ failed = "none"

Running == failed = "none"
Go(w, from, to) == Running /\ pc[w] = from /\ pc' = [pc EXCEPT ![w] = to]
Assert(condition, where) ==
  failed' = IF condition THEN failed ELSE where

----------------------------------------------------------------------------
(* Every write that concerns both graphs: realtime graph first, then         *)
(*   if(isLoopClosing_ || isLoopClosureAvailable_) defer; else full graph    *)
(* with the two flags read one after the other.                              *)
Begin(w, from, j) == Go(w, from, "readClosing") /\ job' = [job EXCEPT ![w] = j]

(* Slip: only the result flag is looked at                                   *)
ReadClosingIgnored(w) ==
  /\ Go(w, "readClosing", "readAvailable")
  /\ UNCHANGED <<flags, job, full, lcTried, states, marks, failed>>

ReadClosing(w) ==
  /\ Go(w, "readClosing", IF closing THEN "deferred" ELSE "readAvailable")
  /\ UNCHANGED <<flags, job, full, lcTried, states, marks, failed>>

(* Slip: a result that waits for its import is overlooked                    *)
ReadAvailableIgnored(w) ==
  /\ Go(w, "readAvailable", "direct")
  /\ UNCHANGED <<flags, job, full, lcTried, states, marks, failed>>

ReadAvailable(w) ==
  /\ Go(w, "readAvailable", IF available THEN "deferred" ELSE "direct")
  /\ UNCHANGED <<flags, job, full, lcTried, states, marks, failed>>

(* Where a worker goes on after a write.                                     *)
After(w) ==
  IF w = "main" THEN "match"
  ELSE IF job[w].kind = "copy" THEN "getAvailable" ELSE "strategy"

EndJob(w) == job' = [job EXCEPT ![w] = NoJob]

(* addStatesPropagate numbers the new state itself, one after its last.      *)
WriteDirect(w) ==
  /\ Go(w, "direct", After(w)) /\ EndJob(w)
  /\ \/ /\ job[w].kind = "add"
        /\ fullStates' = fullStates \cup {Max(fullStates) + 1}
        /\ UNCHANGED <<fullVersion, failed>>
     \/ /\ job[w].kind = "eliminate"
        /\ Assert(job[w].on \in fullStates, "map::at")
        /\ fullStates' = fullStates \ {job[w].on}
        /\ UNCHANGED fullVersion
     \/ /\ job[w].kind = "landmark"
        /\ LET l == job[w].on IN
             fullVersion' = [fullVersion EXCEPT ![l] = rtVersion[l]]
        /\ UNCHANGED <<fullStates, failed>>
     \/ /\ job[w].kind = "copy"
        /\ UNCHANGED <<fullStates, fullVersion, failed>>
  /\ UNCHANGED <<flags, full, lcTried, rtStates, backlog, eliminate,
                 rtVersion, touched>>

(* Slip: a deferred write does not mark the landmark as touched              *)
WriteDeferredUnmarked(w) ==
  /\ Go(w, "deferred", After(w)) /\ EndJob(w)
  /\ backlog'   = IF job[w].kind = "add" THEN Append(backlog, job[w].on)
                                         ELSE backlog
  /\ eliminate' = IF job[w].kind = "eliminate" THEN eliminate \cup {job[w].on}
                                               ELSE eliminate
  /\ UNCHANGED <<flags, full, lcTried, rtStates, fullStates, marks, failed>>

WriteDeferred(w) ==
  /\ Go(w, "deferred", After(w)) /\ EndJob(w)
  /\ backlog'   = IF job[w].kind = "add" THEN Append(backlog, job[w].on)
                                         ELSE backlog
  /\ eliminate' = IF job[w].kind = "eliminate" THEN eliminate \cup {job[w].on}
                                               ELSE eliminate
  /\ touched'   = IF job[w].kind = "landmark" THEN touched \cup {job[w].on}
                                              ELSE touched
  /\ UNCHANGED <<flags, full, lcTried, rtStates, fullStates, rtVersion,
                 fullVersion, failed>>

----------------------------------------------------------------------------
(* processFrame                                                              *)
FrameArrives ==
  /\ Max(rtStates) < MaxFrames
  /\ Go("main", "idle", "joinOpt")
  /\ lcTried' = FALSE
  /\ UNCHANGED <<flags, job, full, states, marks, failed>>

(* optimisationThread_.join(), then addStates.                               *)
JoinOptAndAdd ==
  /\ pc["opt"] \in {"none", "done"}
  /\ Running /\ pc["main"] = "joinOpt"
  /\ pc' = [main |-> "readClosing", opt |-> "none"]
  /\ LET id == Max(rtStates) + 1 IN
       /\ rtStates' = rtStates \cup {id}
       /\ job' = [job EXCEPT !["main"] = [kind |-> "add", on |-> id]]
  /\ UNCHANGED <<flags, full, lcTried, fullStates, backlog, eliminate, marks,
                 failed>>

(* A landmark or an observation of it is added, set or removed: by the       *)
(* frontend on main, by the conversion to pose-graph edges on opt.           *)
WriteLandmark(w, from, l) ==
  /\ rtVersion[l] < MaxWrites
  /\ Begin(w, from, [kind |-> "landmark", on |-> l])
  /\ rtVersion' = [rtVersion EXCEPT ![l] = @ + 1]
  /\ UNCHANGED <<flags, full, lcTried, states, fullVersion, touched, failed>>

(* Slip: a loop closure is attempted whatever the flags say                  *)
GuardSkipped ==
  /\ ~lcTried
  /\ Go("main", "match", "attempt")
  /\ lcTried' = TRUE
  /\ UNCHANGED <<flags, job, full, states, marks, failed>>

(* The frontend tries a loop closure only if !isLoopClosing() &&             *)
(* !isLoopClosureAvailable() && !needsFullGraphOptimisation().  The middle   *)
(* one also reads isLoopClosing_, but only if the result flag is set, and    *)
(* then the outcome is the first read over again.                            *)
GuardClosing ==
  /\ ~lcTried
  /\ Go("main", "match", IF closing THEN "match" ELSE "guardAvailable")
  /\ lcTried' = TRUE
  /\ UNCHANGED <<flags, job, full, states, marks, failed>>

GuardAvailable ==
  /\ Go("main", "guardAvailable",
        IF available /\ ~closing THEN "match" ELSE "guardNeeds")
  /\ UNCHANGED <<flags, job, full, lcTried, states, marks, failed>>

GuardNeeds ==
  /\ Go("main", "guardNeeds", IF needs THEN "match" ELSE "attempt")
  /\ UNCHANGED <<flags, job, full, lcTried, states, marks, failed>>

(* No place is recognised or the attempt is rejected ...                     *)
NoLoopClosure ==
  /\ Go("main", "attempt", "match")
  /\ UNCHANGED <<flags, job, full, lcTried, states, marks, failed>>

(* ... or attemptLoopClosure and addLoopClosureFrame run, which assert that  *)
(* no loop closure is in progress and then work on both graphs.              *)
AttemptLoopClosure ==
  /\ Go("main", "attempt", "addLoopClosure")
  /\ Assert(~closing /\ ~available, "attemptLoopClosure")
  /\ UNCHANGED <<flags, job, full, lcTried, states, marks>>

(* ... which asks for an optimisation of the full graph, unless the          *)
(* correction was small (skipFullGraphOptimisation).                         *)
AddLoopClosureFrame ==
  /\ Go("main", "addLoopClosure", "match")
  /\ needs' \in {needs, TRUE}
  /\ UNCHANGED <<closing, available, job, full, lcTried, states, marks, failed>>

LaunchOpt ==
  /\ Running /\ pc["main"] = "match"
  /\ pc' = [main |-> "testNeeds", opt |-> "optimise"]
  /\ UNCHANGED <<flags, job, full, lcTried, states, marks, failed>>

TestNeeds ==
  /\ Go("main", "testNeeds", IF needs THEN "joinFull" ELSE "idle")
  /\ UNCHANGED <<flags, job, full, lcTried, states, marks, failed>>

(* Join the previous run of the background thread, if any, and launch it.    *)
LaunchFull ==
  /\ full \in {"none", "done"}
  /\ Go("main", "joinFull", "idle")
  /\ full' = "launched"
  /\ UNCHANGED <<flags, job, lcTried, states, marks, failed>>

----------------------------------------------------------------------------
(* optimisePublishMarginalise                                                *)
Prompt == PromptLaunch => /\ pc["main"] \notin {"testNeeds", "joinFull"}
                          /\ full \notin {"launched", "cleared"}

(* The solver is done; its result is written through to the full graph.      *)
OptimiseRealtimeGraph ==
  /\ Prompt
  /\ Begin("opt", "optimise", [kind |-> "copy", on |-> 0])
  /\ UNCHANGED <<flags, full, lcTried, states, marks, failed>>

(* isLoopClosureAvailable() in opt, and in stopThreading on main.            *)
GetAvailable(w) ==
  /\ Go(w, "getAvailable", IF available THEN "getClosing"
                           ELSE IF w = "opt" THEN "strategy" ELSE "stopped")
  /\ UNCHANGED <<flags, job, full, lcTried, states, marks, failed>>

GetClosing(w) ==
  /\ Go(w, "getClosing", IF ~closing THEN "syncAssert"
                         ELSE IF w = "opt" THEN "strategy" ELSE "stopped")
  /\ UNCHANGED <<flags, job, full, lcTried, states, marks, failed>>

(* "loop closure available, but still loop closing -- bug" and the assertion *)
(* at the head of synchroniseRealtimeAndFullGraph.                           *)
SyncAssert(w) ==
  /\ Go(w, "syncAssert", "synchronise")
  /\ Assert(~closing, "synchroniseRealtimeAndFullGraph")
  /\ UNCHANGED <<flags, job, full, lcTried, states, marks>>

(* The backlog of new states, then the eliminations, then the touched        *)
(* landmarks; at the end the sets of states must agree.                      *)
WithBacklog == fullStates \cup
                 (Max(fullStates) + 1 .. Max(fullStates) + Len(backlog))
Synchronised == WithBacklog \ eliminate
(* Slip: the result flag survives the import                                 *)
SynchroniseKeepsFlag(w) ==
  /\ Go(w, "synchronise", IF w = "opt" THEN "strategy" ELSE "stopped")
  /\ fullStates' = Synchronised
  /\ backlog' = <<>> /\ eliminate' = {}
  /\ fullVersion' = [l \in Landmarks |->
                       IF l \in touched THEN rtVersion[l] ELSE fullVersion[l]]
  /\ touched' = {}
  /\ UNCHANGED <<flags, job, full, lcTried, rtStates, rtVersion, failed>>

Synchronise(w) ==
  /\ Go(w, "synchronise", IF w = "opt" THEN "strategy" ELSE "stopped")
  /\ fullStates' = Synchronised
  /\ backlog' = <<>> /\ eliminate' = {}
  /\ fullVersion' = [l \in Landmarks |->
                       IF l \in touched THEN rtVersion[l] ELSE fullVersion[l]]
  /\ touched' = {}
  /\ available' = FALSE
  /\ Assert(/\ eliminate \subseteq WithBacklog
            /\ Cardinality(Synchronised) = Cardinality(rtStates),
            "inconsistent states")
  /\ UNCHANGED <<needs, closing, job, full, lcTried, rtStates, rtVersion>>

(* applyStrategy: eliminateImuFrames removes a state that fell out of the    *)
(* window; the first state is a keyframe and is never removed.               *)
EliminateImuFrame(id) ==
  /\ id \in rtStates \ {1}
  /\ id + NumImuFrames <= Max(rtStates)
  /\ Begin("opt", "strategy", [kind |-> "eliminate", on |-> id])
  /\ rtStates' = rtStates \ {id}
  /\ UNCHANGED <<flags, full, lcTried, fullStates, backlog, eliminate, marks,
                 failed>>

EndOpt ==
  /\ Go("opt", "strategy", "done")
  /\ UNCHANGED <<flags, job, full, lcTried, states, marks, failed>>

----------------------------------------------------------------------------
(* optimiseFullGraph                                                         *)
FullStep(from, to) == Running /\ full = from /\ full' = to

FullClearsNeeds ==
  /\ FullStep("launched", "cleared")
  /\ needs' = FALSE
  /\ Assert(~closing, "optimiseFullGraph")
  /\ UNCHANGED <<closing, available, pc, job, lcTried, states, marks>>

FullSetsClosing ==
  /\ FullStep("cleared", "optimising")
  /\ closing' = TRUE
  /\ UNCHANGED <<needs, available, pc, job, lcTried, states, marks, failed>>

(* Slip: the background thread ends without leaving its result flag          *)
FullForgetsAvailable ==
  /\ FullStep("optimising", "done")
  /\ closing' = FALSE
  /\ UNCHANGED <<needs, available, pc, job, lcTried, states, marks, failed>>

FullSetsAvailable ==
  /\ FullStep("optimising", "published")
  /\ available' = TRUE
  /\ UNCHANGED <<needs, closing, pc, job, lcTried, states, marks, failed>>

FullClearsClosing ==
  /\ FullStep("published", "done")
  /\ closing' = FALSE
  /\ UNCHANGED <<needs, available, pc, job, lcTried, states, marks, failed>>

----------------------------------------------------------------------------
(* stopThreading                                                             *)
Stop ==
  /\ Go("main", "idle", "stopJoinOpt")
  /\ UNCHANGED <<flags, job, full, lcTried, states, marks, failed>>

StopJoinOpt ==
  /\ pc["opt"] \in {"none", "done"}
  /\ Go("main", "stopJoinOpt", IF full = "none" THEN "stopped" ELSE "stopJoinFull")
  /\ UNCHANGED <<flags, job, full, lcTried, states, marks, failed>>

(* Slip: stopThreading joins the thread but does not import its result       *)
StopJoinFullOnly ==
  /\ full = "done"
  /\ Go("main", "stopJoinFull", "stopped")
  /\ full' = "none"
  /\ UNCHANGED <<flags, job, lcTried, states, marks, failed>>

StopJoinFull ==
  /\ full = "done"
  /\ Go("main", "stopJoinFull", "getAvailable")
  /\ full' = "none"
  /\ UNCHANGED <<flags, job, lcTried, states, marks, failed>>

Halted == (~Running \/ pc["main"] = "stopped") /\ UNCHANGED vars

----------------------------------------------------------------------------
Write(w) ==
  \/ ReadClosing(w) \/ ReadAvailable(w) \/ WriteDirect(w) \/ WriteDeferred(w)
Import(w) == GetAvailable(w) \/ GetClosing(w) \/ SyncAssert(w) \/ Synchronise(w)

MainStep ==
  \/ Write("main") \/ Import("main")
  \/ JoinOptAndAdd
  \/ \E l \in Landmarks : WriteLandmark("main", "match", l)
  \/ GuardClosing \/ GuardAvailable \/ GuardNeeds
  \/ NoLoopClosure \/ AttemptLoopClosure \/ AddLoopClosureFrame
  \/ LaunchOpt \/ TestNeeds \/ LaunchFull
  \/ StopJoinOpt \/ StopJoinFull

OptStep ==
  \/ Write("opt") \/ Import("opt")
  \/ OptimiseRealtimeGraph
  \/ \E l \in Landmarks : WriteLandmark("opt", "strategy", l)
  \/ \E id \in rtStates : EliminateImuFrame(id)
  \/ EndOpt

FullThread ==
  FullClearsNeeds \/ FullSetsClosing \/ FullSetsAvailable \/ FullClearsClosing

Next == MainStep \/ OptStep \/ FullThread \/ FrameArrives \/ Stop \/ Halted

Spec == Init /\ [][Next]_vars

(* The three threads are scheduled, and stopThreading is called in the end.  *)
FairSpec ==
  Spec /\ WF_vars(MainStep) /\ WF_vars(OptStep) /\ WF_vars(FullThread)
       /\ WF_vars(Stop)

----------------------------------------------------------------------------
(* Every variable keeps its type and every thread stands in a place of its   *)
(* own code; only the frame thread is ever inside addLoopClosureFrame.       *)
TypeOK ==
  /\ {needs, closing, available, lcTried} \subseteq BOOLEAN
  /\ failed \in Failures
  /\ pc["main"] \in MainPlaces \cup WritePlaces \cup SyncPlaces \cup DirectPlaces
  /\ pc["opt"] \in OptPlaces \cup WritePlaces \cup SyncPlaces
                    \cup (DirectPlaces \ {"addLoopClosure"})
  /\ job \in [Workers -> Jobs]
  /\ full \in FullPlaces
  /\ rtStates \subseteq 1 .. MaxFrames /\ fullStates \subseteq 1 .. MaxFrames
  /\ backlog \in Seq(1 .. MaxFrames) /\ eliminate \subseteq 1 .. MaxFrames
  /\ rtVersion \in [Landmarks -> 0 .. MaxWrites]
  /\ fullVersion \in [Landmarks -> 0 .. MaxWrites]
  /\ touched \subseteq Landmarks

(* No worker is between its write to the realtime graph and the matching one. *)
Quiet == Running /\ \A w \in Workers : job[w] = NoJob

(* The full graph, plus the states that wait in the backlog, minus those     *)
(* that wait for elimination, is the realtime graph: no state is lost or     *)
(* numbered differently, however the flags change between their two reads    *)
(* (addStates, eliminateImuFrames, synchroniseRealtimeAndFullGraph).         *)
StatesAccounted ==
  Quiet => rtStates =
             (fullStates \cup {backlog[i] : i \in DOMAIN backlog}) \ eliminate

(* A landmark the two graphs disagree about is marked for synchronisation    *)
(* (addLandmark, setLandmark, removeObservation, ...).                       *)
NothingForgotten ==
  Quiet => \A l \in Landmarks :
             rtVersion[l] # fullVersion[l] => l \in touched

(* Work is only ever pending while one of the flags says so: otherwise the   *)
(* next write would overtake it, or nobody would come to import it.          *)
PendingAnnounced ==
  (backlog # <<>> \/ eliminate # {} \/ touched # {}) => closing \/ available

(* Nobody touches the full graph while the background thread optimises it    *)
(* (addStates: "safe to add to the full graph").                             *)
FullGraphExclusive ==
  full = "optimising" => \A w \in Workers : pc[w] \notin DirectPlaces

(* None of the assertions about the flags fails, no state is looked up that  *)
(* is not there, and the two graphs agree after a synchronisation.           *)
NoAssertionFails == Running

(* When stopThreading returns, the full graph, on which doFinalBa and        *)
(* saveMap work, holds every state and every landmark of the realtime graph, *)
(* and no result and no request is left behind.                              *)
FinalMapComplete ==
  pc["main"] = "stopped" /\ Running =>
    /\ rtStates = fullStates /\ rtVersion = fullVersion
    /\ ~needs /\ ~closing /\ ~available

(* A loop closure that was added is optimised and its result imported.       *)
LoopClosureImported ==
  needs ~> /\ full \in {"none", "done"}
           /\ ~needs /\ ~closing /\ ~available
============================================================================
