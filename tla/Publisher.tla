------------------------------ MODULE Publisher ------------------------------
(* From the publications of ThreadedSlam to what the ROS2 Publisher shows:   *)
(* the publication queue, the publishing thread (and stopThreading at the    *)
(* end) in publishEstimatorUpdate, the IMU thread in                         *)
(* realtimePredictAndPublish, and the Trajectory both use under              *)
(* trajectoryLocked_, a flag that is tested and then set.                    *)
(*                                                                           *)
(* When two threads pass the test at once, their accesses to the trajectory  *)
(* race: the system is then torn and does not go on here.                    *)
EXTENDS Trajectory

CONSTANTS
  QueueSize,    \* of publicationQueue_ (3 in the code)
  Segment,      \* states per marker of the path (1000 in the code)
  Overlap,      \* a frame is processed when the measurements are this far
  MaxMissed     \* bound: measurements that find the trajectory locked in a row

ASSUME PublisherAssumption ==
  /\ {QueueSize, Segment} \subseteq Nat \ {0}
  /\ {Overlap, MaxMissed} \subseteq Nat
  /\ MaxMissed < Overlap

Callers == {"publishing", "stopping"}      \* of publishEstimatorUpdate
Threads == Callers \cup {"imu"}

VARIABLES
  number,       \* of publications so far
  current,      \* the newest state of the estimator
  keyframeOf,   \* the keyframe a state was published with
  moved,        \* the publication that moved a state last
  offset,       \* where its keyframe was then, for other states
  queue,        \* publicationQueue_
  lost,         \* states whose publication was dropped or discarded
  phase,        \* of stopThreading: running, shut down, published
  at,           \* the place of each thread
  hand,         \* the publication a caller has in hand
  first,        \* and the first state it affected
  clock,        \* the newest IMU measurement there is
  buffered,     \* Publisher::imuMeasurements_
  locked,       \* trajectoryLocked_
  torn,
  trajectory,
  marker        \* the path as shown: per segment, the poses of its points

estimator == <<number, current, keyframeOf, moved, offset, queue,
               lost, phase>>
callers   == <<hand, first>>
sensor    == <<clock, buffered>>
vars == <<estimator, at, callers, sensor, locked, torn, trajectory, marker>>

NoPublication == [number |-> 0, id |-> 1, keyframe |-> 1, updated |-> {}]
SegmentOf(s) == s \div Segment
Segments == 0 .. SegmentOf(MaxStates)

Init ==
  /\ number = 0 /\ current = 0 /\ queue = <<>> /\ lost = {}
  /\ phase = "running"
  /\ keyframeOf = [s \in Id |-> 0] /\ moved = [s \in Id |-> 0]
  /\ offset = [s \in Id |-> 0]
  /\ at = [t \in Threads |-> "idle"]
  /\ hand = [c \in Callers |-> NoPublication] /\ first = [c \in Callers |-> 1]
  /\ clock = 0 /\ buffered = {} /\ locked = FALSE /\ torn = FALSE
  /\ trajectory = Empty /\ marker = [g \in Segments |-> <<>>]

Go(t, from, to) == ~torn /\ at[t] = from /\ at' = [at EXCEPT ![t] = to]

----------------------------------------------------------------------------
(* What moves between two publications: the states since some point, by the  *)
(* optimisations or by an import, or one that a loop closure affected.       *)
Since == {s .. current : s \in 1 .. current + 1}
Moves == Since \cup {{s} : s \in 1 .. current}

(* The estimator publishes every frame, with all states it moved since the   *)
(* last time; a full queue drops its oldest publication.                     *)
Publish(keyframe, others) ==
  LET s == current + 1
      p == [number |-> number + 1, id |-> s, keyframe |-> keyframe,
            updated |-> others \cup {s}] IN
    /\ ~torn /\ phase = "running" /\ s \in Id /\ Time(s) + Overlap <= clock
    /\ keyframe = s \/ (keyframe < s /\ keyframeOf[keyframe] = keyframe)
    /\ number' = p.number /\ current' = s
    /\ keyframeOf' = [keyframeOf EXCEPT ![s] = keyframe]
    /\ moved' = [h \in Id |-> IF h \in p.updated THEN p.number ELSE moved[h]]
    /\ offset' = [offset EXCEPT
                    ![s] = IF keyframe = s THEN 0 ELSE moved'[keyframe]]
    /\ queue' = Append(IF Len(queue) = QueueSize THEN Tail(queue) ELSE queue,
                       p)
    /\ lost' = IF Len(queue) = QueueSize THEN lost \cup {Head(queue).id}
                                         ELSE lost
    /\ UNCHANGED <<phase, at, callers, sensor, locked, torn, trajectory,
                   marker>>

(* stopThreading shuts down the queue with what is in it ...                 *)
ShutdownQueue ==
  /\ ~torn /\ phase = "running" /\ current # 0
  /\ phase' = "shut down" /\ queue' = <<>>
  /\ lost' = lost \cup {queue[n].id : n \in 1 .. Len(queue)}
  /\ UNCHANGED <<number, current, keyframeOf, moved, offset, at, callers,
                 sensor, locked, torn, trajectory, marker>>

(* ... and waits for the full-graph optimisation, if there is one.  That the *)
(* publishing thread leaves its last callback meanwhile is an assumption.    *)
(* If something is to be imported, the current state is published once more, *)
(* past the queue; another keyframe may now overlap most with it.            *)
PublishFinal(keyframe, others) ==
  LET p == [number |-> number + 1, id |-> current, keyframe |-> keyframe,
            updated |-> others \cup {current}] IN
    /\ Go("stopping", "idle", "waiting")
    /\ phase = "shut down" /\ at["publishing"] = "idle"
    /\ keyframeOf[keyframe] = keyframe
    /\ keyframeOf[current] = current => keyframe = current
    /\ phase' = "published" /\ number' = p.number
    /\ keyframeOf' = [keyframeOf EXCEPT ![current] = keyframe]
    /\ moved' = [h \in Id |-> IF h \in p.updated THEN p.number ELSE moved[h]]
    /\ offset' = [offset EXCEPT
                    ![current] = IF keyframe = current THEN 0
                                                       ELSE moved'[keyframe]]
    /\ hand' = [hand EXCEPT !["stopping"] = p]
    /\ UNCHANGED <<current, queue, lost, first, sensor, locked, torn,
                   trajectory, marker>>

(* publishingLoop takes the next publication.                                *)
Take ==
  /\ Go("publishing", "idle", "waiting")
  /\ phase = "running" /\ queue # <<>>
  /\ hand' = [hand EXCEPT !["publishing"] = Head(queue)]
  /\ queue' = Tail(queue)
  /\ UNCHANGED <<number, current, keyframeOf, moved, offset, lost, phase,
                 first, sensor, locked, torn, trajectory, marker>>

----------------------------------------------------------------------------
(* publishEstimatorUpdate: the lock, tested ...                              *)
Test(c) ==
  /\ Go(c, "waiting", "setting") /\ ~locked
  /\ UNCHANGED <<estimator, callers, sensor, locked, torn, trajectory, marker>>

(* ... and set.  Drawing does not read what the IMU thread writes.           *)
Lock(t) ==
  /\ Go(t, "setting", "inside")
  /\ locked' = TRUE
  /\ torn' = \E u \in Threads \ {t} :
               at[u] = "inside" \/ (at[u] = "drawing" /\ t # "imu")
  /\ UNCHANGED <<estimator, callers, sensor, trajectory, marker>>

(* Slip: the trajectory stays locked.                                        *)
UpdateKeepingLock(c) ==
  /\ Go(c, "inside", "drawing")
  /\ trajectory' = Update(trajectory, hand[c])
  /\ first' = [first EXCEPT ![c] = Min(Affected(trajectory, hand[c]))]
  /\ UNCHANGED <<estimator, hand, sensor, locked, torn, marker>>

UpdateTrajectory(c) ==
  /\ Go(c, "inside", "drawing")
  /\ trajectory' = Update(trajectory, hand[c])
  /\ first' = [first EXCEPT ![c] = Min(Affected(trajectory, hand[c]))]
  /\ locked' = FALSE
  /\ UNCHANGED <<estimator, hand, sensor, torn, marker>>

(* The points of segment g: its states, after the last state of the segment  *)
(* before.                                                                   *)
Points(from, latest, g) ==
  LET own  == {s \in from .. latest : SegmentOf(s) = g}
      link == {s \in Id : s = g * Segment - 1 /\ Known(trajectory, s)}
  IN  [s \in own \cup link |-> Pose(trajectory, s)]

(* Slip: a segment starts with the first affected state.                     *)
DrawnFromFirst(c) == first[c]

(* The path is redrawn from the segment of the first affected state on.      *)
DrawnFrom(c) == Max({1, SegmentOf(first[c]) * Segment})

(* Every segment is published up to the newest updated state; for a state    *)
(* that is not known the loop turns on the spot.                             *)
DrawPath(c) ==
  LET latest == Max(hand[c].updated) IN
    /\ Go(c, "drawing", "idle")
    /\ \A s \in DrawnFrom(c) .. latest : Known(trajectory, s)
    /\ marker' = [g \in Segments |->
                    IF g \in SegmentOf(DrawnFrom(c)) .. SegmentOf(latest)
                      THEN Points(DrawnFrom(c), latest, g) ELSE marker[g]]
    /\ UNCHANGED <<estimator, callers, sensor, locked, torn, trajectory>>

----------------------------------------------------------------------------
(* realtimePredictAndPublish: the measurement is stored in any case; if the  *)
(* trajectory is locked, it waits for the next one.                          *)
ReceiveImu ==
  /\ ~torn /\ at["imu"] = "idle"
  /\ clock < LastStamp
  /\ locked => Cardinality(buffered) < MaxMissed
  /\ clock' = clock + 1 /\ buffered' = buffered \cup {clock'}
  /\ at' = [at EXCEPT !["imu"] = IF locked THEN "idle" ELSE "setting"]
  /\ UNCHANGED <<estimator, callers, locked, torn, trajectory, marker>>

(* The measurements that waited are added, in the order of their times.      *)
Fed(from, stamps) ==
  LET fed[t \in 0 .. LastStamp] ==
        IF t = 0 THEN from
        ELSE IF t \in stamps THEN AddImu(fed[t - 1], t) ELSE fed[t - 1]
  IN  fed[LastStamp]

FeedImu ==
  /\ Go("imu", "inside", "idle")
  /\ trajectory' = Fed(trajectory, buffered)
  /\ buffered' = {} /\ locked' = FALSE
  /\ UNCHANGED <<estimator, callers, clock, torn, marker>>

Call(c) == Test(c) \/ Lock(c) \/ UpdateTrajectory(c) \/ DrawPath(c)

Next ==
  \/ \E keyframe \in Id, others \in Moves : Publish(keyframe, others)
  \/ \E keyframe \in Id, others \in Since : PublishFinal(keyframe, others)
  \/ ShutdownQueue \/ Take \/ \E c \in Callers : Call(c)
  \/ ReceiveImu \/ Lock("imu") \/ FeedImu

(* The threads run; a caller tests the lock all the time, and the IMU thread *)
(* leaves it open most of the time.  Nothing makes the sensors or the        *)
(* estimator go on.                                                          *)
Fairness ==
  /\ WF_vars(Take) /\ WF_vars(Lock("imu")) /\ WF_vars(FeedImu)
  /\ \A c \in Callers : SF_vars(Test(c)) /\ WF_vars(Lock(c))
                        /\ WF_vars(UpdateTrajectory(c)) /\ WF_vars(DrawPath(c))

Spec     == Init /\ [][Next]_vars
FairSpec == Spec /\ Fairness

----------------------------------------------------------------------------
Quiet == /\ ~torn /\ lost = {} /\ queue = <<>>
         /\ \A c \in Callers : at[c] = "idle"

(* When every publication was handled and none was lost, the path shows      *)
(* every state relative to where its keyframe was last moved to by the       *)
(* estimator, at the offset the two had when the state was published, in its *)
(* own segment and where the next one is linked to it; although only the     *)
(* segments from the first affected state on are published again.            *)
PathCurrent ==
  Quiet =>
    /\ \A s \in 1 .. current : s \in DOMAIN marker[SegmentOf(s)]
    /\ \A g \in Segments : \A s \in DOMAIN marker[g] :
         marker[g][s] = <<moved[keyframeOf[s]], offset[s]>>

(* The pose that is predicted between two frames went over every IMU         *)
(* measurement since the newest state once, also those that arrived while    *)
(* the trajectory was locked or before the state was published.              *)
PredictionExact ==
  ~torn /\ trajectory.all # {} /\ lost = {} => PropagatedOnce(trajectory)

(* A call of the callback ends, unless a publication was lost before: its    *)
(* state is missing in the trajectory for ever.                              *)
CallbackReturns ==
  \A c \in Callers :
    at[c] # "idle" ~> at[c] = "idle" \/ torn \/ lost # {}
=============================================================================
