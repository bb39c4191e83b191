----------------------------- MODULE Trajectory -----------------------------
(* okvis::Trajectory and okvis::Propagator: what a subscriber makes of the   *)
(* published states.  Keyframes are kept as published, every other state     *)
(* relative to a keyframe, so that it follows when that is moved later; IMU  *)
(* measurements are appended to a running propagation from the newest state. *)
(*                                                                           *)
(* The pose of a keyframe is abstracted to the number of the publication     *)
(* that moved it last (0: none), a relative pose to the pose the keyframe    *)
(* had then, and a preintegration to how often it went over each interval    *)
(* between two IMU measurements.  The propagation to a time between two past *)
(* states and its cache are left out.                                        *)
EXTENDS Integers, Sequences, FiniteSets, FiniteSetsExt

CONSTANTS
  MaxStates,    \* bound: states
  Period,       \* time between two states; an IMU measurement per unit
  LastStamp,    \* bound: time of the last IMU measurement
  Forget        \* measurements this much older than a new state are dropped
                \* (0.1 s in the code)

ASSUME TrajectoryAssumption ==
  {MaxStates, Period, LastStamp, Forget} \subseteq Nat \ {0}

Id      == 1 .. MaxStates
Stamps  == 1 .. LastStamp
Time(s) == Period * s

(* A propagation from start to end; count[t]: how often the interval that    *)
(* ends with measurement t was integrated.                                   *)
Propagator(start) ==
  [start |-> start, end |-> start, count |-> [t \in Stamps |-> 0]]

Empty ==
  [keyframe |-> [s \in Id |-> 0],   \* keyframeStates_: the pose
   of       |-> [s \in Id |-> 0],   \* keyframeIdByStateId_; 0: none
   relative |-> [s \in Id |-> 0],   \* NonKeyframeState::T_Sk_S
   all      |-> {},                 \* allStateIds_
   imu      |-> {},                 \* imuMeasurements_: their stamps
   live     |-> Propagator(0)]      \* livePropagator_

(* Propagator::appendTo goes on where it ended before; measurements that are *)
(* missing at the front leave a gap.                                         *)
AppendTo(propagator, imu, end) ==
  IF Max(imu) < end THEN propagator
  ELSE [propagator EXCEPT
          !.end = end,
          !.count = [t \in Stamps |->
                       IF propagator.end < t /\ t <= end /\ Min(imu) < t
                         THEN @[t] + 1 ELSE @[t]]]

(* getState by id.                                                           *)
Known(trajectory, s) == trajectory.keyframe[s] # 0 \/ trajectory.of[s] # 0

Pose(trajectory, s) ==
  IF trajectory.keyframe[s] # 0 THEN <<trajectory.keyframe[s], 0>>
  ELSE <<trajectory.keyframe[trajectory.of[s]], trajectory.relative[s]>>

(* A publication: its number, the current state, the keyframe it belongs to  *)
(* (itself, if it is one), and the states that were updated.                 *)
Publications == [number : Nat, id : Id, keyframe : Id, updated : SUBSET Id]

Affected(trajectory, p) ==
  p.updated \cup
    {s \in Id : \E k \in p.updated : /\ trajectory.keyframe[k] # 0
                                     /\ trajectory.of[s] = k}

(* The keyframes "need to update ... *first* so relative poses will be       *)
(* correct"; then the current state enters.                                  *)
Inserted(trajectory, p) ==
  LET updated == [s \in Id |-> IF s \in p.updated /\ trajectory.keyframe[s] # 0
                                 THEN p.number ELSE trajectory.keyframe[s]] IN
    [trajectory EXCEPT
       !.all = @ \cup {p.id},
       !.keyframe = IF p.keyframe = p.id
                      THEN [updated EXCEPT ![p.id] = p.number] ELSE updated,
       !.of = IF p.keyframe # p.id /\ updated[p.keyframe] # 0
                THEN [@ EXCEPT ![p.id] = p.keyframe] ELSE @,
       !.relative = IF p.keyframe # p.id
                      THEN [@ EXCEPT ![p.id] = updated[p.keyframe]] ELSE @]

(* Slip: the propagation goes on from the end of the previous one.           *)
UpdateWithoutReset(trajectory, p) ==
  LET imu == {t \in trajectory.imu : Time(p.id) - t < Forget} IN
    [Inserted(trajectory, p) EXCEPT
       !.imu = imu,
       !.live = IF imu = {} THEN Propagator(Time(p.id))
                ELSE AppendTo([@ EXCEPT !.start = Time(p.id)], imu, Max(imu))]

(* update: a new propagation starts with the current state and takes up the  *)
(* measurements that are there already.                                      *)
Update(trajectory, p) ==
  LET imu == {t \in trajectory.imu : Time(p.id) - t < Forget} IN
    [Inserted(trajectory, p) EXCEPT
       !.imu = imu,
       !.live = IF imu = {} THEN Propagator(Time(p.id))
                ELSE AppendTo(Propagator(Time(p.id)), imu, Max(imu))]

(* addImuMeasurement: the measurement is kept; if the newest state is known  *)
(* and not newer, it is propagated.                                          *)
AddImu(trajectory, stamp) ==
  LET with == [trajectory EXCEPT !.imu = @ \cup {stamp}]
      base == Max(trajectory.all) IN
    IF trajectory.all = {} \/ ~Known(trajectory, base) \/ stamp < Time(base)
      THEN with
      ELSE [with EXCEPT !.live = AppendTo(@, with.imu, stamp)]

----------------------------------------------------------------------------
(* Reference: the propagation from the newest state to the newest            *)
(* measurement goes over every interval between them once.                   *)
PropagatedOnce(trajectory) ==
  LET base == Time(Max(trajectory.all))
      end  == Max(trajectory.imu) IN
    /\ trajectory.live.start = base /\ trajectory.live.end = end
    /\ \A t \in Stamps :
         trajectory.live.count[t] = IF base < t /\ t <= end THEN 1 ELSE 0
=============================================================================
