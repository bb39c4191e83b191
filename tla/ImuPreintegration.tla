------------------------- MODULE ImuPreintegration -------------------------
(* ImuError: the preintegration of IMU measurements between two states, how  *)
(* the error term grows when the state between two of them is eliminated,    *)
(* and the measurements ThreadedSlam hands to a new state.                   *)
(*                                                                           *)
(* The signal is one number per measurement, its integral the trapezoid the  *)
(* code sums up (twice its value, to stay in the integers); rotation, bias,  *)
(* covariance and Jacobians ride on the same loop and are left out.          *)
EXTENDS Integers, Sequences, FiniteSetsExt, SequencesExt

CONSTANTS
  Imu,          \* the measurements: a sequence of [stamp, rate]
  Overlap,      \* imuTemporalOverlap
  FramePeriod   \* time between two frames

Time(s)  == s * FramePeriod
Stamp(n) == Imu[n].stamp
Rate(n)  == Imu[n].rate

(* The units are so fine that the signal between two measurements, a         *)
(* straight line, is a whole number at every instant.                        *)
ASSUME ImuAssumption ==
  /\ Imu \in Seq([stamp : Int, rate : Int]) /\ Len(Imu) > 0
  /\ \A n \in 2 .. Len(Imu) :
       /\ Stamp(n - 1) < Stamp(n)
       /\ (Rate(n) - Rate(n - 1)) % (Stamp(n) - Stamp(n - 1)) = 0

ASSUME TimesAssumption == Overlap \in Nat /\ FramePeriod \in Nat \ {0}

(* An error term: its measurements (by number), the times of its two states, *)
(* whether redoPreintegration ran (redoCounter_), and twice the integral.    *)
NoLink == [deque |-> <<>>, t0 |-> 0, t1 |-> 0, done |-> FALSE, sum |-> 0]

(* (1 - part/whole) * a + part/whole * b                                     *)
Blend(a, b, part, whole) == ((whole - part) * a + part * b) \div whole

(* Slip: the interval in which the integration starts is not cut.            *)
TurnUncut(deque, t1, acc, n) ==
  LET next == IF n = Len(deque) THEN t1 ELSE Stamp(deque[n + 1])
      end  == IF t1 < next THEN t1 ELSE next
      dt   == end - acc.time
      w0   == Rate(deque[n])
      w1   == IF t1 < next
                THEN Blend(w0, Rate(deque[n + 1]), dt, next - Stamp(deque[n]))
                ELSE IF n = Len(deque) THEN w0 ELSE Rate(deque[n + 1])
  IN  IF acc.over \/ dt <= 0 THEN acc
      ELSE [time |-> end, started |-> TRUE, over |-> end = t1,
            sum |-> acc.sum + (w0 + w1) * dt]

(* One turn of the loop over the measurements that append and                *)
(* redoPreintegration share: the last interval is cut at t1, the first one   *)
(* where the integration starts.                                             *)
Turn(deque, t1, acc, n) ==
  LET stamp == Stamp(deque[n])
      next  == IF n = Len(deque) THEN t1 ELSE Stamp(deque[n + 1])
      end   == IF t1 < next THEN t1 ELSE next
      dt    == end - acc.time
      rate  == Rate(deque[n])
      w1    == IF t1 < next THEN Blend(rate, Rate(deque[n + 1]), dt, next - stamp)
               ELSE IF n = Len(deque) THEN rate ELSE Rate(deque[n + 1])
      w0    == IF acc.started THEN rate ELSE Blend(w1, rate, dt, end - stamp)
  IN  IF acc.over \/ dt <= 0 THEN acc
      ELSE [time |-> end, started |-> TRUE, over |-> end = t1,
            sum |-> acc.sum + (w0 + w1) * dt]

Integral(deque, t0, t1) ==
  LET turns[n \in 0 .. Len(deque)] ==
        IF n = 0 THEN [time |-> t0, started |-> FALSE, over |-> FALSE, sum |-> 0]
        ELSE Turn(deque, t1, turns[n - 1], n)
  IN  turns[Len(deque)].sum

(* redoPreintegration starts from zero; Evaluate calls it on an error term   *)
(* that was never integrated.                                                *)
RedoPreintegration(link) ==
  [link EXCEPT !.done = TRUE, !.sum = Integral(link.deque, link.t0, link.t1)]

Evaluate(link) == IF link.done THEN link ELSE RedoPreintegration(link)

(* append: from the first measurement on that is newer than the own ones,    *)
(* those of the next error term join them, and the integral goes on from the *)
(* old end over all of the next error term.                                  *)
Joined(deque, more) ==
  LET newer == {n \in 1 .. Len(more) : Stamp(more[n]) > Stamp(Last(deque))} IN
    IF newer = {} THEN deque
    ELSE deque \o SubSeq(more, Min(newer), Len(more))

Appended(link, next) ==
  [link EXCEPT !.deque = Joined(@, next.deque), !.t1 = next.t1,
               !.sum = @ + Integral(next.deque, link.t1, next.t1)]

(* imuMeasurementDeque_ when frame s is processed: it was cut back around    *)
(* the previous frame and filled until Overlap past this one.                *)
Deque(s) ==
  LET old == {n \in 1 .. Len(Imu) : Stamp(n) <= Time(s - 1) - Overlap}
      new == {n \in 1 .. Len(Imu) : Stamp(n) >= Time(s) + Overlap}
      first == IF old = {} THEN 1 ELSE CHOOSE n \in old : \A m \in old : m <= n
      last  == CHOOSE n \in new : \A m \in new : n <= m
  IN  [n \in 1 .. last - first + 1 |-> first + n - 1]

ImuLink(from, to) ==
  [deque |-> Deque(to), t0 |-> Time(from), t1 |-> Time(to),
   done |-> FALSE, sum |-> 0]

----------------------------------------------------------------------------
(* Reference: the signal between the measurements is a straight line.        *)
Signal(t) ==
  LET n == CHOOSE n \in 1 .. Len(Imu) - 1 : Stamp(n) <= t /\ t <= Stamp(n + 1)
  IN  Blend(Rate(n), Rate(n + 1), t - Stamp(n), Stamp(n + 1) - Stamp(n))

(* The area under it from the first measurement on, twice like the sum.      *)
Area[t \in Stamp(1) .. Stamp(Len(Imu))] ==
  IF t = Stamp(1) THEN 0 ELSE Area[t - 1] + Signal(t - 1) + Signal(t)

ExactIntegral(t0, t1) == Area[t1] - Area[t0]
============================================================================
