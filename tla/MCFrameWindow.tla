--------------------------- MODULE MCFrameWindow ---------------------------
(* FrameWindow for TLC: frames every 4 units of time, IMU measurements every *)
(* 2, in between; rates that change and are multiples of 4, which makes the  *)
(* interpolation exact.                                                      *)
EXTENDS FrameWindow

CONSTANT LastStamp

MCImu ==
  [n \in 1 .. (LastStamp + 7) \div 2 |->
     [stamp |-> 2 * n - 5, rate |-> 4 * ((n * n) % 5)]]

(* The camera goes round: a frame sees what was seen three frames before; or *)
(* one sees what the last one saw, and what was seen five before.            *)
Frames == 1 .. MaxFrames
SharedEvery(steps) ==
  {p \in {{s, h} : s \in Frames, h \in Frames} :
     \E x \in p, y \in p : x < y /\ (y - x) \in steps}
MCCovisibilities == {SharedEvery({3, 6}), SharedEvery({1, 5})}
=============================================================================
