----------------------------- MODULE MCFrontend -----------------------------
(* Instances of Frontend for TLC.                                            *)
EXTENDS Frontend

(* Keypoint i is in camera i - 1; every two cameras overlap.                 *)
ThreeCameras == 1 :> 0 @@ 2 :> 1 @@ 3 :> 2
AllPairs     == <<<<0, 1>>, <<0, 2>>, <<1, 2>>>>

Stereo == {<<1, 1>>, <<1, 2>>, <<1, 3>>, <<2, 1>>, <<5, 1>>, <<5, 2>>}
=============================================================================
