---------------------------- MODULE MCGraphSync ----------------------------
(* Instances of GraphSync for TLC.                                           *)
EXTENDS GraphSync

(* Three frames with one keypoint each.                                      *)
ThreeFrames == {<<1, 1>>, <<2, 1>>, <<3, 1>>}

(* The spanning tree of every graph of four nodes whose edges have weight -1 *)
(* or -2, or do not exist, is one of the lightest of its spanning forests.   *)
Edges(weights) ==
  {[w |-> -weights[p], u |-> p[1], v |-> p[2]] :
     p \in {p \in DOMAIN weights : weights[p] > 0}}

ASSUME KruskalCorrect ==
  \A weights \in [{p \in (1 .. 4) \X (1 .. 4) : p[1] > p[2]} -> 0 .. 2] :
    MinimalForest(Edges(weights), KruskalMst(Edges(weights)))
============================================================================
