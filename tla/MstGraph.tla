------------------------------ MODULE MstGraph ------------------------------
(* MstGraph: the minimal spanning tree, or forest, of a weighted graph by    *)
(* Kruskal's algorithm.  ViGraphEstimator uses negative numbers of common    *)
(* landmarks as weights, to find the strongest edges.                        *)
(*                                                                           *)
(* An edge is its weight and two ends, as in addEdge.  The parents and ranks *)
(* of DisjointSets are abstracted to the sets they represent.                *)
EXTENDS Integers, FiniteSets, FiniteSetsExt

(* Sorted as pairs of a weight and a pair of ends.                           *)
Precedes(d, e) ==
  \/ d.w < e.w
  \/ d.w = e.w /\ (d.u < e.u \/ (d.u = e.u /\ d.v < e.v))

Ends(edges) == UNION {{e.u, e.v} : e \in edges}

(* find: the set that x is in when the ends of these edges were merged.      *)
SetOf(x, edges) ==
  LET reached[n \in 0 .. Cardinality(edges)] ==
        IF n = 0 THEN {x}
        ELSE LET near == reached[n - 1] IN
               near \cup Ends({e \in edges : {e.u, e.v} \cap near # {}})
  IN  reached[Cardinality(edges)]

(* An edge gets into the tree if its ends are in different sets when its     *)
(* turn comes; what came before, taken or not, has merged its ends.          *)
KruskalMst(edges) ==
  {e \in edges :
     SetOf(e.u, {d \in edges : Precedes(d, e)})
       # SetOf(e.v, {d \in edges : Precedes(d, e)})}

----------------------------------------------------------------------------
(* Reference: the spanning forests of a graph join the same nodes, and every *)
(* edge of theirs is needed; the minimal ones have the least weight.         *)
SameSets(edges, others) ==
  \A x \in Ends(edges) : SetOf(x, edges) = SetOf(x, others)

SpanningForests(edges) ==
  {tree \in SUBSET edges :
     /\ SameSets(edges, tree)
     /\ \A e \in tree : e.v \notin SetOf(e.u, tree \ {e})}

Weight(edges) == MapThenSumSet(LAMBDA e : e.w, edges)

MinimalForest(edges, tree) ==
  LET forests == SpanningForests(edges) IN
    tree \in forests /\ \A other \in forests : Weight(tree) <= Weight(other)
=============================================================================
