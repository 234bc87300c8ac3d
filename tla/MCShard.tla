------------------------------ MODULE MCShard ------------------------------
(* One shard with two vertices over a few sessions.                        *)
EXTENDS Shard

\* Tables of one edge, so that two flush jobs overlap, or of two, so that a file has two vertices.
OneEdge == [m \in BOOLEAN |-> 1]
TwoEdges == [m \in BOOLEAN |-> 2]
OneEdgeOrTwo == [m \in BOOLEAN |-> IF m THEN 2 ELSE 1]
=============================================================================
