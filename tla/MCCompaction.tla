---------------------------- MODULE MCCompaction ----------------------------
(* Compaction of three vertices over three levels.                         *)
EXTENDS Compaction

Limits == [l \in 0 .. 2 |-> 2]
=============================================================================
