---------------------------- MODULE MCAdjacency ----------------------------
EXTENDS Adjacency

\* Puts to a smaller vertex, to the vertex itself and to a larger one, which is deleted.
PutKinds == {[dst |-> 1, out |-> TRUE, marker |-> FALSE], [dst |-> 2, out |-> TRUE, marker |-> FALSE],
             [dst |-> 3, out |-> TRUE, marker |-> TRUE]}

ReadKinds == {<<1, TRUE>>, <<2, FALSE>>}

\* The entry of another use of the table, of an edge that is read now.
ArrayLeftovers == {[dst |-> 1, seq |-> 0, out |-> TRUE, marker |-> FALSE]}

OldEdge(d, s) == [dst |-> d, seq |-> s, out |-> TRUE, marker |-> FALSE]

\* Two level-0 files, the older of them merged into level 1, and a file in level 2.
OlderFiles == {[level0 |-> <<[fid |-> 6, body |-> <<OldEdge(4, 4)>>], [fid |-> 5, body |-> <<OldEdge(4, 3)>>]>>,
                min0 |-> 6, levels |-> <<<<OldEdge(4, 3)>>, <<OldEdge(4, 2)>>>>, maxLevel |-> 3]}

\* The answer of the one read is checked when it is given; what follows shows nothing more.
ReadNotDone == reader.pc \notin {"done", "fault"}
=============================================================================
