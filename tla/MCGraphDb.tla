------------------------------ MODULE MCGraphDb ------------------------------
(***************************************************************************)
(* An instance of GraphDb: every schema file of a few lines from a small   *)
(* alphabet is read, and one database is put to work.                      *)
(***************************************************************************)
EXTENDS GraphDb

MCLines == {Header("edge_shards"), Header("node_db"), Header("property_defs"),
            Pair("max_vertex_num", "one"), Pair("max_vertex_num", "zero"), Pair("is_csr", "true"),
            Pair("name", "A"), Pair("length", "eight"), Pair("memtable_size", "bad"),
            Item("", ""), Item("properties", "A,B"), Item("name", "B"), Pair(NoColon, "")}

\* Two edge shards and a node shard; A is defined twice, and the vertices are at the end.
MCWork == <<Header("edge_shards"), Item("properties", "A,B"), Item("name", "C"), Pair("properties", "C"),
            Pair("is_csr", "true"), Header("node_db"), Pair("properties", "N"),
            Header("property_defs"), Item("name", "A"), Item("name", "A"), Pair("length", "eight"),
            Pair("max_vertex_num", "one")>>

MCFiles(n) == UNION {[1 .. m -> MCLines] : m \in 0 .. n}
MCDocuments == {MCWork} \cup MCFiles(3)
               \cup {<<Pair("max_vertex_num", "one"), Header("edge_shards")>> \o file : file \in MCFiles(4)}

MCGoodOptions == [memtable_count |-> 2, default_memtable_capacity |-> 1, max_subcompactions |-> 1,
                  enabled |-> TRUE, cache_sst_data |-> TRUE, buffer_count |-> 2, buffer_capacity_records |-> 1,
                  buffer_capacity_bytes |-> 1, delta_chain_merge_threshold |-> 1]
MCOptions == {MCGoodOptions, [MCGoodOptions EXCEPT !.buffer_count = 1]}

MCRequests == {<<"A", "C", "A">>, <<"N">>}

\* One thread writes while the other reads.
MCRoles == [c1 |-> {"vertices", "put", "update", "barrier"}, c2 |-> {"read"}]

\* A loader's own number is ahead of the counter at first.
MCLoaderSequences == {-1, 1}

\* Only the larger schema is put to work; a read begins after the second write has begun, there is
\* room for one in every behaviour, and the run ends when the last one has returned.  A node is put
\* only once; edges are put again.
MCBound ==
    /\ db.phase = "open" => Len(doc) = Len(MCWork) /\ Cardinality(Records(store[Node])) <= 1
    /\ count.reads > 0 => count.writes > 1
    /\ count.reads = 0 => count.writes + count.background < MaxTotal
    /\ ~ (count.reads = MaxReads /\ Results # {})

=============================================================================
