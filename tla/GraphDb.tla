------------------------------- MODULE GraphDb -------------------------------
(***************************************************************************)
(* A GraphDb (src/src/graph_db.cpp) over its shards: opening from a schema *)
(* file, vertex and sequence numbers, puts, updates, reads and scans that  *)
(* visit one shard after the other, barriers, and closing.                 *)
(*                                                                         *)
(* The parts below it appear as what their own modules say of them.  A     *)
(* shard (LSMStore, Shard, Compaction) holds records in its memtables and  *)
(* its files, and deltas beside them; every call into it is one step.  The *)
(* update manager (PropertyUpdateManager) holds the newest pending update  *)
(* of each property, and hands its buffer to the shards group by group     *)
(* before it forgets it.  All edges of the model have one destination, so  *)
(* an edge is named by its source; a node is an edge of the node shard.    *)
(***************************************************************************)
EXTENDS Schema, FiniteSets, Functions

CONSTANTS
    Documents,     \* the schema files
    Options,       \* the GraphDbOptions a client may pass
    Clients,       \* threads that call the database
    Roles,         \* the calls that each of them makes: "vertices", "put", "update", "read", "barrier"
    Requests,      \* the lists of property names that calls are made with
    LoaderSequences,   \* the sequences that PutEdgePayload is called with; -1 asks for the next one
    MaxSequence, MaxVertexCalls, MaxWrites, MaxReads, MaxBackground, MaxTotal   \* bounds

ASSUME GraphDbAssumption ==
    /\ Roles \in [Clients -> SUBSET {"vertices", "put", "update", "read", "barrier"}]
    /\ LoaderSequences \subseteq Nat \cup {-1}
    /\ {MaxSequence, MaxVertexCalls, MaxWrites, MaxReads, MaxBackground, MaxTotal} \subseteq Nat

VARIABLES
    doc,            \* the schema file of this database
    db,             \* the open database: its phase, and what Init made of the schema
    store,          \* the shards, by shard id; the node shard is shard 0
    next_sequence_,
    manager,        \* property_update_manager_
    call,           \* the call each client is in, or has just returned from
    count,          \* calls and background steps so far, for the bounds
    issued,         \* the ids NewVertex has returned
    written,        \* for each shard, the puts that have returned
    acked           \* for each property of an edge, the last update that was acknowledged

vars == <<doc, db, store, next_sequence_, manager, call, count, issued, written, acked>>
history == <<issued, written, acked>>

Node == 0
NoCall == [op |-> "none"]
\* failed: the updates that a failed flush left behind; fatal_error_ is set when there are any.
NoManager == [commit |-> 1, buffer |-> {}, taken |-> {}, left |-> {}, pending |-> {}, failed |-> {}]

\* A memtable or a file: its id and its records.  A file is of level 0, or the output of a
\* compaction, which is "bare" once it has been recovered: the constructor drops its index.
Table(fid) == [fid |-> fid, recs |-> {}, level |-> "memtable"]

\* Tables and files are in the order of their age; unmarked is the file whose flush job has not yet
\* marked its deltas persistent (a set of at most one id).  The next vertex and
\* next_topology_sequence_ survive in file.info.
EmptyStore == [next |-> 0, sequence |-> 0, fid |-> 1, tables |-> <<Table(0)>>, files |-> <<>>, unmarked |-> {},
               deltas |-> {}]

\* A read weighs as much as two other calls: fewer of them begin once it has begun.
Counted(c, bound) ==
    /\ count[c] < bound /\ count.writes + 2 * count.reads + count.background < MaxTotal
    /\ count' = [count EXCEPT ![c] = @ + 1]

-----------------------------------------------------------------------------
(* Opening.                                                                *)

\* GraphDbOptions::Validate finds nothing to complain about.
Validate(o) ==
    /\ o.memtable_count >= 2 /\ o.default_memtable_capacity > 0 /\ o.max_subcompactions > 0
    /\ o.enabled => /\ o.cache_sst_data /\ o.buffer_count >= 2 /\ o.buffer_capacity_records > 0
                    /\ o.buffer_capacity_bytes > 0 /\ o.delta_chain_merge_threshold > 0

\* The length of a property: its last definition, else the schema's default.
PropertyLength(schema, p) ==
    LET defs == {i \in DOMAIN schema.property_defs : schema.property_defs[i].name = p}
    IN Max({1, IF defs = {} THEN schema.root.max_property_length ELSE schema.property_defs[Max(defs)].length})

MemtableSize(o, size) == Max({1, IF size = 0 THEN o.default_memtable_capacity ELSE size})

Handle(schema, o, s) ==
    [name |-> s.name, properties |-> s.properties, is_csr |-> s.is_csr, capacity |-> MemtableSize(o, s.memtable_size),
     lengths |-> [i \in DOMAIN s.properties |-> PropertyLength(schema, s.properties[i])]]

\* The columns of the edge shards: <<shard, column>>.
Columns(shards) == UNION {{<<i, j>> : j \in DOMAIN shards[i].properties} : i \in DOMAIN shards}

\* A property that two columns of edge shards have; Init refuses the schema.
DuplicateEdgeProperty(shards) ==
    \E a, b \in Columns(shards) : a # b /\ shards[a[1]].properties[a[2]] = shards[b[1]].properties[b[2]]

\* edge_property_to_route_ and node_property_to_route_.  The node shard's may name a column twice:
\* the last one counts.
EdgeRoutes(shards) ==
    [p \in {shards[c[1]].properties[c[2]] : c \in Columns(shards)} |->
        CHOOSE c \in Columns(shards) : shards[c[1]].properties[c[2]] = p]

NodeRoutes(node) ==
    [p \in ToSet(node.properties) |-> <<Node, Max({j \in DOMAIN node.properties : node.properties[j] = p})>>]

\* Mutant: the node shard's records are not looked at.
RecoveredFromEdges(stores) ==
    Max({0} \cup {stores[s].sequence : s \in DOMAIN stores \ {Node}})

\* recovered_next_sequence: every shard's NextTopologySequence.
RecoveredSequence(stores) == Max({0} \cup {stores[s].sequence : s \in DOMAIN stores})

InitialCommit(stores) == Max({1} \cup UNION {{d.commit + 1 : d \in stores[s].deltas} : s \in DOMAIN stores})

\* A shard's constructor finds what the last session left; the active table gets an id behind every
\* file's.  A delta of a table that never became a file is dropped.
Recovered(st) ==
    LET fids == {b.fid : b \in ToSet(st.files)}
        fid == Max({1} \cup fids) + 1
    IN [st EXCEPT !.fid = fid + 1, !.tables = <<Table(fid)>>,
               !.deltas = {[d EXCEPT !.persistent = TRUE] : d \in {x \in @ : x.persistent \/ x.fid \in fids}},
               !.files = [i \in DOMAIN @ |-> IF @[i].level = "level1" THEN [@[i] EXCEPT !.level = "bare"] ELSE @[i]]]

Refused(why) == [phase |-> "refused", why |-> why]

\* OpenFromYaml up to the end of LoadSchemaFromYaml.
OpenFromYaml(o) ==
    LET schema == LoadSchemaFromYaml(doc)
    IN /\ db.phase = "closed"
       /\ db' = CASE ~ Validate(o) -> Refused("options")
                  [] Validate(o) /\ schema.refused -> Refused("schema")
                  [] OTHER -> [phase |-> "loaded", schema |-> schema, options |-> o]
       /\ UNCHANGED <<doc, store, next_sequence_, manager, call, count, history>>

\* GraphDb::Init, with load_existing: a shard's constructor finds the files and the deltas that the
\* last session left.
InitShards ==
    LET schema == db.schema
        ids == 0 .. Len(schema.edge_shards)
        stores == [s \in ids |-> IF s \in DOMAIN store THEN Recovered(store[s]) ELSE EmptyStore]
    IN /\ db.phase = "loaded"
       /\ IF DuplicateEdgeProperty(schema.edge_shards)
          THEN db' = Refused("duplicate") /\ UNCHANGED <<store, next_sequence_, manager, written>>
          ELSE /\ db' = [phase |-> "open",
                         handles |-> [s \in ids |-> Handle(schema, db.options, IF s = Node THEN schema.node_db
                                                                               ELSE schema.edge_shards[s])],
                         edge |-> EdgeRoutes(schema.edge_shards), node |-> NodeRoutes(schema.node_db),
                         max_vertex_num |-> schema.root.max_vertex_num]
               /\ store' = stores
               /\ next_sequence_' = RecoveredSequence(stores)
               /\ manager' = [NoManager EXCEPT !.commit = InitialCommit(stores)]
               /\ written' = IF written = <<>> THEN [s \in ids |-> {}] ELSE written
       /\ UNCHANGED <<doc, call, count, issued, acked>>

Init ==
    /\ doc \in Documents
    /\ db = [phase |-> "closed"]
    /\ store = <<>> /\ next_sequence_ = 0 /\ manager = NoManager
    /\ call = [c \in Clients |-> NoCall]
    /\ count = [vertices |-> 0, writes |-> 0, reads |-> 0, background |-> 0]
    /\ issued = {} /\ written = <<>> /\ acked = {}

-----------------------------------------------------------------------------
(* Calls.  The answer of a read stays in call[c], as "returned", until the *)
(* client's next call.                                                     *)

Running == db.phase \in {"open", "closing"}
Free(c) == db.phase = "open" /\ call[c].op \in {"none", "returned"}
MayCall(c, role) == Free(c) /\ role \in Roles[c]
In(c, op) == call[c].op = op
Answered(c, result) == call' = [call EXCEPT ![c] = [op |-> "returned", result |-> result]]
Return(c) == call' = [call EXCEPT ![c] = NoCall]
Proceed(c, rec) == call' = [call EXCEPT ![c] = rec]

\* The shards in the order NewVertex and the barriers visit them: the node shard is the last.
ShardOrder == [i \in 1 .. Cardinality(DOMAIN store) |-> IF i = Cardinality(DOMAIN store) THEN Node ELSE i]

NewVertex(c) ==
    /\ MayCall(c, "vertices") /\ Counted("vertices", MaxVertexCalls)
    /\ Proceed(c, [op |-> "new", todo |-> ShardOrder, id |-> -1])
    /\ UNCHANGED <<doc, db, store, next_sequence_, manager, history>>

\* LSMStore::new_vertex initialises the vertex: init_vertex_adjs empties its list in every memtable.
Initialised(tables, ids) ==
    [i \in DOMAIN tables |-> [tables[i] EXCEPT !.recs = {r \in @ : r.src \notin ids}]]

Allocated(st, n) ==
    [st EXCEPT !.next = Max({st.next, n}), !.tables = Initialised(@, st.next .. n - 1)]

\* alloc_in_db for the next shard.  A different id there is only reported.
NewVertexInShard(c) ==
    LET s == Head(call[c].todo)
        id == IF call[c].id = -1 THEN store[s].next ELSE call[c].id
    IN /\ In(c, "new")
       /\ store' = [store EXCEPT ![s] = Allocated(@, @.next + 1)]
       /\ IF Len(call[c].todo) = 1
          THEN Return(c) /\ issued' = issued \cup {id}
          ELSE Proceed(c, [call[c] EXCEPT !.todo = Tail(@), !.id = id]) /\ UNCHANGED issued
       /\ UNCHANGED <<doc, db, next_sequence_, manager, count, written, acked>>

\* InitVerticesUpTo, one shard after the other: before a bulk load, by one thread.
InitVerticesUpTo(c, n) ==
    /\ MayCall(c, "vertices") /\ Counted("vertices", MaxVertexCalls)
    /\ Proceed(c, [op |-> "upto", todo |-> ShardOrder, id |-> n])
    /\ UNCHANGED <<doc, db, store, next_sequence_, manager, history>>

UpToInShard(c) ==
    LET s == Head(call[c].todo)
        n == call[c].id
    IN /\ In(c, "upto")
       /\ store' = [store EXCEPT ![s] = IF n <= @.next THEN @ ELSE Allocated(@, n)]
       /\ IF Len(call[c].todo) = 1
          THEN Return(c) /\ issued' = issued \cup 0 .. n - 1
          ELSE Proceed(c, [call[c] EXCEPT !.todo = Tail(@)]) /\ UNCHANGED issued
       /\ UNCHANGED <<doc, db, next_sequence_, manager, count, written, acked>>

-----------------------------------------------------------------------------
(* Property names and routes.                                              *)

\* ResolveEdgePropertyRoutes and ResolveNodePropertyRoutes: empty and repeated names are passed
\* over; an unknown name, or no name at all, is refused.
Resolved(names) == FoldLeft(LAMBDA acc, p : IF p = "" \/ Contains(acc, p) THEN acc ELSE Append(acc, p),
                            <<>>, names)
Resolvable(routes, names) == Resolved(names) # <<>> /\ ToSet(Resolved(names)) \subseteq DOMAIN routes

\* touched_shards.
Touched(routes, names) == {routes[p][1] : p \in names}

\* Values: 0 is an empty column, 1 what a put gave, and larger numbers are updates in their order.
\* BuildShardPropertyString: the columns of the shard that names has; the others are empty.
BuildShardPropertyString(s, names) ==
    [j \in DOMAIN db.handles[s].properties |-> IF db.handles[s].properties[j] \in names THEN 1 ELSE 0]

-----------------------------------------------------------------------------
(* Puts.  The shards of one put are written one after the other, with the  *)
(* same sequence.                                                          *)

\* LSMStore::put_edge, with ObserveTopologySequence.
Inserted(st, r) == [st EXCEPT !.tables[Len(st.tables)].recs = @ \cup {r}, !.sequence = Max({@, r.seq + 1})]

InPut(c) == In(c, "put")
SequencesInPuts == {call[c].seq : c \in {d \in Clients : InPut(d)}}

BeginPut(c, v, seq, shards, names) ==
    Proceed(c, [op |-> "put", src |-> v, seq |-> seq, todo |-> shards, shards |-> shards, names |-> names])

NextSequence == next_sequence_' = next_sequence_ + 1
ObserveSequence(seq) == next_sequence_' = Max({next_sequence_, seq + 1})

PutEdge(c, v, names) ==
    /\ MayCall(c, "put") /\ Counted("writes", MaxWrites) /\ next_sequence_ <= MaxSequence
    /\ names # {} /\ names \subseteq DOMAIN db.edge
    /\ NextSequence
    /\ BeginPut(c, v, next_sequence_, Touched(db.edge, names), names)
    /\ UNCHANGED <<doc, db, store, manager, history>>

\* Unknown names are passed over when at least one is known.
PutNode(c, v, names) ==
    /\ MayCall(c, "put") /\ Counted("writes", MaxWrites) /\ next_sequence_ <= MaxSequence
    /\ names \cap DOMAIN db.node # {}
    /\ NextSequence
    /\ BeginPut(c, v, next_sequence_, {Node}, names)
    /\ UNCHANGED <<doc, db, store, manager, history>>

Records(st) == UNION {st.tables[i].recs : i \in DOMAIN st.tables} \cup UNION {st.files[i].recs : i \in DOMAIN st.files}

\* The payload is written to one shard as it is.  Without a sequence (-1) it gets the next one.
\* Loaders number the edges themselves, and give the records of an edge the same number in every
\* shard; a number is not used twice in a shard.
PutEdgePayload(c, v, s, seq) ==
    /\ MayCall(c, "put") /\ Counted("writes", MaxWrites)
    /\ s \in DOMAIN db.handles \ {Node}
    /\ IF seq < 0
       THEN next_sequence_ <= MaxSequence /\ NextSequence
       ELSE seq \notin SequencesInPuts \cup {r.seq : r \in Records(store[s])} /\ ObserveSequence(seq)
    /\ BeginPut(c, v, IF seq < 0 THEN next_sequence_ ELSE seq, {s}, ToSet(db.handles[s].properties))
    /\ UNCHANGED <<doc, db, store, manager, history>>

PutNodePayload(c, v) ==
    /\ MayCall(c, "put") /\ Counted("writes", MaxWrites) /\ next_sequence_ <= MaxSequence
    /\ NextSequence
    /\ BeginPut(c, v, next_sequence_, {Node}, ToSet(db.handles[Node].properties))
    /\ UNCHANGED <<doc, db, store, manager, history>>

\* The order of an unordered set of shards is any order.
PutInShard(c, s) ==
    LET r == [src |-> call[c].src, seq |-> call[c].seq, vals |-> BuildShardPropertyString(s, call[c].names)]
        left == call[c].todo \ {s}
    IN /\ InPut(c) /\ s \in call[c].todo
       /\ store' = [store EXCEPT ![s] = Inserted(@, r)]
       /\ IF left = {}
          THEN /\ Return(c)
               /\ written' = [t \in DOMAIN written |->
                                IF t \in call[c].shards
                                THEN written[t] \cup {[src |-> r.src, seq |-> r.seq, names |-> call[c].names]}
                                ELSE written[t]]
          ELSE Proceed(c, [call[c] EXCEPT !.todo = left]) /\ UNCHANGED written
       /\ UNCHANGED <<doc, db, next_sequence_, manager, count, issued, acked>>

-----------------------------------------------------------------------------
(* What a shard answers.                                                   *)

OfSource(recs, v) == {r \in recs : r.src = v}
NewestOf(recs) == CHOOSE r \in recs : \A q \in recs : q.seq <= r.seq

\* Mutant: a table that is being saved is not looked at.
PlacesActiveOnly(st) == <<Last(st.tables)>> \o Reverse(st.files)

\* LocateEdge: the first table that has the edge, oldest table first, then the files, newest first.
Places(st) == st.tables \o Reverse(st.files)
Hits(st, v) == {i \in DOMAIN Places(st) : OfSource(Places(st)[i].recs, v) # {}}
Found(st, v) == Hits(st, v) # {}
HomeOf(st, v) == Places(st)[Min(Hits(st, v))]
LocateEdge(st, v) == NewestOf(OfSource(HomeOf(st, v).recs, v))

\* The value of a column of record r: the newest of the deltas that match it, or its own.
Overlaid(r, col, deltas) ==
    LET ds == {d \in deltas : d.col = col /\ d.src = r.src /\ d.base = r.seq}
    IN IF ds = {} THEN r.vals[col] ELSE (CHOOSE d \in ds : \A e \in ds : e.commit <= d.commit).val

\* The deltas are looked up by the id of the table or file b that the record is in.
ValueIn(st, b, r, col) == Overlaid(r, col, {d \in st.deltas : d.fid = b.fid})

-----------------------------------------------------------------------------
(* Updates: locate the edge in every shard, then submit one batch.         *)

Update(c, v, kind, names) ==
    /\ MayCall(c, "update") /\ Counted("writes", MaxWrites)
    /\ Proceed(c, [op |-> "update", src |-> v, kind |-> kind, names |-> names,
                   todo |-> Touched(db[kind], names), located |-> <<>>])
    /\ UNCHANGED <<doc, db, store, next_sequence_, manager, history>>

UpdateEdge(c, v, names) == names # {} /\ names \subseteq DOMAIN db.edge /\ Update(c, v, "edge", names)
UpdateNode(c, v, names) == names # {} /\ names \subseteq DOMAIN db.node /\ Update(c, v, "node", names)

LocateForUpdate(c, s) ==
    /\ In(c, "update") /\ s \in call[c].todo
    /\ IF ~ Found(store[s], call[c].src)
       THEN Return(c)
       ELSE Proceed(c, [call[c] EXCEPT !.todo = @ \ {s},
                          !.located = s :> [seq |-> LocateEdge(store[s], call[c].src).seq,
                                             fid |-> HomeOf(store[s], call[c].src).fid] @@ @])
    /\ UNCHANGED <<doc, db, store, next_sequence_, manager, count, history>>

\* The updates of a batch, under one commit sequence and with one value.
Batch(c) ==
    LET route == db[call[c].kind]
    IN {[shard |-> route[p][1], col |-> route[p][2], src |-> call[c].src,
         base |-> call[c].located[route[p][1]].seq, fid |-> call[c].located[route[p][1]].fid,
         commit |-> manager.commit, val |-> Max({1} \cup {u.val : u \in acked}) + 1] : p \in call[c].names}

SameKey(u, w) == u.shard = w.shard /\ u.col = w.col /\ u.src = w.src

Replaced(old, new) == {u \in old : ~ \E w \in new : SameKey(u, w)} \cup new

\* PropertyUpdateManager::SubmitBatch: the batch is pending, and in the buffer, when it returns.
\* After a failed flush it is refused.
SubmitBatch(c) ==
    /\ In(c, "update") /\ call[c].todo = {}
    /\ IF manager.failed # {} THEN UNCHANGED <<manager, acked>>
       ELSE /\ manager' = [manager EXCEPT !.commit = @ + 1, !.buffer = @ \cup Batch(c),
                                          !.pending = Replaced(@, Batch(c))]
            /\ acked' = Replaced(acked, Batch(c))
    /\ Return(c)
    /\ UNCHANGED <<doc, db, store, next_sequence_, count, issued, written>>

-----------------------------------------------------------------------------
(* The manager's worker.                                                   *)

\* A buffer that was queued before another one failed is still flushed.
TakeBuffer ==
    /\ Running /\ manager.taken = {} /\ manager.buffer # {}
    /\ manager' = [manager EXCEPT !.taken = manager.buffer, !.left = manager.buffer, !.buffer = {}]
    /\ UNCHANGED <<doc, db, store, next_sequence_, call, count, history>>

\* The shard locates the edge of an update again, and finds the record it is based on.
Rebinds(u) == /\ Found(store[u.shard], u.src)
              /\ LocateEdge(store[u.shard], u.src).seq = u.base

\* The chain of a column of file fid becomes persistent with all its deltas.
PersistentChain(deltas, fid, col) ==
    {IF d.fid = fid /\ d.col = col THEN [d EXCEPT !.persistent = TRUE] ELSE d : d \in deltas}

\* The delta goes to the table or file where the record is now.
Attached(st, u) ==
    LET home == HomeOf(st, u.src)
        file == home.level # "memtable"
    IN [st EXCEPT !.deltas = (IF file THEN PersistentChain(@, home.fid, u.col) ELSE @)
                             \cup {[col |-> u.col, src |-> u.src, base |-> u.base, fid |-> home.fid,
                                    commit |-> u.commit, val |-> u.val, persistent |-> file]}]

\* The callback Init installs: the updates of one target go to their shard as a delta.  If one of
\* them cannot be bound to its record, because the edge was put again since, none is attached and
\* the flush of the buffer fails.
AttachPropertyDelta(u) ==
    LET group == {w \in manager.left : w.shard = u.shard /\ w.col = u.col /\ w.fid = u.fid}
    IN /\ IF \A w \in group : Rebinds(w)
          THEN /\ store' = [store EXCEPT ![u.shard] = FoldSet(LAMBDA w, st : Attached(st, w), @, group)]
               /\ manager' = [manager EXCEPT !.left = @ \ group]
          ELSE /\ manager' = [manager EXCEPT !.failed = @ \cup manager.left, !.left = {}, !.taken = {}]
               /\ UNCHANGED store
       /\ UNCHANGED <<doc, db, next_sequence_, call, count, history>>

\* Mutant: whatever is pending for the flushed properties is forgotten.
RetiredByKey(pending, taken) == {u \in pending : ~ \E w \in taken : SameKey(u, w)}

\* An update that has been replaced since the buffer was taken stays pending.
Retired(pending, taken) == pending \ taken

RetirePending ==
    /\ manager.taken # {} /\ manager.left = {}
    /\ manager' = [manager EXCEPT !.pending = Retired(@, manager.taken), !.taken = {}]
    /\ UNCHANGED <<doc, db, store, next_sequence_, call, count, history>>

-----------------------------------------------------------------------------
(* The shards' own work: a full table is replaced, a flush job saves it    *)
(* under its id and then marks its deltas, and a compaction merges the     *)
(* deltas of files, then the files.  Other edges fill the tables too, so a *)
(* table may be full at any time, and the tail of an earlier flush job may *)
(* compact at any time.                                                    *)

\* The saved table is free again when its job is done with it.
SwitchTable(s) ==
    /\ db.phase = "open" /\ Counted("background", MaxBackground)
    /\ Len(store[s].tables) = 1 /\ store[s].tables[1].recs # {} /\ store[s].unmarked = {}
    /\ store' = [store EXCEPT ![s].tables = Append(@, Table(store[s].fid)), ![s].fid = @ + 1]
    /\ UNCHANGED <<doc, db, next_sequence_, manager, call, history>>

\* save2eSSTable: the file is written, and published in place of the table.
Saved(st) == [st EXCEPT !.tables = Tail(@), !.unmarked = {Head(st.tables).fid},
                        !.files = Append(@, [Head(st.tables) EXCEPT !.level = "level0"])]

SaveTable(s) ==
    /\ Running /\ Len(store[s].tables) = 2
    /\ store' = [store EXCEPT ![s] = Saved(@)]
    /\ UNCHANGED <<doc, db, next_sequence_, manager, call, count, history>>

\* MarkPropertyDeltaTargetPersistent, for every column.
Marked(st) ==
    [st EXCEPT !.unmarked = {},
               !.deltas = {IF d.fid \in st.unmarked THEN [d EXCEPT !.persistent = TRUE] ELSE d : d \in @}]

\* The flush job goes on: the deltas are marked and the table is recycled.
MarkTable(s) ==
    /\ Running /\ store[s].unmarked # {}
    /\ store' = [store EXCEPT ![s] = Marked(@)]
    /\ UNCHANGED <<doc, db, next_sequence_, manager, call, count, history>>

\* MergeAllPersistent: the deltas of persistent chains.  LocateSstEdgeOrdinal must find the newest
\* record of a delta's edge in its file, and it must be the one the delta is based on.  A bare file
\* has no index to look in, and a file that was compacted away is not there.
Persistent(st) == {d \in st.deltas : d.persistent}
Mergeable(st) ==
    \A d \in Persistent(st) : \E b \in ToSet(st.files) :
        /\ b.fid = d.fid /\ b.level # "bare"
        /\ OfSource(b.recs, d.src) # {} /\ NewestOf(OfSource(b.recs, d.src)).seq = d.base

\* PreparePropertyDeltasForCompaction, and then level 0 goes to level 1.
Merged(st) ==
    LET Materialized(b, r) == [r EXCEPT !.vals = [col \in DOMAIN r.vals |->
                                            Overlaid(r, col, {d \in Persistent(st) : d.fid = b.fid})]]
    IN [st EXCEPT
         !.fid = @ + 1,
         !.files = <<[fid |-> st.fid, level |-> "level1",
                      recs |-> UNION {{Materialized(b, r) : r \in b.recs} : b \in ToSet(st.files)}]>>,
         !.deltas = @ \ Persistent(st)]

HasLevel(st, level) == \E i \in DOMAIN st.files : st.files[i].level = level

\* Nothing is compacted when the deltas cannot be merged, or when level 0 is empty.  With a bare
\* file among the inputs a compaction does not survive (see Shard): it is not in the model.
Compactable(st) == HasLevel(st, "level0") /\ Mergeable(st)
Survives(st) == Compactable(st) => ~ HasLevel(st, "bare")
Compacted(st) == IF Compactable(st) THEN Merged(st) ELSE st

Compact(s) ==
    /\ db.phase = "open"
    /\ Compactable(store[s]) /\ Survives(store[s])
    /\ store' = [store EXCEPT ![s] = Compacted(@)]
    /\ UNCHANGED <<doc, db, next_sequence_, manager, call, count, history>>

-----------------------------------------------------------------------------
(* Point reads: for each property the pending update of the record that    *)
(* the shard would answer from, otherwise the shard's answer.              *)

\* What had happened when a read began.
Snapshot == [written |-> written, acked |-> acked]

Get(c, v, kind, names) ==
    /\ MayCall(c, "read") /\ Counted("reads", MaxReads) /\ Resolvable(db[kind], names)
    /\ Proceed(c, [op |-> "latest", src |-> v, kind |-> kind, todo |-> Resolved(names),
                   out |-> <<>>, seq |-> 0, start |-> Snapshot])
    /\ UNCHANGED <<doc, db, store, next_sequence_, manager, history>>

GetEdge(c, v, names) == Get(c, v, "edge", names)
GetNode(c, v, names) == Get(c, v, "node", names)

RouteOf(c) == db[call[c].kind][Head(call[c].todo)]
PendingFor(shard, col, v) == {u \in manager.pending : u.shard = shard /\ u.col = col /\ u.src = v}

\* LookupLatest.
GetLatest(c) ==
    /\ In(c, "latest")
    /\ Proceed(c, [call[c] EXCEPT !.op = IF PendingFor(RouteOf(c)[1], RouteOf(c)[2], call[c].src) = {}
                                         THEN "store" ELSE "locate"])
    /\ UNCHANGED <<doc, db, store, next_sequence_, manager, count, history>>

Locate(c, kind) ==
    LET st == store[RouteOf(c)[1]]
    IN /\ In(c, "locate") /\ call[c].kind = kind
       /\ Proceed(c, IF Found(st, call[c].src)
                     THEN [call[c] EXCEPT !.op = "exact", !.seq = LocateEdge(st, call[c].src).seq]
                     ELSE [call[c] EXCEPT !.op = "store"])
       /\ UNCHANGED <<doc, db, store, next_sequence_, manager, count, history>>

LocateEdgeProperty(c) == Locate(c, "edge")
LocateNodeProperty(c) == Locate(c, "node")

\* The property at the head of the list has its value; go on with the next or return.
Answer(c, seq, val) ==
    LET out == Append(call[c].out, [name |-> Head(call[c].todo), seq |-> seq, val |-> val])
    IN IF Len(call[c].todo) = 1
       THEN Answered(c, [op |-> "get", src |-> call[c].src, kind |-> call[c].kind, out |-> out,
                       start |-> call[c].start])
       ELSE Proceed(c, [call[c] EXCEPT !.op = "latest", !.todo = Tail(@), !.out = out])

\* LookupExact: the pending update, if it is based on the record that was located.
Exact(c) == {u \in PendingFor(RouteOf(c)[1], RouteOf(c)[2], call[c].src) : u.base = call[c].seq}

GetExact(c) ==
    /\ In(c, "exact")
    /\ IF Exact(c) = {} THEN Proceed(c, [call[c] EXCEPT !.op = "store"])
       ELSE \E u \in Exact(c) : Answer(c, call[c].seq, u.val)
    /\ UNCHANGED <<doc, db, store, next_sequence_, manager, count, history>>

\* The shard's GetEdge.  When it fails the whole call does, and the output is cleared.
GetFromStore(c) ==
    LET st == store[RouteOf(c)[1]]
        r == LocateEdge(st, call[c].src)
    IN /\ In(c, "store")
       /\ IF Found(st, call[c].src) THEN Answer(c, r.seq, ValueIn(st, HomeOf(st, call[c].src), r, RouteOf(c)[2]))
          ELSE Answered(c, [op |-> "missing", src |-> call[c].src, shard |-> RouteOf(c)[1], start |-> call[c].start])
       /\ UNCHANGED <<doc, db, store, next_sequence_, manager, count, history>>

-----------------------------------------------------------------------------
(* Scans of the edges of a vertex: for each property the buffered updates  *)
(* are captured before the shard's view, and the records that have all     *)
(* properties are returned.                                                *)

Scan(c, scan, v, names) ==
    /\ MayCall(c, "read") /\ Counted("reads", MaxReads) /\ Resolvable(db.edge, names)
    /\ Proceed(c, [op |-> "capture", scan |-> scan, kind |-> "edge", src |-> v, todo |-> Resolved(names),
                   names |-> Resolved(names), buffered |-> {}, merged |-> <<>>, start |-> Snapshot])
    /\ UNCHANGED <<doc, db, store, next_sequence_, manager, history>>

ScanEdges(c, v, names) == Scan(c, "scan", v, names)
ForEachEdge(c, v, p) == Scan(c, "foreach", v, <<p>>)

CaptureBufferedProperties(c) ==
    /\ In(c, "capture")
    /\ Proceed(c, [call[c] EXCEPT !.op = "iterate", !.buffered = PendingFor(RouteOf(c)[1], RouteOf(c)[2], call[c].src)])
    /\ UNCHANGED <<doc, db, store, next_sequence_, manager, count, history>>

ResolveBufferedProperty(buffered, r, base) ==
    LET us == {u \in buffered : u.base = r.seq}
    IN IF us = {} THEN base ELSE (CHOOSE u \in us : TRUE).val

\* Records with these properties: those that every column had, by sequence.
Rows(merged) ==
    [q \in {n \in UNION {DOMAIN merged[p] : p \in DOMAIN merged} : \A p \in DOMAIN merged : n \in DOMAIN merged[p]} |->
        [p \in DOMAIN merged |-> merged[p][q]]]

\* Newest first; a callback may stop the visit.
Visits(scan, rows) == {rows} \cup (IF scan = "scan" THEN {}
                                   ELSE {[q \in {n \in DOMAIN rows : n >= stop} |-> rows[q]] : stop \in DOMAIN rows})

\* Get_Edges and its iterator over the records of the source.
ScanShard(c) ==
    LET st == store[RouteOf(c)[1]]
        recs == OfSource(Records(st), call[c].src)
        column == [q \in {r.seq : r \in recs} |->
                     LET r == CHOOSE x \in recs : x.seq = q
                         b == CHOOSE x \in ToSet(Places(st)) : r \in x.recs
                     IN ResolveBufferedProperty(call[c].buffered, r, ValueIn(st, b, r, RouteOf(c)[2]))]
        merged == Head(call[c].todo) :> column @@ call[c].merged
    IN /\ In(c, "iterate")
       /\ IF Len(call[c].todo) = 1
          THEN \E rows \in Visits(call[c].scan, Rows(merged)) :
                  Answered(c, [op |-> call[c].scan, src |-> call[c].src, rows |-> rows, names |-> call[c].names,
                             kind |-> "edge", start |-> call[c].start])
          ELSE Proceed(c, [call[c] EXCEPT !.op = "capture", !.todo = Tail(@), !.merged = merged, !.buffered = {}])
       /\ UNCHANGED <<doc, db, store, next_sequence_, manager, count, history>>

-----------------------------------------------------------------------------
(* Barriers and closing.  The buffers of the manager are never full here,  *)
(* so FlushAndWait returns when everything submitted has been handed over. *)

Drained == manager.buffer = {} /\ manager.taken = {}
Idle(s) == Len(store[s].tables) = 1 /\ store[s].unmarked = {}

\* FlushPropertyUpdates, WaitBackgroundIdle, ForceCompactAllShards, ForceCompactCsrEdgeShards.
BarrierOps == {"flush", "idle", "compact", "compact_csr"}

CsrShards == SelectSeq(ShardOrder, LAMBDA s : s # Node /\ db.handles[s].is_csr)

Barrier(c, op) ==
    /\ MayCall(c, "barrier") /\ Counted("background", MaxBackground)
    /\ Proceed(c, [op |-> op, flushed |-> op = "compact_csr",
                   todo |-> CASE op = "flush" -> <<>> [] op = "compact_csr" -> CsrShards [] OTHER -> ShardOrder])
    /\ UNCHANGED <<doc, db, store, next_sequence_, manager, history>>

\* Property updates go first.  When their flush has failed, only WaitBackgroundIdle goes on.
BarrierFlush(c) ==
    /\ call[c].op \in BarrierOps /\ ~ call[c].flushed
    /\ \/ manager.failed = {} /\ Drained /\ Proceed(c, [call[c] EXCEPT !.flushed = TRUE])
       \/ manager.failed # {} /\ call[c].op = "idle" /\ Proceed(c, [call[c] EXCEPT !.flushed = TRUE])
       \/ manager.failed # {} /\ call[c].op # "idle" /\ Return(c)
    /\ UNCHANGED <<doc, db, store, next_sequence_, manager, count, history>>

\* Then one shard after the other: wait until it is idle, and compact it.
BarrierShard(c) ==
    /\ call[c].op \in BarrierOps /\ call[c].flushed
    /\ IF call[c].todo = <<>>
       THEN Return(c) /\ UNCHANGED store
       ELSE LET s == Head(call[c].todo)
            IN /\ Idle(s)
               /\ IF call[c].op = "idle" THEN UNCHANGED store
                  ELSE Survives(store[s]) /\ store' = [store EXCEPT ![s] = Compacted(@)]
               /\ Proceed(c, [call[c] EXCEPT !.todo = Tail(@)])
    /\ UNCHANGED <<doc, db, next_sequence_, manager, count, history>>

\* No call may be in progress.
BeginClose ==
    /\ (\A c \in Clients : Free(c)) /\ Counted("background", MaxBackground)
    /\ db' = [db EXCEPT !.phase = "closing"]
    /\ call' = [c \in Clients |-> NoCall]
    /\ UNCHANGED <<doc, store, next_sequence_, manager, history>>

\* The destructor's barriers: property updates first, then the shards.  After a failed flush it
\* waits only for the worker.
MayClose == /\ manager.taken = {} /\ (manager.buffer = {} \/ manager.failed # {})
            /\ \A s \in DOMAIN db.handles : Idle(s)

\* A shard's destructor saves the active table if it has records.  The updates that a failed flush
\* left behind go with the manager, and the destructor reports them.
CloseShards ==
    /\ db.phase = "closing" /\ MayClose
    /\ store' = [s \in DOMAIN db.handles |-> IF store[s].tables[1].recs = {} THEN store[s] ELSE Marked(Saved(store[s]))]
    /\ acked' = acked \ (manager.failed \cup IF manager.failed = {} THEN {} ELSE manager.buffer)
    /\ manager' = NoManager /\ db' = [phase |-> "closed"]
    /\ UNCHANGED <<doc, next_sequence_, call, count, issued, written>>

-----------------------------------------------------------------------------
\* A client begins a call, or goes on with the one it is in.
Begins(c) ==
    \/ NewVertex(c) \/ \E n \in 1 .. db.max_vertex_num : InitVerticesUpTo(c, n)
    \/ \E v \in issued :
         \/ \E names \in Requests : \/ PutEdge(c, v, ToSet(names)) \/ PutNode(c, v, ToSet(names))
                                    \/ UpdateEdge(c, v, ToSet(names)) \/ UpdateNode(c, v, ToSet(names))
                                    \/ GetEdge(c, v, names) \/ GetNode(c, v, names)
                                    \/ ScanEdges(c, v, names) \/ ForEachEdge(c, v, Head(names))
         \/ \E s \in DOMAIN db.handles, seq \in LoaderSequences : PutEdgePayload(c, v, s, seq)
         \/ PutNodePayload(c, v)
    \/ \E op \in BarrierOps : Barrier(c, op)

GoesOn(c) ==
    \/ NewVertexInShard(c) \/ UpToInShard(c)
    \/ \E s \in DOMAIN db.handles : PutInShard(c, s) \/ LocateForUpdate(c, s)
    \/ SubmitBatch(c)
    \/ GetLatest(c) \/ LocateEdgeProperty(c) \/ LocateNodeProperty(c) \/ GetExact(c) \/ GetFromStore(c)
    \/ CaptureBufferedProperties(c) \/ ScanShard(c)
    \/ BarrierFlush(c) \/ BarrierShard(c)

Next ==
    \/ (\E o \in Options : OpenFromYaml(o)) \/ InitShards
    \/ db.phase = "open" /\ \E c \in Clients : IF Free(c) THEN Begins(c) ELSE GoesOn(c)
    \/ TakeBuffer \/ RetirePending \/ \E u \in manager.left : AttachPropertyDelta(u)
    \/ \E s \in DOMAIN store : SwitchTable(s) \/ SaveTable(s) \/ MarkTable(s) \/ Compact(s)
    \/ BeginClose \/ CloseShards

Spec == Init /\ [][Next]_vars

-----------------------------------------------------------------------------
(* Properties.                                                             *)

\* LoadSchemaFromYaml reads a file as it is written: it refuses exactly the files that are not
\* well formed, or have no vertices or no edge shard, and otherwise no entry, no attribute and no
\* root key is lost, moved to a neighbouring entry, or left over from an earlier one.  A database
\* that Init opens has the shards that the file spells out, with their names and columns; every
\* column has the length that the file gives its property, wherever that is said, and a property
\* of an edge shard is routed to its one column.
SchemaAsWritten ==
    [][/\ db'.phase = "loaded" => WellFormed(doc) /\ db'.schema = Spelled(doc)
       /\ db'.phase = "refused" => CASE db'.why = "schema" -> ~ WellFormed(doc) \/ Spelled(doc).refused
                                     [] db'.why = "duplicate" -> DuplicateEdgeProperty(Spelled(doc).edge_shards)
                                     [] OTHER -> TRUE
       /\ db.phase = "loaded" /\ db'.phase = "open" =>
            /\ DOMAIN db'.handles = 0 .. Len(Spelled(doc).edge_shards)
            /\ \A s \in DOMAIN db'.handles :
                 LET opened == db'.handles[s]
                     said == IF s = Node THEN Spelled(doc).node_db ELSE Spelled(doc).edge_shards[s]
                 IN /\ opened.name = said.name /\ opened.properties = said.properties
                    /\ \A j \in DOMAIN said.properties :
                         /\ opened.lengths[j] = LengthGiven(doc, said.properties[j])
                         /\ s # Node => db'.edge[said.properties[j]] = <<s, j>>]_vars

\* The values of a returned read, as [shard, col, seq, val].
ValuesRead(res) ==
    CASE res.op = "get" ->
           {[shard |-> db[res.kind][o.name][1], col |-> db[res.kind][o.name][2], seq |-> o.seq, val |-> o.val] : o \in ToSet(res.out)}
      [] res.op \in {"scan", "foreach"} ->
           UNION {{[shard |-> db[res.kind][p][1], col |-> db[res.kind][p][2], seq |-> q, val |-> res.rows[q][p]] :
                      p \in ToSet(res.names)} : q \in DOMAIN res.rows}
      [] OTHER -> {}

Results == {call[c].result : c \in {d \in Clients : In(d, "returned")}}

\* Every value that a returned read gives of the record an update was based on, and the updates
\* that had been acknowledged when the read began: <<update, value>>.
UpdatesRead(res) ==
    {p \in res.start.acked \X ValuesRead(res) :
        p[1].shard = p[2].shard /\ p[1].col = p[2].col /\ p[1].src = res.src /\ p[1].base = p[2].seq}

\* The property's newest update is for another version of the edge.
Rebased(u) == \E w \in acked : SameKey(u, w) /\ w.base # u.base

\* A compaction came between the publication of the update's table as a file and the mark of its
\* deltas: the file is gone, without the update, and its delta is left.
Overtaken(u) ==
    \E d \in store[u.shard].deltas :
        /\ d.col = u.col /\ d.src = u.src /\ d.commit = u.commit
        /\ d.fid \notin {b.fid : b \in ToSet(Places(store[u.shard]))}

\* GetEdge, GetNode, ScanEdges and ForEachEdge never go back behind the last acknowledged update
\* of a property of an edge: the value they return of the record it was based on is that update or
\* a later one, while the update moves from the buffer to the shard's deltas and, with its table,
\* into files, also when a flush has failed because the edge was put again, and after the database
\* was closed and opened again.  Three cases are left out: the destructor reported that it could
\* not persist the update, another version of the edge has been updated since
\* (ReaderObservesUpdate), or a compaction overtook the mark of the update's delta (for which see
\* EveryUpdateInEffect in Shard).
ReadsAreRecent ==
    \A res \in Results : \A p \in UpdatesRead(res) :
        Rebased(p[1]) \/ Overtaken(p[1]) \/ p[1].val <= p[2].val

\* core/property_update_manager.h says of the way from the buffer to the delta files that a reader
\* "observes the update in at least one layer throughout the hand-off": a read that began after an
\* update was acknowledged returns it, or a later one, for the record it was based on.
ReaderObservesUpdate ==
    \A res \in Results : \A p \in UpdatesRead(res) : p[1].val <= p[2].val

\* Every put that had returned when a read began is in what the read finds: a scan of several
\* properties has a row for each record that all their shards were given, with the values it was
\* given, and a point read does not miss the edge.  Shards are read one after the other while
\* other threads put, tables are switched and saved, and files are compacted.  All level-0 files are
\* compacted together here; a part of them can hide the rest from the lookups of other calls
\* (NothingMasked in Compaction).
ReadsFindEveryPut ==
    \A res \in Results :
        /\ res.op = "scan" =>
             \A p \in ToSet(res.names) : \A w \in res.start.written[db[res.kind][p][1]] :
                w.src = res.src /\ (\A n \in ToSet(res.names) :
                    w.seq \in {x.seq : x \in {y \in res.start.written[db[res.kind][n][1]] : y.src = res.src}}) =>
                  /\ w.seq \in DOMAIN res.rows
                  /\ p \in w.names => res.rows[w.seq][p] > 0
        /\ res.op = "missing" => ~ \E w \in res.start.written[res.shard] : w.src = res.src

\* NextSequence is ahead of every sequence in use, also after the database was opened again: a
\* sequence it hands out is no other record's, of edges or of nodes.
SequencesAhead ==
    db.phase = "open" =>
        /\ \A s \in DOMAIN db.handles : \A r \in Records(store[s]) : r.seq < next_sequence_
        /\ \A q \in SequencesInPuts : q < next_sequence_

=============================================================================
