------------------------------ MODULE LSMStore ------------------------------
(***************************************************************************)
(* The topology path of one shard (src/src/lsmstore.cpp, MemTable.cpp,     *)
(* version_set.cpp, superversion.cpp, compaction.cpp): writers claim slots *)
(* in the active memtable, the writer of the last slot switches tables, a  *)
(* background job saves the full one as a level-0 file and recycles it,    *)
(* compaction merges level 0 into level 1, and readers search a            *)
(* superversion (the memtables and the version of level 0 they hold by     *)
(* reference count) and then the level index of the vertex.                *)
(*                                                                         *)
(* A key is a source vertex with one edge, which is put again and again;   *)
(* what a read returns is the sequence number of the put it saw.           *)
(***************************************************************************)
EXTENDS Integers, Sequences, FiniteSets, FiniteSetsExt, SequencesExt

CONSTANTS
    Tables,       \* memTable_list_
    Writers, Readers,
    Keys,         \* source vertices, a set of naturals
    Capacity,     \* max_edge_num of a memtable
    ReserveNode,  \* FLAGS_reserve_node: puts of a vertex kept in an array
    L0Limit,      \* l0_auto_compaction_limit_
    NoTable,
    MaxPuts,      \* bound: puts in a behaviour
    MaxFailures   \* bound: compactions whose preparation fails

ASSUME StoreAssumption ==
    /\ Cardinality(Tables) >= 2 /\ NoTable \notin Tables
    /\ Keys \subseteq Nat
    /\ Capacity \in Nat \ {0} /\ L0Limit \in Nat \ {0} /\ ReserveNode \in Nat
    /\ MaxPuts \in Nat /\ MaxFailures \in Nat

VARIABLES
    tables,    \* the memtables
    active,    \* memTable_
    free,      \* free_menTables
    sv,        \* sv_.version_memtable: the current superversion
    versions,  \* every Version made: its level-0 files and its reference count
    current,   \* VersionSet::current_
    files,     \* every SST made, by file id: its edges and its reference count
    nextFid,   \* currentTime
    index,     \* vid_to_mullevelIndex_: per key its level-1 file and min_level_0_fid
    level1,    \* fileMetaCache_[1]
    writers, readers,
    jobs,      \* the flush job of each table
    tails,     \* flush jobs that have recycled their table and not yet asked for a compaction
    comp,      \* the compaction in progress
    puts,      \* history: puts begun; the sequence numbers they took
    acked,     \* history: the edges whose put has returned
    wiped,     \* history: the edges that the reset of a table has erased
    failures

storeVars == <<tables, versions, files>>
compVars == <<index, level1, comp, failures>>
vars == <<tables, active, free, sv, versions, current, files, nextFid, index, level1,
          writers, readers, jobs, tails, comp, puts, acked, wiped, failures>>

NoFile == 0     \* INVALID_File_ID
Failed == -1    \* a read that threw
NotFound == 0
NoSv == [tables |-> <<>>, version |-> 0]

FreshTable == [remain |-> Capacity, len |-> 0, edges |-> <<>>, fid |-> NoFile, refs |-> 0,
               live |-> FALSE, flash |-> FALSE]
IdleWriter == [pc |-> "idle", edge |-> [key |-> 0, seq |-> 0], mem |-> NoTable, slot |-> 0,
               new |-> NoTable]
IdleReader == [pc |-> "idle", op |-> "GetEdge", key |-> 0, sv |-> NoSv, todo |-> <<>>,
               findex |-> [min0 |-> 0, file |-> NoFile], must |-> FALSE, floor |-> 0, res |-> 0]
IdleComp == [pc |-> "idle", by |-> NoTable, in0 |-> {}, in1 |-> {}, out |-> NoFile,
             todo |-> {}, more |-> FALSE]

\* The tables wait in the order they were made in, and the first one is taken.
Init ==
    LET order == CHOOSE s \in SetToSeqs(Tables) : TRUE
        mem == order[1]
    IN  /\ tables = [t \in Tables |->
                        IF t = mem THEN [FreshTable EXCEPT !.fid = 1, !.refs = 1, !.live = TRUE]
                        ELSE FreshTable]
        /\ active = mem
        /\ free = Tail(order)
        /\ sv = [tables |-> <<mem>>, version |-> 1]
        /\ versions = [v \in {1} |-> [files |-> {}, refs |-> 2]] /\ current = 1
        /\ files = [f \in {} |-> [edges |-> {}, refs |-> 0]] /\ nextFid = 2
        /\ index = [k \in Keys |-> [min0 |-> 0, file |-> NoFile]]
        /\ level1 = {}
        /\ writers = [w \in Writers |-> IdleWriter]
        /\ readers = [r \in Readers |-> IdleReader]
        /\ jobs = [t \in Tables |-> "none"] /\ tails = 0
        /\ comp = IdleComp
        /\ puts = 0 /\ acked = {} /\ wiped = {} /\ failures = 0

-----------------------------------------------------------------------------
(* Reference counts.  An operator takes the counted objects and returns    *)
(* them with the calls applied.                                            *)

Heap == [tables |-> tables, versions |-> versions, files |-> files]

HeapBecomes(h) == tables' = h.tables /\ versions' = h.versions /\ files' = h.files

Without(f, S) == [x \in DOMAIN f \ S |-> f[x]]

\* MemTable::Ref (by = 1) and Unref (by = -1) of the tables of a superversion.
RefTables(h, s, by) ==
    [h EXCEPT !.tables = [t \in Tables |->
        [h.tables[t] EXCEPT !.refs = @ + by * Cardinality({i \in DOMAIN s : s[i] = t})]]]

\* SSTableCache::Unref: the last reference deletes the files of the SST.
UnrefFiles(h, S) ==
    LET less == [f \in DOMAIN h.files |->
                    IF f \in S THEN [h.files[f] EXCEPT !.refs = @ - 1] ELSE h.files[f]]
    IN  [h EXCEPT !.files = Without(less, {f \in S : less[f].refs = 0})]

RefVersion(h, v) == [h EXCEPT !.versions[v].refs = @ + 1]

UnrefVersion(h, v) ==
    IF h.versions[v].refs > 1 THEN [h EXCEPT !.versions[v].refs = @ - 1]
    ELSE UnrefFiles([h EXCEPT !.versions = Without(@, {v})], h.versions[v].files)

\* ~VersionAndMemTable
Destroy(h, s) == RefTables(UnrefVersion(h, s.version), s.tables, -1)

\* VersionSet::LogAndApply and AppendVersion: the next version becomes current.
LogAndApply(h, add, del) ==
    LET v == current + 1
        fs == (h.versions[current].files \cup add) \ del
    IN  UnrefVersion([h EXCEPT !.versions = [x \in DOMAIN @ \cup {v} |->
                                   IF x = v THEN [files |-> fs, refs |-> 1] ELSE @[x]],
                               !.files = [f \in DOMAIN @ |->
                                   IF f \in fs THEN [@[f] EXCEPT !.refs = @ + 1] ELSE @[f]]],
                     current)

\* Mutant of StillHeld: the old superversion goes with its replacement.
NotHeld == FALSE

\* A reader shares the current superversion.
StillHeld == \E r \in Readers : readers[r].sv = sv

\* A new superversion, made of the tables `old` lists and version v, replaces sv: the old one
\* is destroyed unless a reader still holds it.
Install(h, old, s) ==
    LET made == RefVersion(RefTables(h, old, 1), s.version)
    IN  /\ sv' = s
        /\ HeapBecomes(IF StillHeld THEN made ELSE Destroy(made, sv))

\* Mutant of Released: the thread's local_sv_ keeps its superversion.
KeptPinned(r) == Heap

\* Reader r lets go of its superversion.
Released(r) ==
    LET s == readers[r].sv
    IN  IF s \in {sv, NoSv} \/ \E q \in Readers \ {r} : readers[q].sv = s THEN Heap ELSE Destroy(Heap, s)

-----------------------------------------------------------------------------
(* put_edge.                                                               *)

\* GraphDb takes the sequence number before the shard is called.
PutEdge(w, k) ==
    /\ writers[w].pc = "idle" /\ puts < MaxPuts
    /\ puts' = puts + 1
    /\ writers' = [writers EXCEPT ![w] = [IdleWriter EXCEPT
                       !.pc = "load", !.edge = [key |-> k, seq |-> puts + 1]]]
    /\ UNCHANGED <<storeVars, active, free, sv, current, nextFid, compVars, readers, jobs, tails, acked, wiped>>

LoadTable(w) ==
    /\ writers[w].pc = "load"
    /\ writers' = [writers EXCEPT ![w].pc = "claim", ![w].mem = active]
    /\ UNCHANGED <<storeVars, active, free, sv, current, nextFid, compVars, readers, jobs, tails, puts, acked, wiped>>

HasSlot(t) == tables[t].remain > 0

Decremented(t) == tables[t].remain - 1

\* fetch_and_sub of remain_capacity, which is kept at zero here once it is used up; the
\* wait for a new table, at most 10 ms, ends in another load.
ClaimSlot(w) ==
    LET t == writers[w].mem
    IN  /\ writers[w].pc = "claim"
        /\ \/ /\ HasSlot(t)
              /\ tables' = [tables EXCEPT ![t].remain = Decremented(t)]
              /\ writers' = [writers EXCEPT ![w].pc = "insert", ![w].slot = tables[t].remain]
           \/ /\ ~HasSlot(t)
              /\ writers' = [writers EXCEPT ![w].pc = "load", ![w].mem = NoTable]
              /\ UNCHANGED tables
        /\ UNCHANGED <<versions, files, active, free, sv, current, nextFid, compVars, readers,
                       jobs, tails, puts, acked, wiped>>

\* MemTable::put_edge under the lock of the vertex.  The last slot makes a switch due.
InsertEdge(w) ==
    LET t == writers[w].mem
    IN  /\ writers[w].pc = "insert"
        /\ tables' = [tables EXCEPT ![t].edges = Append(@, writers[w].edge), ![t].len = @ + 1]
        /\ \/ /\ writers[w].slot > 1
              /\ writers' = [writers EXCEPT ![w] = IdleWriter]
              /\ acked' = acked \cup {writers[w].edge}
           \/ /\ writers[w].slot = 1
              /\ writers' = [writers EXCEPT ![w].pc = "switch"]
              /\ UNCHANGED acked
        /\ UNCHANGED <<versions, files, active, free, sv, current, nextFid, compVars, readers,
                       jobs, tails, puts, wiped>>

Reusable(t) == (tables[t].flash \/ ~tables[t].live) /\ tables[t].refs = 0

\* get_newmemTable holds memtable_mux_ from here to the end of MemTable::reset.
MuxFree == \A w \in Writers : writers[w].pc # "reset"

\* get_newmemTable: the front of the free list, once nobody refers to it.  Its reset empties
\* the adjacency, then gives the slots back: a writer that loaded this table before it was
\* flushed can claim one from here on.
NewTable(w) ==
    /\ writers[w].pc = "switch" /\ MuxFree
    /\ free # <<>> /\ Reusable(Head(free))
    /\ tables' = [tables EXCEPT ![Head(free)].edges = <<>>, ![Head(free)].len = 0,
                                ![Head(free)].remain = Capacity]
    /\ writers' = [writers EXCEPT ![w].pc = "reset", ![w].new = Head(free)]
    /\ UNCHANGED <<versions, files, active, free, sv, current, nextFid, compVars, readers, jobs,
                   tails, puts, acked, wiped>>

\* edge_arena.Reset, which empties the nodes such a writer has filled, but not listLength; the
\* flags; and the table leaves the free list.
ResetArena(w) ==
    LET t == writers[w].new
    IN  /\ writers[w].pc = "reset"
        /\ tables' = [tables EXCEPT ![t].edges = <<>>, ![t].live = FALSE, ![t].flash = FALSE]
        /\ wiped' = wiped \cup Range(tables[t].edges)
        /\ free' = Tail(free)
        /\ writers' = [writers EXCEPT ![w].pc = "store"]
        /\ UNCHANGED <<versions, files, active, sv, current, nextFid, compVars, readers, jobs,
                       tails, puts, acked>>

StoreTable(w) ==
    LET t == writers[w].new
    IN  /\ writers[w].pc = "store"
        /\ tables' = [tables EXCEPT ![t].live = TRUE, ![t].fid = nextFid]
        /\ nextFid' = nextFid + 1
        /\ active' = t
        /\ writers' = [writers EXCEPT ![w].pc = "publish"]
        /\ UNCHANGED <<versions, files, free, sv, current, compVars, readers, jobs, tails, puts, acked, wiped>>

\* The superversion with the new table, under the version lock; then the flush job of the
\* full one is queued and the put returns.
PublishTable(w) ==
    LET t == writers[w].new
    IN  /\ writers[w].pc = "publish"
        /\ Install(RefTables(Heap, <<t>>, 1), sv.tables, [sv EXCEPT !.tables = Append(@, t)])
        /\ jobs' = [jobs EXCEPT ![writers[w].mem] = "queued"]
        /\ writers' = [writers EXCEPT ![w] = IdleWriter]
        /\ acked' = acked \cup {writers[w].edge}
        /\ UNCHANGED <<active, free, current, nextFid, compVars, readers, tails, puts, wiped>>

-----------------------------------------------------------------------------
(* The flush job of a full table.                                          *)

Level0 == versions[current].files

\* Mutant of AllWritten: the job does not wait for the writers of the last slots.
AnyWritten(t) == TRUE

\* checkIsFinishWrite
AllWritten(t) == tables[t].len = Capacity

\* save2eSSTable up to put_data: the SST has the file id of the table.
FlushSave(t) ==
    /\ jobs[t] = "queued" /\ AllWritten(t)
    /\ files' = [f \in DOMAIN files \cup {tables[t].fid} |->
                    IF f = tables[t].fid THEN [edges |-> Range(tables[t].edges), refs |-> 1]
                    ELSE files[f]]
    /\ jobs' = [jobs EXCEPT ![t] = "saved"]
    /\ UNCHANGED <<tables, versions, active, free, sv, current, nextFid, compVars, writers,
                   readers, tails, puts, acked, wiped>>

RoomInLevel0 == Cardinality(Level0) < L0Limit

\* The size of level 0 is read without the version lock.
FlushAdmit(t) ==
    /\ jobs[t] = "saved" /\ RoomInLevel0
    /\ jobs' = [jobs EXCEPT ![t] = "admitted"]
    /\ UNCHANGED <<storeVars, active, free, sv, current, nextFid, compVars, writers, readers,
                   tails, puts, acked, wiped>>

\* The version with the new file and the superversion without the table, in one lock section.
FlushPublish(t) ==
    /\ jobs[t] = "admitted"
    /\ current' = current + 1
    /\ Install(RefTables([LogAndApply(Heap, {tables[t].fid}, {}) EXCEPT !.tables[t].flash = TRUE], <<t>>, -1),
               sv.tables, [tables |-> RemoveFirst(sv.tables, t),
                           version |-> current + 1])
    /\ jobs' = [jobs EXCEPT ![t] = "published"]
    /\ UNCHANGED <<active, free, nextFid, compVars, writers, readers, tails, puts, acked, wiped>>

\* recycle_memTable; MaybeScheduleCompaction follows in the same thread.
FlushRecycle(t) ==
    /\ jobs[t] = "published" /\ MuxFree
    /\ free' = Append(free, t)
    /\ jobs' = [jobs EXCEPT ![t] = "none"]
    /\ tails' = tails + 1
    /\ UNCHANGED <<storeVars, active, sv, current, nextFid, compVars, writers, readers, puts, acked, wiped>>

-----------------------------------------------------------------------------
(* Compaction of level 0 into level 1, run by the thread of a flush job.   *)

StartComp(by) == comp' = [IdleComp EXCEPT !.pc = "prepare", !.by = by]

\* MaybeScheduleCompaction at the end of a job: one compaction at a time.
TailSchedules ==
    /\ tails > 0
    /\ tails' = tails - 1
    /\ IF ~RoomInLevel0 /\ comp.pc = "idle" THEN StartComp(NoTable) ELSE UNCHANGED comp
    /\ UNCHANGED <<storeVars, active, free, sv, current, nextFid, index, level1, failures, writers,
                   readers, jobs, puts, acked, wiped>>

\* A job that finds level 0 full calls it on every third try, and tries again afterwards.
WaiterSchedules(t) ==
    /\ jobs[t] = "saved" /\ ~RoomInLevel0 /\ comp.pc = "idle"
    /\ StartComp(t)
    /\ jobs' = [jobs EXCEPT ![t] = "compacting"]
    /\ UNCHANGED <<storeVars, active, free, sv, current, nextFid, index, level1, failures, writers,
                   readers, tails, puts, acked, wiped>>

\* SetState(true, false), and back to the caller.
EndComp ==
    /\ comp' = IdleComp
    /\ jobs' = [t \in Tables |-> IF t = comp.by THEN "saved" ELSE jobs[t]]

\* The preparation callback merges the property deltas; if it fails nothing is compacted.
CompPrepareFails ==
    /\ comp.pc = "prepare" /\ failures < MaxFailures
    /\ failures' = failures + 1
    /\ EndComp
    /\ UNCHANGED <<storeVars, active, free, sv, current, nextFid, index, level1, writers, readers,
                   tails, puts, acked, wiped>>

KeysOf(f) == {e.key : e \in files[f].edges}
RangeOf(S) == LET ks == UNION {KeysOf(f) : f \in S} IN Min(ks) .. Max(ks)
Overlaps(f, range) == Min(KeysOf(f)) .. Max(KeysOf(f)) \cap range # {}

\* GetOverlappingInputs at level 0: the least set with every file that overlaps the range or
\* the range of its members.
Overlapping(from, range) ==
    LET closed == {S \in SUBSET from : \A f \in from :
                      (Overlaps(f, range) \/ (S # {} /\ Overlaps(f, RangeOf(S)))) => f \in S}
    IN  {f \in from : \A S \in closed : f \in S}

\* PickCompactioFile, from the file that compact_pointer_ selects; SetupOtherInputs adds the
\* level-1 files of its range, and the level-0 files this reaches unless they need more of level 1.
Picks ==
    {LET in0 == Overlapping(Level0, RangeOf({f}))
         in1 == {g \in level1 : Overlaps(g, RangeOf(in0))}
         grown0 == Overlapping(Level0, RangeOf(in0 \cup in1))
         grown1 == {g \in level1 : Overlaps(g, RangeOf(grown0))}
     IN  IF in1 # {} /\ grown1 = in1 THEN <<grown0, in1>> ELSE <<in0, in1>> : f \in Level0}

\* PreCompaction takes the level-1 inputs out of fileMetaCache_[1].
CompPick ==
    /\ comp.pc \in {"prepare", "again"}
    /\ \E p \in Picks :
          /\ comp' = [comp EXCEPT !.pc = "merge", !.in0 = p[1], !.in1 = p[2]]
          /\ level1' = level1 \ p[2]
    /\ UNCHANGED <<storeVars, active, free, sv, current, nextFid, index, failures, writers, readers,
                   jobs, tails, puts, acked, wiped>>

\* ProcessMultiWaysCompaction keeps every record of its inputs.
CompMerge ==
    LET ins == comp.in0 \cup comp.in1
    IN  /\ comp.pc = "merge"
        /\ files' = [f \in DOMAIN files \cup {nextFid} |->
                        IF f = nextFid THEN [edges |-> UNION {files[g].edges : g \in ins}, refs |-> 1]
                        ELSE files[f]]
        /\ nextFid' = nextFid + 1
        /\ comp' = [comp EXCEPT !.pc = "index", !.out = nextFid,
                                !.todo = UNION {KeysOf(g) : g \in ins}]
        /\ UNCHANGED <<tables, versions, active, free, sv, current, index, level1, failures, writers,
                       readers, jobs, tails, puts, acked, wiped>>

IndexEntry == [min0 |-> Max(comp.in0) + 1, file |-> comp.out]

\* WriteEnd, for one vertex of the output under its write lock; after the last one the file
\* enters fileMetaCache_[1].
CompIndex(k) ==
    /\ comp.pc = "index" /\ k \in comp.todo
    /\ index' = [index EXCEPT ![k] = IndexEntry]
    /\ IF comp.todo = {k}
       THEN /\ level1' = level1 \cup {comp.out}
            /\ comp' = [comp EXCEPT !.pc = "publish", !.todo = {}]
       ELSE /\ comp' = [comp EXCEPT !.todo = @ \ {k}]
            /\ UNCHANGED level1
    /\ UNCHANGED <<storeVars, active, free, sv, current, nextFid, failures, writers, readers, jobs,
                   tails, puts, acked, wiped>>

\* The version without the level-0 inputs.  fileMetaCache_[0] is that version's list, so it
\* also decides whether the level is compacted again.
CompPublish ==
    /\ comp.pc = "publish"
    /\ current' = current + 1
    /\ Install(LogAndApply(Heap, {}, comp.in0), sv.tables, [sv EXCEPT !.version = current + 1])
    /\ comp' = [comp EXCEPT !.pc = "retire", !.more = Cardinality(Level0 \ comp.in0) > L0Limit]
    /\ UNCHANGED <<active, free, nextFid, index, level1, failures, writers, readers, jobs, tails,
                   puts, acked, wiped>>

\* The inputs lose the reference they were made with.
CompRetire ==
    /\ comp.pc = "retire"
    /\ HeapBecomes(UnrefFiles(Heap, comp.in0 \cup comp.in1))
    /\ IF comp.more
       THEN comp' = [IdleComp EXCEPT !.pc = "again", !.by = comp.by] /\ UNCHANGED jobs
       ELSE EndComp
    /\ UNCHANGED <<active, free, sv, current, nextFid, index, level1, failures, writers, readers,
                   tails, puts, acked, wiped>>

-----------------------------------------------------------------------------
(* GetEdge and LocateEdge.                                                 *)

Holds(edges, k) == \E e \in edges : e.key = k
NewestIn(edges, k) == Max({e.seq : e \in {x \in edges : x.key = k}})

\* The puts of a vertex are an array searched from its end, then a skip list by sequence.
TableGet(t, k) ==
    LET mine == SelectSeq(tables[t].edges, LAMBDA e : e.key = k)
    IN  IF Len(mine) <= ReserveNode THEN Last(mine).seq ELSE NewestIn(Range(mine), k)

\* What a read that starts now can reach, and the newest acknowledged put.
Reachable(k) ==
    \/ \E i \in DOMAIN sv.tables : Holds(Range(tables[sv.tables[i]].edges), k)
    \/ \E f \in Level0 : k \in KeysOf(f)
    \/ index[k].file # NoFile
NewestAcked(k) == Max({0} \cup {e.seq : e \in {x \in acked : x.key = k}})

readUnchanged == <<active, free, sv, current, nextFid, compVars, writers, jobs, tails, puts, acked, wiped>>

Finish(r, res) ==
    /\ readers' = [readers EXCEPT ![r] = [@ EXCEPT !.pc = "done", !.sv = NoSv, !.todo = <<>>,
                                                  !.findex = IdleReader.findex, !.res = res]]
    /\ HeapBecomes(Released(r))

\* get_superversion, and the loop over its menTables is entered.
ReadStart(r, op, k) ==
    /\ readers[r].pc = "idle"
    /\ readers' = [readers EXCEPT ![r] = [IdleReader EXCEPT
                      !.pc = "mem", !.op = op, !.key = k, !.sv = sv, !.todo = sv.tables,
                      !.must = Reachable(k), !.floor = NewestAcked(k)]]
    /\ UNCHANGED <<storeVars, readUnchanged>>

\* One table of the superversion, the oldest first.
ReadTable(r) ==
    LET t == Head(readers[r].todo)
        k == readers[r].key
    IN  /\ readers[r].pc = "mem" /\ readers[r].todo # <<>>
        /\ \/ Holds(Range(tables[t].edges), k) /\ Finish(r, TableGet(t, k))
           \/ /\ ~Holds(Range(tables[t].edges), k)
              /\ readers' = [readers EXCEPT ![r].todo = Tail(@)]
              /\ UNCHANGED storeVars
        /\ UNCHANGED readUnchanged

\* GetEdge takes the superversion anew for the files; the assignment releases the old one.
ReadRefresh(r) ==
    /\ readers[r].pc = "mem" /\ readers[r].todo = <<>> /\ readers[r].op = "GetEdge"
    /\ readers' = [readers EXCEPT ![r].pc = "index", ![r].sv = sv]
    /\ HeapBecomes(Released(r))
    /\ UNCHANGED readUnchanged

\* Mutant of IndexCopy: the copy the thread already has.
IndexCopyKept(r) == readers[r].findex

IndexCopy(r) == index[readers[r].key]

\* The level index of the vertex is copied under its read lock, after the superversion.
ReadIndex(r) ==
    /\ \/ readers[r].pc = "index"
       \/ readers[r].pc = "mem" /\ readers[r].todo = <<>> /\ readers[r].op = "LocateEdge"
    /\ readers' = [readers EXCEPT ![r].pc = "level0", ![r].findex = IndexCopy(r)]
    /\ UNCHANGED <<storeVars, readUnchanged>>

\* LocateEdge skips the level-0 files the index says are in level 1; GetEdge skips none.
Candidate(r, f) == readers[r].op = "GetEdge" \/ f >= readers[r].findex.min0

\* The files of the version, the newest first.  LocateEdge lets go of it before level 1.
ReadLevel0(r) ==
    LET k == readers[r].key
        hits == {f \in versions[readers[r].sv.version].files : Candidate(r, f) /\ k \in KeysOf(f)}
    IN  /\ readers[r].pc = "level0"
        /\ \/ hits # {} /\ Finish(r, NewestIn(files[Max(hits)].edges, k))
           \/ /\ hits = {} /\ readers[r].op = "GetEdge"
              /\ readers' = [readers EXCEPT ![r].pc = "level1"]
              /\ UNCHANGED storeVars
           \/ /\ hits = {} /\ readers[r].op = "LocateEdge"
              /\ readers' = [readers EXCEPT ![r].pc = "level1", ![r].sv = NoSv]
              /\ HeapBecomes(Released(r))
        /\ UNCHANGED readUnchanged

\* find_edge_by_levelindex; get_data throws if the file is gone.
ReadLevel1(r) ==
    LET f == readers[r].findex.file
        k == readers[r].key
    IN  /\ readers[r].pc = "level1"
        /\ \/ f = NoFile /\ Finish(r, NotFound)
           \/ f # NoFile /\ f \in DOMAIN files /\ Finish(r, NewestIn(files[f].edges, k))
           \/ f # NoFile /\ f \notin DOMAIN files /\ Finish(r, Failed)
        /\ UNCHANGED readUnchanged

ReadEnd(r) ==
    /\ readers[r].pc = "done"
    /\ readers' = [readers EXCEPT ![r] = IdleReader]
    /\ UNCHANGED <<storeVars, readUnchanged>>

-----------------------------------------------------------------------------

Write(w) == LoadTable(w) \/ ClaimSlot(w) \/ InsertEdge(w) \/ NewTable(w) \/ ResetArena(w)
            \/ StoreTable(w) \/ PublishTable(w)
Flush(t) == FlushSave(t) \/ FlushAdmit(t) \/ FlushPublish(t) \/ FlushRecycle(t) \/ WaiterSchedules(t)
Compact == CompPick \/ CompMerge \/ (\E k \in Keys : CompIndex(k)) \/ CompPublish \/ CompRetire
Read(r) == ReadTable(r) \/ ReadRefresh(r) \/ ReadIndex(r) \/ ReadLevel0(r) \/ ReadLevel1(r) \/ ReadEnd(r)

Next ==
    \/ \E w \in Writers : Write(w) \/ \E k \in Keys : PutEdge(w, k)
    \/ \E t \in Tables : Flush(t)
    \/ TailSchedules \/ Compact \/ CompPrepareFails
    \/ \E r \in Readers : Read(r) \/ \E op \in {"GetEdge", "LocateEdge"}, k \in Keys : ReadStart(r, op, k)

Spec == Init /\ [][Next]_vars

-----------------------------------------------------------------------------
(* Properties.                                                             *)

\* The tables that hold edges no file has: those readers see, and those a switch is bringing in.
InMemory == Range(sv.tables) \cup {active}
            \cup {writers[w].new : w \in {x \in Writers : writers[x].pc \in {"reset", "store", "publish"}}}

\* Where a later read will search for an edge: a table in use, a level-0 file that the index of
\* its vertex does not mask, or the level-1 file of its vertex.
Kept(e) ==
    \/ \E t \in InMemory : e \in Range(tables[t].edges)
    \/ \E f \in Level0 : f >= index[e.key].min0 /\ e \in files[f].edges
    \/ index[e.key].file \in DOMAIN files /\ e \in files[index[e.key].file].edges

\* An acknowledged edge is always somewhere a later read will search, through switches, flushes,
\* recycled tables, late writers and compactions.  The one way to lose it is named: the reset of
\* a recycled table erases an edge that a late writer put into it (MemTable.cpp:750-752).
NothingLost == \A e \in acked : Kept(e) \/ e \in wiped

\* Without that exception it does not hold.
EveryPutKept == \A e \in acked : Kept(e)

\* A read of an edge that was reachable when it began does not miss it, though tables are
\* flushed and recycled and level 0 is compacted between its steps: it returns a put of the
\* edge, or it throws, which only happens when a compaction has deleted the level-1 file it had
\* looked up (compaction.cpp:175), and then the level index names a file that is there.
ReadsFind ==
    \A r \in Readers :
       (readers[r].pc = "done" /\ readers[r].must) =>
          \/ readers[r].res > 0
          \/ readers[r].res = Failed /\ index[readers[r].key].file \in DOMAIN files

\* That it always returns one does not hold.
ReadsNeverFail == \A r \in Readers : readers[r].res # Failed

\* The superversions somebody can still read.
LiveSvs == {sv} \cup ({readers[r].sv : r \in Readers} \ {NoSv})

\* What a superversion refers to outlives it: its version, that version's files, and its
\* tables; and no writer empties one of those tables to fill it again (reset in
\* get_newmemTable) while a reader of the superversion may be in it.
ReadersKeepWhatTheyHold ==
    \A s \in LiveSvs :
       /\ s.version \in DOMAIN versions
       /\ versions[s.version].files \subseteq DOMAIN files
       /\ \A t \in Range(s.tables) :
             /\ tables[t].refs > 0
             /\ \A w \in Writers : writers[w].pc \in {"reset", "store"} => writers[w].new # t

\* A writer that waits for a table is not left waiting: once no flush job is under way, no
\* reader holds a superversion and no other switch is half done, the free list has a table
\* that can be used.
NoStrandedSwitch ==
    \A w \in Writers :
       /\ writers[w].pc = "switch"
       /\ \A x \in Writers : writers[x].pc \notin {"reset", "store", "publish"}
       /\ \A t \in Tables : jobs[t] = "none"
       /\ \A r \in Readers : readers[r].sv = NoSv
       => free # <<>> /\ Reusable(Head(free))

\* A read returns the newest put acknowledged before it began, or a later one.
ReadsNewest ==
    \A r \in Readers : (readers[r].pc = "done" /\ readers[r].res > 0) => readers[r].res >= readers[r].floor
=============================================================================
