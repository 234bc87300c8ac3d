-------------------------------- MODULE Shard --------------------------------
(***************************************************************************)
(* The life of one shard (LSMStore in src/src/lsmstore.cpp): the           *)
(* constructor that recovers from file.info, flush jobs, the compaction of *)
(* level 0, the worker that rebuilds the CSR snapshot with its readers and *)
(* its barrier WaitCSRUpToDate, property updates attached to file ids, the *)
(* destructor that writes file.info, and a crash at any step.              *)
(*                                                                         *)
(* A record is one put of the edge of a source vertex.  What happens       *)
(* inside a memtable, a merge or a delta chain is in Adjacency,            *)
(* Compaction, LSMStore and PropertyDeltaStore; here a table and a file    *)
(* are sets of records, a compaction is its preparation and its            *)
(* publication, and the shard's calls come from one client thread.         *)
(***************************************************************************)
EXTENDS Integers, Sequences, FiniteSets, FiniteSetsExt

CONSTANTS
    Modes,         \* the values of FLAGS_use_csr_disk a session may be opened with
    MaxVertices,   \* max_vertex_num_
    Capacity,      \* memtable_size_ of an LSM session (Capacity[FALSE]) and of a CSR session (Capacity[TRUE])
    L0Limit,       \* l0_auto_compaction_limit
    MergeThreads,  \* FLAGS_thread_num / 2, at most 8: batches of a rebuild
    None,
    MaxPuts, MaxOpens, MaxRare   \* bounds

\* The contents of file.info.
Info == [vertices : Nat, level0 : SUBSET Nat, level1 : SUBSET Nat, seq : Nat]

ASSUME ShardAssumption ==
    /\ Modes \subseteq BOOLEAN /\ Modes # {}
    /\ {MaxVertices, L0Limit, MergeThreads} \subseteq Nat \ {0}
    /\ Capacity \in [BOOLEAN -> Nat \ {0}]
    /\ {MaxPuts, MaxOpens, MaxRare} \subseteq Nat
    /\ None \notin Nat /\ None \notin Info

VARIABLES
    \* The shard's directory.
    disk,      \* the SSTs and CSR files, by file id: their records and the updates merged into them
    info,      \* file.info: its contents, or None when it is missing or empty
    deltas,    \* the entries of the property-delta manifest
    \* The open shard.
    client,    \* the thread that calls the shard
    mem,       \* volatile state of the store
    jobs,      \* the flush jobs, in the order of their tables
    csr,       \* the state that the rebuild worker shares with jobs and waiters
    worker,    \* CSRRebuildWorkerMain
    reader,    \* a reader of the CSR snapshot
    \* History and bounds.
    count,     \* puts, opens, and rarer steps so far: updates, reads, calls, failures
    kept,      \* the records that must be found: put since, or saved by the last whole file.info
    saved,     \* the records of the last whole file.info
    updated,   \* the puts whose update was acknowledged, and the mode they were located in
    crashed,   \* the process has died since the directory was new
    overtaken, \* the puts in files whose deltas were not yet marked when a compaction was prepared
    promised   \* the records that were in files or jobs when the last WaitCSRUpToDate was called

diskVars == <<disk, info, deltas>>
history == <<kept, saved, updated, crashed, overtaken>>
vars == <<disk, info, deltas, client, mem, jobs, csr, worker, reader, count, kept, saved, updated, crashed,
          overtaken, promised>>

Vertices == 0 .. MaxVertices - 1
Newest(recs) == CHOOSE r \in recs : \A s \in recs : s.seq <= r.seq
OfVertex(recs, v) == {r \in recs : r.src = v}
Sources(recs) == {r.src : r \in recs}
RecordsOf(fids) == UNION {disk[f].recs : f \in fids}
Without(f, S) == [x \in DOMAIN f \ S |-> f[x]]
With(f, x, v) == [y \in DOMAIN f \cup {x} |-> IF y = x THEN v ELSE f[y]]

\* write_max on an entry of vertex_max_level_.
WriteMax(levels, vs, l) == [v \in Vertices |-> IF v \in vs THEN Max({levels[v], l}) ELSE levels[v]]

Closed == [pc |-> "closed", then |-> "none"]
NoTable == [fid |-> 0, recs |-> {}]
NoWorker == [pc |-> "none", sources |-> {}, built |-> <<>>]
IdleCsr == [pending |-> FALSE, running |-> FALSE, stop |-> FALSE, inflight |-> 0, snapshot |-> {}]
NoReader == [pc |-> "none", snapshot |-> {}]
NoMem == [csr |-> FALSE, level0 |-> {}, level1 |-> {}, bare |-> {}, fid |-> 0, seq |-> 0,
          vertices |-> 0, maxLevel |-> [v \in Vertices |-> -1], index |-> [v \in Vertices |-> None],
          active |-> NoTable, cols |-> <<>>, merging |-> "no", mergeError |-> FALSE]

Init ==
    /\ disk = <<>> /\ info = None /\ deltas = {}
    /\ client = Closed /\ mem = NoMem /\ jobs = <<>>
    /\ csr = IdleCsr /\ worker = NoWorker /\ reader = NoReader
    /\ count = [puts |-> 0, opens |-> 0, rare |-> 0]
    /\ kept = {} /\ saved = {} /\ updated = {} /\ crashed = FALSE /\ overtaken = {} /\ promised = {}

Counted(c, bound) == count[c] < bound /\ count' = [count EXCEPT ![c] = @ + 1]

-----------------------------------------------------------------------------
(* The constructor.                                                        *)

\* Mutant: file.info is not read.
RecoveredNothing == [vertices |-> 0, level0 |-> {}, level1 |-> {}, seq |-> 0]

\* What file.info says; a truncated or missing file reads as an empty store.
Recovered == IF info = None
             THEN [vertices |-> 0, level0 |-> {}, level1 |-> {}, seq |-> 0]
             ELSE info

\* Mutant: the table keeps an id that was chosen from the files of level 0 alone.
RecoveredFidLevel0(r) == Max({1} \cup r.level0) + 1

\* The second file id the new memtable is given, behind every recovered file.  The counter was
\* 1 when the files were read: the table had taken id 0.
RecoveredFid(r) == Max({1} \cup r.level0 \cup r.level1) + 1

\* Mutant: the files of level 1 are entered one level too high.
RecoveredLevelsOneUp(r) == WriteMax([v \in Vertices |-> -1], Sources(RecordsOf(r.level0 \cup r.level1)), 1)

\* vertex_max_level_ and the level index are rebuilt from the indexes of the files.
RecoveredLevels(r) ==
    WriteMax(WriteMax([v \in Vertices |-> -1], Sources(RecordsOf(r.level0)), 1),
             Sources(RecordsOf(r.level1)), 2)
RecoveredIndex(r) ==
    [v \in Vertices |-> IF v \in Sources(RecordsOf(r.level1))
                        THEN CHOOSE f \in r.level1 : v \in Sources(disk[f].recs)
                        ELSE None]

\* PropertyDeltaStore::Open: a delta of a table that never became persistent is kept when a file
\* with its id exists, and is dropped otherwise.
RecoveredDeltas ==
    {[d EXCEPT !.persistent = TRUE] : d \in {x \in deltas : x.persistent \/ x.fid \in DOMAIN disk}}

\* The indexes of level-1 files are dropped once the level index has them (bare).
OpenStore(m) ==
    LET r == Recovered
    IN mem' = [csr |-> m, level0 |-> r.level0, level1 |-> r.level1, bare |-> r.level1,
               fid |-> RecoveredFid(r) + 1, seq |-> r.seq, vertices |-> r.vertices,
               maxLevel |-> RecoveredLevels(r), index |-> RecoveredIndex(r),
               active |-> [NoTable EXCEPT !.fid = RecoveredFid(r)],
               cols |-> [f \in r.level0 \cup r.level1 |-> disk[f].upd],
               merging |-> "no", mergeError |-> FALSE]

\* With use_csr_disk the worker is started and the first rebuild requested.
Open(m) ==
    /\ client.pc = "closed" /\ Counted("opens", MaxOpens)
    /\ Recovered.level0 \cup Recovered.level1 \subseteq DOMAIN disk
    /\ OpenStore(m)
    /\ deltas' = RecoveredDeltas
    /\ csr' = [IdleCsr EXCEPT !.pending = m]
    /\ worker' = [NoWorker EXCEPT !.pc = IF m THEN "idle" ELSE "none"]
    /\ client' = [client EXCEPT !.pc = "idle"]
    /\ promised' = {}
    /\ UNCHANGED <<disk, info, jobs, reader>> /\ UNCHANGED history

\* A file that file.info lists and that is gone ends the process: exit(-1).
OpenRefused ==
    /\ client.pc = "closed"
    /\ ~ Recovered.level0 \cup Recovered.level1 \subseteq DOMAIN disk
    /\ client' = [client EXCEPT !.pc = "refused"]
    /\ UNCHANGED <<mem, jobs, csr, worker, reader, count, promised>> /\ UNCHANGED diskVars /\ UNCHANGED history

\* load_existing = false: the directory is removed before the store is made.
OpenClean(m) ==
    /\ client.pc = "closed" /\ Counted("opens", MaxOpens) /\ DOMAIN disk # {}
    /\ disk' = <<>> /\ info' = None /\ deltas' = {}
    /\ mem' = [NoMem EXCEPT !.csr = m, !.fid = 1]
    /\ csr' = [IdleCsr EXCEPT !.pending = m]
    /\ worker' = [NoWorker EXCEPT !.pc = IF m THEN "idle" ELSE "none"]
    /\ client' = [client EXCEPT !.pc = "idle"]
    /\ kept' = {} /\ saved' = {} /\ updated' = {} /\ crashed' = FALSE /\ overtaken' = {} /\ promised' = {}
    /\ UNCHANGED <<jobs, reader>>

-----------------------------------------------------------------------------
(* Vertices, puts and flush jobs.                                          *)

new_vertex ==
    /\ client.pc = "idle" /\ mem.vertices < MaxVertices
    /\ mem' = [mem EXCEPT !.vertices = @ + 1]
    /\ UNCHANGED <<client, jobs, csr, worker, reader, count, promised>>
    /\ UNCHANGED diskVars /\ UNCHANGED history

\* A table that is not yet recycled leaves the switch one free table of the two.
TableFree == \A i \in DOMAIN jobs : jobs[i].pc = "recycled" \/ jobs[i].pc = "scheduled"

NewJob(m) == [fid |-> m.active.fid, recs |-> m.active.recs, pc |-> "queued"]

\* ObserveTopologySequence.
Observed(seq, used) == Max({seq, used + 1})

Inserted(r) == [mem EXCEPT !.active.recs = @ \cup {r}, !.seq = Observed(@, r.seq),
                           !.maxLevel = WriteMax(@, {r.src}, 0)]

\* The writer of the last slot takes a new table and hands the full one to a flush job.
put_edge(v) ==
    /\ client.pc = "idle" /\ v < mem.vertices
    /\ Counted("puts", MaxPuts)
    /\ LET r == [src |-> v, seq |-> mem.seq, put |-> count.puts + 1]
           m == Inserted(r)
       IN /\ kept' = kept \cup {r}
          /\ IF Cardinality(m.active.recs) < Capacity[mem.csr]
             THEN mem' = m /\ UNCHANGED <<jobs, csr>>
             ELSE /\ TableFree
                  /\ mem' = [m EXCEPT !.active = [fid |-> m.fid, recs |-> {}], !.fid = @ + 1]
                  /\ jobs' = Append(jobs, NewJob(m))
                  /\ csr' = IF mem.csr THEN [csr EXCEPT !.inflight = @ + 1] ELSE csr
    /\ UNCHANGED <<client, worker, reader, saved, updated, crashed, overtaken, promised>> /\ UNCHANGED diskVars

HasRoom == Cardinality(mem.level0) < L0Limit

\* save2eSSTable: the file is written and the version with it published.
Saved(m, t) == [m EXCEPT !.level0 = @ \cup {t.fid}, !.cols = With(@, t.fid, {}),
                         !.maxLevel = WriteMax(@, Sources(t.recs), 1)]
WriteFile(d, t) == With(d, t.fid, [recs |-> t.recs, upd |-> {}])

JobPublish(i) ==
    /\ jobs[i].pc = "queued" /\ HasRoom
    /\ mem' = Saved(mem, jobs[i]) /\ disk' = WriteFile(disk, jobs[i])
    /\ jobs' = [jobs EXCEPT ![i].pc = "published"]
    /\ UNCHANGED <<info, deltas, client, csr, worker, reader, count, promised>> /\ UNCHANGED history

\* A delta chain, once it is persistent, is so with all its deltas.
PersistentChain(ds, fid) == {IF d.fid = fid THEN [d EXCEPT !.persistent = TRUE] ELSE d : d \in ds}

\* Mutant: the delta store is not told that a table has become a file.
MarkNothing(ds, fid) == ds

MarkPropertyDeltaTargetPersistent(ds, fid) == PersistentChain(ds, fid)

JobRecycle(i) ==
    /\ jobs[i].pc = "published"
    /\ deltas' = MarkPropertyDeltaTargetPersistent(deltas, jobs[i].fid)
    /\ jobs' = [jobs EXCEPT ![i].pc = "recycled"]
    /\ UNCHANGED <<disk, info, client, mem, csr, worker, reader, count, promised>> /\ UNCHANGED history

-----------------------------------------------------------------------------
(* Compaction of level 0 into level 1.                                     *)

RangeOf(fids) == LET vs == Sources(RecordsOf(fids)) IN Min(vs) .. Max(vs)
OverlappingInputs(in0) == {f \in mem.level1 : RangeOf({f}) \cap RangeOf(in0) # {}}

\* LocateSstEdgeOrdinal: the file is mapped, has its index, and its first record of the edge, the
\* newest, is the one the update was made for.
Mapped == mem.level0 \cup mem.level1 \cup csr.snapshot \cup reader.snapshot
Locatable(d) == /\ d.fid \in Mapped \ mem.bare
                /\ OfVertex(disk[d.fid].recs, d.src) # {}
                /\ Newest(OfVertex(disk[d.fid].recs, d.src)).seq = d.seq

\* MergeAllPersistent under the exclusive lock: every persistent delta is written into the column
\* of its file; one that does not match its file is an error that stays.
Persistent == {d \in deltas : d.persistent}
MergedColumns ==
    [f \in DOMAIN disk |-> [disk[f] EXCEPT !.upd = @ \cup {d.put : d \in {x \in Persistent : x.fid = f}}]]

\* The puts of the tables that are files already, and whose deltas are not yet marked.
Unmarked == UNION {{r.put : r \in jobs[i].recs} : i \in {j \in DOMAIN jobs : jobs[j].pc = "published"}}

PrepareCompaction ==
    IF ~ mem.mergeError /\ \A d \in Persistent : Locatable(d)
    THEN /\ disk' = MergedColumns /\ deltas' = deltas \ Persistent
         /\ mem' = [mem EXCEPT !.merging = "prepared"]
         /\ overtaken' = overtaken \cup Unmarked
    ELSE /\ mem' = [mem EXCEPT !.mergeError = TRUE]
         /\ UNCHANGED <<disk, deltas, overtaken>>

\* Who compacts: a call of ForceCompactAllL0ToL1, a job that finds no room, the tail of a job in
\* LSM mode, or the destructor when it finds no room for the last table.
JobCompacts(i) == \/ jobs[i].pc = "queued" /\ ~ HasRoom
                  \/ jobs[i].pc = "recycled" /\ ~ mem.csr /\ ~ HasRoom
Compactor == \/ client.pc = "compact"
             \/ client.pc = "save" /\ mem.active.recs # {} /\ ~ HasRoom
             \/ \E i \in DOMAIN jobs : JobCompacts(i)

CompactPrepare ==
    /\ Compactor /\ mem.merging = "no" /\ mem.level0 # {} /\ ~ mem.mergeError
    /\ PrepareCompaction
    /\ UNCHANGED <<info, client, jobs, csr, worker, reader, count, kept, saved, updated, crashed, promised>>

\* The files are merged into one new file; the level index and the published version change, and
\* the inputs are unreferenced: nothing else holds them.
CompactMerge(in0) ==
    /\ mem.merging = "prepared" /\ in0 # {}
    /\ (client.pc = "compact" => in0 = mem.level0)
    /\ LET in1 == OverlappingInputs(in0)
           recs == RecordsOf(in0 \cup in1)
           out == [recs |-> recs, upd |-> UNION {disk[f].upd : f \in in0 \cup in1}]
       IN /\ in1 \cap mem.bare = {}
          /\ disk' = With(Without(disk, in0 \cup in1), mem.fid, out)
          /\ mem' = [mem EXCEPT
                !.level0 = @ \ in0, !.level1 = (@ \ in1) \cup {mem.fid}, !.fid = @ + 1,
                !.cols = With(Without(@, in0 \cup in1), mem.fid, out.upd),
                !.index = [v \in Vertices |-> IF v \in Sources(recs) THEN mem.fid ELSE @[v]],
                !.maxLevel = WriteMax(@, Sources(recs), 2), !.merging = "no"]
    /\ client' = IF client.pc = "compact" THEN [client EXCEPT !.pc = "idle"] ELSE client
    /\ UNCHANGED <<info, deltas, jobs, csr, worker, reader, count, promised>> /\ UNCHANGED history

\* What is left of the shard when its process ends: the files.  One that was being written may or
\* may not be there.
Dies ==
    /\ \E torn \in SUBSET {j.fid : j \in {k \in Range(jobs) : k.pc = "queued"}} :
         disk' = [f \in DOMAIN disk \cup torn |-> IF f \in DOMAIN disk THEN disk[f] ELSE [recs |-> {}, upd |-> {}]]
    /\ client' = Closed /\ mem' = NoMem /\ jobs' = <<>>
    /\ csr' = IdleCsr /\ worker' = NoWorker /\ reader' = NoReader /\ promised' = {}
    /\ kept' = IF info = None THEN {} ELSE saved
    /\ crashed' = TRUE
    /\ UNCHANGED <<info, deltas, saved, updated, overtaken>>

\* The ways of a merge read their file's index through its vector, which recovery has emptied for
\* the files of level 1: a null pointer.
CompactBare(in0) ==
    /\ mem.merging = "prepared" /\ in0 # {}
    /\ OverlappingInputs(in0) \cap mem.bare # {}
    /\ Dies /\ UNCHANGED count

\* ForceCompactAllL0ToL1 with nothing to compact, or after a failed preparation.
ForceReturns ==
    /\ client.pc = "compact" /\ mem.merging = "no"
    /\ mem.level0 = {} \/ mem.mergeError
    /\ client' = [client EXCEPT !.pc = "idle"]
    /\ UNCHANGED <<mem, jobs, csr, worker, reader, count, promised>> /\ UNCHANGED diskVars /\ UNCHANGED history

JobsBut(i) == [k \in 1 .. Len(jobs) - 1 |-> jobs[IF k < i THEN k ELSE k + 1]]

\* The end of a flush job in LSM mode: MaybeScheduleCompaction has nothing (more) to do.
JobEnds(i) ==
    /\ jobs[i].pc = "recycled" /\ ~ mem.csr
    /\ HasRoom \/ mem.merging # "no" \/ mem.mergeError
    /\ jobs' = JobsBut(i)
    /\ UNCHANGED <<client, mem, csr, worker, reader, count, promised>> /\ UNCHANGED diskVars /\ UNCHANGED history

-----------------------------------------------------------------------------
(* The CSR rebuild worker and its readers.                                 *)

\* The waiter holds csr_rebuild_state_mutex_ from its check of the condition to its sleep.
MutexFree == client.pc # "blocking"
Notified == IF client.pc = "asleep" THEN [client EXCEPT !.pc = "check"] ELSE client

\* ScheduleCSRRebuild: requests are merged, and refused once the worker is told to stop.
Scheduled(c) == IF c.stop THEN c ELSE [c EXCEPT !.pending = TRUE]

JobSchedule(i) ==
    /\ jobs[i].pc = "recycled" /\ mem.csr /\ MutexFree
    /\ csr' = Scheduled(csr) /\ client' = Notified
    /\ jobs' = [jobs EXCEPT ![i].pc = "scheduled"]
    /\ UNCHANGED <<mem, worker, reader, count, promised>> /\ UNCHANGED diskVars /\ UNCHANGED history

\* MarkCSRFlushJobDone takes no mutex.
MarkCSRFlushJobDone(i) ==
    /\ jobs[i].pc = "scheduled"
    /\ csr' = [csr EXCEPT !.inflight = @ - 1] /\ client' = Notified
    /\ jobs' = JobsBut(i)
    /\ UNCHANGED <<mem, worker, reader, count, promised>> /\ UNCHANGED diskVars /\ UNCHANGED history

WorkerTake ==
    /\ worker.pc = "idle" /\ csr.pending /\ MutexFree
    /\ csr' = [csr EXCEPT !.pending = FALSE, !.running = TRUE]
    /\ worker' = [NoWorker EXCEPT !.pc = "level0"]
    /\ UNCHANGED <<client, mem, jobs, reader, count, promised>> /\ UNCHANGED diskVars /\ UNCHANGED history

WorkerStops ==
    /\ worker.pc = "idle" /\ csr.stop /\ ~ csr.pending /\ MutexFree
    /\ worker' = NoWorker
    /\ UNCHANGED <<client, mem, jobs, csr, reader, count, promised>> /\ UNCHANGED diskVars /\ UNCHANGED history

\* The level-0 files of a superversion that is given back at once, then those of the deeper levels.
CollectSources ==
    /\ worker.pc \in {"level0", "level1"}
    /\ worker' = IF worker.pc = "level0"
                 THEN [worker EXCEPT !.sources = mem.level0, !.pc = "level1"]
                 ELSE [worker EXCEPT !.sources = @ \cup mem.level1, !.pc = "build"]
    /\ UNCHANGED <<client, mem, jobs, csr, reader, count, promised>> /\ UNCHANGED diskVars /\ UNCHANGED history

\* Files whose index was dropped at recovery contribute no source vertex and no record.
Indexed == worker.sources \ mem.bare

\* The source vertices in ascending order, cut into one contiguous range per thread.
Batches(srcs) ==
    LET n == Min({MergeThreads, Cardinality(srcs)})
        Place(v) == Cardinality({u \in srcs : u <= v})
        Cut(b) == (Cardinality(srcs) * b) \div n
    IN [b \in 1 .. n |-> {v \in srcs : Place(v) \in Cut(b - 1) + 1 .. Cut(b)}]

\* collect_selected_edges_for_src, for the vertices of a batch.  The source files are not
\* referenced: one that a compaction has deleted is read after its end, which can skip its
\* records (or end the process).
SelectedEdges(srcs, from) == {r \in RecordsOf(from) : r.src \in srcs}

\* The file of a batch: the selected edges, with the values of the columns as they were mapped
\* when the source was opened.
BuiltFile(srcs, from) == [recs |-> SelectedEdges(srcs, from), upd |-> UNION {mem.cols[f] : f \in from}]

\* open_builder takes an id for every batch, and finalize_builder writes its file under it.
Finalized(d, batches, from) ==
    [f \in DOMAIN d \cup (mem.fid .. mem.fid + Len(batches) - 1) |->
        IF f - mem.fid + 1 \in DOMAIN batches THEN BuiltFile(batches[f - mem.fid + 1], from) ELSE d[f]]

RebuildCSR ==
    /\ worker.pc = "build"
    /\ LET from == Indexed \cap DOMAIN disk
           srcs == Sources(RecordsOf(from))
           batches == Batches(srcs)
       IN IF srcs = {}
          THEN /\ worker' = [worker EXCEPT !.pc = "publish", !.built = <<>>]
               /\ UNCHANGED <<disk, mem>>
          ELSE /\ worker' = [worker EXCEPT !.pc = "publish",
                                           !.built = [b \in DOMAIN batches |-> mem.fid + b - 1]]
               /\ mem' = [mem EXCEPT !.fid = @ + Len(batches)]
               /\ disk' = Finalized(disk, batches, from)
    /\ UNCHANGED <<info, deltas, client, jobs, csr, reader, count, promised>> /\ UNCHANGED history

\* A batch that fails leaves the snapshot as it is; every batch has taken a file id, and the files
\* of the others are unreferenced.
RebuildFails ==
    /\ worker.pc = "build" /\ Counted("rare", MaxRare)
    /\ LET srcs == Sources(RecordsOf(Indexed \cap DOMAIN disk))
       IN srcs # {} /\ mem' = [mem EXCEPT !.fid = @ + Len(Batches(srcs))]
    /\ worker' = [worker EXCEPT !.pc = "finish"]
    /\ promised' = {}
    /\ UNCHANGED <<client, jobs, csr, reader>> /\ UNCHANGED diskVars /\ UNCHANGED history

\* Mutant: the files of a replaced snapshot are deleted although a reader holds it.
FreedAtOnce(d, old, holder) == Without(d, old)

\* A snapshot dies with its last reference, and its files with it.
Freed(d, old, holder) == IF old = holder THEN d ELSE Without(d, old)

PublishSnapshot ==
    /\ worker.pc = "publish"
    /\ csr' = [csr EXCEPT !.snapshot = Range(worker.built)]
    /\ disk' = Freed(disk, csr.snapshot, reader.snapshot)
    /\ worker' = [worker EXCEPT !.pc = "finish"]
    /\ UNCHANGED <<info, deltas, client, mem, jobs, reader, count, promised>> /\ UNCHANGED history

WorkerFinish ==
    /\ worker.pc = "finish" /\ MutexFree
    /\ csr' = [csr EXCEPT !.running = FALSE] /\ client' = Notified
    /\ worker' = [NoWorker EXCEPT !.pc = "idle"]
    /\ UNCHANGED <<mem, jobs, reader, count, promised>> /\ UNCHANGED diskVars /\ UNCHANGED history

\* find_edge_in_csr_disk holds the snapshot while it reads.
ReadBegins ==
    /\ reader.pc = "none" /\ csr.snapshot # {} /\ Counted("rare", MaxRare)
    /\ client.pc = "idle" \/ client.then \in {"wait", "force"}
    /\ reader' = [pc |-> "reading", snapshot |-> csr.snapshot]
    /\ UNCHANGED <<client, mem, jobs, csr, worker, promised>> /\ UNCHANGED diskVars /\ UNCHANGED history

ReadEnds ==
    /\ reader.pc = "reading"
    /\ reader' = NoReader
    /\ disk' = Freed(disk, reader.snapshot, csr.snapshot)
    /\ UNCHANGED <<info, deltas, client, mem, jobs, csr, worker, count, promised>> /\ UNCHANGED history

-----------------------------------------------------------------------------
(* Property updates.                                                       *)

\* LocateEdge: the tables, oldest first; then in CSR mode the snapshot, otherwise level 0, newest
\* file first, and the level index.
LocatedInTable(v) ==
    LET tables == [i \in DOMAIN jobs |-> IF jobs[i].pc = "queued" THEN jobs[i].recs ELSE {}]
                  \o <<mem.active.recs>>
        fids == [i \in DOMAIN jobs |-> jobs[i].fid] \o <<mem.active.fid>>
        hits == {i \in DOMAIN tables : OfVertex(tables[i], v) # {}}
    IN IF hits = {} THEN {}
       ELSE {[fid |-> fids[Min(hits)], rec |-> Newest(OfVertex(tables[Min(hits)], v)), persistent |-> FALSE]}
HitIn(fids, v) == {f \in fids : OfVertex(disk[f].recs, v) # {}}
InFile(f, v) == [fid |-> f, rec |-> Newest(OfVertex(disk[f].recs, v)), persistent |-> TRUE]
LocatedInFile(v) ==
    LET fids == IF mem.csr
                THEN HitIn(csr.snapshot, v)
                ELSE IF HitIn(mem.level0, v) # {} THEN HitIn(mem.level0, v)
                ELSE {mem.index[v]} \ {None}
    IN IF fids = {} THEN {} ELSE {InFile(Max(fids), v)}
LocateEdge(v) == IF LocatedInTable(v) # {} THEN LocatedInTable(v) ELSE LocatedInFile(v)

\* AttachPropertyDelta under the shared lock; the target is the id of the table or file.  A file
\* makes its chain persistent (GetOrCreateChain).
AttachPropertyDelta(v) ==
    /\ client.pc = "idle" /\ mem.merging = "no" /\ Counted("rare", MaxRare)
    /\ \E l \in LocateEdge(v) :
          /\ deltas' = (IF l.persistent THEN PersistentChain(deltas, l.fid) ELSE deltas)
                       \cup {[fid |-> l.fid, src |-> v, seq |-> l.rec.seq, put |-> l.rec.put,
                              persistent |-> l.persistent]}
          /\ updated' = updated \cup {[put |-> l.rec.put, csr |-> mem.csr]}
    /\ UNCHANGED <<disk, info, client, mem, jobs, csr, worker, reader, kept, saved, crashed, overtaken, promised>>

-----------------------------------------------------------------------------
(* Barriers, shutdown and crashes.                                         *)

\* WaitBackgroundIdle begins with WaitCSRUpToDate in CSR mode.
BeginWait(then) ==
    /\ client' = [pc |-> IF mem.csr THEN "check" ELSE "poll", then |-> then]
    /\ csr' = IF mem.csr THEN Scheduled(csr) ELSE csr
    /\ promised' = IF mem.csr
                   THEN RecordsOf((mem.level0 \cup mem.level1) \ mem.bare) \cup UNION {j.recs : j \in Range(jobs)}
                   ELSE {}

\* WaitCSRUpToDate, ForceCompactAllL0ToL1 and the destructor.
Call(op) ==
    /\ client.pc = "idle" /\ (op = "wait" => mem.csr)
    /\ (op = "close" => reader = NoReader)      \* the destructor requires that readers have left
    /\ IF op = "close" THEN UNCHANGED count ELSE Counted("rare", MaxRare)
    /\ BeginWait(op)
    /\ UNCHANGED <<mem, jobs, worker, reader>> /\ UNCHANGED diskVars /\ UNCHANGED history

\* Mutant: the barrier does not wait for flush jobs.
UpToDateButFlushing == ~ csr.pending /\ ~ csr.running

UpToDate == ~ csr.pending /\ ~ csr.running /\ csr.inflight = 0

WaitChecks ==
    /\ client.pc = "check"
    /\ client' = [client EXCEPT !.pc = IF ~ UpToDate THEN "blocking"
                                       ELSE IF client.then = "wait" THEN "idle"
                                       ELSE IF client.then = "stop" THEN "stop"
                                       ELSE "poll"]
    /\ UNCHANGED <<mem, jobs, csr, worker, reader, count, promised>> /\ UNCHANGED diskVars /\ UNCHANGED history

WaitSleeps ==
    /\ client.pc = "blocking"
    /\ client' = [client EXCEPT !.pc = "asleep"]
    /\ UNCHANGED <<mem, jobs, csr, worker, reader, count, promised>> /\ UNCHANGED diskVars /\ UNCHANGED history

\* The rest of WaitBackgroundIdle polls; a merge error is thrown to the caller of
\* ForceCompactAllL0ToL1 and only logged by the destructor.
BackgroundIdle == jobs = <<>> /\ mem.merging = "no" /\ (mem.csr => UpToDate)

PollEnds ==
    /\ client.pc = "poll" /\ BackgroundIdle
    /\ CASE client.then = "force" -> /\ client' = [client EXCEPT !.pc = IF mem.mergeError THEN "idle" ELSE "compact"]
                                     /\ UNCHANGED <<csr, promised>>
         [] client.then = "close" /\ mem.csr -> BeginWait("stop")
         [] client.then = "close" /\ ~ mem.csr -> /\ client' = [client EXCEPT !.pc = "save"]
                                                  /\ UNCHANGED <<csr, promised>>
         [] client.then = "saved" -> /\ client' = [client EXCEPT !.pc = "truncate"]
                                     /\ UNCHANGED <<csr, promised>>
    /\ UNCHANGED <<mem, jobs, worker, reader, count>> /\ UNCHANGED diskVars /\ UNCHANGED history

StopWorker ==
    /\ client.pc = "stop"
    /\ csr' = [csr EXCEPT !.stop = TRUE]
    /\ client' = [client EXCEPT !.pc = "join"]
    /\ UNCHANGED <<mem, jobs, worker, reader, count, promised>> /\ UNCHANGED diskVars /\ UNCHANGED history

JoinWorker ==
    /\ client.pc = "join" /\ worker = NoWorker
    /\ client' = [client EXCEPT !.pc = "save"]
    /\ UNCHANGED <<mem, jobs, csr, worker, reader, count, promised>> /\ UNCHANGED diskVars /\ UNCHANGED history

\* The active table becomes a level-0 file when it has edges.
SaveActive ==
    /\ client.pc = "save"
    /\ IF mem.active.recs = {}
       THEN UNCHANGED <<mem, disk, deltas>>
       ELSE /\ HasRoom
            /\ mem' = [Saved(mem, mem.active) EXCEPT !.active = NoTable]
            /\ disk' = WriteFile(disk, mem.active)
            /\ deltas' = MarkPropertyDeltaTargetPersistent(deltas, mem.active.fid)
    /\ BeginWait("saved")
    /\ UNCHANGED <<info, jobs, worker, reader, count>> /\ UNCHANGED history

\* file.info is opened for writing, which empties it, and written.
TruncateInfo ==
    /\ client.pc = "truncate"
    /\ info' = None
    /\ client' = [client EXCEPT !.pc = "write"]
    /\ UNCHANGED <<disk, deltas, mem, jobs, csr, worker, reader, count, promised>> /\ UNCHANGED history

\* After it the snapshot is released, with its files, and everything in memory is gone.
WriteInfo ==
    /\ client.pc = "write"
    /\ info' = [vertices |-> mem.vertices, level0 |-> mem.level0, level1 |-> mem.level1, seq |-> mem.seq]
    /\ saved' = RecordsOf(mem.level0 \cup mem.level1)
    /\ disk' = Freed(disk, csr.snapshot, {})
    /\ client' = Closed /\ mem' = NoMem /\ csr' = IdleCsr /\ promised' = {}
    /\ UNCHANGED <<deltas, jobs, worker, reader, count, kept, updated, crashed, overtaken>>

\* The process ends at any step.
Crash ==
    /\ client.pc \notin {"closed", "refused"}
    /\ Dies /\ UNCHANGED count

Next ==
    \/ \E m \in Modes : Open(m) \/ OpenClean(m)
    \/ OpenRefused \/ new_vertex
    \/ \E v \in Vertices : put_edge(v) \/ AttachPropertyDelta(v)
    \/ \E i \in DOMAIN jobs : \/ JobPublish(i) \/ JobRecycle(i) \/ JobEnds(i)
                              \/ JobSchedule(i) \/ MarkCSRFlushJobDone(i)
    \/ CompactPrepare \/ ForceReturns \/ \E in0 \in SUBSET mem.level0 : CompactMerge(in0) \/ CompactBare(in0)
    \/ WorkerTake \/ WorkerStops \/ CollectSources \/ RebuildCSR \/ RebuildFails \/ PublishSnapshot
    \/ WorkerFinish \/ ReadBegins \/ ReadEnds
    \/ \E op \in {"wait", "force", "close"} : Call(op)
    \/ WaitChecks \/ WaitSleeps \/ PollEnds \/ StopWorker \/ JoinWorker
    \/ SaveActive \/ TruncateInfo \/ WriteInfo \/ Crash

Spec == Init /\ [][Next]_vars

-----------------------------------------------------------------------------
(* Properties.                                                             *)

Running == client.pc \notin {"closed", "refused"}


\* The tables and files where a read of the session's mode finds a record: a table of the
\* superversion; then in CSR mode a file of the snapshot, otherwise a level-0 file of the version or
\* the file of the level index, as far down as vertex_max_level_ says.
TableOf(r) ==
    {t \in {mem.active.fid} : r \in mem.active.recs}
    \cup {j.fid : j \in {k \in Range(jobs) : k.pc = "queued" /\ r \in k.recs}}
FileOf(r) ==
    IF mem.csr
    THEN {f \in csr.snapshot : r \in disk[f].recs}
    ELSE {f \in mem.level0 : mem.maxLevel[r.src] >= 1 /\ r \in disk[f].recs}
         \cup {f \in mem.level1 : mem.maxLevel[r.src] >= 2 /\ mem.index[r.src] = f /\ r \in disk[f].recs}
HomeOf(r) == TableOf(r) \cup FileOf(r)

\* No put is lost to LSM reads: in an LSM session every record put is found, across switches,
\* flushes, compactions and clean restarts, and also those that were put in CSR sessions.  After a
\* crash the shard either refuses to open or finds every record that file.info covered, unless the
\* crash came while file.info was written.
KeptIsFound == Running /\ ~ mem.csr => \A r \in kept : r.src < mem.vertices /\ HomeOf(r) # {}

\* A reopened shard gives out topology sequences and file ids above every recovered one: no two of
\* the tables, jobs, files and snapshot files share an id, and the next id and sequence are above
\* them all.
IdsFresh ==
    Running =>
        LET tables == IF mem.active = NoTable THEN {} ELSE {mem.active.fid}
            queued == {j.fid : j \in {k \in Range(jobs) : k.pc = "queued"}}
            built == IF worker.pc = "publish" THEN Range(worker.built) ELSE {}
            files == <<tables, queued, mem.level0, mem.level1, csr.snapshot, built>>
        IN /\ \A a, b \in DOMAIN files : a # b => files[a] \cap files[b] = {}
           /\ \A a \in DOMAIN files : \A f \in files[a] : f < mem.fid
           /\ \A r \in kept \cup RecordsOf(mem.level0 \cup mem.level1) : r.seq < mem.seq

\* An update that was acknowledged in LSM mode stays in effect there, through flush, compaction,
\* restart and crash: the file of its record has it in its column or a delta has it.  The exception
\* is a compaction that is prepared between the publication of a table's file and the mark of its
\* deltas.
InEffect(r) ==
    \E f \in HomeOf(r) :
        \/ \E d \in deltas : d.fid = f /\ d.src = r.src /\ d.seq = r.seq
        \/ f \in DOMAIN disk /\ r.put \in disk[f].upd
UpdatesInEffect ==
    Running /\ ~ mem.csr =>
        \A r \in kept : [put |-> r.put, csr |-> FALSE] \in updated /\ r.put \notin overtaken => InEffect(r)

\* The same without the exception.
EveryUpdateInEffect ==
    Running /\ ~ mem.csr =>
        \A r \in kept : [put |-> r.put, csr |-> FALSE] \in updated => InEffect(r)

\* WaitCSRUpToDate is a write-then-read barrier: when it returns, the snapshot has every record
\* that was in a file with its index or in a flush job when it was called, unless a rebuild failed
\* in between.  A later rebuild can drop records again: the job that compacts its sources while
\* it reads them is yet to ask for the next one.
WaitIsABarrier ==
    [][client.pc = "check" /\ client'.pc \in {"idle", "poll", "stop"} /\ ~ csr.stop =>
           promised \subseteq RecordsOf(csr.snapshot)]_vars

\* The same for the files of level 1 that the session was opened with: a comment of the rebuild
\* (lsmstore.cpp:1216) says that they are among its inputs, for old data that is loaded at start.
OldFilesAreRebuilt ==
    [][client.pc = "check" /\ client'.pc \in {"idle", "poll", "stop"} /\ ~ csr.stop =>
           RecordsOf(mem.level1 \cap mem.bare) \subseteq RecordsOf(csr.snapshot)]_vars

\* The files of the published snapshot and of the one a reader holds are there until the last of
\* them lets go.
SnapshotsKeepTheirFiles == csr.snapshot \cup reader.snapshot \subseteq DOMAIN disk

\* As long as no process has died, a delta never applies to another record than the one it was
\* made for, although file ids that no file of file.info has are given out again.
UpdatesStayWithTheirEdge ==
    Running /\ ~ crashed => \A r \in kept, d \in deltas :
        d.fid \in HomeOf(r) /\ d.src = r.src /\ d.seq = r.seq => d.put = r.put

\* In LSM mode, with no crash, a compaction can materialize every delta: the preparation never
\* fails.
CompactionPrepares == ~ mem.csr /\ mem.bare = {} => ~ mem.mergeError

\* A waiter of WaitCSRUpToDate sleeps only while there is something left that will wake it.
SleepsOnlyWhileBehind == client.pc = "asleep" => ~ UpToDate
====
