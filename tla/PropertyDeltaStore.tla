------------------------- MODULE PropertyDeltaStore -------------------------
(***************************************************************************)
(* The delta files of one shard (src/src/property_delta_store.cpp) with    *)
(* what surrounds them: the attaching flush callback, the memtable flush   *)
(* that turns a target's base from a memtable into an SST, the merge       *)
(* worker, the compaction preparation, crashes and recovery.               *)
(*                                                                         *)
(* A target is one property column of one base file.  Everything done      *)
(* under a chain's mutex is one step; so is every durable write.  A value  *)
(* is named by the commit sequence of its update, 0 being the value the    *)
(* row was inserted with.  The manifest is the set of the entries that a   *)
(* replay of its file gives, with the state of the file's end:             *)
(* PropertyDeltaManifest is about how records and their pieces give that.  *)
(***************************************************************************)
EXTENDS Integers, Sequences, FiniteSets

CONSTANTS
    Targets,       \* delta targets
    Keys,          \* rows of a target that are watched; it has others
    Threshold,     \* delta_chain_merge_threshold
    MaxCommit,     \* bound: attachments in a behaviour
    MaxCrashes,    \* bound: crashes in a behaviour
    MaxFailures,   \* bound: failed writes in a behaviour
    MaxCompactions \* bound: compactions begun in a behaviour

\* OpenAndRecover refuses a threshold of 0.
ASSUME ThresholdAssumption == Threshold \in Nat \ {0}
ASSUME BoundsAssumption ==
    MaxCommit \in Nat /\ MaxCrashes \in Nat /\ MaxFailures \in Nat /\ MaxCompactions \in Nat

Mergers == {"worker", "compactor"}
Values == [Keys -> Nat]
DeltaFile == [gen : Nat, target : Targets, vals : Values]
Unwritten == [k \in Keys |-> 0]

VARIABLES
    \* on disk
    column,      \* the property column of every target's SST
    sst,         \* targets whose SST has been written
    disk,        \* delta files in the directory
    manifest,    \* what a replay of the manifest gives: file and target_is_persistent
    log,         \* its end: "sound"; behind a failed append "torn" or "whole"; and with more
                 \* appended behind that, "behind" (a replay drops it) or "refused"
    temps,       \* temporaries of column merges: target and generation
    \* in memory
    up,          \* "up", "down", or "recovering"
    where,       \* where readers find the base: "mem", "sst", "gone" (compacted), "lost"
    chain,       \* per target: live, persistent, busy, base, deltas
    marked,      \* persistent_base_files_
    nextGen,     \* next_file_generation_
    jobs,        \* jobs_
    bgError,     \* background_error_ is set
    attach,      \* the thread in AttachPropertyDelta
    flush,       \* per target: where the job that flushes its memtable is, files it recorded
    merger,      \* per merging thread: where it is in MergeChain
    comp,        \* the compaction coordinator
    \* history and bounds
    commit,      \* newest commit attached so far
    acked,       \* newest acknowledged commit per target and row
    output,      \* what a compaction read of the columns it consumed
    crashes, failures, compactions

vars == <<column, sst, disk, manifest, log, temps, up, where, chain, marked, nextGen, jobs,
          bgError, attach, flush, merger, comp, commit, acked, output,
          crashes, failures, compactions>>

diskVars == <<column, sst, disk, manifest, log, temps>>
bounds == <<crashes, failures, compactions>>

Entry == [file : DeltaFile, persistent : BOOLEAN]
NoChain(t) == [live |-> FALSE, persistent |-> FALSE, busy |-> FALSE,
               base |-> column[t], deltas |-> <<>>]
NoTarget == "none"
NoMerge == [pc |-> "idle", target |-> NoTarget, batch |-> <<>>, base |-> Unwritten, gen |-> 0]
IdleAttach == [pc |-> "idle", target |-> NoTarget, persistent |-> FALSE, vals |-> Unwritten, gen |-> 0]
IdleFlush == [pc |-> "idle", recorded |-> 0]
IdleComp == [pc |-> "idle", todo |-> {}, drained |-> {}, inputs |-> {}]

Init ==
    /\ column = [t \in Targets |-> Unwritten]
    /\ sst = {} /\ disk = {} /\ manifest = {} /\ log = "sound" /\ temps = {}
    /\ up = "up"
    /\ where = [t \in Targets |-> "mem"]
    /\ chain = [t \in Targets |-> [live |-> FALSE, persistent |-> FALSE, busy |-> FALSE,
                                   base |-> Unwritten, deltas |-> <<>>]]
    /\ marked = {}
    /\ nextGen = 1
    /\ jobs = <<>>
    /\ bgError = FALSE
    /\ attach = IdleAttach /\ comp = IdleComp
    /\ flush = [t \in Targets |-> IdleFlush]
    /\ merger = [m \in Mergers |-> NoMerge]
    /\ commit = 0
    /\ acked = [t \in Targets |-> Unwritten]
    /\ output = [t \in Targets |-> Unwritten]
    /\ crashes = 0 /\ failures = 0 /\ compactions = 0

-----------------------------------------------------------------------------
(* What readers find.                                                      *)

Newest(S) == CHOOSE c \in S : \A x \in S : x <= c

\* The commits a sequence of delta files has for a row.
Commits(fs, k) == {fs[i].vals[k] : i \in 1 .. Len(fs)} \ {0}

\* PropertyDeltaReadView::Lookup with the latest read sequence, then BaseDataOr.
Lookup(base, fs, k) == IF Commits(fs, k) = {} THEN base[k] ELSE Newest(Commits(fs, k))

\* A mutated merge: the first record of a row wins.
MergedOldestWins(base, fs) ==
    [k \in Keys |->
        LET I == {i \in 1 .. Len(fs) : fs[i].vals[k] # 0}
        IN  IF I = {} THEN base[k] ELSE fs[CHOOSE i \in I : \A j \in I : i <= j].vals[k]]

\* MergePropertyDeltaColumn: records written over the base in chain order.
Merged(base, fs) ==
    [k \in Keys |->
        LET I == {i \in 1 .. Len(fs) : fs[i].vals[k] # 0}
        IN  IF I = {} THEN base[k] ELSE fs[Newest(I)].vals[k]]

Range(fs) == {fs[i] : i \in 1 .. Len(fs)}
Drop(fs, n) == SubSeq(fs, n + 1, Len(fs))

-----------------------------------------------------------------------------
(* The manifest's file.                                                    *)

\* AppendRecord returns true; m is the manifest with its record.  Behind a torn record a replay
\* drops it or refuses the file; behind a whole one it has the same edit sequence.
AppendRecord(m) ==
    \/ log = "sound" /\ manifest' = m /\ UNCHANGED log
    \/ log \in {"torn", "behind"} /\ log' \in {"behind", "refused"} /\ UNCHANGED manifest
    \/ log \in {"whole", "refused"} /\ log' = "refused" /\ UNCHANGED manifest

\* AppendRecord returns false: its write has left nothing or a piece, or fdatasync failed
\* behind the whole record.
AppendFails(m) ==
    \/ UNCHANGED <<manifest, log>>
    \/ log' = (IF log = "sound" THEN "torn" ELSE "refused") /\ UNCHANGED manifest
    \/ log = "sound" /\ manifest' = m /\ log' = "whole"

-----------------------------------------------------------------------------
(* Attach.  The caller is AttachPropertyDelta, on the one flush worker of  *)
(* the update manager, with the compaction lock held shared.               *)

\* A mutated lock: attachments do not wait for a compaction.
AttachUnlocked == TRUE

\* The shared lock on property_delta_compaction_mutex_ can be had.
AttachAllowed == comp.pc = "idle"

\* LocateEdge says where the rows live now: the base is persistent unless readers
\* still find it in a memtable.
AttachLocate(t) ==
    /\ up = "up" /\ attach.pc = "idle" /\ AttachAllowed
    /\ commit < MaxCommit
    /\ where[t] \in {"mem", "sst"}
    /\ \E ks \in SUBSET Keys :
          attach' = [IdleAttach EXCEPT !.pc = "check", !.target = t,
                                       !.persistent = (where[t] = "sst"),
                                       !.vals = [k \in Keys |-> IF k \in ks THEN commit + 1 ELSE 0]]
    /\ commit' = commit + 1
    /\ UNCHANGED <<diskVars, up, where, chain, marked, nextGen, jobs, bgError, flush, merger,
                   comp, acked, output, bounds>>

\* GetOrCreateChain, first lock: was the target marked persistent meanwhile?
AttachCheck ==
    /\ attach.pc = "check"
    /\ attach' = [attach EXCEPT !.pc = "chain", !.persistent = @ \/ attach.target \in marked]
    /\ UNCHANGED <<diskVars, up, where, chain, marked, nextGen, jobs, bgError, flush, merger,
                   comp, commit, acked, output, bounds>>

\* MarkTargetPersistent holds the chain's mutex while it appends to the manifest.
MutexFree(t) == flush[t].pc # "adding"

\* GetOrCreateChain, registry lock; then the generation is taken.
AttachGetChain ==
    /\ attach.pc = "chain"
    /\ attach.persistent => MutexFree(attach.target)
    /\ chain' = [chain EXCEPT ![attach.target].live = TRUE,
                              ![attach.target].persistent = @ \/ attach.persistent]
    /\ nextGen' = nextGen + 1
    /\ attach' = [attach EXCEPT !.pc = "create", !.gen = nextGen]
    /\ UNCHANGED <<diskVars, up, where, marked, jobs, bgError, flush, merger, comp, commit,
                   acked, output, bounds>>

AttachedFile == [gen |-> attach.gen, target |-> attach.target, vals |-> attach.vals]

\* PropertyDeltaFile::Create: written under a temporary name, then renamed.
AttachCreate ==
    /\ attach.pc = "create"
    /\ disk' = disk \cup {AttachedFile}
    /\ attach' = [attach EXCEPT !.pc = "publish"]
    /\ UNCHANGED <<column, sst, manifest, log, temps, up, where, chain, marked, nextGen, jobs,
                   bgError, flush, merger, comp, commit, acked, output, bounds>>

\* A chain with n deltas is to be scheduled.
MergeDue(c, n) == c.persistent /\ ~c.busy /\ n >= Threshold

AttachedEntry == [file |-> AttachedFile, persistent |-> chain[attach.target].persistent]

\* Under the chain mutex: the manifest entry takes the chain's persistence, then the
\* file becomes visible, then a merge is due when the chain reaches the threshold.
AttachPublish ==
    /\ attach.pc = "publish" /\ MutexFree(attach.target)
    /\ LET t == attach.target
           c == chain[t]
           due == MergeDue(c, Len(c.deltas) + 1)
       IN  /\ AppendRecord(manifest \cup {AttachedEntry})
           /\ chain' = [chain EXCEPT ![t].deltas = Append(@, AttachedFile),
                                     ![t].busy = @ \/ due]
           /\ attach' = [attach EXCEPT !.pc = IF due THEN "schedule" ELSE "return"]
    /\ UNCHANGED <<column, sst, disk, temps, up, where, marked, nextGen, jobs, bgError, flush,
                   merger, comp, commit, acked, output, bounds>>

\* Create fails, or AppendAdd does: the file that was created is obsolete and unlinked, whatever
\* the failed append has left of its entry.
AttachFails ==
    /\ \/ attach.pc = "create" /\ UNCHANGED <<manifest, log>>
       \/ /\ attach.pc = "publish" /\ MutexFree(attach.target)
          /\ AppendFails(manifest \cup {AttachedEntry})
    /\ failures < MaxFailures
    /\ failures' = failures + 1
    /\ disk' = disk \ {AttachedFile}
    /\ attach' = IdleAttach
    /\ UNCHANGED <<column, sst, temps, up, where, chain, marked, nextGen, jobs, bgError, flush, merger,
                   comp, commit, acked, output, crashes, compactions>>

AttachSchedule ==
    /\ attach.pc = "schedule"
    /\ jobs' = Append(jobs, attach.target)
    /\ attach' = [attach EXCEPT !.pc = "return"]
    /\ UNCHANGED <<diskVars, up, where, chain, marked, nextGen, bgError, flush, merger, comp,
                   commit, acked, output, bounds>>

AttachReturn ==
    /\ attach.pc = "return"
    /\ acked' = [acked EXCEPT ![attach.target] =
                    [k \in Keys |-> IF attach.vals[k] # 0 THEN attach.vals[k] ELSE @[k]]]
    /\ attach' = IdleAttach
    /\ UNCHANGED <<diskVars, up, where, chain, marked, nextGen, jobs, bgError, flush, merger,
                   comp, commit, output, bounds>>

AttachStep == \/ AttachCheck \/ AttachGetChain \/ AttachCreate \/ AttachPublish
              \/ AttachFails \/ AttachSchedule \/ AttachReturn

-----------------------------------------------------------------------------
(* The memtable flush: the job put_edge queues writes the SST, publishes   *)
(* it, and marks the targets of the file id persistent.  It does not take  *)
(* the compaction lock.                                                    *)

\* MemTable::save2eSSTable writes the rows with the values they were inserted with.
FlushSave(t) ==
    /\ up = "up" /\ flush[t].pc = "idle" /\ where[t] = "mem"
    /\ sst' = sst \cup {t}
    /\ column' = [column EXCEPT ![t] = Unwritten]
    /\ flush' = [flush EXCEPT ![t].pc = "saved"]
    /\ UNCHANGED <<disk, manifest, log, temps, up, where, chain, marked, nextGen, jobs, bgError,
                   attach, merger, comp, commit, acked, output, bounds>>

\* The version with the SST replaces the memtable.
FlushPublish(t) ==
    /\ flush[t].pc = "saved"
    /\ where' = [where EXCEPT ![t] = "sst"]
    /\ flush' = [flush EXCEPT ![t].pc = "mark"]
    /\ UNCHANGED <<diskVars, up, chain, marked, nextGen, jobs, bgError, attach, merger, comp,
                   commit, acked, output, bounds>>

\* MarkTargetPersistent: first the set of persistent base files, ...
MarkInsert(t) ==
    /\ flush[t].pc = "mark"
    /\ marked' = marked \cup {t}
    /\ flush' = [flush EXCEPT ![t].pc = "find"]
    /\ UNCHANGED <<diskVars, up, where, chain, nextGen, jobs, bgError, attach, merger, comp,
                   commit, acked, output, bounds>>

\* ... then the registry, ...
MarkFind(t) ==
    /\ flush[t].pc = "find"
    /\ flush' = [flush EXCEPT ![t].pc = IF chain[t].live THEN "chain" ELSE "done"]
    /\ UNCHANGED <<diskVars, up, where, chain, marked, nextGen, jobs, bgError, attach, merger,
                   comp, commit, acked, output, bounds>>

\* ... then the chain's mutex, under which the files of the chain are recorded again, ...
ToRecord(t) == IF chain[t].persistent THEN 0 ELSE Len(chain[t].deltas) - flush[t].recorded

NextRecorded(t) == chain[t].deltas[flush[t].recorded + 1]
AddedPersistent(f) == {e \in manifest : e.file # f} \cup {[file |-> f, persistent |-> TRUE]}

MarkAdd(t) ==
    /\ flush[t].pc \in {"chain", "adding"} /\ ToRecord(t) > 0
    /\ AppendRecord(AddedPersistent(NextRecorded(t)))
    /\ flush' = [flush EXCEPT ![t] = [pc |-> "adding", recorded |-> @.recorded + 1]]
    /\ UNCHANGED <<column, sst, disk, temps, up, where, chain, marked, nextGen, jobs, bgError,
                   attach, merger, comp, commit, acked, output, bounds>>

\* ... and the chain becomes persistent.
MarkChain(t) ==
    /\ flush[t].pc \in {"chain", "adding"} /\ ToRecord(t) = 0
    /\ LET c == chain[t]
           due == MergeDue([c EXCEPT !.persistent = TRUE], Len(c.deltas))
       IN  /\ chain' = [chain EXCEPT ![t].persistent = TRUE, ![t].busy = @ \/ due]
           /\ flush' = [flush EXCEPT ![t] = [pc |-> IF due THEN "schedule" ELSE "done", recorded |-> 0]]
    /\ UNCHANGED <<diskVars, up, where, marked, nextGen, jobs, bgError, attach, merger, comp,
                   commit, acked, output, bounds>>

\* An AppendAdd of MarkTargetPersistent fails: the chain stays as it is.
MarkFails(t) ==
    /\ flush[t].pc \in {"chain", "adding"} /\ ToRecord(t) > 0
    /\ failures < MaxFailures
    /\ failures' = failures + 1
    /\ AppendFails(AddedPersistent(NextRecorded(t)))
    /\ bgError' = TRUE
    /\ flush' = [flush EXCEPT ![t] = [pc |-> "done", recorded |-> 0]]
    /\ UNCHANGED <<column, sst, disk, temps, up, where, chain, marked, nextGen, jobs, attach,
                   merger, comp, commit, acked, output, crashes, compactions>>

MarkSchedule(t) ==
    /\ flush[t].pc = "schedule"
    /\ jobs' = Append(jobs, t)
    /\ flush' = [flush EXCEPT ![t].pc = "done"]
    /\ UNCHANGED <<diskVars, up, where, chain, marked, nextGen, bgError, attach, merger, comp,
                   commit, acked, output, bounds>>

FlushStep(t) == \/ FlushPublish(t) \/ MarkInsert(t) \/ MarkFind(t)
                \/ MarkAdd(t) \/ MarkChain(t) \/ MarkFails(t) \/ MarkSchedule(t)

-----------------------------------------------------------------------------
(* MergeChain, run by the worker on a scheduled chain and by a compaction  *)
(* (merge_all) on every chain with deltas.                                 *)

WorkerTake ==
    /\ merger["worker"].pc = "idle" /\ jobs # <<>>
    /\ merger' = [merger EXCEPT !["worker"] = [NoMerge EXCEPT !.pc = "capture",
                                                              !.target = Head(jobs)]]
    /\ jobs' = Tail(jobs)
    /\ UNCHANGED <<diskVars, up, where, chain, marked, nextGen, bgError, attach, flush, comp,
                   commit, acked, output, bounds>>

\* What the thread that called MergeChain does with its result: the compaction goes on
\* with the next chain or gives up, the worker records an error.
MergeReturns(m, ok) ==
    /\ merger' = [merger EXCEPT ![m] = NoMerge]
    /\ IF m = "worker"
       THEN bgError' = (bgError \/ ~ok) /\ comp' = comp
       ELSE /\ bgError' = bgError
            /\ comp' = IF ok THEN [comp EXCEPT !.pc = "drain"] ELSE IdleComp

MergeCapture(m) ==
    /\ merger[m].pc = "capture"
    /\ LET t == merger[m].target
           c == chain[t]
       IN  IF \/ ~c.persistent \/ c.deltas = <<>>
              \/ m = "worker" /\ Len(c.deltas) < Threshold
           THEN /\ chain' = [chain EXCEPT ![t].busy = FALSE]
                /\ MergeReturns(m, TRUE)
                /\ UNCHANGED nextGen
           ELSE /\ merger' = [merger EXCEPT ![m] =
                     [pc |-> "open", target |-> t, base |-> c.base, gen |-> nextGen,
                      batch |-> IF m = "worker" THEN SubSeq(c.deltas, 1, Threshold)
                                                ELSE c.deltas]]
                /\ nextGen' = nextGen + 1
                /\ UNCHANGED <<chain, bgError, comp>>
    /\ UNCHANGED <<diskVars, up, where, marked, jobs, attach, flush, commit, acked, output,
                   bounds>>

MergeTemp(m) == <<merger[m].target, merger[m].gen>>

\* The temporary of the merged column is opened with O_EXCL, in a file that is still open.
CanOpen(m) == merger[m].target \in sst /\ MergeTemp(m) \notin temps

MergeOpen(m) ==
    /\ merger[m].pc = "open" /\ CanOpen(m)
    /\ temps' = temps \cup {MergeTemp(m)}
    /\ merger' = [merger EXCEPT ![m].pc = "rename"]
    /\ UNCHANGED <<column, sst, disk, manifest, log, up, where, chain, marked, nextGen, jobs,
                   bgError, attach, flush, comp, commit, acked, output, bounds>>

MergeRename(m) ==
    /\ merger[m].pc = "rename"
    /\ column' = [column EXCEPT ![merger[m].target] = Merged(merger[m].base, merger[m].batch)]
    /\ temps' = temps \ {MergeTemp(m)}
    /\ merger' = [merger EXCEPT ![m].pc = "remove"]
    /\ UNCHANGED <<sst, disk, manifest, log, up, where, chain, marked, nextGen, jobs, bgError,
                   attach, flush, comp, commit, acked, output, bounds>>

\* A mutated AppendRemove: the merged files stay in the manifest.
NothingRemoved(m) == manifest

\* AppendRemove of the batch's files.
BatchRemoved(m) == {e \in manifest : e.file \notin Range(merger[m].batch)}

MergeRemove(m) ==
    /\ merger[m].pc = "remove"
    /\ AppendRecord(BatchRemoved(m))
    /\ merger' = [merger EXCEPT ![m].pc = "publish"]
    /\ UNCHANGED <<column, sst, disk, temps, up, where, chain, marked, nextGen, jobs, bgError,
                   attach, flush, comp, commit, acked, output, bounds>>

\* The batch is still the chain's prefix: MergeChain compares it before it publishes.
PrefixIntact(m) ==
    LET b == merger[m].batch
        d == chain[merger[m].target].deltas
    IN  Len(d) >= Len(b) /\ SubSeq(d, 1, Len(b)) = b

\* A mutated publish: the deltas attached during the merge are dropped.
NothingLeft(m) == <<>>

\* The deltas behind the merged prefix stay in the chain.
Rest(m) == Drop(chain[merger[m].target].deltas, Len(merger[m].batch))

\* A mutated publish: the worker is done after one batch.
NeverAgain(m) == FALSE

\* The worker schedules the chain again while it is at the threshold.
Again(m) == m = "worker" /\ chain[merger[m].target].persistent /\ Len(Rest(m)) >= Threshold

MergePublish(m) ==
    /\ merger[m].pc = "publish" /\ PrefixIntact(m)
    /\ LET t == merger[m].target
       IN  /\ chain' = [chain EXCEPT ![t].base = Merged(merger[m].base, merger[m].batch),
                                     ![t].deltas = Rest(m), ![t].busy = Again(m)]
           /\ IF Again(m)
              THEN merger' = [merger EXCEPT ![m].pc = "schedule"] /\ UNCHANGED <<bgError, comp>>
              ELSE MergeReturns(m, TRUE)
    /\ UNCHANGED <<diskVars, up, where, marked, nextGen, jobs, attach, flush, commit, acked,
                   output, bounds>>

MergeReschedule ==
    /\ merger["worker"].pc = "schedule"
    /\ jobs' = Append(jobs, merger["worker"].target)
    /\ MergeReturns("worker", TRUE)
    /\ UNCHANGED <<diskVars, up, where, chain, marked, nextGen, attach, flush, commit, acked,
                   output, bounds>>

\* The merge fails for its own reasons, or because a write does; its temporary is unlinked.
MergeFails(m) ==
    /\ \/ merger[m].pc = "open" /\ ~CanOpen(m) /\ UNCHANGED <<manifest, log, temps, failures>>
       \/ merger[m].pc = "publish" /\ ~PrefixIntact(m) /\ UNCHANGED <<manifest, log, temps, failures>>
       \/ /\ \/ merger[m].pc = "rename" /\ UNCHANGED <<manifest, log>>
             \/ merger[m].pc = "remove" /\ AppendFails(BatchRemoved(m))
          /\ failures < MaxFailures
          /\ failures' = failures + 1
          /\ temps' = temps \ {MergeTemp(m)}
    /\ chain' = [chain EXCEPT ![merger[m].target].busy = FALSE]
    /\ MergeReturns(m, FALSE)
    /\ UNCHANGED <<column, sst, disk, up, where, marked, nextGen, jobs, attach, flush, commit,
                   acked, output, crashes, compactions>>

MergeStep(m) == \/ MergeCapture(m) \/ MergeOpen(m) \/ MergeRename(m) \/ MergeRemove(m)
                \/ MergePublish(m) \/ MergeFails(m)

-----------------------------------------------------------------------------
(* Compaction: PreparePropertyDeltasForCompaction takes the lock, waits    *)
(* for the worker and merges every durable chain; BackgroundCompaction     *)
(* then picks its inputs from the version that is current by then, reads   *)
(* their columns by path, and publishes the new version.                   *)

CompLock ==
    /\ up = "up" /\ comp.pc = "idle" /\ attach.pc = "idle"
    /\ compactions < MaxCompactions
    /\ compactions' = compactions + 1
    /\ comp' = [IdleComp EXCEPT !.pc = "wait"]
    /\ UNCHANGED <<diskVars, up, where, chain, marked, nextGen, jobs, bgError, attach, flush,
                   merger, commit, acked, output, crashes, failures>>

\* A mutated wait: it does not end once a background error is recorded.
StoreIdleWithoutError == jobs = <<>> /\ merger["worker"].pc = "idle" /\ ~bgError

\* WaitForIdle is about the queue and the worker, not about chains in between.
StoreIdle == jobs = <<>> /\ merger["worker"].pc = "idle"

CompIdle ==
    /\ comp.pc = "wait" /\ StoreIdle
    /\ comp' = IF bgError THEN IdleComp
               ELSE [comp EXCEPT !.pc = "drain", !.todo = {t \in Targets : chain[t].live}]
    /\ UNCHANGED <<diskVars, up, where, chain, marked, nextGen, jobs, bgError, attach, flush,
                   merger, commit, acked, output, bounds>>

\* "property delta chain unexpectedly busy"
UnexpectedlyBusy(c) == c.busy

\* One chain of MergeAllPersistent: skipped, found unexpectedly busy, or merged.
CompDrain(t) ==
    /\ comp.pc = "drain" /\ t \in comp.todo /\ MutexFree(t)
    /\ LET c == chain[t]
           next == [comp EXCEPT !.todo = @ \ {t},
                                !.drained = IF c.persistent THEN @ \cup {t} ELSE @]
       IN  \/ /\ ~(c.persistent /\ c.deltas # <<>>)
              /\ comp' = next
              /\ UNCHANGED <<chain, merger>>
           \/ /\ c.persistent /\ c.deltas # <<>> /\ UnexpectedlyBusy(c)
              /\ comp' = IdleComp
              /\ UNCHANGED <<chain, merger>>
           \/ /\ c.persistent /\ c.deltas # <<>> /\ ~UnexpectedlyBusy(c)
              /\ comp' = [next EXCEPT !.pc = "merge"]
              /\ chain' = [chain EXCEPT ![t].busy = TRUE]
              /\ merger' = [merger EXCEPT !["compactor"] =
                               [NoMerge EXCEPT !.pc = "capture", !.target = t]]
    /\ UNCHANGED <<diskVars, up, where, marked, nextGen, jobs, bgError, attach, flush, commit,
                   acked, output, bounds>>

CompPick ==
    /\ comp.pc = "drain" /\ comp.todo = {}
    /\ \E ts \in SUBSET {t \in Targets : where[t] = "sst"} :
          /\ comp' = [comp EXCEPT !.pc = "write", !.inputs = ts]
          /\ output' = [t \in Targets |-> IF t \in ts THEN column[t] ELSE output[t]]
    /\ UNCHANGED <<diskVars, up, where, chain, marked, nextGen, jobs, bgError, attach, flush,
                   merger, commit, acked, bounds>>

CompPublish ==
    /\ comp.pc = "write"
    /\ where' = [t \in Targets |-> IF t \in comp.inputs THEN "gone" ELSE where[t]]
    /\ comp' = IdleComp
    /\ UNCHANGED <<diskVars, up, chain, marked, nextGen, jobs, bgError, attach, flush, merger,
                   commit, acked, output, bounds>>

\* SSTableCache::Unref: the last reference to a compacted SST removes its files.
RemoveSst(t) ==
    /\ up = "up" /\ where[t] = "gone" /\ t \in sst
    /\ sst' = sst \ {t}
    /\ UNCHANGED <<column, disk, manifest, log, temps, up, where, chain, marked, nextGen, jobs,
                   bgError, attach, flush, merger, comp, commit, acked, output, bounds>>

\* ~PropertyDeltaFile: a merged delta file is unlinked with its last reader.  That
\* all of them go at once is the worst case for whoever still needs one.
Referenced(f) == \/ f \in Range(chain[f.target].deltas)
                 \/ \E m \in Mergers : f \in Range(merger[m].batch)
                 \/ attach.pc = "publish" /\ f = AttachedFile

UnlinkObsolete ==
    /\ up = "up" /\ \E f \in disk : ~Referenced(f)
    /\ disk' = {f \in disk : Referenced(f)}
    /\ UNCHANGED <<column, sst, manifest, log, temps, up, where, chain, marked, nextGen, jobs,
                   bgError, attach, flush, merger, comp, commit, acked, output, bounds>>

CompactionStep == CompIdle \/ (\E t \in Targets : CompDrain(t)) \/ CompPick \/ CompPublish

-----------------------------------------------------------------------------
(* Crash and recovery.  What an SST on disk holds is found again.          *)

Crash ==
    /\ up # "down" /\ crashes < MaxCrashes
    /\ crashes' = crashes + 1
    /\ up' = "down"
    /\ where' = [t \in Targets |-> IF where[t] = "gone" THEN "gone"
                                   ELSE IF t \in sst THEN "sst" ELSE "lost"]
    /\ chain' = [t \in Targets |-> NoChain(t)]
    /\ marked' = {} /\ nextGen' = 1 /\ jobs' = <<>> /\ bgError' = FALSE
    /\ attach' = IdleAttach /\ comp' = IdleComp
    /\ flush' = [t \in Targets |-> IdleFlush]
    /\ merger' = [m \in Mergers |-> NoMerge]
    /\ UNCHANGED <<diskVars, commit, acked, output, failures, compactions>>

NextGeneration == Newest({0} \cup {e.file.gen : e \in manifest}) + 1

\* The files that OpenAndRecover opens: of an SST, or of a memtable whose SST reached the disk.
Needed == {e.file : e \in {x \in manifest : x.persistent \/ x.file.target \in sst}}

\* What the files on disk have for a row.
FilesOf(t) == {e.file : e \in {x \in manifest : x.file.target = t}}
ByGeneration(S) ==
    [i \in 1 .. Cardinality(S) |->
        CHOOSE f \in S : Cardinality({g \in S : g.gen < f.gen}) = i - 1]
OnDisk(t, k) == Lookup(column[t], ByGeneration(FilesOf(t)), k)

\* OpenAndRecover replays the manifest, truncates it behind what it could read and opens the
\* files; it fails when the replay is refused or a file is missing.  The next generation follows
\* the newest active file.  What went behind a failed append is gone: `acked` restarts there.
RecoverBegin ==
    /\ up = "down"
    /\ log # "refused" /\ Needed \subseteq disk
    /\ up' = "recovering"
    /\ nextGen' = NextGeneration
    /\ log' = "sound"
    /\ acked' = IF log = "behind"
                THEN [t \in Targets |-> [k \in Keys |-> CHOOSE c \in {acked[t][k], OnDisk(t, k)} :
                                                          c <= acked[t][k] /\ c <= OnDisk(t, k)]]
                ELSE acked
    /\ UNCHANGED <<column, sst, disk, manifest, temps, where, chain, marked, jobs, bgError, attach,
                   flush, merger, comp, commit, output, bounds>>

\* An entry of a memtable whose SST reached the disk is recorded again, as persistent.
Promotable == {e \in manifest : ~e.persistent /\ e.file.target \in sst}
Promoted(e) == (manifest \ {e}) \cup {[e EXCEPT !.persistent = TRUE]}

RecoverPromote(e) ==
    /\ up = "recovering" /\ e \in Promotable
    /\ AppendRecord(Promoted(e))
    /\ UNCHANGED <<column, sst, disk, temps, up, where, chain, marked, nextGen, jobs, bgError,
                   attach, flush, merger, comp, commit, acked, output, bounds>>

\* The others are removed by one record, once every promotion is recorded, and their files go.
Abandoned == {e \in manifest : ~e.persistent}

RecoverAbandon ==
    /\ up = "recovering" /\ Abandoned # {} /\ Promotable = {}
    /\ AppendRecord(manifest \ Abandoned)
    /\ UNCHANGED <<column, sst, disk, temps, up, where, chain, marked, nextGen, jobs, bgError,
                   attach, flush, merger, comp, commit, acked, output, bounds>>

\* One of these appends fails, and OpenAndRecover with it.
RecoverFails ==
    /\ up = "recovering" /\ failures < MaxFailures
    /\ failures' = failures + 1
    /\ \/ \E e \in Promotable : AppendFails(Promoted(e))
       \/ Abandoned # {} /\ Promotable = {} /\ AppendFails(manifest \ Abandoned)
    /\ up' = "down"
    /\ UNCHANGED <<column, sst, disk, temps, where, chain, marked, nextGen, jobs, bgError,
                   attach, flush, merger, comp, commit, acked, output, crashes, compactions>>

\* Chains are rebuilt in generation order, orphans removed, chains at the threshold scheduled.
RecoverOpen ==
    /\ up = "recovering" /\ Abandoned = {}
    /\ up' = "up"
    /\ disk' = {e.file : e \in manifest}
    /\ LET due == {t \in Targets : Cardinality(FilesOf(t)) >= Threshold}
       IN  /\ chain' = [t \in Targets |->
                          [live |-> FilesOf(t) # {}, persistent |-> FilesOf(t) # {},
                           busy |-> t \in due, base |-> column[t],
                           deltas |-> ByGeneration(FilesOf(t))]]
           /\ \E q \in [1 .. Cardinality(due) -> due] :
                 Range(q) = due /\ jobs' = q
    /\ UNCHANGED <<column, sst, manifest, log, temps, where, marked, nextGen, bgError, attach, flush,
                   merger, comp, commit, acked, output, bounds>>

Recovery == RecoverBegin \/ (\E e \in manifest : RecoverPromote(e)) \/ RecoverAbandon
            \/ RecoverFails \/ RecoverOpen

Next ==
    \/ \E t \in Targets : AttachLocate(t) \/ FlushSave(t) \/ FlushStep(t) \/ RemoveSst(t)
    \/ AttachStep
    \/ WorkerTake \/ MergeReschedule
    \/ \E m \in Mergers : MergeStep(m)
    \/ CompLock \/ CompactionStep
    \/ UnlinkObsolete
    \/ Crash \/ Recovery

Spec == Init /\ [][Next]_vars

\* Every thread that has begun something runs on, and a process that is down is restarted.
\* Nothing is assumed of the requests: no update, flush or compaction need ever begin.
Fairness ==
    /\ WF_vars(AttachStep)
    /\ \A t \in Targets : WF_vars(FlushStep(t))
    /\ WF_vars(WorkerTake \/ MergeReschedule \/ MergeStep("worker"))
    /\ WF_vars(CompactionStep \/ MergeStep("compactor"))
    /\ WF_vars(Recovery)

FairSpec == Spec /\ Fairness

-----------------------------------------------------------------------------
(* Properties.                                                             *)

Readable(t) == where[t] \in {"mem", "sst"}

\* What a reader gets for a row now, or would get after a recovery of what is on disk.
Seen(t, k) == IF up = "up" THEN Lookup(chain[t].base, chain[t].deltas, k) ELSE OnDisk(t, k)

\* No append has gone behind a failed one, and recovery finds its files.
Recoverable == log \in {"sound", "torn", "whole"} /\ Needed \subseteq disk

\* An acknowledged attachment is read until its base is compacted, through merges that
\* replace the column under it, failed merges and attachments, and a crash at any point of
\* either: by a process that runs always, after a crash when the manifest is recoverable.
AckedIsRead ==
    \A t \in Targets, k \in Keys :
        Readable(t) /\ (up = "up" \/ Recoverable) => Seen(t, k) >= acked[t][k]

\* A row never shows an older value than it did: neither a merge that publishes a new base
\* nor a recovery after a crash takes a value back that a reader may have seen.
NeverBackwards ==
    [][\A t \in Targets, k \in Keys :
          (Readable(t) /\ Readable(t)' /\ (up = "up" \/ Recoverable)') => Seen(t, k)' >= Seen(t, k)]_vars

\* A delta file is unlinked only after the manifest has dropped it, so that recovery, which
\* refuses to open without a file it needs, finds them all.  The exception is named: an append
\* that failed behind its whole record (property_delta_manifest.cpp:433), or appends behind a
\* failed one.  Nothing else, and no crash, takes a file away that recovery needs.
ManifestFilesExist == log \in {"sound", "torn"} => Needed \subseteq disk

\* A compaction reads the newest values of every input whose chain was durable when it
\* drained the chains: nothing is attached to it in between.
DrainedInputsAreMerged ==
    comp.pc = "write" =>
        \A t \in comp.inputs \cap comp.drained, k \in Keys : output[t][k] >= acked[t][k]

\* A chain that stands at the threshold when an attachment has been added to it, or while a
\* merge of it is scheduled or runs, is merged below it in the end, however many attachments
\* arrive during the merge; unless the store stops on an error.  An attachment that fails is
\* no such occasion, although it may be the one that makes the chain persistent.
MergeOccasion(t) ==
    /\ up = "up" /\ chain[t].persistent /\ Len(chain[t].deltas) >= Threshold
    /\ \/ chain[t].busy
       \/ attach.target = t /\ attach.pc \in {"schedule", "return"}

ThresholdIsMerged ==
    \A t \in Targets :
        MergeOccasion(t) ~> (bgError \/ up # "up" \/ Len(chain[t].deltas) < Threshold)

\* A compaction that took the lock gives it back, so attachments waiting for it go on.
CompactionEnds == (comp.pc # "idle") ~> (comp.pc = "idle")

\* "MergeAllPersistent ... so a compaction never consumes a stale base file": a compaction
\* consumes the newest acknowledged values of all its inputs.
CompactionSeesNewest ==
    \A t \in Targets, k \in Keys : where[t] = "gone" => output[t][k] >= acked[t][k]

\* A failed attachment leaves a store that opens again: not so when fdatasync failed behind its
\* whole entry, for its file is then unlinked.
FailedAttachRecovers == Needed \subseteq disk

\* With no failing write, merging a chain at the threshold succeeds.
NoMergeError == ~bgError
=============================================================================
