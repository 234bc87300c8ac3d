------------------------ MODULE PropertyUpdateManager ------------------------
(***************************************************************************)
(* The engine-owned buffering of property updates                          *)
(* (src/src/property_update_manager.cpp).  Client threads submit batches   *)
(* of updates into the active one of a few rotating buffers; one worker    *)
(* thread flushes full buffers in FIFO order through the flush callback,   *)
(* which attaches delta files; FlushAndWait drains everything; the         *)
(* destructor drains and stops the worker.  Readers find an update first   *)
(* in the pending map and then in the delta layer.                         *)
(*                                                                         *)
(* Everything done under mutex_ without waiting is one step.  A wait on a  *)
(* condition variable ends a step; a blocked thread goes from "wait" to    *)
(* "wake" when it is notified (or spuriously), and then runs on with the   *)
(* mutex.  The worker runs FlushBuffer without the mutex, so every         *)
(* callback and every per-bucket erase of RetirePending is a step; and the *)
(* publication of a batch, though made with the mutex, is seen key by key  *)
(* by readers and by RetirePending, so each of its keys is a step too.     *)
(*                                                                         *)
(* A value is identified by the commit sequence of its update.  A batch is *)
(* a set of updates with distinct pending keys, because UpdateNode and     *)
(* UpdateEdge build it from a map of properties.                           *)
(***************************************************************************)
EXTENDS Integers, Sequences, FiniteSets

CONSTANTS
    Submitters,       \* threads that call SubmitBatch
    Flushers,         \* threads that call FlushAndWait
    Destructor,       \* the thread that destroys the manager
    Keys,             \* pending keys: kind, shard, property, src, dst, direction, type
    Bases,            \* topology sequences an update can be based on
    Targets,          \* delta targets: base file and property column
    Batches,          \* the batches clients submit
    BatchBytes,       \* the estimated bytes of each batch
    BufferCount,      \* options_.buffer_count
    CapacityRecords,  \* options_.buffer_capacity_records
    CapacityBytes,    \* options_.buffer_capacity_bytes
    InitialCommit,    \* recovered initial_commit_sequence
    MaxCommit         \* bound: no submission starts above this commit sequence

Update == [key : Keys, base : Bases, target : Targets]
Record == [key : Keys, base : Bases, target : Targets, commit : Nat]
Buffers == 0 .. BufferCount - 1
NoBuffer == -1
BufferState == {"kFree", "kActive", "kQueued", "kFlushing", "kFailed"}
FlushThreads == Flushers \cup {Destructor}

\* The constructor throws unless these hold (property_update_manager.cpp:52).
ASSUME OptionsAssumption ==
    /\ BufferCount \in Nat /\ BufferCount >= 2
    /\ CapacityRecords \in Nat \ {0}
    /\ CapacityBytes \in Nat \ {0}
    /\ InitialCommit \in Nat
    /\ MaxCommit \in Nat

\* A batch comes from a map of properties: its updates have distinct keys.
ASSUME BatchesAssumption ==
    /\ Batches \subseteq SUBSET Update
    /\ \A B \in Batches : \A u, v \in B : u.key = v.key => u = v
    /\ BatchBytes \in [Batches -> Nat]

VARIABLES
    mgr,          \* buffers_ (state, records, bytes), active_buffer_, queued_buffers_
    nextCommit,   \* next_commit_sequence_
    pending,      \* pending_: commit 0 stands for an absent key
    delta,        \* records attached to the delta layer by the flush callback
    fatal,        \* fatal_error_ is set
    stop,         \* stop_
    closing,      \* the destructor has begun
    submitter,    \* per client thread: where it is in SubmitBatch, with which batch
    unpublished,  \* what the client in "publish", which holds mutex_, has still to publish
    flusher,      \* per flush thread: where it is in FlushAndWait
    worker,       \* where the worker is: buffer, groups to attach, records to retire
    acked,        \* history: newest commit acknowledged per key and base
    drained       \* history: commits below this were covered by a successful FlushAndWait

vars == <<mgr, nextCommit, pending, delta, fatal, stop, closing,
          submitter, unpublished, flusher, worker, acked, drained>>

NoPending == [commit |-> 0, base |-> 0]
IdleSubmitter == [pc |-> "idle", batch |-> {}]
WaitingWorker == [pc |-> "wait", buf |-> NoBuffer, groups |-> {}, left |-> {}]

Mgr == [state  : [Buffers -> BufferState],
        recs   : [Buffers -> SUBSET Record],
        bytes  : [Buffers -> Nat],
        active : Buffers \cup {NoBuffer},
        queue  : Seq(Buffers)]

TypeOK ==
    /\ mgr \in Mgr
    /\ nextCommit \in Nat \ {0}
    /\ pending \in [Keys -> [commit : Nat, base : Bases \cup {0}]]
    /\ delta \subseteq Record
    /\ fatal \in BOOLEAN /\ stop \in BOOLEAN /\ closing \in BOOLEAN
    /\ submitter \in [Submitters ->
                        [pc : {"idle", "wait1", "wake1", "wait2", "wake2", "publish"},
                         batch : Batches \cup {{}}]]
    /\ unpublished \subseteq Update
    /\ flusher \in [FlushThreads ->
                      [pc : {"idle", "wait", "wake", "stopping", "gone"},
                       from : Nat]]
    /\ worker \in [pc : {"wait", "flush", "retire", "fail", "exit"},
                   buf : Buffers \cup {NoBuffer},
                   groups : SUBSET Targets,
                   left : SUBSET Record]
    /\ acked \in [Keys \X Bases -> Nat]
    /\ drained \in Nat

FirstCommit == IF InitialCommit = 0 THEN 1 ELSE InitialCommit

Init ==
    /\ mgr = [state  |-> [i \in Buffers |-> IF i = 0 THEN "kActive" ELSE "kFree"],
              recs   |-> [i \in Buffers |-> {}],
              bytes  |-> [i \in Buffers |-> 0],
              active |-> 0,
              queue  |-> <<>>]
    /\ nextCommit = FirstCommit
    /\ pending = [k \in Keys |-> NoPending]
    /\ delta = {}
    /\ fatal = FALSE /\ stop = FALSE /\ closing = FALSE
    /\ submitter = [t \in Submitters |-> IdleSubmitter]
    /\ unpublished = {}
    /\ flusher = [f \in FlushThreads |-> [pc |-> "idle", from |-> 0]]
    /\ worker = WaitingWorker
    /\ acked = [kb \in Keys \X Bases |-> 0]
    /\ drained = 0

-----------------------------------------------------------------------------
(* Buffer rotation: functions of the state the mutex protects.             *)

FreeBuffers(m) == {i \in Buffers : m.state[i] = "kFree"}

\* for i in buffers_: the first free buffer becomes the active one.
ActivateFree(m) ==
    IF FreeBuffers(m) = {} THEN m
    ELSE LET i == CHOOSE i \in FreeBuffers(m) : \A j \in FreeBuffers(m) : i <= j
         IN  [m EXCEPT !.state[i] = "kActive", !.active = i]

\* Mutant of QueueActiveBuffer: the newest full buffer is flushed first.
QueueActiveInFront(m) ==
    IF m.active = NoBuffer THEN m
    ELSE IF m.recs[m.active] = {} THEN m
    ELSE ActivateFree([m EXCEPT !.state[m.active] = "kQueued",
                                !.queue = <<m.active>> \o @,
                                !.active = NoBuffer])

QueueActiveBuffer(m) ==
    IF m.active = NoBuffer THEN m
    ELSE IF m.recs[m.active] = {} THEN m
    ELSE ActivateFree([m EXCEPT !.state[m.active] = "kQueued",
                                !.queue = Append(@, m.active),
                                !.active = NoBuffer])

\* The batch does not fit beside what the active buffer already holds.
Overflows(m, B) ==
    /\ m.recs[m.active] # {}
    /\ \/ Cardinality(m.recs[m.active]) + Cardinality(B) > CapacityRecords
       \/ m.bytes[m.active] + BatchBytes[B] > CapacityBytes

Stamped(B, c) == {[key |-> u.key, base |-> u.base, target |-> u.target, commit |-> c] : u \in B}

\* Append the batch to the active buffer and rotate it when that fills it.
AppendBatch(m, B, c) ==
    LET n == [m EXCEPT !.recs[m.active] = @ \cup Stamped(B, c),
                       !.bytes[m.active] = @ + BatchBytes[B]]
    IN  IF \/ Cardinality(n.recs[n.active]) >= CapacityRecords
           \/ n.bytes[n.active] >= CapacityBytes
        THEN QueueActiveBuffer(n)
        ELSE n

\* Mutant of Published: insert without assigning over an existing entry.
PublishedIfAbsent(p, u, c) ==
    IF p[u.key].commit = 0 THEN [p EXCEPT ![u.key] = [commit |-> c, base |-> u.base]] ELSE p

\* PublishPending for one record, under the lock of its bucket.
Published(p, u, c) ==
    IF p[u.key].commit <= c THEN [p EXCEPT ![u.key] = [commit |-> c, base |-> u.base]] ELSE p

\* Mutant of RetireOne: erase by key, whichever update the entry belongs to.
RetireAnyCommit(p, r) == [p EXCEPT ![r.key] = NoPending]

\* RetirePending for one record: erase its key unless a newer update took it.
RetireOne(p, r) ==
    IF p[r.key].commit = r.commit THEN [p EXCEPT ![r.key] = NoPending] ELSE p

-----------------------------------------------------------------------------
(* SubmitBatch.                                                            *)

\* No client is publishing: any thread may take mutex_.
MutexFree == \A t \in Submitters : submitter[t].pc # "publish"

\* The size checks before the mutex is taken.
Admissible(B) ==
    /\ B # {}
    /\ BatchBytes[B] <= CapacityBytes
    /\ Cardinality(B) <= CapacityRecords

\* The batch gets its commit sequence; the mutex is kept until it is in the buffer.
Commit(t, B, m) ==
    /\ mgr' = m
    /\ nextCommit' = nextCommit + 1
    /\ submitter' = [submitter EXCEPT ![t] = [pc |-> "publish", batch |-> B]]
    /\ unpublished' = B
    /\ UNCHANGED <<pending, acked>>

\* EnsureActiveBuffer, called at `where` of SubmitBatch with the state m: what it
\* does when it fails or has to wait.  There is a buffer otherwise.
Fails(t, m) ==
    /\ fatal \/ stop
    /\ mgr' = m
    /\ submitter' = [submitter EXCEPT ![t] = IdleSubmitter]
    /\ UNCHANGED <<pending, nextCommit, unpublished, acked>>

Waits(t, B, m, where) ==
    /\ ~fatal /\ ~stop /\ m.active = NoBuffer
    /\ mgr' = m
    /\ submitter' = [submitter EXCEPT ![t] = [pc |-> where, batch |-> B]]
    /\ UNCHANGED <<pending, nextCommit, unpublished, acked>>

HasBuffer(m) == ~fatal /\ ~stop /\ m.active # NoBuffer

\* From the second EnsureActiveBuffer on: the fit is not checked again.
AfterRotation(t, B, m) ==
    \/ Fails(t, m)
    \/ Waits(t, B, m, "wait2")
    \/ HasBuffer(m) /\ Commit(t, B, m)

\* From the first EnsureActiveBuffer on.
AfterEntry(t, B, m) ==
    \/ Fails(t, m)
    \/ Waits(t, B, m, "wait1")
    \/ HasBuffer(m) /\ ~Overflows(m, B) /\ Commit(t, B, m)
    \/ HasBuffer(m) /\ Overflows(m, B) /\ AfterRotation(t, B, QueueActiveBuffer(m))

Unsubmitted == {t \in Submitters : submitter[t].pc # "idle"}

SubmitBatch(t, B) ==
    /\ ~closing /\ MutexFree
    /\ submitter[t].pc = "idle"
    /\ nextCommit + Cardinality(Unsubmitted) <= MaxCommit
    /\ Admissible(B)
    /\ AfterEntry(t, B, mgr)
    /\ UNCHANGED <<delta, fatal, stop, closing, flusher, worker, drained>>

\* After free_cv_.wait returns: the loop body looks for a free buffer without
\* looking at active_buffer_ again, then the loop condition is evaluated.
SubmitWake(t) ==
    /\ MutexFree
    /\ \/ submitter[t].pc = "wake1" /\ AfterEntry(t, submitter[t].batch, ActivateFree(mgr))
       \/ submitter[t].pc = "wake2" /\ AfterRotation(t, submitter[t].batch, ActivateFree(mgr))
    /\ UNCHANGED <<delta, fatal, stop, closing, flusher, worker, drained>>

\* One round of the loop over the batch.
PublishPending(t, u) ==
    /\ submitter[t].pc = "publish" /\ u \in unpublished
    /\ pending' = Published(pending, u, nextCommit - 1)
    /\ unpublished' = unpublished \ {u}
    /\ UNCHANGED <<mgr, nextCommit, delta, fatal, stop, closing,
                   submitter, flusher, worker, acked, drained>>

\* The batch enters the buffer, which is queued when that fills it, and SubmitBatch returns.
SubmitEnd(t) ==
    /\ submitter[t].pc = "publish" /\ unpublished = {}
    /\ LET B == submitter[t].batch
           c == nextCommit - 1
       IN  /\ mgr' = AppendBatch(mgr, B, c)
           /\ acked' = [kb \in Keys \X Bases |->
                           IF \E u \in B : <<u.key, u.base>> = kb THEN c ELSE acked[kb]]
    /\ submitter' = [submitter EXCEPT ![t] = IdleSubmitter]
    /\ UNCHANGED <<nextCommit, pending, delta, fatal, stop, closing,
                   unpublished, flusher, worker, drained>>

SubmitGoesOn(t) ==
    \/ \E u \in unpublished : PublishPending(t, u)
    \/ SubmitEnd(t)

Woken(s) == IF s.pc = "wait1" THEN [s EXCEPT !.pc = "wake1"]
            ELSE IF s.pc = "wait2" THEN [s EXCEPT !.pc = "wake2"]
            ELSE s

\* free_cv_ is waited on without a predicate: a spurious wakeup is seen.
SpuriousWake(t) ==
    /\ Woken(submitter[t]) # submitter[t]
    /\ submitter' = [submitter EXCEPT ![t] = Woken(@)]
    /\ UNCHANGED <<mgr, nextCommit, pending, delta, fatal, stop, closing,
                   unpublished, flusher, worker, acked, drained>>

-----------------------------------------------------------------------------
(* WorkerMain and FlushBuffer.                                             *)

\* Pop the front buffer and group its records by target.
WorkerTake ==
    /\ MutexFree
    /\ worker.pc = "wait"
    /\ mgr.queue # <<>>
    /\ LET b == Head(mgr.queue)
       IN  /\ mgr' = [mgr EXCEPT !.queue = Tail(@), !.state[b] = "kFlushing"]
           /\ worker' = [pc |-> "flush", buf |-> b,
                         groups |-> {r.target : r \in mgr.recs[b]}, left |-> {}]
    /\ UNCHANGED <<nextCommit, pending, delta, fatal, stop, closing,
                   submitter, unpublished, flusher, acked, drained>>

Group(g) == {r \in mgr.recs[worker.buf] : r.target = g}

\* flush_callback_ for one target, in the order of an unordered_map.
FlushGroup(g) ==
    /\ worker.pc = "flush" /\ g \in worker.groups
    /\ delta' = delta \cup Group(g)
    /\ worker' = IF worker.groups = {g}
                 THEN [worker EXCEPT !.pc = "retire", !.groups = {}, !.left = mgr.recs[worker.buf]]
                 ELSE [worker EXCEPT !.groups = @ \ {g}]
    /\ UNCHANGED <<mgr, nextCommit, pending, fatal, stop, closing,
                   submitter, unpublished, flusher, acked, drained>>

\* Mutant of FlushGroupFails: the callback's result is ignored.
FlushGroupFailureIgnored(g) ==
    /\ worker.pc = "flush" /\ g \in worker.groups
    /\ \E part \in SUBSET Group(g) : delta' = delta \cup part
    /\ worker' = [worker EXCEPT !.pc = "retire", !.groups = {}, !.left = mgr.recs[worker.buf]]
    /\ UNCHANGED <<mgr, nextCommit, pending, fatal, stop, closing,
                   submitter, unpublished, flusher, acked, drained>>

\* The callback fails; it may have attached part of the group (AttachPropertyDelta
\* splits it by the file every record now lives in).
FlushGroupFails(g) ==
    /\ worker.pc = "flush" /\ g \in worker.groups
    /\ \E part \in SUBSET Group(g) : delta' = delta \cup part
    /\ worker' = [worker EXCEPT !.pc = "fail", !.groups = {}]
    /\ UNCHANGED <<mgr, nextCommit, pending, fatal, stop, closing,
                   submitter, unpublished, flusher, acked, drained>>

RetirePending(r) ==
    /\ worker.pc = "retire" /\ r \in worker.left
    /\ pending' = RetireOne(pending, r)
    /\ worker' = [worker EXCEPT !.left = @ \ {r}]
    /\ UNCHANGED <<mgr, nextCommit, delta, fatal, stop, closing,
                   submitter, unpublished, flusher, acked, drained>>

\* Mutants of NotifyAll: one of the two condition variables is forgotten.
NotifyIdleOnly ==
    /\ UNCHANGED submitter
    /\ flusher' = [f \in FlushThreads |->
                     IF mgr.queue = <<>> /\ flusher[f].pc = "wait"
                     THEN [flusher[f] EXCEPT !.pc = "wake"]
                     ELSE flusher[f]]

NotifyFreeOnly ==
    /\ submitter' = [t \in Submitters |-> Woken(submitter[t])]
    /\ UNCHANGED flusher

\* free_cv_.notify_all, and idle_cv_.notify_all when nothing is queued.
NotifyAll ==
    /\ submitter' = [t \in Submitters |-> Woken(submitter[t])]
    /\ flusher' = [f \in FlushThreads |->
                     IF mgr.queue = <<>> /\ flusher[f].pc = "wait"
                     THEN [flusher[f] EXCEPT !.pc = "wake"]
                     ELSE flusher[f]]

FlushDone ==
    /\ MutexFree
    /\ worker.pc = "retire" /\ worker.left = {}
    /\ LET b == worker.buf
           m == [mgr EXCEPT !.recs[b] = {}, !.bytes[b] = 0, !.state[b] = "kFree"]
       IN  mgr' = IF m.active = NoBuffer
                  THEN [m EXCEPT !.state[b] = "kActive", !.active = b]
                  ELSE m
    /\ worker' = WaitingWorker
    /\ NotifyAll
    /\ UNCHANGED <<nextCommit, pending, delta, fatal, stop, closing, unpublished, acked, drained>>

FlushFailed ==
    /\ MutexFree
    /\ worker.pc = "fail"
    /\ mgr' = [mgr EXCEPT !.state[worker.buf] = "kFailed"]
    /\ fatal' = TRUE
    /\ worker' = WaitingWorker
    /\ NotifyAll
    /\ UNCHANGED <<nextCommit, pending, delta, stop, closing, unpublished, acked, drained>>

WorkerExit ==
    /\ MutexFree
    /\ worker.pc = "wait" /\ stop /\ mgr.queue = <<>>
    /\ worker' = [WaitingWorker EXCEPT !.pc = "exit"]
    /\ UNCHANGED <<mgr, nextCommit, pending, delta, fatal, stop, closing,
                   submitter, unpublished, flusher, acked, drained>>

WorkerStep ==
    \/ WorkerTake
    \/ \E g \in Targets : FlushGroup(g) \/ FlushGroupFails(g)
    \/ \E r \in worker.left : RetirePending(r)
    \/ FlushDone
    \/ FlushFailed
    \/ WorkerExit

-----------------------------------------------------------------------------
(* FlushAndWait and the destructor.                                        *)

\* The predicate of idle_cv_.wait without its fatal_error_ part.
Idle(m) == m.queue = <<>> /\ worker.pc \in {"wait", "exit"}

\* Where a flush thread goes when FlushAndWait returns.
Returned(f) == [pc |-> IF f = Destructor THEN "stopping" ELSE "idle", from |-> 0]

FlushReturnsFalse(f) ==
    /\ flusher' = [flusher EXCEPT ![f] = Returned(f)]
    /\ UNCHANGED <<mgr, drained>>

\* FlushAndWait, called when `from` was the next commit sequence, returns true.
FlushReturnsTrue(f, m, from) ==
    /\ mgr' = IF m.active = NoBuffer THEN ActivateFree(m) ELSE m
    /\ flusher' = [flusher EXCEPT ![f] = Returned(f)]
    /\ drained' = IF from > drained THEN from ELSE drained

FlushWaits(f, m, from) ==
    /\ mgr' = m
    /\ flusher' = [flusher EXCEPT ![f] = [pc |-> "wait", from |-> from]]
    /\ UNCHANGED drained

\* An object is destroyed only when no thread is inside one of its methods.
Quiescent ==
    /\ Unsubmitted = {}
    /\ \A f \in Flushers : flusher[f].pc = "idle"

FlushAndWait(f) ==
    /\ ~closing /\ MutexFree
    /\ flusher[f].pc = "idle"
    /\ f = Destructor => Quiescent
    /\ closing' = (f = Destructor)
    /\ LET m == QueueActiveBuffer(mgr)
       IN  \/ fatal /\ FlushReturnsFalse(f)
           \/ ~fatal /\ Idle(m) /\ FlushReturnsTrue(f, m, nextCommit)
           \/ ~fatal /\ ~Idle(m) /\ FlushWaits(f, m, nextCommit)
    /\ UNCHANGED <<nextCommit, pending, delta, fatal, stop, submitter, unpublished, worker, acked>>

FlushWake(f) ==
    /\ MutexFree
    /\ flusher[f].pc = "wake"
    /\ \/ fatal /\ FlushReturnsFalse(f)
       \/ ~fatal /\ Idle(mgr) /\ FlushReturnsTrue(f, mgr, flusher[f].from)
       \/ ~fatal /\ ~Idle(mgr) /\ FlushWaits(f, mgr, flusher[f].from)
    /\ UNCHANGED <<nextCommit, pending, delta, fatal, stop, closing, submitter, unpublished,
                   worker, acked>>

\* idle_cv_ too may wake spuriously: its predicate is then evaluated again.
SpuriousIdleWake(f) ==
    /\ flusher[f].pc = "wait"
    /\ flusher' = [flusher EXCEPT ![f].pc = "wake"]
    /\ UNCHANGED <<mgr, nextCommit, pending, delta, fatal, stop, closing,
                   submitter, unpublished, worker, acked, drained>>

\* The destructor goes on to StopWorker; its join ends it with the worker.
StopWorker ==
    /\ MutexFree
    /\ flusher[Destructor].pc = "stopping"
    /\ stop' = TRUE
    /\ flusher' = [flusher EXCEPT ![Destructor].pc = "gone"]
    /\ submitter' = [t \in Submitters |-> Woken(submitter[t])]
    /\ UNCHANGED <<mgr, nextCommit, pending, delta, fatal, closing, unpublished,
                   worker, acked, drained>>

Destroyed == worker.pc = "exit" /\ UNCHANGED vars

-----------------------------------------------------------------------------
Next ==
    \/ \E t \in Submitters, B \in Batches : SubmitBatch(t, B)
    \/ \E t \in Submitters : SubmitWake(t) \/ SubmitGoesOn(t) \/ SpuriousWake(t)
    \/ \E f \in FlushThreads : FlushAndWait(f) \/ FlushWake(f) \/ SpuriousIdleWake(f)
    \/ WorkerStep
    \/ StopWorker
    \/ Destroyed

Spec == Init /\ [][Next]_vars

\* The worker thread keeps running; a notified thread gets the mutex; a client that has
\* it goes on, and so does a destructor that has begun.  No fairness for clients or for spurious wakeups.
Fairness ==
    /\ WF_vars(WorkerStep)
    /\ \A t \in Submitters : WF_vars(SubmitWake(t)) /\ WF_vars(SubmitGoesOn(t))
    /\ \A f \in FlushThreads : WF_vars(FlushWake(f))
    /\ WF_vars(StopWorker)

FairSpec == Spec /\ Fairness

-----------------------------------------------------------------------------
(* Properties.                                                             *)

\* The hand-off of the header comment (property_update_manager.h:45-52): for every
\* acknowledged update, the pending map or the delta layer holds that update or a
\* newer one of the same key, at every moment of rotation, flush and retirement.
UpdateVisible ==
    \A k \in Keys, b \in Bases :
        acked[<<k, b>>] # 0 =>
            \/ pending[k].commit >= acked[<<k, b>>]
            \/ \E d \in delta : d.key = k /\ d.commit >= acked[<<k, b>>]

\* "A pending value is always newer than the already-published delta chain for the
\* same logical key": a pending value never hides a newer delta record.
PendingIsNewest ==
    \A k \in Keys : pending[k].commit # 0 =>
        \A d \in delta : d.key = k => d.commit <= pending[k].commit

\* "Flushes the current engine-owned property buffers" (include/richgraph/graph_db.h:172):
\* after a FlushAndWait that returned true, every update acknowledged before the call began is
\* in the delta layer, itself or a newer one of its key.
FlushBarrier ==
    \A k \in Keys, b \in Bases :
        acked[<<k, b>>] # 0 /\ acked[<<k, b>>] < drained =>
            \E d \in delta : d.key = k /\ d.commit >= acked[<<k, b>>]

\* The worker flushes in commit order: what is queued was committed before what
\* the active buffer holds and after what is being flushed.
FlushOrder ==
    /\ \A i, j \in 1 .. Len(mgr.queue) : i < j =>
          \A r \in mgr.recs[mgr.queue[i]], s \in mgr.recs[mgr.queue[j]] : r.commit < s.commit
    /\ worker.pc \in {"flush", "retire"} =>
          \A i \in 1 .. Len(mgr.queue) :
             \A r \in mgr.recs[worker.buf], s \in mgr.recs[mgr.queue[i]] : r.commit < s.commit
    /\ mgr.active # NoBuffer =>
          \A i \in 1 .. Len(mgr.queue) :
             \A r \in mgr.recs[mgr.queue[i]], s \in mgr.recs[mgr.active] : r.commit < s.commit

\* What a reader finds for a key: the pending value, else the newest delta record.
DeltaCommits(k) == {d.commit : d \in {e \in delta : e.key = k}}
Visible(k) ==
    IF pending[k].commit # 0 THEN pending[k].commit
    ELSE IF DeltaCommits(k) = {} THEN 0
    ELSE CHOOSE c \in DeltaCommits(k) : \A x \in DeltaCommits(k) : x <= c

\* The keys that the update under way has still to write.
Unwritten == {u.key : u \in unpublished}

LV == INSTANCE LatestValue
      WITH visible <- [k \in Keys |-> Visible(k)], open <- Unwritten, next <- nextCommit

\* The manager implements LatestValue: a committing SubmitBatch begins an update, each
\* PublishPending writes one of its keys, a batch is written to its end before the next
\* begins, and no rotation, flush, failure, retirement or shutdown step changes the value a
\* reader finds, in the middle of a batch either.
ImplementsLatestValue == LV!Spec

-----------------------------------------------------------------------------
(* The inductive invariant behind UpdateVisible, PendingIsNewest and the   *)
(* refinement.                                                             *)

\* active_buffer_ is a kActive buffer; queued_buffers_ holds each kQueued buffer once.
RotationOK(m) ==
    /\ m.active # NoBuffer => m.state[m.active] = "kActive"
    /\ \A i \in 1 .. Len(m.queue) : m.state[m.queue[i]] = "kQueued"
    /\ \A i, j \in 1 .. Len(m.queue) : i # j => m.queue[i] # m.queue[j]

\* The worker owns the buffer it flushes; what it no longer has to attach is attached.
WorkerOwnsBuffer ==
    /\ worker.pc \in {"flush", "retire", "fail"} =>
          worker.buf \in Buffers /\ mgr.state[worker.buf] = "kFlushing"
    /\ worker.pc = "flush" =>
          \A r \in mgr.recs[worker.buf] : r.target \in worker.groups \/ r \in delta
    /\ worker.left \subseteq delta
    /\ worker.pc # "retire" => worker.left = {}

WaitersHaveBatches == \A t \in Submitters : submitter[t].pc # "idle" => submitter[t].batch \in Batches

\* Commit sequences are handed out in order.
CommitsBelowNext ==
    /\ \A k \in Keys : pending[k].commit < nextCommit
    /\ \A kb \in Keys \X Bases : acked[kb] < nextCommit
    /\ \A i \in Buffers : \A r \in mgr.recs[i] : 0 < r.commit /\ r.commit < nextCommit
    /\ \A d \in delta : 0 < d.commit /\ d.commit < nextCommit

\* One client at a time publishes, with a buffer; its commit sequence is newer than everything
\* in the buffers, in the delta layer and acknowledged, and the keys it has published show it.
PublisherOK ==
    /\ ~MutexFree \/ unpublished = {}
    /\ \A t \in Submitters : submitter[t].pc = "publish" =>
          /\ \A s \in Submitters : submitter[s].pc = "publish" => s = t
          /\ mgr.active # NoBuffer
          /\ unpublished \subseteq submitter[t].batch
          /\ \A u \in submitter[t].batch \ unpublished : pending[u.key].commit = nextCommit - 1
          /\ 0 < nextCommit - 1
          /\ \A kb \in Keys \X Bases : acked[kb] < nextCommit - 1
          /\ \A i \in Buffers : \A r \in mgr.recs[i] : r.commit < nextCommit - 1
          /\ \A d \in delta : d.commit < nextCommit - 1

\* A layer holds commit c of key k or a newer one.
Covered(k, c) ==
    \/ pending[k].commit >= c
    \/ \E d \in delta : d.key = k /\ d.commit >= c

\* Nothing still in a buffer is ahead of what a reader finds.
BuffersCovered == \A i \in Buffers : \A r \in mgr.recs[i] : Covered(r.key, r.commit)

\* A pending value is the newest of its key anywhere.
PendingAheadOfBuffers ==
    \A k \in Keys : pending[k].commit # 0 =>
        /\ \A i \in Buffers : \A r \in mgr.recs[i] : r.key = k => r.commit <= pending[k].commit
        /\ \A b \in Bases : acked[<<k, b>>] <= pending[k].commit

IInv ==
    /\ TypeOK
    /\ RotationOK(mgr)
    /\ WorkerOwnsBuffer
    /\ WaitersHaveBatches
    /\ CommitsBelowNext
    /\ PublisherOK
    /\ BuffersCovered
    /\ PendingAheadOfBuffers
    /\ PendingIsNewest
    /\ UpdateVisible

-----------------------------------------------------------------------------
(* Liveness.                                                               *)

\* Every SubmitBatch call that has to wait for a buffer returns.
SubmitReturns == \A t \in Submitters : submitter[t].pc # "idle" ~> submitter[t].pc = "idle"

\* Every FlushAndWait call returns, and destruction ends with the worker gone.
FlushReturns ==
    /\ \A f \in Flushers : flusher[f].pc # "idle" ~> flusher[f].pc = "idle"
    /\ closing ~> worker.pc = "exit"
=============================================================================
