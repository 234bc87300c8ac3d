-------------------- MODULE PropertyUpdateManagerLemmas ---------------------
(***************************************************************************)
(* What the operations of PropertyUpdateManager do to its invariant IInv,  *)
(* for every number of clients, flush threads, buffers, keys and targets:  *)
(* rotation, commit, and the steps of the worker up to the retirement of   *)
(* what it has flushed.                                                    *)
(***************************************************************************)
EXTENDS PropertyUpdateManager, WellFoundedInduction, TLAPS

-----------------------------------------------------------------------------
(* The buffer rotation as functions of the mutex-protected state.          *)

\* The scan over buffers_ finds a first free buffer if there is one.
LEMMA FirstFree ==
    ASSUME NEW S, S \subseteq Buffers, S # {}
    PROVE  \E i \in S : \A j \in S : i <= j
<1>1. S \subseteq Nat
  BY OptionsAssumption DEF Buffers
<1>2. PICK i \in S : \A j \in S : ~(<<j, i>> \in OpToRel(<, Nat))
  BY <1>1, NatLessThanWellFounded, WFMin
<1>3. \A j \in S : ~(j < i)
  BY <1>1, <1>2 DEF OpToRel
<1> QED BY <1>1, <1>3

\* m differs from n only in which buffers wait, are active or are free.
Rotated(m, n) ==
    /\ n \in Mgr
    /\ RotationOK(n)
    /\ n.recs = m.recs
    /\ \A i \in Buffers : m.state[i] = "kFlushing" <=> n.state[i] = "kFlushing"

\* Taking the first free buffer keeps the rotation consistent and moves no record.
LEMMA ActivateFreeRotates ==
    ASSUME NEW m \in Mgr, RotationOK(m)
    PROVE  Rotated(m, ActivateFree(m))
<1>1. CASE FreeBuffers(m) = {}
  BY <1>1 DEF ActivateFree, Rotated
<1>2. CASE FreeBuffers(m) # {}
  <2> DEFINE i == CHOOSE i \in FreeBuffers(m) : \A j \in FreeBuffers(m) : i <= j
             n == [m EXCEPT !.state[i] = "kActive", !.active = i]
  <2>1. i \in FreeBuffers(m)
    <3>1. \E k \in FreeBuffers(m) : \A j \in FreeBuffers(m) : k <= j
      BY <1>2, FirstFree DEF FreeBuffers
    <3> QED BY <3>1
  <2>2. i \in Buffers /\ m.state[i] = "kFree"
    BY <2>1 DEF FreeBuffers
  <2>3. ActivateFree(m) = n
    BY <1>2 DEF ActivateFree
  <2> HIDE DEF i
  <2>4. /\ n.state = [m.state EXCEPT ![i] = "kActive"]
        /\ n.active = i /\ n.recs = m.recs /\ n.queue = m.queue
    BY <2>2 DEF Mgr
  <2>5. n \in Mgr
    BY <2>2 DEF Mgr, BufferState
  <2>6. \A j \in 1 .. Len(m.queue) : m.queue[j] \in Buffers
    BY DEF Mgr
  <2>7. \A j \in Buffers : n.state[j] = IF j = i THEN "kActive" ELSE m.state[j]
    BY <2>2, <2>4 DEF Mgr
  <2>8. RotationOK(n)
    BY <2>2, <2>4, <2>6, <2>7 DEF RotationOK
  <2> QED BY <2>2, <2>3, <2>4, <2>5, <2>7, <2>8 DEF Rotated
<1> QED BY <1>1, <1>2

\* Queueing the active buffer does too.
LEMMA QueueActiveRotates ==
    ASSUME NEW m \in Mgr, RotationOK(m)
    PROVE  Rotated(m, QueueActiveBuffer(m))
<1>1. CASE m.active = NoBuffer \/ (m.active # NoBuffer /\ m.recs[m.active] = {})
  BY <1>1 DEF QueueActiveBuffer, Rotated
<1>2. CASE m.active # NoBuffer /\ m.recs[m.active] # {}
  <2> DEFINE a == m.active
             n == [m EXCEPT !.state[m.active] = "kQueued",
                            !.queue = Append(@, m.active),
                            !.active = NoBuffer]
  <2>1. a \in Buffers /\ m.state[a] = "kActive"
    BY <1>2 DEF Mgr, RotationOK
  <2>2. QueueActiveBuffer(m) = ActivateFree(n)
    BY <1>2 DEF QueueActiveBuffer
  <2>3. m.queue \in Seq(Buffers)
    BY DEF Mgr
  <2>4. /\ n.state = [m.state EXCEPT ![a] = "kQueued"]
        /\ n.active = NoBuffer /\ n.recs = m.recs /\ n.queue = Append(m.queue, a)
    BY DEF Mgr
  <2>5. n \in Mgr
    <3>1. [m.state EXCEPT ![a] = "kQueued"] \in [Buffers -> BufferState]
      BY <2>1 DEF Mgr, BufferState
    <3>2. Append(m.queue, a) \in Seq(Buffers)
      BY <2>1, <2>3
    <3> QED BY <3>1, <3>2 DEF Mgr
  <2>6. \A j \in Buffers : n.state[j] = IF j = a THEN "kQueued" ELSE m.state[j]
    BY <2>1, <2>4 DEF Mgr
  <2>7. /\ Len(n.queue) = Len(m.queue) + 1
        /\ \A j \in 1 .. Len(m.queue) : n.queue[j] = m.queue[j] /\ m.queue[j] \in Buffers
        /\ n.queue[Len(m.queue) + 1] = a
        /\ Len(m.queue) \in Nat
    BY <2>1, <2>3, <2>4
  <2>8. \A j \in 1 .. Len(m.queue) : m.queue[j] # a
    BY <2>1 DEF RotationOK
  <2>9. RotationOK(n)
    BY <2>4, <2>6, <2>7, <2>8, <2>1 DEF RotationOK
  <2>10. Rotated(n, ActivateFree(n))
    BY <2>5, <2>9, ActivateFreeRotates
  <2> QED
    BY <2>1, <2>2, <2>4, <2>6, <2>10 DEF Rotated
<1> QED BY <1>1, <1>2

\* What the append of a batch to the active buffer does, rotation included.
LEMMA AppendBatchAdds ==
    ASSUME NEW m \in Mgr, RotationOK(m), m.active # NoBuffer,
           NEW B \in Batches, NEW c \in Nat
    PROVE  /\ AppendBatch(m, B, c) \in Mgr
           /\ RotationOK(AppendBatch(m, B, c))
           /\ AppendBatch(m, B, c).recs = [m.recs EXCEPT ![m.active] = @ \cup Stamped(B, c)]
           /\ \A i \in Buffers : m.state[i] = "kFlushing" <=>
                                 AppendBatch(m, B, c).state[i] = "kFlushing"
<1> DEFINE n == [m EXCEPT !.recs[m.active] = @ \cup Stamped(B, c),
                          !.bytes[m.active] = @ + BatchBytes[B]]
<1>1. m.active \in Buffers /\ BatchBytes[B] \in Nat
  BY BatchesAssumption DEF Mgr
<1>2. Stamped(B, c) \subseteq Record
  BY BatchesAssumption DEF Stamped, Update, Record
<1>3. /\ n.state = m.state /\ n.active = m.active /\ n.queue = m.queue
      /\ n.recs = [m.recs EXCEPT ![m.active] = @ \cup Stamped(B, c)]
  BY DEF Mgr
<1>4. n \in Mgr
  <2>1. [m.recs EXCEPT ![m.active] = @ \cup Stamped(B, c)] \in [Buffers -> SUBSET Record]
    BY <1>1, <1>2 DEF Mgr
  <2>2. [m.bytes EXCEPT ![m.active] = @ + BatchBytes[B]] \in [Buffers -> Nat]
    BY <1>1 DEF Mgr
  <2> QED BY <2>1, <2>2 DEF Mgr
<1>5. RotationOK(n)
  BY <1>3 DEF RotationOK
<1>6. Rotated(n, QueueActiveBuffer(n))
  BY <1>4, <1>5, QueueActiveRotates
<1> HIDE DEF n
<1>7. AppendBatch(m, B, c) \in {n, QueueActiveBuffer(n)}
  BY DEF AppendBatch, n
<1> QED BY <1>3, <1>4, <1>5, <1>6, <1>7 DEF Rotated

-----------------------------------------------------------------------------
(* The steps of SubmitBatch.                                               *)

\* Nobody publishes and nothing is left to publish: PublisherOK asks no more.
LEMMA FreeMutexPublisher ==
    ASSUME MutexFree, unpublished = {}
    PROVE  PublisherOK
  BY DEF MutexFree, PublisherOK

\* Waiting, waking and returning threads do not publish.
LEMMA StillFree ==
    ASSUME TypeOK, PublisherOK, MutexFree, UNCHANGED unpublished,
           \A t \in Submitters : submitter'[t].pc # "publish"
    PROVE  PublisherOK'
<1>1. unpublished' = {} /\ MutexFree'
  BY DEF PublisherOK, MutexFree
<1> QED BY <1>1 DEF MutexFree, PublisherOK

\* A step that only rotates buffers keeps the invariant.
LEMMA RotationKeepsIInv ==
    ASSUME IInv, Rotated(mgr, mgr'), TypeOK', WaitersHaveBatches', PublisherOK',
           UNCHANGED <<pending, nextCommit, acked, delta, worker>>
    PROVE  IInv'
<1> USE DEF IInv
<1>1. mgr'.recs = mgr.recs /\ RotationOK(mgr')
  BY DEF Rotated
<1>2. WorkerOwnsBuffer'
  BY <1>1 DEF WorkerOwnsBuffer, Rotated
<1>3. CommitsBelowNext'
  BY <1>1 DEF CommitsBelowNext
<1>4. BuffersCovered'
  BY <1>1 DEF BuffersCovered, Covered
<1>5. PendingAheadOfBuffers' /\ PendingIsNewest' /\ UpdateVisible'
  BY <1>1 DEF PendingAheadOfBuffers, PendingIsNewest, UpdateVisible
<1> QED BY <1>1, <1>2, <1>3, <1>4, <1>5

\* Taking a commit sequence keeps it: the sequence is newer than every other.
LEMMA CommitKeepsIInv ==
    ASSUME IInv, MutexFree, NEW t \in Submitters, NEW B \in Batches, NEW m,
           Rotated(mgr, m), m.active # NoBuffer, Commit(t, B, m),
           UNCHANGED <<delta, fatal, stop, closing, flusher, worker, drained>>
    PROVE  IInv'
<1> USE DEF IInv
<1>1. m \in Mgr /\ RotationOK(m) /\ m.recs = mgr.recs
  BY DEF Rotated
<1>2. nextCommit \in Nat /\ nextCommit # 0 /\ nextCommit' = nextCommit + 1
  BY DEF TypeOK, Commit
<1>3. /\ mgr' = m /\ unpublished' = B
      /\ UNCHANGED <<pending, acked>>
      /\ submitter' = [submitter EXCEPT ![t] = [pc |-> "publish", batch |-> B]]
  BY DEF Commit
<1>4. \A s \in Submitters : submitter'[s] = IF s = t THEN [pc |-> "publish", batch |-> B]
                                            ELSE submitter[s]
  BY <1>3 DEF TypeOK
<1>5. TypeOK'
  <2>1. submitter' \in [Submitters -> [pc : {"idle", "wait1", "wake1", "wait2", "wake2", "publish"},
                                      batch : Batches \cup {{}}]]
    BY <1>3 DEF TypeOK
  <2>2. unpublished' \subseteq Update
    BY <1>3, BatchesAssumption
  <2> QED BY <1>1, <1>2, <1>3, <2>1, <2>2 DEF TypeOK
<1>6. WorkerOwnsBuffer'
  BY <1>1, <1>3 DEF WorkerOwnsBuffer, Rotated
<1>7. WaitersHaveBatches'
  BY <1>4 DEF WaitersHaveBatches
<1>8. CommitsBelowNext'
  <2>1. \A k \in Keys : pending'[k].commit < nextCommit'
    BY <1>2, <1>3 DEF CommitsBelowNext, TypeOK
  <2>2. \A kb \in Keys \X Bases : acked'[kb] < nextCommit'
    BY <1>2, <1>3 DEF CommitsBelowNext, TypeOK
  <2>3. \A i \in Buffers : \A r \in mgr'.recs[i] : 0 < r.commit /\ r.commit < nextCommit'
    BY <1>1, <1>2, <1>3 DEF CommitsBelowNext, TypeOK, Mgr, Record
  <2>4. \A d \in delta : 0 < d.commit /\ d.commit < nextCommit'
    BY <1>2 DEF CommitsBelowNext, TypeOK, Record
  <2> QED BY <2>1, <2>2, <2>3, <2>4 DEF CommitsBelowNext
<1>9. BuffersCovered' /\ PendingAheadOfBuffers'
  BY <1>1, <1>3 DEF BuffersCovered, Covered, PendingAheadOfBuffers
<1>10. PendingIsNewest' /\ UpdateVisible'
  BY <1>3 DEF PendingIsNewest, UpdateVisible
<1>11. PublisherOK'
  <2>1. \A s \in Submitters : submitter'[s].pc = "publish" => s = t
    BY <1>4 DEF MutexFree
  <2>2. submitter'[t].pc = "publish" /\ submitter'[t].batch = B
    BY <1>4
  <2>3. ~MutexFree'
    BY <2>2 DEF MutexFree
  <2>4. nextCommit' - 1 = nextCommit
    BY <1>2
  <2>5. /\ \A kb \in Keys \X Bases : acked'[kb] < nextCommit
        /\ \A i \in Buffers : \A r \in mgr'.recs[i] : r.commit < nextCommit
        /\ \A d \in delta' : d.commit < nextCommit
    BY <1>1, <1>3 DEF CommitsBelowNext
  <2> QED BY <1>2, <1>3, <2>1, <2>2, <2>3, <2>4, <2>5 DEF PublisherOK
<1> QED BY <1>1, <1>3, <1>5, <1>6, <1>7, <1>8, <1>9, <1>10, <1>11

\* What a reader or the worker meets while client t publishes.
LEMMA WhilePublishing ==
    ASSUME IInv, NEW t \in Submitters, submitter[t].pc = "publish"
    PROVE  /\ submitter[t].batch \in Batches /\ submitter[t].batch \subseteq Update
           /\ nextCommit - 1 \in Nat /\ 0 < nextCommit - 1
           /\ mgr \in Mgr /\ mgr.active # NoBuffer
           /\ unpublished \subseteq submitter[t].batch
           /\ \A s \in Submitters : submitter[s].pc = "publish" => s = t
           /\ \A kb \in Keys \X Bases : acked[kb] \in Nat /\ acked[kb] < nextCommit - 1
           /\ \A i \in Buffers : \A r \in mgr.recs[i] : r \in Record /\ r.commit < nextCommit - 1
           /\ \A d \in delta : d \in Record /\ d.commit < nextCommit - 1
           /\ \A k \in Keys : pending[k].commit \in Nat /\ pending[k].commit <= nextCommit - 1
<1> USE DEF IInv
<1>1. submitter[t].batch \in Batches
  BY DEF WaitersHaveBatches
<1>2. nextCommit \in Nat /\ 0 < nextCommit - 1
  BY DEF TypeOK, PublisherOK
<1>3. \A k \in Keys : pending[k].commit \in Nat /\ pending[k].commit < nextCommit
  BY DEF TypeOK, CommitsBelowNext
<1>4. /\ mgr \in Mgr /\ mgr.active # NoBuffer
      /\ unpublished \subseteq submitter[t].batch
      /\ \A s \in Submitters : submitter[s].pc = "publish" => s = t
      /\ \A kb \in Keys \X Bases : acked[kb] \in Nat /\ acked[kb] < nextCommit - 1
      /\ \A i \in Buffers : \A r \in mgr.recs[i] : r.commit < nextCommit - 1
      /\ \A d \in delta : d \in Record /\ d.commit < nextCommit - 1
  BY DEF TypeOK, PublisherOK
<1>5. \A i \in Buffers : mgr.recs[i] \subseteq Record
  BY DEF TypeOK, Mgr
<1>6. \A k \in Keys : pending[k].commit <= nextCommit - 1
  BY <1>2, <1>3
<1> QED BY <1>1, <1>2, <1>3, <1>4, <1>5, <1>6, BatchesAssumption

\* What publishing one update does to the pending map.
LEMMA PublishSets ==
    ASSUME IInv, NEW t \in Submitters, NEW u \in unpublished, PublishPending(t, u)
    PROVE  /\ u \in Update /\ u.key \in Keys
           /\ pending' = [pending EXCEPT ![u.key] = [commit |-> nextCommit - 1, base |-> u.base]]
           /\ \A k \in Keys : pending'[k] = IF k = u.key
                                           THEN [commit |-> nextCommit - 1, base |-> u.base]
                                           ELSE pending[k]
<1>1. submitter[t].pc = "publish"
  BY DEF PublishPending
<1>2. u \in Update /\ u.key \in Keys /\ pending \in [Keys -> [commit : Nat, base : Bases \cup {0}]]
  BY DEF IInv, TypeOK, Update
<1>3. pending[u.key].commit <= nextCommit - 1
  BY <1>1, <1>2, WhilePublishing
<1>4. pending' = [pending EXCEPT ![u.key] = [commit |-> nextCommit - 1, base |-> u.base]]
  BY <1>3 DEF PublishPending, Published
<1> QED BY <1>2, <1>4

\* Publishing one update keeps it: readers go from an older value to a newer one.
LEMMA PublishKeepsIInv ==
    ASSUME IInv, NEW t \in Submitters, NEW u \in unpublished, PublishPending(t, u)
    PROVE  IInv'
<1> USE DEF IInv
<1> DEFINE c == nextCommit - 1
<1>1. submitter[t].pc = "publish"
  BY DEF PublishPending
<1>2. /\ UNCHANGED <<mgr, nextCommit, delta, fatal, stop, closing, submitter, flusher, worker, acked,
                     drained>>
      /\ unpublished' = unpublished \ {u}
  BY DEF PublishPending
<1>3. /\ u \in Update /\ u.key \in Keys
      /\ pending' = [pending EXCEPT ![u.key] = [commit |-> c, base |-> u.base]]
      /\ \A k \in Keys : pending'[k] = IF k = u.key THEN [commit |-> c, base |-> u.base]
                                       ELSE pending[k]
  BY PublishSets
<1>4. c \in Nat /\ 0 < c /\ c < nextCommit
  BY <1>1, WhilePublishing DEF TypeOK
<1>5. TypeOK'
  <2>1. [commit |-> c, base |-> u.base] \in [commit : Nat, base : Bases \cup {0}]
    BY <1>3, <1>4 DEF Update
  <2>2. pending' \in [Keys -> [commit : Nat, base : Bases \cup {0}]]
    BY <1>3, <2>1 DEF TypeOK
  <2>3. unpublished' \subseteq Update
    BY <1>2 DEF TypeOK
  <2> QED BY <1>2, <2>2, <2>3 DEF TypeOK
<1>6. RotationOK(mgr') /\ WorkerOwnsBuffer' /\ WaitersHaveBatches'
  BY <1>2 DEF WorkerOwnsBuffer, WaitersHaveBatches
<1>7. \A k \in Keys : pending'[k].commit = IF k = u.key THEN c ELSE pending[k].commit
  BY <1>3
<1>8. \A k \in Keys : pending[k].commit \in Nat /\ pending[k].commit <= pending'[k].commit
  BY <1>1, <1>4, <1>7, WhilePublishing
<1>9. CommitsBelowNext'
  <2>1. \A k \in Keys : pending'[k].commit < nextCommit'
    BY <1>2, <1>4, <1>7 DEF CommitsBelowNext
  <2> QED BY <1>2, <2>1 DEF CommitsBelowNext
<1>10. ASSUME NEW k \in Keys, NEW x \in Nat, Covered(k, x) PROVE Covered(k, x)'
  <2>1. CASE pending[k].commit >= x
    <3>1. pending'[k].commit >= x
      BY <1>4, <1>7, <1>8, <2>1
    <3> QED BY <3>1 DEF Covered
  <2>2. CASE \E d \in delta : d.key = k /\ d.commit >= x
    BY <1>2, <2>2 DEF Covered
  <2> QED BY <1>10, <2>1, <2>2 DEF Covered
<1>11. BuffersCovered'
  <2>1. \A i \in Buffers : \A r \in mgr.recs[i] : r.key \in Keys /\ r.commit \in Nat
    BY DEF TypeOK, Mgr, Record
  <2> QED BY <1>2, <1>10, <2>1 DEF BuffersCovered
<1>12. PendingAheadOfBuffers'
  <2> SUFFICES ASSUME NEW k \in Keys, pending'[k].commit # 0
               PROVE  /\ \A i \in Buffers : \A r \in mgr.recs[i] :
                              r.key = k => r.commit <= pending'[k].commit
                      /\ \A b \in Bases : acked[<<k, b>>] <= pending'[k].commit
    BY <1>2 DEF PendingAheadOfBuffers
  <2>1. CASE k = u.key
    <3>1. pending'[k].commit = c
      BY <1>7, <2>1
    <3>2. \A i \in Buffers : \A r \in mgr.recs[i] : r.commit \in Nat /\ r.commit < c
      BY <1>1, WhilePublishing DEF Record
    <3>3. \A b \in Bases : acked[<<k, b>>] \in Nat /\ acked[<<k, b>>] < c
      <4>1. \A b \in Bases : <<k, b>> \in Keys \X Bases
        OBVIOUS
      <4> QED BY <1>1, <4>1, WhilePublishing
    <3> QED BY <1>4, <3>1, <3>2, <3>3
  <2>2. CASE k # u.key
    BY <1>7, <2>2 DEF PendingAheadOfBuffers
  <2> QED BY <2>1, <2>2
<1>13. PendingIsNewest'
  <2> SUFFICES ASSUME NEW k \in Keys, pending'[k].commit # 0, NEW d \in delta, d.key = k
               PROVE  d.commit <= pending'[k].commit
    BY <1>2 DEF PendingIsNewest
  <2>1. CASE k = u.key
    <3>1. d \in Record /\ d.commit < c
      BY <1>1, WhilePublishing
    <3> QED BY <1>4, <1>7, <2>1, <3>1 DEF Record
  <2>2. CASE k # u.key
    BY <1>7, <2>2 DEF PendingIsNewest
  <2> QED BY <2>1, <2>2
<1>14. UpdateVisible'
  <2> SUFFICES ASSUME NEW k \in Keys, NEW b \in Bases, acked[<<k, b>>] # 0
               PROVE  \/ pending'[k].commit >= acked[<<k, b>>]
                      \/ \E d \in delta : d.key = k /\ d.commit >= acked[<<k, b>>]
    BY <1>2 DEF UpdateVisible
  <2>1. <<k, b>> \in Keys \X Bases
    OBVIOUS
  <2>2. acked[<<k, b>>] \in Nat
    BY <2>1 DEF TypeOK
  <2>3. pending'[k].commit \in Nat
    BY <1>4, <1>7, <1>8
  <2> QED BY <1>8, <2>2, <2>3 DEF UpdateVisible
<1>15. PublisherOK'
  <2>1. ~MutexFree'
    BY <1>1, <1>2 DEF MutexFree
  <2>2. ASSUME NEW s \in Submitters, submitter'[s].pc = "publish"
        PROVE  /\ \A x \in Submitters : submitter'[x].pc = "publish" => x = s
               /\ mgr'.active # NoBuffer
               /\ unpublished' \subseteq submitter'[s].batch
               /\ \A v \in submitter'[s].batch \ unpublished' :
                     pending'[v.key].commit = nextCommit' - 1
               /\ 0 < nextCommit' - 1
               /\ \A kb \in Keys \X Bases : acked'[kb] < nextCommit' - 1
               /\ \A i \in Buffers : \A r \in mgr'.recs[i] : r.commit < nextCommit' - 1
               /\ \A d \in delta' : d.commit < nextCommit' - 1
    <3>1. s = t
      BY <1>1, <1>2, <2>2, WhilePublishing
    <3>2. ASSUME NEW v \in submitter[t].batch \ unpublished' PROVE pending'[v.key].commit = c
      <4>1. v.key \in Keys
        BY <1>1, WhilePublishing DEF Update
      <4>2. CASE v = u
        BY <1>7, <4>1, <4>2
      <4>3. CASE v # u
        <5>1. v \in submitter[t].batch \ unpublished
          BY <1>2, <3>2, <4>3
        <5>2. pending[v.key].commit = c
          BY <1>1, <5>1 DEF PublisherOK
        <5> QED BY <1>7, <4>1, <5>2
      <4> QED BY <4>2, <4>3
    <3>3. unpublished' \subseteq submitter[t].batch /\ mgr.active # NoBuffer
          /\ (\A x \in Submitters : submitter[x].pc = "publish" => x = t)
      BY <1>1, <1>2, WhilePublishing
    <3>4. /\ \A kb \in Keys \X Bases : acked[kb] < nextCommit - 1
          /\ \A i \in Buffers : \A r \in mgr.recs[i] : r.commit < nextCommit - 1
          /\ \A d \in delta : d.commit < nextCommit - 1
      BY <1>1 DEF PublisherOK
    <3> QED BY <1>2, <1>4, <3>1, <3>2, <3>3, <3>4
  <2> QED BY <2>1, <2>2 DEF PublisherOK
<1> QED BY <1>5, <1>6, <1>9, <1>11, <1>12, <1>13, <1>14, <1>15

\* The published batch enters the buffer and is acknowledged.
LEMMA SubmitEndKeepsIInv ==
    ASSUME IInv, NEW t \in Submitters, SubmitEnd(t)
    PROVE  IInv'
<1> USE DEF IInv
<1> DEFINE B == submitter[t].batch
           c == nextCommit - 1
<1>1. submitter[t].pc = "publish" /\ unpublished = {} /\ mgr' = AppendBatch(mgr, B, c)
  BY DEF SubmitEnd
<1>2. /\ UNCHANGED <<nextCommit, pending, delta, fatal, stop, closing, unpublished, flusher,
                     worker, drained>>
      /\ submitter' = [submitter EXCEPT ![t] = IdleSubmitter]
      /\ acked' = [kb \in Keys \X Bases |->
                      IF \E u \in B : <<u.key, u.base>> = kb THEN c ELSE acked[kb]]
  BY DEF SubmitEnd
<1>3. /\ B \in Batches /\ B \subseteq Update
      /\ c \in Nat /\ 0 < c /\ c < nextCommit
      /\ mgr \in Mgr /\ mgr.active # NoBuffer
      /\ \A u \in B : pending[u.key].commit = c
      /\ \A s \in Submitters : submitter[s].pc = "publish" => s = t
  <2>1. /\ B \in Batches /\ B \subseteq Update /\ c \in Nat /\ 0 < c
        /\ mgr \in Mgr /\ mgr.active # NoBuffer
        /\ \A s \in Submitters : submitter[s].pc = "publish" => s = t
    BY <1>1, WhilePublishing
  <2>2. c < nextCommit
    BY DEF TypeOK
  <2>3. \A u \in B \ unpublished : pending[u.key].commit = c
    BY <1>1 DEF PublisherOK
  <2> QED BY <1>1, <2>1, <2>2, <2>3
<1> HIDE DEF B, c
<1>4. mgr.active \in Buffers /\ mgr.state[mgr.active] = "kActive"
  BY <1>3 DEF Mgr, RotationOK
<1>5. /\ mgr' \in Mgr /\ RotationOK(mgr')
      /\ mgr'.recs = [mgr.recs EXCEPT ![mgr.active] = @ \cup Stamped(B, c)]
      /\ \A i \in Buffers : mgr.state[i] = "kFlushing" <=> mgr'.state[i] = "kFlushing"
  <2>1. RotationOK(mgr)
    OBVIOUS
  <2> HIDE DEF IInv
  <2> QED BY <1>1, <1>3, <2>1, AppendBatchAdds
<1>6. \A i \in Buffers : mgr'.recs[i] =
          IF i = mgr.active THEN mgr.recs[i] \cup Stamped(B, c) ELSE mgr.recs[i]
  BY <1>3, <1>4, <1>5 DEF Mgr
<1>7. \A r \in Stamped(B, c) : r.commit = c /\ r.key \in Keys /\ pending[r.key].commit = c
  BY <1>3 DEF Stamped, Update
<1>8. ASSUME NEW i \in Buffers, NEW r \in mgr'.recs[i]
      PROVE  r \in mgr.recs[i] \/ r \in Stamped(B, c)
  BY <1>6, <1>8, ZenonT(30)
<1>9. \A k \in Keys, b \in Bases :
        acked'[<<k, b>>] = IF \E u \in B : u.key = k /\ u.base = b THEN c ELSE acked[<<k, b>>]
  <2>1. \A k \in Keys, b \in Bases : <<k, b>> \in Keys \X Bases
    OBVIOUS
  <2> QED BY <1>2, <2>1
<1>10. \A s \in Submitters : submitter'[s] = IF s = t THEN IdleSubmitter ELSE submitter[s]
  BY <1>2 DEF TypeOK
<1>11. TypeOK'
  <2>1. acked' \in [Keys \X Bases -> Nat]
    BY <1>2, <1>3 DEF TypeOK
  <2>2. submitter' \in [Submitters -> [pc : {"idle", "wait1", "wake1", "wait2", "wake2", "publish"},
                                      batch : Batches \cup {{}}]]
    BY <1>2 DEF TypeOK, IdleSubmitter
  <2> QED BY <1>2, <1>5, <2>1, <2>2 DEF TypeOK
<1>12. WorkerOwnsBuffer'
  <2>1. worker.pc \in {"flush", "retire", "fail"} =>
            mgr'.state[worker.buf] = "kFlushing" /\ worker.buf # mgr.active
    BY <1>4, <1>5 DEF WorkerOwnsBuffer
  <2> QED BY <1>2, <1>6, <2>1 DEF WorkerOwnsBuffer
<1>13. WaitersHaveBatches'
  BY <1>10 DEF WaitersHaveBatches, IdleSubmitter
<1>14. CommitsBelowNext'
  <2>1. \A kb \in Keys \X Bases : acked'[kb] < nextCommit'
    BY <1>2, <1>3 DEF CommitsBelowNext, TypeOK
  <2>2. ASSUME NEW i \in Buffers, NEW r \in mgr'.recs[i]
        PROVE  0 < r.commit /\ r.commit < nextCommit'
    <3>1. CASE r \in mgr.recs[i]
      BY <1>2, <3>1 DEF CommitsBelowNext
    <3>2. CASE r \in Stamped(B, c)
      BY <1>2, <1>3, <1>7, <3>2
    <3> QED BY <1>8, <3>1, <3>2
  <2>3. \A k \in Keys : pending'[k].commit < nextCommit'
    BY <1>2 DEF CommitsBelowNext
  <2>4. \A d \in delta' : 0 < d.commit /\ d.commit < nextCommit'
    BY <1>2 DEF CommitsBelowNext
  <2> QED BY <2>1, <2>2, <2>3, <2>4 DEF CommitsBelowNext
<1>15. BuffersCovered'
  <2> SUFFICES ASSUME NEW i \in Buffers, NEW r \in mgr'.recs[i]
               PROVE  Covered(r.key, r.commit)
    BY <1>2 DEF BuffersCovered, Covered
  <2>1. CASE r \in mgr.recs[i]
    BY <2>1 DEF BuffersCovered
  <2>2. CASE r \in Stamped(B, c)
    BY <1>3, <1>7, <2>2 DEF Covered
  <2> QED BY <1>8, <2>1, <2>2
<1>16. PendingAheadOfBuffers'
  <2> SUFFICES ASSUME NEW k \in Keys, pending[k].commit # 0
               PROVE  /\ \A i \in Buffers : \A r \in mgr'.recs[i] :
                              r.key = k => r.commit <= pending[k].commit
                      /\ \A b \in Bases : acked'[<<k, b>>] <= pending[k].commit
    BY <1>2 DEF PendingAheadOfBuffers
  <2>1. ASSUME NEW i \in Buffers, NEW r \in mgr'.recs[i], r.key = k
        PROVE  r.commit <= pending[k].commit
    <3>1. CASE r \in mgr.recs[i]
      BY <2>1, <3>1 DEF PendingAheadOfBuffers
    <3>2. CASE r \in Stamped(B, c)
      BY <1>3, <1>7, <2>1, <3>2
    <3> QED BY <1>8, <3>1, <3>2
  <2>2. ASSUME NEW b \in Bases PROVE acked'[<<k, b>>] <= pending[k].commit
    <3>1. CASE \E u \in B : u.key = k /\ u.base = b
      BY <1>3, <1>9, <3>1
    <3>2. CASE ~\E u \in B : u.key = k /\ u.base = b
      BY <1>9, <3>2 DEF PendingAheadOfBuffers
    <3> QED BY <3>1, <3>2
  <2> QED BY <2>1, <2>2
<1>17. PendingIsNewest'
  BY <1>2 DEF PendingIsNewest
<1>18. UpdateVisible'
  <2> SUFFICES ASSUME NEW k \in Keys, NEW b \in Bases, acked'[<<k, b>>] # 0
               PROVE  \/ pending[k].commit >= acked'[<<k, b>>]
                      \/ \E d \in delta : d.key = k /\ d.commit >= acked'[<<k, b>>]
    BY <1>2 DEF UpdateVisible
  <2>1. CASE \E u \in B : u.key = k /\ u.base = b
    <3>1. acked'[<<k, b>>] = c /\ pending[k].commit = c
      BY <1>3, <1>9, <2>1
    <3> HIDE DEF IInv
    <3> QED BY <1>3, <3>1
  <2>2. CASE ~\E u \in B : u.key = k /\ u.base = b
    BY <1>9, <2>2 DEF UpdateVisible
  <2> QED BY <2>1, <2>2
<1>19. PublisherOK'
  <2>1. \A s \in Submitters : submitter'[s].pc # "publish"
    BY <1>3, <1>10 DEF IdleSubmitter
  <2> QED BY <1>1, <1>2, <2>1 DEF PublisherOK, MutexFree
<1> QED BY <1>5, <1>11, <1>12, <1>13, <1>14, <1>15, <1>16, <1>17, <1>18, <1>19

\* EnsureActiveBuffer failing or waiting keeps it.
LEMMA NoCommitKeepsIInv ==
    ASSUME IInv, MutexFree, NEW t \in Submitters, NEW B \in Batches, NEW m, NEW where \in {"wait1", "wait2"},
           Rotated(mgr, m), Fails(t, m) \/ Waits(t, B, m, where),
           UNCHANGED <<delta, fatal, stop, closing, flusher, worker, drained>>
    PROVE  IInv'
<1> USE DEF IInv
<1>1. /\ mgr' = m /\ UNCHANGED <<pending, nextCommit, unpublished, acked>>
      /\ \/ submitter' = [submitter EXCEPT ![t] = IdleSubmitter]
         \/ submitter' = [submitter EXCEPT ![t] = [pc |-> where, batch |-> B]]
  BY DEF Fails, Waits
<1>2. TypeOK'
  <2>1. mgr' \in Mgr
    BY <1>1 DEF Rotated
  <2>2. submitter' \in [Submitters -> [pc : {"idle", "wait1", "wake1", "wait2", "wake2", "publish"},
                                      batch : Batches \cup {{}}]]
    BY <1>1 DEF TypeOK, IdleSubmitter
  <2> QED BY <1>1, <2>1, <2>2, SMTT(30) DEF TypeOK
<1>3. WaitersHaveBatches'
  BY <1>1 DEF WaitersHaveBatches, IdleSubmitter, TypeOK
<1>4. PublisherOK'
  <2>1. \A s \in Submitters : submitter'[s].pc # "publish"
    BY <1>1 DEF MutexFree, IdleSubmitter, TypeOK
  <2> QED BY <1>1, <2>1, StillFree
<1> QED BY <1>1, <1>2, <1>3, <1>4, RotationKeepsIInv

\* SubmitBatch from its second EnsureActiveBuffer on keeps it.
LEMMA AfterRotationKeepsIInv ==
    ASSUME IInv, MutexFree, NEW t \in Submitters, NEW B \in Batches, NEW m,
           Rotated(mgr, m), AfterRotation(t, B, m),
           UNCHANGED <<delta, fatal, stop, closing, flusher, worker, drained>>
    PROVE  IInv'
<1>1. CASE Fails(t, m) \/ Waits(t, B, m, "wait2")
  BY <1>1, NoCommitKeepsIInv
<1>2. CASE HasBuffer(m) /\ Commit(t, B, m)
  BY <1>2, CommitKeepsIInv DEF HasBuffer
<1> QED BY <1>1, <1>2 DEF AfterRotation

\* SubmitBatch from its first EnsureActiveBuffer on keeps it.
LEMMA AfterEntryKeepsIInv ==
    ASSUME IInv, MutexFree, NEW t \in Submitters, NEW B \in Batches, NEW m,
           Rotated(mgr, m), AfterEntry(t, B, m),
           UNCHANGED <<delta, fatal, stop, closing, flusher, worker, drained>>
    PROVE  IInv'
<1>1. CASE Fails(t, m) \/ Waits(t, B, m, "wait1")
  BY <1>1, NoCommitKeepsIInv
<1>2. CASE HasBuffer(m) /\ ~Overflows(m, B) /\ Commit(t, B, m)
  BY <1>2, CommitKeepsIInv DEF HasBuffer
<1>3. CASE AfterRotation(t, B, QueueActiveBuffer(m))
  <2>1. Rotated(m, QueueActiveBuffer(m))
    BY QueueActiveRotates DEF Rotated
  <2>2. Rotated(mgr, QueueActiveBuffer(m))
    BY <2>1 DEF Rotated
  <2> QED BY <1>3, <2>2, AfterRotationKeepsIInv
<1> QED BY <1>1, <1>2, <1>3 DEF AfterEntry

-----------------------------------------------------------------------------
(* The invariant.                                                          *)

\* The constructor establishes it.
LEMMA InitIInv == Init => IInv
<1> SUFFICES ASSUME Init PROVE IInv
  OBVIOUS
<1> USE OptionsAssumption DEF Init, FirstCommit
<1>1. 0 \in Buffers /\ NoBuffer \notin Buffers
  BY DEF Buffers, NoBuffer
<1>2. mgr \in Mgr
  BY <1>1 DEF Mgr, BufferState
<1>3. TypeOK
  <2>1. nextCommit \in Nat \ {0}
    OBVIOUS
  <2>2. pending \in [Keys -> [commit : Nat, base : Bases \cup {0}]]
    BY DEF NoPending
  <2>3. submitter \in [Submitters -> [pc : {"idle", "wait1", "wake1", "wait2", "wake2", "publish"},
                                     batch : Batches \cup {{}}]]
    BY DEF IdleSubmitter
  <2>4. flusher \in [FlushThreads -> [pc : {"idle", "wait", "wake", "stopping", "gone"}, from : Nat]]
    OBVIOUS
  <2>5. worker \in [pc : {"wait", "flush", "retire", "fail", "exit"},
                   buf : Buffers \cup {NoBuffer}, groups : SUBSET Targets, left : SUBSET Record]
    BY DEF WaitingWorker
  <2>6. acked \in [Keys \X Bases -> Nat] /\ delta \subseteq Record /\ drained \in Nat
    OBVIOUS
  <2>7. unpublished \subseteq Update
    OBVIOUS
  <2> QED BY <1>2, <2>1, <2>2, <2>3, <2>4, <2>5, <2>6, <2>7 DEF TypeOK
<1>4. RotationOK(mgr)
  BY <1>1 DEF RotationOK, Mgr
<1>5. WorkerOwnsBuffer /\ WaitersHaveBatches
  BY DEF WorkerOwnsBuffer, WaitersHaveBatches, WaitingWorker, IdleSubmitter
<1>6. CommitsBelowNext /\ BuffersCovered /\ PendingAheadOfBuffers /\ PendingIsNewest /\ UpdateVisible
  BY DEF CommitsBelowNext, BuffersCovered, PendingAheadOfBuffers, PendingIsNewest,
         UpdateVisible, NoPending
<1>7. PublisherOK
  BY FreeMutexPublisher DEF MutexFree, IdleSubmitter
<1> QED BY <1>3, <1>4, <1>5, <1>6, <1>7 DEF IInv

\* The worker pops a buffer, which no one else then touches.
LEMMA WorkerTakeKeepsIInv == IInv /\ WorkerTake => IInv'
<1> SUFFICES ASSUME IInv, WorkerTake PROVE IInv'
  OBVIOUS
<1> USE DEF IInv
<1> DEFINE b == Head(mgr.queue)
           q == mgr.queue
<1>1. q \in Seq(Buffers) /\ q # <<>> /\ mgr \in Mgr /\ Len(q) \in Nat
  BY DEF TypeOK, Mgr, WorkerTake
<1>2. b \in Buffers /\ b = q[1] /\ 1 \in 1 .. Len(q)
  BY <1>1
<1>3. mgr.state[b] = "kQueued"
  BY <1>2 DEF RotationOK
<1>4. /\ mgr' = [mgr EXCEPT !.queue = Tail(@), !.state[b] = "kFlushing"]
      /\ worker' = [pc |-> "flush", buf |-> b,
                    groups |-> {r.target : r \in mgr.recs[b]}, left |-> {}]
      /\ UNCHANGED <<nextCommit, pending, delta, fatal, stop, closing,
                     submitter, unpublished, flusher, acked, drained>>
  BY DEF WorkerTake
<1>5. Tail(q) \in Seq(Buffers) /\ Len(Tail(q)) = Len(q) - 1
      /\ \A i \in 1 .. Len(Tail(q)) : Tail(q)[i] = q[i + 1] /\ i + 1 \in 1 .. Len(q) /\ i + 1 # 1
  BY <1>1
<1>6. /\ mgr'.recs = mgr.recs /\ mgr'.active = mgr.active /\ mgr'.queue = Tail(q)
      /\ mgr'.state = [mgr.state EXCEPT ![b] = "kFlushing"]
  BY <1>1, <1>4 DEF Mgr
<1>7. \A i \in Buffers : mgr'.state[i] = IF i = b THEN "kFlushing" ELSE mgr.state[i]
  BY <1>1, <1>2, <1>6 DEF Mgr
<1>8. mgr' \in Mgr
  <2>1. [mgr.state EXCEPT ![b] = "kFlushing"] \in [Buffers -> BufferState]
    BY <1>1, <1>2 DEF Mgr, BufferState
  <2> QED BY <1>1, <1>4, <1>5, <2>1 DEF Mgr
<1>9. RotationOK(mgr')
  <2>1. \A i \in 1 .. Len(Tail(q)) : Tail(q)[i] \in Buffers /\ Tail(q)[i] # b
                                    /\ mgr.state[Tail(q)[i]] = "kQueued"
    BY <1>1, <1>2, <1>5 DEF RotationOK
  <2>2. mgr.active # NoBuffer => mgr.active \in Buffers /\ mgr.active # b
    BY <1>1, <1>3 DEF RotationOK, Mgr
  <2>3. \A i, j \in 1 .. Len(Tail(q)) : i # j => Tail(q)[i] # Tail(q)[j]
    BY <1>1, <1>5 DEF RotationOK
  <2>4. mgr'.active # NoBuffer => mgr'.state[mgr'.active] = "kActive"
    BY <2>2, <1>6, <1>7 DEF RotationOK
  <2>5. \A i \in 1 .. Len(mgr'.queue) : mgr'.state[mgr'.queue[i]] = "kQueued"
    BY <2>1, <1>6, <1>7
  <2> QED BY <2>3, <2>4, <2>5, <1>6 DEF RotationOK
<1>10. TypeOK'
  <2>1. \A r \in mgr.recs[b] : r.target \in Targets
    BY <1>1, <1>2 DEF Mgr, Record
  <2>2. worker' \in [pc : {"wait", "flush", "retire", "fail", "exit"},
                    buf : Buffers \cup {NoBuffer}, groups : SUBSET Targets, left : SUBSET Record]
    BY <1>2, <1>4, <2>1
  <2> QED BY <1>4, <1>8, <2>2 DEF TypeOK
<1>11. WorkerOwnsBuffer'
  BY <1>2, <1>4, <1>6, <1>7 DEF WorkerOwnsBuffer
<1>12. WaitersHaveBatches' /\ CommitsBelowNext' /\ BuffersCovered' /\ PendingAheadOfBuffers'
  BY <1>4, <1>6 DEF WaitersHaveBatches, CommitsBelowNext, BuffersCovered, Covered,
                    PendingAheadOfBuffers
<1>13. PendingIsNewest' /\ UpdateVisible'
  BY <1>4 DEF PendingIsNewest, UpdateVisible
<1>14. PublisherOK'
  BY <1>4, StillFree DEF WorkerTake, MutexFree
<1> QED BY <1>9, <1>10, <1>11, <1>12, <1>13, <1>14

\* Attaching records moves them into a layer readers consult after the pending map.
LEMMA AttachKeepsIInv ==
    ASSUME IInv, NEW part, part \subseteq mgr.recs[worker.buf], worker.buf \in Buffers,
           delta' = delta \cup part, TypeOK', WorkerOwnsBuffer',
           UNCHANGED <<mgr, nextCommit, pending, submitter, unpublished, acked>>
    PROVE  IInv'
<1> USE DEF IInv
<1>1. CommitsBelowNext'
  BY DEF CommitsBelowNext
<1>2. \A k, c : Covered(k, c) => Covered(k, c)'
  BY DEF Covered
<1>3. BuffersCovered'
  BY <1>2 DEF BuffersCovered
<1>4. PendingAheadOfBuffers' /\ WaitersHaveBatches'
  BY SMTT(30) DEF PendingAheadOfBuffers, WaitersHaveBatches
<1>5. PendingIsNewest'
  BY DEF PendingIsNewest, PendingAheadOfBuffers
<1>6. UpdateVisible'
  BY DEF UpdateVisible
<1>7. PublisherOK'
  BY DEF PublisherOK, MutexFree
<1> QED BY <1>1, <1>3, <1>4, <1>5, <1>6, <1>7

\* One call of the flush callback, successful or not, keeps it.
LEMMA FlushGroupKeepsIInv ==
    ASSUME IInv, NEW g \in Targets, FlushGroup(g) \/ FlushGroupFails(g)
    PROVE  IInv'
<1> USE DEF IInv
<1>1. worker.buf \in Buffers /\ mgr.recs[worker.buf] \subseteq Record
  BY DEF WorkerOwnsBuffer, TypeOK, Mgr, FlushGroup, FlushGroupFails
<1>2. CASE FlushGroup(g)
  <2>1. TypeOK'
    BY <1>1, <1>2 DEF FlushGroup, TypeOK, Group
  <2>2. worker.groups = {g} => mgr.recs[worker.buf] \subseteq delta'
    BY <1>2 DEF FlushGroup, WorkerOwnsBuffer, Group
  <2>3. WorkerOwnsBuffer'
    BY <1>1, <1>2, <2>2 DEF FlushGroup, WorkerOwnsBuffer, Group, TypeOK
  <2> QED BY <1>1, <1>2, <2>1, <2>3, AttachKeepsIInv DEF FlushGroup, Group
<1>3. CASE FlushGroupFails(g)
  <2>1. PICK part \in SUBSET Group(g) : delta' = delta \cup part
    BY <1>3 DEF FlushGroupFails
  <2>2. part \subseteq mgr.recs[worker.buf]
    BY DEF Group
  <2>3. TypeOK'
    BY <1>1, <1>3, <2>1, <2>2 DEF FlushGroupFails, TypeOK
  <2>4. WorkerOwnsBuffer'
    BY <1>3, <2>1 DEF FlushGroupFails, WorkerOwnsBuffer, TypeOK
  <2> QED BY <1>1, <1>3, <2>1, <2>2, <2>3, <2>4, AttachKeepsIInv DEF FlushGroupFails
<1> QED BY <1>2, <1>3

\* An erased pending value was already attached.
LEMMA RetireKeepsIInv ==
    ASSUME IInv, NEW r \in worker.left, RetirePending(r)
    PROVE  IInv'
<1> USE DEF IInv
<1>1. r \in delta /\ r \in Record /\ r.key \in Keys /\ r.commit \in Nat
  BY DEF WorkerOwnsBuffer, TypeOK, Record
<1>2. \A k \in Keys : pending'[k] = IF k = r.key /\ pending[k].commit = r.commit
                                    THEN NoPending ELSE pending[k]
  BY <1>1 DEF RetirePending, RetireOne, TypeOK
<1>3. pending' \in [Keys -> [commit : Nat, base : Bases \cup {0}]]
  <2>1. NoPending \in [commit : Nat, base : Bases \cup {0}]
    BY DEF NoPending
  <2> QED BY <1>1, <2>1 DEF RetirePending, RetireOne, TypeOK
<1>4. NoPending.commit = 0
  BY DEF NoPending
<1>5. /\ UNCHANGED <<mgr, nextCommit, delta, fatal, stop, closing, submitter, unpublished, flusher,
                     acked, drained>>
      /\ worker' = [worker EXCEPT !.left = @ \ {r}]
  BY DEF RetirePending
<1>6. TypeOK'
  BY <1>3, <1>5 DEF TypeOK
<1>7. WorkerOwnsBuffer' /\ WaitersHaveBatches'
  BY <1>5 DEF WorkerOwnsBuffer, WaitersHaveBatches, TypeOK, RetirePending
<1>8. CommitsBelowNext'
  BY <1>2, <1>4, <1>5 DEF CommitsBelowNext, TypeOK
<1>9. ASSUME NEW k \in Keys, NEW c \in Nat, Covered(k, c)
      PROVE  Covered(k, c)'
  <2>1. CASE k = r.key /\ pending[k].commit = r.commit
    BY <1>1, <1>5, <1>9, <2>1 DEF Covered
  <2>2. CASE ~(k = r.key /\ pending[k].commit = r.commit)
    BY <1>2, <1>5, <1>9, <2>2 DEF Covered
  <2> QED BY <2>1, <2>2
<1>10. BuffersCovered'
  <2>1. \A i \in Buffers : \A s \in mgr.recs[i] : s.key \in Keys /\ s.commit \in Nat
    BY DEF TypeOK, Mgr, Record
  <2> QED BY <1>5, <1>9, <2>1 DEF BuffersCovered
<1>11. PendingAheadOfBuffers' /\ PendingIsNewest'
  BY <1>2, <1>4, <1>5 DEF PendingAheadOfBuffers, PendingIsNewest
<1>12. UpdateVisible'
  <2> SUFFICES ASSUME NEW k \in Keys, NEW b \in Bases, acked[<<k, b>>] # 0
               PROVE  Covered(k, acked[<<k, b>>])'
    BY <1>5 DEF UpdateVisible, Covered
  <2>1. <<k, b>> \in Keys \X Bases
    OBVIOUS
  <2>2. acked[<<k, b>>] \in Nat
    BY <2>1 DEF TypeOK
  <2>3. Covered(k, acked[<<k, b>>])
    BY DEF UpdateVisible, Covered
  <2>4. ASSUME NEW c \in Nat, c = acked[<<k, b>>] PROVE Covered(k, acked[<<k, b>>])'
    <3>1. Covered(k, c)'
      BY <1>9, <2>3, <2>4
    <3> QED BY <1>5, <2>4, <3>1, SMTT(30) DEF Covered
  <2> QED BY <2>2, <2>4
<1>13. PublisherOK'
  <2>1. ASSUME NEW t \in Submitters, submitter[t].pc = "publish",
               NEW u \in submitter[t].batch \ unpublished
        PROVE  pending'[u.key].commit = nextCommit - 1
    <3>1. u.key \in Keys
      BY <2>1, WhilePublishing DEF Update
    <3>2. pending[u.key].commit = nextCommit - 1 /\ r.commit < nextCommit - 1
      BY <1>1, <2>1 DEF PublisherOK
    <3>3. pending[u.key].commit # r.commit
      BY <1>1, <2>1, <3>2, WhilePublishing
    <3> QED BY <1>2, <3>1, <3>2, <3>3
  <2> QED BY <1>5, <2>1 DEF PublisherOK, MutexFree
<1> QED BY <1>5, <1>6, <1>7, <1>8, <1>10, <1>11, <1>12, <1>13
=============================================================================
