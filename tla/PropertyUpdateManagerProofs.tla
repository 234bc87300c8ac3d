-------------------- MODULE PropertyUpdateManagerProofs ---------------------
(***************************************************************************)
(* IInv is an invariant of PropertyUpdateManager for every number of       *)
(* clients, flush threads, buffers, keys and targets, and every capacity;  *)
(* from it, its types and the visibility of acknowledged updates.          *)
(***************************************************************************)
EXTENDS PropertyUpdateManagerLemmas

\* Notifying waiters moves them from "wait" to "wake" and nothing else.
LEMMA NotifyKeepsWaiters ==
    ASSUME TypeOK, WaitersHaveBatches,
           submitter' = [t \in Submitters |-> Woken(submitter[t])]
    PROVE  /\ submitter' \in [Submitters -> [pc : {"idle", "wait1", "wake1", "wait2", "wake2", "publish"},
                                             batch : Batches \cup {{}}]]
           /\ WaitersHaveBatches'
           /\ MutexFree => \A t \in Submitters : submitter'[t].pc # "publish"
  BY DEF TypeOK, WaitersHaveBatches, Woken, MutexFree

\* The worker gives its buffer back, emptied or failed.
LEMMA FlushEndKeepsIInv == IInv /\ (FlushDone \/ FlushFailed) => IInv'
<1> SUFFICES ASSUME IInv, FlushDone \/ FlushFailed PROVE IInv'
  OBVIOUS
<1> USE DEF IInv
<1> DEFINE b == worker.buf
<1>1. b \in Buffers /\ mgr.state[b] = "kFlushing" /\ mgr \in Mgr
  BY DEF WorkerOwnsBuffer, TypeOK, FlushDone, FlushFailed
<1>2. /\ worker' = WaitingWorker
      /\ UNCHANGED <<nextCommit, pending, delta, stop, closing, unpublished, acked, drained>>
      /\ fatal' \in BOOLEAN
      /\ submitter' = [t \in Submitters |-> Woken(submitter[t])]
  BY DEF FlushDone, FlushFailed, NotifyAll, TypeOK
<1>3. flusher' \in [FlushThreads -> [pc : {"idle", "wait", "wake", "stopping", "gone"}, from : Nat]]
  <2>1. flusher \in [FlushThreads -> [pc : {"idle", "wait", "wake", "stopping", "gone"}, from : Nat]]
    BY DEF TypeOK
  <2>2. flusher' = [f \in FlushThreads |-> IF mgr.queue = <<>> /\ flusher[f].pc = "wait"
                                          THEN [flusher[f] EXCEPT !.pc = "wake"] ELSE flusher[f]]
    BY DEF FlushDone, FlushFailed, NotifyAll
  <2> HIDE DEF IInv
  <2> QED BY <2>1, <2>2
<1>4. mgr.active # b /\ (\A i \in 1 .. Len(mgr.queue) : mgr.queue[i] \in Buffers /\ mgr.queue[i] # b)
  BY <1>1, OptionsAssumption, SMTT(30) DEF RotationOK, Mgr, Buffers, NoBuffer
<1>5. /\ mgr' \in Mgr
      /\ mgr'.queue = mgr.queue
      /\ \A i \in Buffers : mgr'.recs[i] \subseteq mgr.recs[i]
      /\ \A i \in Buffers : i # b => mgr'.state[i] = mgr.state[i]
      /\ \/ mgr'.active = mgr.active
         \/ mgr'.active = b /\ mgr'.state[b] = "kActive"
  <2>1. CASE FlushDone
    <3> DEFINE m == [mgr EXCEPT !.recs[b] = {}, !.bytes[b] = 0, !.state[b] = "kFree"]
               n == [m EXCEPT !.state[b] = "kActive", !.active = b]
    <3>1. mgr' = IF m.active = NoBuffer THEN n ELSE m
      BY <2>1 DEF FlushDone
    <3>2. m \in Mgr /\ m.queue = mgr.queue /\ m.active = mgr.active
          /\ m.recs = [mgr.recs EXCEPT ![b] = {}] /\ m.state = [mgr.state EXCEPT ![b] = "kFree"]
      BY <1>1 DEF Mgr, BufferState
    <3> HIDE DEF m
    <3>3. n \in Mgr /\ n.queue = m.queue /\ n.active = b
          /\ n.recs = m.recs /\ n.state = [m.state EXCEPT ![b] = "kActive"]
      BY <1>1, <3>2 DEF Mgr, BufferState
    <3> HIDE DEF n
    <3> QED BY <1>1, <3>1, <3>2, <3>3 DEF Mgr
  <2>2. CASE FlushFailed
    <3>1. mgr' = [mgr EXCEPT !.state[b] = "kFailed"]
      BY <2>2 DEF FlushFailed
    <3>2. mgr' \in Mgr
      BY <1>1, <3>1 DEF Mgr, BufferState
    <3> QED BY <1>1, <3>1, <3>2 DEF Mgr
  <2> QED BY <2>1, <2>2
<1>6. TypeOK'
  BY <1>2, <1>3, <1>5, NotifyKeepsWaiters DEF TypeOK, WaitingWorker
<1>7. RotationOK(mgr')
  <2>1. mgr'.active # NoBuffer => mgr'.state[mgr'.active] = "kActive"
    BY <1>4, <1>5 DEF RotationOK, Mgr
  <2> QED BY <1>4, <1>5, <2>1 DEF RotationOK
<1>8. WorkerOwnsBuffer' /\ WaitersHaveBatches'
  BY <1>2, NotifyKeepsWaiters DEF WorkerOwnsBuffer, WaitingWorker
<1>9. CommitsBelowNext' /\ BuffersCovered' /\ PendingAheadOfBuffers'
  BY <1>2, <1>5 DEF CommitsBelowNext, BuffersCovered, Covered, PendingAheadOfBuffers
<1>10. PendingIsNewest' /\ UpdateVisible'
  BY <1>2 DEF PendingIsNewest, UpdateVisible
<1>11. PublisherOK'
  <2>1. MutexFree
    BY DEF FlushDone, FlushFailed
  <2> QED BY <1>2, <2>1, NotifyKeepsWaiters, StillFree
<1> QED BY <1>6, <1>7, <1>8, <1>9, <1>10, <1>11

\* FlushAndWait rotates the active buffer out; it moves no record itself.
LEMMA FlushAndWaitKeepsIInv ==
    ASSUME IInv, NEW f \in FlushThreads, FlushAndWait(f) \/ FlushWake(f)
    PROVE  IInv'
<1> USE DEF IInv
<1>1. mgr \in Mgr /\ nextCommit \in Nat /\ flusher[f].from \in Nat
  BY DEF TypeOK
<1>2. Rotated(mgr, mgr)
  BY <1>1 DEF Rotated
<1>3. Rotated(mgr, QueueActiveBuffer(mgr))
  BY <1>1, QueueActiveRotates
<1>4. UNCHANGED <<nextCommit, pending, delta, fatal, stop, submitter, unpublished, worker, acked>>
      /\ closing' \in BOOLEAN /\ MutexFree
  BY DEF FlushAndWait, FlushWake, TypeOK
<1>5. PICK m \in Mgr, from \in Nat :
        /\ Rotated(mgr, m)
        /\ FlushReturnsFalse(f) \/ FlushReturnsTrue(f, m, from) \/ FlushWaits(f, m, from)
  <2>1. CASE FlushAndWait(f)
    BY <1>1, <1>3, <2>1 DEF FlushAndWait, Rotated
  <2>2. CASE FlushWake(f)
    BY <1>1, <1>2, <2>2 DEF FlushWake
  <2> QED BY <2>1, <2>2
<1>6. Rotated(m, ActivateFree(m))
  BY <1>5, ActivateFreeRotates DEF Rotated
<1>7. Rotated(mgr, ActivateFree(m))
  BY <1>5, <1>6 DEF Rotated
<1>8. Rotated(mgr, mgr')
  BY <1>2, <1>5, <1>7 DEF FlushReturnsFalse, FlushReturnsTrue, FlushWaits
<1>9. drained' \in Nat
  BY <1>5 DEF FlushReturnsFalse, FlushReturnsTrue, FlushWaits, TypeOK
<1>10. flusher' \in [FlushThreads -> [pc : {"idle", "wait", "wake", "stopping", "gone"}, from : Nat]]
  BY <1>5, SMTT(30) DEF FlushReturnsFalse, FlushReturnsTrue, FlushWaits, Returned, TypeOK
<1>11. TypeOK'
  BY <1>4, <1>8, <1>9, <1>10 DEF TypeOK, Rotated
<1>12. WaitersHaveBatches'
  BY <1>4 DEF WaitersHaveBatches
<1>13. PublisherOK'
  BY <1>4, StillFree DEF MutexFree
<1> QED BY <1>4, <1>8, <1>11, <1>12, <1>13, RotationKeepsIInv

\* The clients' calls.
LEMMA SubmitKeepsIInv ==
    ASSUME IInv, NEW t \in Submitters,
           (\E B \in Batches : SubmitBatch(t, B)) \/ SubmitWake(t)
    PROVE  IInv'
<1> USE DEF IInv
<1>1. mgr \in Mgr /\ Rotated(mgr, mgr) /\ Rotated(mgr, ActivateFree(mgr))
  BY ActivateFreeRotates DEF TypeOK, Rotated
<1>2. CASE \E B \in Batches : SubmitBatch(t, B)
  BY <1>1, <1>2, AfterEntryKeepsIInv DEF SubmitBatch
<1>3. CASE SubmitWake(t)
  <2>1. submitter[t].batch \in Batches
    BY <1>3 DEF SubmitWake, WaitersHaveBatches
  <2> QED BY <1>1, <1>3, <2>1, AfterEntryKeepsIInv, AfterRotationKeepsIInv, SMTT(30) DEF SubmitWake
<1> QED BY <1>2, <1>3

\* Every step keeps the invariant.
LEMMA NextKeepsIInv == IInv /\ [Next]_vars => IInv'
<1> SUFFICES ASSUME IInv, [Next]_vars PROVE IInv'
  OBVIOUS
<1>1. ASSUME NEW t \in Submitters, NEW B \in Batches, SubmitBatch(t, B) PROVE IInv'
  BY <1>1, SubmitKeepsIInv
<1>2. ASSUME NEW t \in Submitters, SubmitWake(t) PROVE IInv'
  BY <1>2, SubmitKeepsIInv
<1>3. ASSUME NEW t \in Submitters, SpuriousWake(t) PROVE IInv'
  <2> USE DEF IInv
  <2>1. TypeOK' /\ WaitersHaveBatches'
    BY <1>3 DEF SpuriousWake, Woken, TypeOK, WaitersHaveBatches
  <2>2. Rotated(mgr, mgr')
    BY <1>3 DEF SpuriousWake, Rotated, TypeOK
  <2>3. UNCHANGED <<mgr, nextCommit, pending, delta, unpublished, acked>>
        /\ \A s \in Submitters : /\ submitter'[s].pc = "publish" <=> submitter[s].pc = "publish"
                                /\ submitter'[s].batch = submitter[s].batch
    BY <1>3 DEF SpuriousWake, Woken, TypeOK
  <2>4. PublisherOK'
    BY <2>3 DEF PublisherOK, MutexFree
  <2> QED BY <1>3, <2>1, <2>2, <2>4, RotationKeepsIInv DEF SpuriousWake
<1>4. ASSUME NEW f \in FlushThreads, FlushAndWait(f) \/ FlushWake(f) PROVE IInv'
  BY <1>4, FlushAndWaitKeepsIInv
<1>5. CASE WorkerTake
  BY <1>5, WorkerTakeKeepsIInv
<1>6. ASSUME NEW g \in Targets, FlushGroup(g) \/ FlushGroupFails(g) PROVE IInv'
  BY <1>6, FlushGroupKeepsIInv
<1>7. ASSUME NEW r \in worker.left, RetirePending(r) PROVE IInv'
  BY <1>7, RetireKeepsIInv
<1>8. CASE FlushDone \/ FlushFailed
  BY <1>8, FlushEndKeepsIInv
<1>9. CASE WorkerExit
  <2> USE DEF IInv
  <2>1. TypeOK'
    BY <1>9 DEF WorkerExit, TypeOK, WaitingWorker
  <2>2. WorkerOwnsBuffer'
    BY <1>9 DEF WorkerExit, WorkerOwnsBuffer, WaitingWorker
  <2>3. RotationOK(mgr')
    BY <1>9 DEF WorkerExit, RotationOK
  <2>4. WaitersHaveBatches' /\ CommitsBelowNext' /\ BuffersCovered' /\ PendingAheadOfBuffers'
        /\ PendingIsNewest' /\ UpdateVisible'
    BY <1>9 DEF WorkerExit, WaitersHaveBatches, CommitsBelowNext, BuffersCovered, Covered,
                PendingAheadOfBuffers, PendingIsNewest, UpdateVisible
  <2>5. PublisherOK'
    BY <1>9, StillFree DEF WorkerExit, MutexFree
  <2> QED BY <2>1, <2>2, <2>3, <2>4, <2>5
<1>10. CASE StopWorker
  <2> USE DEF IInv
  <2>1. WaitersHaveBatches'
    BY <1>10, NotifyKeepsWaiters DEF StopWorker
  <2>2. TypeOK'
    <3>1. submitter' \in [Submitters -> [pc : {"idle", "wait1", "wake1", "wait2", "wake2", "publish"},
                                         batch : Batches \cup {{}}]]
      BY <1>10, NotifyKeepsWaiters DEF StopWorker
    <3>2. flusher' \in [FlushThreads -> [pc : {"idle", "wait", "wake", "stopping", "gone"},
                                         from : Nat]]
      <4>1. flusher \in [FlushThreads -> [pc : {"idle", "wait", "wake", "stopping", "gone"},
                                          from : Nat]]
        BY DEF TypeOK
      <4>2. flusher' = [flusher EXCEPT ![Destructor].pc = "gone"]
        BY <1>10 DEF StopWorker
      <4> HIDE DEF IInv
      <4> QED BY <4>1, <4>2, Zenon
    <3>3. /\ UNCHANGED <<mgr, nextCommit, pending, delta, fatal, closing, unpublished, worker, acked, drained>>
          /\ stop' \in BOOLEAN
      BY <1>10 DEF StopWorker
    <3> QED BY <3>1, <3>2, <3>3 DEF TypeOK
  <2>3. Rotated(mgr, mgr')
    BY <1>10 DEF StopWorker, Rotated, TypeOK
  <2>4. PublisherOK'
    BY <1>10, NotifyKeepsWaiters, StillFree DEF StopWorker
  <2> QED BY <1>10, <2>1, <2>2, <2>3, <2>4, RotationKeepsIInv DEF StopWorker
<1>11. ASSUME NEW f \in FlushThreads, SpuriousIdleWake(f) PROVE IInv'
  <2> USE DEF IInv
  <2>1. TypeOK' /\ WaitersHaveBatches'
    BY <1>11 DEF SpuriousIdleWake, TypeOK, WaitersHaveBatches
  <2>2. Rotated(mgr, mgr')
    BY <1>11 DEF SpuriousIdleWake, Rotated, TypeOK
  <2>3. PublisherOK'
    BY <1>11 DEF SpuriousIdleWake, PublisherOK, MutexFree
  <2> QED BY <1>11, <2>1, <2>2, <2>3, RotationKeepsIInv DEF SpuriousIdleWake
<1>12. CASE UNCHANGED vars
  <2> USE DEF IInv
  <2>1. TypeOK'
    BY <1>12 DEF vars, TypeOK
  <2>2. RotationOK(mgr')
    BY <1>12 DEF vars, RotationOK
  <2>3. WorkerOwnsBuffer' /\ WaitersHaveBatches'
    BY <1>12 DEF vars, WorkerOwnsBuffer, WaitersHaveBatches
  <2>4. CommitsBelowNext' /\ BuffersCovered' /\ PendingAheadOfBuffers'
    BY <1>12 DEF vars, CommitsBelowNext, BuffersCovered, Covered, PendingAheadOfBuffers
  <2>5. PendingIsNewest' /\ UpdateVisible'
    BY <1>12 DEF vars, PendingIsNewest, UpdateVisible
  <2>6. PublisherOK'
    BY <1>12 DEF vars, PublisherOK, MutexFree
  <2> QED BY <2>1, <2>2, <2>3, <2>4, <2>5, <2>6
<1>13. ASSUME NEW t \in Submitters, SubmitGoesOn(t) PROVE IInv'
  BY <1>13, PublishKeepsIInv, SubmitEndKeepsIInv DEF SubmitGoesOn
<1> QED BY <1>1, <1>2, <1>3, <1>4, <1>5, <1>6, <1>7, <1>8, <1>9, <1>10, <1>11, <1>12, <1>13
        DEF Next, WorkerStep, Destroyed

\* IInv holds in every reachable state: buffers, pending map, worker and histories
\* stay consistent through every submission, flush, failure and shutdown.
THEOREM Invariance == Spec => []IInv
<1>1. Init => IInv
  BY InitIInv
<1>2. IInv /\ [Next]_vars => IInv'
  BY NextKeepsIInv
<1> QED BY <1>1, <1>2, PTL DEF Spec

\* Types are right in every reachable state.
THEOREM TypeCorrect == Spec => []TypeOK
<1>1. IInv => TypeOK
  BY DEF IInv
<1> QED BY <1>1, Invariance, PTL

\* An acknowledged update is found in the pending map or in the delta layer, itself
\* or a newer one of its key, whatever rotates, flushes, fails or shuts down.
THEOREM AcknowledgedUpdatesStayVisible == Spec => []UpdateVisible
<1>1. IInv => UpdateVisible
  BY DEF IInv
<1> QED BY <1>1, Invariance, PTL

\* A pending value never hides a newer record of the delta layer, which is what lets
\* readers stop at the pending map.
THEOREM PendingNeverStale == Spec => []PendingIsNewest
<1>1. IInv => PendingIsNewest
  BY DEF IInv
<1> QED BY <1>1, Invariance, PTL
=============================================================================
