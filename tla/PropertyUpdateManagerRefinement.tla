------------------ MODULE PropertyUpdateManagerRefinement -------------------
(***************************************************************************)
(* PropertyUpdateManager implements LatestValue, for every value of its    *)
(* constants.                                                              *)
(***************************************************************************)
EXTENDS PropertyUpdateManagerProofs

-----------------------------------------------------------------------------
(* The refinement of LatestValue.                                          *)

\* A nonempty set of naturals with an upper bound has a largest member.
LEMMA LargestExists ==
    ASSUME NEW S, S \subseteq Nat, S # {}, NEW n \in Nat, \A x \in S : x < n
    PROVE  \E x \in S : \A y \in S : y <= x
<1> DEFINE T == {n - x : x \in S}
<1>1. T \subseteq Nat /\ T # {}
  <2>1. \A x \in S : n - x \in Nat
    OBVIOUS
  <2>2. \E x \in S : n - x \in T
    OBVIOUS
  <2> QED BY <2>1, <2>2
<1>2. PICK z \in T : \A y \in T : ~(<<y, z>> \in OpToRel(<, Nat))
  BY <1>1, NatLessThanWellFounded, WFMin
<1>3. \A y \in T : ~(y < z)
  BY <1>1, <1>2 DEF OpToRel
<1>4. PICK x \in S : z = n - x
  OBVIOUS
<1>5. \A y \in S : y <= x
  BY <1>3, <1>4
<1> QED BY <1>5

\* Visible(k) is v when v is pending, or nothing is and v is the newest attached.
LEMMA VisibleIs ==
    ASSUME IInv, NEW k \in Keys, NEW v \in Nat \ {0},
           \/ pending[k].commit = v
           \/ /\ pending[k].commit = 0
              /\ v \in DeltaCommits(k)
              /\ \A x \in DeltaCommits(k) : x <= v
    PROVE  Visible(k) = v
<1>1. DeltaCommits(k) \subseteq Nat
  BY DEF IInv, TypeOK, Record, DeltaCommits
<1>2. CASE pending[k].commit = v
  BY <1>2 DEF Visible
<1>3. CASE pending[k].commit = 0
  <2> DEFINE w == CHOOSE c \in DeltaCommits(k) : \A x \in DeltaCommits(k) : x <= c
  <2>1. v \in DeltaCommits(k) /\ \A x \in DeltaCommits(k) : x <= v
    BY <1>3
  <2>2. w \in DeltaCommits(k) /\ \A x \in DeltaCommits(k) : x <= w
    BY <2>1
  <2>3. w = v
    BY <1>1, <2>1, <2>2
  <2> QED BY <1>3, <2>1, <2>3 DEF Visible
<1> QED BY <1>2, <1>3

\* When nothing is pending for k but something is attached, the newest attached
\* commit exists, is positive and is what a reader finds.
LEMMA NewestAttached ==
    ASSUME IInv, NEW k \in Keys, pending[k].commit = 0, DeltaCommits(k) # {}
    PROVE  /\ Visible(k) \in DeltaCommits(k)
           /\ Visible(k) \in Nat \ {0}
           /\ \A x \in DeltaCommits(k) : x <= Visible(k)
<1>1. DeltaCommits(k) \subseteq Nat \ {0} /\ nextCommit \in Nat
  BY DEF IInv, TypeOK, Record, DeltaCommits, CommitsBelowNext
<1>2. \A x \in DeltaCommits(k) : x < nextCommit
  BY DEF IInv, CommitsBelowNext, DeltaCommits
<1>3. \E x \in DeltaCommits(k) : \A y \in DeltaCommits(k) : y <= x
  BY <1>1, <1>2, LargestExists
<1>4. PICK x \in DeltaCommits(k) : \A y \in DeltaCommits(k) : y <= x
  BY <1>3
<1>5. Visible(k) = x
  BY <1>1, <1>4, VisibleIs
<1> QED BY <1>1, <1>4, <1>5

\* Attaching buffered records changes nothing for a reader.
LEMMA AttachInvisible ==
    ASSUME IInv, IInv', NEW part, part \subseteq mgr.recs[worker.buf], worker.buf \in Buffers,
           delta' = delta \cup part, pending' = pending, NEW k \in Keys
    PROVE  Visible(k)' = Visible(k)
<1>1. CASE pending[k].commit # 0
  BY <1>1 DEF Visible
<1>2. CASE pending[k].commit = 0
  <2>1. ASSUME NEW r \in part, r.key = k
        PROVE  \E d \in delta : d.key = k /\ d.commit >= r.commit
    <3>1. r \in mgr.recs[worker.buf] /\ r \in Record
      BY DEF IInv, TypeOK, Mgr
    <3>2. Covered(k, r.commit) /\ 0 < r.commit
      BY <2>1, <3>1 DEF IInv, BuffersCovered, CommitsBelowNext
    <3> QED BY <1>2, <3>1, <3>2 DEF Covered, Record
  <2>2. DeltaCommits(k) \subseteq DeltaCommits(k)'
    BY DEF DeltaCommits
  <2>3. \A x \in DeltaCommits(k)' : \E y \in DeltaCommits(k) : x <= y
    <3> SUFFICES ASSUME NEW d \in delta \cup part, d.key = k
                 PROVE  \E y \in DeltaCommits(k) : d.commit <= y
      BY DEF DeltaCommits
    <3>1. CASE d \in delta
      <4>1. d.commit \in DeltaCommits(k) /\ d.commit \in Nat
        BY <3>1 DEF DeltaCommits, IInv, TypeOK, Record
      <4> QED BY <4>1
    <3>2. CASE d \in part
      <4>1. PICK e \in delta : e.key = k /\ e.commit >= d.commit
        BY <3>2, <2>1
      <4>2. e.commit \in DeltaCommits(k) /\ e.commit \in Nat
        BY <4>1 DEF DeltaCommits, IInv, TypeOK, Record
      <4>3. d.commit \in Nat
        BY <3>2 DEF IInv, TypeOK, Mgr, Record
      <4> QED BY <4>1, <4>2, <4>3
    <3> QED BY <3>1, <3>2
  <2>4. CASE DeltaCommits(k) = {}
    BY <1>2, <2>3, <2>4 DEF Visible
  <2>5. CASE DeltaCommits(k) # {}
    <3> DEFINE v == Visible(k)
    <3>1. v \in DeltaCommits(k) /\ v \in Nat \ {0} /\ \A x \in DeltaCommits(k) : x <= v
      BY <1>2, <2>5, NewestAttached
    <3>2. DeltaCommits(k)' \subseteq Nat /\ DeltaCommits(k) \subseteq Nat
      BY DEF IInv, TypeOK, Record, DeltaCommits
    <3>3. \A x \in DeltaCommits(k)' : x <= v
      BY <2>3, <3>1, <3>2
    <3> HIDE DEF v
    <3>4. v \in DeltaCommits(k)'
      BY <2>2, <3>1
    <3>5. \E y \in DeltaCommits(k)' : \A x \in DeltaCommits(k)' : x <= y
      BY <3>3, <3>4
    <3> DEFINE w == CHOOSE c \in DeltaCommits(k)' : \A x \in DeltaCommits(k)' : x <= c
    <3>6. w \in DeltaCommits(k)' /\ \A x \in DeltaCommits(k)' : x <= w
      BY <3>5
    <3>7. w = v
      BY <3>2, <3>3, <3>4, <3>6
    <3>8. Visible(k)' = w
      BY <1>2, <3>4 DEF Visible
    <3> QED BY <3>7, <3>8 DEF v
  <2> QED BY <2>4, <2>5
<1> QED BY <1>1, <1>2

\* Neither does erasing a pending value that has been attached.
LEMMA RetireInvisible ==
    ASSUME IInv, NEW r \in worker.left, RetirePending(r), NEW k \in Keys
    PROVE  Visible(k)' = Visible(k)
<1>1. r \in delta /\ r.key \in Keys /\ r.commit \in Nat /\ 0 < r.commit
  BY DEF IInv, WorkerOwnsBuffer, TypeOK, Record, CommitsBelowNext
<1>2. pending'[k] = IF k = r.key /\ pending[k].commit = r.commit THEN NoPending ELSE pending[k]
  BY <1>1 DEF RetirePending, RetireOne, IInv, TypeOK
<1>3. delta' = delta
  BY DEF RetirePending
<1>4. DeltaCommits(k)' = DeltaCommits(k)
  BY <1>3 DEF DeltaCommits
<1>5. CASE k = r.key /\ pending[k].commit = r.commit
  <2> DEFINE w == CHOOSE c \in DeltaCommits(k) : \A x \in DeltaCommits(k) : x <= c
  <2>1. r.commit \in DeltaCommits(k)
    BY <1>1, <1>5 DEF DeltaCommits
  <2>2. \A x \in DeltaCommits(k) : x <= r.commit
    BY <1>1, <1>5 DEF IInv, PendingIsNewest, DeltaCommits
  <2>3. DeltaCommits(k) \subseteq Nat
    BY DEF IInv, TypeOK, Record, DeltaCommits
  <2>4. w \in DeltaCommits(k) /\ \A x \in DeltaCommits(k) : x <= w
    BY <2>1, <2>2
  <2>5. w = r.commit
    BY <2>1, <2>2, <2>3, <2>4
  <2>6. Visible(k)' = w
    BY <1>2, <1>4, <1>5, <2>1 DEF Visible, NoPending
  <2>7. Visible(k) = r.commit
    BY <1>1, <1>5 DEF Visible
  <2> QED BY <2>5, <2>6, <2>7
<1>6. CASE ~(k = r.key /\ pending[k].commit = r.commit)
  BY <1>2, <1>4, <1>6 DEF Visible
<1> QED BY <1>5, <1>6

\* Taking a commit sequence begins an update of the batch's keys.
LEMMA CommitBegins ==
    ASSUME IInv, MutexFree, NEW t \in Submitters, NEW B \in Batches, NEW m, Commit(t, B, m),
           delta' = delta
    PROVE  LV!Next
<1>1. Unwritten = {} /\ unpublished = {}
  BY DEF IInv, PublisherOK, Unwritten
<1>2. Unwritten' \in SUBSET Keys
  BY BatchesAssumption DEF Unwritten, Commit, Update
<1>3. nextCommit' = nextCommit + 1
  BY DEF Commit
<1>4. \A k \in Keys : Visible(k)' = Visible(k)
  BY DEF Commit, Visible, DeltaCommits
<1>5. [k \in Keys |-> Visible(k)]' = [k \in Keys |-> Visible(k)]
  BY <1>4
<1>6. LV!Begin(Unwritten')
  BY <1>1, <1>3, <1>5 DEF LV!Begin
<1> QED BY <1>2, <1>6 DEF LV!Next

\* A published update becomes what readers find for its key, and only for that key.
LEMMA PublishWrites ==
    ASSUME IInv, NEW t \in Submitters, NEW u \in unpublished, PublishPending(t, u)
    PROVE  LV!Next
<1>1. submitter[t].pc = "publish" /\ unpublished' = unpublished \ {u}
      /\ nextCommit' = nextCommit /\ delta' = delta
  BY DEF PublishPending
<1>2. /\ u.key \in Keys
      /\ \A k \in Keys : pending'[k] = IF k = u.key
                                       THEN [commit |-> nextCommit - 1, base |-> u.base]
                                       ELSE pending[k]
  BY PublishSets
<1>3. nextCommit - 1 # 0
  BY <1>1, WhilePublishing
<1>4. \A k \in Keys : Visible(k)' = IF k = u.key THEN nextCommit - 1 ELSE Visible(k)
  <2> TAKE k \in Keys
  <2>1. CASE k = u.key
    <3>1. pending'[k].commit = nextCommit - 1
      BY <1>2, <2>1
    <3>2. Visible(k)' = nextCommit - 1
      BY <1>3, <3>1 DEF Visible
    <3> QED BY <2>1, <3>2
  <2>2. CASE k # u.key
    <3>1. pending'[k] = pending[k] /\ DeltaCommits(k)' = DeltaCommits(k)
      BY <1>1, <1>2, <2>2 DEF DeltaCommits
    <3> QED BY <2>2, <3>1 DEF Visible
  <2> QED BY <2>1, <2>2
<1>5. [k \in Keys |-> Visible(k)]' = [[k \in Keys |-> Visible(k)] EXCEPT ![u.key] = nextCommit - 1]
  BY <1>2, <1>4
<1>6. Unwritten' = Unwritten \ {u.key} /\ u.key \in Unwritten
  <2>1. \A v \in unpublished : v.key = u.key => v = u
    BY <1>1, WhilePublishing, BatchesAssumption
  <2> QED BY <1>1, <2>1 DEF Unwritten
<1>7. LV!Write(u.key)
  BY <1>1, <1>5, <1>6 DEF LV!Write
<1> QED BY <1>2, <1>7 DEF LV!Next

\* After its second EnsureActiveBuffer, SubmitBatch begins an update or changes no value.
LEMMA AfterRotationRefines ==
    ASSUME IInv, MutexFree, NEW t \in Submitters, NEW B \in Batches, NEW m, AfterRotation(t, B, m),
           delta' = delta
    PROVE  LV!Next \/ UNCHANGED <<pending, nextCommit, unpublished>>
  BY CommitBegins DEF AfterRotation, Fails, Waits

\* Every step of SubmitBatch up to its commit begins an update or changes no value.
LEMMA SubmitRefines ==
    ASSUME IInv, NEW t \in Submitters,
           (\E B \in Batches : SubmitBatch(t, B)) \/ SubmitWake(t)
    PROVE  (LV!Next \/ UNCHANGED <<pending, nextCommit, unpublished>>) /\ delta' = delta
<1>1. delta' = delta /\ MutexFree
  BY DEF SubmitBatch, SubmitWake
<1>2. PICK B \in Batches : \E m : AfterEntry(t, B, m) \/ AfterRotation(t, B, m)
  BY DEF SubmitBatch, SubmitWake, IInv, WaitersHaveBatches
<1>3. LV!Next \/ UNCHANGED <<pending, nextCommit, unpublished>>
  <2>1. PICK m : AfterEntry(t, B, m) \/ AfterRotation(t, B, m)
    BY <1>2
  <2> QED BY <1>1, <2>1, CommitBegins, AfterRotationRefines DEF AfterEntry, Fails, Waits
<1> QED BY <1>1, <1>3

\* Every step is a step of LatestValue or changes nothing that it speaks of.
LEMMA StepRefines ==
    ASSUME IInv, IInv', [Next]_vars
    PROVE  \/ LV!Next
           \/ /\ \A k \in Keys : Visible(k)' = Visible(k)
              /\ UNCHANGED <<unpublished, nextCommit>>
<1>1. ASSUME UNCHANGED <<pending, delta>>, NEW k \in Keys
      PROVE  Visible(k)' = Visible(k)
  BY <1>1 DEF Visible, DeltaCommits
<1>2. ASSUME NEW t \in Submitters, (\E B \in Batches : SubmitBatch(t, B)) \/ SubmitWake(t)
      PROVE  LV!Next \/ UNCHANGED <<pending, delta, nextCommit, unpublished>>
  BY <1>2, SubmitRefines
<1>3. ASSUME NEW g \in Targets, FlushGroup(g) \/ FlushGroupFails(g), NEW k \in Keys
      PROVE  Visible(k)' = Visible(k)
  <2>1. worker.buf \in Buffers
    BY <1>3 DEF IInv, WorkerOwnsBuffer, FlushGroup, FlushGroupFails
  <2>2. PICK part \in SUBSET mgr.recs[worker.buf] : delta' = delta \cup part
    BY <1>3 DEF FlushGroup, FlushGroupFails, Group
  <2>3. UNCHANGED pending
    BY <1>3 DEF FlushGroup, FlushGroupFails
  <2> QED BY <2>1, <2>2, <2>3, AttachInvisible
<1>4. ASSUME NEW r \in worker.left, RetirePending(r), NEW k \in Keys
      PROVE  Visible(k)' = Visible(k)
  BY <1>4, RetireInvisible
<1>5. CASE \/ \E t \in Submitters : SpuriousWake(t) \/ SubmitEnd(t)
           \/ \E f \in FlushThreads : FlushAndWait(f) \/ FlushWake(f) \/ SpuriousIdleWake(f)
           \/ WorkerTake \/ FlushDone \/ FlushFailed \/ WorkerExit \/ StopWorker
           \/ UNCHANGED vars
  <2>1. UNCHANGED <<pending, delta, nextCommit, unpublished>>
    BY <1>5 DEF SpuriousWake, SubmitEnd, FlushAndWait, FlushWake, SpuriousIdleWake, WorkerTake,
                FlushDone, FlushFailed, WorkerExit, StopWorker, vars
  <2> QED BY <1>1, <2>1
<1>6. CASE \E t \in Submitters : (\E B \in Batches : SubmitBatch(t, B)) \/ SubmitWake(t)
  BY <1>1, <1>2, <1>6
<1>7. CASE \E g \in Targets : FlushGroup(g) \/ FlushGroupFails(g)
  <2>1. PICK g \in Targets : FlushGroup(g) \/ FlushGroupFails(g)
    BY <1>7
  <2>2. UNCHANGED <<unpublished, nextCommit>>
    BY <2>1 DEF FlushGroup, FlushGroupFails
  <2> QED BY <1>3, <2>1, <2>2
<1>8. CASE \E r \in worker.left : RetirePending(r)
  <2>1. PICK r \in worker.left : RetirePending(r)
    BY <1>8
  <2>2. UNCHANGED <<unpublished, nextCommit>>
    BY <2>1 DEF RetirePending
  <2> QED BY <1>4, <2>1, <2>2
<1>9. CASE \E t \in Submitters : \E u \in unpublished : PublishPending(t, u)
  BY <1>9, PublishWrites
<1> QED BY <1>5, <1>6, <1>7, <1>8, <1>9 DEF Next, WorkerStep, SubmitGoesOn, Destroyed

\* The manager implements LatestValue: to a reader, a property's value changes only when a
\* committing SubmitBatch publishes it, one key after the other and one batch after the other;
\* rotation, flushing, failure and shutdown are invisible, in the middle of a batch too.
THEOREM Refinement == Spec => ImplementsLatestValue
<1>1. Init => LV!Init
  <2> SUFFICES ASSUME Init PROVE LV!Init
    OBVIOUS
  <2>1. \A k \in Keys : Visible(k) = 0
    BY DEF Init, Visible, NoPending, DeltaCommits
  <2>2. nextCommit \in Nat \ {0} /\ Unwritten = {}
    BY OptionsAssumption DEF Init, FirstCommit, Unwritten
  <2> QED BY <2>1, <2>2 DEF LV!Init
<1>2. IInv /\ IInv' /\ [Next]_vars
        => [LV!Next]_<<[k \in Keys |-> Visible(k)], Unwritten, nextCommit>>
  <2> SUFFICES ASSUME IInv, IInv', [Next]_vars
               PROVE  [LV!Next]_<<[k \in Keys |-> Visible(k)], Unwritten, nextCommit>>
    OBVIOUS
  <2>1. CASE LV!Next
    BY <2>1
  <2>2. CASE (\A k \in Keys : Visible(k)' = Visible(k)) /\ UNCHANGED <<unpublished, nextCommit>>
    BY <2>2 DEF Unwritten
  <2> QED BY <2>1, <2>2, StepRefines
<1> QED BY <1>1, <1>2, Invariance, PTL DEF Spec, LV!Spec, ImplementsLatestValue
=============================================================================
