-------------------------- MODULE PropertyDeltaFile --------------------------
(***************************************************************************)
(* A property delta file (src/property_delta.cpp): how a batch of updates  *)
(* becomes an immutable file, when that file is believed, and what a read  *)
(* of it answers.  Create sorts the batch, drops the versions given again, *)
(* writes header, records and values to a temporary, syncs it, renames it  *)
(* and opens the result; the store then records the file in its manifest   *)
(* (PropertyDeltaStore::Attach) and, after a restart, opens every recorded *)
(* file or refuses to start (OpenAndRecover).                              *)
(*                                                                         *)
(* A file is a sequence of cells: the header, one per record, one per byte *)
(* of a value.  A cell is written or lost as a whole.  A process crash     *)
(* leaves what was written; a power loss keeps of a file that was not      *)
(* synced any prefix, or the whole with a cell that reads as zero, and may *)
(* lose a name whose directory was not synced.  The manifest's own records *)
(* are PropertyDeltaManifest; chains, merges and the removal of merged     *)
(* files are PropertyDeltaStore.  One Attach runs at a time: the update    *)
(* manager's flusher.                                                      *)
(***************************************************************************)
EXTENDS Naturals, FiniteSets, SequencesExt

CONSTANTS
    Batches,        \* what Attach may be given: sequences of records
    LogicalKeys,    \* the keys looked up
    MaxCommit,      \* the read sequences are 0 .. MaxCommit
    MaxGeneration,  \* bound on the files of one life of the store
    MaxFaults,      \* bound on failed calls, crashes and power losses together
    None            \* no answer

\* A batch is never empty: Attach refuses an empty one before it takes a generation.
ASSUME BatchesAssumption == \A b \in Batches : Len(b) > 0

ASSUME BoundsAssumption == MaxGeneration \in Nat

-----------------------------------------------------------------------------
(* The file's contents.                                                    *)

\* PropertyDeltaRecord: the logical key, the commit and the value.
KeyLess(k, l) ==
    \/ k.src < l.src
    \/ /\ k.src = l.src
       /\ \/ k.dst < l.dst
          \/ /\ k.dst = l.dst
             /\ \/ ~k.out /\ l.out
                \/ /\ k.out = l.out
                   /\ \/ k.type < l.type
                      \/ k.type = l.type /\ k.base < l.base

RecordLess(r, q) ==
    KeyLess(r.key, q.key) \/ (r.key = q.key /\ r.commit < q.commit)

SameVersion(r, q) == r.key = q.key /\ r.commit = q.commit

\* A set of records of different versions, in RecordLess's order.
InOrder(R) ==
    [i \in 1 .. Cardinality(R) |->
        CHOOSE r \in R : Cardinality({q \in R : RecordLess(q, r)}) = i - 1]

\* [mutant] The first record of a version stays.
SortedFirstGiven(b) ==
    InOrder({b[i] : i \in {i \in DOMAIN b :
                \A j \in 1 .. i - 1 : ~SameVersion(b[j], b[i])}})

\* stable_sort and the loop behind it: by key and commit, of one version the last given.
Sorted(b) ==
    InOrder({b[i] : i \in {i \in DOMAIN b :
                \A j \in i + 1 .. Len(b) : ~SameVersion(b[j], b[i])}})

Values(rs) == FlattenSeq([i \in DOMAIN rs |-> rs[i].value])

\* DeltaDiskRecord: the direction as a byte, the value by offset and length.
DiskRecord(rs, i) ==
    [cell |-> "record", src |-> rs[i].key.src, dst |-> rs[i].key.dst,
     out |-> IF rs[i].key.out THEN 1 ELSE 0, type |-> rs[i].key.type,
     base |-> rs[i].key.base, commit |-> rs[i].commit,
     offset |-> Len(Values(SubSeq(rs, 1, i - 1))), length |-> Len(rs[i].value)]

ByteCells(v) == [i \in DOMAIN v |-> [cell |-> "byte", byte |-> v[i]]]

\* ExtendChecksum: two payloads have one checksum only if they are equal.
Checksum(cells) == <<"fnv", cells>>

Commits(rs) == {rs[i].commit : i \in DOMAIN rs}

\* DeltaDiskHeader; the target is the same in every file here.
Header(rs, g) ==
    LET payload == [i \in DOMAIN rs |-> DiskRecord(rs, i)] \o ByteCells(Values(rs))
    IN  [cell |-> "header", generation |-> g, count |-> Len(rs), bytes |-> Len(Values(rs)),
         min |-> Min(Commits(rs)), max |-> Max(Commits(rs)), payload |-> Checksum(payload)]

\* What Create writes: header, records and values, in this order.
Image(b, g) ==
    LET rs == Sorted(b)
    IN  <<Header(rs, g)>> \o [i \in DOMAIN rs |-> DiskRecord(rs, i)]
                          \o ByteCells(Values(rs))

\* A block of the file that never reached the device.
Zero == [cell |-> "zero"]

DiskKey(d) ==
    [src |-> d.src, dst |-> d.dst, out |-> d.out # 0, type |-> d.type, base |-> d.base]

\* OpenAndValidate: the header is there and is one, the sizes add up to the file's, the
\* payload is what was summed, every value lies in the values and the records are sorted.
Validates(c) ==
    /\ Len(c) >= 1
    /\ c[1].cell = "header"
    /\ 1 + c[1].count <= Len(c)
    /\ 1 + c[1].count + c[1].bytes = Len(c)
    /\ c[1].payload = Checksum(Tail(c))
    /\ \A i \in 2 .. 1 + c[1].count :
          /\ c[i].offset <= c[1].bytes
          /\ c[i].length <= c[1].bytes - c[i].offset
          /\ i > 2 => ~RecordLess([key |-> DiskKey(c[i]), commit |-> c[i].commit],
                                  [key |-> DiskKey(c[i - 1]), commit |-> c[i - 1].commit])

\* PropertyDeltaFileMetadata, which the manifest repeats and recovery compares.
Metadata(c) ==
    [generation |-> c[1].generation, count |-> c[1].count, size |-> Len(c),
     min |-> c[1].min, max |-> c[1].max, payload |-> c[1].payload]

\* LoadDiskRecord
Loaded(c, i) == c[1 + i]

\* DiskRecordToRecord
ToRecord(c, d) ==
    [key |-> DiskKey(d), commit |-> d.commit,
     value |-> [j \in 1 .. d.length |-> c[1 + c[1].count + d.offset + j].byte]]

\* CompareDiskLogicalKey, of a record's bytes with the key asked for.
DiskKeyLess(d, k) ==
    LET direction == IF k.out THEN 1 ELSE 0
    IN  \/ d.src < k.src
        \/ /\ d.src = k.src
           /\ \/ d.dst < k.dst
              \/ /\ d.dst = k.dst
                 /\ \/ d.out < direction
                    \/ /\ d.out = direction
                       /\ \/ d.type < k.type
                          \/ d.type = k.type /\ d.base < k.base

\* The halving loop of Lookup over n records: the first position from `from` on that is not
\* below, as far as it looks.
Bisect(n, from, below) ==
    LET search[w \in (1 .. n + 1) \X (1 .. n + 1)] ==
            LET low == w[1]
                high == w[2]
                middle == low + (high - low) \div 2
            IN  IF low >= high THEN low
                ELSE IF middle \in below THEN search[<<middle + 1, high>>]
                ELSE search[<<low, middle>>]
    IN  search[<<from, n + 1>>]

\* The newest version of k a read at sequence s may see: the first record of the key, the
\* first one behind its visible versions, and the record before that one.
Lookup(c, k, s) ==
    LET n == c[1].count
        before == {i \in 1 .. n : DiskKeyLess(Loaded(c, i), k)}
        visible == {i \in 1 .. n : DiskKey(Loaded(c, i)) = k /\ Loaded(c, i).commit <= s}
        first == Bisect(n, 1, before)
        behind == Bisect(n, first, before \cup visible)
    IN  IF \/ n = 0
           \/ c[1].min > s
           \/ first > n
           \/ DiskKey(Loaded(c, first)) # k
           \/ behind = first
        THEN None
        ELSE LET d == Loaded(c, behind - 1)
             IN  IF DiskKey(d) # k \/ d.commit > s THEN None
                 ELSE [commit |-> d.commit, value |-> ToRecord(c, d).value]

\* What a merge visits.
ForEachRecord(c) == [i \in 1 .. c[1].count |-> ToRecord(c, Loaded(c, i))]

\* The batches are such that Create's own file opens, which is why OpenCreated's refusal is
\* never seen.  TLC evaluates this for the batches of its run; a proof for every batch would
\* be an induction over the records.
ASSUME FormatAssumption ==
    \A b \in Batches, g \in 1 .. MaxGeneration :
       /\ Image(b, g) \in Seq(Range(Image(b, g)))
       /\ Validates(Image(b, g))

-----------------------------------------------------------------------------
(* The files of a store, and the call that makes one.                      *)

VARIABLES
    durable,    \* durability == kProcessCrashSafe, an option of the database
    store,      \* "up", "down", or "refused": OpenAndRecover has failed
    generation, \* next_file_generation_
    pc,         \* where the call of Attach is
    temp,       \* the cells of the temporary; empty when there is none
    synced,     \* the temporary's cells are on the device
    files,      \* generation -> [cells, synced, named]: the files by their names
    open,       \* the generations that have a PropertyDeltaFile object
    recorded,   \* generation -> Metadata: the manifest's entries on disk
    tail,       \* "clean"; "dirty" behind a failed append; "unreadable" behind a later one
    given,      \* history: generation -> the batch of its latest Attach
    powerLost,  \* history: power was lost
    faults

vars == <<durable, store, generation, pc, temp, synced, files, open, recorded, tail,
          given, powerLost, faults>>

Init ==
    /\ durable \in BOOLEAN
    /\ store = "up"
    /\ generation = 1
    /\ pc = "idle"
    /\ temp = <<>>
    /\ synced = FALSE
    /\ files = <<>>
    /\ open = {}
    /\ recorded = <<>>
    /\ tail = "clean"
    /\ given = <<>>
    /\ powerLost = FALSE
    /\ faults = 0

\* f with x mapped to y.
With(f, x, y) == [z \in DOMAIN f \cup {x} |-> IF z = x THEN y ELSE f[z]]

\* The generation of the file in the making; fetch_add has moved the counter past it.
Current == generation - 1

\* Attach takes a generation and calls Create, which opens the temporary with O_EXCL.
Attach(b) ==
    /\ store = "up"
    /\ pc = "idle"
    /\ generation <= MaxGeneration
    /\ temp = <<>>
    /\ generation' = generation + 1
    /\ given' = With(given, generation, b)
    /\ pc' = "write"
    /\ UNCHANGED <<durable, store, temp, synced, files, open, recorded, tail, powerLost,
                   faults>>

\* WriteAll, one cell further.
Write ==
    /\ pc = "write"
    /\ temp' = Append(temp, Image(given[Current], Current)[Len(temp) + 1])
    /\ synced' = FALSE
    /\ pc' = IF Len(temp') = Len(Image(given[Current], Current)) THEN "sync" ELSE "write"
    /\ UNCHANGED <<durable, store, generation, files, open, recorded, tail, given,
                   powerLost, faults>>

\* [mutant] The temporary is closed without fdatasync.
CloseOnly ==
    /\ pc = "sync"
    /\ synced' = FALSE
    /\ pc' = "rename"
    /\ UNCHANGED <<durable, store, generation, temp, files, open, recorded, tail, given,
                   powerLost, faults>>

\* fdatasync, if the updates are to be durable, and close.
SyncAndClose ==
    /\ pc = "sync"
    /\ synced' = durable
    /\ pc' = "rename"
    /\ UNCHANGED <<durable, store, generation, temp, files, open, recorded, tail, given,
                   powerLost, faults>>

Rename ==
    /\ pc = "rename"
    /\ files' = With(files, Current, [cells |-> temp, synced |-> synced, named |-> FALSE])
    /\ temp' = <<>>
    /\ pc' = "directory"
    /\ UNCHANGED <<durable, store, generation, synced, open, recorded, tail, given,
                   powerLost, faults>>

\* SyncParentDirectory, if the updates are to be durable.
SyncDirectory ==
    /\ pc = "directory"
    /\ files' = [g \in DOMAIN files |->
                     [cells |-> files[g].cells, synced |-> files[g].synced,
                      named |-> files[g].named \/ durable]]
    /\ pc' = "open"
    /\ UNCHANGED <<durable, store, generation, temp, synced, open, recorded, tail, given,
                   powerLost, faults>>

\* Open reads the file back; what does not validate is not handed out.
OpenCreated ==
    /\ pc = "open"
    /\ open' = IF Validates(files[Current].cells) THEN open \cup {Current} ELSE open
    /\ pc' = IF Validates(files[Current].cells) THEN "record" ELSE "idle"
    /\ UNCHANGED <<durable, store, generation, temp, synced, files, recorded, tail, given,
                   powerLost, faults>>

\* AppendAdd: the update is acknowledged.
Record ==
    /\ pc = "record"
    /\ recorded' = With(recorded, Current, Metadata(files[Current].cells))
    /\ tail' = IF tail = "clean" THEN "clean" ELSE "unreadable"
    /\ pc' = "idle"
    /\ UNCHANGED <<durable, store, generation, temp, synced, files, open, given, powerLost,
                   faults>>

-----------------------------------------------------------------------------
(* What goes wrong.                                                        *)

\* A write, fdatasync, close or rename fails: the temporary is unlinked.
CreateFails ==
    /\ pc \in {"write", "sync", "rename"}
    /\ faults < MaxFaults
    /\ faults' = faults + 1
    /\ temp' = <<>>
    /\ pc' = "idle"
    /\ UNCHANGED <<durable, store, generation, synced, files, open, recorded, tail, given,
                   powerLost>>

\* The directory cannot be synced, or the file not be opened: it stays, unrecorded.
CreatedIsLeft ==
    /\ pc \in {"directory", "open"}
    /\ pc = "directory" => durable
    /\ faults < MaxFaults
    /\ faults' = faults + 1
    /\ pc' = "idle"
    /\ UNCHANGED <<durable, store, generation, temp, synced, files, open, recorded, tail,
                   given, powerLost>>

\* AppendAdd fails: the file is marked obsolete and its object's destructor unlinks it.  The
\* write may have failed, or have been whole and fdatasync failed.
RecordFails ==
    /\ pc = "record"
    /\ faults < MaxFaults
    /\ faults' = faults + 1
    /\ recorded' \in {recorded} \cup
           (IF durable THEN {With(recorded, Current, Metadata(files[Current].cells))} ELSE {})
    /\ tail' = IF tail = "clean" THEN "dirty" ELSE "unreadable"
    /\ open' = open \ {Current}
    /\ files' = [g \in DOMAIN files \ {Current} |-> files[g]]
    /\ pc' = "idle"
    /\ UNCHANGED <<durable, store, generation, temp, synced, given, powerLost>>

\* The process ends at any point; what it wrote stays.
Crash ==
    /\ store = "up"
    /\ faults < MaxFaults
    /\ faults' = faults + 1
    /\ store' = "down"
    /\ pc' = "idle"
    /\ open' = {}
    /\ UNCHANGED <<durable, generation, temp, synced, files, recorded, tail, given,
                   powerLost>>

\* What the device may hold of a file's cells.
Surviving(f) ==
    IF f.synced THEN {f.cells}
    ELSE {f.cells}
         \cup {SubSeq(f.cells, 1, n) : n \in 0 .. Len(f.cells) - 1}
         \cup {[f.cells EXCEPT ![n] = Zero] : n \in DOMAIN f.cells}

\* The machine ends at any point, and what is left is on the device.  The manifest may lose
\* the entries that were not synced: without durability any, with it the one whose
\* fdatasync failed.
PowerLoss ==
    /\ store # "refused"
    /\ faults < MaxFaults
    /\ faults' = faults + 1
    /\ store' = "down"
    /\ pc' = "idle"
    /\ open' = {}
    /\ powerLost' = TRUE
    /\ \E kept \in SUBSET DOMAIN files :
          /\ {g \in DOMAIN files : files[g].named} \subseteq kept
          /\ \E cells \in [kept -> UNION {Surviving(files[g]) : g \in kept}] :
                /\ \A g \in kept : cells[g] \in Surviving(files[g])
                /\ files' = [g \in kept |->
                                 [cells |-> cells[g], synced |-> TRUE, named |-> TRUE]]
    /\ \E G \in SUBSET DOMAIN recorded :
          /\ durable => DOMAIN recorded \cap DOMAIN files \subseteq G
          /\ recorded' = [g \in G |-> recorded[g]]
    /\ UNCHANGED <<durable, generation, temp, synced, tail, given>>

\* OpenAndRecover: the manifest is replayed, every recorded file opened and compared with
\* its entry; then the counter goes on behind the recorded files and RemoveOrphanFiles
\* takes the other files and the temporaries away.
Recovers ==
    /\ tail # "unreadable"
    /\ \A g \in DOMAIN recorded :
          /\ g \in DOMAIN files
          /\ Validates(files[g].cells)
          /\ Metadata(files[g].cells) = recorded[g]

Recover ==
    /\ store = "down"
    /\ store' = IF Recovers THEN "up" ELSE "refused"
    /\ IF Recovers
       THEN /\ open' = DOMAIN recorded
            /\ \E maximum \in {0} \cup DOMAIN recorded :
                  /\ \A g \in DOMAIN recorded : g <= maximum
                  /\ generation' = maximum + 1
            /\ files' = [g \in DOMAIN recorded |-> files[g]]
            /\ temp' = <<>>
            /\ tail' = "clean"
       ELSE UNCHANGED <<open, generation, files, temp, tail>>
    /\ UNCHANGED <<durable, pc, synced, recorded, given, powerLost, faults>>

Next ==
    \/ \E b \in Batches : Attach(b)
    \/ Write
    \/ SyncAndClose
    \/ Rename
    \/ SyncDirectory
    \/ OpenCreated
    \/ Record
    \/ CreateFails
    \/ CreatedIsLeft
    \/ RecordFails
    \/ Crash
    \/ PowerLoss
    \/ Recover

Spec == Init /\ [][Next]_vars

-----------------------------------------------------------------------------
(* Correctness.                                                            *)

\* What the batch itself says of key k at read sequence s: its newest version not newer
\* than s, and of one version the record given last.
Newest(b, k, s) ==
    LET visible == {i \in DOMAIN b : b[i].key = k /\ b[i].commit <= s}
        last == {i \in visible : \A j \in visible :
                     b[j].commit < b[i].commit \/ (b[j].commit = b[i].commit /\ j <= i)}
    IN  IF visible = {} THEN None
        ELSE LET r == b[CHOOSE i \in last : TRUE] IN [commit |-> r.commit, value |-> r.value]

\* Every file that can be read answers as the batch it was made of does: Create's sort, its
\* offsets and Lookup's two searches agree for every key and every read sequence, before and
\* after crashes, power losses and the reuse of a generation; and a merge visits each version
\* of the batch once.
FilesAnswer ==
    \A g \in open :
       LET c == files[g].cells
       IN  /\ \A k \in LogicalKeys, s \in 0 .. MaxCommit :
                 Lookup(c, k, s) = Newest(given[g], k, s)
           /\ ForEachRecord(c) = Sorted(given[g])

\* A store refuses to start only because an append to its manifest failed, or because power
\* was lost and durability was not asked for: write, sync, rename, sync, record come in an
\* order in which a process crash, and with kProcessCrashSafe a power loss, at any point
\* between them leaves every recorded file whole.
RefusedOnlyWhenAllowed ==
    store = "refused" => tail # "clean" \/ (powerLost /\ ~durable)

\* The same, file by file, and before the restart.
RecordedIsWhole ==
    (tail = "clean" /\ (durable \/ ~powerLost)) =>
        \A g \in DOMAIN recorded :
           /\ g \in DOMAIN files
           /\ files[g].cells = Image(given[g], g)
           /\ recorded[g] = Metadata(files[g].cells)
=============================================================================
