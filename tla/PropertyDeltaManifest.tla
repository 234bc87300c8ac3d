----------------------- MODULE PropertyDeltaManifest -----------------------
(***************************************************************************)
(* The append-only manifest of a delta store                               *)
(* (src/src/property_delta_manifest.cpp): records appended under a mutex,  *)
(* writes that fail or are cut by a crash, and the scan that recovers the  *)
(* active entries, truncates a torn tail, or refuses the file.             *)
(*                                                                         *)
(* The file is a sequence of cells.  A record fills Size(r) of them: its   *)
(* header up to the payload length, the rest of its header, its payload.   *)
(* A write cut inside the first cell leaves a cell that is not whole.      *)
(***************************************************************************)
EXTENDS Integers, Sequences, FiniteSets

CONSTANTS
    Files,        \* names of delta files
    MaxRecords,   \* bound: appends in a behaviour
    MaxFailures,  \* bound: appends that fail
    MaxCrashes    \* bound: crashes

ASSUME BoundsAssumption ==
    MaxRecords \in Nat /\ MaxFailures \in Nat /\ MaxCrashes \in Nat

HeaderCells == 2

\* What a record asks for: an add of one entry, or the removal of several files.
Add == [type : {"kAddRecord"}, files : {{f} : f \in Files}, persistent : BOOLEAN]
Remove == [type : {"kRemoveRecord"}, files : SUBSET Files \ {{}}, persistent : {FALSE}]
Edit == Add \cup Remove

\* Records are told apart by id; seq is the edit sequence in their header.
Record == [id : Nat, seq : Nat, edit : Edit]

\* An add's payload is longer than the shortest removal's.
Size(r) == HeaderCells + (IF r.edit.type = "kAddRecord" THEN 3 ELSE Cardinality(r.edit.files))

VARIABLES
    log,       \* cells of the MANIFEST file
    state,     \* "open", "closed", or "refused" by the last OpenAndRecover
    active,    \* active_entries_: the files with an entry, and their persistence
    nextEdit,  \* next_edit_sequence_
    written,   \* history: the entries that the acknowledged edits leave
    cut,       \* history: the edits whose append failed or was cut since the last Open
    behind,    \* history: an append has succeeded behind a failed one
    records, failures, crashes

vars == <<log, state, active, nextEdit, written, cut, behind, records, failures, crashes>>

Entries == [file : Files, persistent : BOOLEAN]

Init ==
    /\ log = <<>>
    /\ state = "open"
    /\ active = {} /\ nextEdit = 1
    /\ written = {} /\ cut = {} /\ behind = FALSE
    /\ records = 0 /\ failures = 0 /\ crashes = 0

\* ApplyAdd replaces the entry of its file; ApplyRemove drops those of its files.
Apply(entries, e) ==
    {x \in entries : x.file \notin e.files}
    \cup (IF e.type = "kAddRecord"
          THEN {[file |-> f, persistent |-> e.persistent] : f \in e.files} ELSE {})

-----------------------------------------------------------------------------
(* OpenAndRecover's scan.                                                  *)

CellsOf(r) == [i \in 1 .. Size(r) |-> [rec |-> r, at |-> i, whole |-> TRUE]]

\* Where the scan of the file ends: the offset and the result so far.
Stopped(at, entries, seq, ok) == [at |-> at, entries |-> entries, seq |-> seq, ok |-> ok]

\* Mutant of Mismatch: a torn record must be shorter than its length field says.
MismatchIsBad(size, left) == "bad"

\* A wrong checksum is forgiven in the last record of the file.
Mismatch(size, left) == IF size = left THEN "torn" ELSE "bad"

\* What the scan does with the record that starts behind offset `at` of the file.
\* `torn` ends it with what was read before, `bad` refuses the file.
Verdict(file, at, seq) ==
    LET left == Len(file) - at
        r == file[at + 1].rec
    IN  IF left < HeaderCells THEN "torn"
        ELSE IF ~(file[at + 1].at = 1 /\ file[at + 1].whole) THEN "bad"
        ELSE IF Size(r) > left THEN "torn"
        ELSE IF SubSeq(file, at + 1, at + Size(r)) # CellsOf(r)
             THEN Mismatch(Size(r), left)
        ELSE IF r.seq <= seq THEN "bad"
        ELSE "record"

\* Scan(file)[at] is the result of the loop entered at offset `at` with nothing read yet.
Scan(file) ==
    LET From[at \in 0 .. Len(file), seq \in 0 .. MaxRecords, entries \in SUBSET Entries] ==
          IF at = Len(file) THEN Stopped(at, entries, seq, TRUE)
          ELSE LET v == Verdict(file, at, seq)
                   r == file[at + 1].rec
               IN  IF v = "record" THEN From[at + Size(r), r.seq, Apply(entries, r.edit)]
                   ELSE Stopped(at, entries, seq, v = "torn")
    IN  From[0, 0, {}]

\* ftruncate to the end of the last valid record.
Truncated(file) == SubSeq(file, 1, Scan(file).at)

NextEdit(s) == s.seq + 1

\* What an OpenAndRecover that ends at s does.
Opened(s) ==
    /\ state' = "open"
    /\ active' = s.entries
    /\ nextEdit' = NextEdit(s)
    /\ written' = s.entries

Open ==
    /\ state = "closed"
    /\ LET s == Scan(log)
       IN  \/ s.ok /\ Opened(s) /\ log' = Truncated(log)
           \/ ~s.ok /\ state' = "refused" /\ UNCHANGED <<log, active, nextEdit, written>>
    /\ cut' = {}
    /\ UNCHANGED <<behind, records, failures, crashes>>

\* pread fails on a record: the scan ends there as if the file were torn, and what follows
\* is truncated, acknowledged or not.
OpenMisread ==
    /\ state = "closed" /\ failures < MaxFailures
    /\ failures' = failures + 1
    /\ \E at \in 0 .. Len(log) - 1 :
          LET read == SubSeq(log, 1, at)
          IN  /\ Scan(read).at = at
              /\ Opened(Scan(read))
              /\ log' = Truncated(read)
    /\ cut' = {}
    /\ UNCHANGED <<behind, records, crashes>>

-----------------------------------------------------------------------------
(* AppendAdd and AppendRemove: AppendRecord, then the entries in memory.   *)

\* Mutant of NextRecord: every record carries the same edit sequence.
SameSequence(e) == [id |-> records + 1, seq |-> 1, edit |-> e]

NextRecord(e) == [id |-> records + 1, seq |-> nextEdit, edit |-> e]

AppendRecord(e) ==
    /\ state = "open" /\ records < MaxRecords
    /\ log' = log \o CellsOf(NextRecord(e))
    /\ active' = Apply(active, e)
    /\ nextEdit' = nextEdit + 1
    /\ records' = records + 1
    /\ written' = Apply(written, e)
    /\ behind' = (behind \/ cut # {})
    /\ UNCHANGED <<state, cut, failures, crashes>>

\* What a write may leave of a record: some of its cells, part of the first, or all of
\* them with the last one wrong.
Pieces(r) == {SubSeq(CellsOf(r), 1, n) : n \in 0 .. Size(r)}
             \cup {<<[rec |-> r, at |-> 1, whole |-> FALSE]>>}
             \cup {[CellsOf(r) EXCEPT ![Size(r)].whole = FALSE]}

\* write or fdatasync fails.  What was written stays; the sequence is not used up.
AppendFails(e) ==
    /\ state = "open" /\ records < MaxRecords /\ failures < MaxFailures
    /\ \E piece \in Pieces(NextRecord(e)) : log' = log \o piece
    /\ records' = records + 1
    /\ failures' = failures + 1
    /\ cut' = cut \cup {e}
    /\ UNCHANGED <<state, active, nextEdit, written, behind, crashes>>

\* The process stops (kProcessCrashSafe: what was written stays), or the manifest is closed.
Crash ==
    /\ state = "open" /\ crashes < MaxCrashes
    /\ crashes' = crashes + 1
    /\ state' = "closed"
    /\ UNCHANGED <<log, active, nextEdit, written, cut, behind, records, failures>>

CrashInAppend(e) ==
    /\ state = "open" /\ records < MaxRecords /\ crashes < MaxCrashes
    /\ crashes' = crashes + 1
    /\ state' = "closed"
    /\ \E piece \in Pieces(NextRecord(e)) : log' = log \o piece
    /\ records' = records + 1
    /\ cut' = cut \cup {e}
    /\ behind' = (behind \/ cut # {})
    /\ UNCHANGED <<active, nextEdit, written, failures>>

Next ==
    \/ \E e \in Edit : AppendRecord(e) \/ AppendFails(e) \/ CrashInAppend(e)
    \/ Crash
    \/ Open \/ OpenMisread

Spec == Init /\ [][Next]_vars

-----------------------------------------------------------------------------
(* Properties.                                                             *)

\* The scan gives the acknowledged edits, with or without one whose append did not finish.
Faithful(s) == s.ok /\ s.entries \in {written} \cup {Apply(written, e) : e \in cut}

\* Recovery is exact: at any moment the file replays to what was acknowledged, through torn
\* headers, torn payloads and repeated crashes, unless an append went behind one that had
\* failed.  A record that could not be read is gone for good, so `written` restarts there.
RecoversAcknowledged == (state # "refused" /\ ~behind) => Faithful(Scan(log))

\* Only an append behind a failed one makes a manifest that recovery refuses.
RefusedOnlyBehindFailure == state = "refused" => behind
=============================================================================
