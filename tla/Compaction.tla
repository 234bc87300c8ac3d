----------------------------- MODULE Compaction -----------------------------
(***************************************************************************)
(* Leveled compaction of one shard (src/src/compaction.cpp,                *)
(* src/core/compaction.h): the choice of input files over several vertices *)
(* and levels, the merges of their records, the writer that cuts the       *)
(* output into files, the level index of every vertex, the move of a file  *)
(* to the next level, and the partition of a merge among workers.          *)
(*                                                                         *)
(* A record is a source vertex and a sequence number, a file the sequence  *)
(* of its records.  Flushed files enter level 0 one at a time; LSMStore    *)
(* has the threads, versions and reference counts around a compaction.     *)
(***************************************************************************)
EXTENDS Integers, Sequences, FiniteSets, FiniteSetsExt, SequencesExt

CONSTANTS
    Vertices,     \* source vertices, a set of naturals
    FlushSets,    \* the sets of vertices a flushed memtable may hold
    LastLevel,    \* MAX_LEVEL - 1
    Limit,        \* LevelMaxSize of each level
    MaxFile,      \* MAX_EFILE_SiZE, in records
    BodyBuffer,   \* BODY_BUFFER_SIZE
    Segments,     \* segment_num of GenSubcompactionBoundaries
    SstableSize,  \* FLAGS_sstable_size
    Workers,      \* max_subcompactions_
    MaxFlushes    \* bound: files flushed in a behaviour

ASSUME CompactionAssumption ==
    /\ Vertices \subseteq Nat /\ FlushSets \subseteq SUBSET Vertices \ {{}}
    /\ LastLevel \in Nat \ {0}
    /\ Limit \in [0 .. LastLevel -> Nat \ {0}]
    /\ MaxFile \in Nat \ {0} /\ BodyBuffer \in Nat \ {0, 1}
    /\ Segments \in Nat \ {0} /\ SstableSize \in Nat /\ Workers \in Nat \ {0}
    /\ MaxFlushes \in Nat

VARIABLES
    sst,       \* the records of every SST on disk, by file id
    levels,    \* fileMetaCache_: the file ids of each level
    findex,    \* vid_to_mullevelIndex_: per vertex min_level_0_fid and its file at each level
    maxLevel,  \* vertex_max_level_
    pointer,   \* compact_pointer_
    nextFid,   \* currentTime
    flushed,   \* history: the records flushed so far; their sequence numbers count the flushes
    unended,   \* history: the records of outputs that were never ended
    comp       \* the compaction in progress

vars == <<sst, levels, findex, maxLevel, pointer, nextFid, flushed, unended, comp>>

Record == [src : Vertices, seq : 1 .. MaxFlushes]
NoFile == 0     \* INVALID_File_ID
Unset == -1     \* compact_pointer_ before the first compaction of its level

IdleComp == [pc |-> "idle", level |-> 0, in0 |-> <<>>, in1 |-> <<>>, ways |-> <<>>, fid |-> NoFile,
             out |-> <<>>, ptr |-> 0, force |-> FALSE]

Init ==
    /\ sst = [f \in {} |-> <<>>]
    /\ levels = [l \in 0 .. LastLevel |-> <<>>]
    /\ findex = [v \in Vertices |-> [min0 |-> 0, file |-> [l \in 1 .. LastLevel |-> NoFile]]]
    /\ maxLevel = [v \in Vertices |-> -1]
    /\ pointer = [l \in 0 .. LastLevel |-> Unset]
    /\ nextFid = 1 /\ flushed = {} /\ unended = {} /\ comp = IdleComp

Flushes == IF flushed = {} THEN 0 ELSE Max({r.seq : r \in flushed})

\* EdgeRecord::operator<: the newer record of an edge comes first.
Less(a, b) == a.src < b.src \/ (a.src = b.src /\ a.seq > b.seq)

Sources(f) == {r.src : r \in Range(sst[f])}
MinKey(f) == sst[f][1].src
MaxKey(f) == Last(sst[f]).src
ByMinKey(S) == SetToSortSeq(S, LAMBDA f, g : MinKey(f) < MinKey(g))

\* vertex_max_level_ after the vertices got a file in a level; it is one above the level.
Deepened(vs, l) == [v \in Vertices |-> IF v \in vs THEN Max({maxLevel[v], l + 1}) ELSE maxLevel[v]]

\* Level 0 takes a flushed file only below its limit; it lists the newest file first.
Flush(S) ==
    LET rec(v) == [src |-> v, seq |-> Flushes + 1]
    IN  /\ Flushes < MaxFlushes /\ Len(levels[0]) < Limit[0]
        /\ sst' = [f \in DOMAIN sst \cup {nextFid} |->
                      IF f = nextFid THEN SetToSortSeq({rec(v) : v \in S}, Less) ELSE sst[f]]
        /\ levels' = [levels EXCEPT ![0] = <<nextFid>> \o @]
        /\ maxLevel' = Deepened(S, 0)
        /\ nextFid' = nextFid + 1
        /\ flushed' = flushed \cup {rec(v) : v \in S}
        /\ UNCHANGED <<findex, pointer, unended, comp>>

-----------------------------------------------------------------------------
(* The choice of the inputs.                                               *)

\* GetRange, GetRange2
RangeOf(S) == Min({MinKey(f) : f \in S}) .. Max({MaxKey(f) : f \in S})
Overlaps(f, range) == MinKey(f) .. MaxKey(f) \cap range # {}

\* GetOverlappingInputs: at level 0 a file that widens the range starts the search again, so
\* the result is the least set that is closed under overlap.
Overlapping(level, range) ==
    LET all == Range(levels[level])
        closed == {S \in SUBSET all : \A f \in all :
                      (Overlaps(f, range) \/ (S # {} /\ Overlaps(f, RangeOf(S)))) => f \in S}
    IN  SelectSeq(levels[level], LAMBDA f :
            IF level = 0 THEN \A S \in closed : f \in S ELSE Overlaps(f, range))

\* The first file behind the pointer, or the first file of the level.
StartFile(level) ==
    LET behind == {i \in DOMAIN levels[level] :
                      pointer[level] = Unset \/ MinKey(levels[level][i]) > pointer[level]}
    IN  IF behind = {} THEN levels[level][1] ELSE levels[level][Min(behind)]

\* Mutant of PickedFiles: level 0 is taken to be free of overlaps, like the others.
PickedAlone(level) == <<StartFile(level)>>

\* PickCompactioFile
PickedFiles(level) ==
    IF level = 0 THEN Overlapping(0, RangeOf({StartFile(0)})) ELSE <<StartFile(level)>>

\* Mutant of Grown: the wider set is taken although it needs more files of the next level.
GrownAlways(level, in0, in1) ==
    LET wide0 == Overlapping(level, RangeOf(Range(in0 \o in1)))
    IN  IF in1 = <<>> THEN [in0 |-> in0, in1 |-> in1] ELSE [in0 |-> wide0, in1 |-> in1]

\* SetupOtherInputs: more files of the level join if they need no more of the next one.
Grown(level, in0, in1) ==
    LET wide0 == Overlapping(level, RangeOf(Range(in0 \o in1)))
        wide1 == Overlapping(level + 1, RangeOf(Range(wide0)))
    IN  IF in1 # <<>> /\ Len(wide0) > Len(in0) /\ Len(wide1) = Len(in1)
        THEN [in0 |-> wide0, in1 |-> wide1]
        ELSE [in0 |-> in0, in1 |-> in1]

Inputs(level) ==
    LET in0 == PickedFiles(level)
    IN  Grown(level, in0, Overlapping(level + 1, RangeOf(Range(in0))))

\* The inputs of level 0 stay in their version, the others leave fileMetaCache_.
RemoveCache(lv, level, in) ==
    LET without(l, s) == SelectSeq(lv[l], LAMBDA f : f \notin Range(s))
    IN  [lv EXCEPT ![level] = IF level = 0 THEN @ ELSE without(level, in.in0),
                   ![level + 1] = without(level + 1, in.in1)]

Records(s) == [i \in DOMAIN s |-> sst[s[i]]]

\* ProcessMultiWaysCompaction merges the files one by one.
MultiWays(in) == Records(in.in0 \o in.in1)

\* DoCompactionWorkTwoWay reads the files of a level one after the other.
TwoWays(in) == <<FlattenSeq(Records(in.in0)), FlattenSeq(Records(in.in1))>>

\* PreCompaction, and the writer is opened with the next file id.
StartMerge(level, in, force) ==
    /\ levels' = RemoveCache(levels, level, in)
    /\ comp' = [IdleComp EXCEPT !.pc = "merge", !.level = level, !.in0 = in.in0, !.in1 = in.in1,
                                !.ways = IF level = 0 THEN MultiWays(in) ELSE TwoWays(in),
                                !.fid = nextFid, !.force = force]
    /\ nextFid' = nextFid + 1

\* MaybeScheduleCompaction, when level 0 is full.
Begin ==
    /\ comp.pc = "idle" /\ Len(levels[0]) >= Limit[0]
    /\ comp' = [IdleComp EXCEPT !.pc = "check"]
    /\ UNCHANGED <<sst, levels, findex, maxLevel, pointer, nextFid, flushed, unended>>

Full(level) == level < LastLevel /\ Len(levels[level]) >= Limit[level]

\* One turn of the loop of BackgroundCompaction, where the inputs have to be merged.
Pick ==
    LET l == comp.level
        in == Inputs(l)
    IN  /\ comp.pc = "check" /\ Full(l)
        /\ l = 0 \/ in.in1 # <<>>
        /\ pointer' = [pointer EXCEPT ![l] = Max(RangeOf(Range(in.in0)))]
        /\ StartMerge(l, in, FALSE)
        /\ UNCHANGED <<sst, findex, maxLevel, flushed, unended>>

\* Mutant of IndexMoved: the entry of the old level stays.
IndexCopied(e, level) == [e EXCEPT !.file[level + 1] = e.file[level]]

\* UpdataLevelIndex, for one vertex.
IndexMoved(e, level) == [e EXCEPT !.file[level + 1] = e.file[level], !.file[level] = NoFile]

\* DirectAdjustLevel: nothing below overlaps, and the file only changes its level.
DirectAdjustLevel ==
    LET l == comp.level
        in == Inputs(l)
        vs == UNION {Sources(f) : f \in Range(in.in0)}
    IN  /\ comp.pc = "check" /\ Full(l) /\ l > 0 /\ in.in1 = <<>>
        /\ pointer' = [pointer EXCEPT ![l] = Max(RangeOf(Range(in.in0)))]
        /\ levels' = [levels EXCEPT ![l] = SelectSeq(@, LAMBDA f : f \notin Range(in.in0)),
                                    ![l + 1] = ByMinKey(Range(@) \cup Range(in.in0))]
        /\ findex' = [v \in Vertices |-> IF v \in vs THEN IndexMoved(findex[v], l) ELSE findex[v]]
        /\ maxLevel' = Deepened(vs, l + 1)
        /\ comp' = [comp EXCEPT !.pc = "next"]
        /\ UNCHANGED <<sst, nextFid, flushed, unended>>

\* ForceCompactAllL0ToL1: every file of level 0, whatever their number.
ForceCompact ==
    LET in0 == levels[0]
    IN  /\ comp.pc = "idle" /\ in0 # <<>>
        /\ StartMerge(0, [in0 |-> in0, in1 |-> Overlapping(1, RangeOf(Range(in0)))], TRUE)
        /\ UNCHANGED <<sst, findex, maxLevel, pointer, flushed, unended>>

-----------------------------------------------------------------------------
(* The merge and its writer.                                               *)

\* Mutant of MinWay: the first way that still has a record.
FirstWay(ways) == Min({i \in DOMAIN ways : ways[i] # <<>>})

\* The way with the least record, the first of them on a tie.
MinWay(ways) ==
    LET open == {i \in DOMAIN ways : ways[i] # <<>>}
    IN  CHOOSE i \in open : \A j \in open :
            ~Less(ways[j][1], ways[i][1]) /\ (j < i => Less(ways[i][1], ways[j][1]))

\* WriteEnd, for one vertex under its lock: the output replaces the entries of its inputs, and
\* a vertex compacted from level 0 is no longer read from files up to the newest input.
IndexWritten(e) ==
    [e EXCEPT !.file = [l \in 1 .. LastLevel |->
                            IF l = comp.level + 1 THEN comp.fid
                            ELSE IF l = comp.level /\ @[l] \in Range(comp.in0) THEN NoFile ELSE @[l]],
              !.min0 = IF comp.level = 0 THEN Max(Range(comp.in0)) + 1 ELSE @]

\* SSTableWriter::WriteEnd: the file is written and indexed, then it enters the next level.
WriteEnd ==
    LET vs == {r.src : r \in Range(comp.out)}
        l == comp.level + 1
    IN  /\ sst' = [f \in DOMAIN sst \cup {comp.fid} |-> IF f = comp.fid THEN comp.out ELSE sst[f]]
        /\ findex' = [v \in Vertices |-> IF v \in vs THEN IndexWritten(findex[v]) ELSE findex[v]]
        /\ maxLevel' = Deepened(vs, l)
        /\ levels' = [levels EXCEPT ![l] = SetToSortSeq(Range(@) \cup {comp.fid},
                          LAMBDA f, g : sst'[f][1].src < sst'[g][1].src)]

\* A file ends only where the source vertex changes.
FileFull(r) == Len(comp.out) >= MaxFile /\ Last(comp.out).src # r.src

\* edge_ptr_ after a record: the body buffer is written out with one place left in it.
Buffered(n) == IF n + 1 >= BodyBuffer - 1 THEN 0 ELSE n + 1

\* Way::NextEdgeRecord
Advance(ways, i) == [ways EXCEPT ![i] = Tail(@)]

\* SSTableWriter::Write, when the record fits.
Written(c, r) == [c EXCEPT !.out = Append(@, r), !.ptr = Buffered(@)]

\* One turn of a merge loop: the least record goes to the writer, and to a new file if that is full.
Write ==
    LET i == MinWay(comp.ways)
        r == comp.ways[i][1]
        next == [comp EXCEPT !.ways = Advance(@, i)]
    IN  /\ comp.pc = "merge" /\ \E w \in Range(comp.ways) : w # <<>>
        /\ \/ /\ ~FileFull(r)
              /\ comp' = Written(next, r)
              /\ UNCHANGED <<sst, levels, findex, maxLevel, nextFid>>
           \/ /\ FileFull(r)
              /\ WriteEnd
              /\ comp' = Written([next EXCEPT !.out = <<>>, !.ptr = 0, !.fid = nextFid], r)
              /\ nextFid' = nextFid + 1
        /\ UNCHANGED <<pointer, flushed, unended>>

\* IsClear: nothing is in the body buffer, be it that nothing was written to the file or that
\* its last record filled the buffer.
IsClear == comp.ptr = 0

\* The ways are used up; the last file is ended unless the writer is clear.
FinishMerge ==
    /\ comp.pc = "merge" /\ \A w \in Range(comp.ways) : w = <<>>
    /\ \/ ~IsClear /\ WriteEnd /\ UNCHANGED unended
       \/ /\ IsClear
          /\ unended' = unended \cup Range(comp.out)
          /\ UNCHANGED <<sst, levels, findex, maxLevel>>
    /\ comp' = [comp EXCEPT !.pc = "publish"]
    /\ UNCHANGED <<pointer, nextFid, flushed>>

\* Level 0 gets a version without the inputs, and every input loses its first reference.
Publish ==
    LET ins == Range(comp.in0) \cup Range(comp.in1)
    IN  /\ comp.pc = "publish"
        /\ levels' = [levels EXCEPT ![0] = SelectSeq(@, LAMBDA f : f \notin ins)]
        /\ sst' = [f \in DOMAIN sst \ ins |-> sst[f]]
        /\ comp' = IF comp.force THEN IdleComp ELSE [IdleComp EXCEPT !.pc = "next", !.level = comp.level]
        /\ UNCHANGED <<findex, maxLevel, pointer, nextFid, flushed, unended>>

\* A level above its limit is compacted again, otherwise it is the next level's turn.
NextLevel ==
    /\ comp.pc = "next"
    /\ comp' = [comp EXCEPT !.pc = "check",
                            !.level = IF Len(levels[@]) > Limit[@] THEN @ ELSE @ + 1]
    /\ UNCHANGED <<sst, levels, findex, maxLevel, pointer, nextFid, flushed, unended>>

End ==
    /\ comp.pc = "check" /\ ~Full(comp.level)
    /\ comp' = IdleComp
    /\ UNCHANGED <<sst, levels, findex, maxLevel, pointer, nextFid, flushed, unended>>

CompactStep == Pick \/ DirectAdjustLevel \/ Write \/ FinishMerge \/ Publish \/ NextLevel \/ End

Next == (\E S \in FlushSets : Flush(S)) \/ Begin \/ ForceCompact \/ CompactStep

Spec == Init /\ [][Next]_vars

-----------------------------------------------------------------------------
(* The partition of a level-0 merge among workers (DoSubCompactionWork).   *)

\* The sentinel that ends an index, behind every vertex.
Sentinel == Max(Vertices) + 1

\* The offset of the first record whose source is not below v.
Offset(f, v) == Cardinality({i \in DOMAIN sst[f] : sst[f][i].src < v})

\* The header counts the sentinel as a record.
HeaderSize(f) == Len(sst[f]) + 1

\* Anchors of a file: a source vertex and the number of records up to the next anchor.
AnchorsOf(f) ==
    LET size(acc, v) == Offset(f, v) - Offset(f, acc.from)
        step(acc, v) == IF size(acc, v) > HeaderSize(f) \div Segments
                        THEN [from |-> v, out |-> acc.out \cup {<<acc.from, size(acc, v)>>}] ELSE acc
        end == FoldLeft(LAMBDA acc, r : step(acc, r.src), [from |-> MinKey(f), out |-> {}], sst[f])
    IN  end.out \cup {<<end.from, size(end, Sentinel)>>}

\* Of the anchors that begin at the same vertex std::unique keeps one; which one is open.
AnchorSizes(ins) ==
    LET all == UNION {AnchorsOf(f) : f \in ins}
    IN  {g \in [{a[1] : a \in all} -> {a[2] : a \in all}] : \A v \in DOMAIN g : <<v, g[v]>> \in all}

\* GenSubcompactionBoundaries: a boundary where the anchors have passed another worker's share.
Boundaries(ins, g) ==
    LET share == Max({MapThenSumSet(HeaderSize, ins) \div Workers, SstableSize})
        step(acc, v) ==
            LET sum == acc.sum + g[v]
                cut == acc.n < Workers /\ sum > acc.n * share
            IN  [sum |-> sum, n |-> IF cut THEN acc.n + 1 ELSE acc.n,
                 out |-> IF cut THEN acc.out \cup {v} ELSE acc.out]
    IN  FoldLeft(step, [sum |-> 0, n |-> 1, out |-> {}], SetToSortSeq(DOMAIN g, <)).out

\* Mutant of LowBound: the first key behind the boundary.
UpperBound(f, v) == Min({u \in Sources(f) : u > v} \cup {Sentinel})

\* The first key of the index that is not below v, or the sentinel.
LowBound(f, v) == Min({u \in Sources(f) : u >= v} \cup {Sentinel})

\* The WayAnchors of a file: a piece begins with its first key and at every boundary inside it.
Pieces(f, bds) ==
    LET begins == {MinKey(f)} \cup ({LowBound(f, b) : b \in bds} \ {Sentinel})
        keys(b) == {v \in Sources(f) : v >= b /\ \A c \in begins : c > b => v < c}
    IN  {[file |-> f, begin |-> b, end |-> Max(keys(b))] : b \in begins}

\* Each worker takes the pieces that begin below its boundary, the caller what is left.  (Every
\* boundary is a key of some input, so the loop over the pieces always stops at it.)
WorkerPieces(all, bds, b) ==
    {p \in all : p.begin >= b /\ \A c \in bds : c > b => p.begin < c}

\* ProcessMultiWaysCompactionOpt lines up pieces that do not overlap in one way.
PackedWays(pieces) ==
    LET step(acc, p) ==
            LET fit == {w \in DOMAIN acc : p.begin > acc[w]}
            IN  IF fit = {} THEN Append(acc, p.end) ELSE [acc EXCEPT ![Min(fit)] = p.end]
    IN  FoldLeft(step, <<>>, SetToSortSeq(pieces, LAMBDA p, q : p.begin < q.begin))

-----------------------------------------------------------------------------
(* Properties.                                                             *)

\* The places a scan of v visits: the unmasked files of level 0, and its file of every level.
Places(v) == ({0} \X {f \in Range(levels[0]) : f >= findex[v].min0})
             \cup {<<l, findex[v].file[l]>> : l \in {m \in 1 .. LastLevel : findex[v].file[m] # NoFile}}
Content(f) == IF f \in DOMAIN sst THEN Range(sst[f]) ELSE {}
RecordsIn(f, v) == {r \in Content(f) : r.src = v}

\* A file below level 0 is in the order its readers search by, and the files of such a level
\* are ordered and share no vertex: a two-way merge and the single index entry rely on it.
LevelsSorted ==
    /\ \A f \in DOMAIN sst : \A i, j \in DOMAIN sst[f] : i < j => Less(sst[f][i], sst[f][j])
    /\ \A l \in 1 .. LastLevel : \A i, j \in DOMAIN levels[l] :
          i < j => MaxKey(levels[l][i]) < MinKey(levels[l][j])

\* It is in a level-0 file or in a file that the index of its vertex names.
Kept(r) ==
    \E f \in Range(levels[0]) \cup (Range(findex[r.src].file) \ {NoFile}) : r \in Content(f)

\* No record is dropped by a merge, a cut, a move or a retired input.  The one way to lose it is
\* named: the last record of a merge fills the body buffer, the writer passes for clear, and its
\* file is neither ended nor indexed (compaction.h:1067) while the inputs are retired.
RecordsKept == \A r \in flushed : Kept(r) \/ r \in unended

\* Without that exception it does not hold.
EveryRecordKept == \A r \in flushed : Kept(r)

\* A scan of a vertex meets no record twice, also between the steps of a compaction: an input
\* is masked in the step that makes its output visible.
ScannedOnce ==
    \A v \in Vertices : \A p, q \in Places(v) :
        p # q => RecordsIn(p[2], v) \cap RecordsIn(q[2], v) = {}

\* Searches stop at the first level that has the edge: what a vertex has in a level is newer
\* than what it has below.
NewerAbove ==
    \A v \in Vertices :
        LET at(l) == IF findex[v].file[l] = NoFile THEN {} ELSE RecordsIn(findex[v].file[l], v)
            top == UNION {RecordsIn(f, v) : f \in {g \in Range(levels[0]) : g >= findex[v].min0}}
        IN  /\ \A l \in 1 .. LastLevel : \A a \in top, b \in at(l) : a.seq >= b.seq
            /\ \A l, m \in 1 .. LastLevel : l < m => \A a \in at(l), b \in at(m) : a.seq > b.seq

\* However its inputs are cut, a merge shared among workers gives every record to one of them,
\* their key ranges do not meet, and none merges more ways than it asserts.
WorkersShareNothing ==
    (comp.pc = "merge" /\ comp.level = 0 /\ comp.out = <<>>) =>
        LET ins == Range(comp.in0) \cup Range(comp.in1)
        IN  \A bds \in {Boundaries(ins, g) : g \in AnchorSizes(ins)} :
            \A all \in {UNION {Pieces(f, bds) : f \in ins}} :
            LET work(b) == WorkerPieces(all, bds, b)
                keys(b) == UNION {p.begin .. p.end : p \in work(b)}
                first == bds \cup {0}
            IN  /\ \A f \in ins : \A v \in Sources(f) :
                      \E b \in first : \E p \in work(b) : p.file = f /\ v \in p.begin .. p.end
                /\ \A b, c \in first : b # c => keys(b) \cap keys(c) = {}
                /\ \A b \in first : Len(PackedWays(work(b))) <= Limit[0] + 1

\* Every record is in a file that a scan or LocateEdge of its vertex searches: what
\* min_level_0_fid masks has been compacted.
NothingMasked == \A r \in flushed : \E p \in Places(r.src) : r \in Content(p[2])
=============================================================================
