----------------------------- MODULE Adjacency -----------------------------
(***************************************************************************)
(* The adjacency list of one vertex in one memtable (src/core/neighbors.h: *)
(* NewEdgeSL, an array of reserved entries that becomes a skip list), from *)
(* the first put to the level-0 file the save makes of it                  *)
(* (src/src/MemTable.cpp), and the lookups in the file's body              *)
(* (src/src/lsmstore.cpp).  Puts hold the lock of the vertex; point reads  *)
(* and scans (src/core/edge_iterator.h) hold none.  Reads change nothing,  *)
(* so one read in a behaviour meets every case.                            *)
(***************************************************************************)
EXTENDS Naturals, Sequences, FiniteSets, SequencesExt

CONSTANTS
    Self,            \* the vertex; a put of an edge to itself is bidirectional
    Kinds,           \* what clients put: records [dst, out, marker]
    Reads,           \* what they read: pairs of a destination and a direction
    Clients,         \* the number of threads that put
    Leftovers,       \* what an earlier use of the NewEdgeSL may have left in its array
    Older,           \* what older files the vertex may have: see Sources
    ReserveNode,     \* FLAGS_reserve_node
    MaxHeight,       \* kMaxHeight_
    BinaryThreshold, \* BINARY_THRESHOLD_FIND_EDGE
    BodyRange,       \* dst and seq keep 48 bits in a body: 2^48
    MaxPuts          \* bound: puts in a behaviour

ASSUME AdjacencyAssumption ==
    /\ Self \in Nat \ {0}
    /\ \A k \in Kinds : k.dst \in Nat \ {0} /\ k.out \in BOOLEAN /\ k.marker \in BOOLEAN
    /\ \A e \in Leftovers : e.seq = 0
    /\ ReserveNode \in Nat \ {0} /\ MaxHeight \in Nat \ {0} /\ MaxPuts \in Nat
    /\ Clients \in Nat \ {0} /\ MaxPuts < BodyRange

VARIABLES
    adj,      \* the NewEdgeSL
    put,      \* the put that holds the lock of the vertex and copies its entry or links its node
    waiting,  \* puts with a sequence number that wait for the lock
    puts,     \* sequence numbers given out
    save,     \* the save of the memtable
    older,    \* the older files of the vertex
    body,     \* the body of the file the save makes
    reader,
    done,     \* history: the sequence numbers of the puts that have returned
    prior     \* history: per sequence number, the puts that had returned when it was given out

vars == <<adj, put, waiting, puts, save, older, body, reader, done, prior>>

Entry == [dst : Nat, seq : Nat, out : BOOLEAN, marker : BOOLEAN]
HeadNode == [dst |-> 0, seq |-> 0, out |-> FALSE, marker |-> FALSE]
Null == [dst |-> 0, seq |-> 1, out |-> FALSE, marker |-> FALSE]
Heights == 1 .. MaxHeight

\* SkipList(): every level empty, prev_ at the head.
EmptyLevels == [i \in Heights |-> <<>>]
HeadOnly == [i \in Heights |-> HeadNode]

\* NewEdgeSL(); the list is made when the array is used up.
EmptyAdj == [array |-> <<>>, full |-> FALSE, levels |-> EmptyLevels, maxHeight |-> 1,
             prev |-> HeadOnly, prevHeight |-> 1]
IdlePut == [on |-> FALSE, node |-> Null, height |-> 0, level |-> 0]
IdleReader == [pc |-> "idle", op |-> "get", dst |-> 0, out |-> FALSE, node |-> Null, level |-> 0,
               bigger |-> Null, pos |-> 0, full |-> FALSE, torn |-> FALSE, start |-> {},
               seen |-> <<>>]

Init ==
    /\ adj = EmptyAdj /\ put = IdlePut /\ waiting = {} /\ puts = 0
    /\ save = [pc |-> "none", i |-> 0, hole |-> 0, held |-> Null]
    /\ older \in Older /\ body = <<>>
    /\ reader = IdleReader
    /\ done = {} /\ prior = [s \in {} |-> {}]

-----------------------------------------------------------------------------
(* The skip list.                                                          *)

\* EdgeComparator: by destination, then the newest first.
Before(a, b) == a.dst < b.dst \/ (a.dst = b.dst /\ a.seq > b.seq)

KeyIsAfterNode(x, n) == n # Null /\ Before(n, x)

\* Node::Next on the list s: a node that is not linked there has no next.
NextOf(s, n) ==
    LET after == {i \in 1 .. Len(s) : n = HeadNode \/ \E j \in 1 .. i - 1 : s[j] = n}
    IN  IF after = {} THEN Null ELSE s[CHOOSE i \in after : \A j \in after : i <= j]

\* Node::SetNext of the predecessor and of the new node.
LinkAfter(s, n, x) ==
    IF n = HeadNode THEN <<x>> \o s
    ELSE InsertAt(s, 1 + CHOOSE i \in 1 .. Len(s) : s[i] = n, x)

\* FindLessThan, on one level.
FindLessThan(s, x) ==
    LET less == {i \in 1 .. Len(s) : Before(s[i], x)}
    IN  IF less = {} THEN HeadNode ELSE s[CHOOSE i \in less : \A j \in less : j <= i]

\* Mutant of Sequential: the key may be after the next node too.
SequentialAfterPrev(a, x) == a.prev[1] = HeadNode \/ KeyIsAfterNode(x, a.prev[1])

\* The fast path: the key goes right after the node of the last put.
Sequential(a, x) ==
    /\ ~KeyIsAfterNode(x, NextOf(a.levels[1], a.prev[1]))
    /\ a.prev[1] = HeadNode \/ KeyIsAfterNode(x, a.prev[1])

\* put_edge up to the links: prev_ holds a predecessor on each level.
Located(a, x, h) ==
    LET found == [i \in Heights |->
                     IF a.maxHeight < i /\ i <= h THEN HeadNode
                     ELSE IF Sequential(a, x) THEN (IF i <= a.prevHeight THEN a.prev[1] ELSE a.prev[i])
                     ELSE IF i <= a.maxHeight THEN FindLessThan(a.levels[i], x) ELSE a.prev[i]]
    IN  [a EXCEPT !.prev = found, !.maxHeight = IF h > @ THEN h ELSE @]

Linked(a, x, i) == [a EXCEPT !.levels[i] = LinkAfter(@, a.prev[i], x)]
Settled(a, x, h) == [a EXCEPT !.prev[1] = x, !.prevHeight = h]

\* A put in a list nobody else sees; a reserved node has height 1.
Inserted(a, x, h) ==
    Settled(FoldLeft(LAMBDA b, i : Linked(b, x, i), Located(a, x, h), [i \in 1 .. h |-> i]), x, h)

\* NewEdgeSL::put_edge when the array is used up: full_ is set once the list is complete.
Converted(a, x, h) ==
    [Inserted(FoldLeft(LAMBDA b, e : Inserted(b, e, 1), a, a.array), x, h) EXCEPT !.full = TRUE]

-----------------------------------------------------------------------------
(* Puts.                                                                   *)

\* GraphDb takes the sequence number before the shard is called.
PutEdge(k) ==
    /\ save.pc = "none" /\ puts < MaxPuts /\ Cardinality(waiting) < Clients
    /\ puts' = puts + 1
    /\ waiting' = waiting \cup {[dst |-> k.dst, seq |-> puts + 1, out |-> k.out, marker |-> k.marker]}
    /\ prior' = [s \in DOMAIN prior \cup {puts + 1} |-> IF s = puts + 1 THEN done ELSE prior[s]]
    /\ UNCHANGED <<adj, put, save, older, body, reader, done>>

\* The put of x returns, or goes on with the other record of a self-loop.
Return(x) ==
    IF x.dst = Self /\ x.out
    THEN waiting' = (waiting \ {x}) \cup {[x EXCEPT !.out = FALSE]} /\ UNCHANGED done
    ELSE waiting' = waiting \ {x} /\ done' = done \cup {x.seq}

\* NewEdgeSL::put_edge while the array has room, once the entry is copied.
Appended(a, x) == [a EXCEPT !.array = Append(@, x)]

\* MemTable::put_edge, with the lock of the vertex; the first put makes the adjacency, which
\* readers find when its entry is complete.
PutFirst(x) ==
    /\ ~put.on /\ x \in waiting /\ adj = EmptyAdj
    /\ adj' = Appended(adj, x)
    /\ Return(x)
    /\ UNCHANGED <<put, puts, save, older, body, reader, prior>>

\* A later put raises cnt_, ...
PutInArray(x, left) ==
    /\ ~put.on /\ x \in waiting
    /\ ~adj.full /\ Len(adj.array) \in 1 .. ReserveNode - 1
    /\ adj' = Appended(adj, left)
    /\ put' = [on |-> TRUE, node |-> x, height |-> 0, level |-> 0]
    /\ UNCHANGED <<waiting, puts, save, older, body, reader, done, prior>>

Copying == put.on /\ put.height = 0

\* ... then the entry is assigned, field by field.
CopyEntry ==
    /\ Copying
    /\ adj' = [adj EXCEPT !.array[Len(adj.array)] = put.node]
    /\ put' = IdlePut
    /\ Return(put.node)
    /\ UNCHANGED <<puts, save, older, body, reader, prior>>

ConvertArray(x, h) ==
    /\ ~put.on /\ x \in waiting
    /\ ~adj.full /\ Len(adj.array) = ReserveNode
    /\ adj' = Converted(adj, x, h)
    /\ Return(x)
    /\ UNCHANGED <<put, puts, save, older, body, reader, prior>>

LocateNode(x, h) ==
    /\ ~put.on /\ x \in waiting /\ adj.full
    /\ adj' = Located(adj, x, h)
    /\ put' = [on |-> TRUE, node |-> x, height |-> h, level |-> 1]
    /\ UNCHANGED <<waiting, puts, save, older, body, reader, done, prior>>

\* Mutant of LevelOf: the links are made from the top.
LevelFromTop(p) == p.height + 1 - p.level

LevelOf(p) == p.level

\* The release store that links the node on its next level; after the last one the put ends.
LinkNode ==
    LET a == Linked(adj, put.node, LevelOf(put))
    IN  /\ put.on /\ ~Copying
        /\ IF put.level < put.height
           THEN /\ adj' = a /\ put' = [put EXCEPT !.level = @ + 1]
                /\ UNCHANGED <<waiting, done>>
           ELSE /\ adj' = Settled(a, put.node, put.height) /\ put' = IdlePut
                /\ Return(put.node)
        /\ UNCHANGED <<puts, save, older, body, reader, prior>>

-----------------------------------------------------------------------------
(* The save of the memtable, whose readers go on.                          *)

\* checkIsFinishWrite: every put of the table has returned.
StartSave ==
    /\ save.pc = "none" /\ waiting = {} /\ ~put.on /\ puts > 0
    /\ save' = [save EXCEPT !.pc = IF adj.full THEN "write" ELSE "sort", !.i = 2]
    /\ UNCHANGED <<adj, put, waiting, puts, older, body, reader, done, prior>>

\* NewEdgeSL::sort: std::sort of so few entries is an insertion sort, in place.  An entry is
\* taken out, those it precedes move up, it is put back.
SortTake ==
    /\ save.pc = "sort"
    /\ save' = IF save.i > Len(adj.array) THEN [save EXCEPT !.pc = "write"]
               ELSE [save EXCEPT !.pc = "shift", !.hole = save.i, !.held = adj.array[save.i]]
    /\ UNCHANGED <<adj, put, waiting, puts, older, body, reader, done, prior>>

SortShift ==
    /\ save.pc = "shift" /\ save.hole > 1 /\ Before(save.held, adj.array[save.hole - 1])
    /\ adj' = [adj EXCEPT !.array[save.hole] = adj.array[save.hole - 1]]
    /\ save' = [save EXCEPT !.hole = @ - 1]
    /\ UNCHANGED <<put, waiting, puts, older, body, reader, done, prior>>

SortPlace ==
    /\ save.pc = "shift" /\ ~(save.hole > 1 /\ Before(save.held, adj.array[save.hole - 1]))
    /\ adj' = [adj EXCEPT !.array[save.hole] = save.held]
    /\ save' = [save EXCEPT !.pc = "sort", !.i = @ + 1]
    /\ UNCHANGED <<put, waiting, puts, older, body, reader, done, prior>>

\* EdgeBody_t_Dym
EdgeBody(x) == [x EXCEPT !.dst = @ % BodyRange, !.seq = @ % BodyRange]

\* build_sstable writes the entries as the iterator gives them, and the superversion without
\* the table is installed.
WriteBody ==
    LET entries == IF adj.full THEN adj.levels[1] ELSE adj.array
    IN  /\ save.pc = "write"
        /\ body' = [i \in DOMAIN entries |-> EdgeBody(entries[i])]
        /\ save' = [save EXCEPT !.pc = "saved"]
        /\ UNCHANGED <<adj, put, waiting, puts, older, reader, done, prior>>

-----------------------------------------------------------------------------
(* Reads.                                                                  *)

readUnchanged == <<adj, put, waiting, puts, save, older, body, done, prior>>

\* SkipList::MemEdgeIterator: the lowest level, node by node.
ListNext(n) == NextOf(adj.levels[1], n)

\* MemTable::get and NewEdgeSL::get: full_ decides, once, what is searched.
StartGet(d, o) ==
    /\ reader.pc = "idle" /\ save.pc # "saved"
    /\ reader' = [IdleReader EXCEPT !.op = "get", !.dst = d, !.out = o, !.start = done, !.full = adj.full,
                      !.pc = IF adj.full THEN "search" ELSE "array",
                      !.pos = Len(adj.array), !.node = HeadNode, !.level = adj.maxHeight]
    /\ UNCHANGED readUnchanged

Matches(e) == e.dst = reader.dst /\ e.out = reader.out

Found(n) == [reader EXCEPT !.pc = "done", !.node = n]

\* The place that is being assigned.
Torn(i) == Copying /\ i = Len(adj.array)

\* What reading a place of the array can give: there, any mixture of old and new fields.
Readings(i) ==
    LET both(f) == {adj.array[i][f], put.node[f]}
    IN  IF Torn(i)
        THEN [dst : both("dst"), seq : both("seq"), out : both("out"), marker : both("marker")]
        ELSE {adj.array[i]}

\* The next entry of the array, from its end.
GetFromArray ==
    /\ reader.pc = "array"
    /\ \/ reader.pos = 0 /\ reader' = Found(Null)
       \/ /\ reader.pos > 0
          /\ \E e \in Readings(reader.pos) :
                reader' = [(IF Matches(e) THEN Found(e) ELSE [reader EXCEPT !.pos = @ - 1])
                              EXCEPT !.torn = @ \/ Torn(reader.pos)]
    /\ UNCHANGED readUnchanged

\* FindGreaterOrEqual for the newest possible entry of the destination: one pointer is followed.
SearchList ==
    LET n == NextOf(adj.levels[reader.level], reader.node)
    IN  /\ reader.pc = "search"
        /\ reader' = IF n \notin {Null, reader.bigger} /\ n.dst < reader.dst THEN [reader EXCEPT !.node = n]
                     ELSE IF reader.level = 1 THEN [reader EXCEPT !.pc = "match", !.node = n]
                     ELSE [reader EXCEPT !.level = @ - 1, !.bigger = n]
        /\ UNCHANGED readUnchanged

\* The entries of the destination, the newest first, up to one with the direction.
MatchNode ==
    /\ reader.pc = "match"
    /\ reader' = IF reader.node.dst # reader.dst THEN Found(Null)
                 ELSE IF Matches(reader.node) THEN Found(reader.node)
                 ELSE [reader EXCEPT !.node = ListNext(@)]
    /\ UNCHANGED readUnchanged

\* Mutant of LevelSources: the loop over the level index ends one level early.
LevelSourcesButDeepest(f) == SubSeq(f.levels, 1, f.maxLevel - 2)

\* find_iterator_sst_by_levelindex: levels 1 .. maxLevel - 1, an empty body where there is none.
LevelSources(f) == SubSeq(f.levels, 1, f.maxLevel - 1)

\* find_iterator_sst: the level-0 files, the newest first, that the level index does not say are
\* in level 1.
Level0Sources(f) == SelectSeq(f.level0, LAMBDA g : g.fid >= f.min0)

\* The sources after the memtables, in the order they are collected in.
Sources(f) ==
    [i \in DOMAIN Level0Sources(f) |-> Level0Sources(f)[i].body] \o LevelSources(f)

\* check_entry_valid: the direction the scan asks for.
EntryValid(e, o) == e.out = o

\* SSTEdgeIterator: the entries of a body, from its first to its last.
SstEntries(s, o) == SelectSeq(s, LAMBDA e : EntryValid(e, o))

\* findFirstValid and next: the last source collected is consumed first.
Consumed(ss) == FlattenSeq(Reverse(ss))

\* EdgeIteratorDynamic: the memtable is a source if it has an entry now, the first one and so
\* the last consumed.  Its iterator starts on the array or on the list.
StartScan(o) ==
    /\ reader.pc = "idle" /\ save.pc # "saved"
    /\ reader' = [IdleReader EXCEPT !.op = "scan", !.out = o, !.start = done, !.full = adj.full,
                      !.pc = IF adj.full \/ adj.array # <<>> THEN "valid" ELSE "done",
                      !.pos = 1, !.node = IF adj.full THEN ListNext(HeadNode) ELSE Null,
                      !.seen = Consumed([i \in DOMAIN Sources(older) |-> SstEntries(Sources(older)[i], o)])]
    /\ UNCHANGED readUnchanged

\* MemEdgeIterator::valid, which asks again whether the list is used.
HasEntry == IF adj.full THEN reader.node # Null ELSE reader.pos <= Len(adj.array)

ScanValid ==
    /\ reader.pc = "valid"
    /\ reader' = [reader EXCEPT !.pc = IF HasEntry THEN "take" ELSE "done"]
    /\ UNCHANGED readUnchanged

\* The entry is read, check_entry_valid compares its direction, and next() moves on.  The list
\* iterator of a scan that began on the array points nowhere.
ScanTake ==
    /\ reader.pc = "take"
    /\ \E e \in IF adj.full THEN {reader.node} ELSE Readings(reader.pos) :
          reader' = IF e = Null THEN [reader EXCEPT !.pc = "fault"]
                    ELSE [reader EXCEPT !.pc = "valid",
                             !.seen = IF EntryValid(e, reader.out) THEN Append(@, e) ELSE @,
                             !.pos = IF adj.full THEN @ ELSE @ + 1,
                             !.node = IF adj.full THEN ListNext(@) ELSE @,
                             !.torn = @ \/ (~adj.full /\ Torn(reader.pos))]
    /\ UNCHANGED readUnchanged

Read ==
    \/ \E r \in Reads : StartGet(r[1], r[2])
    \/ \E o \in {r[2] : r \in Reads} : StartScan(o)
    \/ GetFromArray \/ SearchList \/ MatchNode \/ ScanValid \/ ScanTake

Write ==
    \/ \E k \in Kinds : PutEdge(k)
    \/ \E x \in waiting : PutFirst(x)
    \/ \E x \in waiting, left \in Leftovers : PutInArray(x, left)
    \/ CopyEntry
    \/ \E x \in waiting, h \in Heights : ConvertArray(x, h) \/ LocateNode(x, h)
    \/ LinkNode

Save == StartSave \/ SortTake \/ SortShift \/ SortPlace \/ WriteBody

Next == Read \/ Write \/ Save

Spec == Init /\ [][Next]_vars

-----------------------------------------------------------------------------
(* Lookups in a body.                                                      *)

\* The binary search for the first entry that is not before the destination, in s[lo .. hi - 1].
LowerBound(s, d) ==
    LET search[lo \in 1 .. Len(s) + 1, hi \in 1 .. Len(s) + 1] ==
            IF lo >= hi THEN lo
            ELSE LET mid == lo + (hi - lo) \div 2
                 IN  IF s[mid].dst >= d THEN search[lo, mid] ELSE search[mid + 1, hi]
    IN  search[1, Len(s) + 1]

\* Mutant of FindEdgeByDstDirectionAndType: the entry the search ends at, whatever its direction.
FindFirstOfDst(s, d, o) ==
    LET i == LowerBound(s, d)
    IN  IF i <= Len(s) /\ s[i].dst = d /\ s[i].out = o THEN s[i] ELSE Null

\* The first entry of the destination with the direction; the next destination ends the search.
FindEdgeByDstDirectionAndType(s, d, o) ==
    LET hits == {i \in LowerBound(s, d) .. Len(s) :
                    s[i].out = o /\ \A j \in LowerBound(s, d) .. i : s[j].dst = d}
    IN  IF hits = {} THEN Null ELSE s[CHOOSE i \in hits : \A j \in hits : i <= j]

\* The same from the file, whose list is read into a buffer first.
FindEdgeInFile(s, d, o) ==
    LET scan[i \in 1 .. Len(s) + 1] ==
            IF i > Len(s) \/ s[i].dst # d THEN Null ELSE IF s[i].out = o THEN s[i] ELSE scan[i + 1]
    IN  IF s = <<>> THEN Null ELSE scan[LowerBound(s, d)]

\* The lookup without a direction: in order while the list is short.
FindEdgeOfDst(s, d) ==
    LET first == {i \in 1 .. Len(s) : s[i].dst = d /\ \A j \in 1 .. i - 1 : s[j].dst # d}
        i == LowerBound(s, d)
    IN  IF Len(s) < BinaryThreshold
        THEN IF first = {} THEN Null ELSE s[CHOOSE j \in first : TRUE]
        ELSE IF i <= Len(s) /\ s[i].dst = d THEN s[i] ELSE Null

-----------------------------------------------------------------------------
(* Properties.                                                             *)

Entries == ToSet(IF adj.full THEN adj.levels[1] ELSE adj.array)

\* At every moment, while a put is linking its node and the reads run beside it: each level of
\* the skip list is in the order of EdgeComparator, a node of a level is on every level below it,
\* and every put that has returned has its entry.
ListIsSound ==
    /\ \A i \in Heights, j, k \in 1 .. MaxPuts :
          j < k /\ k <= Len(adj.levels[i]) => ~Before(adj.levels[i][k], adj.levels[i][j])
    /\ \A i \in Heights \ {1} : ToSet(adj.levels[i]) \subseteq ToSet(adj.levels[i - 1])
    /\ save.pc \in {"sort", "shift"} \/ done \subseteq {e.seq : e \in Entries}

\* The array was not converted during the read, and not sorted before or during it; the read
\* met no entry of it that was being assigned.
Undisturbed == reader.full = adj.full /\ (adj.full \/ save.pc = "none") /\ ~reader.torn

Answered == {e \in Entries : e.seq \in reader.start}

\* A point read finds an edge whose put returned before the read began, and never an entry that
\* such a put has superseded (one whose own put had returned when that put took its number).
GetIsNotStale ==
    LET due == {e \in Answered : Matches(e)}
    IN  reader.pc = "done" /\ reader.op = "get" =>
           \A e \in due : reader.node # Null /\ reader.node.seq \notin prior[e.seq]

\* That holds beside any put into the skip list, and on the array unless the read meets the
\* conversion, the sort or an entry that is being assigned, where it does not.
UndisturbedGet == Undisturbed => GetIsNotStale

OlderEntries ==
    UNION ({ToSet(older.level0[i].body) : i \in DOMAIN older.level0}
           \cup {ToSet(older.levels[i]) : i \in DOMAIN older.levels})

\* A scan returns every entry of its direction whose put returned before it began, in the
\* memtable or in an older file, and none of them twice, though a level-0 file that was merged
\* into level 1 is still there.
ScanIsComplete ==
    reader.op = "scan" =>
       /\ reader.pc # "fault"
       /\ reader.pc = "done" =>
             /\ {e \in Answered \cup OlderEntries : e.out = reader.out} \subseteq ToSet(reader.seen)
             /\ Cardinality(ToSet(reader.seen)) = Len(reader.seen)

\* It is, in the same cases: beside any put into the skip list, and on an array that is left alone.
UndisturbedScan == Undisturbed => ScanIsComplete

\* The file answers for every destination and direction with the newest entry the memtable
\* ever had, and the lookup without a direction with the newest of both.
BodyAnswers ==
    save.pc = "saved" =>
       \A k \in Kinds :
          LET of == {e \in Entries : e.dst = k.dst}
              mine == {e \in of : e.out = k.out}
              hit == FindEdgeByDstDirectionAndType(body, k.dst, k.out)
              any == FindEdgeOfDst(body, k.dst)
          IN  /\ FindEdgeInFile(body, k.dst, k.out) = hit
              /\ IF mine = {} THEN hit = Null ELSE hit \in mine /\ \A e \in mine : e.seq <= hit.seq
              /\ IF of = {} THEN any = Null ELSE any \in of /\ \A e \in of : e.seq <= any.seq

\* What the documentation says of point reads and scans, whatever happens beside them.
ReadsSeeEdges == GetIsNotStale /\ ScanIsComplete
=============================================================================
