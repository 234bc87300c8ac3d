------------------------------- MODULE Schema -------------------------------
(***************************************************************************)
(* The schema file of a GraphDb: LoadSchemaFromYaml (src/src/graph_db.cpp) *)
(* as a fold over the lines of the file, and, beside it, the reading of    *)
(* the file that the parser is checked against.                            *)
(*                                                                         *)
(* A line has lost its comment, its indentation and its quotes, and blank  *)
(* lines are gone (StripComment, Trim, Unquote).  What is left of it is a  *)
(* record: "header" (edge_shards: and so on), "item" (it starts with a     *)
(* dash; the key is "" when nothing follows the dash) or "pair", with its  *)
(* key and the text of its value; the key NoColon stands for a line that   *)
(* ParseKeyValue refuses.  Texts are a few strings; what a conversion      *)
(* makes of each of them is in the tables below.                           *)
(***************************************************************************)
EXTENDS Integers, Sequences, FiniteSetsExt, SequencesExt

NoColon == "no colon"
Header(section) == [form |-> "header", key |-> section, val |-> ""]
Item(k, v) == [form |-> "item", key |-> k, val |-> v]
Pair(k, v) == [form |-> "pair", key |-> k, val |-> v]

-----------------------------------------------------------------------------
(* Conversions: the set of results, empty when the text is refused.        *)

\* The texts that std::stoull and std::stoi read as a number.
Numbers == [zero |-> 0, one |-> 1, two |-> 2, eight |-> 8]

ParseUint64(raw) == IF raw \in DOMAIN Numbers THEN {Numbers[raw]} ELSE {}

\* The numbers of the model are within 32 bits.
ParseUint32(raw) == ParseUint64(raw)

\* ParseInt and the check on system_threads behind it.
ParsePositive(raw) == {n \in ParseUint64(raw) : n > 0}

ParseBool(raw) == CASE raw \in {"one", "true"} -> {TRUE}
                    [] raw \in {"zero", "false"} -> {FALSE}
                    [] OTHER -> {}

\* Never refuses: a text without a comma is a list of one element.
ParseInlineList(raw) == {CASE raw = "" -> <<>>
                           [] raw = "A,B" -> <<"A", "B">>
                           [] OTHER -> <<raw>>}

ParseText(raw) == {raw}

Parse(type, raw) == CASE type = "uint64" -> ParseUint64(raw)
                      [] type = "uint32" -> ParseUint32(raw)
                      [] type = "positive" -> ParsePositive(raw)
                      [] type = "bool" -> ParseBool(raw)
                      [] type = "list" -> ParseInlineList(raw)
                      [] type = "text" -> ParseText(raw)

-----------------------------------------------------------------------------
(* The keys that each section knows, with the conversion of their value.   *)

\* Root keys are read in any section.
RootKeys == [max_vertex_num |-> "uint64", use_csr_disk |-> "bool", sub_property_num |-> "uint32",
             max_property_length |-> "uint32", system_threads |-> "positive"]

ShardKeys == [name |-> "text", properties |-> "list", memtable_size |-> "uint32", is_csr |-> "bool",
              csr_l0_max_sst_num |-> "uint32", csr_l1_max_sst_num |-> "uint32"]

DefKeys == [name |-> "text", length |-> "uint32"]

\* EdgeShardSchema{}, NodeShardSchema{}, PropertyDef{}, and Schema{} without its lists.
NewShard == [name |-> "", properties |-> <<>>, memtable_size |-> 0, is_csr |-> FALSE,
             csr_l0_max_sst_num |-> 8, csr_l1_max_sst_num |-> 10000]

NewNode == [NewShard EXCEPT !.name = "node_Db"]

NewDef == [name |-> "", length |-> 10]

NewRoot == [max_vertex_num |-> 0, use_csr_disk |-> FALSE, sub_property_num |-> 0,
            max_property_length |-> 10, system_threads |-> 1]

-----------------------------------------------------------------------------
(* The parser.  Its state: the section, the schema so far, the shard and   *)
(* the property definition that are open (sequences of length 0 or 1), and *)
(* whether a line was refused.                                             *)

NewParser == [section |-> "root", root |-> NewRoot, edge_shards |-> <<>>, node_db |-> NewNode,
              property_defs |-> <<>>, shard |-> <<>>, def |-> <<>>, refused |-> FALSE]

\* "edge_Db" and the number of shards before it.
DefaultName(n) == <<"edge_Db0", "edge_Db1", "edge_Db2", "edge_Db3", "edge_Db4">>[n + 1]

Named(shard, n) == IF shard.name = "" THEN [shard EXCEPT !.name = DefaultName(n)] ELSE shard

flush_edge_shard(st) ==
    IF st.shard = <<>> THEN st
    ELSE [st EXCEPT !.edge_shards = Append(@, Named(st.shard[1], Len(@))), !.shard = <<>>]

\* A definition without a name is dropped.
flush_prop_def(st) ==
    IF st.def = <<>> THEN st
    ELSE [st EXCEPT !.property_defs = IF st.def[1].name = "" THEN @ ELSE Append(@, st.def[1]),
                    !.def = <<>>]

\* Mutant: a header leaves the open shard as it is.
EnterSectionOpen(st, section) == [flush_prop_def(st) EXCEPT !.section = section]

EnterSection(st, section) == [flush_prop_def(flush_edge_shard(st)) EXCEPT !.section = section]

Refuse(st) == [st EXCEPT !.refused = TRUE]

\* The line's key is one of keys and its value converts.
Readable(keys, line) == line.key \in DOMAIN keys /\ Parse(keys[line.key], line.val) # {}

\* rec with the field that the line names set.
SetField(rec, keys, line) ==
    [rec EXCEPT ![line.key] = CHOOSE v \in Parse(keys[line.key], line.val) : TRUE]

RootLine(st, line) ==
    IF Readable(RootKeys, line) THEN [st EXCEPT !.root = SetField(@, RootKeys, line)] ELSE Refuse(st)

\* A dash closes the open shard and opens the next; any other line opens one if none is.
EdgeShardLine(st, line) ==
    LET open == CASE line.form = "item" -> [flush_edge_shard(st) EXCEPT !.shard = <<NewShard>>]
                  [] st.shard = <<>> -> [st EXCEPT !.shard = <<NewShard>>]
                  [] OTHER -> st
    IN CASE line.form = "item" /\ line.key = "" -> open
         [] Readable(ShardKeys, line) -> [open EXCEPT !.shard[1] = SetField(@, ShardKeys, line)]
         [] OTHER -> Refuse(open)

\* A dash is part of the key here, and no such key is known.
NodeLine(st, line) ==
    IF line.form = "pair" /\ Readable(ShardKeys, line)
    THEN [st EXCEPT !.node_db = SetField(@, ShardKeys, line)]
    ELSE Refuse(st)

PropertyDefLine(st, line) ==
    LET open == CASE line.form = "item" -> [flush_prop_def(st) EXCEPT !.def = <<NewDef>>]
                  [] st.def = <<>> -> [st EXCEPT !.def = <<NewDef>>]
                  [] OTHER -> st
    IN CASE line.form = "item" /\ line.key = "" -> open
         [] Readable(DefKeys, line) -> [open EXCEPT !.def[1] = SetField(@, DefKeys, line)]
         [] OTHER -> Refuse(open)

\* A root key is tried before the section; in the root section nothing else is known.
ParseLine(st, line) ==
    CASE st.refused -> st
      [] line.form = "header" -> EnterSection(st, line.key)
      [] line.form = "pair" /\ line.key \in DOMAIN RootKeys -> RootLine(st, line)
      [] st.section = "edge_shards" -> EdgeShardLine(st, line)
      [] st.section = "node_db" -> NodeLine(st, line)
      [] st.section = "property_defs" -> PropertyDefLine(st, line)
      [] OTHER -> Refuse(st)

\* sub_property_num when the file gives none: the widest shard, at least one column.
MaxColumns(shards, node) == Max({1, Len(node.properties)} \cup {Len(shards[i].properties) : i \in DOMAIN shards})

\* What follows the last line.  The names that could still be empty are filled in.
FinishSchema(st) ==
    LET end == flush_prop_def(flush_edge_shard(st))
        node == IF end.node_db.name = "" THEN [end.node_db EXCEPT !.name = "node_Db"] ELSE end.node_db
    IN [root |-> IF end.root.sub_property_num = 0
                 THEN [end.root EXCEPT !.sub_property_num = MaxColumns(end.edge_shards, node)]
                 ELSE end.root,
        edge_shards |-> end.edge_shards, node_db |-> node, property_defs |-> end.property_defs,
        refused |-> end.refused \/ end.root.max_vertex_num = 0 \/ end.edge_shards = <<>>]

LoadSchemaFromYaml(lines) == FinishSchema(FoldLeft(ParseLine, NewParser, lines))

-----------------------------------------------------------------------------
(* The reading of a schema file that the parser must agree with: which     *)
(* lines belong together is said by positions, without a parser's state.   *)

IsRoot(lines, i) == lines[i].form = "pair" /\ lines[i].key \in DOMAIN RootKeys

\* The header above line i, or "root".
SectionOf(lines, i) ==
    LET above == {j \in 1 .. i - 1 : lines[j].form = "header"}
    IN IF above = {} THEN "root" ELSE lines[Max(above)].key

\* The lines that say something in a section.
LinesIn(lines, section) ==
    {i \in DOMAIN lines : lines[i].form # "header" /\ ~ IsRoot(lines, i) /\ SectionOf(lines, i) = section}

\* An entry of a list starts at a dash, or at the first line below the header.
Starts(lines, section) ==
    {i \in LinesIn(lines, section) :
        \/ lines[i].form = "item"
        \/ \E h \in 1 .. i - 1 : /\ lines[h].form = "header"
                                 /\ \A j \in h + 1 .. i - 1 : IsRoot(lines, j)}

\* The lines of the entry that starts at line i.
Entry(lines, section, i) ==
    {j \in LinesIn(lines, section) :
        /\ j >= i
        /\ \A k \in i + 1 .. j : k \notin Starts(lines, section) /\ lines[k].form # "header"}

\* What a set of lines says of a record: the last line with a key counts.
Said(lines, S, keys, default) ==
    [k \in DOMAIN keys |->
        LET with == {i \in S : lines[i].key = k}
        IN IF with = {} THEN default[k]
           ELSE CHOOSE v \in Parse(keys[k], lines[Max(with)].val) : TRUE]

Entries(lines, section, keys, default) ==
    LET starts == SetToSortSeq(Starts(lines, section), LAMBDA i, j : i < j)
    IN [n \in DOMAIN starts |-> Said(lines, Entry(lines, section, starts[n]), keys, default)]

RootSaid(lines) == Said(lines, {i \in DOMAIN lines : IsRoot(lines, i)}, RootKeys, NewRoot)

\* The length that a file gives a property, at least 1: the last entry with its name says it,
\* otherwise the root key.
LengthGiven(lines, p) ==
    LET entry(i) == Said(lines, Entry(lines, "property_defs", i), DefKeys, NewDef)
        starts == {i \in Starts(lines, "property_defs") : entry(i).name = p}
    IN Max({1, IF starts = {} THEN RootSaid(lines).max_property_length ELSE entry(Max(starts)).length})

WellFormed(lines) ==
    /\ LinesIn(lines, "root") = {}
    /\ \A i \in DOMAIN lines : IsRoot(lines, i) => Readable(RootKeys, lines[i])
    /\ \A i \in LinesIn(lines, "node_db") : lines[i].form = "pair" /\ Readable(ShardKeys, lines[i])
    /\ \A i \in LinesIn(lines, "edge_shards") : lines[i] = Item("", "") \/ Readable(ShardKeys, lines[i])
    /\ \A i \in LinesIn(lines, "property_defs") : lines[i] = Item("", "") \/ Readable(DefKeys, lines[i])

\* The schema that a well-formed file spells out.
Spelled(lines) ==
    LET shards == Entries(lines, "edge_shards", ShardKeys, NewShard)
        named == [n \in DOMAIN shards |-> Named(shards[n], n - 1)]
        node == Said(lines, LinesIn(lines, "node_db"), ShardKeys, NewNode)
        root == RootSaid(lines)
    IN [root |-> IF root.sub_property_num = 0
                 THEN [root EXCEPT !.sub_property_num = MaxColumns(named, node)] ELSE root,
        edge_shards |-> named,
        node_db |-> IF node.name = "" THEN [node EXCEPT !.name = "node_Db"] ELSE node,
        property_defs |-> SelectSeq(Entries(lines, "property_defs", DefKeys, NewDef), LAMBDA d : d.name # ""),
        refused |-> root.max_vertex_num = 0 \/ shards = <<>>]

=============================================================================
