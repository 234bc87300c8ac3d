------------------------ MODULE MCPropertyDeltaFile ------------------------
(* A small instance of PropertyDeltaFile for TLC.                          *)
EXTENDS PropertyDeltaFile, TLC

Key(src, dst, out, type, base) ==
    [src |-> src, dst |-> dst, out |-> out, type |-> type, base |-> base]

\* Neighbours in the order of keys, each pair apart in one field.
SmallKeys ==
    {Key(1, 1, FALSE, 2, 2), Key(1, 1, TRUE, 1, 2), Key(1, 1, TRUE, 2, 1),
     Key(1, 1, TRUE, 2, 2), Key(1, 2, FALSE, 1, 1), Key(2, 1, FALSE, 1, 1)}

Rec(k, c, v) == [key |-> k, commit |-> c, value |-> v]

\* Every order and repetition of two versions of a key, one of them given with two values
\* of different lengths; and a version given again behind another key.
ShortBatches ==
    LET k == Key(1, 1, TRUE, 1, 2)
        l == Key(1, 1, FALSE, 2, 2)
    IN  [1 .. 2 -> {Rec(k, 1, <<1>>), Rec(k, 1, <<2, 2>>), Rec(k, 2, <<>>)}]
        \cup {<<Rec(k, 2, <<1>>), Rec(l, 2, <<3>>), Rec(k, 2, <<2, 2>>)>>}

\* Four of the keys, given backwards, one of them in three versions.
LongBatch ==
    <<Rec(Key(2, 1, FALSE, 1, 1), 3, <<6>>), Rec(Key(1, 1, TRUE, 2, 2), 3, <<4>>),
      Rec(Key(1, 1, TRUE, 2, 2), 1, <<>>), Rec(Key(1, 1, TRUE, 2, 2), 2, <<3, 1>>),
      Rec(Key(1, 1, TRUE, 2, 1), 2, <<2>>), Rec(Key(1, 1, FALSE, 2, 2), 2, <<>>)>>

SmallBatches == ShortBatches \cup {LongBatch}
=============================================================================
