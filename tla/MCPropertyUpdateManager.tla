----------------------- MODULE MCPropertyUpdateManager -----------------------
(* Small instances of PropertyUpdateManager for TLC.                       *)
EXTENDS PropertyUpdateManager

CONSTANTS k1, k2, t1, t2

U(k, b, t) == [key |-> k, base |-> b, target |-> t]

\* Single updates of two properties in different columns, a batch that touches
\* both, and one value too large for any buffer.
SmallBatches ==
    {{U(k1, 1, t1)}, {U(k1, 1, t1), U(k2, 1, t2)}, {U(k2, 1, t1)}}
SmallBytes ==
    [B \in SmallBatches |-> IF B = {U(k2, 1, t1)} THEN CapacityBytes + 1 ELSE Cardinality(B)]

\* Updates of either property, alone or together.
MixedBatches == {{U(k1, 1, t1)}, {U(k2, 1, t2)}, {U(k1, 1, t1), U(k2, 1, t2)}}
MixedBytes == [B \in MixedBatches |-> Cardinality(B)]

=============================================================================
