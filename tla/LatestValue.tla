----------------------------- MODULE LatestValue -----------------------------
(***************************************************************************)
(* What property updates promise a reader, without buffers, flushes or     *)
(* delta files: every key has one current value, named by the commit       *)
(* sequence of the update that wrote it.  An update takes a commit         *)
(* sequence no earlier update had and writes each of its keys once, one    *)
(* after the other; the next update begins when it has written them all;   *)
(* nothing else ever changes what a key's value is.                        *)
(***************************************************************************)
EXTENDS Integers

CONSTANT Keys

VARIABLES
    visible,   \* per key: commit sequence of the current value, 0 if never updated
    open,      \* the keys that the update under way has still to write
    next       \* the next commit sequence

Init ==
    /\ visible = [k \in Keys |-> 0]
    /\ open = {}
    /\ next \in Nat \ {0}

Begin(ks) ==
    /\ open = {}
    /\ open' = ks
    /\ next' = next + 1
    /\ UNCHANGED visible

Write(k) ==
    /\ k \in open
    /\ visible' = [visible EXCEPT ![k] = next - 1]
    /\ open' = open \ {k}
    /\ UNCHANGED next

Next ==
    \/ \E ks \in SUBSET Keys : Begin(ks)
    \/ \E k \in Keys : Write(k)

Spec == Init /\ [][Next]_<<visible, open, next>>
=============================================================================
