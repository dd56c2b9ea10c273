---------------------------- MODULE MCLRUIndex ----------------------------
(* Instances of LRUIndexSystem for TLC: one bucket. *)
EXTENDS LRUIndexSystem, TLC

\* Leaves [1, 2] and [3, 4, 5]; inserting 6 splits the second.
MCLoaded == <<1, 2, 3, 4, 5>>
MCIndex  == [k \in Key |-> 0]
MCFp     == [k \in Key |-> k]

\* The threads do the same: states that differ in their names only are one.
MCSymmetry == Permutations(Thread)
=============================================================================
