----------------------------- MODULE MCFGQueue -----------------------------
(* Model values for FGQueue: threads, values and heap blocks are symmetric. *)
EXTENDS FGQueue, TLC
CONSTANTS t1, t2, t3, v1, v2, n1, n2, n3, n4
MCThreads == {t1, t2, t3}
MCValues == {v1, v2}
MCNodes == {n1, n2, n3, n4}
Symmetry == Permutations(MCThreads) \cup Permutations(MCValues) \cup Permutations(MCNodes)
=============================================================================
