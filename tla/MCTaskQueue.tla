---------------------------- MODULE MCTaskQueue ----------------------------
(* Model values for TaskQueue. *)
EXTENDS TaskQueue, TLC
CONSTANTS a1, a2, w1, w2, w3, s1, s2
MCPutters == {a1, a2}
MCGetters == {w1, w2, w3}
MCSockets == {s1, s2}
Symmetry == Permutations(MCPutters) \cup Permutations(MCGetters) \cup Permutations(MCSockets)
=============================================================================
