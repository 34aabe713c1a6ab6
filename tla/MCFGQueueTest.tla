--------------------------- MODULE MCFGQueueTest ---------------------------
(* Model values for FGQueueTest. *)
EXTENDS FGQueueTest, TLC
CONSTANTS p1, c1, c2, v1, v2, n1, n2, n3
OneProducer  == {p1}
TwoConsumers == {c1, c2}
ThreeThreads == {p1, c1, c2}
TwoValues    == {v1, v2}
ThreeNodes   == {n1, n2, n3}
=============================================================================
