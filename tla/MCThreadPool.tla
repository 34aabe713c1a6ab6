---------------------------- MODULE MCThreadPool ----------------------------
(* Model values for ThreadPool. *)
EXTENDS ThreadPool, TLC
CONSTANTS m, w1, w2, c1, c2, c3
MCPutters    == {m}
TwoWorkers   == {w1, w2}
OneClient    == {c1}
ThreeClients == {c1, c2, c3}
ThreeFds     == 1 .. 3
MCWants      == c1 :> {} @@ c2 :> {"file"} @@ c3 :> {"bad"}
=============================================================================
