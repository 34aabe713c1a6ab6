---------------------------- MODULE MCFileServer ----------------------------
(* Model values for FileServer. *)
EXTENDS FileServer, TLC
CONSTANTS t1, t2, c1, c2, c3
TwoThreads   == {t1, t2}
OneClient    == {c1}
ThreeClients == {c1, c2, c3}
ThreeFds     == 1 .. 3
MCWants      == c1 :> {"file"} @@ c2 :> {"file"} @@ c3 :> {"missing"}
=============================================================================
