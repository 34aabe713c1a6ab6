---------------------------- MODULE MCHttpsServer ---------------------------
(* Model values for HttpsServer. *)
EXTENDS HttpsServer, TLC
CONSTANTS t1, t2, c1, c2, c3
OneThread    == {t1}
TwoThreads   == {t1, t2}
OneClient    == {c1}
TwoClients   == {c1, c2}
NoClients    == {}
ThreeClients == {c1, c2, c3}
ThreeFds     == 1 .. 3
MCWants      == c1 :> {"bad"} @@ c2 :> {"file"} @@ c3 :> {"missing"}
=============================================================================
