---------------------------- MODULE MCServerPool ----------------------------
(* Constant values for model checking ServerPool.                          *)
EXTENDS ServerPool, TLC

CONSTANTS w1, w2, c1, c2, c3

TwoWorkers   == {w1, w2}
TwoClients   == {c1, c2}
ThreeClients == {c1, c2, c3}

=============================================================================
