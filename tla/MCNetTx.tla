------------------------------ MODULE MCNetTx ------------------------------
(* NetTx on small instances. *)
EXTENDS NetTx

CONSTANTS w1, w2

MCInitCounts == {0, 32765}     \* a fresh count, and one about to wrap
MCLens == {60, 1514}
=============================================================================
