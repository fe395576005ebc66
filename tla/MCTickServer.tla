---------------------------- MODULE MCTickServer ----------------------------
(* TickServer with interchangeable workers and clients. *)
EXTENDS TickServer, TLC

CONSTANTS w1, w2, c1, c2, c3

Interchangeable == Permutations({w1, w2}) \cup Permutations({c1, c2, c3})
=============================================================================
