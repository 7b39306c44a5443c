---------------------------- MODULE MCEpochRcu -----------------------------
(* A small instance of EpochRcu for TLC. *)
EXTENDS EpochRcu, TLC

CONSTANTS w1, x1, x2, s1, p, a, b

OneCell == [i \in {p} |-> a]
=============================================================================
