------------------------------- MODULE MCPark -------------------------------
(***************************************************************************)
(* Instances of Park for TLC: one worker with a UDP and a TCP query, and   *)
(* one worker with three queries.                                          *)
(***************************************************************************)
EXTENDS Park

CONSTANTS w1, u1, u2, t1

OneWorker == {w1}

Pair == {u1, t1}
PairTogether == [q \in Pair |-> w1]

Three == {u1, u2, t1}
ThreeTogether == [q \in Three |-> w1]

TcpQueries == {t1}
=============================================================================
