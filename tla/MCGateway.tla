----------------------------- MODULE MCGateway -----------------------------
(* Small instances of Gateway for TLC. *)
EXTENDS Gateway

CONSTANTS p1, p2, p3, c1, c2

\* p3 arrives on c2 where there are two connections, all else on c1.
MCConnOf == [p \in Packets |-> IF p = p3 /\ c2 \in Conns THEN c2 ELSE c1]
============================================================================
