---------------------------- MODULE MCPacketFile ----------------------------
(* Three packets for PacketFile, in an empty directory. *)
EXTENDS PacketFile

CONSTANTS p1, p2, p3

MCLength == [p \in Records |-> IF p = p2 THEN 1 ELSE 2]
MCEarlier == <<>>
MCOrder == <<p1, p2, p3>>

=============================================================================
