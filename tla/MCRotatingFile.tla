--------------------------- MODULE MCRotatingFile ---------------------------
(* Five records for RotatingFile, the first of them left in the active file  *)
(* by a process that allowed longer files.                                   *)
EXTENDS RotatingFile

CONSTANTS r1, r2, r3, r4, r5

MCLength == [r \in Records |-> CASE r = r1 -> 3 [] r = r3 -> 2 [] OTHER -> 1]
MCEarlier == <<r1>>

=============================================================================
