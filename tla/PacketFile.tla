----------------------------- MODULE PacketFile -----------------------------
(***************************************************************************)
(* The file destination (gateway/destination/writer.go): a Writer that     *)
(* writes packets, as lines of JSON, into a RotatingFile.  The delivery    *)
(* loop of the gateway hands it one packet at a time, in order, and again  *)
(* until a Write succeeds, over restarts of the process; the context of an *)
(* attempt may be done when it begins.                                     *)
(***************************************************************************)
EXTENDS RotatingFile

CONSTANT Order   \* the packets in the order of the queue

ASSUME OrderAssumption == Order \in Seq(Records) /\ IsInjective(Order)

VARIABLE
    stuck   \* w.writeErr: a record was written in part

fileVars == <<vars, stuck>>

\* The packet the gateway delivers next.
Confirmed == Len(acked) - Len(Earlier)
Due == Order[Confirmed + 1]

\* A partial write is remembered for all later ones.
MutantForgetful(n) == FALSE
Sticks(n) == n > 0

PInit == Init /\ stuck = FALSE

\* PrepareFile makes a new Writer.
PreparePacketFile == Prepare /\ stuck' = FALSE

\* WriteContext: an attempt of a Writer that is stuck, of one whose context is
\* done, or with outputs that have become invalid ends at once.
WriteContext ==
    /\ Confirmed < Len(Order)
    /\ ~stuck
    /\ Write(Due)
    /\ UNCHANGED stuck

\* The file has taken the first n bytes of the line only.
WriteFails(n) ==
    /\ AppendFails(n)
    /\ stuck' = Sticks(n)

\* All that the RotatingFile does besides.
FileStep == Step /\ ~Prepare /\ UNCHANGED stuck

PNext ==
    \/ PreparePacketFile \/ WriteContext \/ FileStep
    \/ \E n \in 0..MaxFile : WriteFails(n)

PSpec == PInit /\ [][PNext]_fileVars

\* The delivery loop makes one attempt after the other and an operation that has
\* begun goes on; no more than MaxFaults calls to the file system fail.
Attempt ==
    \/ WriteContext
    \/ FileStep /\ faults' = faults /\ pc \notin {"down", "idle"} /\ pc' # "down"

PFairSpec == PSpec /\ WF_fileVars(Attempt)

----------------------------------------------------------------------------
\* Incomplete lines, as a file and the position of the entry in it.
Incomplete == {x \in Files \X (1..(Len(Earlier) + MaxLives * Len(Order) + MaxFaults)) :
                 x[2] \in DOMAIN content[x[1]] /\ ~Whole(content[x[1]][x[2]])}

\* "Stop after a partial write so later records cannot join an incomplete JSON
\* line" (WriteContext): whatever follows an incomplete entry in a file is on the
\* same line.
NoJoinedLine == \A x \in Incomplete : x[2] = Len(content[x[1]])

\* What WriteContext achieves: a process leaves at most one incomplete line behind,
\* however often it fails, so records of the same process never join one.
OneTearPerLife == Cardinality(Incomplete) <= lives

\* A failed attempt, a failed rotation included, is not the last word: while calls
\* to the file system succeed the packet that is due is written, unless a partial
\* write has stopped the Writer or the process ends.  Limits that are equal leave
\* room for every record that Write accepts.
DueIsWritten ==
    \A n \in 0..(Len(Order) - 1) :
        (pc = "idle" /\ Confirmed = n) ~> (Confirmed > n \/ stuck \/ pc = "down" \/ why = "close")

=============================================================================
