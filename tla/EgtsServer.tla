----------------------------- MODULE EgtsServer -----------------------------
(***************************************************************************)
(* The command egts_server (cmd/egts_server/main.go): handlers that read   *)
(* packets from the bytes of their connections, answer them with numbers   *)
(* of two counters they share, and confirm identities with a result code.  *)
(* Connections in Framed are read as egts_gateway reads them, with         *)
(* ReadFrame; what the gateway answers is the subject of Connection.       *)
(*                                                                         *)
(* io.ReadFull hides how bytes are segmented: a frame is read in one step, *)
(* once all of it has come or the terminal has gone.                       *)
(***************************************************************************)
EXTENDS Packets, FiniteSets

CONSTANTS
    Conns,      \* connections
    Framed,     \* those of egts_gateway
    Scripts,    \* what the terminals may send: for each connection a sequence of frames,
                \* [meant, bytes], a packet and what comes of it
    Given0      \* how many packet and record numbers were taken before

ASSUME EgtsServerAssumption == Framed \subseteq Conns /\ Given0 \in Nat

\* A packet comes whole, or with one byte damaged, or, at the end of a connection, cut short.
IsPacket(b) ==
    /\ Cut(b) = "frame" /\ Len(b) = FrameLength(b)
    /\ LET h == HeaderLength(b)
           n == Number(Slice(b, 6, 2))
       IN DataSumRight(Slice(b, h + 1, n), From(b, h + n + 1))
OneDamaged(f) ==
    /\ Len(f.bytes) = Len(f.meant)
    /\ \E i \in DOMAIN f.meant : f.bytes = [f.meant EXCEPT ![i] = f.bytes[i]]
CutShort(f) == Len(f.bytes) < Len(f.meant) /\ f.bytes = SubSeq(f.meant, 1, Len(f.bytes))
ASSUME ScriptAssumption ==
    \A s \in Scripts :
        /\ s \in [Conns -> Seq([meant : Seq(Byte), bytes : Seq(Byte)])]
        /\ \A c \in Conns : \A k \in DOMAIN s[c] :
              /\ IsPacket(s[c][k].meant)
              /\ OneDamaged(s[c][k]) \/ (CutShort(s[c][k]) /\ k = Len(s[c]))

\* What is damaged of a frame.
Intact(f) == Len(f.bytes) = Len(f.meant) /\ \A i \in 1..HeaderLength(f.meant) : f.bytes[i] = f.meant[i]
Damage(f) == IF f.bytes = f.meant THEN "none" ELSE IF Intact(f) THEN "data" ELSE "header"

VARIABLES
    script,     \* what is sent on each connection, all of it
    next,       \* the next frame to send
    gone,       \* connections whose terminal has closed its side
    wire,       \* bytes sent and not read
    open,       \* connections whose handler runs
    got,        \* frames read: the bytes and the packet made of them
    todo,       \* the numbers a handler has to take, in order
    taken,      \* the numbers it has taken for the packet read last
    out,        \* packets to write
    heard,      \* what the terminal has made of the packets written
    counter     \* the shared counters of packets and records

vars == <<script, next, gone, wire, open, got, todo, taken, out, heard, counter>>
terminal == <<script, next, gone>>

Init ==
    /\ script \in Scripts
    /\ next = [c \in Conns |-> 1]
    /\ gone = {}
    /\ open = {c \in Conns : script[c] # <<>>}
    /\ wire = [c \in Conns |-> <<>>]
    /\ got = [c \in Conns |-> <<>>]
    /\ todo = [c \in Conns |-> <<>>]
    /\ taken = [c \in Conns |-> <<>>]
    /\ out = [c \in Conns |-> <<>>]
    /\ heard = [c \in Conns |-> <<>>]
    /\ counter = [pid |-> Given0, rn |-> Given0]

----------------------------------------------------------------------------
\* The terminal sends its frames and closes its side after the last.
Send(c) ==
    /\ next[c] \in DOMAIN script[c]
    /\ wire' = [wire EXCEPT ![c] = @ \o script[c][next[c]].bytes]
    /\ next' = [next EXCEPT ![c] = @ + 1]
    /\ UNCHANGED <<script, gone, open, got, todo, taken, out, heard, counter>>

Leave(c) ==
    /\ c \notin gone
    /\ script[c] # <<>> /\ next[c] > Len(script[c])
    /\ gone' = gone \union {c}
    /\ UNCHANGED <<script, next, wire, open, got, todo, taken, out, heard, counter>>

----------------------------------------------------------------------------
\* How the server cuts frames: as ReadFrame does, but without the checksum.
ServerCut(s) ==
    IF s = <<>> THEN "eof"
    ELSE IF Len(s) < 10 THEN "short"
    ELSE IF s[1] # 1 \/ s[4] # HeaderLength(s) THEN "header"
    ELSE IF FrameLength(s) > Longest THEN "length"
    ELSE IF Len(s) < FrameLength(s) THEN "short"
    ELSE "frame"
MutantFound(c) == ServerCut(wire[c])
Found(c) == IF c \in Framed THEN Cut(wire[c]) ELSE ServerCut(wire[c])

Idle(c) == c \in open /\ todo[c] = <<>> /\ taken[c] = <<>> /\ out[c] = <<>>

\* What is answered, and the numbers this takes: two for each identity, one for the
\* packet of the answer, one for each of its records.
Answered(p) == p.type = AppData /\ p.code \in {"OK", "INC_DATAFORM", "DATACRC_ERROR"}
Subrecords(p) == FlattenSeq([i \in DOMAIN p.services |-> p.services[i].records])
Identities(p) == SelectSeq(Subrecords(p), LAMBDA r : KindOf[r.type] = "term_identity")
Needed(p) ==
    FlattenSeq([i \in DOMAIN Identities(p) |-> <<"rn", "pid">>]) \o <<"pid">>
        \o [i \in DOMAIN PrepareAnswer(p, 0, 0).services |-> "rn"]

\* A frame is read and decoded; what cannot be decoded is skipped or answered with the
\* reason.
Read(c) ==
    /\ Idle(c)
    /\ Found(c) = "frame"
    /\ LET n == FrameLength(wire[c])
           raw == SubSeq(wire[c], 1, n)
       IN /\ wire' = [wire EXCEPT ![c] = From(@, n + 1)]
          /\ got' = [got EXCEPT ![c] = Append(@, [raw |-> raw, packet |-> ReadPacket(raw)])]
    /\ LET p == Last(got'[c]).packet
       IN todo' = [todo EXCEPT ![c] = IF Answered(p) /\ c \notin Framed THEN Needed(p) ELSE <<>>]
    /\ UNCHANGED <<terminal, open, taken, out, heard, counter>>

\* The stream ends, or something else than a frame begins: the handler ends.
Refuse(c) ==
    /\ Idle(c)
    /\ \/ Found(c) \in {"header", "checksum", "length"}
       \/ Found(c) \in {"eof", "short"} /\ c \in gone
    /\ open' = open \ {c}
    /\ UNCHANGED <<terminal, wire, got, todo, taken, out, heard, counter>>

\* getNextPid, getNextRN.
Up(n) == (n + 1) % 65536
Take1(c) ==
    /\ todo[c] # <<>>
    /\ counter' = [counter EXCEPT ![Head(todo[c])] = Up(@)]
    /\ taken' = [taken EXCEPT ![c] = Append(@, counter'[Head(todo[c])])]
    /\ todo' = [todo EXCEPT ![c] = Tail(@)]
    /\ UNCHANGED <<terminal, wire, open, got, out, heard>>

\* The answer with the numbers taken, and the result for the identity decoded last.
AnswerFor(p, numbers) ==
    LET k == 2 * Len(Identities(p))
    IN [PrepareAnswer(p, 0, numbers[k + 1]) EXCEPT !.services = [i \in DOMAIN @ |-> [@[i] EXCEPT !.rn = numbers[k + 1 + i]]]]
ResultFor(p, numbers) ==
    LET k == 2 * Len(Identities(p)) IN PrepareSRResultCode(0, numbers[k - 1], numbers[k])

Ready(c, answer, result) ==
    IF answer.ok
    THEN out' = [out EXCEPT ![c] = <<answer.value>> \o result] /\ UNCHANGED open
    ELSE open' = open \ {c} /\ UNCHANGED out
Compose(c) ==
    /\ todo[c] = <<>> /\ taken[c] # <<>>
    /\ LET p == Last(got[c]).packet
       IN Ready(c, EncodePacket(AnswerFor(p, taken[c]), {}),
                IF Identities(p) = <<>> THEN <<>> ELSE <<EncodePacket(ResultFor(p, taken[c]), {}).value>>)
    /\ taken' = [taken EXCEPT ![c] = <<>>]
    /\ UNCHANGED <<terminal, wire, got, todo, heard, counter>>

Write(c) ==
    /\ out[c] # <<>>
    /\ heard' = [heard EXCEPT ![c] = Append(@, ReadPacket(Head(out[c])))]
    /\ out' = [out EXCEPT ![c] = Tail(@)]
    /\ UNCHANGED <<terminal, wire, open, got, todo, taken, counter>>

WriteFails(c) ==
    /\ out[c] # <<>>
    /\ c \in gone
    /\ out' = [out EXCEPT ![c] = <<>>]
    /\ open' = open \ {c}
    /\ UNCHANGED <<terminal, wire, got, todo, taken, heard, counter>>

Next ==
    \E c \in Conns :
        \/ Send(c) \/ Leave(c)
        \/ Read(c) \/ Refuse(c) \/ Take1(c) \/ Compose(c) \/ Write(c) \/ WriteFails(c)

Spec == Init /\ [][Next]_vars

----------------------------------------------------------------------------
Accepted(c) == {i \in DOMAIN got[c] : got[c][i].packet.code = "OK"}
AsSent(c) ==
    \E place \in [Accepted(c) -> DOMAIN script[c]] :
        /\ \A i \in Accepted(c) :
              script[c][place[i]].bytes = got[c][i].raw /\ Damage(script[c][place[i]]) = "none"
        /\ \A i, j \in Accepted(c) : i < j => place[i] < place[j]

\* No packet is made of damaged bytes, whatever byte was damaged and wherever the reader
\* lost its step: the packets accepted on a connection are frames sent undamaged, in the
\* order of sending.
OnlyUndamaged == \A c \in Conns : AsSent(c)

\* Damaged data cost the frame and no other: up to the first damaged header the frames
\* read are the frames sent, and only undamaged ones are accepted; ReadFrame lets nothing
\* of a damaged header through.
InStep ==
    \A c \in Conns :
        \A i \in DOMAIN got[c] :
            (c \in Framed \/ \A k \in 1..i : Damage(script[c][k]) # "header")
                => /\ got[c][i].raw = script[c][i].bytes /\ Damage(script[c][i]) # "header"
                   /\ got[c][i].packet.code = "OK" => Damage(script[c][i]) = "none"

\* What the terminal reads are packets it can decode. Each answers the packet next in
\* turn, with its number and its result, and confirms just the records that carry data,
\* each under its own pair of services the other way round; a result code follows if
\* the packet held an identity. A handler ends without its answer only when there is
\* no room for it in a packet.
Owed(c) == SelectSeq(got[c], LAMBDA g : Answered(g.packet))
Pairs(p) == {<<p.services[i].sst, p.services[i].rst>> : i \in DOMAIN p.services}
ConfirmedBy(w) ==
    UNION {{<<w.services[i].sst, w.services[i].rst, Number(w.services[i].records[k].data.fields.CRN)>> :
                k \in DOMAIN w.services[i].records} : i \in DOMAIN w.services}
ToConfirm(p) == {<<s.rst, s.sst, s.rn>> : s \in {t \in {p.services[i] : i \in DOMAIN p.services} : CarriesData(t)}}
Answers(w, p) ==
    /\ w.code = "OK" /\ w.type = Response /\ w.rpid = p.pid /\ w.pr = Result[p.code]
    /\ ConfirmedBy(w) = ToConfirm(p)
    /\ Cardinality(Pairs(w)) = Len(w.services)
Fits(p) == 16 + 7 * Cardinality(Pairs(p)) + 6 * Cardinality(ToConfirm(p)) <= Longest
AnswersRight ==
    \A c \in Conns \ Framed :
        LET answers == SelectSeq(heard[c], LAMBDA w : w.type = Response)
            results == {i \in DOMAIN heard[c] : heard[c][i].type # Response}
            turn(i) == Cardinality({j \in 1..i : j \notin results})
            identified == {i \in DOMAIN Owed(c) : Identities(Owed(c)[i].packet) # <<>>}
        IN /\ \A i \in DOMAIN answers : Answers(answers[i], Owed(c)[i].packet)
           /\ \A i \in results : heard[c][i].code = "OK" /\ turn(i) \in identified /\ turn(i - 1) = turn(i)
           /\ Idle(c) => Len(answers) = Len(Owed(c)) /\ Cardinality(results) = Cardinality(identified)
           /\ c \notin open /\ c \notin gone /\ Len(answers) < Len(Owed(c)) => ~Fits(Last(Owed(c)).packet)

\* A packet that was accepted is encoded to a packet of the same length that means the
\* same, but for the speed and the coordinates, which are rounded down, and nothing else
\* is lost when that is encoded again. Only positions followed by bytes that Decode has
\* ignored cannot be encoded (packet.go:227, egts/subrecord).
Ignored(r) == KindOf[r.type] = "pos_data" /\ r.length # IF "ALTE" \in r.data.flags THEN 24 ELSE 21
Rounded(r, less) ==
    IF KindOf[r.type] # "pos_data" THEN r
    ELSE [r EXCEPT !.data.fields = [f \in DOMAIN @ |-> Rewritten("pos_data", r.data, f, less)]]
Meaning(p, less) ==
    [p EXCEPT !.services = [i \in DOMAIN @ |->
        [@[i] EXCEPT !.records = [k \in DOMAIN @ |-> Rounded(@[k], less)]]]]
Same(again, q, p, less) ==
    /\ again.code = "OK" /\ Meaning(again, {}) = Meaning(p, less)
    /\ EncodePacket(again, {}) = q
Encoded(q, g, less) ==
    IF \E i \in DOMAIN Subrecords(g.packet) : Ignored(Subrecords(g.packet)[i]) THEN ~q.ok
    ELSE q.ok /\ Len(q.value) = Len(g.raw) /\ Same(ReadPacket(q.value), q, g.packet, less)
Recoded ==
    \A c \in {d \in Conns : got[d] # <<>> /\ Last(got[d]).packet.code = "OK"}, less \in SUBSET {"LAT", "LONG"} :
        LET g == Last(got[c]) IN Encoded(EncodePacket(g.packet, less), g, less)

=============================================================================
