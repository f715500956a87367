---------------------------- MODULE MCEgtsServer ----------------------------
(* What terminals send, for EgtsServer: sound frames, frames with a byte damaged, cut *)
(* short or with contents that do not decode, and packets read concurrently.          *)
EXTENDS EgtsServer

CONSTANTS s1, s2, f1

\* A frame built field by field: flags and route of the header, PID, type, data.
Framing(flags, route, pid, type, body) ==
    LET header == <<1, 0, flags, 11 + Len(route), 0>> \o Word(Len(body)) \o Word(pid) \o <<type>> \o route
        sum == Crc16(body)
    IN header \o <<Crc8(header)>> \o (IF body = <<>> THEN <<>> ELSE body \o <<sum[2], sum[1]>>)
Sub(type, b) == <<type>> \o Word(Len(b)) \o b
Rec(rn, flags, extra, sst, rst, subs) ==
    Word(Len(subs)) \o Word(rn) \o <<flags>> \o extra \o <<sst, rst>> \o subs
Plain(pid, body) == Framing(0, <<>>, pid, AppData, body)
Sound(b) == [meant |-> b, bytes |-> b]

Bytes(n, at, v) == [[i \in 1..n |-> 3 * i] EXCEPT ![at] = v]
Position == Bytes(21, 13, 1)
Identity == Bytes(20, 5, 2)
Denied == Sub(9, <<151>>)

Mix ==
    Rec(7, 0, <<>>, 2, 2, Sub(16, Position))
        \o Rec(8, 7, Bytes(12, 1, 9), 1, 1, Sub(0, <<3, 0, 0>>) \o Sub(1, Identity))
        \o Rec(9, 24, <<>>, 2, 2, Sub(0, <<4, 0, 0>>)) \o Rec(10, 64, <<>>, 2, 2, Denied)
Small == Plain(256, Rec(3, 0, <<>>, 2, 1, Denied))
Frames ==
    {Plain(515, Mix),
     Framing(35, <<1, 2, 3, 4, 5>>, 514, AppData, Rec(5, 1, <<1, 0, 0, 0>>, 2, 2, Denied)),
     Plain(513, <<>>),
     Framing(3, <<>>, 512, Response, <<9, 0, 0>> \o Rec(5, 88, <<>>, 2, 2, Sub(0, <<3, 0, 0>>)))}

\* One byte damaged in each way, followed by a sound frame; or the frame cut short or sound.
Damaged(b, i, m) == [meant |-> b, bytes |-> [b EXCEPT ![i] = XorByte(b[i], m)]]
Masks == {1, 16, 32, 255}
OnOne == {s1, f1}
Only(c, frames) == [k \in Conns |-> IF k = c THEN frames ELSE <<>>]
DamageScripts ==
    UNION {{Only(c, <<Damaged(b, i, m), Sound(Small)>>) : c \in OnOne, i \in DOMAIN b, m \in Masks} : b \in Frames}
        \union {Only(c, <<Sound(b), Sound(Small)>>) : c \in OnOne, b \in Frames}
        \union UNION {{Only(c, <<[meant |-> b, bytes |-> SubSeq(b, 1, i)]>>) :
                          c \in OnOne, i \in {k \in DOMAIN b : k < Len(b) /\ k % 5 = 1}} : b \in Frames}

\* Subrecords of every kind, with each flag and of each length up to the limit that
\* decodes, and one byte longer and shorter.
Types == {t \in DOMAIN KindOf : KindOf[t] # "auth_info"}
FlagAt(t) == IF t \in {0, 9, 6, 17, 18, 19, 21, 27} THEN 1 ELSE IF t = 16 THEN 13 ELSE 5
FlagBytes == {0, 1, 2, 4, 8, 16, 32, 64, 128, 255}
Lengths == 0..61
Samples(t) == {Bytes(n, FlagAt(t), v) : n \in {k \in Lengths : k >= FlagAt(t)}, v \in FlagBytes}
Kept(t) == {b \in Samples(t) : \E k \in {-1, 0, 1} :
                LET n == Len(b) + k IN n >= FlagAt(t) /\ Decode(KindOf[t], Bytes(n, FlagAt(t), b[FlagAt(t)])).ok}
Credentials == {<<65, 0, 66, 0>>, <<65, 0, 66, 0, 67, 0>>, <<65, 0>>, <<0, 0>>, <<65, 0, 66, 0, 1>>}
Contents ==
    UNION {{Sub(t, b) : b \in Kept(t)} : t \in Types} \union {Sub(7, b) : b \in Credentials}
        \union {Sub(5, <<1>>), <<16, 30, 0, 1>>, <<9, 1>>}
SampleScripts == {Only(s1, <<Sound(Plain(77, Rec(1, 0, <<>>, 2, 2, x))), Sound(Small)>>) : x \in Contents}

\* Two handlers at work, and a packet whose answer is longer than a packet may be.
Many(n) == Plain(66, FlattenSeq([i \in 1..n |-> Rec(i, 0, <<>>, i, 2, Denied)]))
Both2(x, y) == [k \in Conns |-> IF k = s1 THEN x ELSE IF k = s2 THEN y ELSE <<>>]
CommonScripts ==
    {Both2(<<Sound(Plain(515, Mix)), Sound(Small)>>, <<Sound(Small), Sound(Plain(9, Rec(1, 0, <<>>, 1, 1, Sub(1, Identity))))>>),
     Only(s1, <<Sound(Many(9)), Sound(Small)>>), Only(s1, <<Sound(Many(10)), Sound(Small)>>)}

MCScripts == DamageScripts \union SampleScripts \union CommonScripts

=============================================================================
