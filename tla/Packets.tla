------------------------------ MODULE Packets -------------------------------
(***************************************************************************)
(* The packets of egts/packet as bytes: the reader that cuts frames out of *)
(* a stream (reader.go), the decoder with its checks in their order and    *)
(* the encoder (packet.go, pt_response.go, services_frame_data.go,         *)
(* record_data.go), and the answers that are prepared for a packet.        *)
(*                                                                         *)
(* A decoded packet keeps the bytes of the fields nothing is computed      *)
(* with. The flags of a header or a record are split into characters and   *)
(* put together again in the same order, and stay one byte here.           *)
(***************************************************************************)
EXTENDS Subrecords, Checksums

CONSTANT Longest    \* the longest packet, record or field there is; 65535 in the code

ASSUME PacketsAssumption == Longest \in 1..65535

Word(n) == <<n % 256, n \div 256>>
Number(b) == b[1] + 256 * b[2]
Slice(b, from, n) == SubSeq(b, from, from + n - 1)
From(b, from) == SubSeq(b, from, Len(b))

\* What decoding or encoding gives: a value, or an error.
Good(v) == [ok |-> TRUE, value |-> v]
Bad == [ok |-> FALSE, value |-> <<>>]
Both(a, b) == IF a.ok /\ b.ok THEN Good(a.value \o b.value) ELSE Bad

\* The kinds of subrecords by their types (codes.go).
KindOf ==
    0 :> "record_response" @@ 1 :> "term_identity" @@ 6 :> "auth_params" @@ 7 :> "auth_info" @@
    9 :> "result_code" @@ 16 :> "pos_data" @@ 17 :> "ex_pos_data" @@ 18 :> "ad_sensors" @@ 19 :> "counters" @@
    20 :> "state_data" @@ 21 :> "acceleration" @@ 27 :> "liquid_level"
RecordResponse == 0
ResultCode == 9
AppData == 1
Response == 0
AuthService == 1

----------------------------------------------------------------------------
\* RecordsData: SRT, SRL and the subrecord, until the data ends.
Decoded(type, length, data) ==
    IF data.ok THEN Good(<<[type |-> type, length |-> length, data |-> data]>>) ELSE Bad
DecodeRecords[b \in Seq(Byte)] ==
    IF b = <<>> THEN Good(<<>>)
    ELSE IF Len(b) < 3 \/ b[1] \notin DOMAIN KindOf THEN Bad
    ELSE LET n == Number(Slice(b, 2, 2))
         IN IF n > Len(b) - 3 THEN Bad
            ELSE Both(Decoded(b[1], n, Decode(KindOf[b[1]], Slice(b, 4, n))), DecodeRecords[From(b, 4 + n)])

\* The length announced is the one read; it must be that of the bytes written.
Measured(r, sd) == IF r.length = Len(sd) THEN Good(<<r.type>> \o Word(r.length) \o sd) ELSE Bad
EncodeRecord(r, less) == Measured(r, Encode(KindOf[r.type], r.data, less))
Limited(all) == IF Len(all.value) > Longest THEN Bad ELSE all
EncodeRecords(rs, less) ==
    Limited(FoldLeft(LAMBDA acc, r : Both(acc, EncodeRecord(r, less)), Good(<<>>), rs))

\* ServicesFrameData: RL, RN, flags, the fields OID, EVID and TM the flags announce,
\* SST, RST and the records, until the data ends.
DecodeServices[b \in Seq(Byte)] ==
    IF b = <<>> THEN Good(<<>>)
    ELSE IF Len(b) < 5 THEN Bad
    ELSE LET rl == Number(b)
             size(i) == IF Bit(b[5], i) THEN 4 ELSE 0
             h == 7 + size(0) + size(1) + size(2)
             records == DecodeRecords[Slice(b, h + 1, rl)]
         IN IF rl = 0 \/ Len(b) < h + rl THEN Bad
            ELSE IF ~records.ok THEN Bad
            ELSE Both(Good(<<[length |-> rl, rn |-> Number(Slice(b, 3, 2)), flags |-> b[5],
                              oid |-> Slice(b, 6, size(0)), evid |-> Slice(b, 6 + size(0), size(1)),
                              tm |-> Slice(b, 6 + size(0) + size(1), size(2)),
                              sst |-> b[h - 1], rst |-> b[h], records |-> records.value]>>),
                      DecodeServices[From(b, h + rl + 1)])

Served(s, rd) ==
    IF rd.ok /\ rd.value # <<>> /\ s.length = Len(rd.value)
    THEN Good(Word(s.length) \o Word(s.rn) \o <<s.flags>> \o s.oid \o s.evid \o s.tm \o <<s.sst, s.rst>> \o rd.value)
    ELSE Bad
EncodeService(s, less) == Served(s, EncodeRecords(s.records, less))
EncodeServices(ss, less) ==
    Limited(FoldLeft(LAMBDA acc, s : Both(acc, EncodeService(s, less)), Good(<<>>), ss))

\* PTResponse: RPID, PR and, unless nothing follows, services.
DecodeResponse(b) == IF Len(b) < 3 THEN Bad ELSE DecodeServices[From(b, 4)]
Results(p) == IF p.type = Response THEN Word(p.rpid) \o <<p.pr>> ELSE <<>>
EncodeBody(p, less) == Limited(Both(Good(Results(p)), EncodeServices(p.services, less)))

----------------------------------------------------------------------------
\* The header: PRV, SKID, flags, HL, HE, FDL, PID, PT, the route if the flag RTE is
\* set, and HCS.
Routed(b) == Bit(b[3], 5)
HeaderLength(b) == IF Routed(b) THEN 16 ELSE 11
FrameLength(b) ==
    LET fdl == Number(Slice(b, 6, 2)) IN HeaderLength(b) + fdl + (IF fdl > 0 THEN 2 ELSE 0)

\* ReadPacket: the code of the first check that fails.
MutantTrusting(b, h) == TRUE
HeaderSumRight(b, h) == b[h] = Crc8(SubSeq(b, 1, h - 1))
DataSumRight(body, sum) == body = <<>> \/ <<sum[2], sum[1]>> = Crc16(body)

Code(b, body, data) ==
    LET h == HeaderLength(b)
    IN IF b[4] # h \/ Len(b) < h THEN "INC_HEADERFORM"
       ELSE IF ~HeaderSumRight(b, h) THEN "HEADERCRC_ERROR"
       ELSE IF b[1] # 1 THEN "UNS_PROTOCOL"
       ELSE IF b[3] >= 64 \/ b[5] # 0 THEN "INC_HEADERFORM"
       ELSE IF Bit(b[3], 4) \/ Bit(b[3], 3) THEN "DECRYPT_ERROR"
       ELSE IF Bit(b[3], 2) THEN "UNS_TYPE"
       ELSE IF Len(b) # FrameLength(b) \/ Len(b) > Longest THEN "INVDATALEN"
       ELSE IF ~DataSumRight(body, From(b, h + Len(body) + 1)) THEN "DATACRC_ERROR"
       ELSE IF b[10] \notin {Response, AppData} THEN "UNS_TYPE"
       ELSE IF ~data.ok THEN "INC_DATAFORM"
       ELSE "OK"

Parsed(b, body, data) ==
    LET code == Code(b, body, data)
        isResponse == code = "OK" /\ b[10] = Response
    IN [code |-> code, skid |-> b[2], flags |-> b[3], fdl |-> Number(Slice(b, 6, 2)), pid |-> Number(Slice(b, 8, 2)),
        type |-> b[10], route |-> Slice(b, 11, HeaderLength(b) - 11),
        services |-> IF code = "OK" THEN data.value ELSE <<>>,
        rpid |-> IF isResponse THEN Number(body) ELSE 0, pr |-> IF isResponse THEN body[3] ELSE 0]
ReadPacket(b) ==
    LET body == Slice(b, HeaderLength(b) + 1, Number(Slice(b, 6, 2)))
    IN Parsed(b, body, IF b[10] = Response THEN DecodeResponse(body) ELSE DecodeServices[body])

\* Encode of a packet that is well formed in its header; the coordinates in "less" are
\* written one less, see Rewritten.
Sealed(p, body) ==
    LET header == <<1, p.skid, p.flags, 11 + Len(p.route), 0>> \o Word(p.fdl) \o Word(p.pid) \o <<p.type>> \o p.route
        sum == Crc16(body.value)
        b == header \o <<Crc8(header)>> \o (IF body.value = <<>> THEN <<>> ELSE body.value \o <<sum[2], sum[1]>>)
    IN IF ~body.ok \/ p.fdl # Len(body.value) \/ Len(b) > Longest THEN Bad ELSE Good(b)
EncodePacket(p, less) == Sealed(p, EncodeBody(p, less))

\* ReadFrame: the next frame of a stream, or why there is none.
Cut(s) ==
    IF s = <<>> THEN "eof"
    ELSE IF Len(s) < 10 THEN "short"
    ELSE IF s[1] # 1 \/ s[4] # HeaderLength(s) THEN "header"
    ELSE IF Len(s) < HeaderLength(s) THEN "short"
    ELSE IF ~HeaderSumRight(s, HeaderLength(s)) THEN "checksum"
    ELSE IF FrameLength(s) > Longest THEN "length"
    ELSE IF Len(s) < FrameLength(s) THEN "short"
    ELSE "frame"

----------------------------------------------------------------------------
\* PrepareAnswer: every record that carries more than confirmations is confirmed, in
\* one record for each pair of services, with the pair the other way round.
CarriesData(s) == \E i \in DOMAIN s.records : s.records[i].type # RecordResponse
MutantBack(s) == <<s.sst, s.rst>>
Back(s) == <<s.rst, s.sst>>
Confirmation(s) ==
    [type |-> RecordResponse, length |-> 3,
     data |-> [ok |-> TRUE, fields |-> "CRN" :> Word(s.rn) @@ "RST" :> <<0>>, flags |-> {}]]
Answering(flags, rn, pair, records) ==
    [length |-> Len(EncodeRecords(records, {}).value), rn |-> rn, flags |-> flags, oid |-> <<>>, evid |-> <<>>,
     tm |-> <<>>, sst |-> pair[1], rst |-> pair[2], records |-> records]

\* The result of a packet as the answer states it (codes.go).
Result == "OK" :> 0 @@ "INC_DATAFORM" :> 132 @@ "DATACRC_ERROR" :> 138

Confirming(services, rn) ==
    LET told == SelectSeq(services, CarriesData)
        pairs == FoldLeft(LAMBDA acc, s : IF Contains(acc, Back(s)) THEN acc ELSE Append(acc, Back(s)), <<>>, told)
        Of(pair) == SelectSeq(told, LAMBDA s : Back(s) = pair)
    IN [k \in DOMAIN pairs |->
            Answering(88, (rn + k - 1) % 65536, pairs[k],
                      [i \in DOMAIN Of(pairs[k]) |-> Confirmation(Of(pairs[k])[i])])]

Fresh(flags, type, pid, body) ==
    [code |-> "OK", skid |-> 0, flags |-> flags, pid |-> pid, type |-> type, route |-> <<>>] @@ body

Announced(q) == [fdl |-> Len(EncodeBody(q, {}).value)] @@ q
PrepareAnswer(p, rn, pid) ==
    Announced(Fresh(3, Response, pid, [rpid |-> p.pid, pr |-> Result[p.code],
                                       services |-> IF p.code = "OK" THEN Confirming(p.services, rn) ELSE <<>>]))

PrepareSRResultCode(rcd, rn, pid) ==
    LET record == [type |-> ResultCode, length |-> 1,
                   data |-> [ok |-> TRUE, fields |-> "RCD" :> <<rcd>>, flags |-> {}]]
    IN Announced(Fresh(0, AppData, pid, [rpid |-> 0, pr |-> 0,
                                         services |-> <<Answering(64, rn, <<AuthService, AuthService>>, <<record>>)>>]))

=============================================================================
