----------------------------- MODULE Subrecords -----------------------------
(***************************************************************************)
(* The subrecords of egts/subrecord: what Decode makes of the bytes of a   *)
(* subrecord, and what Encode writes for it. Reads lists the fields in the *)
(* order Decode takes them, Writes in the order Encode writes them; a      *)
(* field may depend on a flag. Decode names the bits of a byte of flags    *)
(* (NamesRead), Encode puts the named bits together again (NamesWritten);  *)
(* "-" is a reserved bit.                                                  *)
(*                                                                         *)
(* A number stands for its bytes where Encode writes the same bytes that   *)
(* Decode has read; SPD, LAT and LONG are computed with (Rewritten).       *)
(***************************************************************************)
EXTENDS Integers, Sequences, TLC, SequencesExt

Bit(byte, i) == (byte \div 2^i) % 2 = 1

\* A field that is read: always there, or only with a flag. Rest stands for all
\* that is left, Structures for as many structures as the first byte announces.
Rest == -1
Structures == -2
F(name, width) == [name |-> name, width |-> width, flag |-> "always"]
If(flag, name, width) == [name |-> name, width |-> width, flag |-> flag]

\* Fields that are written.
Put(names) == [i \in DOMAIN names |-> [name |-> names[i], flag |-> "always"]]
PutIf(flag, name) == <<[name |-> name, flag |-> flag]>>

\* The repeated fields of sensors and counters.
Eight(Op(_)) == [i \in 1..8 |-> Op(i)]
Dio == <<"DIOE1", "DIOE2", "DIOE3", "DIOE4", "DIOE5", "DIOE6", "DIOE7", "DIOE8">>
Asf == <<"ASFE1", "ASFE2", "ASFE3", "ASFE4", "ASFE5", "ASFE6", "ASFE7", "ASFE8">>
Cfe == <<"CFE1", "CFE2", "CFE3", "CFE4", "CFE5", "CFE6", "CFE7", "CFE8">>
Adi == <<"ADI1", "ADI2", "ADI3", "ADI4", "ADI5", "ADI6", "ADI7", "ADI8">>
Ans == <<"ANS1", "ANS2", "ANS3", "ANS4", "ANS5", "ANS6", "ANS7", "ANS8">>
Cn == <<"CN1", "CN2", "CN3", "CN4", "CN5", "CN6", "CN7", "CN8">>

----------------------------------------------------------------------------
\* Decode and Encode, kind by kind.
ReadPosData == <<F("NTM", 4), F("LAT", 4), F("LONG", 4), F("FLG", 1), F("SPD", 2), F("DIR", 1),
                 F("ODM", 3), F("DIN", 1), F("SRC", 1), If("ALTE", "ALT", 3)>>
WritePosData == Put(<<"NTM", "LAT", "LONG", "FLG", "SPD", "DIR", "ODM", "DIN", "SRC">>) \o PutIf("ALTE", "ALT")

ReadExPosData == <<F("FLG", 1), If("VFE", "VDOP", 2), If("HFE", "HDOP", 2), If("PFE", "PDOP", 2),
                   If("SFE", "SAT", 1), If("NSFE", "NS", 2)>>
WriteExPosData == Put(<<"FLG">>) \o PutIf("VFE", "VDOP") \o PutIf("HFE", "HDOP") \o PutIf("PFE", "PDOP")
                    \o PutIf("SFE", "SAT") \o PutIf("NSFE", "NS")

ReadAdSensors == <<F("DIOE", 1), F("DOUT", 1), F("ASFE", 1)>>
                   \o Eight(LAMBDA i : If(Dio[i], Adi[i], 1)) \o Eight(LAMBDA i : If(Asf[i], Ans[i], 3))
WriteAdSensors == Put(<<"DIOE", "DOUT", "ASFE">>)
                    \o FlattenSeq(Eight(LAMBDA i : PutIf(Dio[i], Adi[i])) \o Eight(LAMBDA i : PutIf(Asf[i], Ans[i])))

ReadCounters == <<F("FLG", 1)>> \o Eight(LAMBDA i : If(Cfe[i], Cn[i], 3))
WriteCounters == Put(<<"FLG">>) \o FlattenSeq(Eight(LAMBDA i : PutIf(Cfe[i], Cn[i])))

ReadLiquidLevel == <<F("FLG", 1), F("MADDR", 2), If("RDF", "RAW", Rest), If("not RDF", "LLSD", 4)>>
WriteLiquidLevel == Put(<<"FLG", "MADDR">>) \o PutIf("RDF", "RAW") \o PutIf("not RDF", "LLSD")

ReadStateData == <<F("ST", 1), F("MPSV", 1), F("BBV", 1), F("IBV", 1), F("FLG", 1)>>
WriteStateData == Put(<<"ST", "MPSV", "BBV", "IBV", "FLG">>)

ReadAcceleration == <<F("SA", 1), F("ATM", 4), F("ADS", Structures)>>
WriteAcceleration == Put(<<"SA", "ATM", "ADS">>)

ReadTermIdentity == <<F("TID", 4), F("FLG", 1), If("HDIDE", "HDID", 2), If("IMEIE", "IMEI", 15),
                      If("IMSIE", "IMSI", 16), If("LNGCE", "LNGC", 3), If("NIDE", "NID", 3), If("BSE", "BS", 2),
                      If("MNE", "MSISDN", 15)>>
WriteTermIdentity == Put(<<"TID", "FLG">>) \o PutIf("HDIDE", "HDID") \o PutIf("IMEIE", "IMEI") \o PutIf("IMSIE", "IMSI")
                       \o PutIf("LNGCE", "LNGC") \o PutIf("NIDE", "NID") \o PutIf("BSE", "BS") \o PutIf("MNE", "MSISDN")

ReadRecordResponse == <<F("CRN", 2), F("RST", 1)>>
WriteRecordResponse == Put(<<"CRN", "RST">>)

\* The names of the bits: as read, from bit 0 on; as put together, from bit 7 on.
PosBits == <<"VLD", "FIX", "CS", "BB", "MV", "LAHS", "LOHS", "ALTE">>
PosText == <<"ALTE", "LOHS", "LAHS", "MV", "BB", "CS", "FIX", "VLD">>
ExPosBits == <<"VFE", "HFE", "PFE", "SFE", "NSFE", "-", "-", "-">>
MutantExPosText == <<"VFE", "HFE", "PFE", "SFE", "NSFE", "-", "-", "-">>
ExPosText == <<"-", "-", "-", "NSFE", "SFE", "PFE", "HFE", "VFE">>
LiquidBits == <<"N0", "N1", "N2", "RDF", "VU0", "VU1", "EF", "-">>
LiquidText == <<"-", "EF", "VU1", "VU0", "RDF", "N2", "N1", "N0">>
StateBits == <<"BBU", "IBU", "NMS", "-", "-", "-", "-", "-">>
StateText == <<"-", "-", "-", "-", "-", "NMS", "IBU", "BBU">>
IdentityBits == <<"HDIDE", "IMEIE", "IMSIE", "LNGCE", "SSRA", "NIDE", "BSE", "MNE">>
IdentityText == <<"MNE", "BSE", "NIDE", "SSRA", "LNGCE", "IMSIE", "IMEIE", "HDIDE">>

Reads ==
    [pos_data |-> ReadPosData, ex_pos_data |-> ReadExPosData, ad_sensors |-> ReadAdSensors,
     counters |-> ReadCounters, liquid_level |-> ReadLiquidLevel, state_data |-> ReadStateData,
     acceleration |-> ReadAcceleration, term_identity |-> ReadTermIdentity,
     record_response |-> ReadRecordResponse, result_code |-> <<F("RCD", 1)>>, auth_params |-> <<F("FLG", 1)>>]
Writes ==
    [pos_data |-> WritePosData, ex_pos_data |-> WriteExPosData, ad_sensors |-> WriteAdSensors,
     counters |-> WriteCounters, liquid_level |-> WriteLiquidLevel, state_data |-> WriteStateData,
     acceleration |-> WriteAcceleration, term_identity |-> WriteTermIdentity,
     record_response |-> WriteRecordResponse, result_code |-> Put(<<"RCD">>), auth_params |-> Put(<<"FLG">>)]

NamesRead ==
    [pos_data |-> [FLG |-> PosBits], ex_pos_data |-> [FLG |-> ExPosBits], liquid_level |-> [FLG |-> LiquidBits],
     state_data |-> [FLG |-> StateBits], term_identity |-> [FLG |-> IdentityBits], counters |-> [FLG |-> Cfe],
     ad_sensors |-> [DIOE |-> Dio, ASFE |-> Asf]]
NamesWritten ==
    [pos_data |-> [FLG |-> PosText], ex_pos_data |-> [FLG |-> ExPosText], liquid_level |-> [FLG |-> LiquidText],
     state_data |-> [FLG |-> StateText], term_identity |-> [FLG |-> IdentityText], counters |-> [FLG |-> Reverse(Cfe)],
     ad_sensors |-> [DIOE |-> Reverse(Dio), ASFE |-> Reverse(Asf)]]

IsFlags(kind, name) == kind \in DOMAIN NamesRead /\ name \in DOMAIN NamesRead[kind]
Kinds == DOMAIN Reads \union {"auth_info"}

----------------------------------------------------------------------------
\* Decode: one field after the other, each where its flag says so.
Flags(names, byte) == {names[i] : i \in {j \in 1..8 : Bit(byte, j - 1)}} \ {"-"}
Given(flag, flags) == flag \in {"always"} \union flags \union (IF "RDF" \in flags THEN {} ELSE {"not RDF"})

\* How long a field is; raw data of a wrong length is asked for one byte too many.
Width(f, left, fields) ==
    CASE f.width = Rest -> IF Len(left) \in 4..512 THEN Len(left) ELSE Len(left) + 1
      [] f.width = Structures -> 8 * fields.SA[1]
      [] OTHER -> f.width

Start(b) == [ok |-> TRUE, left |-> b, fields |-> <<>>, flags |-> {}]
Take(kind, d, f) ==
    IF ~d.ok \/ ~Given(f.flag, d.flags) THEN d
    ELSE LET n == Width(f, d.left, d.fields)
             these == SubSeq(d.left, 1, n)
         IN IF n > Len(d.left) THEN [d EXCEPT !.ok = FALSE]
            ELSE LET rest == [d EXCEPT !.left = SubSeq(d.left, n + 1, Len(d.left))]
                 IN IF IsFlags(kind, f.name)
                    THEN [rest EXCEPT !.flags = @ \union Flags(NamesRead[kind][f.name], these[1])]
                    ELSE [rest EXCEPT !.fields = @ @@ (f.name :> these)]

\* What is refused besides data that is too short: data that is too long, but for
\* pos_data, a state, a number of structures or parameters out of range.
Allowed(kind, d) ==
    /\ kind # "pos_data" => d.left = <<>>
    /\ kind = "state_data" => d.fields.ST[1] < 8
    /\ kind = "acceleration" => d.fields.SA[1] > 0
    /\ kind = "auth_params" => d.fields.FLG[1] = 0

Judged(kind, d) == [ok |-> d.ok /\ Allowed(kind, d), fields |-> d.fields, flags |-> d.flags]
DecodeFields(kind, b) == Judged(kind, FoldLeft(LAMBDA acc, f : Take(kind, acc, f), Start(b), Reads[kind]))

\* Credentials: two or three strings, each ended by a zero.
DecodeAuthInfo(b) ==
    LET ends == SetToSortSeq({i \in DOMAIN b : b[i] = 0}, <)
        strings == [i \in DOMAIN ends |-> SubSeq(b, IF i = 1 THEN 1 ELSE ends[i - 1] + 1, ends[i] - 1)]
    IN [ok |-> /\ Len(ends) \in {2, 3} /\ Last(ends) = Len(b)
               /\ \A i \in DOMAIN ends : Len(strings[i]) <= IF i = 3 THEN 255 ELSE 32,
        fields |-> strings, flags |-> {}]

Decode(kind, b) == IF kind = "auth_info" THEN DecodeAuthInfo(b) ELSE DecodeFields(kind, b)

----------------------------------------------------------------------------
\* Encode: the fields in their order, each where its flag says so.
Composed(names, flags) == FoldLeft(LAMBDA n, name : 2 * n + IF name \in flags THEN 1 ELSE 0, 0, names)

\* Speed is a whole number of km/h and so loses the last digit of SPD. Degrees are
\* floating point numbers: the number written is the one read, or one less.
Whole10(spd) == 10 * ((spd[1] + 256 * (spd[2] % 64)) \div 10)
Speed(spd) == <<Whole10(spd) % 256, Whole10(spd) \div 256 + 64 * (spd[2] \div 64)>>
OneLess(b) ==
    IF \A i \in DOMAIN b : b[i] = 0 THEN b
    ELSE LET k == CHOOSE i \in DOMAIN b : b[i] > 0 /\ \A j \in 1..(i - 1) : b[j] = 0
         IN [i \in DOMAIN b |-> IF i < k THEN 255 ELSE IF i = k THEN b[i] - 1 ELSE b[i]]

\* The bytes of a field; "less" are the coordinates that are written one less.
Rewritten(kind, d, name, less) ==
    CASE IsFlags(kind, name) -> <<Composed(NamesWritten[kind][name], d.flags)>>
      [] name = "SPD" -> Speed(d.fields.SPD)
      [] name \in less -> OneLess(d.fields[name])
      [] OTHER -> d.fields[name]

EncodeFields(kind, d, less) ==
    LET present == SelectSeq(Writes[kind], LAMBDA f : Given(f.flag, d.flags))
    IN FlattenSeq([i \in DOMAIN present |-> Rewritten(kind, d, present[i].name, less)])

EncodeAuthInfo(d) == FlattenSeq([i \in DOMAIN d.fields |-> Append(d.fields[i], 0)])

Encode(kind, d, less) == IF kind = "auth_info" THEN EncodeAuthInfo(d) ELSE EncodeFields(kind, d, less)

=============================================================================
