-------------------------- MODULE EgtsServerProofs ---------------------------
(***************************************************************************)
(* What the checksums of crc/crc8 and crc/crc16 notice, what that means    *)
(* for a damaged frame in reader.go and packet.go, and that the readers of *)
(* egts_server and egts_gateway stay in step with the frames sent.         *)
(*                                                                         *)
(* The table of a checksum tells the bytes apart, so a register that has   *)
(* taken one byte can be told from one that has taken another, and stays   *)
(* so whatever follows: no byte can change without the checksum changing.  *)
(* That is shown for sequences of any length, by descent from the byte     *)
(* that differs and not by computing. A frame whose header is damaged is   *)
(* therefore never cut by ReadFrame and one whose data are damaged never   *)
(* decoded, and the bytes on the wire are always what is left of the       *)
(* frames sent, until a header that nobody checked was damaged.            *)
(***************************************************************************)
EXTENDS EgtsServer, SequenceTheorems, WellFoundedInduction, TLAPS

----------------------------------------------------------------------------
\* Bits.

B(a, w) == (a \div w) % 2

\* A byte is the sum of its bits, and B(a, w) is its bit of weight w.
LEMMA BitsOf ==
    ASSUME NEW a \in Byte
    PROVE  /\ a = 128 * B(a, 128) + 64 * B(a, 64) + 32 * B(a, 32) + 16 * B(a, 16)
                    + 8 * B(a, 8) + 4 * B(a, 4) + 2 * B(a, 2) + B(a, 1)
           /\ \A w \in {128, 64, 32, 16, 8, 4, 2, 1} : B(a, w) \in {0, 1}
  BY DEF B, Byte

\* A bit of the exclusive or is set where the bits differ.
LEMMA XorBitIs ==
    ASSUME NEW a \in Byte, NEW b \in Byte, NEW w \in {128, 64, 32, 16, 8, 4, 2, 1}
    PROVE  XorBit(a, b, w) = IF B(a, w) = B(b, w) THEN 0 ELSE w
  BY DEF XorBit, B, Byte

\* A table over all bytes is the sequence of its 256 entries (the arrays of crc8.go and
\* crc16.go).
LEMMA Whole256 ==
    ASSUME NEW S, NEW f \in [1..256 -> S]
    PROVE  SubSeq(f, 1, 256) = f
<1>1. f \in Seq(S)
  <2>0. 256 \in Nat
    OBVIOUS
  <2>1. \E n \in Nat : f \in [1..n -> S]
    BY <2>0, Zenon
  <2>2. f \in UNION {[1..n -> S] : n \in Nat}
    BY <2>1, Zenon
  <2> QED BY <2>2, SeqDef, Zenon
<1>2. Len(f) = 256
  BY <1>1, LenProperties
<1> QED BY ONLY <1>1, <1>2, SubSeqFull

\* The exclusive or of two bytes is a byte.
LEMMA XorBitsType == ASSUME NEW a \in Byte, NEW b \in Byte PROVE XorBits(a, b) \in Byte
<1>1. \A w \in {128, 64, 32, 16, 8, 4, 2, 1} : XorBit(a, b, w) \in {0, w}
  BY XorBitIs
<1> QED BY <1>1 DEF XorBits, Byte

\* Looking the exclusive or up in the table is computing it (the operator ^ of the code).
LEMMA XorIs ==
    ASSUME NEW a \in Byte, NEW b \in Byte
    PROVE  XorByte(a, b) = XorBits(a, b) /\ XorByte(a, b) \in Byte
<1> DEFINE row == [x \in 1..256 |-> [y \in 1..256 |-> XorBits(x - 1, y - 1)]]
<1>1. \A x \in 1..256 : x - 1 \in Byte
  BY DEF Byte
<1>2. \A x \in 1..256 : row[x] \in [1..256 -> Byte]
  BY <1>1, XorBitsType
<1>3. \A x \in 1..256 : Table(LAMBDA y : XorBits(x - 1, y)) = row[x]
  <2> SUFFICES ASSUME NEW x \in 1..256 PROVE Table(LAMBDA y : XorBits(x - 1, y)) = row[x]
    OBVIOUS
  <2>1. Table(LAMBDA y : XorBits(x - 1, y)) = SubSeq(row[x], 1, 256)
    BY DEF Table
  <2>2. row[x] \in [1..256 -> Byte]
    BY <1>2
  <2> HIDE DEF row
  <2>3. SubSeq(row[x], 1, 256) = row[x]
    BY <2>2, Whole256
  <2> QED BY <2>1, <2>3
<1>4. XorTable = SubSeq([x \in 1..256 |-> Table(LAMBDA y : XorBits(x - 1, y))], 1, 256)
  BY DEF XorTable, Table
<1>5. [x \in 1..256 |-> Table(LAMBDA y : XorBits(x - 1, y))] = row
  BY <1>3
<1>6. XorTable = row
  <2>1. row \in [1..256 -> [1..256 -> Byte]]
    BY <1>2
  <2> HIDE DEF row
  <2>2. SubSeq(row, 1, 256) = row
    BY <2>1, Whole256
  <2> QED BY <1>4, <1>5, <2>2
<1>7. a + 1 \in 1..256 /\ b + 1 \in 1..256 /\ (a + 1) - 1 = a /\ (b + 1) - 1 = b
  BY DEF Byte
<1> QED BY <1>6, <1>7, XorBitsType DEF XorByte
Weights == {128, 64, 32, 16, 8, 4, 2, 1}

\* The bits of a sum of distinct weights are the weights that occur in it.
LEMMA BitOfSum ==
    ASSUME NEW x128 \in {0, 128}, NEW x64 \in {0, 64}, NEW x32 \in {0, 32}, NEW x16 \in {0, 16},
           NEW x8 \in {0, 8}, NEW x4 \in {0, 4}, NEW x2 \in {0, 2}, NEW x1 \in {0, 1},
           NEW x, x = x128 + x64 + x32 + x16 + x8 + x4 + x2 + x1
    PROVE  /\ (B(x, 128) = 1 <=> x128 # 0) /\ (B(x, 64) = 1 <=> x64 # 0) /\ (B(x, 32) = 1 <=> x32 # 0)
           /\ (B(x, 16) = 1 <=> x16 # 0) /\ (B(x, 8) = 1 <=> x8 # 0) /\ (B(x, 4) = 1 <=> x4 # 0)
           /\ (B(x, 2) = 1 <=> x2 # 0) /\ (B(x, 1) = 1 <=> x1 # 0)
  BY DEF B

\* The exclusive or bit by bit, whatever the bytes.
LEMMA XorBitwise ==
    ASSUME NEW a \in Byte, NEW b \in Byte, NEW w \in Weights
    PROVE  B(XorByte(a, b), w) = IF B(a, w) = B(b, w) THEN 0 ELSE 1
<1>1. \A v \in Weights : XorBit(a, b, v) \in {0, v} /\ (XorBit(a, b, v) # 0 <=> B(a, v) # B(b, v))
  BY XorBitIs DEF Weights
<1>2. XorByte(a, b) = XorBits(a, b) /\ XorByte(a, b) \in Byte
  BY XorIs
<1>3. \A v \in Weights : B(XorByte(a, b), v) = 1 <=> XorBit(a, b, v) # 0
  BY <1>1, <1>2, BitOfSum DEF XorBits, Weights
<1>4. B(XorByte(a, b), w) \in {0, 1}
  BY <1>2, BitsOf DEF Weights
<1> QED BY <1>1, <1>3, <1>4

\* Bytes with the same bits are equal.
LEMMA SameBits ==
    ASSUME NEW a \in Byte, NEW b \in Byte, \A w \in Weights : B(a, w) = B(b, w)
    PROVE  a = b
<1> DEFINE Sum(x) == 128 * B(x, 128) + 64 * B(x, 64) + 32 * B(x, 32) + 16 * B(x, 16)
                       + 8 * B(x, 8) + 4 * B(x, 4) + 2 * B(x, 2) + B(x, 1)
<1>1. Sum(a) = Sum(b)
  BY DEF Weights
<1> QED BY <1>1, BitsOf

\* Exclusive or with the same byte keeps bytes apart, and bits too.
LEMMA XorApart ==
    ASSUME NEW a \in Byte, NEW b \in Byte, NEW x \in Byte
    PROVE  /\ \A w \in Weights : B(XorByte(a, x), w) = B(XorByte(b, x), w) <=> B(a, w) = B(b, w)
           /\ \A w \in Weights : B(XorByte(x, a), w) = B(XorByte(x, b), w) <=> B(a, w) = B(b, w)
           /\ XorByte(a, x) = XorByte(b, x) => a = b
           /\ XorByte(x, a) = XorByte(x, b) => a = b
<1>1. \A w \in Weights : B(a, w) \in {0, 1} /\ B(b, w) \in {0, 1} /\ B(x, w) \in {0, 1}
  BY BitsOf DEF Weights
<1>2. \A w \in Weights : B(XorByte(a, x), w) = B(XorByte(b, x), w) <=> B(a, w) = B(b, w)
  BY <1>1, XorBitwise
<1>3. \A w \in Weights : B(XorByte(x, a), w) = B(XorByte(x, b), w) <=> B(a, w) = B(b, w)
  BY <1>1, XorBitwise
<1>4. (\A w \in Weights : B(a, w) = B(b, w)) => a = b
  BY SameBits
<1> QED BY <1>2, <1>3, <1>4
----------------------------------------------------------------------------
\* The tables of the checksums.

Bytes2 == Byte \X Byte
Doubled(x) == (2 * x) % 256

\* Doubling a byte moves every bit one place up and lets the highest fall out; l comes in.
LEMMA DoubledBits ==
    ASSUME NEW x \in Byte, NEW l \in {0, 1}
    PROVE  /\ Doubled(x) + l \in Byte
           /\ \A w \in {64, 32, 16, 8, 4, 2, 1} : B(Doubled(x) + l, 2 * w) = B(x, w)
           /\ B(Doubled(x) + l, 1) = l
<1> DEFINE y == Doubled(x) + l
<1>1. \A w \in {128, 64, 32, 16, 8, 4, 2, 1} : B(x, w) \in {0, 1}
  BY BitsOf
<1>2. Doubled(x) = 2 * x - 256 * B(x, 128)
  BY DEF Doubled, B, Byte
<1>3. x = 128 * B(x, 128) + 64 * B(x, 64) + 32 * B(x, 32) + 16 * B(x, 16)
            + 8 * B(x, 8) + 4 * B(x, 4) + 2 * B(x, 2) + B(x, 1)
  BY BitsOf
<1>4. y = 128 * B(x, 64) + 64 * B(x, 32) + 32 * B(x, 16) + 16 * B(x, 8)
            + 8 * B(x, 4) + 4 * B(x, 2) + 2 * B(x, 1) + l
  BY <1>1, <1>2, <1>3
<1>5. y \in Byte
  BY DEF Doubled, Byte
<1> HIDE DEF y
<1>6. /\ 128 * B(x, 64) \in {0, 128} /\ 64 * B(x, 32) \in {0, 64} /\ 32 * B(x, 16) \in {0, 32}
      /\ 16 * B(x, 8) \in {0, 16} /\ 8 * B(x, 4) \in {0, 8} /\ 4 * B(x, 2) \in {0, 4}
      /\ 2 * B(x, 1) \in {0, 2} /\ l \in {0, 1}
  BY <1>1
<1>7. /\ (B(y, 128) = 1 <=> 128 * B(x, 64) # 0) /\ (B(y, 64) = 1 <=> 64 * B(x, 32) # 0)
      /\ (B(y, 32) = 1 <=> 32 * B(x, 16) # 0) /\ (B(y, 16) = 1 <=> 16 * B(x, 8) # 0)
      /\ (B(y, 8) = 1 <=> 8 * B(x, 4) # 0) /\ (B(y, 4) = 1 <=> 4 * B(x, 2) # 0)
      /\ (B(y, 2) = 1 <=> 2 * B(x, 1) # 0) /\ (B(y, 1) = 1 <=> l # 0)
  BY <1>4, <1>6, BitOfSum
<1>8. \A w \in {128, 64, 32, 16, 8, 4, 2, 1} : B(y, w) \in {0, 1}
  BY <1>5, BitsOf
<1>9. /\ B(y, 128) = B(x, 64) /\ B(y, 64) = B(x, 32) /\ B(y, 32) = B(x, 16) /\ B(y, 16) = B(x, 8)
      /\ B(y, 8) = B(x, 4) /\ B(y, 4) = B(x, 2) /\ B(y, 2) = B(x, 1) /\ B(y, 1) = l
  BY <1>1, <1>7, <1>8
<1> QED BY <1>5, <1>9 DEF y

\* Doubled bytes are told apart if the bits that fell out are equal.
LEMMA DoubledApart ==
    ASSUME NEW x \in Byte, NEW y \in Byte, Doubled(x) = Doubled(y), B(x, 128) = B(y, 128)
    PROVE  x = y
  BY DEF Doubled, B, Byte

\* One round of MakeTable of crc8.go loses nothing: the polynomial sets the lowest bit just
\* when one fell out.
LEMMA Shift8Apart ==
    ASSUME NEW r \in Byte
    PROVE  /\ Shift8(r) \in Byte
           /\ \A s \in Byte : Shift8(r) = Shift8(s) => r = s
<1>1. ASSUME NEW x \in Byte
      PROVE  /\ Doubled(x) \in Byte /\ B(Doubled(x), 1) = 0
             /\ Shift8(x) = IF B(x, 128) = 1 THEN XorByte(Doubled(x), 49) ELSE Doubled(x)
             /\ B(x, 128) \in {0, 1}
  <2>1. x >= 128 <=> B(x, 128) = 1
    BY DEF B, Byte
  <2>2. x < 128 => Doubled(x) = 2 * x
    BY DEF Doubled, Byte
  <2>3. Doubled(x) \in Byte /\ B(Doubled(x), 1) = 0 /\ B(x, 128) \in {0, 1}
    BY DEF Doubled, B, Byte
  <2> QED BY <2>1, <2>2, <2>3 DEF Shift8, Doubled, Byte
<1>2. 49 \in Byte /\ B(49, 1) = 1 /\ 1 \in Weights
  BY DEF Byte, B, Weights
<1>3. ASSUME NEW x \in Byte PROVE Shift8(x) \in Byte /\ B(Shift8(x), 1) = B(x, 128)
  <2>1. CASE B(x, 128) = 1
    <3>1. Shift8(x) = XorByte(Doubled(x), 49) /\ Doubled(x) \in Byte /\ B(Doubled(x), 1) = 0
      BY <1>1, <2>1
    <3>2. B(XorByte(Doubled(x), 49), 1) = 1
      BY <1>2, <3>1, XorBitwise
    <3> QED BY <1>2, <2>1, <3>1, <3>2, XorIs
  <2>2. CASE B(x, 128) # 1
    BY <1>1, <2>2
  <2> QED BY <2>1, <2>2
<1>4. ASSUME NEW s \in Byte, Shift8(r) = Shift8(s) PROVE r = s
  <2>1. B(r, 128) = B(s, 128)
    BY <1>3, <1>4
  <2>2. CASE B(r, 128) = 1
    <3>1. XorByte(Doubled(r), 49) = XorByte(Doubled(s), 49) /\ Doubled(r) \in Byte /\ Doubled(s) \in Byte
      BY <1>1, <1>4, <2>1, <2>2
    <3>2. Doubled(r) = Doubled(s)
      BY <1>2, <3>1, XorApart
    <3> QED BY <2>1, <3>2, DoubledApart
  <2>3. CASE B(r, 128) # 1
    <3>1. Doubled(r) = Doubled(s)
      BY <1>1, <1>4, <2>1, <2>3
    <3> QED BY <2>1, <3>1, DoubledApart
  <2> QED BY <2>2, <2>3
<1> QED BY <1>3, <1>4

\* The table of crc8.go has another entry for every byte.
LEMMA Table8Apart ==
    ASSUME NEW m \in Byte
    PROVE  /\ Table8[1 + m] \in Byte
           /\ \A n \in Byte : Table8[1 + m] = Table8[1 + n] => m = n
<1>1. ASSUME NEW x \in Byte PROVE Four8(x) \in Byte
  BY Shift8Apart DEF Four8
<1>2. ASSUME NEW x \in Byte, NEW y \in Byte, Four8(x) = Four8(y) PROVE x = y
  <2>1. /\ Shift8(x) \in Byte /\ Shift8(Shift8(x)) \in Byte /\ Shift8(Shift8(Shift8(x))) \in Byte
        /\ Shift8(y) \in Byte /\ Shift8(Shift8(y)) \in Byte /\ Shift8(Shift8(Shift8(y))) \in Byte
    BY Shift8Apart
  <2>2. Shift8(Shift8(Shift8(x))) = Shift8(Shift8(Shift8(y)))
    BY <1>2, <2>1, Shift8Apart DEF Four8
  <2>3. Shift8(Shift8(x)) = Shift8(Shift8(y))
    BY <2>1, <2>2, Shift8Apart
  <2>4. Shift8(x) = Shift8(y)
    BY <2>1, <2>3, Shift8Apart
  <2> QED BY <2>4, Shift8Apart
<1>3. ASSUME NEW n \in Byte PROVE Table8[1 + n] = Four8(Four8(n))
  <2> DEFINE f == [x \in 1..256 |-> Four8(Four8(x - 1))]
  <2>1. \A x \in 1..256 : x - 1 \in Byte
    BY DEF Byte
  <2>2. f \in [1..256 -> Byte]
    BY <1>1, <2>1
  <2>3. Table8 = SubSeq(f, 1, 256)
    BY DEF Table8, Table
  <2>4. 1 + n \in 1..256 /\ (1 + n) - 1 = n
    BY DEF Byte
  <2>5. f[1 + n] = Four8(Four8(n))
    BY <2>4
  <2> HIDE DEF f
  <2> QED BY <2>2, <2>3, <2>5, Whole256
<1> QED BY <1>1, <1>2, <1>3

\* One round of MakeTable of crc16.go: what falls out of the high byte comes into the low
\* byte as its lowest bit, and the other bits move up alike in two registers that lose the
\* same bit.
LEMMA Table16Bits ==
    ASSUME NEW r \in Bytes2, NEW s \in Bytes2
    PROVE  /\ Shift16(r) \in Bytes2
           /\ B(Shift16(r)[2], 1) = B(r[1], 128)
           /\ B(r[1], 128) = B(s[1], 128)
                => \A w \in {64, 32, 16, 8, 4, 2, 1}, i \in {1, 2} :
                      B(Shift16(r)[i], 2 * w) = B(Shift16(s)[i], 2 * w) => B(r[i], w) = B(s[i], w)
<1>1. 16 \in Byte /\ 33 \in Byte /\ B(33, 1) = 1 /\ 1 \in Weights
      /\ \A w \in {64, 32, 16, 8, 4, 2, 1} : 2 * w \in Weights
  BY DEF Byte, B, Weights
<1> DEFINE H(x) == Doubled(x[1]) + B(x[2], 128)
           L(x) == Doubled(x[2]) + 0
<1>2. ASSUME NEW x \in Bytes2
      PROVE  /\ x[1] \in Byte /\ x[2] \in Byte
             /\ B(x[1], 128) \in {0, 1}
             /\ H(x) \in Byte /\ \A w \in {64, 32, 16, 8, 4, 2, 1} : B(H(x), 2 * w) = B(x[1], w)
             /\ L(x) \in Byte /\ \A w \in {64, 32, 16, 8, 4, 2, 1} : B(L(x), 2 * w) = B(x[2], w)
             /\ B(L(x), 1) = 0
             /\ Shift16(x) = IF B(x[1], 128) = 1 THEN <<XorByte(H(x), 16), XorByte(L(x), 33)>> ELSE <<H(x), L(x)>>
  <2>1. x[1] \in Byte /\ x[2] \in Byte
    BY DEF Bytes2
  <2>2. B(x[1], 128) \in {0, 1} /\ B(x[2], 128) \in {0, 1}
    BY <2>1, BitsOf
  <2>3. H(x) \in Byte /\ \A w \in {64, 32, 16, 8, 4, 2, 1} : B(H(x), 2 * w) = B(x[1], w)
    BY <2>1, <2>2, DoubledBits
  <2>4. L(x) \in Byte /\ B(L(x), 1) = 0 /\ \A w \in {64, 32, 16, 8, 4, 2, 1} : B(L(x), 2 * w) = B(x[2], w)
    BY <2>1, DoubledBits
  <2>5. x[1] >= 128 <=> B(x[1], 128) = 1
    BY <2>1 DEF B, Byte
  <2>6. x[2] \div 128 = B(x[2], 128)
    BY <2>1 DEF B, Byte
  <2>7. (2 * x[2]) % 256 = L(x)
    BY <2>1 DEF Doubled, Byte
  <2>8. Shift16(x) = IF B(x[1], 128) = 1 THEN XorWords(<<H(x), L(x)>>, <<16, 33>>) ELSE <<H(x), L(x)>>
    BY <2>5, <2>6, <2>7 DEF Shift16, Doubled
  <2>9. XorWords(<<H(x), L(x)>>, <<16, 33>>) = <<XorByte(H(x), 16), XorByte(L(x), 33)>>
    BY DEF XorWords
  <2> QED BY <2>1, <2>2, <2>3, <2>4, <2>8, <2>9
<1> HIDE DEF H, L
<1>3. Shift16(r) \in Bytes2
  BY <1>1, <1>2, XorIs DEF Bytes2
<1>4. B(Shift16(r)[2], 1) = B(r[1], 128)
  <2>1. CASE B(r[1], 128) = 1
    <3>1. Shift16(r)[2] = XorByte(L(r), 33)
      BY <1>2, <2>1
    <3>2. B(XorByte(L(r), 33), 1) = 1
      BY <1>1, <1>2, XorBitwise
    <3> QED BY <2>1, <3>1, <3>2
  <2>2. CASE B(r[1], 128) = 0
    <3>1. Shift16(r)[2] = L(r)
      BY <1>2, <2>2
    <3> QED BY <1>2, <2>2, <3>1
  <2> QED BY <1>2, <2>1, <2>2
<1>5. ASSUME B(r[1], 128) = B(s[1], 128), NEW w \in {64, 32, 16, 8, 4, 2, 1}, NEW i \in {1, 2},
             B(Shift16(r)[i], 2 * w) = B(Shift16(s)[i], 2 * w)
      PROVE  B(r[i], w) = B(s[i], w)
  <2>1. i = 1 => B(H(r), 2 * w) = B(H(s), 2 * w)
    <3>1. CASE B(r[1], 128) = 1 /\ i = 1
      <4>1. Shift16(r)[1] = XorByte(H(r), 16) /\ Shift16(s)[1] = XorByte(H(s), 16)
        BY <1>2, <1>5, <3>1
      <4> QED BY <1>1, <1>2, <1>5, <3>1, <4>1, XorApart
    <3>2. CASE B(r[1], 128) = 0 /\ i = 1
      BY <1>2, <1>5, <3>2
    <3> QED BY <1>2, <3>1, <3>2
  <2>2. i = 2 => B(L(r), 2 * w) = B(L(s), 2 * w)
    <3>1. CASE B(r[1], 128) = 1 /\ i = 2
      <4>1. Shift16(r)[2] = XorByte(L(r), 33) /\ Shift16(s)[2] = XorByte(L(s), 33)
        BY <1>2, <1>5, <3>1
      <4> QED BY <1>1, <1>2, <1>5, <3>1, <4>1, XorApart
    <3>2. CASE B(r[1], 128) = 0 /\ i = 2
      BY <1>2, <1>5, <3>2
    <3> QED BY <1>2, <3>1, <3>2
  <2> QED BY <1>2, <2>1, <2>2
<1> QED BY <1>3, <1>4, <1>5

\* Eight shifts put the bits that fell out of the high byte into the low byte, where they
\* tell the bytes the table was computed for.
LEMMA ShiftedApart ==
    ASSUME NEW r \in [0..8 -> Bytes2], NEW s \in [0..8 -> Bytes2],
           \A k \in 0..7 : r[k + 1] = Shift16(r[k]) /\ s[k + 1] = Shift16(s[k]),
           r[8][2] = s[8][2]
    PROVE  r[0][1] = s[0][1]
<1> DEFINE Eq(i, w, k) == B(r[k][i], w) = B(s[k][i], w)
<1> HIDE DEF Eq
<1>1. ASSUME NEW k \in 0..7
      PROVE  /\ Eq(2, 1, k + 1) => Eq(1, 128, k)
             /\ Eq(1, 128, k) => \A w \in {64, 32, 16, 8, 4, 2, 1}, i \in {1, 2} : Eq(i, 2 * w, k + 1) => Eq(i, w, k)
  <2>1. r[k] \in Bytes2 /\ s[k] \in Bytes2 /\ r[k + 1] = Shift16(r[k]) /\ s[k + 1] = Shift16(s[k])
    OBVIOUS
  <2> QED BY <2>1, Table16Bits DEF Eq
<1>2a. Eq(2, 1, 8)
  BY DEF Eq
<1>2b. Eq(2, 2, 8)
  BY DEF Eq
<1>2c. Eq(2, 4, 8)
  BY DEF Eq
<1>2d. Eq(2, 8, 8)
  BY DEF Eq
<1>2e. Eq(2, 16, 8)
  BY DEF Eq
<1>2f. Eq(2, 32, 8)
  BY DEF Eq
<1>2g. Eq(2, 64, 8)
  BY DEF Eq
<1>2h. Eq(2, 128, 8)
  BY DEF Eq
<1>b. r[0][1] \in Byte /\ s[0][1] \in Byte
  BY DEF Bytes2
<1>3. ASSUME NEW m \in 1..8, NEW k \in 0..7, m = k + 1, Eq(2, 1, m)
      PROVE  /\ Eq(1, 128, k)
             /\ Eq(2, 2, m) => Eq(2, 1, k)
             /\ Eq(2, 4, m) => Eq(2, 2, k)
             /\ Eq(2, 8, m) => Eq(2, 4, k)
             /\ Eq(2, 16, m) => Eq(2, 8, k)
             /\ Eq(2, 32, m) => Eq(2, 16, k)
             /\ Eq(2, 64, m) => Eq(2, 32, k)
             /\ Eq(2, 128, m) => Eq(2, 64, k)
             /\ Eq(1, 2, m) => Eq(1, 1, k)
             /\ Eq(1, 4, m) => Eq(1, 2, k)
             /\ Eq(1, 8, m) => Eq(1, 4, k)
             /\ Eq(1, 16, m) => Eq(1, 8, k)
             /\ Eq(1, 32, m) => Eq(1, 16, k)
             /\ Eq(1, 64, m) => Eq(1, 32, k)
             /\ Eq(1, 128, m) => Eq(1, 64, k)
  <2>1. \A w \in {64, 32, 16, 8, 4, 2, 1}, i \in {1, 2} : Eq(i, 2 * w, m) => Eq(i, w, k)
    BY <1>1, <1>3
  <2>2. 2 * 64 = 128 /\ 2 * 32 = 64 /\ 2 * 16 = 32 /\ 2 * 8 = 16 /\ 2 * 4 = 8 /\ 2 * 2 = 4 /\ 2 * 1 = 2
    OBVIOUS
  <2>3. \A i \in {1, 2} :
           /\ Eq(i, 2 * 1, m) => Eq(i, 1, k)
           /\ Eq(i, 2 * 2, m) => Eq(i, 2, k)
           /\ Eq(i, 2 * 4, m) => Eq(i, 4, k)
           /\ Eq(i, 2 * 8, m) => Eq(i, 8, k)
           /\ Eq(i, 2 * 16, m) => Eq(i, 16, k)
           /\ Eq(i, 2 * 32, m) => Eq(i, 32, k)
           /\ Eq(i, 2 * 64, m) => Eq(i, 64, k)
    BY <2>1
  <2> QED BY <1>1, <1>3, <2>2, <2>3
<1>c. /\ 7 \in 0..7 /\ 6 \in 0..7 /\ 5 \in 0..7 /\ 4 \in 0..7 /\ 3 \in 0..7 /\ 2 \in 0..7 /\ 1 \in 0..7 /\ 0 \in 0..7
      /\ 8 \in 1..8 /\ 7 \in 1..8 /\ 6 \in 1..8 /\ 5 \in 1..8 /\ 4 \in 1..8 /\ 3 \in 1..8 /\ 2 \in 1..8 /\ 1 \in 1..8
      /\ 8 = 7 + 1 /\ 7 = 6 + 1 /\ 6 = 5 + 1 /\ 5 = 4 + 1 /\ 4 = 3 + 1 /\ 3 = 2 + 1 /\ 2 = 1 + 1 /\ 1 = 0 + 1
  OBVIOUS
<1>7. Eq(1, 128, 7) /\ Eq(2, 1, 7) /\ Eq(2, 2, 7) /\ Eq(2, 4, 7) /\ Eq(2, 8, 7) /\ Eq(2, 16, 7) /\ Eq(2, 32, 7) /\ Eq(2, 64, 7)
  <2>1. Eq(1, 128, 7)
    BY <1>2a, <1>3, <1>c
  <2>2. Eq(2, 1, 7)
    BY <1>2a, <1>2b, <1>3, <1>c
  <2>3. Eq(2, 2, 7)
    BY <1>2a, <1>2c, <1>3, <1>c
  <2>4. Eq(2, 4, 7)
    BY <1>2a, <1>2d, <1>3, <1>c
  <2>5. Eq(2, 8, 7)
    BY <1>2a, <1>2e, <1>3, <1>c
  <2>6. Eq(2, 16, 7)
    BY <1>2a, <1>2f, <1>3, <1>c
  <2>7. Eq(2, 32, 7)
    BY <1>2a, <1>2g, <1>3, <1>c
  <2>8. Eq(2, 64, 7)
    BY <1>2a, <1>2h, <1>3, <1>c
  <2> QED BY <2>1, <2>2, <2>3, <2>4, <2>5, <2>6, <2>7, <2>8
<1>6. /\ Eq(2, 1, 6) /\ Eq(2, 2, 6) /\ Eq(2, 4, 6) /\ Eq(2, 8, 6) /\ Eq(2, 16, 6) /\ Eq(2, 32, 6)
      /\ Eq(1, 128, 6) /\ Eq(1, 64, 6)
  BY <1>3, <1>7, <1>c
<1>5. /\ Eq(2, 1, 5) /\ Eq(2, 2, 5) /\ Eq(2, 4, 5) /\ Eq(2, 8, 5) /\ Eq(2, 16, 5)
      /\ Eq(1, 128, 5) /\ Eq(1, 64, 5) /\ Eq(1, 32, 5)
  BY <1>3, <1>6, <1>c
<1>4. /\ Eq(2, 1, 4) /\ Eq(2, 2, 4) /\ Eq(2, 4, 4) /\ Eq(2, 8, 4)
      /\ Eq(1, 128, 4) /\ Eq(1, 64, 4) /\ Eq(1, 32, 4) /\ Eq(1, 16, 4)
  BY <1>3, <1>5, <1>c
<1>8. /\ Eq(2, 1, 3) /\ Eq(2, 2, 3) /\ Eq(2, 4, 3)
      /\ Eq(1, 128, 3) /\ Eq(1, 64, 3) /\ Eq(1, 32, 3) /\ Eq(1, 16, 3) /\ Eq(1, 8, 3)
  BY <1>3, <1>4, <1>c
<1>9. /\ Eq(2, 1, 2) /\ Eq(2, 2, 2)
      /\ Eq(1, 128, 2) /\ Eq(1, 64, 2) /\ Eq(1, 32, 2) /\ Eq(1, 16, 2) /\ Eq(1, 8, 2) /\ Eq(1, 4, 2)
  BY <1>3, <1>8, <1>c
<1>10. /\ Eq(2, 1, 1)
       /\ Eq(1, 128, 1) /\ Eq(1, 64, 1) /\ Eq(1, 32, 1) /\ Eq(1, 16, 1) /\ Eq(1, 8, 1) /\ Eq(1, 4, 1) /\ Eq(1, 2, 1)
  BY <1>3, <1>9, <1>c
<1>11. /\ Eq(1, 128, 0) /\ Eq(1, 64, 0) /\ Eq(1, 32, 0) /\ Eq(1, 16, 0)
       /\ Eq(1, 8, 0) /\ Eq(1, 4, 0) /\ Eq(1, 2, 0) /\ Eq(1, 1, 0)
  BY <1>3, <1>10, <1>c
<1>12. \A w \in Weights : B(r[0][1], w) = B(s[0][1], w)
  BY <1>11 DEF Eq, Weights
<1> QED BY <1>b, <1>12, SameBits

\* The low bytes of the entries of the table of crc16.go differ for every byte.
LEMMA Table16Apart ==
    ASSUME NEW m \in Byte
    PROVE  /\ Table16[1 + m] \in Bytes2
           /\ \A n \in Byte : Table16[1 + m][2] = Table16[1 + n][2] => m = n
<1> DEFINE Shifts(n) == [k \in 0..8 |->
               CASE k = 0 -> <<n, 0>>
                 [] k = 1 -> Shift16(<<n, 0>>)
                 [] k = 2 -> Shift16(Shift16(<<n, 0>>))
                 [] k = 3 -> Shift16(Shift16(Shift16(<<n, 0>>)))
                 [] k = 4 -> Four16(<<n, 0>>)
                 [] k = 5 -> Shift16(Four16(<<n, 0>>))
                 [] k = 6 -> Shift16(Shift16(Four16(<<n, 0>>)))
                 [] k = 7 -> Shift16(Shift16(Shift16(Four16(<<n, 0>>))))
                 [] k = 8 -> Four16(Four16(<<n, 0>>))]
<1>1. ASSUME NEW x \in Bytes2 PROVE Four16(x) = Shift16(Shift16(Shift16(Shift16(x)))) /\ Shift16(x) \in Bytes2
  BY Table16Bits DEF Four16
<1>2. ASSUME NEW n \in Byte
      PROVE  /\ Four16(Four16(<<n, 0>>)) \in Bytes2
             /\ \E f \in [0..8 -> Bytes2] :
                   /\ \A k \in 0..7 : f[k + 1] = Shift16(f[k])
                   /\ f[0][1] = n
                   /\ f[8] = Four16(Four16(<<n, 0>>))
  <2> DEFINE f == Shifts(n)
  <2>1. <<n, 0>> \in Bytes2
    BY DEF Bytes2, Byte
  <2>2. /\ Shift16(<<n, 0>>) \in Bytes2 /\ Shift16(Shift16(<<n, 0>>)) \in Bytes2
        /\ Shift16(Shift16(Shift16(<<n, 0>>))) \in Bytes2
        /\ Four16(<<n, 0>>) = Shift16(Shift16(Shift16(Shift16(<<n, 0>>)))) /\ Four16(<<n, 0>>) \in Bytes2
    BY <1>1, <2>1
  <2>3. /\ Shift16(Four16(<<n, 0>>)) \in Bytes2 /\ Shift16(Shift16(Four16(<<n, 0>>))) \in Bytes2
        /\ Shift16(Shift16(Shift16(Four16(<<n, 0>>)))) \in Bytes2
        /\ Four16(Four16(<<n, 0>>)) = Shift16(Shift16(Shift16(Shift16(Four16(<<n, 0>>)))))
        /\ Four16(Four16(<<n, 0>>)) \in Bytes2
    BY <1>1, <2>2
  <2>4. /\ f[0] = <<n, 0>> /\ f[1] = Shift16(<<n, 0>>) /\ f[2] = Shift16(Shift16(<<n, 0>>))
        /\ f[3] = Shift16(Shift16(Shift16(<<n, 0>>))) /\ f[4] = Four16(<<n, 0>>)
        /\ f[5] = Shift16(Four16(<<n, 0>>)) /\ f[6] = Shift16(Shift16(Four16(<<n, 0>>)))
        /\ f[7] = Shift16(Shift16(Shift16(Four16(<<n, 0>>)))) /\ f[8] = Four16(Four16(<<n, 0>>))
        /\ DOMAIN f = 0..8
        /\ f = [k \in 0..8 |-> f[k]]
    OBVIOUS
  <2> HIDE DEF f
  <2>5. \A k \in 0..8 : f[k] \in Bytes2
    <3>1. \A k \in 0..8 : k \in {0, 1, 2, 3, 4, 5, 6, 7, 8}
      OBVIOUS
    <3> QED BY <2>1, <2>2, <2>3, <2>4, <3>1
  <2>6. \A k \in 0..7 : f[k + 1] = Shift16(f[k])
    <3>1. \A k \in 0..7 : k \in {0, 1, 2, 3, 4, 5, 6, 7}
      OBVIOUS
    <3>2. /\ f[1] = Shift16(f[0]) /\ f[2] = Shift16(f[1]) /\ f[3] = Shift16(f[2])
          /\ f[4] = Shift16(f[3]) /\ f[5] = Shift16(f[4]) /\ f[6] = Shift16(f[5])
          /\ f[7] = Shift16(f[6]) /\ f[8] = Shift16(f[7])
      BY <2>2, <2>3, <2>4
    <3> QED BY <3>1, <3>2
  <2>7. f \in [0..8 -> Bytes2]
    BY <2>4, <2>5
  <2>8. f[0][1] = n
    BY <2>4
  <2> QED BY <2>3, <2>4, <2>6, <2>7, <2>8
<1>3. ASSUME NEW n \in Byte PROVE Table16[1 + n] = Four16(Four16(<<n, 0>>)) /\ Table16[1 + n] \in Bytes2
  <2> DEFINE f == [x \in 1..256 |-> Four16(Four16(<<x - 1, 0>>))]
  <2>1. \A x \in 1..256 : x - 1 \in Byte
    BY DEF Byte
  <2>2. \A x \in Byte : Four16(Four16(<<x, 0>>)) \in Bytes2
    BY <1>2
  <2>3. f \in [1..256 -> Bytes2]
    BY <2>1, <2>2
  <2>4. Table16 = SubSeq(f, 1, 256)
    BY DEF Table16, Table
  <2>5. 1 + n \in 1..256 /\ (1 + n) - 1 = n
    BY DEF Byte
  <2>6. f[1 + n] = Four16(Four16(<<n, 0>>))
    BY <2>5
  <2> HIDE DEF f
  <2>7. SubSeq(f, 1, 256) = f
    BY <2>3, Whole256
  <2> QED BY <2>2, <2>4, <2>6, <2>7
<1>4. ASSUME NEW n \in Byte, Table16[1 + m][2] = Table16[1 + n][2] PROVE m = n
  <2>1. PICK f \in [0..8 -> Bytes2] :
           (\A k \in 0..7 : f[k + 1] = Shift16(f[k])) /\ f[0][1] = m /\ f[8] = Four16(Four16(<<m, 0>>))
    BY <1>2
  <2>2. PICK g \in [0..8 -> Bytes2] :
           (\A k \in 0..7 : g[k + 1] = Shift16(g[k])) /\ g[0][1] = n /\ g[8] = Four16(Four16(<<n, 0>>))
    BY <1>2
  <2>3. f[8][2] = g[8][2]
    BY <1>3, <1>4, <2>1, <2>2
  <2>4. f[0][1] = g[0][1]
    BY <2>1, <2>2, <2>3, ShiftedApart
  <2> QED BY <2>1, <2>2, <2>4
<1> QED BY <1>3, <1>4

\* One byte: the register and the byte are told by what becomes of them.
LEMMA Next8Apart ==
    ASSUME NEW r \in Byte, NEW b \in Byte
    PROVE  /\ Next8(r, b) \in Byte
           /\ \A s \in Byte : Next8(r, b) = Next8(s, b) => r = s
           /\ \A d \in Byte : Next8(r, b) = Next8(r, d) => b = d
<1>1. \A x \in Byte, y \in Byte : XorByte(x, y) \in Byte
  BY XorIs
<1>2. \A x \in Byte, y \in Byte : Table8[1 + x] \in Byte /\ (Table8[1 + x] = Table8[1 + y] => x = y)
  BY Table8Apart
<1>3. \A s \in Byte : XorByte(r, b) = XorByte(s, b) => r = s
  BY XorApart
<1>4. \A d \in Byte : XorByte(r, b) = XorByte(r, d) => b = d
  BY XorApart
<1> QED BY <1>1, <1>2, <1>3, <1>4 DEF Next8

\* The same of CRC-16: the low byte of the register only moves, and the high byte is told by
\* the low byte of the entry.
LEMMA Next16Apart ==
    ASSUME NEW r \in Bytes2, NEW b \in Byte
    PROVE  /\ Next16(r, b) \in Bytes2
           /\ \A s \in Bytes2 : Next16(r, b) = Next16(s, b) => r = s
           /\ \A d \in Byte : Next16(r, b) = Next16(r, d) => b = d
<1>0. 0 \in Byte
  BY DEF Byte
<1>1. \A x \in Byte, y \in Byte : XorByte(x, y) \in Byte
  BY XorIs
<1>2. \A x \in Byte, y \in Byte :
         /\ Table16[1 + x][1] \in Byte /\ Table16[1 + x][2] \in Byte
         /\ Table16[1 + x][2] = Table16[1 + y][2] => x = y
  BY Table16Apart DEF Bytes2
<1>3. ASSUME NEW s \in Bytes2, NEW d \in Byte
      PROVE  /\ s[1] \in Byte /\ s[2] \in Byte /\ s = <<s[1], s[2]>>
             /\ XorByte(s[1], d) \in Byte
             /\ Next16(s, d) = <<XorByte(s[2], Table16[1 + XorByte(s[1], d)][1]),
                                 XorByte(0, Table16[1 + XorByte(s[1], d)][2])>>
  <2>1. s[1] \in Byte /\ s[2] \in Byte /\ s = <<s[1], s[2]>>
    BY DEF Bytes2
  <2>2. Next16(s, d) = <<XorByte(s[2], Table16[1 + XorByte(s[1], d)][1]),
                         XorByte(0, Table16[1 + XorByte(s[1], d)][2])>>
    BY DEF Next16, XorWords
  <2> QED BY <1>1, <2>1, <2>2
<1>4. ASSUME NEW s \in Bytes2, NEW d \in Byte, Next16(r, b) = Next16(s, d)
      PROVE  XorByte(r[1], b) = XorByte(s[1], d)
  <2> DEFINE x == XorByte(r[1], b)
             y == XorByte(s[1], d)
  <2>1. x \in Byte /\ y \in Byte
    BY <1>3
  <2>2. XorByte(0, Table16[1 + x][2]) = XorByte(0, Table16[1 + y][2])
    BY <1>3, <1>4
  <2> HIDE DEF x, y
  <2>3. Table16[1 + x][2] = Table16[1 + y][2]
    BY <1>0, <1>2, <2>1, <2>2, XorApart
  <2>4. x = y
    BY <1>2, <2>1, <2>3
  <2> QED BY <2>4 DEF x, y
<1>5. Next16(r, b) \in Bytes2
  <2>1. XorByte(r[1], b) \in Byte /\ r[2] \in Byte
    BY <1>3
  <2>2. /\ XorByte(r[2], Table16[1 + XorByte(r[1], b)][1]) \in Byte
        /\ XorByte(0, Table16[1 + XorByte(r[1], b)][2]) \in Byte
    BY <1>0, <1>1, <1>2, <2>1
  <2> QED BY <1>3, <2>2 DEF Bytes2
<1>6. ASSUME NEW s \in Bytes2, Next16(r, b) = Next16(s, b) PROVE r = s
  <2>1. XorByte(r[1], b) = XorByte(s[1], b) /\ r[1] \in Byte /\ s[1] \in Byte /\ r[2] \in Byte /\ s[2] \in Byte
    BY <1>3, <1>4, <1>6
  <2>2. r[1] = s[1]
    BY <2>1, XorApart
  <2>3. PICK t \in Byte : t = Table16[1 + XorByte(r[1], b)][1]
    BY <1>2, <1>3
  <2>4. XorByte(r[2], t) = XorByte(s[2], t)
    <3>1. Next16(r, b)[1] = XorByte(r[2], t)
      BY <1>3, <2>3
    <3>2. Next16(s, b)[1] = XorByte(s[2], t)
      BY <1>3, <2>1, <2>3
    <3> QED BY <1>6, <3>1, <3>2
  <2>5. r[2] = s[2]
    BY <2>1, <2>4, XorApart
  <2> QED BY <1>3, <2>2, <2>5
<1>7. ASSUME NEW d \in Byte, Next16(r, b) = Next16(r, d) PROVE b = d
  <2>1. XorByte(r[1], b) = XorByte(r[1], d) /\ r[1] \in Byte
    BY <1>3, <1>4, <1>7
  <2> QED BY <2>1, XorApart
<1> QED BY <1>5, <1>6, <1>7
----------------------------------------------------------------------------
\* The registers of a checksum.

\* A nonempty set of numbers has a smallest element.
LEMMA Smallest ==
    ASSUME NEW T \in SUBSET Nat, T # {}
    PROVE  \E x \in T : \A y \in T : ~(y < x)
<1> DEFINE Less == {p \in Nat \X Nat : p[1] < p[2]}
<1>1. IsWellFoundedOn(Less, Nat)
  BY NatLessThanWellFounded DEF OpToRel
<1>2. \A x \in Nat, y \in Nat : y < x => <<y, x>> \in Less
  OBVIOUS
<1> HIDE DEF Less
<1>3. \E x \in T : \A y \in T : ~(<<y, x>> \in Less)
  BY <1>1, WFMin
<1> QED BY <1>2, <1>3

\* What a register goes through from a start, given what each of n steps makes of it.
Run(f, start, n, step) == f[0] = start /\ \A i \in 1..n : f[i] = step[<<f[i - 1], i>>]

\* There is such a run, for any number of steps: the first steps are those of a shorter run.
LEMMA RunExists ==
    ASSUME NEW R, NEW start \in R, NEW n \in Nat, NEW step \in [R \X (1..n) -> R]
    PROVE  \E f \in [0..n -> R] : Run(f, start, n, step)
<1> DEFINE Is(f, k) == f[0] = start /\ \A i \in 1..k : f[i] = step[<<f[i - 1], i>>]
           Not == {k \in 0..n : ~\E f \in [0..k -> R] : Is(f, k)}
<1>0. \A k : k \in Not <=> k \in 0..n /\ ~\E f \in [0..k -> R] : Is(f, k)
  OBVIOUS
<1> HIDE DEF Not
<1>1. ASSUME Not # {} PROVE FALSE
  <2>0. Not \in SUBSET Nat
    BY <1>0
  <2>1. PICK m \in Not : \A k \in Not : ~(k < m)
    BY <1>1, <2>0, Smallest
  <2>2. m \in 0..n /\ ~\E f \in [0..m -> R] : Is(f, m)
    BY <1>0
  <2>3. m # 0
    <3>1. [i \in 0..0 |-> start] \in [0..0 -> R] /\ Is([i \in 0..0 |-> start], 0)
      OBVIOUS
    <3> QED BY <2>2, <3>1
  <2>4. m - 1 \in 0..n /\ m - 1 < m
    BY <2>2, <2>3
  <2>5. m - 1 \notin Not
    BY <2>1, <2>4
  <2>6. PICK f \in [0..(m - 1) -> R] : Is(f, m - 1)
    BY <1>0, <2>4, <2>5
  <2> DEFINE g == [i \in 0..m |-> IF i = m THEN step[<<f[m - 1], m>>] ELSE f[i]]
  <2>7. f[m - 1] \in R /\ m \in 1..n
    BY <2>2, <2>3
  <2>8. step[<<f[m - 1], m>>] \in R
    BY <2>7
  <2>9. g \in [0..m -> R]
    BY <2>2, <2>8
  <2>10. \A i \in 0..(m - 1) : g[i] = f[i]
    BY <2>2
  <2>11. g[m] = step[<<f[m - 1], m>>]
    BY <2>2
  <2> HIDE DEF g
  <2>12. Is(g, m)
    <3>1. g[0] = start
      BY <2>4, <2>6, <2>10
    <3>2. ASSUME NEW i \in 1..m PROVE g[i] = step[<<g[i - 1], i>>]
      <4>1. CASE i = m
        BY <2>4, <2>10, <2>11, <4>1
      <4>2. CASE i # m
        <5>1. i \in 1..(m - 1) /\ i \in 0..(m - 1) /\ i - 1 \in 0..(m - 1)
          BY <2>2, <4>2
        <5> QED BY <2>6, <2>10, <5>1
      <4> QED BY <4>1, <4>2
    <3> QED BY <3>1, <3>2
  <2> QED BY <2>2, <2>9, <2>12
<1>2. n \in 0..n /\ n \notin Not
  BY <1>1
<1> QED BY <1>0, <1>2 DEF Run
Passing(f, bytes, R, step) ==
    \A i \in 1..(Len(bytes) + 1) :
        f[i] = [r \in R |-> IF i > Len(bytes) THEN r ELSE f[i + 1][step[<<r, bytes[i]>>]]]

\* There is such a function for any bytes: the recursion of Update8 and Update16 (the loops of
\* Update in crc8.go and crc16.go) defines one.
LEMMA FromExists ==
    ASSUME NEW R, NEW bytes \in Seq(Byte), NEW step \in [R \X Byte -> R]
    PROVE  \E f \in [1..(Len(bytes) + 1) -> [R -> R]] : Passing(f, bytes, R, step)
<1> DEFINE n == Len(bytes)
           Id == [r \in R |-> r]
           Then(g, i) == [r \in R |-> g[step[<<r, bytes[n + 1 - i]>>]]]
           turn == [p \in [R -> R] \X (1..n) |-> Then(p[1], p[2])]
<1>1. n \in Nat
  OBVIOUS
<1>2. Id \in [R -> R]
  OBVIOUS
<1>3. ASSUME NEW g \in [R -> R], NEW i \in 1..n PROVE Then(g, i) \in [R -> R]
  <2>1. bytes[n + 1 - i] \in Byte
    <3>1. n + 1 - i \in 1..Len(bytes)
      BY <1>1
    <3> QED BY <3>1, ElementOfSeq
  <2>2. \A r \in R : step[<<r, bytes[n + 1 - i]>>] \in R
    BY <2>1
  <2> QED BY <2>2
<1>4. turn \in [[R -> R] \X (1..n) -> [R -> R]]
  <2> HIDE DEF Then, n
  <2> QED BY <1>3
<1>5. \A g \in [R -> R], i \in 1..n : turn[<<g, i>>] = Then(g, i)
  OBVIOUS
<1> HIDE DEF Id, Then, turn, n
<1>6. PICK h \in [0..n -> [R -> R]] : h[0] = Id /\ \A i \in 1..n : h[i] = turn[<<h[i - 1], i>>]
  <2> DEFINE RR == [R -> R]
  <2>1. Id \in RR /\ turn \in [RR \X (1..n) -> RR]
    BY <1>2, <1>4
  <2> HIDE DEF RR
  <2>2. \E h \in [0..n -> RR] : Run(h, Id, n, turn)
    BY <1>1, <2>1, RunExists
  <2> QED BY <2>2 DEF RR, Run
<1> DEFINE f == [i \in 1..(n + 1) |-> h[n + 1 - i]]
<1>7. f \in [1..(n + 1) -> [R -> R]]
  BY <1>1
<1>8. f[n + 1] = Id
  <2>1. n + 1 \in 1..(n + 1) /\ n + 1 - (n + 1) = 0
    BY <1>1
  <2>2. f[n + 1] = h[n + 1 - (n + 1)]
    BY <2>1
  <2> QED BY <1>6, <2>1, <2>2
<1>9. ASSUME NEW i \in 1..n PROVE f[i] = Then(f[i + 1], n + 1 - i) /\ n + 1 - (n + 1 - i) = i
  <2>1. /\ n + 1 - i \in 1..n /\ (n + 1 - i) - 1 \in 0..n /\ i + 1 \in 1..(n + 1) /\ i \in 1..(n + 1)
        /\ n + 1 - (i + 1) = (n + 1 - i) - 1 /\ n + 1 - (n + 1 - i) = i
    BY <1>1
  <2>2. f[i] = h[n + 1 - i] /\ f[i + 1] = h[(n + 1 - i) - 1]
    BY <2>1
  <2>3. h[n + 1 - i] = turn[<<h[(n + 1 - i) - 1], n + 1 - i>>]
    BY <1>6, <2>1
  <2>4. h[(n + 1 - i) - 1] \in [R -> R]
    BY <2>1
  <2> QED BY <1>5, <2>1, <2>2, <2>3, <2>4
<1> HIDE DEF f
<1>10. ASSUME NEW i \in 1..(n + 1)
       PROVE  f[i] = [r \in R |-> IF i > n THEN r ELSE f[i + 1][step[<<r, bytes[i]>>]]]
  <2>1. CASE i = n + 1
    <3>1. i > n
      BY <1>1, <2>1
    <3>2. f[i] = [r \in R |-> r]
      BY <1>8, <2>1 DEF Id
    <3> QED BY <3>1, <3>2
  <2>2. CASE i # n + 1
    <3>1. i \in 1..n /\ ~(i > n)
      BY <1>1, <2>2
    <3>2. f[i] = [r \in R |-> f[i + 1][step[<<r, bytes[n + 1 - (n + 1 - i)]>>]]]
      BY <1>9, <3>1 DEF Then
    <3> QED BY <1>9, <3>1, <3>2
  <2> QED BY <2>1, <2>2
<1> QED BY <1>7, <1>10 DEF n, Passing

\* What holds at n + 1, and at i whenever it holds at i + 1, holds from 1 on.
LEMMA Downwards ==
    ASSUME NEW n \in Nat, NEW T, n + 1 \in T, \A i \in 1..n : i + 1 \in T => i \in T
    PROVE  \A i \in 1..(n + 1) : i \in T
<1> DEFINE Out == {k \in 0..n : n + 1 - k \notin T}
<1>0. \A k : k \in Out <=> k \in 0..n /\ n + 1 - k \notin T
  OBVIOUS
<1> HIDE DEF Out
<1>1. ASSUME Out # {} PROVE FALSE
  <2>0. Out \in SUBSET Nat
    BY <1>0
  <2>1. PICK m \in Out : \A k \in Out : ~(k < m)
    BY <1>1, <2>0, Smallest
  <2>2. m \in 0..n /\ n + 1 - m \notin T
    BY <1>0
  <2>3. m # 0
    BY <2>2
  <2>4. m - 1 \in 0..n /\ m - 1 < m /\ n + 1 - (m - 1) = (n + 1 - m) + 1 /\ n + 1 - m \in 1..n
    BY <2>2, <2>3
  <2>5. n + 1 - (m - 1) \in T
    BY <1>0, <2>1, <2>4
  <2> QED BY <2>2, <2>4, <2>5
<1>2. ASSUME NEW i \in 1..(n + 1) PROVE i \in T
  <2>1. n + 1 - i \in 0..n /\ n + 1 - (n + 1 - i) = i
    OBVIOUS
  <2>2. n + 1 - i \notin Out
    BY <1>1
  <2> QED BY <1>0, <2>1, <2>2
<1> QED BY <1>2

\* And only one: what the bytes make of a register is determined by the bytes.
LEMMA PassingUnique ==
    ASSUME NEW R, NEW bytes \in Seq(Byte), NEW step, NEW f, NEW g,
           Passing(f, bytes, R, step), Passing(g, bytes, R, step)
    PROVE  \A i \in 1..(Len(bytes) + 1) : f[i] = g[i]
<1> DEFINE n == Len(bytes)
           T == {i \in 1..(n + 1) : f[i] = g[i]}
<1>1. n \in Nat
  OBVIOUS
<1>2. n + 1 \in T
  <2>1. n + 1 \in 1..(n + 1) /\ n + 1 > n
    BY <1>1
  <2>2. f[n + 1] = [r \in R |-> r] /\ g[n + 1] = [r \in R |-> r]
    BY <2>1 DEF Passing
  <2> QED BY <2>1, <2>2
<1>3. ASSUME NEW i \in 1..n, i + 1 \in T PROVE i \in T
  <2>1. i \in 1..(n + 1) /\ ~(i > n) /\ f[i + 1] = g[i + 1]
    BY <1>1, <1>3
  <2>2. f[i] = [r \in R |-> f[i + 1][step[<<r, bytes[i]>>]]] /\ g[i] = [r \in R |-> g[i + 1][step[<<r, bytes[i]>>]]]
    BY <2>1 DEF Passing
  <2> QED BY <2>1, <2>2
<1>4. \A i : i \in T <=> i \in 1..(n + 1) /\ f[i] = g[i]
  OBVIOUS
<1> HIDE DEF T, n
<1>5. \A i \in 1..(n + 1) : i \in T
  BY <1>1, <1>2, <1>3, Downwards
<1> QED BY <1>4, <1>5 DEF n

Step8 == [p \in Byte \X Byte |-> Next8(p[1], p[2])]

\* Update of crc8.go passes a register through the bytes one after the other.
LEMMA Update8Is ==
    ASSUME NEW bytes \in Seq(Byte)
    PROVE  \E f \in [1..(Len(bytes) + 1) -> [Byte -> Byte]] :
              Passing(f, bytes, Byte, Step8) /\ Update8(bytes) = f[1]
<1> DEFINE Is(f) == f = [i \in 1..(Len(bytes) + 1) |->
                            [r \in Byte |-> IF i > Len(bytes) THEN r ELSE f[i + 1][Next8(r, bytes[i])]]]
<1>1. Step8 \in [Byte \X Byte -> Byte] /\ \A r \in Byte, b \in Byte : Step8[<<r, b>>] = Next8(r, b)
  BY Next8Apart DEF Step8
<1>2. PICK f \in [1..(Len(bytes) + 1) -> [Byte -> Byte]] : Passing(f, bytes, Byte, Step8)
  <2> DEFINE S == Byte
  <2>1. Step8 \in [S \X Byte -> S]
    BY <1>1
  <2> HIDE DEF S
  <2>2. \E f \in [1..(Len(bytes) + 1) -> [S -> S]] : Passing(f, bytes, S, Step8)
    BY <2>1, FromExists
  <2> QED BY <2>2 DEF S
<1>3. \A i \in 1..(Len(bytes) + 1), r \in Byte : ~(i > Len(bytes)) => Step8[<<r, bytes[i]>>] = Next8(r, bytes[i])
  <2>1. \A i \in 1..(Len(bytes) + 1) : ~(i > Len(bytes)) => bytes[i] \in Byte
    OBVIOUS
  <2> QED BY <1>1, <2>1
<1>4. \A i \in 1..(Len(bytes) + 1) :
         f[i] = [r \in Byte |-> IF i > Len(bytes) THEN r ELSE f[i + 1][Next8(r, bytes[i])]]
  <2> TAKE i \in 1..(Len(bytes) + 1)
  <2>1. f[i] = [r \in Byte |-> IF i > Len(bytes) THEN r ELSE f[i + 1][Step8[<<r, bytes[i]>>]]]
    BY <1>2 DEF Passing
  <2>2. \A r \in Byte : (IF i > Len(bytes) THEN r ELSE f[i + 1][Step8[<<r, bytes[i]>>]])
                      = (IF i > Len(bytes) THEN r ELSE f[i + 1][Next8(r, bytes[i])])
    BY <1>3
  <2> QED BY <2>1, <2>2
<1>5. Is(f)
  BY <1>4
<1>6. PICK g : Is(g) /\ Update8(bytes) = g[1]
  BY <1>5 DEF Update8
<1>7. \A i \in 1..(Len(bytes) + 1) :
         g[i] = [r \in Byte |-> IF i > Len(bytes) THEN r ELSE g[i + 1][Step8[<<r, bytes[i]>>]]]
  <2> TAKE i \in 1..(Len(bytes) + 1)
  <2>1. g[i] = [r \in Byte |-> IF i > Len(bytes) THEN r ELSE g[i + 1][Next8(r, bytes[i])]]
    BY <1>6
  <2>2. \A r \in Byte : (IF i > Len(bytes) THEN r ELSE g[i + 1][Next8(r, bytes[i])])
                      = (IF i > Len(bytes) THEN r ELSE g[i + 1][Step8[<<r, bytes[i]>>]])
    BY <1>3
  <2> QED BY <2>1, <2>2
<1>8. Passing(g, bytes, Byte, Step8)
  BY <1>7 DEF Passing
<1>9. 1 \in 1..(Len(bytes) + 1)
  OBVIOUS
<1>10. f[1] = g[1]
  <2>1. \A i \in 1..(Len(bytes) + 1) : f[i] = g[i]
    BY <1>2, <1>8, PassingUnique
  <2> QED BY <1>9, <2>1
<1> QED BY <1>2, <1>6, <1>10

Step16 == [p \in Bytes2 \X Byte |-> Next16(p[1], p[2])]

\* Update of crc16.go passes a register through the bytes one after the other.
LEMMA Update16Is ==
    ASSUME NEW bytes \in Seq(Byte)
    PROVE  \E f \in [1..(Len(bytes) + 1) -> [Bytes2 -> Bytes2]] :
              Passing(f, bytes, Bytes2, Step16) /\ Update16(bytes) = f[1]
<1> DEFINE Is(f) == f = [i \in 1..(Len(bytes) + 1) |->
                            [r \in Bytes2 |-> IF i > Len(bytes) THEN r ELSE f[i + 1][Next16(r, bytes[i])]]]
<1>1. Step16 \in [Bytes2 \X Byte -> Bytes2] /\ \A r \in Bytes2, b \in Byte : Step16[<<r, b>>] = Next16(r, b)
  BY Next16Apart DEF Step16
<1>2. PICK f \in [1..(Len(bytes) + 1) -> [Bytes2 -> Bytes2]] : Passing(f, bytes, Bytes2, Step16)
  <2> DEFINE S == Bytes2
  <2>1. Step16 \in [S \X Byte -> S]
    BY <1>1
  <2> HIDE DEF S
  <2>2. \E f \in [1..(Len(bytes) + 1) -> [S -> S]] : Passing(f, bytes, S, Step16)
    BY <2>1, FromExists
  <2> QED BY <2>2 DEF S
<1>3. \A i \in 1..(Len(bytes) + 1), r \in Bytes2 : ~(i > Len(bytes)) => Step16[<<r, bytes[i]>>] = Next16(r, bytes[i])
  <2>1. \A i \in 1..(Len(bytes) + 1) : ~(i > Len(bytes)) => bytes[i] \in Byte
    OBVIOUS
  <2> QED BY <1>1, <2>1
<1>4. \A i \in 1..(Len(bytes) + 1) :
         f[i] = [r \in Bytes2 |-> IF i > Len(bytes) THEN r ELSE f[i + 1][Next16(r, bytes[i])]]
  <2> TAKE i \in 1..(Len(bytes) + 1)
  <2>1. f[i] = [r \in Bytes2 |-> IF i > Len(bytes) THEN r ELSE f[i + 1][Step16[<<r, bytes[i]>>]]]
    BY <1>2 DEF Passing
  <2>2. \A r \in Bytes2 : (IF i > Len(bytes) THEN r ELSE f[i + 1][Step16[<<r, bytes[i]>>]])
                      = (IF i > Len(bytes) THEN r ELSE f[i + 1][Next16(r, bytes[i])])
    BY <1>3
  <2> QED BY <2>1, <2>2
<1>5. Is(f)
  BY <1>4
<1>6. PICK g : Is(g) /\ Update16(bytes) = g[1]
  BY <1>5 DEF Update16, Bytes2
<1>7. \A i \in 1..(Len(bytes) + 1) :
         g[i] = [r \in Bytes2 |-> IF i > Len(bytes) THEN r ELSE g[i + 1][Step16[<<r, bytes[i]>>]]]
  <2> TAKE i \in 1..(Len(bytes) + 1)
  <2>1. g[i] = [r \in Bytes2 |-> IF i > Len(bytes) THEN r ELSE g[i + 1][Next16(r, bytes[i])]]
    BY <1>6
  <2>2. \A r \in Bytes2 : (IF i > Len(bytes) THEN r ELSE g[i + 1][Next16(r, bytes[i])])
                      = (IF i > Len(bytes) THEN r ELSE g[i + 1][Step16[<<r, bytes[i]>>]])
    BY <1>3
  <2> QED BY <2>1, <2>2
<1>8. Passing(g, bytes, Bytes2, Step16)
  BY <1>7 DEF Passing
<1>9. 1 \in 1..(Len(bytes) + 1)
  OBVIOUS
<1>10. f[1] = g[1]
  <2>1. \A i \in 1..(Len(bytes) + 1) : f[i] = g[i]
    BY <1>2, <1>8, PassingUnique
  <2> QED BY <1>9, <2>1
<1> QED BY <1>2, <1>6, <1>10
\* Two sequences that differ in one byte leave every register different.
TellsApart(R, step) ==
    \A r, s \in R, b, d \in Byte :
        /\ step[<<r, b>>] \in R
        /\ step[<<r, b>>] = step[<<s, b>>] => r = s
        /\ step[<<r, b>>] = step[<<r, d>>] => b = d
DifferInOne(b, d) ==
    /\ Len(b) = Len(d)
    /\ \E p \in 1..Len(b) : b[p] # d[p] /\ \A i \in 1..Len(b) : i # p => b[i] = d[i]

\* What tells registers and bytes apart gives sequences that differ in one byte different
\* registers: equal before the byte, different after it, and different from there on.
LEMMA OneNoticed ==
    ASSUME NEW R, NEW step, TellsApart(R, step),
           NEW b \in Seq(Byte), NEW d \in Seq(Byte), DifferInOne(b, d),
           NEW f, NEW g, Passing(f, b, R, step), Passing(g, d, R, step)
    PROVE  \A r \in R : f[1][r] # g[1][r]
<1> DEFINE n == Len(b)
<1>1. n \in Nat /\ Len(d) = n /\ \A i \in 1..n : b[i] \in Byte /\ d[i] \in Byte
  BY DEF DifferInOne
<1>2. PICK p \in 1..n : b[p] # d[p] /\ \A i \in 1..n : i # p => b[i] = d[i]
  BY DEF DifferInOne
<1> HIDE DEF n
<1> DEFINE T == {i \in 1..(n + 1) :
                    /\ \A r, s \in R : f[i][r] = f[i][s] => r = s
                    /\ i > p => \A r \in R : f[i][r] = g[i][r]
                    /\ i <= p => \A r \in R : f[i][r] # g[i][r]}
<1>3. ASSUME NEW i \in 1..n, NEW r \in R
      PROVE  /\ f[i][r] = f[i + 1][step[<<r, b[i]>>]] /\ g[i][r] = g[i + 1][step[<<r, d[i]>>]]
             /\ step[<<r, b[i]>>] \in R /\ step[<<r, d[i]>>] \in R
  <2>1. i \in 1..(n + 1) /\ ~(i > n)
    BY <1>1
  <2>2. f[i] = [x \in R |-> f[i + 1][step[<<x, b[i]>>]]] /\ g[i] = [x \in R |-> g[i + 1][step[<<x, d[i]>>]]]
    BY <1>1, <2>1 DEF Passing, n
  <2> QED BY <1>1, <2>2 DEF TellsApart
<1>4. n + 1 \in T
  <2>1. n + 1 \in 1..(n + 1) /\ n + 1 > n /\ ~(n + 1 <= p) /\ n + 1 \in 1..(Len(b) + 1) /\ n + 1 \in 1..(Len(d) + 1)
    BY <1>1, <1>2 DEF n
  <2>2. f[n + 1] = [r \in R |-> r] /\ g[n + 1] = [r \in R |-> r]
    BY <1>1, <2>1 DEF Passing, n
  <2> QED BY <2>1, <2>2
<1>5. ASSUME NEW i \in 1..n, i + 1 \in T PROVE i \in T
  <2>1. /\ \A r, s \in R : f[i + 1][r] = f[i + 1][s] => r = s
        /\ i + 1 > p => \A r \in R : f[i + 1][r] = g[i + 1][r]
        /\ i + 1 <= p => \A r \in R : f[i + 1][r] # g[i + 1][r]
    BY <1>5
  <2>2. i \in 1..(n + 1) /\ (i > p => i + 1 > p /\ i # p) /\ (i = p => i + 1 > p) /\ (i < p => i + 1 <= p /\ i # p)
        /\ (i <= p => i = p \/ i < p)
    BY <1>1, <1>2
  <2> HIDE DEF T
  <2>3. ASSUME NEW r \in R, NEW s \in R, f[i][r] = f[i][s] PROVE r = s
    <3> DEFINE x == step[<<r, b[i]>>]
               y == step[<<s, b[i]>>]
    <3>2. x \in R /\ y \in R /\ f[i][r] = f[i + 1][x] /\ f[i][s] = f[i + 1][y]
      BY <1>3
    <3> HIDE DEF x, y
    <3>3. x = y
      BY <2>1, <2>3, <3>2
    <3>1. step[<<r, b[i]>>] = step[<<s, b[i]>>]
      BY <3>3 DEF x, y
    <3> QED BY <1>1, <3>1 DEF TellsApart
  <2>4. ASSUME i > p, NEW r \in R PROVE f[i][r] = g[i][r]
    <3> DEFINE x == step[<<r, b[i]>>]
    <3>1. x \in R /\ f[i][r] = f[i + 1][x] /\ g[i][r] = g[i + 1][x]
      BY <1>2, <1>3, <2>2, <2>4
    <3> HIDE DEF x
    <3> QED BY <2>1, <2>2, <2>4, <3>1
  <2>5. ASSUME i <= p, NEW r \in R PROVE f[i][r] # g[i][r]
    <3>1. CASE i < p
      <4> DEFINE x == step[<<r, b[i]>>]
      <4>1. x \in R /\ f[i][r] = f[i + 1][x] /\ g[i][r] = g[i + 1][x]
        BY <1>2, <1>3, <2>2, <3>1
      <4> HIDE DEF x
      <4> QED BY <2>1, <2>2, <3>1, <4>1
    <3>2. CASE i = p
      <4>1. step[<<r, b[i]>>] # step[<<r, d[i]>>]
        BY <1>1, <1>2, <3>2 DEF TellsApart
      <4>2. f[i + 1][step[<<r, b[i]>>]] # f[i + 1][step[<<r, d[i]>>]]
        BY <1>3, <2>1, <4>1
      <4>3. f[i + 1][step[<<r, d[i]>>]] = g[i + 1][step[<<r, d[i]>>]]
        BY <1>3, <2>1, <2>2, <3>2
      <4> QED BY <1>3, <4>2, <4>3
    <3> QED BY <2>2, <2>5, <3>1, <3>2
  <2> QED BY <2>2, <2>3, <2>4, <2>5 DEF T
<1>6. 1 \in T
  <2> HIDE DEF T
  <2>1. \A i \in 1..(n + 1) : i \in T
    BY <1>1, <1>4, <1>5, Downwards
  <2> QED BY <1>1, <2>1
<1> QED BY <1>2, <1>6

\* Both checksums tell registers and bytes apart at every step.
LEMMA StepsTell == TellsApart(Byte, Step8) /\ TellsApart(Bytes2, Step16)
<1>1. ASSUME NEW r \in Byte, NEW s \in Byte, NEW b \in Byte, NEW d \in Byte
      PROVE  /\ Step8[<<r, b>>] \in Byte
             /\ Step8[<<r, b>>] = Step8[<<s, b>>] => r = s
             /\ Step8[<<r, b>>] = Step8[<<r, d>>] => b = d
  <2>1. Step8[<<r, b>>] = Next8(r, b) /\ Step8[<<s, b>>] = Next8(s, b) /\ Step8[<<r, d>>] = Next8(r, d)
    BY DEF Step8
  <2> QED BY <2>1, Next8Apart
<1>2. ASSUME NEW r \in Bytes2, NEW s \in Bytes2, NEW b \in Byte, NEW d \in Byte
      PROVE  /\ Step16[<<r, b>>] \in Bytes2
             /\ Step16[<<r, b>>] = Step16[<<s, b>>] => r = s
             /\ Step16[<<r, b>>] = Step16[<<r, d>>] => b = d
  <2>1. Step16[<<r, b>>] = Next16(r, b) /\ Step16[<<s, b>>] = Next16(s, b) /\ Step16[<<r, d>>] = Next16(r, d)
    BY DEF Step16
  <2> QED BY <2>1, Next16Apart
<1> QED BY <1>1, <1>2 DEF TellsApart

\* No change of a single byte goes unnoticed: for headers and data of any length, both Checksum
\* functions of crc/ give another sum when exactly one byte is another.
THEOREM ChecksumsNotice ==
    ASSUME NEW b \in Seq(Byte), NEW d \in Seq(Byte), DifferInOne(b, d)
    PROVE  Crc8(b) # Crc8(d) /\ Crc16(b) # Crc16(d)
<1>1. 255 \in Byte /\ <<255, 255>> \in Bytes2
  BY DEF Byte, Bytes2
<1>2. Crc8(b) # Crc8(d)
  <2>1. PICK f : Passing(f, b, Byte, Step8) /\ Update8(b) = f[1]
    BY Update8Is
  <2>2. PICK g : Passing(g, d, Byte, Step8) /\ Update8(d) = g[1]
    BY Update8Is
  <2>3. f[1][255] # g[1][255]
    BY <1>1, <2>1, <2>2, StepsTell, OneNoticed
  <2> QED BY <2>1, <2>2, <2>3 DEF Crc8
<1>3. Crc16(b) # Crc16(d)
  <2>1. PICK f : Passing(f, b, Bytes2, Step16) /\ Update16(b) = f[1]
    BY Update16Is
  <2>2. PICK g : Passing(g, d, Bytes2, Step16) /\ Update16(d) = g[1]
    BY Update16Is
  <2>3. f[1][<<255, 255>>] # g[1][<<255, 255>>]
    BY <1>1, <2>1, <2>2, StepsTell, OneNoticed
  <2> QED BY <2>1, <2>2, <2>3 DEF Crc16
<1> QED BY <1>2, <1>3

\* Checksum gives a byte, or a pair of bytes.
LEMMA ChecksumTypes ==
    ASSUME NEW b \in Seq(Byte)
    PROVE  Crc8(b) \in Byte /\ Crc16(b) \in Bytes2
<1>1. 255 \in Byte /\ <<255, 255>> \in Bytes2 /\ 1 \in 1..(Len(b) + 1)
  BY DEF Byte, Bytes2
<1>2. PICK f \in [1..(Len(b) + 1) -> [Byte -> Byte]] : Update8(b) = f[1]
  BY Update8Is
<1>3. PICK g \in [1..(Len(b) + 1) -> [Bytes2 -> Bytes2]] : Update16(b) = g[1]
  BY Update16Is
<1>4. f[1] \in [Byte -> Byte] /\ g[1] \in [Bytes2 -> Bytes2]
  BY <1>1
<1> QED BY <1>1, <1>2, <1>3, <1>4 DEF Crc8, Crc16
----------------------------------------------------------------------------
\* Frames.

DataLength(b) == b[6] + 256 * b[7]

\* The lengths a header announces (reader.go, PacketHeader): the header has 11 or 16 bytes, and
\* the two bytes of the checksum of the data follow only if there are data.
LEMMA Lengths ==
    ASSUME NEW b \in Seq(Byte), Len(b) >= 7
    PROVE  /\ HeaderLength(b) \in {11, 16}
           /\ Number(Slice(b, 6, 2)) = DataLength(b) /\ DataLength(b) \in Nat
           /\ FrameLength(b) = HeaderLength(b) + DataLength(b) + (IF DataLength(b) > 0 THEN 2 ELSE 0)
           /\ FrameLength(b) \in Nat /\ FrameLength(b) >= HeaderLength(b)
<1>1. HeaderLength(b) \in {11, 16}
  BY DEF HeaderLength
<1>2. SubSeq(b, 6, 7)[1] = b[6] /\ SubSeq(b, 6, 7)[2] = b[7]
  OBVIOUS
<1>3. Number(Slice(b, 6, 2)) = DataLength(b)
  BY <1>2 DEF Number, Slice, DataLength
<1>4. b[6] \in Nat /\ b[7] \in Nat
  <2>1. b[6] \in Byte /\ b[7] \in Byte
    OBVIOUS
  <2>2. \A x \in Byte : x \in Nat
    BY DEF Byte
  <2> QED BY <2>1, <2>2
<1>5. DataLength(b) \in Nat
  BY <1>4 DEF DataLength
<1>6. FrameLength(b) = HeaderLength(b) + DataLength(b) + (IF DataLength(b) > 0 THEN 2 ELSE 0)
  BY <1>3 DEF FrameLength
<1> QED BY <1>1, <1>3, <1>5, <1>6

\* What ReadFrame, and the reader of egts_server, have checked when they give a frame.
LEMMA FrameIs ==
    ASSUME NEW s \in Seq(Byte)
    PROVE  /\ Cut(s) = "frame" =>
                 /\ Len(s) >= 11 /\ s[1] = 1 /\ s[4] = HeaderLength(s) /\ Len(s) >= HeaderLength(s)
                 /\ HeaderSumRight(s, HeaderLength(s)) /\ Len(s) >= FrameLength(s)
           /\ ServerCut(s) = "frame" => Len(s) >= 10 /\ Len(s) >= FrameLength(s)
<1>1. CASE Cut(s) = "frame"
  <2>1. Len(s) >= 10 /\ s[1] = 1 /\ s[4] = HeaderLength(s) /\ ~(Len(s) < HeaderLength(s))
        /\ HeaderSumRight(s, HeaderLength(s)) /\ ~(Len(s) < FrameLength(s))
    BY <1>1 DEF Cut
  <2> QED BY <2>1, Lengths DEF Cut, ServerCut
<1>2. CASE Cut(s) # "frame"
  BY <1>2, Lengths DEF ServerCut
<1> QED BY <1>1, <1>2

\* Two streams that begin with the same header hold frames of the same length.
LEMMA SameHeader ==
    ASSUME NEW s \in Seq(Byte), NEW m \in Seq(Byte), Len(s) >= 11, Len(m) >= 11,
           \A i \in 1..11 : s[i] = m[i]
    PROVE  HeaderLength(s) = HeaderLength(m) /\ FrameLength(s) = FrameLength(m) /\ DataLength(s) = DataLength(m)
<1>1. s[3] = m[3] /\ s[6] = m[6] /\ s[7] = m[7]
  OBVIOUS
<1>2. HeaderLength(s) = HeaderLength(m)
  BY <1>1 DEF HeaderLength, Routed
<1>3. DataLength(s) = DataLength(m)
  BY <1>1 DEF DataLength
<1>4. FrameLength(s) = HeaderLength(s) + DataLength(s) + (IF DataLength(s) > 0 THEN 2 ELSE 0)
  BY Lengths
<1>5. FrameLength(m) = HeaderLength(m) + DataLength(m) + (IF DataLength(m) > 0 THEN 2 ELSE 0)
  BY Lengths
<1> QED BY <1>2, <1>3, <1>4, <1>5
FrameSet == [meant : Seq(Byte), bytes : Seq(Byte)]
Begins(s, b) == Len(s) >= Len(b) /\ \A i \in 1..Len(b) : s[i] = b[i]

\* What a packet is before anything of it is damaged.
LEMMA PacketIs ==
    ASSUME NEW m \in Seq(Byte), IsPacket(m)
    PROVE  /\ Len(m) >= 11 /\ m[1] = 1 /\ m[4] = HeaderLength(m) /\ Len(m) >= HeaderLength(m)
           /\ HeaderSumRight(m, HeaderLength(m)) /\ Len(m) = FrameLength(m)
           /\ HeaderLength(m) \in {11, 16}
           /\ DataSumRight(Slice(m, HeaderLength(m) + 1, DataLength(m)), From(m, HeaderLength(m) + DataLength(m) + 1))
<1>1. Cut(m) = "frame" /\ Len(m) = FrameLength(m)
  BY DEF IsPacket
<1>2. Len(m) >= 11 /\ m[1] = 1 /\ m[4] = HeaderLength(m) /\ Len(m) >= HeaderLength(m)
      /\ HeaderSumRight(m, HeaderLength(m))
  BY <1>1, FrameIs
<1>3. HeaderLength(m) \in {11, 16} /\ Number(Slice(m, 6, 2)) = DataLength(m)
  BY <1>2, Lengths
<1>4. DataSumRight(Slice(m, HeaderLength(m) + 1, DataLength(m)), From(m, HeaderLength(m) + DataLength(m) + 1))
  BY <1>3 DEF IsPacket
<1> QED BY <1>1, <1>2, <1>3, <1>4

\* A frame whose header came as it was meant is cut where it ends.
LEMMA HeaderKept ==
    ASSUME NEW f \in FrameSet, IsPacket(f.meant), Damage(f) # "header"
    PROVE  /\ Len(f.bytes) = Len(f.meant) /\ \A i \in 1..HeaderLength(f.meant) : f.bytes[i] = f.meant[i]
           /\ \A s \in Seq(Byte) : Begins(s, f.bytes) => FrameLength(s) = Len(f.bytes)
<1> DEFINE b == f.bytes
           m == f.meant
<1>1. b \in Seq(Byte) /\ m \in Seq(Byte)
  BY DEF FrameSet
<1>2. b = m \/ Intact(f)
  BY DEF Damage
<1>3. Len(b) = Len(m) /\ \A i \in 1..HeaderLength(m) : b[i] = m[i]
  BY <1>2 DEF Intact
<1>4. Len(m) >= 11 /\ Len(m) = FrameLength(m) /\ HeaderLength(m) \in {11, 16}
  BY <1>1, PacketIs
<1> HIDE DEF b, m
<1>5. ASSUME NEW s \in Seq(Byte), Begins(s, b) PROVE FrameLength(s) = Len(b)
  <2>1. Len(s) >= 11 /\ \A i \in 1..11 : i \in 1..Len(b) /\ i \in 1..HeaderLength(m)
    BY <1>1, <1>3, <1>4, <1>5 DEF Begins
  <2>2. \A i \in 1..11 : s[i] = m[i]
    BY <1>3, <1>5, <2>1 DEF Begins
  <2>3. FrameLength(s) = FrameLength(m)
    BY <1>1, <1>4, <2>1, <2>2, SameHeader
  <2> QED BY <1>3, <1>4, <2>3
<1> QED BY <1>3, <1>5 DEF b, m

\* A frame with a byte of its header damaged is not cut by ReadFrame (reader.go), whatever
\* follows it on the stream: either the fields of the header do not agree or its checksum does
\* not, be it the checksum that was damaged.
THEOREM HeaderNoticed ==
    ASSUME NEW f \in FrameSet, IsPacket(f.meant), OneDamaged(f), Damage(f) = "header",
           NEW s \in Seq(Byte), Begins(s, f.bytes)
    PROVE  Cut(s) # "frame"
<1> DEFINE b == f.bytes
           m == f.meant
           h == HeaderLength(m)
<1>1. b \in Seq(Byte) /\ m \in Seq(Byte)
  BY DEF FrameSet
<1>2. Len(b) = Len(m) /\ ~\A i \in 1..h : b[i] = m[i]
  <2>1. Len(b) = Len(m)
    BY DEF OneDamaged
  <2>2. ~Intact(f)
    BY DEF Damage
  <2> QED BY <2>1, <2>2 DEF Intact
<1>3. PICK p \in 1..h : b[p] # m[p]
  BY <1>2
<1>4. PICK q \in DOMAIN m : b = [m EXCEPT ![q] = b[q]]
  BY DEF OneDamaged
<1>5. /\ Len(m) >= 11 /\ m[1] = 1 /\ m[4] = h /\ Len(m) >= h
      /\ HeaderSumRight(m, h) /\ h \in {11, 16}
  BY <1>1, PacketIs
<1>6. DOMAIN m = 1..Len(m) /\ p \in 1..Len(m)
  BY <1>1, <1>5
<1> HIDE DEF b, m, h
<1>7. \A i \in 1..Len(m) : i # p => b[i] = m[i]
  <2>1. p = q
    BY <1>3, <1>4, <1>6
  <2> QED BY <1>4, <1>6, <2>1
<1>8. s[p] # m[p] /\ \A i \in 1..Len(m) : i # p => s[i] = m[i]
  BY <1>2, <1>3, <1>6, <1>7 DEF Begins, b
<1>9. Len(s) >= Len(m)
  BY <1>2 DEF Begins, b
<1>10. ASSUME Cut(s) = "frame" PROVE FALSE
  <2>1. s[4] = HeaderLength(s) /\ HeaderSumRight(s, HeaderLength(s))
    BY <1>10, FrameIs
  <2>2. HeaderLength(s) = h
    <3>1. 3 \in 1..Len(m) /\ 4 \in 1..Len(m)
      BY <1>1, <1>5
    <3>2. CASE p = 3
      BY <1>5, <1>8, <2>1, <3>1, <3>2
    <3>3. CASE p # 3
      <4>1. s[3] = m[3]
        BY <1>8, <3>1, <3>3
      <4> QED BY <4>1 DEF HeaderLength, Routed, h
    <3> QED BY <3>2, <3>3
  <2>3. s[h] = Crc8(SubSeq(s, 1, h - 1)) /\ m[h] = Crc8(SubSeq(m, 1, h - 1))
    BY <1>5, <2>1, <2>2 DEF HeaderSumRight
  <2> DEFINE x == SubSeq(s, 1, h - 1)
             y == SubSeq(m, 1, h - 1)
  <2>4. /\ x \in Seq(Byte) /\ y \in Seq(Byte) /\ Len(x) = h - 1 /\ Len(y) = h - 1
        /\ \A i \in 1..(h - 1) : x[i] = s[i] /\ y[i] = m[i]
    BY <1>1, <1>5, <1>9
  <2>5. h \in 1..Len(m) /\ \A i \in 1..(h - 1) : i \in 1..Len(m)
    BY <1>1, <1>5
  <2> HIDE DEF x, y
  <2>6. CASE p = h
    <3>1. \A i \in 1..(h - 1) : x[i] = y[i]
      BY <1>5, <1>8, <2>4, <2>5, <2>6
    <3>2. x = y
      BY <2>4, <3>1, SeqEqual
    <3> QED BY <1>8, <2>3, <2>6, <3>2 DEF x, y
  <2>7. CASE p # h
    <3>1. p \in 1..(h - 1) /\ s[h] = m[h]
      BY <1>5, <1>8, <2>5, <2>7
    <3>2. x[p] # y[p] /\ \A i \in 1..(h - 1) : i # p => x[i] = y[i]
      BY <1>8, <2>4, <2>5, <3>1
    <3>3. DifferInOne(x, y)
      BY <2>4, <3>1, <3>2 DEF DifferInOne
    <3>4. Crc8(x) # Crc8(y)
      BY <2>4, <3>3, ChecksumsNotice
    <3> QED BY <2>3, <3>1, <3>4 DEF x, y
  <2> QED BY <2>6, <2>7
<1> QED BY <1>10

\* A frame that was cut short is not cut by ReadFrame: the reader waits, or the stream has ended.
LEMMA CutNoticed ==
    ASSUME NEW f \in FrameSet, IsPacket(f.meant), CutShort(f)
    PROVE  Cut(f.bytes) # "frame"
<1> DEFINE b == f.bytes
           m == f.meant
<1>1. b \in Seq(Byte) /\ m \in Seq(Byte) /\ Len(b) < Len(m) /\ b = SubSeq(m, 1, Len(b))
  BY DEF FrameSet, CutShort
<1>2. Len(m) >= 11 /\ Len(m) = FrameLength(m)
  BY <1>1, PacketIs
<1> HIDE DEF b, m
<1>3. \A i \in 1..Len(b) : b[i] = m[i]
  <2>1. \A i \in 1..Len(b) : SubSeq(m, 1, Len(b))[i] = m[i]
    BY <1>1
  <2> QED BY <1>1, <2>1
<1>4. ASSUME Cut(b) = "frame" PROVE FALSE
  <2>1. Len(b) >= 11 /\ Len(b) >= FrameLength(b)
    BY <1>1, <1>4, FrameIs
  <2>2. \A i \in 1..11 : b[i] = m[i]
    BY <1>1, <1>3, <2>1
  <2>3. FrameLength(b) = FrameLength(m)
    BY <1>1, <1>2, <2>1, <2>2, SameHeader
  <2> QED BY <1>1, <1>2, <2>1, <2>3
<1> QED BY <1>4 DEF b

\* What ReadPacket (packet.go) has checked when it gives the result OK.
LEMMA OkMeans ==
    ASSUME NEW b \in Seq(Byte), Len(b) >= 7, ReadPacket(b).code = "OK"
    PROVE  LET body == Slice(b, HeaderLength(b) + 1, DataLength(b))
           IN Len(b) = FrameLength(b) /\ DataSumRight(body, From(b, HeaderLength(b) + Len(body) + 1))
<1> DEFINE body == Slice(b, HeaderLength(b) + 1, Number(Slice(b, 6, 2)))
           data == IF b[10] = Response THEN DecodeResponse(body) ELSE DecodeServices[body]
<1>1. ReadPacket(b) = Parsed(b, body, data)
  BY DEF ReadPacket
<1> HIDE DEF data
<1>2. Parsed(b, body, data).code = Code(b, body, data)
  BY DEF Parsed
<1>3. Code(b, body, data) = "OK"
  BY <1>1, <1>2
<1>4. Len(b) = FrameLength(b) /\ DataSumRight(body, From(b, HeaderLength(b) + Len(body) + 1))
  <2> HIDE DEF body
  <2> QED BY <1>3 DEF Code
<1>5. Number(Slice(b, 6, 2)) = DataLength(b)
  BY Lengths
<1> QED BY <1>4, <1>5

\* A frame with a byte of its data, or of their checksum, damaged is never decoded to a packet
\* with the result OK (packet.go).
THEOREM DataNoticed ==
    ASSUME NEW f \in FrameSet, IsPacket(f.meant), OneDamaged(f), Damage(f) = "data"
    PROVE  ReadPacket(f.bytes).code # "OK"
<1> DEFINE b == f.bytes
           m == f.meant
           h == HeaderLength(m)
           n == DataLength(m)
<1>1. b \in Seq(Byte) /\ m \in Seq(Byte)
  BY DEF FrameSet
<1>2. b # m /\ Len(b) = Len(m) /\ \A i \in 1..h : b[i] = m[i]
  BY DEF Damage, Intact
<1>3. PICK q \in DOMAIN m : b = [m EXCEPT ![q] = b[q]]
  BY DEF OneDamaged
<1>4. /\ Len(m) >= 11 /\ Len(m) = FrameLength(m) /\ h \in {11, 16}
      /\ DataSumRight(Slice(m, h + 1, n), From(m, h + n + 1))
  BY <1>1, PacketIs
<1>5. n \in Nat /\ FrameLength(m) = h + n + (IF n > 0 THEN 2 ELSE 0)
  BY <1>1, <1>4, Lengths
<1>6. DOMAIN m = 1..Len(m)
  BY <1>1
<1>7. \A i \in 1..11 : b[i] = m[i]
  BY <1>2, <1>4
<1>8. HeaderLength(b) = h /\ DataLength(b) = n
  BY <1>1, <1>2, <1>4, <1>7, SameHeader
<1> HIDE DEF b, m, h, n
<1>9. q \in 1..Len(m) /\ b[q] # m[q] /\ \A i \in 1..Len(m) : i # q => b[i] = m[i]
  <2>1. \A i \in 1..Len(m) : i # q => b[i] = m[i]
    BY <1>3, <1>6
  <2>2. b[q] # m[q]
    <3>1. SUFFICES ASSUME b[q] = m[q] PROVE FALSE
      OBVIOUS
    <3>2. b = m
      <4>1. \A i \in 1..Len(m) : b[i] = m[i]
        BY <2>1, <3>1
      <4> QED BY <1>1, <1>2, <4>1, SeqEqual
    <3> QED BY <1>2, <3>2
  <2> QED BY <1>6, <2>1, <2>2
<1>10. q > h /\ n > 0 /\ Len(m) = h + n + 2
  <2>1. q > h
    BY <1>2, <1>4, <1>9
  <2> QED BY <1>4, <1>5, <1>9, <2>1
<1> DEFINE x == Slice(b, h + 1, n)
           y == Slice(m, h + 1, n)
<1>11. /\ x \in Seq(Byte) /\ y \in Seq(Byte) /\ Len(x) = n /\ Len(y) = n
       /\ \A i \in 1..n : x[i] = b[h + i] /\ y[i] = m[h + i]
  <2>1. x = SubSeq(b, h + 1, h + n) /\ y = SubSeq(m, h + 1, h + n)
    BY <1>4, <1>5 DEF Slice
  <2>2. h + 1 \in 1..Len(m) /\ h + n \in 1..Len(m) /\ h + n - (h + 1) + 1 = n
    BY <1>4, <1>5, <1>10
  <2>3. ASSUME NEW s \in Seq(Byte), Len(s) = Len(m)
        PROVE  /\ SubSeq(s, h + 1, h + n) \in Seq(Byte) /\ Len(SubSeq(s, h + 1, h + n)) = n
               /\ \A i \in 1..n : SubSeq(s, h + 1, h + n)[i] = s[h + i]
    <3>1. h \in Nat /\ h + 1 \in Int /\ h + n \in Int /\ h + n <= Len(s)
      BY <1>4, <1>5, <1>10, <2>3
    <3> DEFINE k == h + 1
               l == h + n
    <3>3. k \in Nat \ {0} /\ l \in Nat /\ l <= Len(s) /\ l - k + 1 = n /\ \A i \in 1..n : k + i - 1 = h + i
      BY <1>5, <3>1
    <3> HIDE DEF k, l
    <3>4. /\ SubSeq(s, k, l) \in Seq(Byte) /\ Len(SubSeq(s, k, l)) = l - k + 1
          /\ \A i \in 1..(l - k + 1) : SubSeq(s, k, l)[i] = s[k + i - 1]
      BY <1>5, <2>3, <3>3
    <3> QED BY <3>3, <3>4 DEF k, l
  <2>4. Len(b) = Len(m)
    BY <1>2
  <2> HIDE DEF x, y
  <2>5. /\ SubSeq(b, h + 1, h + n) \in Seq(Byte) /\ Len(SubSeq(b, h + 1, h + n)) = n
        /\ \A i \in 1..n : SubSeq(b, h + 1, h + n)[i] = b[h + i]
    BY <1>1, <2>3, <2>4
  <2>6. /\ SubSeq(m, h + 1, h + n) \in Seq(Byte) /\ Len(SubSeq(m, h + 1, h + n)) = n
        /\ \A i \in 1..n : SubSeq(m, h + 1, h + n)[i] = m[h + i]
    BY <1>1, <2>3
  <2> QED BY <2>1, <2>5, <2>6
<1>12. ASSUME NEW s \in Seq(Byte), Len(s) = Len(m)
       PROVE  From(s, h + n + 1)[1] = s[h + n + 1] /\ From(s, h + n + 1)[2] = s[h + n + 2]
  <2>1. From(s, h + n + 1) = SubSeq(s, h + n + 1, h + n + 2)
    BY <1>10, <1>12 DEF From
  <2>2. h + n + 1 \in Nat \ {0} /\ h + n + 2 <= Len(s)
    BY <1>4, <1>5, <1>10, <1>12
  <2> DEFINE k == h + n + 1
  <2>4. k \in Nat \ {0} /\ k + 1 <= Len(s) /\ k + 1 = h + n + 2
    BY <1>4, <1>5, <2>2
  <2> HIDE DEF k
  <2>5. SubSeq(s, k, k + 1)[1] = s[k] /\ SubSeq(s, k, k + 1)[2] = s[k + 1]
    BY <1>12, <2>4
  <2>3. SubSeq(s, h + n + 1, h + n + 2)[1] = s[h + n + 1] /\ SubSeq(s, h + n + 1, h + n + 2)[2] = s[h + n + 2]
    BY <2>4, <2>5 DEF k
  <2> QED BY <2>1, <2>3
<1> HIDE DEF x, y
<1>13. x # <<>> /\ y # <<>>
  BY <1>10, <1>11
<1>14. <<m[h + n + 2], m[h + n + 1]>> = Crc16(y)
  <2>1. <<From(m, h + n + 1)[2], From(m, h + n + 1)[1]>> = Crc16(y)
    BY <1>4, <1>13 DEF DataSumRight, y
  <2> QED BY <1>1, <1>12, <2>1
<1>15. ASSUME ReadPacket(b).code = "OK" PROVE FALSE
  <2>1. DataSumRight(x, From(b, h + n + 1))
    <3>1. DataSumRight(x, From(b, h + Len(x) + 1))
      <4>1. Len(b) >= 7
        BY <1>2, <1>4
      <4>2. LET body == Slice(b, HeaderLength(b) + 1, DataLength(b))
            IN DataSumRight(body, From(b, HeaderLength(b) + Len(body) + 1))
        BY <1>1, <1>15, <4>1, OkMeans
      <4> QED BY <1>8, <4>2 DEF x
    <3> QED BY <1>11, <3>1
  <2>2. <<b[h + n + 2], b[h + n + 1]>> = Crc16(x)
    <3>1. <<From(b, h + n + 1)[2], From(b, h + n + 1)[1]>> = Crc16(x)
      BY <1>13, <2>1 DEF DataSumRight
    <3> QED BY <1>1, <1>2, <1>12, <3>1
  <2>3. CASE q <= h + n
    <3>1. q - h \in 1..n /\ h + (q - h) = q /\ \A i \in 1..n : i # q - h => h + i # q /\ h + i \in 1..Len(m)
      BY <1>4, <1>5, <1>9, <1>10, <2>3
    <3>2. x[q - h] # y[q - h]
      BY <1>9, <1>11, <3>1
    <3>3. \A i \in 1..n : i # q - h => x[i] = y[i]
      BY <1>9, <1>11, <3>1
    <3>4. DifferInOne(x, y)
      BY <1>11, <3>1, <3>2, <3>3 DEF DifferInOne
    <3>5. Crc16(x) # Crc16(y)
      BY <1>11, <3>4, ChecksumsNotice
    <3>6. b[h + n + 1] = m[h + n + 1] /\ b[h + n + 2] = m[h + n + 2]
      BY <1>4, <1>5, <1>9, <1>10, <2>3
    <3> QED BY <1>14, <2>2, <3>5, <3>6
  <2>4. CASE q > h + n
    <3>1. \A i \in 1..n : h + i # q /\ h + i \in 1..Len(m)
      BY <1>4, <1>5, <1>10, <2>4
    <3>2. \A i \in 1..n : x[i] = y[i]
      BY <1>9, <1>11, <3>1
    <3>3. x = y
      BY <1>11, <3>2, SeqEqual
    <3>4. b[h + n + 2] = m[h + n + 2] /\ b[h + n + 1] = m[h + n + 1]
      BY <1>14, <2>2, <3>3
    <3>5. q = h + n + 1 \/ q = h + n + 2
      BY <1>4, <1>5, <1>9, <1>10, <2>4
    <3> QED BY <1>9, <3>4, <3>5
  <2> QED BY <1>4, <1>5, <1>9, <2>3, <2>4
<1> QED BY <1>15 DEF b
----------------------------------------------------------------------------
\* What is on the wire: the frames from lo to hi - 1, one after the other.
Placed(at, lo, hi, frames, w) ==
    /\ at[lo] = 0 /\ at[hi] = Len(w)
    /\ \A k \in lo..(hi - 1) : at[k + 1] = at[k] + Len(frames[k].bytes)
    /\ \A k \in lo..(hi - 1), l \in lo..hi : k < l => at[k] + Len(frames[k].bytes) <= at[l]
    /\ \A k \in lo..(hi - 1) : \A j \in 1..Len(frames[k].bytes) : w[at[k] + j] = frames[k].bytes[j]

\* The frames of a terminal are sequences of bytes.
LEMMA FramesAre ==
    ASSUME NEW frames \in Seq(FrameSet), NEW k \in DOMAIN frames
    PROVE  frames[k] \in FrameSet /\ frames[k].bytes \in Seq(Byte) /\ Len(frames[k].bytes) \in Nat
<1>1. frames[k] \in FrameSet
  OBVIOUS
<1>2. frames[k].bytes \in Seq(Byte)
  BY <1>1 DEF FrameSet
<1> QED BY <1>1, <1>2

\* With no frame left there is no byte left.
LEMMA PlacedNone ==
    ASSUME NEW n \in Nat, NEW frames, NEW w \in Seq(Byte), NEW at, Placed(at, n, n, frames, w)
    PROVE  w = <<>>
<1>1. Len(w) = 0
  BY DEF Placed
<1> QED BY <1>1

\* The bytes on the wire begin with the first frame of those left.
LEMMA PlacedFirst ==
    ASSUME NEW lo \in Nat, NEW hi \in Nat, lo < hi,
           NEW frames \in Seq(FrameSet), \A k \in lo..(hi - 1) : k \in DOMAIN frames,
           NEW w \in Seq(Byte), NEW at \in [lo..hi -> Nat], Placed(at, lo, hi, frames, w)
    PROVE  Begins(w, frames[lo].bytes) /\ (hi = lo + 1 => Len(w) = Len(frames[lo].bytes))
<1> DEFINE b == frames[lo].bytes
<1>1. lo \in lo..(hi - 1) /\ hi \in lo..hi
  OBVIOUS
<1>2. b \in Seq(Byte) /\ Len(b) \in Nat
  BY <1>1, FramesAre
<1>3. at[lo] = 0 /\ at[hi] = Len(w) /\ at[lo] + Len(b) <= at[hi] /\ at[lo + 1] = at[lo] + Len(b)
      /\ \A j \in 1..Len(b) : w[at[lo] + j] = b[j]
  BY <1>1 DEF Placed
<1> HIDE DEF b
<1>4. \A j \in 1..Len(b) : w[j] = b[j]
  <2>1. \A j \in 1..Len(b) : 0 + j = j
    BY <1>2
  <2> QED BY <1>3, <2>1
<1>5. Len(w) >= Len(b)
  BY <1>2, <1>3
<1>6. hi = lo + 1 => Len(w) = Len(b)
  BY <1>2, <1>3
<1> QED BY <1>4, <1>5, <1>6 DEF Begins, b

\* A frame that is sent comes after the others.
LEMMA PlacedSend ==
    ASSUME NEW lo \in Nat, NEW hi \in Nat, lo <= hi,
           NEW frames \in Seq(FrameSet), \A k \in lo..hi : k \in DOMAIN frames,
           NEW w \in Seq(Byte), NEW at \in [lo..hi -> Nat], Placed(at, lo, hi, frames, w)
    PROVE  \E to \in [lo..(hi + 1) -> Nat] : Placed(to, lo, hi + 1, frames, w \o frames[hi].bytes)
<1> DEFINE b == frames[hi].bytes
           to == [k \in lo..(hi + 1) |-> IF k = hi + 1 THEN Len(w) + Len(b) ELSE at[k]]
           size(k) == Len(frames[k].bytes)
<1>1. b \in Seq(Byte) /\ Len(b) \in Nat /\ size(hi) = Len(b)
  <2>1. hi \in lo..hi
    OBVIOUS
  <2> QED BY <2>1, FramesAre
<1>2. \A k \in lo..hi : size(k) \in Nat
  BY FramesAre
<1>3. (w \o b) \in Seq(Byte) /\ Len(w \o b) = Len(w) + Len(b)
      /\ (\A i \in 1..Len(w) : (w \o b)[i] = w[i]) /\ \A j \in 1..Len(b) : (w \o b)[Len(w) + j] = b[j]
  BY <1>1
<1>4. /\ at[lo] = 0 /\ at[hi] = Len(w)
      /\ \A k \in lo..(hi - 1) : at[k + 1] = at[k] + size(k)
      /\ \A k \in lo..(hi - 1), l \in lo..hi : k < l => at[k] + size(k) <= at[l]
      /\ \A k \in lo..(hi - 1) : \A j \in 1..size(k) : w[at[k] + j] = frames[k].bytes[j]
  BY DEF Placed
<1>5. to \in [lo..(hi + 1) -> Nat]
  BY <1>1
<1>6. to[hi + 1] = Len(w) + Len(b) /\ \A k \in lo..hi : to[k] = at[k] /\ at[k] \in Nat
  OBVIOUS
<1> HIDE DEF b, to, size
<1>7. to[lo] = 0 /\ to[hi + 1] = Len(w \o b)
  BY <1>3, <1>4, <1>6
<1>8. ASSUME NEW k \in lo..hi PROVE to[k + 1] = to[k] + size(k)
  <2>1. CASE k = hi
    BY <1>1, <1>4, <1>6, <2>1
  <2>2. CASE k # hi
    <3>1. k \in lo..(hi - 1) /\ k + 1 \in lo..hi
      BY <2>2
    <3> QED BY <1>4, <1>6, <3>1
  <2> QED BY <2>1, <2>2
<1>9. ASSUME NEW k \in lo..hi, NEW l \in lo..(hi + 1), k < l PROVE to[k] + size(k) <= to[l]
  <2>1. CASE l \in lo..hi
    <3>1. k \in lo..(hi - 1)
      BY <1>9, <2>1
    <3> QED BY <1>4, <1>6, <1>9, <2>1, <3>1
  <2>2. CASE l = hi + 1
    <3>1. CASE k = hi
      BY <1>1, <1>4, <1>6, <2>2, <3>1
    <3>2. CASE k # hi
      <4>1. k \in lo..(hi - 1) /\ hi \in lo..hi /\ k < hi
        BY <3>2
      <4>2. at[k] + size(k) <= Len(w)
        BY <1>4, <4>1
      <4>3. to[k] = at[k] /\ to[l] = Len(w) + Len(b) /\ at[k] \in Nat /\ size(k) \in Nat
        BY <1>2, <1>6, <2>2
      <4>4. Len(w) \in Nat /\ Len(b) \in Nat
        BY <1>1
      <4> QED BY ONLY <4>2, <4>3, <4>4
    <3> QED BY <3>1, <3>2
  <2> QED BY <2>1, <2>2
<1>10. ASSUME NEW k \in lo..hi, NEW j \in 1..size(k) PROVE (w \o b)[to[k] + j] = frames[k].bytes[j]
  <2>1. CASE k = hi
    <3>1. to[k] = Len(w) /\ j \in 1..Len(b)
      BY <1>1, <1>4, <1>6, <2>1
    <3> QED BY <1>3, <2>1, <3>1 DEF b
  <2>2. CASE k # hi
    <3>1. k \in lo..(hi - 1) /\ hi \in lo..hi /\ k < hi
      BY <2>2
    <3>2. at[k] + size(k) <= Len(w) /\ w[at[k] + j] = frames[k].bytes[j]
      BY <1>4, <3>1
    <3>3. to[k] = at[k] /\ at[k] + j \in 1..Len(w)
      BY <1>2, <1>6, <3>2
    <3> QED BY <1>3, <3>2, <3>3
  <2> QED BY <2>1, <2>2
<1>11. (hi + 1) - 1 = hi
  OBVIOUS
<1>12. Placed(to, lo, hi + 1, frames, w \o b)
  BY <1>7, <1>8, <1>9, <1>10, <1>11 DEF Placed, size
<1> QED BY <1>5, <1>12 DEF b

\* When the first frame is read the others are left.
LEMMA PlacedRead ==
    ASSUME NEW lo \in Nat, NEW hi \in Nat, lo < hi,
           NEW frames \in Seq(FrameSet), \A k \in lo..(hi - 1) : k \in DOMAIN frames,
           NEW w \in Seq(Byte), NEW at \in [lo..hi -> Nat], Placed(at, lo, hi, frames, w)
    PROVE  \E to \in [(lo + 1)..hi -> Nat] :
              Placed(to, lo + 1, hi, frames, From(w, Len(frames[lo].bytes) + 1))
<1> DEFINE n == Len(frames[lo].bytes)
           rest == From(w, n + 1)
           size(k) == Len(frames[k].bytes)
           to == [k \in (lo + 1)..hi |-> at[k] - n]
<1>1. \A k \in lo..(hi - 1) : size(k) \in Nat
  BY FramesAre
<1>2. lo \in lo..(hi - 1) /\ hi \in lo..hi /\ n \in Nat /\ size(lo) = n
  BY <1>1
<1>3. /\ at[lo] = 0 /\ at[hi] = Len(w)
      /\ \A k \in lo..(hi - 1) : at[k + 1] = at[k] + size(k)
      /\ \A k \in lo..(hi - 1), l \in lo..hi : k < l => at[k] + size(k) <= at[l]
      /\ \A k \in lo..(hi - 1) : \A j \in 1..size(k) : w[at[k] + j] = frames[k].bytes[j]
  BY DEF Placed
<1>4. \A k \in (lo + 1)..hi : k \in lo..hi /\ to[k] = at[k] - n /\ at[k] \in Nat
  OBVIOUS
<1> HIDE DEF n, to, size, rest
<1>5. \A k \in (lo + 1)..hi : at[k] >= n
  BY <1>2, <1>3, <1>4
<1>6. to \in [(lo + 1)..hi -> Nat]
  <2>1. \A k \in (lo + 1)..hi : at[k] - n \in Nat
    BY <1>2, <1>4, <1>5
  <2> QED BY <2>1 DEF to
<1>7. n <= Len(w) /\ Len(w) \in Nat
  BY <1>2, <1>3
<1>8. /\ rest \in Seq(Byte) /\ Len(rest) = Len(w) - n
      /\ \A i \in 1..(Len(w) - n) : rest[i] = w[n + i]
  <2>1. rest = SubSeq(w, n + 1, Len(w))
    BY DEF rest, From
  <2>2. ASSUME NEW k \in Nat \ {0}, NEW l \in Nat, l = Len(w), k <= l + 1
        PROVE  /\ SubSeq(w, k, l) \in Seq(Byte) /\ Len(SubSeq(w, k, l)) = l - k + 1
               /\ \A i \in 1..(l - k + 1) : SubSeq(w, k, l)[i] = w[k + i - 1]
    BY <2>2
  <2>3. /\ SubSeq(w, n + 1, Len(w)) \in Seq(Byte) /\ Len(SubSeq(w, n + 1, Len(w))) = Len(w) - (n + 1) + 1
        /\ \A i \in 1..(Len(w) - (n + 1) + 1) : SubSeq(w, n + 1, Len(w))[i] = w[n + 1 + i - 1]
    <3>1. n + 1 \in Nat \ {0} /\ n + 1 <= Len(w) + 1
      BY <1>2, <1>7
    <3> QED BY <1>7, <2>2, <3>1
  <2>4. Len(w) - (n + 1) + 1 = Len(w) - n
    BY <1>2, <1>7
  <2>5. \A i \in 1..(Len(w) - n) : n + 1 + i - 1 = n + i
    BY <1>2, <1>7
  <2>6. \A i \in 1..(Len(w) - n) : SubSeq(w, n + 1, Len(w))[i] = w[n + i]
    BY <2>3, <2>4, <2>5
  <2> QED BY <2>1, <2>3, <2>4, <2>6
<1>9. to[lo + 1] = 0 /\ to[hi] = Len(rest)
  <2>1. lo + 1 \in (lo + 1)..hi /\ hi \in (lo + 1)..hi
    OBVIOUS
  <2>2. at[lo + 1] = n
    BY <1>2, <1>3
  <2>3. to[lo + 1] = at[lo + 1] - n /\ to[hi] = at[hi] - n
    BY <1>4, <2>1
  <2> QED BY <1>2, <1>3, <1>7, <1>8, <2>2, <2>3
<1>10. ASSUME NEW k \in (lo + 1)..(hi - 1) PROVE to[k + 1] = to[k] + size(k)
  <2>1. k \in lo..(hi - 1) /\ k \in (lo + 1)..hi /\ k + 1 \in (lo + 1)..hi
    OBVIOUS
  <2>2. to[k + 1] = at[k + 1] - n /\ to[k] = at[k] - n /\ at[k + 1] = at[k] + size(k)
    BY <1>3, <1>4, <2>1
  <2>3. at[k] \in Nat /\ size(k) \in Nat
    BY <1>1, <1>4, <2>1
  <2> QED BY <1>2, <2>2, <2>3
<1>11. ASSUME NEW k \in (lo + 1)..(hi - 1), NEW l \in (lo + 1)..hi, k < l PROVE to[k] + size(k) <= to[l]
  <2>1. k \in lo..(hi - 1) /\ k \in (lo + 1)..hi /\ l \in lo..hi
    OBVIOUS
  <2>2. to[l] = at[l] - n /\ to[k] = at[k] - n /\ at[k] + size(k) <= at[l]
    BY <1>3, <1>4, <1>11, <2>1
  <2>3. at[k] \in Nat /\ at[l] \in Nat /\ size(k) \in Nat
    BY <1>1, <1>4, <2>1
  <2> QED BY <1>2, <2>2, <2>3
<1>12. ASSUME NEW k \in (lo + 1)..(hi - 1), NEW j \in 1..size(k) PROVE rest[to[k] + j] = frames[k].bytes[j]
  <2>1. k \in lo..(hi - 1) /\ k \in (lo + 1)..hi /\ k < hi
    OBVIOUS
  <2>2. at[k] + size(k) <= Len(w) /\ w[at[k] + j] = frames[k].bytes[j]
    BY <1>2, <1>3, <2>1
  <2>3. to[k] + j \in 1..(Len(w) - n) /\ n + (to[k] + j) = at[k] + j
    <3>1. to[k] = at[k] - n /\ at[k] >= n /\ at[k] \in Nat /\ size(k) \in Nat
      BY <1>1, <1>4, <1>5, <2>1
    <3>2. to[k] + j \in Nat /\ to[k] + j >= 1 /\ n + (to[k] + j) = at[k] + j
      BY <1>2, <3>1
    <3>3. to[k] + j <= Len(w) - n
      BY <1>2, <1>7, <2>2, <3>1
    <3> QED BY <1>2, <1>7, <3>2, <3>3
  <2> QED BY <1>8, <2>2, <2>3
<1>13. Placed(to, lo + 1, hi, frames, rest)
  BY <1>9, <1>10, <1>11, <1>12 DEF Placed, size
<1> QED BY <1>6, <1>13 DEF rest, n
----------------------------------------------------------------------------
\* The readers stay in step with the frames sent.
Readings == {[raw |-> b, packet |-> ReadPacket(b)] : b \in Seq(Byte)}
Types ==
    /\ script \in Scripts
    /\ next \in [Conns -> Nat] /\ \A c \in Conns : next[c] \in 1..(Len(script[c]) + 1)
    /\ wire \in [Conns -> Seq(Byte)]
    /\ got \in [Conns -> Seq(Readings)]
Clean(c, i) == \A k \in 1..i : Damage(script[c][k]) # "header"
Aligned(c) ==
    /\ Len(got[c]) + 1 <= next[c]
    /\ \E at \in [(Len(got[c]) + 1)..next[c] -> Nat] :
          Placed(at, Len(got[c]) + 1, next[c], script[c], wire[c])
IInv ==
    /\ Types
    /\ \A c \in Conns : c \in Framed \/ Clean(c, Len(got[c])) => Aligned(c)
    /\ InStep

\* What the terminals send are packets, whole or with a byte damaged, and the last of them may
\* be cut short.
LEMMA ScriptIs ==
    ASSUME NEW s \in Scripts, NEW c \in Conns
    PROVE  /\ s[c] \in Seq(FrameSet) /\ Len(s[c]) \in Nat /\ DOMAIN s[c] = 1..Len(s[c])
           /\ \A k \in DOMAIN s[c] :
                 /\ s[c][k] \in FrameSet /\ IsPacket(s[c][k].meant)
                 /\ OneDamaged(s[c][k]) \/ (CutShort(s[c][k]) /\ k = Len(s[c]))
<1>1. s[c] \in Seq(FrameSet)
  BY ScriptAssumption DEF FrameSet
<1>2. \A k \in DOMAIN s[c] : s[c][k] \in FrameSet
  BY <1>1
<1>3. \A k \in DOMAIN s[c] : IsPacket(s[c][k].meant) /\ (OneDamaged(s[c][k]) \/ (CutShort(s[c][k]) /\ k = Len(s[c])))
  BY ScriptAssumption
<1> QED BY <1>1, <1>2, <1>3

\* What a reader in step reads is the frame next in turn.
LEMMA ReadsNext ==
    ASSUME Types, NEW c \in Conns, Aligned(c), Found(c) = "frame",
           c \in Framed \/ Damage(script[c][Len(got[c]) + 1]) # "header"
    PROVE  LET f == script[c][Len(got[c]) + 1]
           IN /\ Len(got[c]) + 1 < next[c] /\ Len(got[c]) + 1 \in DOMAIN script[c]
              /\ FrameLength(wire[c]) = Len(f.bytes) /\ SubSeq(wire[c], 1, FrameLength(wire[c])) = f.bytes
              /\ Damage(f) # "header" /\ (ReadPacket(f.bytes).code = "OK" => Damage(f) = "none")
<1> DEFINE k == Len(got[c]) + 1
           f == script[c][k]
           w == wire[c]
           hi == next[c]
<1>1. k \in Nat /\ k >= 1 /\ w \in Seq(Byte) /\ hi \in Nat /\ hi <= Len(script[c]) + 1 /\ k <= hi
  BY DEF Types, Aligned
<1>2. Len(w) >= 10 /\ Len(w) >= FrameLength(w) /\ (c \in Framed => Cut(w) = "frame")
  <2>1. Cut(w) = "frame" \/ ServerCut(w) = "frame"
    BY DEF Found
  <2>2. c \in Framed => Cut(w) = "frame"
    BY DEF Found
  <2> HIDE DEF w
  <2> QED BY <1>1, <2>1, <2>2, FrameIs
<1>3. /\ script[c] \in Seq(FrameSet) /\ Len(script[c]) \in Nat /\ DOMAIN script[c] = 1..Len(script[c])
      /\ \A i \in DOMAIN script[c] :
            /\ script[c][i] \in FrameSet /\ IsPacket(script[c][i].meant)
            /\ OneDamaged(script[c][i]) \/ (CutShort(script[c][i]) /\ i = Len(script[c]))
  BY ScriptIs DEF Types
<1>4. PICK at \in [k..hi -> Nat] : Placed(at, k, hi, script[c], w)
  BY DEF Aligned
<1>5. c \in Framed \/ Damage(f) # "header"
  OBVIOUS
<1> HIDE DEF k, w, hi
<1>6. k < hi
  <2>1. CASE k = hi
    <3>1. w = <<>>
      BY <1>1, <1>4, <2>1, PlacedNone
    <3> QED BY <1>2, <3>1
  <2> QED BY <1>1, <2>1
<1>7. k \in DOMAIN script[c] /\ \A i \in k..(hi - 1) : i \in DOMAIN script[c]
  BY <1>1, <1>3, <1>6
<1>8. /\ f \in FrameSet /\ IsPacket(f.meant)
      /\ OneDamaged(f) \/ (CutShort(f) /\ k = Len(script[c]))
  BY <1>3, <1>7
<1>9. Begins(w, f.bytes) /\ (hi = k + 1 => Len(w) = Len(f.bytes))
  BY <1>1, <1>3, <1>4, <1>6, <1>7, PlacedFirst
<1> HIDE DEF f
<1>10. f.bytes \in Seq(Byte) /\ f.meant \in Seq(Byte)
  BY <1>8 DEF FrameSet
<1>11. Damage(f) # "header"
  <2>1. SUFFICES ASSUME Damage(f) = "header" PROVE FALSE
    OBVIOUS
  <2>2. Cut(w) = "frame"
    BY <1>2, <1>5, <2>1
  <2>3. CASE OneDamaged(f)
    BY <1>1, <1>8, <1>9, <2>1, <2>2, <2>3, HeaderNoticed
  <2>4. CASE CutShort(f) /\ k = Len(script[c])
    <3>1. hi = k + 1
      BY <1>1, <1>3, <1>6, <2>4
    <3>2. w = f.bytes
      BY <1>1, <1>9, <1>10, <3>1, SeqEqual DEF Begins
    <3> QED BY <1>8, <2>2, <2>4, <3>2, CutNoticed
  <2> QED BY <1>8, <2>3, <2>4
<1>12. FrameLength(w) = Len(f.bytes)
  BY <1>1, <1>8, <1>9, <1>11, HeaderKept
<1>13. SubSeq(w, 1, FrameLength(w)) = f.bytes
  <2> DEFINE n == Len(f.bytes)
             raw == SubSeq(w, 1, n)
  <2>1. n \in Nat /\ n <= Len(w) /\ \A i \in 1..n : w[i] = f.bytes[i]
    BY <1>9, <1>10 DEF Begins
  <2> HIDE DEF n
  <2>2. raw \in Seq(Byte) /\ Len(raw) = n /\ \A i \in 1..n : raw[i] = w[i]
    BY <1>1, <2>1
  <2> HIDE DEF raw
  <2>3. raw = f.bytes
    BY <1>10, <2>1, <2>2, SeqEqual DEF n
  <2> QED BY <1>12, <2>3 DEF raw, n
<1>14. ReadPacket(f.bytes).code = "OK" => Damage(f) = "none"
  <2>1. SUFFICES ASSUME ReadPacket(f.bytes).code = "OK", Damage(f) # "none" PROVE FALSE
    OBVIOUS
  <2>2. Damage(f) = "data" /\ Len(f.bytes) = Len(f.meant)
    BY <1>11, <2>1 DEF Damage, Intact
  <2>3. OneDamaged(f)
    BY <1>8, <1>10, <2>2 DEF CutShort
  <2> QED BY <1>8, <2>1, <2>2, <2>3, DataNoticed
<1> QED BY <1>6, <1>7, <1>11, <1>12, <1>13, <1>14 DEF f, k, w, hi

\* The handlers begin with nothing sent and nothing read.
LEMMA Begun == Init => IInv
<1> SUFFICES ASSUME Init PROVE IInv
  OBVIOUS
<1>1. \A c \in Conns : script[c] \in Seq(FrameSet) /\ Len(script[c]) \in Nat
  BY ScriptIs DEF Init
<1>2. <<>> \in Seq(Byte) /\ <<>> \in Seq(Readings) /\ Len(<<>>) = 0
  OBVIOUS
<1>3. Types
  BY <1>1, <1>2 DEF Init, Types
<1>4. ASSUME NEW c \in Conns PROVE Aligned(c)
  <2>1. got[c] = <<>> /\ wire[c] = <<>> /\ next[c] = 1
    BY DEF Init
  <2> DEFINE at == [k \in 1..1 |-> 0]
  <2>2. at \in [1..1 -> Nat] /\ at[1] = 0
    OBVIOUS
  <2> HIDE DEF at
  <2>3. Placed(at, 1, 1, script[c], <<>>)
    BY <1>2, <2>2 DEF Placed
  <2>4. Len(got[c]) + 1 = 1
    BY <1>2, <2>1
  <2> QED BY <2>1, <2>2, <2>3, <2>4 DEF Aligned
<1>5. InStep
  <2>1. \A c \in Conns : DOMAIN got[c] = {}
    BY DEF Init
  <2> QED BY <2>1 DEF InStep
<1> QED BY <1>3, <1>4, <1>5 DEF IInv

\* A terminal that sends keeps the bytes on the wire aligned with the frames.
LEMMA SendKeeps ==
    ASSUME IInv, NEW c \in Conns, Send(c)
    PROVE  IInv'
<1>1. /\ next[c] \in DOMAIN script[c] /\ wire' = [wire EXCEPT ![c] = @ \o script[c][next[c]].bytes]
      /\ next' = [next EXCEPT ![c] = @ + 1] /\ script' = script /\ got' = got
  BY DEF Send
<1>2. Types /\ InStep
  BY DEF IInv
<1>3. /\ script[c] \in Seq(FrameSet) /\ Len(script[c]) \in Nat /\ DOMAIN script[c] = 1..Len(script[c])
      /\ script[c][next[c]].bytes \in Seq(Byte)
  BY <1>1, <1>2, ScriptIs, FramesAre DEF Types
<1>4. /\ wire[c] \in Seq(Byte) /\ next[c] \in Nat /\ wire'[c] = wire[c] \o script[c][next[c]].bytes /\ next'[c] = next[c] + 1
      /\ \A d \in Conns : d # c => wire'[d] = wire[d] /\ next'[d] = next[d]
  BY <1>1, <1>2 DEF Types
<1>5. Types'
  <2>1. wire'[c] \in Seq(Byte)
    BY <1>3, <1>4
  <2>2. wire' \in [Conns -> Seq(Byte)]
    BY <1>1, <1>2, <2>1 DEF Types
  <2>3. next' \in [Conns -> Nat] /\ next'[c] \in 1..(Len(script[c]) + 1)
    <3>1. next \in [Conns -> Nat] /\ next[c] + 1 \in Nat
      BY <1>2, <1>4 DEF Types
    <3>2. next' \in [Conns -> Nat]
      BY <1>1, <3>1
    <3>3. next[c] + 1 \in 1..(Len(script[c]) + 1)
      BY <1>1, <1>3
    <3> QED BY <1>4, <3>2, <3>3
  <2>4. ASSUME NEW d \in Conns PROVE next'[d] \in 1..(Len(script'[d]) + 1)
    <3>1. CASE d = c
      BY <1>1, <2>3, <3>1
    <3>2. CASE d # c
      BY <1>1, <1>2, <1>4, <3>2 DEF Types
    <3> QED BY <3>1, <3>2
  <2> QED BY <1>1, <1>2, <2>2, <2>3, <2>4 DEF Types
<1>6. InStep'
  BY <1>1, <1>2 DEF InStep
<1>7. ASSUME NEW d \in Conns, d \in Framed \/ Clean(d, Len(got[d])) PROVE Aligned(d)'
  <2>1. Aligned(d)
    BY <1>7 DEF IInv
  <2>2. CASE d # c
    BY <1>1, <1>4, <2>1, <2>2 DEF Aligned
  <2>3. CASE d = c
    <3> DEFINE lo == Len(got[c]) + 1
               hi == next[c]
    <3>1. lo \in Nat /\ lo >= 1 /\ hi \in Nat /\ lo <= hi
      BY <1>2, <2>1, <2>3 DEF Types, Aligned
    <3>2. PICK at \in [lo..hi -> Nat] : Placed(at, lo, hi, script[c], wire[c])
      BY <2>1, <2>3 DEF Aligned
    <3>3. hi \in DOMAIN script[c] /\ next'[c] = hi + 1 /\ wire'[c] = wire[c] \o script[c][hi].bytes
      BY <1>1, <1>4
    <3>4. Len(got'[c]) + 1 = lo
      BY <1>1
    <3> HIDE DEF lo, hi
    <3>5. \A k \in lo..hi : k \in DOMAIN script[c]
      BY <1>3, <3>1, <3>3
    <3>6. PICK to \in [lo..(hi + 1) -> Nat] : Placed(to, lo, hi + 1, script[c], wire[c] \o script[c][hi].bytes)
      BY <1>3, <1>4, <3>1, <3>2, <3>5, PlacedSend
    <3>7. lo <= hi + 1
      BY <3>1
    <3> QED BY <1>1, <2>3, <3>3, <3>4, <3>6, <3>7 DEF Aligned
  <2> QED BY <2>2, <2>3
<1>8. \A d \in Conns : (d \in Framed \/ Clean(d, Len(got[d])))' => d \in Framed \/ Clean(d, Len(got[d]))
  BY <1>1 DEF Clean
<1> QED BY <1>5, <1>6, <1>7, <1>8 DEF IInv

\* A handler that reads a frame (the loops of egts_server/main.go, ReadFrame) keeps them
\* aligned, unless a damaged header has been taken for a good one.
LEMMA ReadKeeps ==
    ASSUME IInv, NEW c \in Conns, Read(c)
    PROVE  IInv'
<1> DEFINE n == FrameLength(wire[c])
           raw == SubSeq(wire[c], 1, n)
           g == [raw |-> raw, packet |-> ReadPacket(raw)]
           G == Len(got[c])
           f == script[c][G + 1]
<1>1. /\ Found(c) = "frame"
      /\ wire' = [wire EXCEPT ![c] = From(@, n + 1)] /\ got' = [got EXCEPT ![c] = Append(@, g)]
      /\ script' = script /\ next' = next
  BY DEF Read, terminal
<1>2. Types /\ InStep
  BY DEF IInv
<1>3. wire[c] \in Seq(Byte) /\ got[c] \in Seq(Readings) /\ G \in Nat
  BY <1>2 DEF Types
<1>4. Len(wire[c]) >= 10 /\ Len(wire[c]) >= n /\ n \in Nat
  <2>1. Cut(wire[c]) = "frame" \/ ServerCut(wire[c]) = "frame"
    BY <1>1 DEF Found
  <2>2. Len(wire[c]) >= 10 /\ Len(wire[c]) >= n
    BY <1>3, <2>1, FrameIs
  <2> QED BY <1>3, <2>2, Lengths
<1>5. raw \in Seq(Byte) /\ From(wire[c], n + 1) \in Seq(Byte)
  <2> HIDE DEF n
  <2>1. SubSeq(wire[c], 1, n) \in Seq(Byte)
    BY <1>3, <1>4
  <2>2. SubSeq(wire[c], n + 1, Len(wire[c])) \in Seq(Byte)
    <3>1. \A i \in (n + 1)..Len(wire[c]) : wire[c][i] \in Byte
      BY <1>3, <1>4
    <3> QED BY <1>3, <1>4, <3>1, SubSeqProperties
  <2> QED BY <2>1, <2>2 DEF From
<1>6. g \in Readings
  BY <1>5 DEF Readings
<1> HIDE DEF g, raw, n
<1>7. /\ got'[c] = Append(got[c], g) /\ wire'[c] = From(wire[c], n + 1)
      /\ got'[c] \in Seq(Readings) /\ Len(got'[c]) = G + 1 /\ DOMAIN got'[c] = 1..(G + 1) /\ DOMAIN got[c] = 1..G
      /\ (\A i \in 1..G : got'[c][i] = got[c][i]) /\ got'[c][G + 1] = g
      /\ \A d \in Conns : d # c => got'[d] = got[d] /\ wire'[d] = wire[d]
  <2>1. got'[c] = Append(got[c], g) /\ wire'[c] = From(wire[c], n + 1)
    BY <1>1, <1>2 DEF Types
  <2>2. \A d \in Conns : d # c => got'[d] = got[d] /\ wire'[d] = wire[d]
    BY <1>1, <1>2 DEF Types
  <2>3. /\ Append(got[c], g) \in Seq(Readings) /\ Len(Append(got[c], g)) = G + 1
        /\ (\A i \in 1..G : Append(got[c], g)[i] = got[c][i]) /\ Append(got[c], g)[G + 1] = g
    BY <1>3, <1>6
  <2> QED BY <1>3, <2>1, <2>2, <2>3
<1>8. Types'
  <2>1. wire' \in [Conns -> Seq(Byte)]
    BY <1>1, <1>2, <1>5, <1>7 DEF Types
  <2>2. got' \in [Conns -> Seq(Readings)]
    BY <1>1, <1>2, <1>7 DEF Types
  <2> QED BY <1>1, <1>2, <2>1, <2>2 DEF Types
\* The frame read, if the reader was in step.
<1>9. ASSUME c \in Framed \/ Clean(c, G + 1)
      PROVE  /\ Aligned(c) /\ G + 1 < next[c] /\ G + 1 \in DOMAIN script[c]
             /\ n = Len(f.bytes) /\ raw = f.bytes /\ Damage(f) # "header"
             /\ g.packet.code = "OK" => Damage(f) = "none"
  <2>1. c \in Framed \/ Clean(c, G)
    <3>1. \A k \in 1..G : k \in 1..(G + 1)
      BY <1>3
    <3> QED BY <1>9, <3>1 DEF Clean
  <2>2. Aligned(c)
    BY <2>1 DEF IInv
  <2>3. c \in Framed \/ Damage(f) # "header"
    <3>1. G + 1 \in 1..(G + 1)
      BY <1>3
    <3> QED BY <1>9, <3>1 DEF Clean
  <2>4. /\ G + 1 < next[c] /\ G + 1 \in DOMAIN script[c]
        /\ FrameLength(wire[c]) = Len(f.bytes) /\ SubSeq(wire[c], 1, FrameLength(wire[c])) = f.bytes
        /\ Damage(f) # "header" /\ (ReadPacket(f.bytes).code = "OK" => Damage(f) = "none")
    BY <1>1, <1>2, <2>2, <2>3, ReadsNext
  <2> QED BY <2>2, <2>4 DEF g, raw, n
<1>10. InStep'
  <2> SUFFICES ASSUME NEW d \in Conns, NEW i \in DOMAIN got'[d],
                      d \in Framed \/ \A k \in 1..i : Damage(script[d][k]) # "header"
               PROVE  /\ got'[d][i].raw = script[d][i].bytes /\ Damage(script[d][i]) # "header"
                      /\ got'[d][i].packet.code = "OK" => Damage(script[d][i]) = "none"
    BY <1>1 DEF InStep
  <2>1. CASE d # c
    BY <1>2, <1>7, <2>1 DEF InStep
  <2>2. CASE d = c /\ i \in 1..G
    BY <1>2, <1>7, <2>2 DEF InStep
  <2>3. CASE d = c /\ i = G + 1
    <3>1. c \in Framed \/ Clean(c, G + 1)
      BY <2>3 DEF Clean
    <3>2. got'[d][i] = g /\ script[d][i] = f
      BY <1>7, <2>3
    <3>3. g.raw = raw
      BY DEF g
    <3> QED BY <1>9, <3>1, <3>2, <3>3
  <2> QED BY <1>3, <1>7, <2>1, <2>2, <2>3
<1>11. ASSUME NEW d \in Conns, (d \in Framed \/ Clean(d, Len(got[d])))' PROVE Aligned(d)'
  <2>1. CASE d # c
    <3>1. d \in Framed \/ Clean(d, Len(got[d]))
      BY <1>1, <1>7, <1>11, <2>1 DEF Clean
    <3>2. Aligned(d)
      BY <3>1 DEF IInv
    <3> QED BY <1>1, <1>7, <2>1, <3>2 DEF Aligned
  <2>2. CASE d = c
    <3>1. c \in Framed \/ Clean(c, G + 1)
      BY <1>1, <1>7, <1>11, <2>2 DEF Clean
    <3> DEFINE lo == G + 1
               hi == next[c]
    <3>2. lo \in Nat /\ hi \in Nat /\ lo < hi /\ n = Len(script[c][lo].bytes)
      BY <1>2, <1>3, <1>9, <3>1 DEF Types
    <3>3. PICK at \in [lo..hi -> Nat] : Placed(at, lo, hi, script[c], wire[c])
      BY <1>9, <3>1 DEF Aligned
    <3>4. hi <= Len(script[c]) + 1 /\ lo >= 1
      BY <1>2, <1>3 DEF Types
    <3>5. Len(got'[c]) + 1 = lo + 1 /\ next'[c] = hi
      BY <1>1, <1>7
    <3> HIDE DEF lo, hi
    <3>6. script[c] \in Seq(FrameSet) /\ \A k \in lo..(hi - 1) : k \in DOMAIN script[c]
      <4>1. script[c] \in Seq(FrameSet) /\ Len(script[c]) \in Nat /\ DOMAIN script[c] = 1..Len(script[c])
        BY <1>2, ScriptIs DEF Types
      <4> QED BY <3>2, <3>4, <4>1
    <3>7. PICK to \in [(lo + 1)..hi -> Nat] :
             Placed(to, lo + 1, hi, script[c], From(wire[c], Len(script[c][lo].bytes) + 1))
      BY <1>3, <3>2, <3>3, <3>6, PlacedRead
    <3>8. lo + 1 <= hi
      BY <3>2
    <3> QED BY <1>1, <1>7, <2>2, <3>2, <3>5, <3>7, <3>8 DEF Aligned
  <2> QED BY <2>1, <2>2
<1> QED BY <1>8, <1>10, <1>11 DEF IInv

\* Nothing but sending and reading touches the frames.
LEMMA StepKeeps == IInv /\ [Next]_vars => IInv'
<1> SUFFICES ASSUME IInv, [Next]_vars PROVE IInv'
  OBVIOUS
<1>1. CASE UNCHANGED <<script, next, wire, got>>
  BY <1>1 DEF IInv, Types, Aligned, Clean, InStep
<1>2. ASSUME NEW c \in Conns, Send(c) PROVE IInv'
  BY <1>2, SendKeeps
<1>3. ASSUME NEW c \in Conns, Read(c) PROVE IInv'
  BY <1>3, ReadKeeps
<1>4. ASSUME NEW c \in Conns,
             Leave(c) \/ Refuse(c) \/ Take1(c) \/ Compose(c) \/ Write(c) \/ WriteFails(c)
      PROVE  UNCHANGED <<script, next, wire, got>>
  BY <1>4 DEF Leave, Refuse, Take1, Compose, Write, WriteFails, terminal
<1>5. CASE UNCHANGED vars
  BY <1>1, <1>5 DEF vars
<1> QED BY <1>1, <1>2, <1>3, <1>4, <1>5 DEF Next

\* The readers stay in step: as long as no damaged header was read unchecked, what the handler
\* of egts_server reads is what was sent, frame by frame, and only undamaged frames are
\* accepted; with ReadFrame, as in egts_gateway, nothing else ever happens.
THEOREM ReadersInStep == Spec => []InStep
<1>1. IInv => InStep
  BY DEF IInv
<1> QED BY Begun, StepKeeps, <1>1, PTL DEF Spec

\* On every connection of egts_gateway, and on one of egts_server that has read no damaged
\* header, the packets accepted are frames sent undamaged, in the order of sending.
THEOREM InStepAsSent ==
    Spec => [](\A c \in Conns : c \in Framed \/ Clean(c, Len(got[c])) => AsSent(c))
<1> DEFINE Goal == \A c \in Conns : c \in Framed \/ Clean(c, Len(got[c])) => AsSent(c)
<1>1. IInv => Goal
  <2> SUFFICES ASSUME IInv, NEW c \in Conns, c \in Framed \/ Clean(c, Len(got[c])) PROVE AsSent(c)
    OBVIOUS
  <2>1. Types /\ InStep /\ Aligned(c)
    BY DEF IInv
  <2>2. got[c] \in Seq(Readings) /\ Len(got[c]) \in Nat /\ DOMAIN got[c] = 1..Len(got[c])
    BY <2>1 DEF Types
  <2>3. DOMAIN script[c] = 1..Len(script[c]) /\ Len(script[c]) \in Nat
    BY <2>1, ScriptIs DEF Types
  <2>4. \A i \in DOMAIN got[c] : i \in DOMAIN script[c] /\ i \in Int
    <3>1. next[c] \in 1..(Len(script[c]) + 1) /\ Len(got[c]) + 1 <= next[c]
      BY <2>1 DEF Types, Aligned
    <3> QED BY <2>2, <2>3, <3>1
  <2>5. ASSUME NEW i \in Accepted(c)
        PROVE  i \in DOMAIN got[c] /\ script[c][i].bytes = got[c][i].raw /\ Damage(script[c][i]) = "none"
    <3>1. i \in DOMAIN got[c] /\ got[c][i].packet.code = "OK"
      BY DEF Accepted
    <3>2. c \in Framed \/ \A k \in 1..i : Damage(script[c][k]) # "header"
      <4>1. \A k \in 1..i : k \in 1..Len(got[c])
        BY <2>2, <3>1
      <4> QED BY <4>1 DEF Clean
    <3> QED BY <2>1, <3>1, <3>2 DEF InStep
  <2> DEFINE place == [i \in Accepted(c) |-> i]
  <2>6. place \in [Accepted(c) -> DOMAIN script[c]]
    BY <2>4, <2>5
  <2>7. \A i \in Accepted(c) : place[i] = i
    OBVIOUS
  <2> HIDE DEF place
  <2>8. \A i \in Accepted(c) : script[c][place[i]].bytes = got[c][i].raw /\ Damage(script[c][place[i]]) = "none"
    BY <2>5, <2>7
  <2>9. \A i, j \in Accepted(c) : i < j => place[i] < place[j]
    BY <2>7
  <2> QED BY <2>6, <2>8, <2>9 DEF AsSent
<1>2. Spec => []IInv
  BY StepKeeps, Begun, PTL DEF Spec
<1> QED BY <1>1, <1>2, PTL

\* A server that reads with ReadFrame, as egts_gateway does, makes no packet of damaged
\* bytes, whichever frames were damaged on its connections (one byte each) or cut short.
THEOREM FramedOnlyUndamaged ==
    ASSUME Framed = Conns
    PROVE  Spec => []OnlyUndamaged
<1>1. (\A c \in Conns : c \in Framed \/ Clean(c, Len(got[c])) => AsSent(c)) => OnlyUndamaged
  BY DEF OnlyUndamaged
<1> QED BY <1>1, InStepAsSent, PTL

=============================================================================
