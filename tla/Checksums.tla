----------------------------- MODULE Checksums ------------------------------
(***************************************************************************)
(* The checksums of the protocol (crc/crc.go): CRC-8 of a header, CRC-16   *)
(* of the data, both driven by a table with an entry for every byte, most  *)
(* significant bit first, without reflection or a final XOR. A 16 bit      *)
(* register is the pair of its high and its low byte.                      *)
(***************************************************************************)
EXTENDS Integers, Sequences

\* Tables over all bytes are sequences, computed once; byte n is at n + 1.
Table(Op(_)) == SubSeq([n \in 1..256 |-> Op(n - 1)], 1, 256)

\* Exclusive or, one bit after the other.
XorBit(a, b, w) == w * (((a \div w) + (b \div w)) % 2)
XorBits(a, b) ==
    XorBit(a, b, 128) + XorBit(a, b, 64) + XorBit(a, b, 32) + XorBit(a, b, 16)
        + XorBit(a, b, 8) + XorBit(a, b, 4) + XorBit(a, b, 2) + XorBit(a, b, 1)
XorTable == Table(LAMBDA a : Table(LAMBDA b : XorBits(a, b)))
XorByte(a, b) == XorTable[a + 1][b + 1]
XorWords(x, y) == <<XorByte(x[1], y[1]), XorByte(x[2], y[2])>>

\* MakeTable: the register that holds the byte is shifted eight times, and reduced
\* by the polynomial whenever a bit falls out.
Shift8(r) == IF r >= 128 THEN XorByte((2 * r) % 256, 49) ELSE 2 * r
Shift16(r) ==
    LET twice == <<((2 * r[1]) % 256) + (r[2] \div 128), (2 * r[2]) % 256>>
    IN IF r[1] >= 128 THEN XorWords(twice, <<16, 33>>) ELSE twice
Four8(r) == Shift8(Shift8(Shift8(Shift8(r))))
Four16(r) == Shift16(Shift16(Shift16(Shift16(r))))
Table8 == Table(LAMBDA n : Four8(Four8(n)))
Table16 == Table(LAMBDA n : Four16(Four16(<<n, 0>>)))

\* Checksum: from all ones, one byte after the other. What the bytes from the first, the
\* second, and so on make of a register is a function of the register.
Byte == 0..255
Next8(r, byte) == Table8[1 + XorByte(r, byte)]
Next16(r, byte) == XorWords(<<r[2], 0>>, Table16[1 + XorByte(r[1], byte)])
Update8(bytes) ==
    LET from[i \in 1..Len(bytes) + 1] ==
            [r \in Byte |-> IF i > Len(bytes) THEN r ELSE from[i + 1][Next8(r, bytes[i])]]
    IN from[1]
Update16(bytes) ==
    LET from[i \in 1..Len(bytes) + 1] ==
            [r \in Byte \X Byte |-> IF i > Len(bytes) THEN r ELSE from[i + 1][Next16(r, bytes[i])]]
    IN from[1]
Crc8(bytes) == Update8(bytes)[255]
Crc16(bytes) == Update16(bytes)[<<255, 255>>]

\* The check values of crc.go: the sums of the characters "123456789".
ASSUME ChecksumCheck ==
    LET digits == [i \in 1..9 |-> 48 + i] IN Crc8(digits) = 247 /\ Crc16(digits) = <<41, 177>>

=============================================================================
