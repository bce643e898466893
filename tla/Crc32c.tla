------------------------------- MODULE Crc32c -------------------------------
(***************************************************************************)
(* The checksum of logs and tables (leveldb util/crc32c.cc, crc32c.h): the   *)
(* portable Extend with its four strides, and the mask of stored checksums.  *)
(* A byte has ByteBits bits and a word four bytes, as in the code; a record  *)
(* is checksummed in two pieces that start at any alignment, stored with its *)
(* checksum, and read back with or without damage.                           *)
(***************************************************************************)
EXTENDS Integers, Sequences, SequencesExt, Bitwise

CONSTANTS ByteBits,
          kPoly,          \* the reflected polynomial, 0x82f63b78 in the code
          kMaskDelta,
          MaskShift,      \* 15
          RecordLengths,        \* of records
          CutsAt,         \* where a record is cut into two calls of Extend
          Changes         \* nonzero words a damaged word is xored with

VARIABLES
    tables,   \* kByteExtensionTable (byte) and kStrideExtensionTable0 to 3 (stride)
    record    \* its bytes, where it starts modulo 4, done so far (at), crc, stored, damaged, verdict

B == 2 ^ ByteBits
Bytes == 0 .. B - 1
Width == 4 * ByteBits
kCRC32Xor == 2 ^ Width - 1

\* What one byte does to the register, bit by bit: the definition of the code.
ShiftedBit(x) == IF x % 2 = 1 THEN (x \div 2) ^^ kPoly ELSE x \div 2
Times(Op(_), x, n) == FoldLeft(LAMBDA y, i : Op(y), x, [i \in 1 .. n |-> i])

\* What the bits of a byte do, and what a byte of the register, by its place, is sixteen bytes later.
kByteExtensionTable == [c \in Bytes |-> Times(ShiftedBit, c, ByteBits)]
SlowStep(l, b) == kByteExtensionTable[(l % B) ^^ b] ^^ (l \div B)
StrideEntry(j, c) == Times(LAMBDA l : SlowStep(l, 0), c * B ^ (3 - j), 16)
kStrideExtensionTable == [j \in 0 .. 3 |-> [c \in Bytes |-> StrideEntry(j, c)]]

STEP1(l, b) == tables.byte[(l % B) ^^ b] ^^ (l \div B)
Skip1(l) == STEP1(l, 0)

\* The word at index p, counted from 0.
ReadUint32LE(d, p) == d[p + 1] + B * d[p + 2] + B * B * d[p + 3] + B * B * B * d[p + 4]

STEP4(c, w) ==
    w ^^ ((tables.stride[3][c % B] ^^ tables.stride[2][(c \div B) % B])
            ^^ (tables.stride[1][(c \div (B * B)) % B] ^^ tables.stride[0][c \div (B * B * B)]))

STEP16(lanes, d, p) == [s \in 1 .. 4 |-> STEP4(lanes[s], ReadUint32LE(d, p + 4 * (s - 1)))]

STEP4W(l, w) == Times(Skip1, w ^^ l, 4)

\* One byte at a time.
Slowly(l, d) == FoldLeft(STEP1, l, d)

Load(l, d) == [s \in 1 .. 4 |-> ReadUint32LE(d, 4 * (s - 1)) ^^ (IF s = 1 THEN l ELSE 0)]
Swaths(lanes, d) == FoldLeft(LAMBDA c, i : STEP16(c, d, 16 * i), lanes, [i \in 1 .. (Len(d) \div 16) - 1 |-> i])
\* One word at a time: the lanes take turns.
RotateOther(c, w) == <<c[4], c[1], c[2], STEP4(c[3], w)>>
Rotate(c, w) == <<c[2], c[3], c[4], STEP4(c[1], w)>>

Words(lanes, d) ==
    FoldLeft(LAMBDA c, i : Rotate(c, ReadUint32LE(d, 16 * (Len(d) \div 16) + 4 * (i - 1))), lanes,
             [i \in 1 .. (Len(d) % 16) \div 4 |-> i])
Combine(lanes) == FoldLeft(STEP4W, 0, lanes)

Aligned(l, d) ==
    IF Len(d) < 16 THEN Slowly(l, d)
    ELSE Slowly(Combine(Words(Swaths(Load(l, d), d), d)), SubSeq(d, 4 * (Len(d) \div 4) + 1, Len(d)))

RoundUp(address) == (4 - (address % 4)) % 4
\* Bytes before the first aligned one, none when that is past the end.
Prologue(d, address) == IF RoundUp(address) <= Len(d) THEN RoundUp(address) ELSE 0

\* The crc32c library is not compiled in: port's function returns 0, which is not the checksum of the test buffer.
AcceleratedCRC32C(crc, d) == 0
CanAccelerateCRC32C(testBuffer, testValue) == AcceleratedCRC32C(0, testBuffer) = testValue

Portable(crc, d, address) ==
    kCRC32Xor ^^ Aligned(Slowly(crc ^^ kCRC32Xor, SubSeq(d, 1, Prologue(d, address))),
                         SubSeq(d, Prologue(d, address) + 1, Len(d)))

\* 0xdcbc59fa in the code; any value but 0 here
kTestCRCValue == 1
Extend(crc, d, address) ==
    IF CanAccelerateCRC32C(<<1>>, kTestCRCValue) THEN AcceleratedCRC32C(crc, d) ELSE Portable(crc, d, address)

Rotated(x, k) == (x \div 2 ^ k) + (x % 2 ^ k) * 2 ^ (Width - k)
MaskOtherWay(crc) == (Rotated(crc, Width - MaskShift) + kMaskDelta) % 2 ^ Width
Mask(crc) == (Rotated(crc, MaskShift) + kMaskDelta) % 2 ^ Width

Unmask(masked) == Rotated(((masked - kMaskDelta) + 2 ^ Width) % 2 ^ Width, Width - MaskShift)

-----------------------------------------------------------------------------
\* Extend is affine in the data: records with one bit that is not zero, and none, stand for all.
OneBit(n) == {[i \in 1 .. n |-> IF i = k THEN 2 ^ b ELSE 0] : k \in 1 .. n, b \in 0 .. ByteBits - 1}

Init ==
    /\ tables = [byte |-> kByteExtensionTable, stride |-> kStrideExtensionTable]
    /\ \E n \in RecordLengths : \E d \in OneBit(n) \cup {[i \in 1 .. n |-> 0]}, start \in 0 .. 3 :
           record = [data |-> d, start |-> start, at |-> 0, crc |-> 0, stored |-> 0, damaged |-> FALSE, verdict |-> "none"]

\* One call of Extend for the type and one for the payload, as log::Writer does, or one for all.
ExtendBy(n) ==
    /\ record.verdict = "none" /\ record.at < Len(record.data) /\ n <= Len(record.data)
    /\ n > record.at
    /\ UNCHANGED tables
    /\ record' = [record EXCEPT !.at = n, !.crc = Extend(@, SubSeq(record.data, record.at + 1, n), record.start + record.at)]

Store ==
    /\ record.at = Len(record.data) /\ record.verdict = "none"
    /\ UNCHANGED tables
    /\ record' = [record EXCEPT !.stored = Mask(record.crc), !.verdict = "stored"]

\* Four bytes in a row are changed: no more bits than the checksum has.
Damage(p, w) ==
    /\ record.verdict = "stored" /\ ~record.damaged /\ record.start = 0 /\ p + 4 <= Len(record.data)
    /\ UNCHANGED tables
    /\ record' = [record EXCEPT !.damaged = TRUE,
                                !.data = [i \in DOMAIN @ |-> IF i \in p + 1 .. p + 4 THEN @[i] ^^ ((w \div B ^ (i - p - 1)) % B) ELSE @[i]]]

\* Reader: Unmask(stored) == Value(data).
Check ==
    /\ record.verdict = "stored"
    /\ UNCHANGED tables
    /\ record' = [record EXCEPT !.verdict = IF Unmask(record.stored) = Extend(0, record.data, record.start) THEN "good" ELSE "bad"]

Next ==
    \/ \E n \in CutsAt \cup {Len(record.data)} : ExtendBy(n)
    \/ Store \/ Check
    \/ \E p \in 0 .. Len(record.data), w \in Changes : Damage(p, w)

Spec == Init /\ [][Next]_<<tables, record>>

-----------------------------------------------------------------------------
(* The register and the stored checksum are words.                          *)
TypeOK == record.crc \in 0 .. kCRC32Xor /\ record.stored \in 0 .. kCRC32Xor

(* After every call of Extend the checksum is the one that the definition,   *)
(* one bit after the other, gives for the bytes so far: the strides, their   *)
(* order, the words left over and every alignment change nothing.            *)
ExtendExact == record.verdict = "none" => record.crc = kCRC32Xor ^^ FoldLeft(SlowStep, kCRC32Xor, SubSeq(record.data, 1, record.at))

(* A stored checksum is good for its record and for no record that differs   *)
(* from it within four bytes.                                                *)
DamageSeen == record.verdict \in {"good", "bad"} => (record.verdict = "bad") = record.damaged
=============================================================================
