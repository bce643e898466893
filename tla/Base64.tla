------------------------------- MODULE Base64 -------------------------------
(***************************************************************************)
(* The base-64 coder of the web socket (SocketRocket/fbase64.c), which       *)
(* encodes the keys of the handshake.  A byte has 4 * U bits and a digit     *)
(* 3 * U, U being 2 in the code, so that three bytes are four digits.        *)
(***************************************************************************)
EXTENDS Integers, Sequences, SequencesExt

CONSTANTS U,
          ByteValues,      \* bytes of the data
          KeyLengths,      \* lengths of the data of a handshake: 16 and 20
          MaxData          \* bound: bytes of other data

VARIABLES b64    \* stage, data, the text, the size of its buffer, changed, and the result: ok, bytes, highest index written

Digits == 0 .. 2 ^ (3 * U) - 1
Pad64 == 2 ^ (3 * U)            \* '='
Space == 2 ^ (3 * U) + 1
Other == 2 ^ (3 * U) + 2        \* a character that is not in Base64
Chars == Digits \cup {Pad64, Space, Other}

P(k) == 2 ^ (k * U)
Output(i0, i1, i2) ==
    <<i0 \div P(1), (i0 % P(1)) * P(2) + (i1 \div P(2)), (i1 % P(2)) * P(1) + (i2 \div P(3)), i2 % P(3)>>

Quantum(d, k) == Output(d[3 * k - 2], d[3 * k - 1], d[3 * k])
Whole(d) == FlattenSeq([k \in 1 .. Len(d) \div 3 |-> Quantum(d, k)])
RestOnePad(d) ==
    IF Len(d) % 3 = 0 THEN <<>>
    ELSE SubSeq(Output(d[Len(d) - (Len(d) % 3) + 1], IF Len(d) % 3 = 2 THEN d[Len(d)] ELSE 0, 0), 1, 3) \o <<Pad64>>
Rest(d) ==
    CASE Len(d) % 3 = 0 -> <<>>
      [] Len(d) % 3 = 1 -> SubSeq(Output(d[Len(d)], 0, 0), 1, 2) \o <<Pad64, Pad64>>
      [] Len(d) % 3 = 2 -> SubSeq(Output(d[Len(d) - 1], d[Len(d)], 0), 1, 3) \o <<Pad64>>

\* One character more than the text: the zero at its end.
f_b64_ntop(d, targsize) == IF Len(Whole(d) \o Rest(d)) >= targsize THEN <<>> ELSE Whole(d) \o Rest(d)

\* The buffer of newSHA1String and base64EncodedStringFromData.
BufferNoTail(n) == (n * 3) \div 2
Buffer(n) == (n * 3 + 2) \div 2

-----------------------------------------------------------------------------
\* Decoder: state, tarindex, the bytes of target (index 0 first), the highest index written, where it is in the text.
Start == [state |-> 0, tarindex |-> 0, target |-> [i \in 0 .. MaxData + 3 |-> 0], wrote |-> -1, ok |-> TRUE]
Fail(d) == [d EXCEPT !.ok = FALSE]

\* The bytes a digit touches: the current one, and the next when bits are left over.
NeedsOfState(d) == IF d.state = 1 THEN d.tarindex + 1 ELSE d.tarindex
Needs(d) == IF d.state \in {1, 2} THEN d.tarindex + 1 ELSE d.tarindex

High(d, c) == c \div P(CASE d.state = 1 -> 2 [] d.state = 2 -> 1 [] d.state = 3 -> 0)
Low(d, c) == IF d.state = 1 THEN (c % P(2)) * P(2) ELSE (c % P(1)) * P(3)
Stored(d, c) ==
    CASE d.state = 0 -> [d.target EXCEPT ![d.tarindex] = c * P(1)]
      [] d.state \in {1, 2} -> [d.target EXCEPT ![d.tarindex] = @ + High(d, c), ![d.tarindex + 1] = Low(d, c)]
      [] d.state = 3 -> [d.target EXCEPT ![d.tarindex] = @ + c]
Digit(d, c, targsize) ==
    IF Needs(d) >= targsize THEN Fail(d)
    ELSE [d EXCEPT !.target = Stored(d, c), !.state = (@ + 1) % 4, !.tarindex = IF d.state = 0 THEN @ ELSE @ + 1,
                   !.wrote = IF d.state \in {1, 2} THEN d.tarindex + 1 ELSE d.tarindex]

\* One character before the first pad.
Character(d, c, targsize) ==
    IF ~d.ok \/ c = Space THEN d ELSE IF c \in Digits THEN Digit(d, c, targsize) ELSE Fail(d)

FirstPad(t) == SelectInSeq(t, LAMBDA c : c = Pad64)
Body(t) == IF FirstPad(t) = 0 THEN t ELSE SubSeq(t, 1, FirstPad(t) - 1)
Tail64(t) == SelectSeq(SubSeq(t, FirstPad(t) + 1, Len(t)), LAMBDA c : c # Space)

\* After the pad: a second one where one byte is meant, then spaces, and no bits left over.
PadsMissing(d) == CASE d.state = 2 -> <<Pad64>> [] d.state = 3 -> <<>> [] d.state \in {0, 1} -> <<Space>>   \* no pad may be here
PaddedAnyBits(d, t) == IF Tail64(t) = PadsMissing(d) THEN d ELSE Fail(d)
Padded(d, t) == IF Tail64(t) = PadsMissing(d) /\ d.target[d.tarindex] = 0 THEN d ELSE Fail(d)

Ended(d, t) ==
    IF ~d.ok THEN d
    ELSE IF FirstPad(t) # 0 THEN Padded(d, t)
    ELSE IF d.state # 0 THEN Fail(d) ELSE d

f_b64_pton(t, targsize) == Ended(FoldLeft(LAMBDA d, c : Character(d, c, targsize), Start, Body(t)), t)
Result(d) == [i \in 1 .. d.tarindex |-> d.target[i - 1]]

-----------------------------------------------------------------------------
Init ==
    \E d \in SeqOf(ByteValues, MaxData) \cup {[i \in 1 .. n |-> 0] : n \in KeyLengths} :
        b64 = [stage |-> "data", data |-> d, text |-> <<>>, size |-> 0, changed |-> "no", result |-> Start]

Encode(size) ==
    /\ b64.stage = "data"
    /\ b64' = [b64 EXCEPT !.stage = "text", !.size = size, !.text = f_b64_ntop(b64.data, size)]

Changeable == b64.stage = "text" /\ b64.text # <<>> /\ b64.changed = "no" /\ Len(b64.data) <= MaxData

\* White space anywhere.
InsertSpace(i) ==
    /\ Changeable
    /\ b64' = [b64 EXCEPT !.changed = "spaced", !.text = InsertAt(@, i, Space)]

\* A text that is not from the encoder.
Change(i, c) ==
    /\ Changeable
    /\ b64' = [b64 EXCEPT !.changed = "text", !.text = [@ EXCEPT ![i] = c]]

Decode(targsize) ==
    /\ b64.stage = "text" /\ b64.text # <<>> /\ Len(b64.data) <= MaxData
    /\ b64' = [b64 EXCEPT !.stage = "bytes", !.size = targsize, !.result = f_b64_pton(b64.text, targsize)]

Next ==
    \/ \E size \in {Buffer(Len(b64.data)), 4 * Len(b64.data) + 1} : Encode(size)
    \/ \E i \in 1 .. Len(b64.text) : InsertSpace(i) \/ \E c \in Chars : Change(i, c)
    \/ \E extra \in {0, 1} : Decode(Len(b64.data) + extra)

Spec == Init /\ [][Next]_b64

-----------------------------------------------------------------------------
(* Texts are characters.                                                    *)
TypeOK == \A i \in 1 .. Len(b64.text) : b64.text[i] \in Chars

(* What was encoded is read back, with white space at any place, by a caller *)
(* that has a byte more than the data: the decoder puts the bits left over   *)
(* of the last digit into it.                                                *)
TextReadBack ==
    b64.stage = "bytes" /\ b64.changed # "text" /\ b64.size > Len(b64.data) =>
        b64.result.ok /\ Result(b64.result) = b64.data

(* A text that is accepted is, but for its white space, the one the encoder  *)
(* writes for what it is read as: no two texts mean the same bytes, and no   *)
(* bits hide in the padding.                                                 *)
OneTextEach ==
    b64.stage = "bytes" /\ b64.result.ok =>
        SelectSeq(b64.text, LAMBDA c : c # Space) = f_b64_ntop(Result(b64.result), 4 * Len(b64.text) + 5)

(* No byte is written at or past the end of the target, whatever the text.   *)
TargetHeld == b64.stage = "bytes" => b64.result.wrote < b64.size

(* The key of the handshake and the answer expected to it fit the buffers    *)
(* their callers make for them, the first with no character to spare.        *)
HandshakeEncodes == b64.stage = "text" /\ Len(b64.data) \in KeyLengths => b64.text # <<>>
=============================================================================
