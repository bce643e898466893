-------------------------------- MODULE Codec --------------------------------
(***************************************************************************)
(* What leveldb writes into its files byte by byte: numbers and slices      *)
(* (coding.cc), version edits (the records of the MANIFEST), write batches  *)
(* (the records of the log) and file names.  Something is encoded, its      *)
(* bytes are cut short or one of them is changed, and it is decoded.        *)
(*                                                                          *)
(* A byte has GroupBits bits of a varint and the bit that says that more    *)
(* follow; 7 and 8 in the code.                                             *)
(***************************************************************************)
EXTENDS Integers, Sequences, FiniteSetsExt, SequencesExt

CONSTANTS GroupBits,
          Width32, Width64,      \* bits of uint32_t and uint64_t
          kNumLevels,
          NameDigits,                \* digits of %06llu; the base of numbers in names is Ten
          Ten,
          LookupSpace            \* sizeof(space_) of a LookupKey, 200 in the code

VARIABLES wire   \* stage, what is encoded (kind, sent), its bytes, what was done to them, the result

B == 2 ^ GroupBits
Bytes == 0 .. 2 * B - 1
Max32 == 2 ^ Width32 - 1
Max64 == 2 ^ Width64 - 1

-----------------------------------------------------------------------------
(* coding.cc.                                                               *)
PutFixed(v, size) == [i \in 1 .. size |-> (v \div (2 * B) ^ (i - 1)) % (2 * B)]
DecodeFixed(bytes) == FoldRight(LAMBDA b, v : b + 2 * B * v, bytes, 0)
Fixed(width) == (width + GroupBits) \div (GroupBits + 1)

RECURSIVE PutVarint(_)
PutVarint(v) == IF v < B THEN <<v>> ELSE <<(v % B) + B>> \o PutVarint(v \div B)

RECURSIVE VarintLength(_)
VarintLength(v) == IF v < B THEN 1 ELSE 1 + VarintLength(v \div B)

PutLengthPrefixedSlice(s) == PutVarint(Len(s)) \o s

Failed == [ok |-> FALSE]
Got(v, rest) == [ok |-> TRUE, v |-> v, rest |-> rest]

\* a byte too many is read for the last group
RECURSIVE GetGroupsLong(_, _, _, _)
GetGroupsLong(s, shift, width, v) ==
    IF shift > width \/ s = << >> THEN Failed
    ELSE IF s[1] >= B THEN GetGroupsLong(Tail(s), shift + GroupBits, width, v + (s[1] % B) * 2 ^ shift)
    ELSE Got((v + s[1] * 2 ^ shift), Tail(s))

\* bits beyond the width are lost
RECURSIVE GetGroups(_, _, _, _)
GetGroups(s, shift, width, v) ==
    IF shift >= width \/ s = << >> THEN Failed
    ELSE IF s[1] >= B THEN GetGroups(Tail(s), shift + GroupBits, width, v + (s[1] % B) * 2 ^ shift)
    ELSE Got((v + s[1] * 2 ^ shift) % 2 ^ width, Tail(s))

GetVarint32(s) == GetGroups(s, 0, Width32, 0)
GetVarint64(s) == GetGroups(s, 0, Width64, 0)

SliceOf(r) ==
    IF r.ok /\ Len(r.rest) >= r.v THEN Got(SubSeq(r.rest, 1, r.v), SubSeq(r.rest, r.v + 1, Len(r.rest)))
    ELSE Failed
GetLengthPrefixedSlice(s) == SliceOf(GetVarint32(s))

-----------------------------------------------------------------------------
(* version_edit.cc.  A field that is not set is None.                       *)
None == -1
NoName == <<None>>
NoEdit == [comparator |-> NoName, log |-> None, prev |-> None, next |-> None, last |-> None,
           pointers |-> << >>, deleted |-> {}, new |-> << >>]

kComparator == 1
kLogNumber == 2
kNextFileNumber == 3
kLastSequence == 4
kCompactPointer == 5
kDeletedFile == 6
kNewFile == 7
kPrevLogNumber == 9

PutField(tag, v) == IF v = None THEN << >> ELSE PutVarint(tag) \o PutVarint(v)

\* the set is written in its order, by level and number
InOrder(deleted) == SetToSortSeq(deleted, LAMBDA a, b : a[1] < b[1] \/ (a[1] = b[1] /\ a[2] < b[2]))

EncodeTo(e) ==
    (IF e.comparator = NoName THEN << >> ELSE PutVarint(kComparator) \o PutLengthPrefixedSlice(e.comparator))
    \o PutField(kLogNumber, e.log) \o PutField(kPrevLogNumber, e.prev)
    \o PutField(kNextFileNumber, e.next) \o PutField(kLastSequence, e.last)
    \o FlattenSeq([i \in 1 .. Len(e.pointers) |->
          PutVarint(kCompactPointer) \o PutVarint(e.pointers[i][1]) \o PutLengthPrefixedSlice(e.pointers[i][2])])
    \o FlattenSeq([i \in 1 .. Cardinality(e.deleted) |->
          PutVarint(kDeletedFile) \o PutVarint(InOrder(e.deleted)[i][1]) \o PutVarint(InOrder(e.deleted)[i][2])])
    \o FlattenSeq([i \in 1 .. Len(e.new) |->
          PutVarint(kNewFile) \o PutVarint(e.new[i].level) \o PutVarint(e.new[i].number) \o PutVarint(e.new[i].size)
          \o PutLengthPrefixedSlice(e.new[i].smallest) \o PutLengthPrefixedSlice(e.new[i].largest)])

\* everything, the compaction pointers too, as one would expect
ClearAll(e) == NoEdit

\* Clear leaves the compaction pointers
Clear(e) == [NoEdit EXCEPT !.pointers = e.pointers]

\* any number is a level
LevelAny(r) == r

LevelOf(r) == IF r.ok /\ r.v < kNumLevels THEN r ELSE Failed

GetLevel(s) == LevelOf(GetVarint32(s))
\* an InternalKey that is empty is taken like any other
GetInternalKey(s) == GetLengthPrefixedSlice(s)

\* what the tag calls for, one after the other
Parsers == [comparator |-> <<"slice">>, number |-> <<"n64">>, pointer |-> <<"level", "slice">>,
            deleted |-> <<"level", "n64">>, new |-> <<"level", "n64", "n64", "slice", "slice">>]

Parse1(kind, s) ==
    CASE kind = "slice" -> GetInternalKey(s) [] kind = "n64" -> GetVarint64(s) [] kind = "level" -> GetLevel(s)

\* && stops at the first that fails
RECURSIVE ParseAll(_, _)
ParseTail(kinds, r) ==
    IF ~r.ok THEN Failed
    ELSE IF Len(kinds) = 1 THEN Got(<<r.v>>, r.rest)
    ELSE LET t == ParseAll(Tail(kinds), r.rest) IN IF t.ok THEN Got(<<r.v>> \o t.v, t.rest) ELSE Failed
ParseAll(kinds, s) == ParseTail(kinds, Parse1(Head(kinds), s))

KindOf(tag) ==
    CASE tag = kComparator -> "comparator"
      [] tag \in {kLogNumber, kPrevLogNumber, kNextFileNumber, kLastSequence} -> "number"
      [] tag = kCompactPointer -> "pointer" [] tag = kDeletedFile -> "deleted" [] tag = kNewFile -> "new"
      [] OTHER -> "unknown"

Set(e, tag, v) ==
    CASE tag = kComparator -> [e EXCEPT !.comparator = v[1]]
      [] tag = kLogNumber -> [e EXCEPT !.log = v[1]]
      [] tag = kPrevLogNumber -> [e EXCEPT !.prev = v[1]]
      [] tag = kNextFileNumber -> [e EXCEPT !.next = v[1]]
      [] tag = kLastSequence -> [e EXCEPT !.last = v[1]]
      [] tag = kCompactPointer -> [e EXCEPT !.pointers = Append(@, v)]
      [] tag = kDeletedFile -> [e EXCEPT !.deleted = @ \cup {v}]
      [] tag = kNewFile -> [e EXCEPT !.new = Append(@, [level |-> v[1], number |-> v[2], size |-> v[3],
                                                        smallest |-> v[4], largest |-> v[5]])]

\* the loop ends where no tag can be read; that must be the end of the input
RECURSIVE DecodeFields(_, _)
DecodeValue(e, tag, r) == IF r.ok THEN DecodeFields(Set(e, tag, r.v), r.rest) ELSE Failed
\* bytes that are no tag are passed over at the end
DecodeTagQuiet(e, s, t) ==
    IF ~t.ok THEN [ok |-> TRUE, v |-> e]
    ELSE IF KindOf(t.v) = "unknown" THEN Failed
    ELSE DecodeValue(e, t.v, ParseAll(Parsers[KindOf(t.v)], t.rest))

DecodeTag(e, s, t) ==
    IF ~t.ok THEN (IF s = << >> THEN [ok |-> TRUE, v |-> e] ELSE Failed)
    ELSE IF KindOf(t.v) = "unknown" THEN Failed
    ELSE DecodeValue(e, t.v, ParseAll(Parsers[KindOf(t.v)], t.rest))

DecodeFields(e, s) == DecodeTag(e, s, GetVarint32(s))

DecodeFrom(old, s) == DecodeFields(Clear(old), s)

-----------------------------------------------------------------------------
(* write_batch.cc.                                                          *)
kTypeDeletion == 0
kTypeValue == 1
kHeader == Fixed(Width64) + Fixed(Width32)
Count(rep) == DecodeFixed(SubSeq(rep, Fixed(Width64) + 1, kHeader))
Sequence(rep) == DecodeFixed(SubSeq(rep, 1, Fixed(Width64)))
Contents(rep) == SubSeq(rep, kHeader + 1, Len(rep))
WithHeader(seq, count, contents) == PutFixed(seq, Fixed(Width64)) \o PutFixed(count, Fixed(Width32)) \o contents

EmptyBatch == WithHeader(0, 0, << >>)
SetSequence(rep, seq) == WithHeader(seq, Count(rep), Contents(rep))
Put(rep, key, value) ==
    WithHeader(Sequence(rep), Count(rep) + 1,
               Contents(rep) \o <<kTypeValue>> \o PutLengthPrefixedSlice(key) \o PutLengthPrefixedSlice(value))
Delete(rep, key) ==
    WithHeader(Sequence(rep), Count(rep) + 1, Contents(rep) \o <<kTypeDeletion>> \o PutLengthPrefixedSlice(key))

AppendBatch(dst, src) == WithHeader(Sequence(dst), Count(dst) + Count(src), Contents(dst) \o Contents(src))

Batch(ops) ==
    FoldLeft(LAMBDA rep, op : IF op.type = kTypeValue THEN Put(rep, op.key, op.value) ELSE Delete(rep, op.key),
             EmptyBatch, ops)

\* the handler is called for each record as it is read; errors are found later
RECURSIVE IterateRecords(_, _)
PutRead(done, key, value) ==
    IF value.ok THEN IterateRecords(Append(done, [type |-> kTypeValue, key |-> key, value |-> value.v]), value.rest)
    ELSE [ok |-> FALSE, ops |-> done]
KeyRead(done, tag, key) ==
    IF ~key.ok THEN [ok |-> FALSE, ops |-> done]
    ELSE IF tag = kTypeValue THEN PutRead(done, key.v, GetLengthPrefixedSlice(key.rest))
    ELSE IterateRecords(Append(done, [type |-> kTypeDeletion, key |-> key.v, value |-> << >>]), key.rest)
IterateRecords(done, s) ==
    IF s = << >> THEN [ok |-> TRUE, ops |-> done]
    ELSE IF s[1] \notin {kTypeValue, kTypeDeletion} THEN [ok |-> FALSE, ops |-> done]
    ELSE KeyRead(done, s[1], GetLengthPrefixedSlice(Tail(s)))

\* the number of records is not compared
CountedAny(rep, r) == r

Counted(rep, r) == IF Len(r.ops) = Count(rep) THEN r ELSE [r EXCEPT !.ok = FALSE]

Iterate(rep) == IF Len(rep) < kHeader THEN [ok |-> FALSE, ops |-> << >>] ELSE Counted(rep, IterateRecords(<< >>, Contents(rep)))

\* MemTableInserter counts up from the sequence number of the batch
InsertInto(rep, r) ==
    [ok |-> r.ok, v |-> [i \in 1 .. Len(r.ops) |-> [seq |-> Sequence(rep) + i - 1, op |-> r.ops[i]]]]

-----------------------------------------------------------------------------
(* dbformat: the key a memtable is searched for, built in space_ or on the  *)
(* heap.                                                                    *)
TagSize == Fixed(Width64)
PackSequenceAndType(seq, type) == seq * 2 * B + type
InternalKey(user, seq, type) == user \o PutFixed(PackSequenceAndType(seq, type), TagSize)

\* usize + 13: the longest varint32 and the tag
Needed(usize) == usize + (Width32 + GroupBits - 1) \div GroupBits + TagSize

\* room for the user key and the tag, with one byte for the length
AllocatedShort(usize) == IF usize + 1 + TagSize <= LookupSpace THEN LookupSpace ELSE usize + 1 + TagSize

Allocated(usize) == IF Needed(usize) <= LookupSpace THEN LookupSpace ELSE Needed(usize)

LookupKey(user, seq) == PutVarint(Len(user) + TagSize) \o InternalKey(user, seq, kTypeValue)

TagOf(num, user) == [ok |-> num % (2 * B) <= kTypeValue, user |-> user, seq |-> num \div (2 * B), type |-> num % (2 * B)]
ParseInternalKey(key) ==
    IF Len(key) < TagSize THEN Failed
    ELSE TagOf(DecodeFixed(SubSeq(key, Len(key) - TagSize + 1, Len(key))), SubSeq(key, 1, Len(key) - TagSize))
\* what the memtable reads of it
MemTableKey(r) == IF r.ok THEN ParseInternalKey(r.v) ELSE Failed

-----------------------------------------------------------------------------
(* filename.cc: a name is made of texts and digits.                         *)
Text(t) == <<"t", t>>
Digit(d) == <<"d", d>>

RECURSIVE Decimal(_, _)
Decimal(n, size) == IF n = 0 /\ size <= 0 THEN << >> ELSE Decimal(n \div Ten, size - 1) \o <<Digit(n % Ten)>>
Decimal6(n) == Decimal(n, NameDigits)

Numbered == [log |-> {".log"}, table |-> {".ldb", ".sst"}, temp |-> {".dbtmp"}]
Unnumbered == [current |-> {"CURRENT"}, lock |-> {"LOCK"}, info |-> {"LOG", "LOG.old"}]

FileNames(type, n) ==
    IF type \in DOMAIN Numbered THEN {Decimal6(n) \o <<Text(t)>> : t \in Numbered[type]}
    ELSE IF type = "descriptor" THEN {<<Text("MANIFEST-")>> \o Decimal6(n)}
    ELSE {<<Text(t)>> : t \in Unnumbered[type]}

\* the test for the last digit of the largest number is missing
OverflowsLoose(v, d) == v > Max64 \div Ten

Overflows(v, d) == v > Max64 \div Ten \/ (v = Max64 \div Ten /\ d > Max64 % Ten)

RECURSIVE ConsumeDigits(_, _)
ConsumeDigits(s, v) ==
    IF s = << >> \/ s[1][1] # "d" THEN Got(v, s)
    ELSE IF Overflows(v, s[1][2]) THEN Failed
    ELSE ConsumeDigits(Tail(s), (v * Ten + s[1][2]) % 2 ^ Width64)
ConsumeDecimalNumber(s) == IF s = << >> \/ s[1][1] # "d" THEN Failed ELSE ConsumeDigits(s, 0)

Suffixed(r) ==
    IF ~r.ok \/ Len(r.rest) # 1 THEN Failed
    ELSE LET types == {t \in DOMAIN Numbered : r.rest[1] \in {Text(x) : x \in Numbered[t]}}
         IN IF types = {} THEN Failed ELSE [ok |-> TRUE, v |-> <<CHOOSE t \in types : TRUE, r.v>>]
Described(r) == IF r.ok /\ r.rest = << >> THEN [ok |-> TRUE, v |-> <<"descriptor", r.v>>] ELSE Failed

ParseFileName(name) ==
    LET fixed == {t \in DOMAIN Unnumbered : \E x \in Unnumbered[t] : name = <<Text(x)>>}
    IN IF fixed # {} THEN [ok |-> TRUE, v |-> <<CHOOSE t \in fixed : TRUE, 0>>]
       ELSE IF name # << >> /\ name[1] = Text("MANIFEST-") THEN Described(ConsumeDecimalNumber(Tail(name)))
       ELSE Suffixed(ConsumeDecimalNumber(name))

-----------------------------------------------------------------------------
(* Inputs.                                                                  *)
\* byte strings used as keys, values and names
Slices == {<< >>, <<B + 1>>, <<0, 2 * B - 1, 1, 2>>}
Numbers == {0, B - 1, B, Max32, Max64}
Key0 == <<B + 1>>
NewFile(n, size) == [level |-> kNumLevels - 1, number |-> n, size |-> size, smallest |-> Key0, largest |-> << >>]

Edits ==
    [comparator : {NoName, Key0}, log : {None, Max64}, prev : {None}, next : {None, B}, last : {None},
     pointers : {<< >>, <<<<0, Key0>>, <<kNumLevels - 1, << >>>>>>}, deleted : {{}, {<<1, B>>, <<0, B + 1>>}},
     new : {<< >>, <<NewFile(B - 1, Max64)>>}]
    \cup {[NoEdit EXCEPT !.log = n, !.prev = m, !.last = n, !.next = m] : n, m \in Numbers}

Ops == [type : {kTypeValue}, key : Slices, value : Slices] \cup [type : {kTypeDeletion}, key : Slices, value : {<< >>}]

Sent(kind, what, bytes) ==
    /\ wire.stage = "new"
    /\ wire' = [stage |-> "sent", kind |-> kind, sent |-> what, bytes |-> bytes, done |-> "whole", result |-> Failed]

SendEdit == \E e \in Edits : Sent("edit", e, EncodeTo(e))
\* a group of two batches, given a sequence number as DBImpl::Write does
SendBatch ==
    \E a, b \in {<< >>} \cup {<<x>> : x \in Ops}, seq \in {0, Max64 - 2} :
        Sent("batch", [seq |-> seq, ops |-> a \o b], SetSequence(AppendBatch(Batch(a), Batch(b)), seq))
SendNumber ==
    \/ \E n \in 0 .. Max32 : Sent("n32", n, PutVarint(n))
    \/ \E n \in 0 .. Max64 : Sent("n64", n, PutVarint(n))
SendName ==
    \E type \in DOMAIN Numbered \cup DOMAIN Unnumbered \cup {"descriptor"}, n \in {1, Ten, Max64 \div Ten, Max64} :
        \E name \in FileNames(type, n) :
            Sent("name", <<type, IF type \in DOMAIN Unnumbered THEN 0 ELSE n>>, name)

\* stays in memory
SendLookup ==
    \E n \in 0 .. Max32 - TagSize, seq \in {0, (2 * B) ^ (TagSize - 1) - 1} :
        LET user == [i \in 1 .. n |-> i % (2 * B)]
        IN Sent("lookup", [user |-> user, seq |-> seq], LookupKey(user, seq))

OnDisk == wire.stage = "sent" /\ wire.done = "whole" /\ wire.kind # "lookup"
Cut ==
    /\ OnDisk
    /\ \E n \in 0 .. Len(wire.bytes) - 1 : wire' = [wire EXCEPT !.bytes = SubSeq(@, 1, n), !.done = "cut"]
Change ==
    /\ OnDisk
    /\ \E i \in 1 .. Len(wire.bytes), b \in IF wire.kind = "name" THEN {Digit(d) : d \in 0 .. Ten - 1} ELSE {0, B - 1, B, 2 * B - 1} :
          /\ b # wire.bytes[i]
          /\ wire' = [wire EXCEPT !.bytes[i] = b, !.done = "changed"]
\* one digit more
Lengthen ==
    /\ wire.stage = "sent" /\ wire.done = "whole" /\ wire.kind = "name"
    /\ \E i \in 0 .. Len(wire.bytes), d \in 0 .. Ten - 1 :
          wire' = [wire EXCEPT !.bytes = InsertAt(@, i + 1, Digit(d)), !.done = "changed"]

Decode ==
    /\ wire.stage = "sent"
    /\ wire' = [wire EXCEPT !.stage = "decoded",
                  !.result = CASE wire.kind = "edit" -> DecodeFrom(NoEdit, wire.bytes)
                               [] wire.kind = "batch" -> InsertInto(wire.bytes, Iterate(wire.bytes))
                               [] wire.kind = "n32" -> GetVarint32(wire.bytes)
                               [] wire.kind = "n64" -> GetVarint64(wire.bytes)
                               [] wire.kind = "name" -> ParseFileName(wire.bytes)
                               [] wire.kind = "lookup" -> MemTableKey(GetLengthPrefixedSlice(wire.bytes))]

\* the edit is used a second time
DecodeAgain ==
    /\ wire.stage = "decoded" /\ wire.kind = "edit" /\ wire.done = "whole" /\ wire.result.ok
    /\ wire' = [wire EXCEPT !.stage = "again", !.result = DecodeFrom(wire.result.v, wire.bytes)]

Init == wire = [stage |-> "new", kind |-> "none", sent |-> 0, bytes |-> << >>, done |-> "whole", result |-> Failed]
Next == SendEdit \/ SendBatch \/ SendNumber \/ SendName \/ SendLookup \/ Cut \/ Change \/ Lengthen \/ Decode \/ DecodeAgain
Spec == Init /\ [][Next]_wire

-----------------------------------------------------------------------------
TypeOK ==
    /\ wire.stage \in {"new", "sent", "decoded", "again"} /\ wire.done \in {"whole", "cut", "changed"}
    /\ wire.kind # "name" => \A i \in 1 .. Len(wire.bytes) : wire.bytes[i] \in Bytes

Decoded(kind, done) == wire.stage = "decoded" /\ wire.kind = kind /\ wire.done = done

(* A version edit reads back as it was written, and an edit that has been   *)
(* used keeps its compaction pointers when it is decoded into again: Clear  *)
(* does not touch them.                                                     *)
EditsReadBack ==
    /\ Decoded("edit", "whole") => wire.result = [ok |-> TRUE, v |-> wire.sent]
    /\ wire.stage = "again" =>
          wire.result = [ok |-> TRUE, v |-> [wire.sent EXCEPT !.pointers = @ \o @]]

(* A version edit that was cut short is refused, or was cut between two     *)
(* fields and reads as the fields before: never a field with a wrong value. *)
CutEditsTold == Decoded("edit", "cut") /\ wire.result.ok => EncodeTo(wire.result.v) = wire.bytes

(* Whatever happened to its bytes, the levels of an edit that is accepted   *)
(* exist and its numbers fit.                                               *)
EditsFit ==
    wire.stage = "decoded" /\ wire.kind = "edit" /\ wire.result.ok =>
        LET e == wire.result.v
        IN /\ \A i \in 1 .. Len(e.new) : e.new[i].level < kNumLevels /\ e.new[i].number <= Max64
           /\ \A d \in e.deleted : d[1] < kNumLevels
           /\ \A n \in {e.log, e.prev, e.next, e.last} : n <= Max64

(* The records of a group of batches are inserted in order, each with its   *)
(* own sequence number counted up from that of the group; a batch that was  *)
(* cut short is told, but the records before the cut have been inserted.    *)
BatchesReadBack ==
    wire.stage = "decoded" /\ wire.kind = "batch" /\ wire.done # "changed" =>
        /\ wire.result.ok <=> wire.done = "whole"
        /\ LET v == wire.result.v
           IN /\ wire.done = "whole" => Len(v) = Len(wire.sent.ops)
              /\ \A i \in 1 .. Len(v) : v[i] = [seq |-> wire.sent.seq + i - 1, op |-> wire.sent.ops[i]]

(* Varints of either width read back, with VarintLength bytes and none      *)
(* left; cut short they are refused, and changed they still fit.            *)
VarintsReadBack ==
    wire.stage = "decoded" /\ wire.kind \in {"n32", "n64"} =>
        /\ wire.done = "whole" => /\ wire.result = Got(wire.sent, << >>)
                                  /\ Len(wire.bytes) = VarintLength(wire.sent)
        /\ wire.done = "cut" => ~wire.result.ok
        /\ wire.result.ok => wire.result.v <= (IF wire.kind = "n32" THEN Max32 ELSE Max64)

(* A LookupKey of any length stays within the memory chosen for it before    *)
(* the length was encoded, and reads back as the user key and the sequence   *)
(* number it was made of, with the type that seeks before all others.        *)
LookupsFit ==
    wire.kind = "lookup" =>
        /\ Len(wire.bytes) <= Allocated(Len(wire.sent.user))
        /\ wire.stage = "decoded" =>
              wire.result = [ok |-> TRUE, user |-> wire.sent.user, seq |-> wire.sent.seq, type |-> kTypeValue]

\* the digits of a name, without bound
Value(name) == FoldLeft(LAMBDA v, x : IF x[1] = "d" THEN v * Ten + x[2] ELSE v, 0, name)

(* A file is recognised by its name with its own type and number, up to the *)
(* largest; and no name is taken for the file of another number: a number   *)
(* too large for 64 bits is refused.                                        *)
NamesParse ==
    wire.stage = "decoded" /\ wire.kind = "name" =>
        /\ wire.done = "whole" => wire.result = [ok |-> TRUE, v |-> wire.sent]
        /\ wire.result.ok => wire.result.v[2] = Value(wire.bytes)
=============================================================================
