-------------------------------- MODULE Nanopb --------------------------------
(***************************************************************************)
(* nanopb, by which GoogleDataTransport encodes the log requests it sends   *)
(* and decodes the response: one encoding, what becomes of it on the way,   *)
(* and one decoding.  A byte has Payload value bits and a continuation bit  *)
(* (7 and 1 in the code); widths are scaled with it so that the last byte   *)
(* of a varint has one bit left, as with 64 bits.  Allocation succeeds.     *)
(***************************************************************************)
EXTENDS Integers, Sequences, FiniteSetsExt, SequencesExt

VARIABLES
    pb    \* the message sent, its bytes, what was done to them, the result of decoding

Base == 8                                   \* 2^7
W8 == 4                                     \* 8
W32 == 10                                   \* 32
W64 == 16                                   \* 64
Fixed32 == 3                                \* bytes of a fixed32

PB_WT_VARINT == 0
PB_WT_64BIT == 1
PB_WT_STRING == 2
PB_WT_32BIT == 5

-----------------------------------------------------------------------------
(* Field descriptors: type, rule and allocation, data_size (bits of a       *)
(* number, bytes of a string), array_size, fields of a submessage, the tag  *)
(* under which a oneof is kept, the default value                           *)

PB_FIELD(tag, l, h, a, size, n, sub) ==
    [tag |-> tag, l |-> l, h |-> h, a |-> a, size |-> size, n |-> n, sub |-> sub, key |-> tag,
     default |-> 0]

Packable(f) == f.l \in {"varint", "uvarint", "svarint", "fixed32", "fixed64"}
Pointed(f) == f.a = "pointer"

\* enumerations
NetworkTypes == -1 .. 17
MobileSubtypes == (0 .. 19) \union {100}
ClientTypes == {0, 15}
QosTiers == 0 .. 4
ServiceTypes == (0 .. 3) \union (5 .. 24) \union (26 .. 35)
PodNames == 0 .. 2
DeploymentTypes == 0 .. 4

\* of every kind: a number, an enumeration, a boolean, bytes
Integer(tag, size) == PB_FIELD(tag, "varint", "optional", "static", size, 0, << >>)
UEnum(tag) == PB_FIELD(tag, "uvarint", "optional", "static", W32, 0, << >>)
Bool(tag) == Integer(tag, W8)
Blob(tag) == PB_FIELD(tag, "bytes", "optional", "pointer", 0, 0, << >>)
Message(tag, fields) == PB_FIELD(tag, "submessage", "optional", "static", 0, 0, fields)
Messages(tag, fields) == PB_FIELD(tag, "submessage", "repeated", "pointer", 0, 0, fields)

NetworkConnectionInfo == << [Integer(1, W32) EXCEPT !.default = Min(NetworkTypes)], UEnum(2) >>

LogEvent ==
    << Integer(1, W64), Blob(6), Integer(11, W32), PB_FIELD(15, "svarint", "optional", "static", W64, 0, << >>),
       Integer(17, W64), Message(23, NetworkConnectionInfo) >>

IosClientInfo == << Blob(3), Blob(4), Blob(5), Blob(6), Blob(7), Blob(8), Blob(11) >>
ClientInfo == << UEnum(1), Message(4, IosClientInfo) >>

LogRequest ==
    << Message(1, ClientInfo), Integer(2, W32), Messages(3, LogEvent), Integer(4, W64), Integer(8, W64), UEnum(9) >>

BatchedLogRequest == << Messages(1, LogRequest) >>

QosTierConfiguration == << UEnum(2), Integer(3, W32) >>
QosTiersOverride == << Messages(1, QosTierConfiguration), Integer(2, W64) >>
LogResponse == << Integer(1, W64), Message(3, QosTiersOverride) >>

\* FirebaseCore's diagnostics, sent in an event
ICoreConfiguration ==
    << UEnum(1), PB_FIELD(7, "uvarint", "repeated", "pointer", W32, 0, << >>), Blob(9), Blob(10), Blob(12),
       UEnum(16), Blob(18), Blob(19), UEnum(20), Integer(21, W32), Blob(22), Blob(24), Bool(25), Bool(26),
       Integer(27, W32), Blob(28), Bool(29), UEnum(30), Blob(31), Bool(33), Bool(36) >>

\* the kinds of fields that the messages above leave out
OtherKinds ==
    << PB_FIELD(1, "uvarint", "required", "static", W32, 0, << >>),
       PB_FIELD(2, "varint", "repeated", "static", W32, 2, << >>),
       [PB_FIELD(3, "string", "oneof", "pointer", 0, 0, << >>) EXCEPT !.key = 3],
       [PB_FIELD(4, "bytes", "oneof", "pointer", 0, 0, << >>) EXCEPT !.key = 3],
       PB_FIELD(5, "string", "singular", "static", 3, 0, << >>),
       PB_FIELD(6, "string", "repeated", "pointer", 0, 0, << >>) >>

FixedKinds ==
    << PB_FIELD(1, "fixed32", "fixed_count", "static", 0, 2, << >>),
       PB_FIELD(2, "svarint", "repeated", "pointer", W32, 0, << >>),
       PB_FIELD(3, "fixed_length_bytes", "required", "static", 2, 0, << >>),
       PB_FIELD(4, "submessage", "optional", "pointer", 0, 0, NetworkConnectionInfo),
       PB_FIELD(5, "fixed64", "optional", "static", 0, 0, << >>) >>

-----------------------------------------------------------------------------
(* Structures: key |-> cell.  Items of pointer type and strings are         *)
(* [p, v] with p the block allocated, 0 for NULL and for static ones        *)

IsText(f) == f.l \in {"bytes", "string", "fixed_length_bytes"}
Keys(fields) == { fields[i].key : i \in 1 .. Len(fields) }
ZeroText == [p |-> 0, v |-> << >>]

RECURSIVE pb_message_set_to_defaults(_)

DefaultItem(f) ==
    IF f.l = "submessage"
    THEN IF Pointed(f) THEN [p |-> 0, v |-> << >>] ELSE [p |-> 0, v |-> pb_message_set_to_defaults(f.sub)]
    ELSE IF IsText(f) THEN ZeroText ELSE f.default

pb_field_set_to_default(f) ==
    CASE f.h = "optional" -> [has |-> FALSE, v |-> DefaultItem(f)]
      [] f.h \in {"required", "singular"} -> [has |-> TRUE, v |-> DefaultItem(f)]
      [] f.h \in {"repeated", "fixed_count"} -> [p |-> 0, items |-> << >>]
      [] f.h = "oneof" -> [which |-> 0, v |-> ZeroText]

pb_message_set_to_defaults(fields) ==
    [k \in Keys(fields) |-> pb_field_set_to_default(fields[CHOOSE i \in 1 .. Len(fields) : fields[i].key = k])]

-----------------------------------------------------------------------------
(* Encoding.  s: bytes written, the buffer, max_size, sizing (no callback)  *)

Sizing == [n |-> 0, buf |-> << >>, max |-> 0, sizing |-> TRUE, ok |-> TRUE]
pb_ostream_from_buffer(size) == [Sizing EXCEPT !.max = size, !.sizing = FALSE]

pb_write_unchecked(s, bytes) ==
    [s EXCEPT !.n = @ + Len(bytes), !.buf = IF s.sizing THEN @ ELSE @ \o bytes]

pb_write(s, bytes) ==
    IF ~s.ok THEN s
    ELSE IF ~s.sizing /\ s.n + Len(bytes) > s.max THEN [s EXCEPT !.ok = FALSE]
    ELSE [s EXCEPT !.n = @ + Len(bytes), !.buf = IF s.sizing THEN @ ELSE @ \o bytes]

RECURSIVE Digits(_)
Digits(value) == IF value < Base THEN <<value>> ELSE <<Base + (value % Base)>> \o Digits(value \div Base)

pb_encode_varint(s, value) == pb_write(s, Digits(value))

pb_encode_svarint(s, value) == pb_encode_varint(s, IF value < 0 THEN -2 * value - 1 ELSE 2 * value)

\* little-endian
FixedBytes(value, n) == [i \in 1 .. n |-> (value \div (2 * Base)^(i - 1)) % (2 * Base)]

pb_encode_fixed32(s, value) == pb_write(s, FixedBytes(value, Fixed32))
pb_encode_fixed64(s, value) == pb_write(s, FixedBytes(value, 2 * Fixed32))

pb_encode_tag(s, wiretype, tag) == pb_encode_varint(s, tag * 8 + wiretype)

WireType(f) ==
    CASE f.l \in {"varint", "uvarint", "svarint"} -> PB_WT_VARINT
      [] f.l = "fixed32" -> PB_WT_32BIT
      [] f.l = "fixed64" -> PB_WT_64BIT
      [] OTHER -> PB_WT_STRING

pb_encode_tag_for_field(s, f) == pb_encode_tag(s, WireType(f), f.tag)

pb_encode_string(s, bytes) == pb_write(pb_encode_varint(s, Len(bytes)), bytes)

RECURSIVE pb_encode(_, _, _)

\* the body is written through a substream limited to the size found first
Written(s, sub, size) == [s EXCEPT !.n = @ + sub.n, !.buf = sub.buf, !.ok = sub.ok /\ sub.n = size]

WriteBody(s, fields, m, size) ==
    IF ~s.ok THEN s
    ELSE IF s.sizing THEN [s EXCEPT !.n = @ + size]
    ELSE IF s.n + size > s.max THEN [s EXCEPT !.ok = FALSE]
    ELSE Written(s, pb_encode([s EXCEPT !.n = 0, !.max = size], fields, m), size)

WriteSized(s, fields, m, size) == WriteBody(pb_encode_varint(s, size), fields, m, size)

pb_encode_submessage(s, fields, m) == WriteSized(s, fields, m, pb_encode(Sizing, fields, m).n)

\* PB_ENCODERS: what func is for the field's type
EncodeItem(s, f, item) ==
    CASE f.l = "varint" -> pb_encode_varint(s, item % 2^W64)
      [] f.l = "uvarint" -> pb_encode_varint(s, item)
      [] f.l = "svarint" -> pb_encode_svarint(s, item)
      [] f.l = "fixed32" -> pb_encode_fixed32(s, item)
      [] f.l = "fixed64" -> pb_encode_fixed64(s, item)
      [] f.l = "submessage" -> pb_encode_submessage(s, f.sub, item.v)
      [] OTHER -> pb_encode_string(s, item.v)

EncodeTagged(s, f, item) == EncodeItem(pb_encode_tag_for_field(s, f), f, item)

EncodeItems(s, f, items) == FoldLeft(LAMBDA t, item : EncodeItem(t, f, item), s, items)

EncodePacked(s, f, items, size) ==
    IF s.sizing THEN [pb_encode_varint(s, size) EXCEPT !.n = @ + size]
    ELSE EncodeItems(pb_encode_varint(s, size), f, items)

encode_array(s, f, items) ==
    IF items = << >> THEN s
    ELSE IF ~Pointed(f) /\ Len(items) > f.n THEN [s EXCEPT !.ok = FALSE]
    ELSE IF Packable(f)
         THEN EncodePacked(pb_encode_tag(s, PB_WT_STRING, f.tag), f, items,
                           CASE f.l = "fixed32" -> Fixed32 * Len(items) [] f.l = "fixed64" -> 2 * Fixed32 * Len(items)
                             [] OTHER -> EncodeItems(Sizing, f, items).n)
         ELSE FoldLeft(LAMBDA t, item : EncodeTagged(t, f, item), s, items)

pb_check_proto3_default_value(f, item) == IF IsText(f) THEN item.v = << >> ELSE item = 0

encode_basic_field(s, f, cell) ==
    CASE f.h = "required" -> EncodeTagged(s, f, cell.v)
      [] f.h = "optional" -> IF (IF Pointed(f) THEN cell.v.p # 0 ELSE cell.has) THEN EncodeTagged(s, f, cell.v) ELSE s
      [] f.h = "singular" -> IF pb_check_proto3_default_value(f, cell.v) THEN s ELSE EncodeTagged(s, f, cell.v)
      [] f.h \in {"repeated", "fixed_count"} -> encode_array(s, f, cell.items)
      [] f.h = "oneof" -> IF cell.which = f.tag THEN EncodeTagged(s, f, cell.v) ELSE s

pb_encode(s, fields, m) == FoldLeft(LAMBDA t, f : encode_basic_field(t, f, m[f.key]), s, fields)

pb_encode_delimited(s, fields, m) == pb_encode_submessage(s, fields, m)

\* the terminator is forgotten
pb_encode_unterminated(s, fields, m) == pb_encode(s, fields, m)

pb_encode_nullterminated(s, fields, m) == pb_write(pb_encode(s, fields, m), <<0>>)

pb_get_encoded_size(fields, m) == pb_encode(Sizing, fields, m).n

-----------------------------------------------------------------------------
(* Decoding.  d: position and bytes_left of the stream, ok, the heap        *)
(* (blocks live, next block, whether a block was freed twice), the value    *)
(* decoded last.  w: the bytes                                              *)

pb_istream_from_buffer(w) ==
    [at |-> 1, left |-> Len(w), ok |-> TRUE, live |-> {}, next |-> 1, twice |-> FALSE, v |-> 0]

Fail(d) == [d EXCEPT !.ok = FALSE]

pb_read(w, d, count) ==
    IF d.left < count THEN Fail(d)
    ELSE [d EXCEPT !.v = SubSeq(w, d.at, d.at + count - 1), !.at = @ + count, !.left = @ - count]

pb_readbyte(w, d) ==
    IF d.left = 0 THEN Fail(d) ELSE [d EXCEPT !.v = w[d.at], !.at = @ + 1, !.left = @ - 1]

\* past 32 bits only a sign extension may follow
Overflow32(byte, bitpos, result) ==
    IF bitpos >= W32
    THEN byte % Base # 0 /\ (result < 2^(W32 - 1) \/ byte # (IF bitpos < W64 - 1 THEN 2 * Base - 1 ELSE 1))
    ELSE bitpos = W32 - 1 /\ byte < Base /\ byte % Base >= 2

Shifted(result, byte, bitpos, width) ==
    IF bitpos >= width THEN result ELSE (result + (byte % Base) * 2^bitpos) % 2^width

RECURSIVE Varint32(_, _, _, _)
Varint32Byte(w, r, bitpos, result) ==
    IF ~r.ok \/ Overflow32(r.v, bitpos, result) THEN Fail(r)
    ELSE IF r.v < Base THEN [r EXCEPT !.v = Shifted(result, @, bitpos, W32)]
    ELSE Varint32(w, r, bitpos + 3, Shifted(result, r.v, bitpos, W32))

Varint32(w, d, bitpos, result) == Varint32Byte(w, pb_readbyte(w, d), bitpos, result)

pb_decode_varint32(w, d) == Varint32(w, d, 0, 0)

RECURSIVE Varint64(_, _, _, _)
Varint64Byte(w, r, bitpos, result) ==
    IF bitpos >= W64 \/ ~r.ok THEN Fail(r)
    ELSE IF r.v < Base THEN [r EXCEPT !.v = Shifted(result, @, bitpos, W64)]
    ELSE Varint64(w, r, bitpos + 3, Shifted(result, r.v, bitpos, W64))

Varint64(w, d, bitpos, result) == Varint64Byte(w, pb_readbyte(w, d), bitpos, result)

pb_decode_varint(w, d) == Varint64(w, d, 0, 0)

RECURSIVE pb_skip_varint(_, _)
SkipRest(w, r) == IF r.ok /\ r.v >= Base THEN pb_skip_varint(w, r) ELSE r
pb_skip_varint(w, d) == SkipRest(w, pb_readbyte(w, d))

ReadLength(w, r) == IF r.ok THEN pb_read(w, r, r.v) ELSE r
pb_skip_string(w, d) == ReadLength(w, pb_decode_varint32(w, d))

pb_skip_field(w, d, wire_type) ==
    CASE wire_type = PB_WT_VARINT -> pb_skip_varint(w, d)
      [] wire_type = PB_WT_64BIT -> pb_read(w, d, 2 * Fixed32)
      [] wire_type = PB_WT_STRING -> pb_skip_string(w, d)
      [] wire_type = PB_WT_32BIT -> pb_read(w, d, Fixed32)
      [] OTHER -> Fail(d)

\* v of the substream: the bytes left in the parent
Limited(r) == IF ~r.ok \/ r.left < r.v THEN Fail(r) ELSE [r EXCEPT !.left = r.v, !.v = r.left - r.v]

pb_make_string_substream(w, d) == Limited(pb_decode_varint32(w, d))

pb_close_string_substream(sub, left, value) ==
    [sub EXCEPT !.at = @ + sub.left, !.left = left, !.v = value]

\* realloc: v is the block
allocate_field(d, p) ==
    [d EXCEPT !.v = d.next, !.next = @ + 1, !.live = (@ \ {p}) \union {d.next},
              !.twice = @ \/ (p # 0 /\ p \notin d.live)]

-----------------------------------------------------------------------------
(* Releasing                                                               *)

RECURSIVE Blocks(_, _)
ItemBlocks(f, item) ==
    IF f.l = "submessage" THEN (IF Pointed(f) /\ item.p = 0 THEN << >> ELSE Blocks(f.sub, item.v) \o <<item.p>>)
    ELSE IF IsText(f) THEN <<item.p>> ELSE << >>

EntryBlocks(f, item) ==
    IF f.l = "submessage" THEN Blocks(f.sub, item.v) ELSE IF IsText(f) THEN <<item.p>> ELSE << >>

CellBlocks(f, cell) ==
    CASE f.h \in {"required", "optional", "singular"} -> ItemBlocks(f, cell.v)
      [] f.h \in {"repeated", "fixed_count"} ->
            FoldLeft(LAMBDA s, item : s \o EntryBlocks(f, item), << >>, cell.items) \o <<cell.p>>
      [] f.h = "oneof" -> IF cell.which = f.tag THEN ItemBlocks(f, cell.v) ELSE << >>

Blocks(fields, m) ==
    SelectSeq(FoldLeft(LAMBDA s, f : s \o CellBlocks(f, m[f.key]), << >>, fields), LAMBDA p : p # 0)

Freed(d, blocks) ==
    [d EXCEPT !.live = @ \ ToSet(blocks),
              !.twice = @ \/ ~(ToSet(blocks) \subseteq d.live) \/ Cardinality(ToSet(blocks)) # Len(blocks)]

pb_release(d, fields, m) == Freed(d, Blocks(fields, m))

\* the pointers are set to NULL, the arrays to empty
RECURSIVE Nulled(_, _)
NulledItem(f, item) ==
    IF f.l # "submessage" THEN (IF Pointed(f) THEN ZeroText ELSE item)
    ELSE IF Pointed(f) THEN ZeroText ELSE [item EXCEPT !.v = Nulled(f.sub, @)]

NulledCell(f, cell) ==
    CASE f.h \in {"required", "optional", "singular"} -> [cell EXCEPT !.v = NulledItem(f, @)]
      [] f.h \in {"repeated", "fixed_count"} -> IF Pointed(f) THEN [p |-> 0, items |-> << >>] ELSE cell
      [] f.h = "oneof" -> IF cell.which = f.tag THEN [cell EXCEPT !.v = NulledItem(f, @)] ELSE cell

Nulled(fields, m) == FoldLeft(LAMBDA s, f : [s EXCEPT ![f.key] = NulledCell(f, @)], m, fields)

-----------------------------------------------------------------------------
(* Field decoders.  Each leaves in v the item, with the blocks it holds     *)
(* even when it fails                                                       *)

SignedOf(x, width) == IF x >= 2^(width - 1) THEN x - 2^width ELSE x
ZigZag(x) == IF x % 2 = 1 THEN -(x \div 2) - 1 ELSE x \div 2

\* a negative number was sent with 64 bits and no longer fits
pb_dec_varint_checked(d, f) == IF d.v >= 2^f.size THEN Fail(d) ELSE [d EXCEPT !.v = SignedOf(@, f.size)]

\* the value stored is not compared with the value read
pb_dec_varint_truncates(d, f) == [d EXCEPT !.v = SignedOf(@ % 2^f.size, f.size)]

\* the number is stored as far as it fits, then: "integer too large"
Narrowed(d, value, clamped) == [d EXCEPT !.v = clamped, !.ok = value = clamped]

\* the low 32 bits are all that counts for a field of up to 32
SignedValue(v, size) == IF size = W64 THEN SignedOf(v, W64) ELSE SignedOf(v % 2^W32, W32)

pb_dec_varint(d, f) ==
    LET svalue == SignedValue(d.v, f.size) IN Narrowed(d, svalue, SignedOf(svalue % 2^f.size, f.size))

pb_dec_uvarint(d, f) == Narrowed(d, d.v, d.v % 2^f.size)

pb_dec_svarint(d, f) == Narrowed(d, ZigZag(d.v), SignedOf(ZigZag(d.v) % 2^f.size, f.size))

FixedOf(r) ==
    IF r.ok THEN [r EXCEPT !.v = FoldRight(LAMBDA byte, sum : sum * 2 * Base + byte, @, 0)] ELSE r

pb_decode_fixed32(w, d) == FixedOf(pb_read(w, d, Fixed32))
pb_decode_fixed64(w, d) == FixedOf(pb_read(w, d, 2 * Fixed32))

\* what the field holds stays when nothing could be read
NumberOf(r, f, old) ==
    CASE ~r.ok -> [r EXCEPT !.v = old]
      [] r.ok /\ f.l \in {"fixed32", "fixed64"} -> r
      [] r.ok /\ f.l = "varint" -> pb_dec_varint(r, f)
      [] r.ok /\ f.l = "uvarint" -> pb_dec_uvarint(r, f)
      [] r.ok /\ f.l = "svarint" -> pb_dec_svarint(r, f)

DecodeNumber(w, d, f, old) ==
    NumberOf(CASE f.l = "fixed32" -> pb_decode_fixed32(w, d) [] f.l = "fixed64" -> pb_decode_fixed64(w, d)
               [] OTHER -> pb_decode_varint(w, d), f, old)

TextOf(r, p) == [r EXCEPT !.v = [p |-> p, v |-> IF r.ok THEN r.v ELSE << >>]]
ReadText(w, d, count, p) == TextOf(pb_read(w, d, count), p)
ReadPointed(w, a, count) == ReadText(w, a, count, a.v)

\* no room is kept for the terminator
StringFitsLoose(length, f) == length <= f.size

\* room for the terminator of a string, for the size of bytes
StringFits(length, f) == length + 1 <= f.size

\* pb_size_t has 32 bits (PB_FIELD_32BIT)
PB_SIZE_MAX == 2^W32 - 1

\* the sizes refused before any memory is asked for: bytes beyond PB_SIZE_MAX, a string whose size + 1 wraps
TooLarge(length, f) == IF f.l = "string" THEN (length + 1) % 2^W32 < length ELSE length > PB_SIZE_MAX

TextOfLength(w, r, f, old) ==
    IF ~r.ok THEN [r EXCEPT !.v = old]
    ELSE IF TooLarge(r.v, f) THEN [Fail(r) EXCEPT !.v = old]
    ELSE IF Pointed(f) THEN ReadPointed(w, allocate_field(r, old.p), r.v)
    ELSE IF ~StringFits(r.v, f) THEN [Fail(r) EXCEPT !.v = old]
    ELSE ReadText(w, r, r.v, 0)

pb_dec_bytes(w, d, f, old) == TextOfLength(w, pb_decode_varint32(w, d), f, old)
pb_dec_string(w, d, f, old) == TextOfLength(w, pb_decode_varint32(w, d), f, old)

FixedText(w, r, f, old) ==
    IF r.ok /\ r.v > PB_SIZE_MAX THEN [Fail(r) EXCEPT !.v = old]
    ELSE IF r.ok /\ r.v = 0 THEN [r EXCEPT !.v = [p |-> 0, v |-> [i \in 1 .. f.size |-> 0]]]
    ELSE IF ~r.ok \/ r.v # f.size THEN [Fail(r) EXCEPT !.v = old]
    ELSE ReadText(w, r, f.size, 0)

pb_dec_fixed_length_bytes(w, d, f, old) == FixedText(w, pb_decode_varint32(w, d), f, old)

RECURSIVE pb_decode(_, _, _), pb_decode_noinit(_, _, _, _)

CloseSubmessage(r, left, p) == pb_close_string_substream(r, left, [p |-> p, v |-> r.v])

\* every submessage starts from its defaults
DecodeFreshSubmessage(w, sub, f, old) ==
    IF ~sub.ok THEN [sub EXCEPT !.v = old]
    ELSE CloseSubmessage(pb_decode(w, sub, f.sub), sub.v, old.p)

\* entries of arrays are initialized here; others were, and are merged into
DecodeSubmessage(w, sub, f, old) ==
    IF ~sub.ok THEN [sub EXCEPT !.v = old]
    ELSE CloseSubmessage(IF f.h = "repeated" THEN pb_decode(w, sub, f.sub)
                         ELSE pb_decode_noinit(w, sub, f.sub, old.v), sub.v, old.p)

pb_dec_submessage(w, d, f, old) == DecodeSubmessage(w, pb_make_string_substream(w, d), f, old)

\* PB_DECODERS
DecodeItem(w, d, f, old) ==
    CASE f.l = "submessage" -> pb_dec_submessage(w, d, f, old)
      [] f.l = "fixed_length_bytes" -> pb_dec_fixed_length_bytes(w, d, f, old)
      [] f.l = "string" -> pb_dec_string(w, d, f, old)
      [] f.l = "bytes" -> pb_dec_bytes(w, d, f, old)
      [] OTHER -> DecodeNumber(w, d, f, old)

-----------------------------------------------------------------------------
(* decode_field.  m: the structure; the result holds the new one in v       *)

Put(d, m, key, cell) == [d EXCEPT !.v = [m EXCEPT ![key] = cell]]

PutSingle(r, m, key) == Put(r, m, key, [has |-> TRUE, v |-> r.v])
DecodeSingle(w, d, f, m) == PutSingle(DecodeItem(w, d, f, m[f.key].v), m, f.key)

\* array entries until the substream ends; items past the array stay unread
RECURSIVE PackedItems(_, _, _, _)
NextPacked(w, r, f, items) ==
    IF r.ok THEN PackedItems(w, r, f, Append(items, r.v)) ELSE [r EXCEPT !.v = items]

PackedItems(w, d, f, items) ==
    IF d.left = 0 \/ (~Pointed(f) /\ Len(items) >= f.n) THEN [d EXCEPT !.v = items]
    ELSE NextPacked(w, DecodeNumber(w, d, f, 0), f, items)

\* the array is allocated for the first entry; growing it keeps the block's place here
Allocated(d, f, cell) ==
    IF Pointed(f) /\ d.left > 0 /\ cell.p = 0 THEN allocate_field(d, 0) ELSE [d EXCEPT !.v = cell.p]

ClosePacked(f, r, left, p) ==
    IF ~Pointed(f) /\ r.left # 0 THEN [Fail(r) EXCEPT !.v = [p |-> p, items |-> r.v]]
    ELSE pb_close_string_substream(r, left, [p |-> p, items |-> r.v])

PackedInto(w, a, f, items, left) == ClosePacked(f, PackedItems(w, a, f, items), left, a.v)

PackedSubstream(w, sub, f, cell) ==
    IF ~sub.ok THEN [sub EXCEPT !.v = cell]
    ELSE PackedInto(w, Allocated(sub, f, cell), f, cell.items, sub.v)

DecodePacked(w, d, f, cell) == PackedSubstream(w, pb_make_string_substream(w, d), f, cell)

initialize_pointer_field(f) ==
    IF f.l = "submessage" THEN [p |-> 0, v |-> pb_message_set_to_defaults(f.sub)] ELSE DefaultItem(f)

\* one entry; the array was enlarged and its new entry initialized first
EntryRead(r, p, items) == [r EXCEPT !.v = [p |-> p, items |-> Append(items, r.v)]]
ReadEntry(w, a, f, items) == EntryRead(DecodeItem(w, a, f, initialize_pointer_field(f)), a.v, items)

DecodeEntry(w, d, f, cell) ==
    IF ~Pointed(f) /\ Len(cell.items) >= f.n THEN [Fail(d) EXCEPT !.v = cell]
    ELSE ReadEntry(w, IF Pointed(f) THEN allocate_field(d, cell.p) ELSE [d EXCEPT !.v = 0], f, cell.items)

PutArray(r, m, key) == Put(r, m, key, r.v)

DecodeRepeated(w, d, wire_type, f, m) ==
    PutArray(IF wire_type = PB_WT_STRING /\ Packable(f) THEN DecodePacked(w, d, f, m[f.key])
             ELSE DecodeEntry(w, d, f, m[f.key]), m, f.key)

\* a duplicate submessage replaces the old one
ReadPointer(w, a, f) == pb_dec_submessage(w, a, f, [p |-> a.v, v |-> pb_message_set_to_defaults(f.sub)])

DecodePointerSubmessage(w, d, f, m) ==
    PutSingle(ReadPointer(w, allocate_field(Freed(d, ItemBlocks(f, m[f.key].v)), 0), f), m, f.key)

\* another member of the union is not released
KeepUnionField(d, f, cell) == <<d, [which |-> cell.which, v |-> ZeroText]>>

\* another member of the union is released first
pb_release_union_field(d, f, cell) ==
    IF cell.which \in {0, f.tag} THEN <<d, cell>>
    ELSE <<Freed(d, SelectSeq(<<cell.v.p>>, LAMBDA p : p # 0)), [which |-> cell.which, v |-> ZeroText]>>

PutUnion(r, m, f) == Put(r, m, f.key, [which |-> f.tag, v |-> r.v])
ReadUnion(w, rel, f, m) == PutUnion(DecodeItem(w, rel[1], f, rel[2].v), m, f)
DecodeOneof(w, d, f, m) == ReadUnion(w, pb_release_union_field(d, f, m[f.key]), f, m)

decode_field(w, d, wire_type, f, m) ==
    CASE f.h \in {"repeated", "fixed_count"} -> DecodeRepeated(w, d, wire_type, f, m)
      [] f.h = "oneof" -> DecodeOneof(w, d, f, m)
      [] f.l = "submessage" /\ Pointed(f) -> DecodePointerSubmessage(w, d, f, m)
      [] OTHER -> DecodeSingle(w, d, f, m)

-----------------------------------------------------------------------------
(* pb_decode                                                               *)

FieldsWithTag(fields, tag) == { i \in 1 .. Len(fields) : fields[i].tag = tag }

\* at the end: the last fixed count field is complete, required fields were seen
AtEnd(d, fields, m, seen, fixed) ==
    IF \/ fixed # 0 /\ Len(m[fields[fixed].key].items) # fields[fixed].n
       \/ \E i \in 1 .. Len(fields) : fields[i].h = "required" /\ i \notin seen
    THEN [Fail(d) EXCEPT !.v = m] ELSE [d EXCEPT !.v = m]

RECURSIVE DecodeFields(_, _, _, _, _, _)

Continue(w, r, fields, m, seen, fixed) ==
    IF r.ok THEN DecodeFields(w, r, fields, m, seen, fixed) ELSE [r EXCEPT !.v = m]

ContinueWith(w, r, fields, seen, fixed) == Continue(w, r, fields, r.v, seen, fixed)

\* another fixed count field may only begin when the last one is complete
DecodeKnown(w, d, fields, m, seen, fixed, wire_type, i) ==
    IF fields[i].h # "fixed_count" \/ fixed = i
    THEN ContinueWith(w, decode_field(w, d, wire_type, fields[i], m), fields, seen \union {i}, fixed)
    ELSE IF fixed # 0 /\ Len(m[fields[fixed].key].items) # fields[fixed].n THEN [Fail(d) EXCEPT !.v = m]
    ELSE ContinueWith(w, decode_field(w, d, wire_type, fields[i], [m EXCEPT ![fields[i].key].items = << >>]),
                      fields, seen \union {i}, i)

AfterTag(w, t, fields, m, seen, fixed) ==
    IF ~t.ok THEN [t EXCEPT !.v = m]
    ELSE IF t.v = 0 THEN AtEnd(t, fields, m, seen, fixed)
    ELSE IF FieldsWithTag(fields, t.v \div 8) = {}
    THEN Continue(w, pb_skip_field(w, t, t.v % 8), fields, m, seen, fixed)
    ELSE DecodeKnown(w, t, fields, m, seen, fixed, t.v % 8, Min(FieldsWithTag(fields, t.v \div 8)))

\* a tag of 0 ends the message
DecodeFields(w, d, fields, m, seen, fixed) ==
    IF d.left = 0 THEN AtEnd(d, fields, m, seen, fixed)
    ELSE AfterTag(w, pb_decode_varint32(w, d), fields, m, seen, fixed)

pb_decode_noinit(w, d, fields, m) == DecodeFields(w, d, fields, m, {}, 0)

\* what was allocated is released on failure
ReleasedOnError(r, fields) ==
    IF r.ok THEN r ELSE [pb_release(r, fields, r.v) EXCEPT !.v = Nulled(fields, r.v)]

pb_decode(w, d, fields) == ReleasedOnError(pb_decode_noinit(w, d, fields, pb_message_set_to_defaults(fields)), fields)

\* without a length the structure stays as the caller made it, here: empty
DelimitedBody(w, sub, fields) ==
    IF ~sub.ok THEN [sub EXCEPT !.v = pb_message_set_to_defaults(fields)]
    ELSE LET r == pb_decode(w, sub, fields) IN pb_close_string_substream(r, sub.v, r.v)

pb_decode_delimited(w, d, fields) == DelimitedBody(w, pb_make_string_substream(w, d), fields)
pb_decode_nullterminated(w, d, fields) == pb_decode(w, d, fields)

-----------------------------------------------------------------------------
(* Messages sent, and what becomes of them                                 *)

Some(v) == [has |-> TRUE, v |-> v]
Text(bytes) == [p |-> 1, v |-> bytes]
Filled(fields, cells) ==
    [k \in Keys(fields) |-> IF k \in DOMAIN cells THEN cells[k] ELSE pb_message_set_to_defaults(fields)[k]]

Pick1(k, cells) == { [j \in {k} |-> c] : c \in cells } \union {<< >>}
Both(as, bs) == { [k \in DOMAIN a \union DOMAIN b |-> IF k \in DOMAIN a THEN a[k] ELSE b[k]] : a \in as, b \in bs }

Configurations == { [p |-> 0, v |-> Filled(QosTierConfiguration, c)] : c \in {[k \in {2} |-> Some(4)], [k \in {3} |-> Some(-1)]} }
Overrides ==
    { [p |-> 0, v |-> Filled(QosTiersOverride, o)] :
         o \in Both(Pick1(1, { [p |-> 1, items |-> q] : q \in UNION { [1 .. n -> Configurations] : n \in 1 .. 2 } }),
                    Pick1(2, {Some(-9)})) }
Connection == [p |-> 0, v |-> Filled(NetworkConnectionInfo, [k \in {1} |-> Some(Min(NetworkTypes))])]

Responses == { Filled(LogResponse, c) : c \in Both(Pick1(1, {Some(70), Some(-2)}), Pick1(3, { Some(o) : o \in Overrides })) }
Events ==
    { Filled(LogEvent, c) : c \in Both(Pick1(6, {Some(Text(<< >>)), Some(Text(<<7, 12>>))}),
                                  Both(Pick1(15, {Some(-30), Some(2^(W64 - 1) - 1)}), Pick1(23, {Some(Connection)}))) }
Others ==
    { Filled(OtherKinds, c) : c \in
        Both({ [k \in {1} |-> Some(v)] : v \in {0, 2^W32 - 1} },
        Both(Pick1(2, { [p |-> 0, items |-> q] : q \in {<<-1>>, <<2, 30>>} }),
        Both(Pick1(3, { [which |-> 3, v |-> Text(<<9>>)], [which |-> 4, v |-> Text(<< >>)] }),
        Both(Pick1(5, {Some([p |-> 0, v |-> <<5, 6>>])}),
             Pick1(6, {[p |-> 1, items |-> <<Text(<< >>), Text(<<3>>)>>]}))))) }
Fixeds ==
    { Filled(FixedKinds, c) : c \in
        Both({ [k \in {1, 3} |-> IF k = 1 THEN [p |-> 0, items |-> <<17, 4000>>] ELSE Some([p |-> 0, v |-> <<1, 2>>])] },
        Both(Pick1(2, {[p |-> 1, items |-> <<-1, 300>>]}),
        Both(Pick1(4, {[has |-> TRUE, v |-> [Connection EXCEPT !.p = 1]]}),
             Pick1(5, {Some(2^20 + 9)})))) }
Clients ==
    { Filled(ClientInfo, c) : c \in
        Both({ [k \in {1} |-> Some(Max(ClientTypes))] },
             Pick1(4, {Some([p |-> 0, v |-> Filled(IosClientInfo, [k \in {3, 11} |-> Some(Text(<<k>>))])])})) }
Sampled ==
    Filled(LogEvent, [k \in {1, 23} |-> IF k = 1 THEN Some(90) ELSE Some([p |-> 0, v |->
        Filled(NetworkConnectionInfo, [j \in {2} |-> Some(Max(MobileSubtypes))])])])
Requests ==
    { Filled(LogRequest, c) : c \in
        Both({ [k \in {1, 9} |-> IF k = 1 THEN Some([p |-> 0, v |-> client]) ELSE Some(Max(QosTiers))] : client \in Clients },
             Pick1(3, {[p |-> 1, items |-> <<[p |-> 0, v |-> Sampled]>>]})) }
Batches ==
    { Filled(BatchedLogRequest, [k \in {1} |-> [p |-> 1, items |-> <<[p |-> 0, v |-> q], [p |-> 0, v |-> Filled(LogRequest, << >>)]>>]]) :
        q \in Requests }
Diagnostics ==
    { Filled(ICoreConfiguration, c) : c \in
        Both({ [k \in {16, 30, 36} |-> Some(CASE k = 16 -> Max(PodNames) [] k = 30 -> Max(DeploymentTypes) [] k = 36 -> 1)] },
        Both(Pick1(7, {[p |-> 1, items |-> <<Min(ServiceTypes), Max(ServiceTypes)>>]}),
             Pick1(22, {Some(Text(<<1, 3>>))}))) }

Fields(schema) ==
    CASE schema = "response" -> LogResponse [] schema = "event" -> LogEvent
      [] schema = "others" -> OtherKinds [] schema = "fixed" -> FixedKinds
      [] schema = "batch" -> BatchedLogRequest [] schema = "core" -> ICoreConfiguration
Sent(schema) ==
    CASE schema = "response" -> Responses [] schema = "event" -> Events
      [] schema = "others" -> Others [] schema = "fixed" -> Fixeds
      [] schema = "batch" -> Batches [] schema = "core" -> Diagnostics
Schemas == {"response", "event", "others", "fixed", "batch", "core"}

Bytes(schema, m) == pb_encode(pb_ostream_from_buffer(pb_get_encoded_size(Fields(schema), m)), Fields(schema), m)

\* the forms in which messages follow each other in a stream
Frames == {"delimited", "nullterminated"}

FramedBytes(frame, fields, m) ==
    LET s == pb_ostream_from_buffer(2 * pb_get_encoded_size(fields, m) + 2)
    IN IF frame = "delimited" THEN pb_encode_delimited(s, fields, m).buf ELSE pb_encode_nullterminated(s, fields, m).buf

\* fields that an older program does not know
Unknown == { Digits(40 * 8 + wt[1]) \o wt[2] :
               wt \in {<<PB_WT_VARINT, <<9, 3>>>>, <<PB_WT_STRING, <<2, 15, 15>>>>,
                       <<PB_WT_32BIT, <<15, 0, 15>>>>, <<PB_WT_64BIT, <<1, 2, 3, 4, 5, 6>>>>} }

Nothing == [ok |-> FALSE]

\* encode for the size, then into a buffer of that size
Encode ==
    /\ pb.stage = "new"
    /\ \E schema \in Schemas : \E m \in Sent(schema) :
          pb' = [pb EXCEPT !.stage = "sent", !.schema = schema, !.sent = m, !.wire = Bytes(schema, m).buf]

\* a buffer that may be too small
EncodeInto ==
    /\ pb.stage = "new"
    /\ \E schema \in Schemas : \E m \in Sent(schema) : \E max \in 0 .. pb_get_encoded_size(Fields(schema), m) :
          pb' = [pb EXCEPT !.stage = "written", !.schema = schema, !.sent = m,
                           !.result = pb_encode(pb_ostream_from_buffer(max), Fields(schema), m)]

\* a message in a stream of them
EncodeFramed ==
    /\ pb.stage = "new"
    /\ \E frame \in Frames : \E m \in Events :
          pb' = [pb EXCEPT !.stage = "sent", !.schema = "event", !.frame = frame, !.sent = m,
                           !.wire = FramedBytes(frame, LogEvent, m)]

Follow ==
    /\ pb.stage = "sent" /\ pb.what = "whole" /\ pb.frame # "plain"
    /\ \E m \in Sent(pb.schema) :
          pb' = [pb EXCEPT !.what = "followed", !.second = FramedBytes(pb.frame, Fields(pb.schema), m),
                           !.wire = @ \o FramedBytes(pb.frame, Fields(pb.schema), m)]

\* a newer program has widened a number to 64 bits
WideFields == {27, 36, 30}
SendWider ==
    /\ pb.stage = "new"
    /\ \E k \in WideFields, v \in {-9, -8, 7, 8, 2^(W32 - 1), 2^W32 - 1, 2^W32 + 5} :
          LET m == Filled(ICoreConfiguration, [j \in {k, 31} |-> IF j = k THEN Some(v % 2^W64) ELSE Some(Text(<<2>>))])
          IN pb' = [pb EXCEPT !.stage = "sent", !.schema = "core", !.what = "wider", !.sent = m, !.second = <<k, v>>,
                              !.wire = Bytes("core", m).buf]

\* two encodings one after the other are one message
Concatenate ==
    /\ pb.stage = "sent" /\ pb.what = "whole" /\ pb.frame = "plain"
    /\ \E m \in Sent(pb.schema) :
          pb' = [pb EXCEPT !.what = "both", !.second = m, !.wire = @ \o Bytes(pb.schema, m).buf]

\* a newer program puts fields of its own between the others
Newer ==
    /\ pb.stage = "sent" /\ pb.what = "whole" /\ pb.frame = "plain"
    /\ \E n \in 0 .. Len(Fields(pb.schema)), u \in Unknown :
          LET first == pb_encode(pb_ostream_from_buffer(Len(pb.wire)), SubSeq(Fields(pb.schema), 1, n), pb.sent).buf
          IN pb' = [pb EXCEPT !.what = "newer",
                              !.wire = first \o u \o SubSeq(pb.wire, Len(first) + 1, Len(pb.wire))]

Truncate ==
    /\ pb.stage = "sent" /\ pb.what = "whole"
    /\ \E n \in 0 .. Len(pb.wire) - 1 : pb' = [pb EXCEPT !.what = "damaged", !.wire = SubSeq(@, 1, n)]

Garble ==
    /\ pb.stage = "sent" /\ pb.what = "whole"
    /\ \E i \in 1 .. Len(pb.wire) : \E byte \in (0 .. 2 * Base - 1) \ {pb.wire[i]} :
          pb' = [pb EXCEPT !.what = "damaged", !.wire[i] = byte]

Decode ==
    /\ pb.stage = "sent"
    /\ pb' = [pb EXCEPT !.stage = "decoded",
                        !.result = IF pb.frame = "delimited"
                                   THEN pb_decode_delimited(pb.wire, pb_istream_from_buffer(pb.wire), Fields(pb.schema))
                                   ELSE pb_decode_nullterminated(pb.wire, pb_istream_from_buffer(pb.wire), Fields(pb.schema))]

Release ==
    /\ pb.stage = "decoded" /\ pb.result.ok
    /\ pb' = [pb EXCEPT !.stage = "released",
                        !.result = [pb_release(pb.result, Fields(pb.schema), pb.result.v)
                                      EXCEPT !.v = Nulled(Fields(pb.schema), @)]]

Init ==
    pb = [stage |-> "new", schema |-> "none", frame |-> "plain", sent |-> << >>, second |-> << >>, what |-> "whole",
          wire |-> << >>, result |-> Nothing]

Next == Encode \/ EncodeInto \/ EncodeFramed \/ SendWider \/ Follow \/ Concatenate \/ Newer \/ Truncate \/ Garble \/ Decode \/ Release

Spec == Init /\ [][Next]_pb

-----------------------------------------------------------------------------
TypeOK ==
    pb.stage \in {"decoded", "released"} =>
        pb.result.at \in 1 .. Len(pb.wire) + 1 /\ pb.result.left \in 0 .. Len(pb.wire)

\* structures up to the identity of blocks
RECURSIVE Stripped(_, _)
StrippedItem(f, item) ==
    IF f.l = "submessage" THEN (IF Pointed(f) /\ f.h # "repeated" /\ item.p = 0 THEN << >> ELSE Stripped(f.sub, item.v))
    ELSE IF IsText(f) THEN [p |-> item.p # 0, v |-> item.v] ELSE item
StrippedCell(f, cell) ==
    CASE f.h \in {"repeated", "fixed_count"} ->
            [p |-> cell.p # 0, items |-> [i \in 1 .. Len(cell.items) |-> StrippedItem(f, cell.items[i])]]
      [] OTHER -> [cell EXCEPT !.v = StrippedItem(f, @)]
Stripped(fields, m) ==
    [k \in Keys(fields) |-> StrippedCell(fields[CHOOSE i \in 1 .. Len(fields) : fields[i].key = k], m[k])]

Received == Stripped(Fields(pb.schema), pb.result.v)

(* What was encoded into a buffer of the size computed beforehand decodes   *)
(* to the same message, and fields the receiver does not know, wherever     *)
(* they stand and whatever their wire type, change nothing.                 *)
RoundTrip ==
    pb.stage = "decoded" /\ pb.what \in {"whole", "newer"} =>
        pb.result.ok /\ Received = Stripped(Fields(pb.schema), pb.sent)

(* pb_get_encoded_size is exact: a buffer of that size is filled to the     *)
(* last byte, a smaller one makes pb_encode fail and is never overrun, also *)
(* with submessages and packed arrays, whose size is computed apart.        *)
SizesAgree ==
    pb.stage = "written" =>
        /\ pb.result.ok <=> pb.result.max = pb_get_encoded_size(Fields(pb.schema), pb.sent)
        /\ Len(pb.result.buf) = pb.result.n /\ pb.result.n <= pb.result.max
        /\ pb.result.ok => pb.result.n = pb.result.max

RECURSIVE Merged(_, _, _)
MergedCell(f, a, b) ==
    CASE f.h \in {"repeated", "fixed_count"} -> [p |-> a.p \/ b.p, items |-> a.items \o b.items]
      [] f.h = "oneof" -> IF b.which = 0 THEN a ELSE b
      [] f.h = "required" -> b
      [] f.h = "singular" -> IF b.v.v = << >> THEN a ELSE b
      [] OTHER -> IF ~b.has THEN a
                  ELSE IF f.l = "submessage" /\ ~Pointed(f) THEN Some(Merged(f.sub, a.v, b.v)) ELSE b
Merged(fields, a, b) ==
    [k \in Keys(fields) |-> MergedCell(fields[CHOOSE i \in 1 .. Len(fields) : fields[i].key = k], a[k], b[k])]

Overfull(fields, m) == \E i \in 1 .. Len(fields) : fields[i].n > 0 /\ Len(m[fields[i].key].items) > fields[i].n

(* Two encodings one after the other decode to the merge of the messages:   *)
(* later values win, arrays are joined, static submessages are merged and   *)
(* pointed ones replaced, a oneof keeps the last member; a static array     *)
(* that would overflow makes the decoding fail.                             *)
MergeExact ==
    pb.stage = "decoded" /\ pb.what = "both" =>
        LET fields == Fields(pb.schema)
            whole == Merged(fields, Stripped(fields, pb.sent), Stripped(fields, pb.second))
        IN IF Overfull(fields, whole) THEN ~pb.result.ok ELSE pb.result.ok /\ Received = whole

(* Whatever the bytes, every block allocated while decoding is held by the  *)
(* message, once; a failed decoding and pb_release leave none behind, and   *)
(* no block is freed twice.                                                 *)
NothingLeaks ==
    pb.stage \in {"decoded", "released"} =>
        LET blocks == Blocks(Fields(pb.schema), pb.result.v)
        IN /\ pb.result.live = ToSet(blocks) /\ Len(blocks) = Cardinality(ToSet(blocks))
           /\ ~pb.result.twice
           /\ ~pb.result.ok \/ pb.stage = "released" => pb.result.live = {}

RECURSIVE Fits(_, _)
FitsCell(f, cell) ==
    CASE f.h \in {"repeated", "fixed_count"} ->
            /\ ~Pointed(f) => Len(cell.items) <= f.n
            /\ f.l = "submessage" => \A i \in 1 .. Len(cell.items) : Fits(f.sub, cell.items[i].v)
      [] f.h = "oneof" -> cell.which = 0 \/ cell.v.p # 0
      [] f.l = "string" /\ ~Pointed(f) -> Len(cell.v.v) < f.size
      [] f.l = "fixed_length_bytes" -> Len(cell.v.v) = f.size
      [] f.l = "submessage" /\ (~Pointed(f) \/ cell.v.p # 0) -> Fits(f.sub, cell.v.v)
      [] f.l = "uvarint" -> cell.v \in 0 .. 2^f.size - 1
      [] f.l \in {"varint", "svarint"} -> cell.v \in -(2^(f.size - 1)) .. 2^(f.size - 1) - 1
      [] OTHER -> TRUE
Fits(fields, m) == \A i \in 1 .. Len(fields) : FitsCell(fields[i], m[fields[i].key])

(* Whatever the bytes, a decoding that succeeds has read all of them or up  *)
(* to a zero tag, and its values fit their fields: numbers their width,     *)
(* strings and arrays the room they have.                                   *)
DecodedFits ==
    pb.stage = "decoded" /\ pb.result.ok =>
        /\ Fits(Fields(pb.schema), pb.result.v)
        /\ pb.result.at + pb.result.left = Len(pb.wire) + 1
        /\ pb.frame = "delimited" \/ pb.result.left = 0 \/ pb.wire[pb.result.at - 1] % Base = 0

Signed(f) == f.l = "varint"
Low32(v) == CHOOSE x \in -(2^(W32 - 1)) .. 2^(W32 - 1) - 1 : (x - v) % 2^W32 = 0
Holds(f, x) == IF Signed(f) THEN -(2^(f.size - 1)) <= x /\ x < 2^(f.size - 1) ELSE 0 <= x /\ x < 2^f.size

(* A number from a program in which the field is wider: an unsigned one     *)
(* that does not fit makes the decoding fail; of a signed one, in a field   *)
(* of up to 32 bits, only the low 32 are looked at: when they fit the field *)
(* they are its value, whatever was above them, and else the decoding fails *)
(* too.  It never succeeds with part of those bits.                         *)
WiderTold ==
    pb.stage = "decoded" /\ pb.what = "wider" =>
        LET k == pb.second[1]
            f == ICoreConfiguration[Min(FieldsWithTag(ICoreConfiguration, k))]
            x == IF Signed(f) THEN Low32(pb.second[2]) ELSE pb.second[2] % 2^W64
        IN /\ pb.result.ok <=> Holds(f, x)
           /\ pb.result.ok => pb.result.v[k] = Some(x)

(* A message written with its length in front or with a zero behind is      *)
(* decoded alone, whatever follows it, and leaves the stream where the next *)
(* one begins.                                                              *)
FrameExact ==
    pb.stage = "decoded" /\ pb.frame # "plain" /\ pb.what \in {"whole", "followed"} =>
        /\ pb.result.ok /\ Received = Stripped(LogEvent, pb.sent)
        /\ pb.result.left = Len(pb.second)
=============================================================================
