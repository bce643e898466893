----------------------------- MODULE NanopbHooks -----------------------------
(***************************************************************************)
(* The functions of the caller inside nanopb (pb_decode.c, pb_encode.c,      *)
(* pb.h): callback fields, which get a stream limited to their value and may *)
(* read any part of it, extension handlers, which are tried one after the    *)
(* other for a field that is not known, and encoding callbacks, which are    *)
(* called once to learn a size and once more to write.  Of a field the model *)
(* keeps its tag, its wire type and how many bytes its value has.            *)
(***************************************************************************)
EXTENDS Integers, Sequences, SequencesExt, FiniteSets

CONSTANTS FieldSizes,     \* bytes of a value
          RawMax,         \* buffer of a raw value, 10 in the code
          MaxFields,      \* bound: fields of a message
          MaxWritten,     \* bound: bytes an encoding callback writes at once
          Room            \* max_size of the output buffer

VARIABLES
    msg,       \* the message: its fields, and how many of its bytes have arrived
    in,        \* pb_istream_t: state (position), bytes_left; the call under way (pc, pos), the field, the substream
    hooks,     \* history: who took which field, and the most that a callback was offered beyond its value
    out        \* pb_ostream_t: what is in the buffer; the submessage under way: its size, how much of it is written; the extension under way

Fixed == 2                                \* bytes of a fixed32
Callback == 1                             \* the tag of the callback field
Data == -1                                \* a byte of a value, where a length cannot be mistaken for it
Custom == 0
Extensions == <<2, Custom, 2>>            \* the default handler twice for a tag, and one of the caller between
FieldTypes == [tag : {Callback, 2, 3}, wire : {"varint", "string", "fixed"}, size : FieldSizes]

\* Bytes of a field: its tag, the length of a string, the value.
Value(f) == IF f.wire = "fixed" THEN Fixed ELSE f.size
Body(f) == IF f.wire = "string" THEN 1 + f.size ELSE Value(f)
SumTo(fields, n) == FoldLeft(LAMBDA a, f : a + 1 + Body(f), 0, SubSeq(fields, 1, n))
Field == msg.fields[in.field]
TooLong == Field.wire = "varint" /\ Field.size > RawMax

-----------------------------------------------------------------------------
Init ==
    /\ msg \in [fields : SeqOf({f \in FieldTypes : f.wire # "varint" \/ f.size > 0}, MaxFields), cut : 0 .. 2]
    /\ in = [state |-> 0, left |-> SumTo(msg.fields, Len(msg.fields)), pc |-> "start", field |-> 0, sub |-> [state |-> 0, left |-> 0], ext |-> 0, pos |-> 0]
    /\ hooks = [took |-> <<>>, over |-> 0]
    /\ out = [pc |-> "idle", bytes |-> <<>>, size |-> 0, wrote |-> 0, ext |-> 0]

\* The last bytes may be missing.
Start ==
    /\ in.pc = "start" /\ msg.cut <= in.left
    /\ in' = [in EXCEPT !.pc = "tag", !.left = @ - msg.cut]
    /\ UNCHANGED <<msg, hooks, out>>

\* pb_read of n bytes: all of them or an error.
Read(n, pc) == IF in.left >= n THEN [in EXCEPT !.state = @ + n, !.left = @ - n, !.pc = pc] ELSE [in EXCEPT !.pc = "failed"]

\* pb_decode_noinit: the field that the tag names; any other goes to the extensions.
DecodeTag ==
    /\ in.pc = "tag" /\ in.left > 0
    /\ in' = [Read(1, IF msg.fields[in.field + 1].tag = Callback THEN "callback" ELSE "extension")
                 EXCEPT !.field = @ + 1, !.ext = 1, !.pos = in.left - 1]
    /\ UNCHANGED <<msg, hooks, out>>

\* The end of the stream is the end of the message.
AtEnd == in.pc = "tag" /\ in.left = 0 /\ in' = [in EXCEPT !.pc = "done"] /\ UNCHANGED <<msg, hooks, out>>

\* pb_make_string_substream: the stream gives up the bytes, its state does not move.
MakeSubstream ==
    /\ in.pc = "callback" /\ Field.wire = "string"
    /\ in' = IF in.left < 1 + Field.size THEN [in EXCEPT !.pc = "failed"]
             ELSE [in EXCEPT !.pc = "calling", !.state = @ + 1, !.left = @ - 1 - Field.size,
                             !.sub = [state |-> in.state + 1, left |-> Field.size]]
    /\ UNCHANGED <<msg, hooks, out>>

\* read_raw_value: the value is copied; it must fit the buffer.
ReadRawValue ==
    /\ in.pc = "callback" /\ Field.wire # "string"
    /\ in' = IF TooLong THEN [in EXCEPT !.pc = "failed"]
             ELSE [Read(Value(Field), "scalar") EXCEPT !.sub = [state |-> 0, left |-> Value(Field)]]
    /\ UNCHANGED <<msg, hooks, out>>

Offered(n) == hooks' = [hooks EXCEPT !.over = IF n > Value(Field) THEN n - Value(Field) ELSE @,
                                     !.took = IF in.sub.left = Value(Field) THEN Append(@, <<in.field, 0>>) ELSE @]

\* The caller's function reads k bytes; it is called again while some are left, so it has to read or fail.
CallbackReads(k) ==
    /\ in.pc = "calling" /\ k <= in.sub.left /\ (k > 0 \/ in.sub.left = 0)
    /\ in' = [in EXCEPT !.sub = [state |-> @.state + k, left |-> @.left - k],
                        !.pc = IF in.sub.left = k THEN "close" ELSE "calling"]
    /\ Offered(in.sub.left)
    /\ UNCHANGED <<msg, out>>

\* No function is set: pb_skip_field.
CallbackUnset == in.pc = "callback" /\ in' = Read(Body(Field), "tag") /\ UNCHANGED <<msg, hooks, out>>

CallbackFails == in.pc = "calling" /\ in' = [in EXCEPT !.pc = "failed"] /\ UNCHANGED <<msg, hooks, out>>

CloseKeepsState == in.state
\* pb_close_string_substream: the stream goes on where the substream ends.
CloseState == in.sub.state + in.sub.left

CloseSubstream ==
    /\ in.pc = "close"
    /\ in' = [in EXCEPT !.state = CloseState, !.pc = "tag"]
    /\ UNCHANGED <<msg, hooks, out>>

\* A scalar is offered once; what the callback leaves of the copy does not matter.
CallbackScalar(ok) ==
    /\ in.pc = "scalar"
    /\ in' = [in EXCEPT !.pc = IF ok THEN "tag" ELSE "failed"]
    /\ Offered(in.sub.left)
    /\ UNCHANGED <<msg, out>>

-----------------------------------------------------------------------------
\* Reads all of the field, or fails.
Consume(took) ==
    /\ in' = IF TooLong THEN [in EXCEPT !.pc = "failed"] ELSE [Read(Body(Field), "extension") EXCEPT !.ext = @ + 1]
    /\ hooks' = [hooks EXCEPT !.took = IF in'.pc # "failed" THEN Append(@, <<in.field, took>>) ELSE @]

UntakenAlways == TRUE
\* Nothing has been read since the tag: nobody has taken the field.
Untaken == in.left = in.pos

\* default_extension_decoder, or a function of the caller, which may leave any field alone.
DecodeExtension ==
    /\ in.pc = "extension" /\ in.ext <= Len(Extensions) /\ Untaken
    /\ \/ Extensions[in.ext] = Field.tag /\ Consume(in.ext)
       \/ Extensions[in.ext] = Custom /\ Consume(in.ext)
       \/ Extensions[in.ext] # Field.tag /\ in' = [in EXCEPT !.ext = @ + 1] /\ UNCHANGED hooks
    /\ UNCHANGED <<msg, out>>

\* Somebody has taken it, or nobody wants it: pb_skip_field.
AfterExtensions ==
    /\ in.pc = "extension"
    /\ \/ ~Untaken /\ in' = [in EXCEPT !.pc = "tag"]
       \/ in.ext > Len(Extensions) /\ Untaken /\ in' = Read(Body(Field), "tag")
    /\ UNCHANGED <<msg, hooks, out>>

-----------------------------------------------------------------------------
\* pb_encode_submessage: the callback is called with a stream that only counts; then the length is written.
SizingPass(n) ==
    /\ in.pc = "start" /\ msg.fields = <<>> /\ out.pc = "idle" /\ Len(out.bytes) < Room
    /\ out' = [out EXCEPT !.bytes = Append(@, n), !.size = n, !.wrote = 0,
                          !.pc = IF Len(out.bytes) + 1 + n > Room THEN "failed" ELSE "writing"]
    /\ UNCHANGED <<msg, in, hooks>>

\* The callback is called once more, with a substream of that size; it need not write what it wrote before,
\* and it may overlook that a pb_write has failed.
CallbackWrites(n) ==
    /\ out.pc = "writing"
    /\ out' = IF out.wrote + n > out.size THEN [out EXCEPT !.pc = "full"]
              ELSE [out EXCEPT !.wrote = @ + n, !.bytes = @ \o [k \in 1 .. n |-> Data]]
    /\ UNCHANGED <<msg, in, hooks>>

AcceptedIfFits == TRUE
\* Fewer bytes than the length says are an error too.
Accepted == out.wrote = out.size

CallbackReturns ==
    /\ out.pc \in {"writing", "full"}
    /\ out' = [out EXCEPT !.pc = IF Accepted THEN "idle" ELSE "failed"]
    /\ UNCHANGED <<msg, in, hooks>>

\* encode_extension_field: the extensions of the message write themselves, in the order of the list.
BeginExtensions ==
    /\ in.pc = "start" /\ msg.fields = <<>> /\ out.pc = "idle" /\ Len(out.bytes) < Room
    /\ out' = [out EXCEPT !.pc = "walking", !.ext = 1]
    /\ UNCHANGED <<msg, in, hooks>>

\* encode_field: a length and as many bytes; where they do not fit the length alone may be in the buffer.
Fits(n) == Len(out.bytes) + 1 + n <= Room
Whole(n) == [out EXCEPT !.bytes = (@ \o <<n>>) \o [k \in 1 .. n |-> Data], !.ext = @ + 1]
Partial(n) == [out EXCEPT !.bytes = IF Len(@) < Room THEN Append(@, n) ELSE @]

\* status is false: the walk ends and pb_encode fails.
Unsuccessful(o) == [o EXCEPT !.pc = "failed"]

\* default_extension_encoder, or a function of the caller, which may fail when it has written a part.
EncodeExtension(n) ==
    /\ out.pc = "walking" /\ out.ext <= Len(Extensions)
    /\ \/ Fits(n) /\ out' = Whole(n)
       \/ (~Fits(n) \/ Extensions[out.ext] = Custom) /\ out' = Unsuccessful(Partial(n))
    /\ UNCHANGED <<msg, in, hooks>>

EndExtensions ==
    /\ out.pc = "walking" /\ out.ext > Len(Extensions)
    /\ out' = [out EXCEPT !.pc = "idle", !.ext = 0]
    /\ UNCHANGED <<msg, in, hooks>>

Next ==
    \/ Start \/ DecodeTag \/ AtEnd \/ MakeSubstream \/ ReadRawValue \/ CallbackUnset \/ CallbackFails \/ CloseSubstream
    \/ \E k \in 0 .. in.sub.left : CallbackReads(k)
    \/ \E ok \in BOOLEAN : CallbackScalar(ok)
    \/ DecodeExtension \/ AfterExtensions
    \/ \E n \in 0 .. MaxWritten : SizingPass(n) \/ CallbackWrites(n) \/ EncodeExtension(n)
    \/ CallbackReturns \/ BeginExtensions \/ EndExtensions

Spec == Init /\ [][Next]_<<msg, in, hooks, out>>

-----------------------------------------------------------------------------
\* pb_istream_t: where it is and how much is left, of the message and of the substream of a string.
pb_istream_t(s) == s.state \in Nat /\ s.left \in Nat

\* pb_ostream_t: the bytes written fit into the buffer.
pb_ostream_t(s) == Len(s.bytes) <= Room /\ s.wrote \in Nat

(* Positions are within the message.                                        *)
TypeOK ==
    /\ pb_istream_t(in) /\ pb_istream_t(in.sub)
    /\ in.field \in 0 .. Len(msg.fields) /\ in.ext \in 0 .. Len(Extensions) + 1
    /\ pb_ostream_t(out)

(* Between two fields the stream is at the first byte of the next one, and   *)
(* the bytes it has left are those of the rest, whatever part of a value a   *)
(* callback has read and whoever has taken the field.                        *)
FieldsAligned ==
    in.pc \in {"tag", "done"} =>
        /\ in.state = SumTo(msg.fields, in.field)
        /\ in.state + in.left = SumTo(msg.fields, Len(msg.fields)) - msg.cut

(* A field is taken by one handler: the first that matches it or the         *)
(* callback of its tag; and no callback is offered more than its value.      *)
TakenOnce ==
    /\ \A i, j \in 1 .. Len(hooks.took) : hooks.took[i][1] = hooks.took[j][1] => hooks.took[i] = hooks.took[j]
    /\ hooks.over = 0

(* Messages written one after the other can be read back: every length that *)
(* was written is followed by as many bytes and then the next length or the  *)
(* end, even when the data of a callback changes between the pass that       *)
(* counts and the pass that writes, or the callback overlooks an error; and  *)
(* where one extension of several fails the message is not taken as written. *)
SubmessagesWhole ==
    out.pc = "idle" =>
        LET lengths == {i \in 1 .. Len(out.bytes) : out.bytes[i] # Data}
        IN  /\ out.bytes # <<>> => 1 \in lengths
            /\ \A i \in lengths : i + 1 + out.bytes[i] \in lengths \cup {Len(out.bytes) + 1}
            /\ \A i, j \in lengths : i < j => j > i + out.bytes[i]
=============================================================================
