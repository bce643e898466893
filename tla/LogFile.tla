------------------------------- MODULE LogFile -------------------------------
(***************************************************************************)
(* The format of leveldb's log and MANIFEST files: log::Writer cuts records *)
(* into fragments that never cross a block, log::Reader puts them together  *)
(* again, from files that a crash has cut short, that were damaged, or that *)
(* a later Writer has continued.                                            *)
(*                                                                          *)
(* A file is a sequence of cells.  A header is three cells: the checksum    *)
(* (four bytes, with what it was computed from as its value), the length    *)
(* and the type; a record of size n has n payload cells of its own.         *)
(***************************************************************************)
EXTENDS Integers, Sequences, FiniteSetsExt, SequencesExt

CONSTANTS BlockSize,    \* kBlockSize, in cells
          Sizes,        \* sizes of records
          MaxRecords,   \* bound: records added
          Offsets       \* initial_offset of the reader

VARIABLES
    log,        \* the file
    records,    \* records added so far: their size, where they begin and end (0: cut off)
    left,       \* cells of the current record still to be written, -1 between records
    fault,      \* history: what happened to the file, in which block, after how many records
    reader,     \* the state of log::Reader, or none before it is opened
    got,        \* records returned by ReadRecord
    reported    \* ReportDrop has been called

logvars == <<log, records, left, fault, reader, got, reported>>

HeaderSize == 3
Zero == [zero |-> 0]
Bad == [bad |-> 0]
Closed == [open |-> FALSE]
NoFault == [kind |-> "none", block |-> 0, kept |-> 0]

-----------------------------------------------------------------------------
(* log::Writer.                                                             *)
block_offset == Len(log) % BlockSize
leftover == BlockSize - block_offset

Trailer == IF leftover < HeaderSize THEN [i \in 1 .. leftover |-> Zero] ELSE << >>
avail == (IF leftover < HeaderSize THEN BlockSize ELSE leftover) - HeaderSize

Payload(n, from, len) == [i \in 1 .. len |-> [rec |-> n, at |-> from + i]]

EmitPhysicalRecord(type, payload) ==
    <<[crc |-> <<type, payload>>], [len |-> Len(payload)], [type |-> type]>> \o payload

RecordTypeNoEnd(begin, end) ==
    IF begin /\ end THEN "full" ELSE IF begin THEN "first" ELSE "middle"

RecordType(begin, end) ==
    CASE begin /\ end -> "full"
      [] begin /\ ~end -> "first"
      [] ~begin /\ end -> "last"
      [] OTHER -> "middle"

AddFragment(n, size, begin) ==
    LET len == IF left < avail THEN left ELSE avail
    IN /\ log' = log \o Trailer
                     \o EmitPhysicalRecord(RecordType(begin, len = left), Payload(n, size - left, len))
       /\ left' = IF len = left THEN -1 ELSE left - len
       /\ records' = [records EXCEPT ![n].end = IF len = left THEN Len(log') ELSE 0]

\* the do-while loop of AddRecord: a record of size 0 has one fragment too
AddRecord(size) ==
    /\ reader = Closed /\ left = -1 /\ Len(records) < MaxRecords
    /\ left' = size
    /\ records' = Append(records, [size |-> size, at |-> Len(log) + Len(Trailer), end |-> 0])
    /\ UNCHANGED <<log, fault, reader, got, reported>>

AddNextFragment ==
    /\ reader = Closed /\ left >= 0
    /\ LET r == Last(records)
       IN AddFragment(Len(records), r.size, left = r.size /\ Len(log) <= r.at)
    /\ UNCHANGED <<fault, reader, got, reported>>

-----------------------------------------------------------------------------
(* Faults: a crash of the machine leaves a part of the file; a cell turns   *)
(* into anything or into zero.  A Writer with dest_length goes on with a file that was cut.    *)
Cut(n) ==
    /\ reader = Closed /\ fault = NoFault /\ n < Len(log)
    /\ log' = SubSeq(log, 1, n)
    /\ records' = [i \in 1 .. Len(SelectSeq(records, LAMBDA r : r.at < n)) |->
                      [records[i] EXCEPT !.end = IF @ <= n THEN @ ELSE 0]]
    /\ left' = -1
    /\ fault' = [kind |-> "cut", block |-> n \div BlockSize, kept |-> Len(records')]
    /\ UNCHANGED <<reader, got, reported>>

Damage(n, cell) ==
    /\ reader = Closed /\ fault = NoFault /\ left = -1 /\ n \in 1 .. Len(log) /\ log[n] # cell
    /\ log' = [log EXCEPT ![n] = cell]
    /\ fault' = [kind |-> "damage", block |-> (n - 1) \div BlockSize, kept |-> Len(records)]
    /\ UNCHANGED <<records, left, reader, got, reported>>

-----------------------------------------------------------------------------
(* log::Reader.                                                             *)
BlockStart(initial) ==
    LET off == initial % BlockSize
    IN initial - off + (IF off > BlockSize - (HeaderSize - 1) THEN BlockSize ELSE 0)

\* Reader and SkipToInitialBlock
Open(initial) ==
    /\ reader = Closed
    /\ reader' = [open |-> TRUE, pos |-> BlockStart(initial), end |-> BlockStart(initial),
                  eof |-> FALSE, done |-> FALSE, scratch |-> << >>, fragmented |-> FALSE,
                  resyncing |-> initial > 0, initial |-> initial]
    /\ UNCHANGED <<log, records, left, fault, got, reported>>

Buffered == reader.end - reader.pos
Ready == reader.open /\ ~reader.done

\* ReportDrop of that many bytes, seen from the position reached; the difference
\* is unsigned: below 0 it is past every offset
Reports(pos, bytes) == pos < bytes \/ pos - bytes >= reader.initial

\* buffer_ is refilled; what is left in it is the trailer of its block
FillBuffer ==
    /\ Ready /\ Buffered < HeaderSize /\ ~reader.eof
    /\ LET size == IF Len(log) - reader.end > BlockSize THEN BlockSize
                   ELSE IF Len(log) > reader.end THEN Len(log) - reader.end ELSE 0
       IN reader' = [reader EXCEPT !.pos = reader.end, !.end = reader.end + size,
                                   !.eof = size < BlockSize]
    /\ UNCHANGED <<log, records, left, fault, got, reported>>

ReadError ==
    /\ Ready /\ Buffered < HeaderSize /\ ~reader.eof /\ fault = NoFault
    /\ reader' = [reader EXCEPT !.pos = reader.end, !.eof = TRUE]
    /\ fault' = [kind |-> "read", block |-> reader.end \div BlockSize, kept |-> Len(records)]
    /\ reported' = (reported \/ Reports(reader.end, BlockSize))
    /\ UNCHANGED <<log, records, left, got>>

\* kEof: a record in pieces is forgotten without a report
EndOfFile ==
    /\ reader' = [reader EXCEPT !.pos = reader.end, !.done = TRUE]
    /\ UNCHANGED <<got, reported>>

\* a bad record ends the reading
BadRecordStops(pos, drop) ==
    /\ reader' = [reader EXCEPT !.pos = pos, !.done = TRUE]
    /\ reported' = (reported \/ drop)
    /\ UNCHANGED got

\* kBadRecord, with "drop" reported by ReadPhysicalRecord itself
BadRecord(pos, drop) ==
    /\ reader' = [reader EXCEPT !.pos = pos, !.fragmented = FALSE, !.scratch = << >>, !.resyncing = FALSE]
    /\ reported' = \/ reported \/ drop
                   \/ /\ reader.fragmented /\ ~reader.resyncing
                      /\ Reports(pos, Len(reader.scratch))
    /\ UNCHANGED got

Return(pos, record) ==
    /\ got' = Append(got, record)
    /\ reader' = [reader EXCEPT !.pos = pos, !.fragmented = FALSE, !.scratch = << >>,
                                !.resyncing = FALSE]

\* "partial record without end"
Abandons(pos) ==
    reader.fragmented /\ reader.scratch # << >> /\ Reports(pos, Len(reader.scratch))

Fragment(type, pos, payload) ==
    CASE type = "full" ->
           /\ Return(pos, payload)
           /\ reported' = (reported \/ Abandons(pos))
      [] type = "first" ->
           /\ reader' = [reader EXCEPT !.pos = pos, !.fragmented = TRUE, !.scratch = payload,
                                       !.resyncing = FALSE]
           /\ reported' = (reported \/ Abandons(pos))
           /\ UNCHANGED got
      [] type = "middle" /\ reader.fragmented ->
           /\ reader' = [reader EXCEPT !.pos = pos, !.scratch = @ \o payload]
           /\ UNCHANGED <<got, reported>>
      [] type = "last" /\ reader.fragmented ->
           /\ Return(pos, reader.scratch \o payload)
           /\ UNCHANGED reported
      [] OTHER ->
           /\ reader' = [reader EXCEPT !.pos = pos]
           /\ reported' = (reported \/ Reports(pos, Len(payload)))
           /\ UNCHANGED got

\* while resyncing_, the rest of a record that began before initial_offset_ is passed over
Resync(type, pos) ==
    /\ reader' = [reader EXCEPT !.pos = pos, !.resyncing = (type = "middle")]
    /\ UNCHANGED <<got, reported>>

Lengths(cell) ==
    IF "len" \in DOMAIN cell THEN {cell.len} ELSE IF cell = Zero THEN {0} ELSE 0 .. BlockSize

\* the checksum covers the type but not the payload
ChecksumTypeOnly(crc, type, payload) ==
    "crc" \in DOMAIN crc /\ crc.crc[1] = type

ChecksumOK(crc, type, payload) == crc = [crc |-> <<type, payload>>]

Deliver(type, pos, payload) ==
    IF reader.resyncing /\ type \in {"middle", "last"} THEN Resync(type, pos)
    ELSE Fragment(type, pos, payload)

\* the header says len cells of payload; cells that are no header may say anything
Parse(len) ==
    LET head == reader.pos
        pos == head + HeaderSize + len
        type == log[head + 3]
        payload == SubSeq(log, head + HeaderSize + 1, pos)
    IN IF pos > reader.end
       THEN IF reader.eof THEN EndOfFile ELSE BadRecord(reader.end, Reports(reader.end, Buffered))
       ELSE IF type = Zero /\ len = 0 THEN BadRecord(reader.end, FALSE)
       ELSE IF "type" \notin DOMAIN type
               \/ ("type" \in DOMAIN type /\ ~ChecksumOK(log[head + 1], type.type, payload))
       THEN BadRecord(reader.end, Reports(reader.end, Buffered))
       ELSE IF head < reader.initial THEN BadRecord(pos, FALSE)
       ELSE Deliver(type.type, pos, payload)

\* one turn of the loop of ReadRecord
ReadPhysicalRecord ==
    /\ Ready
    /\ \/ Buffered < HeaderSize /\ reader.eof /\ EndOfFile
       \/ Buffered >= HeaderSize /\ \E len \in Lengths(log[reader.pos + 2]) : Parse(len)
    /\ UNCHANGED <<log, records, left, fault>>

-----------------------------------------------------------------------------
Init ==
    /\ log = << >> /\ records = << >> /\ left = -1
    /\ fault = NoFault
    /\ reader = Closed /\ got = << >> /\ reported = FALSE

Next ==
    \/ \E size \in Sizes : AddRecord(size)
    \/ AddNextFragment
    \/ \E n \in 0 .. Len(log) : Cut(n)
    \/ \E n \in 1 .. Len(log), cell \in {Bad, Zero} : Damage(n, cell)
    \/ \E initial \in Offsets : Open(initial)
    \/ FillBuffer \/ ReadError \/ ReadPhysicalRecord

Spec == Init /\ [][Next]_logvars

-----------------------------------------------------------------------------
\* log::Writer: what is left to write of a record, and the place in the block it goes to.
IsWriter(l) == l \in -1 .. Max(Sizes) /\ block_offset \in 0 .. BlockSize

\* log::Reader, once it is made: the block it has buffered ends at end, pos is in it; scratch is a
\* record put together so far.
IsReader(r) ==
    /\ r.pos <= r.end /\ r.end <= Max({Len(log), r.initial + BlockSize})
    /\ {r.eof, r.done, r.fragmented, r.resyncing} \subseteq BOOLEAN
    /\ r.scratch # << >> => r.fragmented
    /\ r.initial \in Offsets

TypeOK ==
    /\ IsWriter(left)
    /\ fault.kind \in {"none", "cut", "damage", "read"}
    /\ reader.open => IsReader(reader)
    /\ reported \in BOOLEAN

Done == reader.open /\ reader.done
Content(i) == Payload(i, 0, records[i].size)
Whole(i) == records[i].end > 0
Appended == Len(records) > fault.kept
Indices == [i \in 1 .. Len(records) |-> i]

(* A file that is whole, or that a crash has cut short anywhere, reads back *)
(* as the complete records from initial_offset on, in order; read from its  *)
(* start, a torn record at its end is no corruption.  (An initial_offset    *)
(* inside a block makes the reader take the pieces it passes over for bad   *)
(* records, and may report the rest of one as missing its start.)           *)
ReadsBack ==
    Done /\ (fault = NoFault \/ (fault.kind = "cut" /\ ~Appended)) =>
        LET whole == SelectSeq(Indices, LAMBDA i : Whole(i) /\ records[i].at >= reader.initial)
        IN got = [j \in 1 .. Len(whole) |-> Content(whole[j])]
           /\ (reader.initial = 0 => ~reported)

(* Whatever was damaged, cut or appended: a record that is returned is one  *)
(* that was written whole, and order is kept.                               *)
NoForgery ==
    \E f \in [1 .. Len(got) -> {i \in 1 .. Len(records) : Whole(i)}] :
        /\ \A j \in 1 .. Len(got) : got[j] = Content(f[j])
        /\ \A j, k \in 1 .. Len(got) : j < k => f[j] < f[k]

(* A fault costs no record that lies in other blocks: reading takes up      *)
(* again at the next block, also in a file continued after a torn record.   *)
FaultContained ==
    Done /\ reader.initial = 0 =>
        \A i \in 1 .. Len(records) :
            /\ Whole(i)
            /\ \/ records[i].end <= fault.block * BlockSize
               \/ fault.kind # "read" /\ records[i].at >= (fault.block + 1) * BlockSize
            => \E j \in 1 .. Len(got) : got[j] = Content(i)

\* The fault is in a block that is full, and did not make a header of zero type and length, which
\* the reader skips without a word, for the files of an older env_posix.cc.
Noticeable ==
    /\ (fault.block + 1) * BlockSize <= Len(log)
    /\ \A i \in 3 .. Len(log) : log[i] = Zero => log[i - 1] # [len |-> 0]

(* A record lost to damage or to a failed read is reported.  Not so in the  *)
(* last block when it is not full, where the loss is taken for a write that *)
(* a crash has cut short, nor for a header that has become zeros.           *)
LossReported ==
    Done /\ reader.initial = 0 /\ fault.kind # "none" /\ Noticeable =>
        \/ reported
        \/ \A i \in 1 .. Len(records) : Whole(i) => \E j \in 1 .. Len(got) : got[j] = Content(i)
=============================================================================
