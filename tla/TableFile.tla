------------------------------ MODULE TableFile ------------------------------
(***************************************************************************)
(* leveldb's sorted table: TableBuilder writes data blocks with shared key  *)
(* prefixes and restart points, a Bloom filter per range of offsets, an     *)
(* index of shortened separators and a footer; Table and Block::Iter find   *)
(* entries again.  An internal key is a sequence of cells, the last one its *)
(* sequence number; sizes are counted in cells.                             *)
(***************************************************************************)
EXTENDS Integers, Sequences, FiniteSetsExt, SequencesExt

CONSTANTS TableUsers,     \* user keys: sequences of bytes
          MaxByte,        \* 0xff
          MaxTag,         \* kMaxSequenceNumber
          ValueSizes,     \* sizes of values
          block_size,     \* Options
          restart_interval,
          FilterBase,     \* kFilterBase
          TableEntries    \* bound: entries added

VARIABLES
    tb,      \* TableBuilder::Rep and the file it writes
    added,   \* history: the keys passed to Add
    bad      \* the block of the file that cannot be read any more, 0: none

tablevars == <<tb, added, bad>>

TableKeys == { Append(u, tag) : u \in TableUsers, tag \in 1 .. MaxTag }
ExtractUserKey(key) == Front(key)

-----------------------------------------------------------------------------
(* Comparators                                                             *)

CommonPrefix(a, b) == Max({ n \in 0 .. Min({Len(a), Len(b)}) : SubSeq(a, 1, n) = SubSeq(b, 1, n) })

BytewiseLess(a, b) ==
    LET n == CommonPrefix(a, b)
    IN IF n < Min({Len(a), Len(b)}) THEN a[n + 1] < b[n + 1] ELSE Len(a) < Len(b)

\* user keys ascending, sequence numbers descending
Less(a, b) ==
    \/ BytewiseLess(ExtractUserKey(a), ExtractUserKey(b))
    \/ ExtractUserKey(a) = ExtractUserKey(b) /\ Last(a) > Last(b)

BytewiseShortestSeparatorLoose(start, limit) ==
    LET n == CommonPrefix(start, limit)
    IN IF n < Min({Len(start), Len(limit)}) /\ start[n + 1] < MaxByte
       THEN Append(SubSeq(start, 1, n), start[n + 1] + 1) ELSE start

BytewiseShortestSeparator(start, limit) ==
    LET n == CommonPrefix(start, limit)
    IN IF n < Min({Len(start), Len(limit)}) /\ start[n + 1] < MaxByte /\ start[n + 1] + 1 < limit[n + 1]
       THEN Append(SubSeq(start, 1, n), start[n + 1] + 1) ELSE start

BytewiseShortSuccessor(key) ==
    LET smaller == { i \in 1 .. Len(key) : key[i] # MaxByte }
    IN IF smaller = {} THEN key
       ELSE Append(SubSeq(key, 1, Min(smaller) - 1), key[Min(smaller)] + 1)

\* the shortened user key is taken only if shorter and larger
Shortened(key, user) ==
    IF Len(user) < Len(key) - 1 /\ BytewiseLess(ExtractUserKey(key), user) THEN Append(user, MaxTag) ELSE key

FindShortestSeparator(start, limit) ==
    Shortened(start, BytewiseShortestSeparator(ExtractUserKey(start), ExtractUserKey(limit)))

FindShortSuccessor(key) == Shortened(key, BytewiseShortSuccessor(ExtractUserKey(key)))

-----------------------------------------------------------------------------
(* BlockBuilder                                                            *)

EmptyBlock == [entries |-> << >>, size |-> 0, restarts |-> <<0>>, counter |-> 0, last_key |-> << >>]

CurrentSizeEstimate(b) == b.size + Len(b.restarts) + 1

\* an entry: where it is, its shared and its own cells of the key, the value and its size
EntrySize(e) == 3 + Len(e.delta) + e.size

AddEntry(b, restart, shared, key, value, size) ==
    LET e == [at |-> b.size, shared |-> shared, delta |-> SubSeq(key, shared + 1, Len(key)),
              value |-> value, size |-> size]
    IN [entries |-> Append(b.entries, e), size |-> b.size + EntrySize(e),
        restarts |-> IF restart THEN Append(b.restarts, b.size) ELSE b.restarts,
        counter |-> IF restart THEN 1 ELSE b.counter + 1, last_key |-> key]

BlockAddShares(b, interval, key, value, size) ==
    AddEntry(b, b.counter >= interval, CommonPrefix(b.last_key, key), key, value, size)

BlockAdd(b, interval, key, value, size) ==
    AddEntry(b, b.counter >= interval,
             IF b.counter < interval THEN CommonPrefix(b.last_key, key) ELSE 0, key, value, size)

-----------------------------------------------------------------------------
(* Bloom filters and the filter block                                      *)

bits_per_key == 3
Probes == 2
MinBits == 8

\* any function of the user key would do
BloomHash(user) == FoldLeft(LAMBDA h, byte : (h + byte) * 7 % 64, Len(user) * 7, user)

ProbedBits(user, bits) ==
    LET h == BloomHash(user)
        delta == h \div 8 + (h % 8) * 8
    IN { ((h + j * delta) % 64) % bits : j \in 0 .. Probes - 1 }

CreateFilter(keys) ==
    LET bits == Max({Len(keys) * bits_per_key, MinBits})
    IN [bits |-> bits, set |-> UNION { ProbedBits(ExtractUserKey(keys[i]), bits) : i \in 1 .. Len(keys) }]

NoFilter == [bits |-> 0, set |-> {}]
EmptyFilter == [filters |-> << >>, keys |-> << >>]

BloomMayMatch(key, filter) ==
    filter.bits > 0 /\ ProbedBits(ExtractUserKey(key), filter.bits) \subseteq filter.set

\* f: filters generated so far, keys of the next one
GenerateFilter(f) ==
    [filters |-> Append(f.filters, IF f.keys = << >> THEN NoFilter ELSE CreateFilter(f.keys)),
     keys |-> << >>]

RECURSIVE StartBlock(_, _)
StartBlock(f, offset) ==
    IF offset \div FilterBase > Len(f.filters) THEN StartBlock(GenerateFilter(f), offset) ELSE f

FilterFinish(f) == IF f.keys = << >> THEN f.filters ELSE GenerateFilter(f).filters

\* offsets past the last filter: a potential match
FilterMayMatch(filters, offset, key) ==
    LET i == offset \div FilterBase + 1
    IN i <= Len(filters) => BloomMayMatch(key, filters[i])

-----------------------------------------------------------------------------
(* TableBuilder                                                            *)

kBlockTrailerSize == 1
None == [at |-> -1, size |-> 0]
NoFooter == [meta |-> None, index |-> None]

HandleOfNext(t, size) == [at |-> t.offset, size |-> size]

\* Snappy is asked for by default and is not compiled in: its functions do nothing and fail
kSnappyCompression == "snappy"
kNoCompression == "none"
Snappy_Compress == FALSE
Snappy_Uncompress == FALSE

TypeAsked == kSnappyCompression

\* WriteBlock: what could not be compressed is stored as it is, and says so
TypeStored == IF Snappy_Compress THEN kSnappyCompression ELSE kNoCompression

WriteRawBlock(t, contents, type, size, good) ==
    IF good THEN [t EXCEPT !.file = Append(@, [handle |-> HandleOfNext(t, size), type |-> type, contents |-> contents]),
                           !.offset = @ + size + kBlockTrailerSize]
    ELSE [t EXCEPT !.ok = FALSE]

\* the block is reset and the filter started whether or not the write succeeded
AfterWrite(t, handle, io) ==
    [t EXCEPT !.block = EmptyBlock, !.pending = t.ok, !.handle = handle,
              !.ok = @ /\ io # "flush", !.filter = StartBlock(@, t.offset)]

Flush(t, io) ==
    IF ~t.ok \/ t.block.entries = << >> THEN t
    ELSE AfterWrite(WriteRawBlock(t, t.block, TypeStored, CurrentSizeEstimate(t.block), io # "append"),
                    HandleOfNext(t, CurrentSizeEstimate(t.block)), io)

IndexEntry(t, key) ==
    IF t.pending THEN [t EXCEPT !.index = BlockAdd(@, 1, key, t.handle, 2), !.pending = FALSE] ELSE t

AddKey(t, key, size) ==
    [t EXCEPT !.filter.keys = Append(@, key), !.last_key = key,
              !.block = BlockAdd(@, restart_interval, key, Len(added) + 1, size)]

FlushFull(t, io) == IF CurrentSizeEstimate(t.block) >= block_size THEN Flush(t, io) ELSE t

IO == {"ok", "append", "flush"}

Add(key, size, io) ==
    /\ ~tb.closed /\ Len(added) < TableEntries
    /\ added # << >> => Less(Last(added), key)
    /\ added' = Append(added, key)
    /\ tb' = IF ~tb.ok THEN tb
             ELSE FlushFull(AddKey(IndexEntry(tb, FindShortestSeparator(tb.last_key, key)), key, size), io)
    /\ UNCHANGED bad

WriteFilter(t, good) ==
    IF t.ok THEN [WriteRawBlock(t, FilterFinish(t.filter), kNoCompression, Len(FilterFinish(t.filter)) + 1, good)
                    EXCEPT !.meta = HandleOfNext(t, Len(FilterFinish(t.filter)) + 1)]
    ELSE t

\* meta: the handle of the filter until the metaindex block names it
WriteMetaindex(t, good) ==
    IF t.ok THEN [WriteRawBlock(t, t.meta, TypeStored, 1, good) EXCEPT !.meta = HandleOfNext(t, 1)] ELSE t

WriteIndexOf(t, good) ==
    [WriteRawBlock(t, t.index, TypeStored, CurrentSizeEstimate(t.index), good)
        EXCEPT !.handle = HandleOfNext(t, CurrentSizeEstimate(t.index))]

WriteIndex(t, good) ==
    IF t.ok THEN WriteIndexOf(IndexEntry(t, FindShortSuccessor(t.last_key)), good) ELSE t

WriteFooter(t, good) ==
    IF t.ok THEN [t EXCEPT !.ok = good, !.footer = IF good THEN [meta |-> t.meta, index |-> t.handle] ELSE @]
    ELSE t

\* fails: the first write that fails, 6: none
Finish(io, fails) ==
    /\ ~tb.closed
    /\ tb' = [WriteFooter(WriteIndex(WriteMetaindex(WriteFilter(Flush(tb, io), fails # 2), fails # 3),
                                     fails # 4), fails # 5)
                EXCEPT !.closed = TRUE]
    /\ UNCHANGED <<added, bad>>

Abandon ==
    /\ ~tb.closed
    /\ tb' = [tb EXCEPT !.closed = TRUE, !.ok = FALSE]
    /\ UNCHANGED <<added, bad>>

\* a block becomes unreadable: reads of it fail, are short or fail the checksum
Damage ==
    /\ tb.closed /\ tb.ok /\ bad = 0
    /\ bad' \in 1 .. Len(tb.file)
    /\ UNCHANGED <<tb, added>>

-----------------------------------------------------------------------------
(* Block::Iter.  x: offset of the current entry, index of its restart       *)
(* block, key, value, offset of the next entry                              *)

Num(b) == Len(b.restarts)
Invalid(b) == [current |-> b.size, restart |-> Num(b), key |-> << >>, value |-> 0, next |-> b.size]
Valid(b, x) == x.current < b.size

SeekToRestartPoint(b, i) ==
    [current |-> b.size, restart |-> i, key |-> << >>, value |-> 0, next |-> b.restarts[i + 1]]

DecodeEntry(b, offset) == CHOOSE e \in ToSet(b.entries) : e.at = offset

\* restart_index_ moves to the last restart point before the entry
RestartOf(b, x, offset) ==
    Max({x.restart} \union { i \in x.restart + 1 .. Num(b) - 1 :
                               \A j \in x.restart + 1 .. i : b.restarts[j + 1] < offset })

Parsed(b, x, e) ==
    IF e.shared > Len(x.key) THEN Invalid(b)
    ELSE [current |-> e.at, restart |-> RestartOf(b, x, e.at),
          key |-> SubSeq(x.key, 1, e.shared) \o e.delta, value |-> e.value, next |-> e.at + EntrySize(e)]

ParseNextKey(b, x) ==
    IF x.next >= b.size THEN Invalid(b) ELSE Parsed(b, x, DecodeEntry(b, x.next))

RECURSIVE Narrow(_, _, _, _)
Narrow(b, target, left, right) ==
    IF left >= right THEN left
    ELSE LET mid == (left + right + 1) \div 2
         IN IF Less(DecodeEntry(b, b.restarts[mid + 1]).delta, target)
            THEN Narrow(b, target, mid, right) ELSE Narrow(b, target, left, mid - 1)

RECURSIVE ParseUntil(_, _, _)
ParseUntil(b, x, target) ==
    LET y == ParseNextKey(b, x)
    IN IF ~Valid(b, y) \/ ~Less(y.key, target) THEN y ELSE ParseUntil(b, y, target)

Seek(b, target) ==
    IF b.entries = << >> THEN Invalid(b)
    ELSE ParseUntil(b, SeekToRestartPoint(b, Narrow(b, target, 0, Num(b) - 1)), target)

RECURSIVE ParseUpTo(_, _, _)
ParseUpTo(b, x, limit) ==
    LET y == ParseNextKey(b, x)
    IN IF Valid(b, y) /\ y.next < limit THEN ParseUpTo(b, y, limit) ELSE y

Prev(b, x) ==
    LET before == { i \in 0 .. x.restart : b.restarts[i + 1] < x.current }
    IN IF before = {} THEN Invalid(b)
       ELSE ParseUpTo(b, SeekToRestartPoint(b, Max(before)), x.current)

SeekToFirst(b) == ParseNextKey(b, SeekToRestartPoint(b, 0))
SeekToLast(b) == ParseUpTo(b, SeekToRestartPoint(b, Num(b) - 1), b.size)

-----------------------------------------------------------------------------
(* Table                                                                   *)

BlockNumber(handle) == CHOOSE i \in 1 .. Len(tb.file) : tb.file[i].handle = handle
\* the checksum covers the type; a block of Snappy would have to be uncompressed
Readable(handle) ==
    BlockNumber(handle) # bad /\ (tb.file[BlockNumber(handle)].type = kSnappyCompression => Snappy_Uncompress)
ReadBlock(handle) == tb.file[BlockNumber(handle)].contents

Opens == tb.footer.index # None /\ Readable(tb.footer.index)
Index == ReadBlock(tb.footer.index)

\* an unreadable metaindex or filter is done without
HasFilter == Readable(tb.footer.meta) /\ Readable(ReadBlock(tb.footer.meta))

Filters == ReadBlock(ReadBlock(tb.footer.meta))

KeyMayMatch(offset, key) == HasFilter => FilterMayMatch(Filters, offset, key)

\* the answer of a search in a block: the number of the entry, 0: none, -1: error
FoundIn(handle, key) == IF Readable(handle) THEN Seek(ReadBlock(handle), key).value ELSE -1

\* an unreadable block looks like one without the key
InternalGetQuiet(key) ==
    LET at == Seek(Index, key)
    IN IF ~Valid(Index, at) \/ ~KeyMayMatch(at.value.at, key) THEN 0 ELSE Max({0, FoundIn(at.value, key)})

InternalGet(key) ==
    LET at == Seek(Index, key)
    IN IF ~Valid(Index, at) \/ ~KeyMayMatch(at.value.at, key) THEN 0 ELSE FoundIn(at.value, key)

ApproximateOffsetOf(key) ==
    LET at == Seek(Index, key)
    IN IF Valid(Index, at) THEN at.value.at ELSE tb.footer.meta.at

-----------------------------------------------------------------------------
Init ==
    /\ tb = [block |-> EmptyBlock, index |-> EmptyBlock, filter |-> EmptyFilter,
             last_key |-> << >>, pending |-> FALSE, handle |-> None, meta |-> None, offset |-> 0,
             ok |-> TRUE, closed |-> FALSE, file |-> << >>, footer |-> NoFooter]
    /\ added = << >> /\ bad = 0

\* The calls of a TableBuilder.
Build ==
    \/ \E key \in TableKeys, size \in ValueSizes, io \in IO : Add(key, size, io)
    \/ \E io \in IO, fails \in 2 .. 6 : Finish(io, fails)
    \/ Abandon

Next == Build \/ Damage

Spec == Init /\ [][Next]_tablevars

-----------------------------------------------------------------------------
\* A Slice: bytes.  Keys, shared prefixes and shortened separators are all of this type.
Slice == Seq(1 .. Max({MaxByte, MaxTag}))

\* BlockBuilder: entries, the offsets of the restarts, the entries since the last one.
IsBlockBuilder(b) ==
    /\ b.last_key \in Slice /\ b.restarts \in Seq(0 .. b.size) /\ b.restarts # << >>
    /\ \A i \in 1 .. Len(b.entries) : b.entries[i].at < b.size

\* TableBuilder::Rep: no key waits in the block while the index entry of the last one is pending.
IsRep(t) ==
    /\ IsBlockBuilder(t.block) /\ t.block.counter <= restart_interval
    /\ IsBlockBuilder(t.index)
    /\ t.pending => t.block.entries = << >>
    /\ t.last_key \in Slice
    /\ {t.ok, t.closed, t.pending} \subseteq BOOLEAN

\* A Footer that can be decoded names two blocks of the file; without one it is not there.
IsFooter(f) == f = NoFooter \/ \E i, j \in 1 .. Len(tb.file) : f.meta = tb.file[i].handle /\ f.index = tb.file[j].handle

TypeOK ==
    /\ Len(added) <= TableEntries /\ bad \in 0 .. Len(tb.file)
    /\ IsRep(tb) /\ IsFooter(tb.footer)

Complete == tb.closed /\ tb.ok

\* the caller drops an entry of another user key
Answer(n, key) == IF n > 0 THEN (IF ExtractUserKey(added[n]) = ExtractUserKey(key) THEN n ELSE 0) ELSE n

FirstAtOrAfter(key) == Min({Len(added) + 1} \union { i \in 1 .. Len(added) : ~Less(added[i], key) })

Expected(key) ==
    LET i == FirstAtOrAfter(key) IN IF i > Len(added) THEN 0 ELSE Answer(i, key)

(* A table that Finish reports good answers every lookup with the newest    *)
(* entry of the user key at or below the sequence number: no separator      *)
(* misdirects the search, no filter hides an entry, and nothing that Add    *)
(* was given was lost to a failed write.                                    *)
GetExact == Complete /\ bad = 0 => Opens /\ \A key \in TableKeys : Answer(InternalGet(key), key) = Expected(key)

(* When a block has become unreadable, opening fails or each lookup gives   *)
(* the right answer or an error, never "not found" for an entry that was    *)
(* written; a lost filter costs no answers.                                 *)
DamageTold ==
    Complete /\ bad > 0 /\ Opens =>
        \A key \in TableKeys :
            \/ Answer(InternalGet(key), key) = Expected(key)
            \/ InternalGet(key) = -1 /\ HasFilter

\* the block that the index names for its i-th entry
DataBlock(i) == ReadBlock(Index.entries[i].value)

\* entries of the block, by walking it from the first on
RECURSIVE Walk(_, _)
Walk(b, x) == IF Valid(b, x) THEN <<x>> \o Walk(b, ParseNextKey(b, x)) ELSE << >>

(* Block iterators move exactly: from any entry, reached by Next or by a    *)
(* Seek, Prev leads to the entry before it and restores the full key from   *)
(* the shared prefixes; the blocks laid end to end are what was added; and  *)
(* approximate offsets grow with the key.                                   *)
ScanExact ==
    Complete /\ bad = 0 =>
        /\ FoldLeft(LAMBDA s, i : s \o [j \in 1 .. Len(DataBlock(i).entries) |-> 
                                           Walk(DataBlock(i), SeekToFirst(DataBlock(i)))[j].key],
                    << >>, [i \in 1 .. Len(Index.entries) |-> i]) = added
        /\ \A i \in 1 .. Len(Index.entries) :
              LET b == DataBlock(i)
                  all == Walk(b, SeekToFirst(b))
              IN /\ SeekToLast(b).value = Last(all).value
                 /\ \A j \in 1 .. Len(all) :
                       /\ Seek(b, all[j].key).value = all[j].value
                       /\ \A x \in {all[j], Seek(b, all[j].key)} :
                             Prev(b, x).key = IF j = 1 THEN << >> ELSE all[j - 1].key
        /\ \A k1, k2 \in TableKeys : Less(k1, k2) => ApproximateOffsetOf(k1) <= ApproximateOffsetOf(k2)
=============================================================================
