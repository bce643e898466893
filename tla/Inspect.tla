------------------------------- MODULE Inspect -------------------------------
(***************************************************************************)
(* What leveldb shows of itself: DumpFile (db/dumpfile.cc) lists a log, a    *)
(* MANIFEST or a table, damaged or not, and GetProperty (db/db_impl.cc)      *)
(* answers questions about an open database.  A line is a tuple of its       *)
(* parts; only keys and values are text, since only they are escaped.  The   *)
(* records of a file are given as Log, Codec and TableFile read them: whole, *)
(* malformed, or lost to damage.                                             *)
(***************************************************************************)
EXTENDS Integers, Sequences, SequencesExt, FiniteSets, FiniteSetsExt

CONSTANTS kNumLevels,
          MaxShown,      \* bound: records of a file, files of a level
          MaxQuestions   \* the largest level that is asked for

VARIABLES
    looked,   \* what is looked at: a file with its records, or an open database
    dump      \* the call: its stage, the next record, what is open, what was appended

None == -1

-----------------------------------------------------------------------------
(* Keys and values: printable bytes and others.                             *)
Printable == {"a", "b"}
Slices == {<<>>, <<"a">>, <<"a", "nul">>}

\* a byte that is not printable as \x and its digits; a backslash itself is
\* printable and is not escaped, so Slices has none
AppendEscapedStringTo(value) ==
    FlattenSeq([i \in DOMAIN value |->
                   IF value[i] \in Printable THEN <<value[i]>> ELSE <<"\\x", value[i]>>])

\* an internal key: ParseInternalKey refuses one that is short or of no known type
GoodKey(user, seq, type) == [ok |-> TRUE, user |-> user, seq |-> seq, type |-> type]
BadKey(rep) == [ok |-> FALSE, rep |-> rep]

KeyDebugString(k) ==
    IF k.ok THEN <<"key", AppendEscapedStringTo(k.user), k.seq, k.type>>
    ELSE <<"(bad)", AppendEscapedStringTo(k.rep)>>

-----------------------------------------------------------------------------
(* Records as they come from the log or the table.                          *)
Ops == {[type |-> "put", key |-> k, value |-> <<"a">>] : k \in Slices} \cup {[type |-> "del", key |-> <<"a">>]}
Batches == {[kind |-> "batch", seq |-> 7, ops |-> <<o>>, bad |-> b] : o \in Ops, b \in BOOLEAN}
           \cup {[kind |-> "short"], [kind |-> "damage"]}

Key1 == GoodKey(<<"a", "nul">>, 7, "val")
NoEdit == [comparator |-> None, log |-> None, prev |-> None, next |-> None, last |-> None,
           pointers |-> <<>>, deleted |-> {}, new |-> <<>>]
Edits == {NoEdit, [NoEdit EXCEPT !.log = 4], [NoEdit EXCEPT !.prev = 4],
          [NoEdit EXCEPT !.comparator = 1, !.next = 5, !.last = 7],
          [NoEdit EXCEPT !.deleted = {<<0, 3>>, <<1, 2>>}, !.pointers = <<<<0, Key1>>>>],
          [NoEdit EXCEPT !.new = <<[level |-> 1, number |-> 3, size |-> 9, smallest |-> Key1, largest |-> BadKey(<<"b">>)]>>]}
EditRecords == {[kind |-> "edit", edit |-> e] : e \in Edits} \cup {[kind |-> "malformed"], [kind |-> "damage"]}

Entries == {[kind |-> "entry", key |-> k, value |-> v] :
               k \in {Key1, GoodKey(<<"a">>, 6, "del"), BadKey(<<"nul">>)}, v \in {<<>>, <<"b">>}}
           \cup {[kind |-> "damage"]}

Records == [log |-> Batches, descriptor |-> EditRecords, table |-> Entries]
Kinds == {"log", "descriptor", "table", "current", "unknown", "db"}

-----------------------------------------------------------------------------
(* The printers, each from one record to the lines it appends.              *)
WriteBatchItemPrinter(op) ==
    IF op.type = "put" THEN <<"put", AppendEscapedStringTo(op.key), AppendEscapedStringTo(op.value)>>
    ELSE <<"del", AppendEscapedStringTo(op.key)>>

WriteBatchPrinterSilent(pos, r) ==
    IF r.kind = "short" THEN <<<<"too small", pos>>>>
    ELSE <<<<"sequence", pos, r.seq>>>> \o [i \in DOMAIN r.ops |-> WriteBatchItemPrinter(r.ops[i])]

\* what Iterate read before it met an error is shown first
WriteBatchPrinter(pos, r) ==
    IF r.kind = "short" THEN <<<<"too small", pos>>>>
    ELSE <<<<"sequence", pos, r.seq>>>> \o [i \in DOMAIN r.ops |-> WriteBatchItemPrinter(r.ops[i])]
         \o (IF r.bad THEN <<<<"error", pos>>>> ELSE <<>>)

Field(label, v) == IF v = None THEN <<>> ELSE <<<<label, v>>>>

VersionEditDebugString(e) ==
    Field("Comparator", e.comparator) \o Field("LogNumber", e.log) \o Field("PrevLogNumber", e.prev)
    \o Field("NextFile", e.next) \o Field("LastSeq", e.last)
    \o [i \in DOMAIN e.pointers |-> <<"CompactPointer", e.pointers[i][1], KeyDebugString(e.pointers[i][2])>>]
    \o [i \in 1 .. Cardinality(e.deleted) |->
           <<"DeleteFile", SetToSortSeq(e.deleted, LAMBDA a, b : a[1] < b[1] \/ (a[1] = b[1] /\ a[2] < b[2]))[i]>>]
    \o [i \in DOMAIN e.new |-> <<"AddFile", e.new[i].level, e.new[i].number, e.new[i].size,
                                 KeyDebugString(e.new[i].smallest), KeyDebugString(e.new[i].largest)>>]

VersionEditPrinter(pos, r) ==
    IF r.kind = "malformed" THEN <<<<"bad edit", pos>>>>
    ELSE <<<<"edit", pos, VersionEditDebugString(r.edit)>>>>

DumpEntry(r) ==
    IF r.key.ok THEN <<<<"entry", AppendEscapedStringTo(r.key.user), r.key.seq, r.key.type, AppendEscapedStringTo(r.value)>>>>
    ELSE <<<<"badkey", AppendEscapedStringTo(r.key.rep), AppendEscapedStringTo(r.value)>>>>

\* CorruptionReporter for what the log's reader drops; an iterator over a
\* table goes on behind a block that it cannot read and keeps the status
Printed(pos, r) ==
    CASE looked.type = "table" -> IF r.kind = "damage" THEN <<>> ELSE DumpEntry(r)
      [] r.kind = "damage" -> <<<<"corruption", pos>>>>
      [] looked.type = "log" -> WriteBatchPrinter(pos, r)
      [] OTHER -> VersionEditPrinter(pos, r)

-----------------------------------------------------------------------------
(* Making the file or the database that is looked at.                       *)
NoDb == [level \in 0 .. kNumLevels - 1 |-> [files |-> <<>>, micros |-> 0]]
NoDump == [stage |-> "new", pos |-> 0, open |-> {}, dst |-> <<>>, lost |-> FALSE, status |-> "none", question |-> <<>>, value |-> <<>>]

Init ==
    /\ looked \in {[type |-> k, records |-> <<>>, levels |-> NoDb, cache |-> 0, mem |-> 2, imm |-> 0] : k \in Kinds}
    /\ dump = NoDump

AddRecord ==
    /\ dump.stage = "new" /\ looked.type \in DOMAIN Records /\ Len(looked.records) < MaxShown
    /\ \E r \in Records[looked.type] : looked' = [looked EXCEPT !.records = Append(@, r)]
    /\ UNCHANGED dump

\* a flush or a compaction adds a file to a level and its time to stats_; another takes the files away
ChangeLevel(l) ==
    /\ looked.type = "db" /\ dump.stage = "new"
    /\ LET n == Len(looked.levels[l].files)
       IN looked' = [looked EXCEPT !.levels[l] =
             [files |-> IF n < MaxShown THEN Append(@.files, [number |-> 10 * l + n, size |-> n, smallest |-> Key1, largest |-> BadKey(<<"b">>)])
                        ELSE <<>>,
              micros |-> 1]]
    /\ UNCHANGED dump

ChangeMemory ==
    /\ looked.type = "db" /\ dump.stage = "new"
    /\ \/ looked.imm = 0 /\ looked' = [looked EXCEPT !.imm = looked.mem, !.mem = 1]
       \/ looked.imm # 0 /\ looked' = [looked EXCEPT !.imm = 0, !.cache = 4]
    /\ UNCHANGED dump

-----------------------------------------------------------------------------
(* DumpFile.                                                                *)
Refuse(status) == dump' = [dump EXCEPT !.stage = "done", !.status = status, !.open = {}]

\* GuessType: the name is that of no file of leveldb; or of one that is not listed
DumpFile ==
    /\ dump.stage = "new" /\ looked.type # "db"
    /\ IF looked.type \in DOMAIN Records THEN dump' = [dump EXCEPT !.stage = "opening"]
       ELSE Refuse("invalid")
    /\ UNCHANGED looked

\* NewSequentialFile; GetFileSize, NewRandomAccessFile and Table::Open
OpenDump ==
    /\ dump.stage = "opening"
    /\ \/ dump' = [dump EXCEPT !.stage = "reading", !.pos = 1,
                               !.open = IF looked.type = "table" THEN {"file", "table", "iter"} ELSE {"file"}]
       \/ Refuse("io error")
    /\ UNCHANGED looked

\* the status of Append is not looked at: a line may be lost
Appended(lines) ==
    \/ dump' = [dump EXCEPT !.pos = @ + 1, !.dst = @ \o lines]
    \/ \E i \in DOMAIN lines :
          dump' = [dump EXCEPT !.pos = @ + 1, !.dst = @ \o RemoveAt(lines, i), !.lost = TRUE]

PrintRecord ==
    /\ dump.stage = "reading" /\ dump.pos <= Len(looked.records)
    /\ Appended(Printed(dump.pos, looked.records[dump.pos]))
    /\ UNCHANGED looked

IteratorError == looked.type = "table" /\ \E i \in DOMAIN looked.records : looked.records[i].kind = "damage"

\* OK is returned although there was damage
DumpDone ==
    /\ dump.stage = "reading" /\ dump.pos = Len(looked.records) + 1
    /\ dump' = [dump EXCEPT !.stage = "done", !.status = "ok", !.open = {},
                            !.dst = IF IteratorError THEN Append(@, <<"iterator error", 0>>) ELSE @]
    /\ UNCHANGED looked

-----------------------------------------------------------------------------
(* GetProperty, one step under the mutex.  A question is the name behind    *)
(* "leveldb." and, for num-files-at-level, a number.                        *)
NumLevelFiles(l) == Len(looked.levels[l].files)

VersionDebugString ==
    FlattenSeq([l \in 1 .. kNumLevels |->
        <<<<"level", l - 1>>>> \o
        [i \in DOMAIN looked.levels[l - 1].files |->
            LET f == looked.levels[l - 1].files[i]
            IN <<"file", f.number, f.size, KeyDebugString(f.smallest), KeyDebugString(f.largest)>>]])

Stats ==
    SelectSeq([l \in 1 .. kNumLevels |-> <<"stats", l - 1, NumLevelFiles(l - 1)>>],
              LAMBDA x : looked.levels[x[2]].micros > 0 \/ x[3] > 0)

Answer(value) == [ok |-> TRUE, value |-> value]
NoAnswer == [ok |-> FALSE, value |-> <<>>]

GetPropertyLoose(q, level) ==
    CASE q = "num-files-at-level" -> IF level = None \/ level > kNumLevels THEN NoAnswer
                                     ELSE Answer(<<<<"number", NumLevelFiles(IF level = kNumLevels THEN 0 ELSE level)>>>>)
      [] q = "stats" -> Answer(Stats)
      [] q = "sstables" -> Answer(VersionDebugString)
      [] q = "approximate-memory-usage" -> Answer(<<<<"number", looked.cache + looked.mem + looked.imm>>>>)
      [] OTHER -> NoAnswer

GetProperty(q, level) ==
    CASE q = "num-files-at-level" -> IF level = None \/ level >= kNumLevels THEN NoAnswer
                                     ELSE Answer(<<<<"number", NumLevelFiles(level)>>>>)
      [] q = "stats" -> Answer(Stats)
      [] q = "sstables" -> Answer(VersionDebugString)
      [] q = "approximate-memory-usage" -> Answer(<<<<"number", looked.cache + looked.mem + looked.imm>>>>)
      [] OTHER -> NoAnswer

Ask ==
    /\ looked.type = "db" /\ dump.stage = "new"
    /\ \E q \in {"num-files-at-level", "stats", "sstables", "approximate-memory-usage", "other"} :
       \E level \in IF q = "num-files-at-level" THEN None .. MaxQuestions ELSE {None} :
          LET a == GetProperty(q, level)
          IN dump' = [dump EXCEPT !.stage = "done", !.status = IF a.ok THEN "ok" ELSE "unknown",
                                  !.question = <<q, level>>, !.value = a.value]
    /\ UNCHANGED looked

\* the same is asked or dumped again
Again == dump.stage = "done" /\ looked.type = "db" /\ dump' = NoDump /\ UNCHANGED looked

Next ==
    \/ AddRecord \/ ChangeMemory \/ \E l \in 0 .. kNumLevels - 1 : ChangeLevel(l)
    \/ DumpFile \/ OpenDump \/ PrintRecord \/ DumpDone \/ Ask \/ Again

Spec == Init /\ [][Next]_<<looked, dump>>

-----------------------------------------------------------------------------
TypeOK ==
    /\ looked.type \in Kinds /\ Len(looked.records) <= MaxShown
    /\ dump.stage \in {"new", "opening", "reading", "done"}
    /\ dump.open \subseteq {"file", "table", "iter"} /\ dump.lost \in BOOLEAN
    /\ dump.status \in {"none", "ok", "invalid", "io error", "unknown"}

Complaint == {"too small", "error", "bad edit", "corruption", "badkey", "iterator error"}
Complained == SelectSeq(dump.dst, LAMBDA x : x[1] \in Complaint)
Damaged(r) ==
    \/ r.kind \in {"short", "damage", "malformed"}
    \/ r.kind = "batch" /\ r.bad
    \/ r.kind = "entry" /\ ~r.key.ok

\* the text of one slice only
Unescaped(text) == CHOOSE v \in Slices : AppendEscapedStringTo(v) = text
OpOf(line) == IF line[1] = "put" THEN [type |-> "put", key |-> Unescaped(line[2]), value |-> Unescaped(line[3])]
              ELSE [type |-> "del", key |-> Unescaped(line[2])]
IsOp(line) == line[1] \in {"put", "del"}

(* A dump that lost no line can be trusted (dumpfile.cc): a log's           *)
(* operations are read back from it, all and in their order; every edit and *)
(* every entry has its line, two edits that differ never the same; and what *)
(* is damaged or malformed is complained of, in a log or a MANIFEST record  *)
(* by record, so that a dump without a complaint is that of a sound file.   *)
(* The status is no such promise: it is OK once the file could be opened.   *)
DumpTells ==
    dump.stage = "done" /\ looked.type # "db" =>
        /\ dump.open = {}
        /\ dump.status # "ok" => dump.dst = <<>>
        /\ dump.status = "ok" /\ ~dump.lost =>
              LET rs == looked.records
                  damaged == {i \in DOMAIN rs : Damaged(rs[i])}
              IN /\ (Complained = <<>>) <=> (damaged = {})
                 /\ looked.type # "table" => {x[2] : x \in ToSet(Complained)} = damaged
                 /\ looked.type = "log" =>
                       LET ops == SelectSeq(dump.dst, IsOp)
                           batches == SelectSeq(rs, LAMBDA r : r.kind = "batch")
                       IN [i \in DOMAIN ops |-> OpOf(ops[i])] = FlattenSeq([i \in DOMAIN batches |-> batches[i].ops])
                 /\ looked.type = "descriptor" =>
                       \A x \in ToSet(dump.dst) : x[1] = "edit" =>
                           \A e \in Edits : VersionEditDebugString(e) = x[3] <=> e = rs[x[2]].edit
                 /\ looked.type = "table" =>
                       Len(SelectSeq(dump.dst, LAMBDA x : x[1] \in {"entry", "badkey"}))
                           = Cardinality({i \in DOMAIN rs : rs[i].kind = "entry"})

FilesTold == SelectSeq(VersionDebugString, LAMBDA x : x[1] = "file")

(* The answers of GetProperty agree with the version and with each other    *)
(* (db_impl.cc, version_set.cc): a level has an answer exactly when it      *)
(* exists; the files of the levels add up to those that sstables lists;     *)
(* stats leaves out no level that has files or had a compaction.            *)
PropertiesAgree ==
    /\ dump.question # <<>> /\ dump.question[1] = "num-files-at-level" =>
          /\ dump.status = "ok" <=> dump.question[2] \in 0 .. kNumLevels - 1
          /\ dump.status = "ok" => dump.value[1][2] = Len(looked.levels[dump.question[2]].files)
    /\ looked.type = "db" =>
          /\ FoldSet(LAMBDA l, n : n + NumLevelFiles(l), 0, 0 .. kNumLevels - 1) = Len(FilesTold)
          /\ \A l \in 0 .. kNumLevels - 1 :
                (looked.levels[l].files # <<>> \/ looked.levels[l].micros > 0)
                    <=> \E x \in ToSet(Stats) : x[2] = l
=============================================================================
