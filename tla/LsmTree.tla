------------------------------- MODULE LsmTree -------------------------------
(***************************************************************************)
(* What leveldb stores and what a read finds: the memtables, the levels of  *)
(* the current Version, snapshots, flushes (WriteLevel0Table) and           *)
(* compactions (PickCompaction, CompactRange, DoCompactionWork), with the   *)
(* writes, reads and flushes that go on while a compaction works without    *)
(* mutex_.                                                                  *)
(*                                                                          *)
(* An entry is a user key, a sequence number and whether it is a deletion;  *)
(* the sequence number stands for the value.  A table file is the set of    *)
(* its entries, its size their number.  A read takes its memtables and its  *)
(* Version under mutex_ and both only gain entries it does not see, so a    *)
(* read is one step.                                                        *)
(***************************************************************************)
EXTENDS Integers, Sequences, FiniteSets, FiniteSetsExt, SequencesExt

CONSTANTS Nil,
          Keys,               \* user keys, a range of integers
          NumLevels,          \* config::kNumLevels
          MaxMemCompactLevel, \* config::kMaxMemCompactLevel
          L0Trigger,          \* config::kL0_CompactionTrigger
          BaseBytes, Multiplier,  \* of MaxBytesForLevel
          MaxFileSize,        \* options.max_file_size, in entries
          GrandParentLimit,   \* MaxGrandParentOverlapBytes
          ExpandLimit,        \* ExpandedCompactionByteSizeLimit
          Types,              \* entries written: deletions TRUE, values FALSE
          ManualLevels,       \* bound: levels compacted by hand
          MaxSeq,             \* bound: writes
          MaxCalls            \* bound: snapshots taken, reads that exhaust allowed_seeks
                              \* and calls of TEST_CompactRange, together

Level == 0 .. NumLevels - 1
Entry == [key : Keys, seq : 1 .. MaxSeq, del : BOOLEAN]

ASSUME LsmAssumption ==
    /\ Keys \subseteq Nat /\ IsFiniteSet(Keys)
    /\ {NumLevels, MaxMemCompactLevel, L0Trigger, BaseBytes, Multiplier, MaxFileSize,
        GrandParentLimit, ExpandLimit} \subseteq Nat \ {0}
    /\ {MaxSeq, MaxCalls} \subseteq Nat
    /\ Types \subseteq BOOLEAN /\ ManualLevels \subseteq 0 .. NumLevels - 2
    /\ MaxMemCompactLevel < NumLevels /\ 3 <= NumLevels
    /\ Nil \notin Entry /\ Nil \notin Keys

VARIABLES
    last_sequence,    \* versions_->last_sequence_
    mem, imm,         \* entries of mem_ and imm_ (an imm_ that is there has some)
    files,            \* current_->files_
    file_to_compact,  \* current_->file_to_compact_ and its level, or Nil
    compact_pointer,  \* versions_->compact_pointer_
    next_file,        \* versions_->next_file_number_
    snapshots,        \* snapshots_, the sequence numbers held
    compaction,       \* the compaction in progress, or Nil
    caller, manual,   \* TEST_CompactRange's request; manual_compaction_ is set
    written,          \* history: all entries ever written
    disturbed,        \* history: a memtable was flushed during a manual compaction
    lapsed,           \* history: deletions dropped while an older entry of their key stayed
    calls             \* counter of MaxCalls

tree == <<files, file_to_compact, compact_pointer, next_file>>
vars == <<last_sequence, mem, imm, tree, snapshots, compaction, caller, manual, written,
          disturbed, lapsed, calls>>

-----------------------------------------------------------------------------
(* Internal keys: by user key, then from the newest to the oldest.          *)
Before(a, b) == a.key < b.key \/ (a.key = b.key /\ a.seq > b.seq)
AtOrAfter(a, b) == ~Before(a, b)

Least(data) == CHOOSE e \in data : \A d \in data : AtOrAfter(d, e)
Greatest(data) == CHOOSE e \in data : \A d \in data : AtOrAfter(e, d)

FileMetaData(number, data) ==
    [number |-> number, data |-> data, smallest |-> Least(data), largest |-> Greatest(data)]

size(f) == Cardinality(f.data)
TotalFileSize(fs) == Cardinality(UNION {{f} \X f.data : f \in fs})
DataOf(fs) == UNION {f.data : f \in fs}

InOrder(data) ==
    [i \in 1 .. Cardinality(data) |-> CHOOSE e \in data : Cardinality({d \in data : Before(d, e)}) = i - 1]

ByNumber(f, g) == f.number < g.number

BySmallestKey(f, g) ==
    \/ Before(f.smallest, g.smallest)
    \/ f.smallest = g.smallest /\ f.number < g.number

Sorted(fs) ==
    [i \in 1 .. Cardinality(fs) |-> CHOOSE f \in fs : Cardinality({g \in fs : BySmallestKey(g, f)}) = i - 1]
FirstFile(fs) == CHOOSE f \in fs : \A g \in fs \ {f} : BySmallestKey(f, g)
LastFile(fs) == CHOOSE f \in fs : \A g \in fs \ {f} : BySmallestKey(g, f)

(* The first file whose largest key is not before the key, by bisection:    *)
(* each turn of the loop halves what is left.                               *)
Bisect(s, key, b) ==
    LET mid == (b.left + b.right) \div 2
    IN IF b.left >= b.right THEN b
       ELSE IF Before(s[mid + 1].largest, key) THEN [b EXCEPT !.left = mid + 1]
            ELSE [b EXCEPT !.right = mid]
FindFile(s, key) ==
    LET turn[i \in 0 .. Len(s)] ==
          IF i = 0 THEN [left |-> 0, right |-> Len(s)] ELSE Bisect(s, key, turn[i - 1])
    IN turn[Len(s)].right + 1

-----------------------------------------------------------------------------
(* Reading.                                                                 *)
(* What a table or a memtable answers: the first entry at or after          *)
(* (key, seq) if it is of the key.                                          *)
SaveValue(data, key, seq) ==
    LET seen == {e \in data : e.key = key /\ e.seq <= seq}
    IN IF seen = {} THEN Nil ELSE CHOOSE e \in seen : \A d \in seen : d.seq <= e.seq

(* The files Version::Get looks into: the levels in turn, the newest file   *)
(* of level 0 first.                                                        *)
InRange(f, key) == f.smallest.key <= key /\ key <= f.largest.key
At(s, i, key) == IF i <= Len(s) /\ s[i].smallest.key <= key THEN {s[i]} ELSE {}
Searched(s, key, seq) == At(s, FindFile(s, [key |-> key, seq |-> seq]), key)

Candidates(level, key, seq) ==
    IF level = 0 THEN {f \in files[0] : InRange(f, key)}
    ELSE Searched(Sorted(files[level]), key, seq)

ForEachOverlapping(key, seq) ==
    UNION {{[level |-> l, file |-> f] : f \in Candidates(l, key, seq)} : l \in Level}

NewestFirst(a, b) == a.level < b.level \/ (a.level = b.level /\ a.file.number > b.file.number)
First(search) == CHOOSE a \in search : \A b \in search \ {a} : NewestFirst(a, b)

(* The first of them that has the key answers.                              *)
Hits(search, key, seq) == {a \in search : SaveValue(a.file.data, key, seq) # Nil}
Answer(hits, key, seq) == IF hits = {} THEN Nil ELSE SaveValue(First(hits).file.data, key, seq)
VersionGet(search, key, seq) == Answer(Hits(search, key, seq), key, seq)

MemGet(key, seq) == SaveValue(mem \cup imm, key, seq)
GetFrom(e, key, seq) == IF e # Nil THEN e ELSE VersionGet(ForEachOverlapping(key, seq), key, seq)
Get(key, seq) == GetFrom(MemGet(key, seq), key, seq)

(* GetApproximateSizes: how far into each level a key lies.  A block of a   *)
(* table is one entry.                                                      *)
AtKey(key) == [key |-> key, seq |-> MaxSeq + 1]     \* kMaxSequenceNumber: before all entries of the key
OffsetInTable(f, ikey) == Cardinality({e \in f.data : Before(e, ikey)})
OffsetInFile(f, ikey) ==
    IF AtOrAfter(ikey, f.largest) THEN size(f)
    ELSE IF Before(ikey, f.smallest) THEN 0 ELSE OffsetInTable(f, ikey)

\* below level 0 the files are sorted: the loop ends at the first one behind the key
Counted(level, s, ikey) ==
    IF level = 0 THEN 1 .. Len(s)
    ELSE 1 .. Min({i \in 1 .. Len(s) : Before(ikey, s[i].smallest)} \cup {Len(s) + 1}) - 1

OffsetInLevel(level, s, ikey) ==
    MapThenSumSet(LAMBDA i : OffsetInFile(s[i], ikey), Counted(level, s, ikey))
ApproximateOffsetOf(ikey) == MapThenSumSet(LAMBDA l : OffsetInLevel(l, Sorted(files[l]), ikey), Level)

Difference(start, limit) == IF limit >= start THEN limit - start ELSE 0
GetApproximateSizes(ranges) ==
    LET offset == [k \in UNION {ToSet(r) : r \in ranges} |-> ApproximateOffsetOf(AtKey(k))]
    IN [r \in ranges |-> Difference(offset[r[1]], offset[r[2]])]

(* The file a read is charged to: the first of several it looked into.      *)
Charge(search, hits) ==
    IF Cardinality(search) > 1 /\ First(search) \notin hits THEN First(search) ELSE Nil
ChargeGet(search, key, seq) == Charge(search, Hits(search, key, seq))
ChargedByGet(key, seq) ==
    IF MemGet(key, seq) # Nil THEN Nil ELSE ChargeGet(ForEachOverlapping(key, seq), key, seq)

RecordReadSample(key, seq) == Charge(ForEachOverlapping(key, seq), {})

-----------------------------------------------------------------------------
(* Choosing what to compact.                                                *)
MaxBytesForLevel[level \in Level] ==
    IF level <= 1 THEN BaseBytes ELSE Multiplier * MaxBytesForLevel[level - 1]

Amount(fs, level) == IF level = 0 THEN Cardinality(fs[0]) ELSE TotalFileSize(fs[level])
Limit(level) == IF level = 0 THEN L0Trigger ELSE MaxBytesForLevel[level]

(* Finalize: the level with the best score, the first of equals.            *)
Better(fs, l, m) ==
    IF m < l THEN Amount(fs, l) * Limit(m) > Amount(fs, m) * Limit(l)
    ELSE Amount(fs, l) * Limit(m) >= Amount(fs, m) * Limit(l)
CompactionLevel(fs) ==
    CHOOSE l \in 0 .. NumLevels - 2 : \A m \in 0 .. NumLevels - 2 : Better(fs, l, m)
ScoreReached == \E l \in 0 .. NumLevels - 2 : Amount(files, l) >= Limit(l)
NeedsCompaction == file_to_compact # Nil \/ ScoreReached

Overlapping(fs, begin, end) == {f \in fs : f.largest.key >= begin /\ f.smallest.key <= end}

LowOf(fs) == Min({f.smallest.key : f \in fs})
HighOf(fs) == Max({f.largest.key : f \in fs})
LargestOf(fs) == Greatest({f.largest : f \in fs})

(* At level 0 a file that reaches beyond the range widens it, and the       *)
(* search starts again: what is left in the end is the least set of files   *)
(* that has all those overlapping its own range.                            *)
Widen(fs, begin, end) ==
    IF fs = {} THEN Overlapping(files[0], begin, end)
    ELSE Overlapping(files[0], Min({begin, LowOf(fs)}), Max({end, HighOf(fs)}))
GetOverlappingInputs(level, begin, end) ==
    IF level > 0 THEN Overlapping(files[level], begin, end)
    ELSE {f \in files[0] :
            \A fs \in SUBSET files[0] : Widen(fs, begin, end) \subseteq fs => f \in fs}

OverlapInLevel(level, begin, end) == Overlapping(files[level], begin, end) # {}

Continues(largest, smallest) == Before(largest, smallest) /\ smallest.key = largest.key

AddNoBoundaryInputs(levelFiles, fs) == fs

FindSmallestBoundaryFile(levelFiles, largest) ==
    {f \in levelFiles :
        /\ Continues(largest, f.smallest)
        /\ \A g \in levelFiles : Continues(largest, g.smallest) => ~Before(g.smallest, f.smallest)}

(* Files that go on with the user key the inputs end with: the least set    *)
(* with the file that goes on with the inputs, and with each file added the *)
(* one that goes on with it.                                                *)
AddBoundaryInputs(levelFiles, fs) ==
    LET Closed(got) ==
          /\ fs \subseteq got
          /\ FindSmallestBoundaryFile(levelFiles, LargestOf(fs)) \subseteq got
          /\ \A f \in got \ fs : FindSmallestBoundaryFile(levelFiles, f.largest) \subseteq got
    IN {f \in levelFiles : \A got \in SUBSET levelFiles : Closed(got) => f \in got}

(* The inputs at both levels, grown at the upper level when that costs no   *)
(* more of the lower one.                                                   *)
Inputs(level, in0, in1) ==
    [level |-> level, in0 |-> in0, in1 |-> in1,
     grandparents |-> IF level + 2 < NumLevels
                      THEN GetOverlappingInputs(level + 2, LowOf(in0 \cup in1), HighOf(in0 \cup in1))
                      ELSE {}]

Parents(level, in0) == GetOverlappingInputs(level + 1, LowOf(in0), HighOf(in0))

Grow(level, in0, in1, expanded0) ==
    IF /\ in1 # {}
       /\ Cardinality(expanded0) > Cardinality(in0)
       /\ TotalFileSize(in1) + TotalFileSize(expanded0) < ExpandLimit
       /\ Cardinality(Parents(level, expanded0)) = Cardinality(in1)
    THEN Inputs(level, expanded0, Parents(level, expanded0))
    ELSE Inputs(level, in0, in1)

Expand(level, in0, in1) ==
    Grow(level, in0, in1,
         AddBoundaryInputs(files[level],
             GetOverlappingInputs(level, LowOf(in0 \cup in1), HighOf(in0 \cup in1))))

WithParents(level, in0) == Expand(level, in0, Parents(level, in0))

SetupOtherInputs(level, picked) == WithParents(level, AddBoundaryInputs(files[level], picked))

(* The first file after compact_pointer_, or the first.                     *)
AfterPointer(level, fs) ==
    {f \in fs : compact_pointer[level] = Nil \/ Before(compact_pointer[level], f.largest)}
Following(after, fs) == FirstFile(IF after = {} THEN fs ELSE after)
SizePick(level) ==
    [level |-> level, file |-> Following(AfterPointer(level, files[level]), files[level])]

PickCompaction == IF ScoreReached THEN SizePick(CompactionLevel(files)) ELSE file_to_compact
PickedInputs(pick) ==
    IF pick.level > 0 THEN {pick.file}
    ELSE GetOverlappingInputs(0, pick.file.smallest.key, pick.file.largest.key)

(* VersionSet::CompactRange: above level 0 no more than a file's worth.     *)
Portion(s) ==
    LET enough == {i \in 1 .. Len(s) : TotalFileSize({s[j] : j \in 1 .. i}) >= MaxFileSize}
    IN {s[i] : i \in 1 .. Min(enough \cup {Len(s)})}
CompactRange(level, begin, end) ==
    IF level = 0 THEN GetOverlappingInputs(0, begin, end)
    ELSE Portion(Sorted(GetOverlappingInputs(level, begin, end)))

IsTrivialMove(c) ==
    /\ Cardinality(c.in0) = 1 /\ c.in1 = {}
    /\ TotalFileSize(c.grandparents) <= GrandParentLimit

PickLevelBelowOverlap(low, high) ==
    LET stops == {l \in 0 .. MaxMemCompactLevel - 1 : OverlapInLevel(l, low, high)}
    IN IF stops = {} THEN MaxMemCompactLevel ELSE Min(stops)

(* The level a flushed memtable goes to.                                    *)
PickLevelForMemTableOutput(low, high) ==
    LET Blocked(level) ==
          \/ OverlapInLevel(level + 1, low, high)
          \/ /\ level + 2 < NumLevels
             /\ TotalFileSize(GetOverlappingInputs(level + 2, low, high)) > GrandParentLimit
        stops == {l \in 0 .. MaxMemCompactLevel - 1 : Blocked(l)}
    IN IF OverlapInLevel(0, low, high) THEN 0
       ELSE IF stops = {} THEN MaxMemCompactLevel ELSE Min(stops)

-----------------------------------------------------------------------------
(* Doing it.                                                                *)
smallest_snapshot == IF snapshots = {} THEN last_sequence ELSE Min(snapshots)

IsBaseLevelForKey(c, key) ==
    \A l \in c.level + 2 .. NumLevels - 1 : ~OverlapInLevel(l, key, key)

(* Hidden by a newer entry every snapshot sees, or a deletion with nothing  *)
(* left to hide.                                                            *)
Hidden(data, e) == \E d \in data : d.key = e.key /\ d.seq > e.seq /\ d.seq <= smallest_snapshot
Obsolete(c, e) == e.del /\ e.seq <= smallest_snapshot /\ IsBaseLevelForKey(c, e.key)

Drop(c, data, e) == Hidden(data, e) \/ Obsolete(c, e)

(* Bytes of the grandparent files that lie between two keys.                *)
Passed(c, from, to) ==
    IF from = Nil THEN 0
    ELSE TotalFileSize({g \in c.grandparents : Before(g.largest, to) /\ ~Before(g.largest, from)})

Close(out) == IF out.current = {} THEN out
              ELSE [out EXCEPT !.closed = Append(@, out.current), !.current = {}]
CloseFull(out) == IF Cardinality(out.current) >= MaxFileSize THEN Close(out) ELSE out

ShouldStopBefore(out, e) ==
    [(IF out.overlapped > GrandParentLimit THEN [Close(out) EXCEPT !.overlapped = 0] ELSE out)
        EXCEPT !.last = e]

(* One turn of the loop of DoCompactionWork: ShouldStopBefore, the drop     *)
(* rule, the entry added and the file closed when it is big enough.         *)
Keep(c, data, out, e) ==
    IF Drop(c, data, e) THEN out ELSE CloseFull([out EXCEPT !.current = @ \cup {e}])
AddEntry(c, data, out, e) ==
    Keep(c, data,
         ShouldStopBefore([out EXCEPT !.overlapped = @ + Passed(c, out.last, e)], e), e)

Merge(c, data) ==
    LET turn[i \in 0 .. Cardinality(data)] ==
          IF i = 0 THEN [closed |-> << >>, current |-> {}, last |-> Nil, overlapped |-> 0]
          ELSE AddEntry(c, data, turn[i - 1], InOrder(data)[i])
    IN Close(turn[Cardinality(data)]).closed
DoCompactionWork(c) == Merge(c, DataOf(c.in0 \cup c.in1))

-----------------------------------------------------------------------------
Init ==
    /\ last_sequence = 0 /\ mem = {} /\ imm = {}
    /\ files = [l \in Level |-> {}]
    /\ file_to_compact = Nil
    /\ compact_pointer = [l \in Level |-> Nil]
    /\ next_file = 1
    /\ snapshots = {} /\ compaction = Nil /\ caller = Nil /\ manual = FALSE
    /\ written = {} /\ disturbed = FALSE /\ lapsed = {}
    /\ calls = 0

Write(key, del) ==
    /\ last_sequence < MaxSeq
    /\ last_sequence' = last_sequence + 1
    /\ LET e == [key |-> key, seq |-> last_sequence', del |-> del]
       IN mem' = mem \cup {e} /\ written' = written \cup {e}
    /\ UNCHANGED <<imm, tree, snapshots, compaction, caller, manual, disturbed, lapsed,
                   calls>>

\* MakeRoomForWrite, for a Write that finds the memtable full or for TEST_CompactMemTable, which
\* forces the switch.  write_buffer_size is left open, so any memtable may be full; that somebody
\* writes again is not promised.
SwitchMemTable ==
    /\ mem # {} /\ imm = {}
    /\ imm' = mem /\ mem' = {}
    /\ UNCHANGED <<last_sequence, tree, snapshots, compaction, caller, manual, written,
                   disturbed, lapsed, calls>>

InstallKeepsSeek(fs) == files' = fs /\ UNCHANGED file_to_compact

(* A new version starts without a file to compact.                          *)
Install(fs) == files' = fs /\ file_to_compact' = Nil

Flush(f) ==
    Install([files EXCEPT ![PickLevelForMemTableOutput(f.smallest.key, f.largest.key)] = @ \cup {f}])

\* CompactMemTable, by the background thread, in the midst of a compaction too
FlushMemTable ==
    /\ imm # {}
    /\ Flush(FileMetaData(next_file, imm))
    /\ next_file' = next_file + 1 /\ imm' = {}
    /\ disturbed' = (disturbed \/ (compaction # Nil /\ compaction.manual_end # Nil))
    /\ UNCHANGED <<last_sequence, mem, compact_pointer, snapshots, compaction, caller, manual,
                   written, lapsed, calls>>

Move(c) ==
    /\ Install([files EXCEPT ![c.level] = @ \ c.in0, ![c.level + 1] = @ \cup c.in0])
    /\ UNCHANGED compaction

Start(c) ==
    /\ compaction' = [level |-> c.level, in0 |-> c.in0, in1 |-> c.in1, outputs |-> DoCompactionWork(c),
                      manual_end |-> IF manual THEN LastFile(c.in0).largest.key ELSE Nil]
    /\ UNCHANGED <<files, file_to_compact>>

Begin(c) ==
    /\ IF ~manual /\ IsTrivialMove(c) THEN Move(c) ELSE Start(c)
    /\ compact_pointer' = [compact_pointer EXCEPT ![c.level] = LargestOf(c.in0)]

ManualNeverDone == manual' = FALSE /\ UNCHANGED caller

ManualDone == caller' = Nil /\ manual' = FALSE

\* BackgroundCompaction: a manual compaction first; it is done when its range has no files
CompactOrDone(level, picked) ==
    IF picked = {}
    THEN ManualDone /\ UNCHANGED <<compaction, files, file_to_compact, compact_pointer>>
    ELSE Begin(SetupOtherInputs(level, picked)) /\ UNCHANGED <<caller, manual>>

CompactPicked(pick) == CompactOrDone(pick.level, PickedInputs(pick))

BackgroundCompaction ==
    /\ imm = {} /\ compaction = Nil
    /\ IF manual THEN CompactOrDone(caller.level, CompactRange(caller.level, caller.begin, caller.end))
       ELSE NeedsCompaction /\ CompactPicked(PickCompaction)
    /\ UNCHANGED <<last_sequence, mem, imm, next_file, snapshots, written, disturbed, lapsed,
                   calls>>

OutputFiles(outputs) ==
    {FileMetaData(next_file + i - 1, outputs[i]) : i \in 1 .. Len(outputs)}

\* deletions the merge has dropped although the level below keeps an older entry of their key: the
\* inputs there end in the midst of the key's entries
Lapsing(c) ==
    {e \in DataOf(c.in0 \cup c.in1) \ UNION ToSet(c.outputs) :
        e.del /\ \E d \in DataOf(files[c.level + 1] \ c.in1) : d.key = e.key /\ d.seq < e.seq}

AddInputDeletions(c) == [files EXCEPT ![c.level] = @ \ c.in0, ![c.level + 1] = @ \ c.in1]

(* The inputs are deleted, the outputs go one level down.                   *)
InstallCompactionResults ==
    /\ compaction # Nil
    /\ Install([AddInputDeletions(compaction) EXCEPT
            ![compaction.level + 1] = @ \cup OutputFiles(compaction.outputs)])
    /\ next_file' = next_file + Len(compaction.outputs)
    /\ compaction' = Nil
    /\ IF compaction.manual_end # Nil
       THEN caller' = [caller EXCEPT !.begin = compaction.manual_end] /\ manual' = FALSE
       ELSE UNCHANGED <<caller, manual>>
    /\ lapsed' = lapsed \cup Lapsing(compaction)
    /\ UNCHANGED <<last_sequence, mem, imm, compact_pointer, snapshots, written, disturbed, calls>>

TEST_CompactRange(level, begin, end) ==
    /\ caller = Nil /\ calls < MaxCalls /\ begin <= end
    /\ caller' = [level |-> level, begin |-> begin, end |-> end]
    /\ calls' = calls + 1
    /\ UNCHANGED <<last_sequence, mem, imm, tree, snapshots, compaction, manual, written,
                   disturbed, lapsed>>

\* the caller finds manual_compaction_ null, while a compaction runs or not
PostManual ==
    /\ caller # Nil /\ ~manual
    /\ manual' = TRUE
    /\ UNCHANGED <<last_sequence, mem, imm, tree, snapshots, compaction, caller, written,
                   disturbed, lapsed, calls>>

(* UpdateStats, when the read was the last of allowed_seeks.                *)
UpdateStats(charged) ==
    /\ calls < MaxCalls /\ file_to_compact = Nil
    /\ charged # Nil
    /\ file_to_compact' = charged /\ calls' = calls + 1
    /\ UNCHANGED <<last_sequence, mem, imm, files, compact_pointer, next_file, snapshots,
                   compaction, caller, manual, written, disturbed, lapsed>>

GetSnapshot ==
    /\ calls < MaxCalls /\ last_sequence \notin snapshots
    /\ snapshots' = snapshots \cup {last_sequence} /\ calls' = calls + 1
    /\ UNCHANGED <<last_sequence, mem, imm, tree, compaction, caller, manual, written, disturbed, lapsed>>

ReleaseSnapshot(s) ==
    /\ s \in snapshots
    /\ snapshots' = snapshots \ {s}
    /\ UNCHANGED <<last_sequence, mem, imm, tree, compaction, caller, manual, written, disturbed,
                   lapsed, calls>>

View == snapshots \cup {last_sequence}

Background ==
    FlushMemTable \/ BackgroundCompaction \/ InstallCompactionResults \/ PostManual

Next ==
    \/ \E k \in Keys, del \in Types : Write(k, del)
    \/ SwitchMemTable
    \/ Background
    \/ \E l \in ManualLevels, b, e \in Keys : TEST_CompactRange(l, b, e)
    \/ \E k \in Keys, s \in View : \E charged \in {ChargedByGet(k, s), RecordReadSample(k, s)} :
           UpdateStats(charged)
    \/ GetSnapshot
    \/ \E s \in snapshots : ReleaseSnapshot(s)

Spec == Init /\ [][Next]_vars

\* when a step of the background thread or of the waiting caller is enabled
WorkLeft == imm # {} \/ compaction # Nil \/ caller # Nil \/ NeedsCompaction

(* The thread with work to do takes its steps: weak fairness, with ENABLED  *)
(* written out as WorkLeft.  That a memtable fills up is not assumed.       *)
FairSpec ==
    /\ Spec
    /\ <>[]WorkLeft => []<><<Background>>_vars

-----------------------------------------------------------------------------
\* A Version: the files of its levels, and the file whose seeks ran out, which is one of them.
IsVersion(fs, seek) ==
    /\ \A l \in Level : \A f \in fs[l] : f.number < next_file /\ f.data \in (SUBSET Entry) \ {{}}
    /\ seek # Nil => seek.level \in 0 .. NumLevels - 2 /\ seek.file \in fs[seek.level]

\* SnapshotList: sequence numbers that were the last one when the snapshot was taken.
IsSnapshotList(list) == list \subseteq 0 .. last_sequence

\* A Compaction: its inputs are files of two levels, and stay there until it is installed.
IsCompaction(c) ==
    /\ c.in0 \subseteq files[c.level] /\ c.in1 \subseteq files[c.level + 1]
    /\ DataOf(c.in0) # {}

(* Types; a file is never marked for compaction at the last level, which    *)
(* has none below it.                                                       *)
TypeOK ==
    /\ last_sequence \in 0 .. MaxSeq
    /\ mem \in SUBSET Entry
    /\ imm \in SUBSET Entry
    /\ IsVersion(files, file_to_compact)
    /\ \A l \in Level : compact_pointer[l] # Nil => compact_pointer[l] \in Entry
    /\ IsSnapshotList(snapshots)
    /\ compaction # Nil => IsCompaction(compaction)
    /\ manual => caller # Nil

Value(e) == IF e = Nil THEN Nil ELSE IF e.del THEN Nil ELSE e.seq

Newest(key, seq) == SaveValue(written, key, seq)

ReadCorrect(key, seq) == Value(Get(key, seq)) = Value(Newest(key, seq))

ReadsCorrect == \A k \in Keys, s \in View : ReadCorrect(k, s)

(* Every read, of every key and at every snapshot held (and without one),   *)
(* finds the newest entry written up to the snapshot, whatever flushes and  *)
(* compactions have moved, merged or dropped since: unless that entry is a  *)
(* deletion that was dropped too early.                                     *)
ReadsNewest ==
    ~disturbed => \A k \in Keys, s \in View : ReadCorrect(k, s) \/ Newest(k, s) \in lapsed

(* "Therefore this deletion marker is obsolete and can be dropped"          *)
(* (DoCompactionWork): what is deleted is not found again.                  *)
DeletedStaysDeleted ==
    ~disturbed =>
        \A k \in Keys, s \in View :
            Newest(k, s) # Nil /\ Newest(k, s).del => Value(Get(k, s)) = Nil

(* "Must not overlap" (MaybeAddFile): below level 0 the files of a level    *)
(* have ranges that are disjoint, so that bisection finds the one to read.  *)
NoOverlap ==
    \A l \in Level \ {0} : \A f, g \in files[l] :
        f # g => Before(f.largest, g.smallest) \/ Before(g.largest, f.smallest)

LevelsDisjoint == ~disturbed => NoOverlap

(* "Entries never hop across levels" (Version::Get): for every key the data *)
(* of a level, and at level 0 of a file, is newer than that below it.       *)
Older(below, above) == \A e \in below, d \in above : e.key = d.key => e.seq < d.seq

LevelsOrdered ==
    ~disturbed =>
        /\ Older(imm, mem)
        /\ \A l \in Level : Older(DataOf(files[l]), mem) /\ Older(DataOf(files[l]), imm)
        /\ \A f, g \in files[0] : f.number < g.number => Older(f.data, g.data)
        /\ \A l, m \in Level : l < m => Older(DataOf(files[m]), DataOf(files[l]))

(* The sizes GetApproximateSizes reports are those of the entries in the    *)
(* tables with keys from start up to limit, though it stops looking at a    *)
(* level at the first file behind the key; a range that is empty or the     *)
(* wrong way round has size 0.                                              *)
SizesExact ==
    ~disturbed =>
        LET ends == Keys \cup {Max(Keys) + 1}
            data == DataOf(UNION {files[l] : l \in Level})
        IN GetApproximateSizes(ends \X ends) =
               [r \in ends \X ends |-> Cardinality({e \in data : r[1] <= e.key /\ e.key < r[2]})]

(* What every reader of a version counts on (Version::Get, the level        *)
(* iterators, ApproximateOffsetOf): its levels are disjoint and ordered by  *)
(* age.                                                                     *)
LevelsSound == LevelsDisjoint /\ LevelsOrdered

(* Once writing and reading stop, the memtable that was switched is flushed, *)
(* the levels shrink below their limits, and every TEST_CompactRange has    *)
(* returned.  The current memtable may stay: only a later Write switches it. *)
Settles == <>[](imm = {} /\ compaction = Nil /\ ~NeedsCompaction /\ caller = Nil)
=============================================================================
