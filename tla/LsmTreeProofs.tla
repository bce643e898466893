--------------------------- MODULE LsmTreeProofs ----------------------------
(***************************************************************************)
(* Proofs about LsmTree, for any keys, levels, sizes and triggers and any  *)
(* number of writes, snapshots and compactions: the inductive invariant,   *)
(* the steps that keep it, and the theorems on levels and reads.           *)
(***************************************************************************)
EXTENDS LsmTreeLemmas

-----------------------------------------------------------------------------
(***************************************************************************)
(* The inductive invariant.                                                *)
(***************************************************************************)
IsHistory(W, last, m, i, snaps) ==
    /\ last \in 0 .. MaxSeq
    /\ IsEntries(W) /\ \A e \in W : e.seq <= last
    /\ m \subseteq W /\ i \subseteq W
    /\ snaps \subseteq 0 .. last

TableFile == [number : Nat, data : SUBSET Entry, smallest : Entry, largest : Entry]

IsTree(fs, next, W) ==
    /\ next \in Nat /\ fs \in [Level -> SUBSET TableFile]
    /\ \A l \in Level : IsTables(fs[l], W) /\ \A f \in fs[l] : f.number < next
    /\ \A l, m \in Level : \A f \in fs[l], g \in fs[m] : f.number = g.number => l = m

IsSeek(seek, fs) ==
    seek # Nil => seek.level \in 0 .. NumLevels - 2 /\ seek.file \in fs[seek.level]

IsPointers(p) == p \in [Level -> Entry \cup {Nil}]

IsRequest(cl, man) ==
    /\ man \in BOOLEAN
    /\ man => cl # Nil
    /\ cl # Nil => cl \in [level : ManualLevels, begin : Keys, end : Keys]

IsWork(c, fs, man) ==
    c # Nil =>
        /\ c.level \in 0 .. NumLevels - 2
        /\ c.in0 \subseteq fs[c.level] /\ c.in0 # {} /\ c.in1 \subseteq fs[c.level + 1]
        /\ c.outputs \in Seq((SUBSET DataOf(c.in0 \cup c.in1)) \ {{}})
        /\ c.manual_end \in Keys \cup {Nil} /\ (c.manual_end # Nil => man)

TypeInv ==
    /\ IsHistory(written, last_sequence, mem, imm, snapshots)
    /\ IsTree(files, next_file, written)
    /\ IsSeek(file_to_compact, files)
    /\ IsPointers(compact_pointer)
    /\ IsRequest(caller, manual)
    /\ IsWork(compaction, files, manual)

\* The levels are disjoint and ordered by age.
LevelsApart(fs) == \A l \in Level \ {0} : Disjoint(fs[l])

ByAge(m, i, fs) ==
    /\ Older(i, m)
    /\ \A l \in Level : Older(DataOf(fs[l]), m) /\ Older(DataOf(fs[l]), i)
    /\ \A f, g \in fs[0] : f.number < g.number => Older(f.data, g.data)
    /\ \A l, k \in Level : l < k => Older(DataOf(fs[k]), DataOf(fs[l]))

\* Why the merge may drop an entry: a newer one is seen by every reader, or it is a deletion and the
\* levels further down have nothing of its key.
Superseded(e, data, V) == \E d \in data : d.key = e.key /\ d.seq > e.seq /\ \A s \in V : d.seq <= s
NothingBelow(e, c, fs) ==
    /\ e.del
    /\ \A l \in c.level + 2 .. NumLevels - 1 : \A d \in DataOf(fs[l]) : d.key # e.key
    /\ \A d \in UNION ToSet(c.outputs) : d.key = e.key => d.seq > e.seq

\* A merge is still right when it is installed, whatever was written or flushed since it started.
IsSoundWork(c, fs, V) ==
    c # Nil =>
        /\ Separate(c.in0, fs[c.level])
        /\ \A g \in fs[c.level + 1] \ c.in1 : Apart(g.data, DataOf(c.in0 \cup c.in1))
        /\ c.manual_end = Nil => Solid(c.in0 \cup c.in1)
        /\ \A i, j \in 1 .. Len(c.outputs) : i < j => AllBefore(c.outputs[i], c.outputs[j])
        /\ \A e \in DataOf(c.in0 \cup c.in1) \ UNION ToSet(c.outputs) :
               Superseded(e, DataOf(c.in0 \cup c.in1), V) \/ NothingBelow(e, c, fs)

Stored(m, i, fs) == m \cup i \cup UNION {DataOf(fs[l]) : l \in Level}

IsNewest(w, W, s) == w.seq <= s /\ \A d \in W : d.key = w.key /\ d.seq <= s => d.seq <= w.seq

\* What a reader has to find is stored, or is a deletion that has nothing to hide any more.
Kept(W, stored, V, lost) ==
    \A w \in W, s \in V :
        IsNewest(w, W, s) =>
            \/ w \in stored \/ w \in lost
            \/ w.del /\ \A e \in stored : e.key = w.key => e.seq > w.seq

SoundInv ==
    ~disturbed =>
        /\ LevelsApart(files)
        /\ ByAge(mem, imm, files)
        /\ IsSoundWork(compaction, files, View)
        /\ Kept(written, Stored(mem, imm, files), View, lapsed)

-----------------------------------------------------------------------------
(***************************************************************************)
(* Types.                                                                  *)
(***************************************************************************)
LEMMA TablesGrow ==
    ASSUME NEW W, NEW V, W \subseteq V, NEW fs, IsTables(fs, W)
    PROVE  IsTables(fs, V)
  BY TableGrows DEF IsTables

\* A table has the type of FileMetaData.
LEMMA TableType ==
    ASSUME NEW W, IsEntries(W), NEW f, IsTable(f, W)
    PROVE  f \in TableFile
<1>1. /\ f \in [number : Nat, data : SUBSET W, smallest : W, largest : W] /\ W \subseteq Entry
  BY DEF IsTable, IsEntries
<1> QED
  BY <1>1 DEF TableFile

\* What IsTree says, and what follows for each level.
LEMMA TreeProp ==
    ASSUME NEW fs, NEW next, NEW W, IsTree(fs, next, W)
    PROVE  /\ next \in Nat /\ fs \in [Level -> SUBSET TableFile]
           /\ \A l \in Level : IsTables(fs[l], W) /\ AreTables(fs[l], W)
           /\ \A l \in Level : \A f \in fs[l] : f.number < next /\ IsTable(f, W)
           /\ \A l, m \in Level : \A f \in fs[l], g \in fs[m] : f.number = g.number => l = m
<1>1. /\ next \in Nat /\ fs \in [Level -> SUBSET TableFile]
      /\ \A l \in Level : IsTables(fs[l], W) /\ \A f \in fs[l] : f.number < next
      /\ \A l, m \in Level : \A f \in fs[l], g \in fs[m] : f.number = g.number => l = m
  BY DEF IsTree
<1>2. \A l \in Level : AreTables(fs[l], W)
  BY <1>1, TablesAre
<1> QED
  BY <1>1, <1>2 DEF AreTables

\* The levels of a version are tables.
LEMMA TreeTables ==
    ASSUME NEW next, NEW W, IsTree(files, next, W)
    PROVE  LevelTables(W)
  BY TreeProp DEF LevelTables

\* A version stays one when more is written.
LEMMA TreeGrows ==
    ASSUME NEW W, NEW V, W \subseteq V, NEW fs, NEW next, IsTree(fs, next, W)
    PROVE  IsTree(fs, next, V)
  BY TreeProp, TablesGrow DEF IsTree

\* New files at one level, with new numbers; files may go at every level.
LEMMA TreeChange ==
    ASSUME NEW fs, NEW next, NEW W, IsEntries(W), IsTree(fs, next, W),
           NEW gs \in [Level -> SUBSET TableFile], NEW F, IsTables(F, W), NEW L \in Level,
           NEW n \in Nat, next <= n, \A f \in F : next <= f.number /\ f.number < n,
           \A l \in Level : l # L => gs[l] \subseteq fs[l],
           gs[L] \subseteq fs[L] \cup F
    PROVE  IsTree(gs, n, W)
<1>1. /\ next \in Nat
      /\ \A l \in Level : IsTables(fs[l], W) /\ AreTables(fs[l], W)
      /\ \A l \in Level : \A f \in fs[l] : f.number < next /\ IsTable(f, W)
      /\ \A l, m \in Level : \A f \in fs[l], g \in fs[m] : f.number = g.number => l = m
  BY TreeProp
<1>2. \A f \in F : IsTable(f, W) /\ f.number \in Nat
  BY TableProp DEF IsTables
<1>3. \A l \in Level : \A f \in fs[l] : f.number \in Nat
  BY <1>1, TableProp
<1>4. ASSUME NEW l \in Level PROVE IsTables(gs[l], W) /\ \A f \in gs[l] : f.number < n
  <2>1. CASE l # L
    <3>1. gs[l] \subseteq fs[l]
      BY <2>1
    <3>2. IsTables(gs[l], W)
      BY <1>1, <3>1, TablesSubset
    <3> QED
      BY <1>1, <1>3, <3>1, <3>2
  <2>2. CASE l = L
    <3>1. IsFiniteSet(fs[L] \cup F)
      BY <1>1, FS_Union DEF IsTables
    <3>2. IsTables(fs[L] \cup F, W)
      <4>1. \A f \in fs[L] \cup F : IsTable(f, W)
        BY <1>1, <1>2
      <4>2. \A f, g \in fs[L] \cup F : f.number = g.number => f = g
        BY <1>1, <1>2, <1>3 DEF IsTables
      <4> QED
        BY <3>1, <4>1, <4>2 DEF IsTables
    <3>3. IsTables(gs[L], W)
      BY <3>2, TablesSubset
    <3> QED
      BY <1>1, <1>3, <2>2, <3>3
  <2> QED
    BY <2>1, <2>2
<1>5. ASSUME NEW l \in Level, NEW m \in Level, NEW f \in gs[l], NEW g \in gs[m], f.number = g.number
      PROVE  l = m
  <2>1. (f \in fs[l] \/ (l = L /\ f \in F)) /\ (g \in fs[m] \/ (m = L /\ g \in F))
    OBVIOUS
  <2> QED
    BY <1>1, <1>2, <1>3, <1>5, <2>1
<1> QED
  BY <1>4, <1>5 DEF IsTree

\* Files moved one level down.
LEMMA TreeMove ==
    ASSUME NEW fs, NEW next, NEW W, IsEntries(W), IsTree(fs, next, W),
           NEW gs \in [Level -> SUBSET TableFile], NEW L \in Level, L + 1 \in Level, NEW A, A \subseteq fs[L],
           \A l \in Level : l # L /\ l # L + 1 => gs[l] = fs[l],
           gs[L] = fs[L] \ A, gs[L + 1] = fs[L + 1] \cup A
    PROVE  IsTree(gs, next, W)
<1>1. /\ next \in Nat
      /\ \A l \in Level : IsTables(fs[l], W) /\ AreTables(fs[l], W)
      /\ \A l \in Level : \A f \in fs[l] : f.number < next /\ IsTable(f, W)
      /\ \A l, m \in Level : \A f \in fs[l], g \in fs[m] : f.number = g.number => l = m
  BY TreeProp
<1>0. L \in Int /\ L # L + 1
  BY LsmAssumption DEF Level
<1>2. IsTables(gs[L], W)
  BY <1>1, TablesSubset
<1>3. IsTables(gs[L + 1], W)
  <2>1. IsFiniteSet(gs[L + 1])
    <3>1. IsFiniteSet(fs[L]) /\ IsFiniteSet(fs[L + 1])
      BY <1>1 DEF IsTables
    <3>2. IsFiniteSet(A)
      BY <3>1, FS_Subset
    <3> QED
      BY <3>1, <3>2, FS_Union
  <2>2. \A f \in gs[L + 1] : IsTable(f, W)
    BY <1>1
  <2>3. \A f, g \in gs[L + 1] : f.number = g.number => f = g
    BY <1>0, <1>1 DEF IsTables
  <2> QED
    BY <2>1, <2>2, <2>3 DEF IsTables
<1>4. ASSUME NEW l \in Level PROVE IsTables(gs[l], W) /\ \A f \in gs[l] : f.number < next
  BY <1>1, <1>2, <1>3
<1>5. ASSUME NEW l \in Level, NEW m \in Level, NEW f \in gs[l], NEW g \in gs[m], f.number = g.number
      PROVE  l = m
  <2>1. ASSUME NEW k \in Level, NEW h \in gs[k]
        PROVE  \/ h \in fs[k] /\ (k = L => h \notin A)
               \/ k = L + 1 /\ h \in A
    BY <1>0
  <2>2. \/ f \in fs[l] /\ (l = L => f \notin A)
        \/ l = L + 1 /\ f \in A
    BY <2>1
  <2>3. \/ g \in fs[m] /\ (m = L => g \notin A)
        \/ m = L + 1 /\ g \in A
    BY <2>1
  <2> QED
    BY <1>1, <1>5, <2>2, <2>3 DEF IsTables
<1> QED
  BY <1>1, <1>4, <1>5 DEF IsTree

\* A memtable is flushed below level 0 only when nothing from level 0 to its level overlaps it.
LEMMA PickLevelProp ==
    ASSUME NEW low, NEW high
    PROVE  /\ PickLevelForMemTableOutput(low, high) \in Level
           /\ PickLevelForMemTableOutput(low, high) # 0 =>
                  \A j \in 0 .. PickLevelForMemTableOutput(low, high) : Overlapping(files[j], low, high) = {}
<1> DEFINE Blocked(level) ==
              \/ OverlapInLevel(level + 1, low, high)
              \/ /\ level + 2 < NumLevels
                 /\ TotalFileSize(GetOverlappingInputs(level + 2, low, high)) > GrandParentLimit
           M == MaxMemCompactLevel
           stops == {l \in 0 .. M - 1 : Blocked(l)}
           n == PickLevelForMemTableOutput(low, high)
<1>0. M \in Nat /\ M # 0 /\ M < NumLevels /\ NumLevels \in Nat
  BY LsmAssumption
<1>1. n = IF OverlapInLevel(0, low, high) THEN 0 ELSE IF stops = {} THEN M ELSE Min(stops)
  BY DEF PickLevelForMemTableOutput
<1>2. stops \subseteq 0 .. M - 1 /\ \A l \in 0 .. M - 1 : l \notin stops => ~OverlapInLevel(l + 1, low, high)
  OBVIOUS
<1> HIDE DEF stops, n, M
<1>3. ASSUME NEW m \in 0 .. M, \A l \in 0 .. M - 1 : l < m => l \notin stops, ~OverlapInLevel(0, low, high),
             NEW j \in 0 .. m
      PROVE  Overlapping(files[j], low, high) = {}
  <2>1. CASE j = 0
    BY <1>3, <2>1 DEF OverlapInLevel
  <2>2. CASE j # 0
    <3>1. j - 1 \in 0 .. M - 1 /\ j - 1 < m /\ (j - 1) + 1 = j
      BY <1>0, <2>2
    <3>2. ~OverlapInLevel((j - 1) + 1, low, high)
      BY <1>2, <1>3, <3>1
    <3> QED
      BY <3>1, <3>2 DEF OverlapInLevel
  <2> QED
    BY <2>1, <2>2
<1>4. CASE OverlapInLevel(0, low, high)
  <2>1. n = 0 /\ n \in Level
    BY <1>0, <1>1, <1>4 DEF Level
  <2> QED
    BY <2>1 DEF n
<1>5. CASE ~OverlapInLevel(0, low, high) /\ stops = {}
  <2>1. n = M /\ n \in 0 .. M /\ n \in Level
    BY <1>0, <1>1, <1>5 DEF Level
  <2> QED
    BY <1>3, <1>5, <2>1 DEF n
<1>6. CASE ~OverlapInLevel(0, low, high) /\ stops # {}
  <2>1. stops \subseteq Nat
    BY <1>0, <1>2
  <2>2. Min(stops) \in stops /\ \A y \in stops : Min(stops) <= y
    BY <1>6, <2>1, MinProp
  <2>3. n = Min(stops)
    BY <1>1, <1>6
  <2>4. n \in 0 .. M - 1
    BY <1>2, <2>2, <2>3
  <2>5. n \in 0 .. M /\ n \in Level
    BY <1>0, <2>4 DEF Level
  <2>6. \A l \in 0 .. M - 1 : l < n => l \notin stops
    BY <1>0, <2>2, <2>3, <2>4
  <2> QED
    BY <1>3, <1>6, <2>5, <2>6 DEF n
<1> QED
  BY <1>4, <1>5, <1>6

\* The files a compaction leaves.
LEMMA OutputFilesProp ==
    ASSUME NEW W, IsEntries(W), next_file \in Nat, NEW D, D \subseteq W, NEW outputs \in Seq((SUBSET D) \ {{}})
    PROVE  /\ IsTables(OutputFiles(outputs), W)
           /\ Len(outputs) \in Nat
           /\ \A f \in OutputFiles(outputs) : next_file <= f.number /\ f.number < next_file + Len(outputs)
           /\ DataOf(OutputFiles(outputs)) = UNION ToSet(outputs)
           /\ UNION ToSet(outputs) \subseteq D
           /\ \A f \in OutputFiles(outputs) : \E i \in 1 .. Len(outputs) : f = FileMetaData(next_file + i - 1, outputs[i])
<1> DEFINE n == Len(outputs)
           F == OutputFiles(outputs)
           File(i) == FileMetaData(next_file + i - 1, outputs[i])
<1>1. n \in Nat /\ \A i \in 1 .. n : outputs[i] \subseteq D /\ outputs[i] # {}
  OBVIOUS
<1>2. F = {File(i) : i \in 1 .. n}
  BY DEF OutputFiles
<1>3. ASSUME NEW i \in 1 .. n
      PROVE  IsTable(File(i), W) /\ File(i).number = next_file + i - 1 /\ File(i).data = outputs[i]
  <2>1. next_file + i - 1 \in Nat
    BY <1>1
  <2>2. outputs[i] \subseteq W /\ outputs[i] # {}
    BY <1>1
  <2> QED
    BY <2>1, <2>2, TableOf
<1> HIDE DEF n, F, File
<1>4. \A f \in F : IsTable(f, W)
  BY <1>2, <1>3
<1>5. \A f, g \in F : f.number = g.number => f = g
  <2> SUFFICES ASSUME NEW i \in 1 .. n, NEW j \in 1 .. n, File(i).number = File(j).number PROVE i = j
    BY <1>2
  <2> QED
    BY <1>1, <1>3
<1>6. IsFiniteSet(F)
  <2> DEFINE fn == [i \in 1 .. n |-> File(i)]
  <2>1. fn \in Surjection(1 .. n, F)
    BY <1>2 DEF Surjection
  <2>2. IsFiniteSet(1 .. n)
    BY <1>1, FS_Interval
  <2> HIDE DEF fn
  <2> QED
    BY <2>1, <2>2, FS_Surjection
<1>7. IsTables(F, W)
  BY <1>4, <1>5, <1>6 DEF IsTables
<1>8. \A f \in F : next_file <= f.number /\ f.number < next_file + n
  BY <1>1, <1>2, <1>3
<1>9. ToSet(outputs) = {outputs[i] : i \in 1 .. n}
  BY ToSetProp DEF n
<1>10. DataOf(F) = UNION ToSet(outputs)
  BY <1>2, <1>3, <1>9 DEF DataOf
<1>11. UNION ToSet(outputs) \subseteq D
  BY <1>1, <1>9
<1>12. \A f \in F : \E i \in 1 .. n : f = FileMetaData(next_file + i - 1, outputs[i])
  BY <1>2 DEF File
<1> QED
  BY <1>1, <1>7, <1>8, <1>10, <1>11, <1>12 DEF n, F

-----------------------------------------------------------------------------
\* What a step of the background thread that starts a compaction does.
Begins(L, P) ==
    /\ imm = {} /\ compaction = Nil
    /\ IsPick(P, L) /\ (~manual => Solid(P))
    /\ Begin(SetupOtherInputs(L, P))
    /\ UNCHANGED <<last_sequence, mem, imm, next_file, snapshots, written, disturbed, lapsed, calls,
                   caller, manual>>

\* A request that finds no files is done.
Ends ==
    /\ caller' = Nil /\ manual' = FALSE
    /\ UNCHANGED <<last_sequence, mem, imm, next_file, snapshots, written, disturbed, lapsed, calls,
                   compaction, files, file_to_compact, compact_pointer>>

\* What most steps need of TypeInv.
LEMMA TypeFacts ==
    ASSUME TypeInv
    PROVE  /\ IsEntries(written) /\ LevelTables(written) /\ next_file \in Nat
           /\ mem \subseteq written /\ imm \subseteq written
           /\ \A l \in Level : IsTables(files[l], written) /\ AreTables(files[l], written)
  BY TreeProp, TreeTables DEF TypeInv, IsHistory

\* BackgroundCompaction ends a manual compaction or begins with inputs that were picked.
LEMMA BackgroundCases ==
    ASSUME TypeInv, BackgroundCompaction
    PROVE  Ends \/ \E L \in 0 .. NumLevels - 2 : \E P : Begins(L, P)
<1>0. IsEntries(written) /\ LevelTables(written)
  BY TypeFacts
<1>1. CASE manual
  <2> DEFINE L == caller.level
             P == CompactRange(caller.level, caller.begin, caller.end)
  <2>1. CompactOrDone(L, P)
    BY <1>1 DEF BackgroundCompaction
  <2>2. caller \in [level : ManualLevels, begin : Keys, end : Keys]
    BY <1>1 DEF TypeInv, IsRequest
  <2>3. L \in 0 .. NumLevels - 2 /\ caller.begin \in Keys /\ caller.end \in Keys
    BY <2>2, LsmAssumption
  <2>4. CASE P = {}
    BY <2>1, <2>4 DEF CompactOrDone, ManualDone, BackgroundCompaction, Ends
  <2>5. CASE P # {}
    <3>1. IsPick(P, L)
      BY <1>0, <2>3, <2>5, CompactRangeProp
    <3>2. Begins(L, P)
      BY <1>1, <2>1, <2>5, <3>1 DEF CompactOrDone, BackgroundCompaction, Begins
    <3> QED
      BY <2>3, <3>2
  <2> QED
    BY <2>4, <2>5
<1>2. CASE ~manual
  <2> DEFINE pick == PickCompaction
             L == pick.level
             P == PickedInputs(pick)
  <2>1. NeedsCompaction /\ CompactOrDone(L, P)
    BY <1>2 DEF BackgroundCompaction, CompactPicked
  <2>2. L \in 0 .. NumLevels - 2 /\ pick.file \in files[L]
    BY <1>0, <2>1, PickCompactionProp DEF TypeInv, IsSeek
  <2>3. IsPick(P, L) /\ Solid(P)
    BY <1>0, <2>2, PickedInputsProp DEF IsAutomaticPick
  <2>4. P # {}
    BY <2>3 DEF IsPick
  <2>5. Begins(L, P)
    BY <1>2, <2>1, <2>3, <2>4 DEF CompactOrDone, BackgroundCompaction, Begins
  <2> QED
    BY <2>2, <2>5
<1> QED
  BY <1>1, <1>2

\* A file moved one level down as it is.
Moves(c, L) ==
    /\ files' \in [Level -> SUBSET TableFile]
    /\ \A l \in Level : l # L /\ l # L + 1 => files'[l] = files[l]
    /\ files'[L] = files[L] \ c.in0 /\ files'[L + 1] = files[L + 1] \cup c.in0
    /\ file_to_compact' = Nil /\ UNCHANGED compaction
    /\ ~manual /\ c.in1 = {} /\ \E f : c.in0 = {f}

Starts(c, L) ==
    /\ compaction' = [level |-> L, in0 |-> c.in0, in1 |-> c.in1, outputs |-> DoCompactionWork(c),
                      manual_end |-> IF manual THEN LastFile(c.in0).largest.key ELSE Nil]
    /\ UNCHANGED <<files, file_to_compact>>

\* It then moves a file or starts a merge, and moves compact_pointer_.
LEMMA BeginCases ==
    ASSUME TypeInv, NEW L \in 0 .. NumLevels - 2, NEW P, Begins(L, P)
    PROVE  /\ IsSetup(SetupOtherInputs(L, P), L, written)
           /\ Moves(SetupOtherInputs(L, P), L) \/ Starts(SetupOtherInputs(L, P), L)
           /\ compact_pointer' = [compact_pointer EXCEPT ![L] = LargestOf(SetupOtherInputs(L, P).in0)]
<1> DEFINE c == SetupOtherInputs(L, P)
<1>0. IsEntries(written) /\ LevelTables(written)
  BY TypeFacts
<1>1. IsSetup(c, L, written)
  BY <1>0, SetupProp DEF Begins, IsPick
<1>2. Begin(c)
  BY DEF Begins
<1> HIDE DEF c
<1>3. c.level = L /\ c.in0 \subseteq files[L] /\ c.in0 # {}
  BY <1>1 DEF IsSetup
<1>4. compact_pointer' = [compact_pointer EXCEPT ![L] = LargestOf(c.in0)]
  BY <1>2, <1>3 DEF Begin
<1>5. CASE ~manual /\ IsTrivialMove(c)
  <2>1. files' = [files EXCEPT ![L] = @ \ c.in0, ![L + 1] = @ \cup c.in0]
    BY <1>2, <1>3, <1>5 DEF Begin, Move, Install
  <2>2. file_to_compact' = Nil /\ UNCHANGED compaction
    BY <1>2, <1>5 DEF Begin, Move, Install
  <2>3. L \in Level /\ L + 1 \in Level /\ L # L + 1
    BY LsmAssumption DEF Level
  <2>4. files \in [Level -> SUBSET TableFile]
    BY TreeProp DEF TypeInv
  <2>5. c.in0 \subseteq TableFile
    BY <1>3, <2>3, <2>4
  <2>6. /\ files' \in [Level -> SUBSET TableFile]
        /\ \A l \in Level : l # L /\ l # L + 1 => files'[l] = files[l]
        /\ files'[L] = files[L] \ c.in0 /\ files'[L + 1] = files[L + 1] \cup c.in0
    BY <2>1, <2>3, <2>4, <2>5
  <2>7. c.in1 = {} /\ Cardinality(c.in0) = 1
    BY <1>5 DEF IsTrivialMove
  <2>8. IsFiniteSet(c.in0)
    <3>1. IsTables(files[L], written)
      BY <2>3, TypeFacts
    <3> QED
      BY <1>3, <3>1, FS_Subset DEF IsTables
  <2>9. \E f : c.in0 = {f}
    BY <2>7, <2>8, FS_Singleton
  <2> QED
    BY <1>1, <1>4, <1>5, <2>2, <2>6, <2>7, <2>9 DEF Moves, c
<1>6. CASE ~(~manual /\ IsTrivialMove(c))
  <2>1. Starts(c, L)
    BY <1>2, <1>3, <1>6 DEF Begin, Start, Starts
  <2> QED
    BY <1>1, <1>4, <2>1 DEF c
<1> QED
  BY <1>5, <1>6

\* The merge that starts.
LEMMA StartsProp ==
    ASSUME TypeInv, NEW L \in 0 .. NumLevels - 2, NEW c, IsSetup(c, L, written), Starts(c, L)
    PROVE  /\ compaction'.level = L /\ compaction'.in0 = c.in0 /\ compaction'.in1 = c.in1
           /\ compaction'.manual_end \in Keys \cup {Nil} /\ (manual <=> compaction'.manual_end # Nil)
           /\ IsMerge(compaction'.outputs, c, DataOf(c.in0 \cup c.in1))
           /\ c.in1 \subseteq files[L + 1] /\ DataOf(c.in0 \cup c.in1) \subseteq written
           /\ UNCHANGED <<files, file_to_compact>>
<1>0. IsEntries(written) /\ LevelTables(written) /\ manual \in BOOLEAN
  BY TypeFacts DEF TypeInv, IsRequest
<1>1. L \in Level /\ L + 1 \in Level
  BY LsmAssumption DEF Level
<1>2. /\ c.in0 \subseteq files[L] /\ c.in0 # {} /\ c.in1 \subseteq files[L + 1] /\ IsTables(c.grandparents, written)
  BY DEF IsSetup, Overlapping
<1>3. IsTables(files[L], written) /\ AreTables(files[L], written) /\ AreTables(files[L + 1], written)
  BY <1>1, TypeFacts
<1>4. DataOf(c.in0 \cup c.in1) \subseteq written
  <2>1. \A f \in c.in0 \cup c.in1 : IsTable(f, written)
    BY <1>2, <1>3 DEF AreTables
  <2>2. \A f \in c.in0 \cup c.in1 : f.data \subseteq written
    BY <1>0, <2>1, TableProp
  <2> QED
    BY <2>2 DEF DataOf
<1>5. IsMerge(DoCompactionWork(c), c, DataOf(c.in0 \cup c.in1))
  BY <1>0, <1>2, <1>4, MergeProp DEF DoCompactionWork
<1>6. LastFile(c.in0).largest.key \in Keys
  <2>1. IsTables(c.in0, written)
    BY <1>2, <1>3, TablesSubset
  <2>2. LastFile(c.in0) \in c.in0
    BY <1>0, <1>2, <2>1, FirstLastFile
  <2>3. IsTable(LastFile(c.in0), written)
    BY <2>1, <2>2 DEF IsTables
  <2> QED
    BY <1>0, <2>3, TableKeys
<1>7. LastFile(c.in0).largest.key # Nil
  BY <1>6, LsmAssumption
<1> QED
  BY <1>0, <1>2, <1>4, <1>5, <1>6, <1>7 DEF Starts

\* What TypeInv says of the compaction in progress.
LEMMA WorkProp ==
    ASSUME TypeInv, compaction # Nil
    PROVE  /\ compaction.level \in 0 .. NumLevels - 2 /\ compaction.level \in Level /\ compaction.level + 1 \in Level
           /\ compaction.level # compaction.level + 1
           /\ compaction.in0 \subseteq files[compaction.level] /\ compaction.in0 # {}
           /\ compaction.in1 \subseteq files[compaction.level + 1]
           /\ \A f \in compaction.in0 \cup compaction.in1 : IsTable(f, written)
           /\ DataOf(compaction.in0 \cup compaction.in1) \subseteq written
           /\ compaction.outputs \in Seq((SUBSET DataOf(compaction.in0 \cup compaction.in1)) \ {{}})
<1> DEFINE L == compaction.level
<1>1. L \in 0 .. NumLevels - 2 /\ L \in Level /\ L + 1 \in Level /\ L # L + 1
  <2>1. L \in 0 .. NumLevels - 2
    BY DEF TypeInv, IsWork
  <2>2. NumLevels \in Nat
    BY LsmAssumption
  <2> HIDE DEF L
  <2> QED
    BY <2>1, <2>2 DEF Level
<1>2. /\ compaction.in0 \subseteq files[L] /\ compaction.in0 # {} /\ compaction.in1 \subseteq files[L + 1]
      /\ compaction.outputs \in Seq((SUBSET DataOf(compaction.in0 \cup compaction.in1)) \ {{}})
  BY DEF TypeInv, IsWork
<1>3. IsEntries(written) /\ AreTables(files[L], written) /\ AreTables(files[L + 1], written)
  BY <1>1, TypeFacts
<1>4. \A f \in compaction.in0 \cup compaction.in1 : IsTable(f, written)
  BY <1>2, <1>3 DEF AreTables
<1>5. \A f \in compaction.in0 \cup compaction.in1 : f.data \subseteq written
  BY <1>3, <1>4, TableProp
<1>6. DataOf(compaction.in0 \cup compaction.in1) \subseteq written
  BY <1>5 DEF DataOf
<1> QED
  BY <1>1, <1>2, <1>4, <1>6

\* The version after a compaction.
Installs(c, F) ==
    /\ files' \in [Level -> SUBSET TableFile]
    /\ \A l \in Level : l # c.level /\ l # c.level + 1 => files'[l] = files[l]
    /\ files'[c.level] = files[c.level] \ c.in0
    /\ files'[c.level + 1] = (files[c.level + 1] \ c.in1) \cup F

\* InstallCompactionResults puts tables with new numbers in the place of the inputs.
LEMMA InstallsProp ==
    ASSUME TypeInv, InstallCompactionResults
    PROVE  /\ compaction # Nil
           /\ Installs(compaction, OutputFiles(compaction.outputs))
           /\ IsTables(OutputFiles(compaction.outputs), written)
           /\ Len(compaction.outputs) \in Nat
           /\ \A f \in OutputFiles(compaction.outputs) :
                  next_file <= f.number /\ f.number < next_file + Len(compaction.outputs)
           /\ DataOf(OutputFiles(compaction.outputs)) = UNION ToSet(compaction.outputs)
           /\ UNION ToSet(compaction.outputs) \subseteq DataOf(compaction.in0 \cup compaction.in1)
<1> DEFINE c == compaction
           L == c.level
           F == OutputFiles(c.outputs)
<1>0. compaction # Nil
  BY DEF InstallCompactionResults
<1>1. /\ L \in Level /\ L + 1 \in Level /\ L # L + 1 /\ DataOf(c.in0 \cup c.in1) \subseteq written
      /\ c.outputs \in Seq((SUBSET DataOf(c.in0 \cup c.in1)) \ {{}})
  BY <1>0, WorkProp
<1>2. IsEntries(written) /\ next_file \in Nat /\ files \in [Level -> SUBSET TableFile]
  BY TypeFacts, TreeProp DEF TypeInv
<1>3. /\ IsTables(F, written) /\ Len(c.outputs) \in Nat
      /\ \A f \in F : next_file <= f.number /\ f.number < next_file + Len(c.outputs)
      /\ DataOf(F) = UNION ToSet(c.outputs)
      /\ UNION ToSet(c.outputs) \subseteq DataOf(c.in0 \cup c.in1)
  <2> DEFINE D == DataOf(c.in0 \cup c.in1)
             o == c.outputs
  <2>1. D \subseteq written /\ o \in Seq((SUBSET D) \ {{}})
    BY <1>1
  <2> HIDE DEF D, o
  <2>2. /\ IsTables(OutputFiles(o), written) /\ Len(o) \in Nat
        /\ \A f \in OutputFiles(o) : next_file <= f.number /\ f.number < next_file + Len(o)
        /\ DataOf(OutputFiles(o)) = UNION ToSet(o)
        /\ UNION ToSet(o) \subseteq D
    BY <1>2, <2>1, OutputFilesProp
  <2> QED
    BY <2>2 DEF D, o
<1>4. F \subseteq TableFile
  BY <1>2, <1>3, TableType DEF IsTables
<1>5. files' = [AddInputDeletions(c) EXCEPT ![L + 1] = @ \cup F]
  BY DEF InstallCompactionResults, Install
<1>6. AddInputDeletions(c) = [files EXCEPT ![L] = @ \ c.in0, ![L + 1] = @ \ c.in1]
  BY DEF AddInputDeletions
<1> HIDE DEF F, L
<1>7. /\ files' \in [Level -> SUBSET TableFile]
      /\ \A l \in Level : l # L /\ l # L + 1 => files'[l] = files[l]
      /\ files'[L] = files[L] \ c.in0
      /\ files'[L + 1] = (files[L + 1] \ c.in1) \cup F
  BY <1>1, <1>2, <1>4, <1>5, <1>6
<1> QED
  BY <1>0, <1>3, <1>7 DEF Installs, F, L

\* The version after a flush, with the level of the new file.
Flushes(l, f) ==
    /\ l \in Level /\ f = FileMetaData(next_file, imm)
    /\ files' \in [Level -> SUBSET TableFile]
    /\ \A k \in Level : k # l => files'[k] = files[k]
    /\ files'[l] = files[l] \cup {f}
    /\ IsTable(f, written) /\ f.number = next_file /\ f.data = imm
    /\ l # 0 => \A j \in 0 .. l : Overlapping(files[j], f.smallest.key, f.largest.key) = {}

\* FlushMemTable puts one table with a new number into the level picked for it.
LEMMA FlushesProp ==
    ASSUME TypeInv, FlushMemTable
    PROVE  \E l, f : Flushes(l, f)
<1> DEFINE f == FileMetaData(next_file, imm)
           l == PickLevelForMemTableOutput(f.smallest.key, f.largest.key)
<1>1. IsEntries(written) /\ next_file \in Nat /\ files \in [Level -> SUBSET TableFile] /\ imm \subseteq written
  BY TypeFacts, TreeProp DEF TypeInv
<1>2. IsTable(f, written) /\ f.number = next_file /\ f.data = imm
  BY <1>1, TableOf DEF FlushMemTable
<1>3. f \in TableFile
  BY <1>1, <1>2, TableType
<1>4. l \in Level /\ (l # 0 => \A j \in 0 .. l : Overlapping(files[j], f.smallest.key, f.largest.key) = {})
  BY PickLevelProp
<1>5. files' = [files EXCEPT ![l] = @ \cup {f}]
  BY DEF FlushMemTable, Flush, Install
<1> HIDE DEF l, f
<1>6. /\ files' \in [Level -> SUBSET TableFile]
      /\ \A k \in Level : k # l => files'[k] = files[k]
      /\ files'[l] = files[l] \cup {f}
  BY <1>1, <1>3, <1>4, <1>5
<1>7. Flushes(l, f)
  BY <1>2, <1>4, <1>6 DEF Flushes, f
<1> QED
  BY <1>7

-----------------------------------------------------------------------------
\* The types hold in a new database.
LEMMA TypeInit ==
    ASSUME Init PROVE TypeInv
<1>1. IsHistory(written, last_sequence, mem, imm, snapshots)
  <2>1. IsEntries({})
    BY FS_EmptySet DEF IsEntries
  <2>2. 0 \in 0 .. MaxSeq
    BY LsmAssumption
  <2> QED
    BY <2>1, <2>2 DEF Init, IsHistory
<1>2. IsTree(files, next_file, written)
  <2>1. IsTables({}, {})
    BY FS_EmptySet DEF IsTables
  <2>2. files \in [Level -> SUBSET TableFile] /\ \A l \in Level : files[l] = {}
    BY DEF Init
  <2> QED
    BY <2>1, <2>2 DEF Init, IsTree
<1>3. IsPointers(compact_pointer)
  BY DEF Init, IsPointers
<1> QED
  BY <1>1, <1>2, <1>3 DEF Init, TypeInv, IsSeek, IsRequest, IsWork

\* The entry of a write: its sequence number is new.
LEMMA WriteProp ==
    ASSUME TypeInv, NEW key \in Keys, NEW del \in Types, Write(key, del)
    PROVE  \E e : /\ e \in Entry /\ e.key = key /\ e.seq = last_sequence + 1
                  /\ mem' = mem \cup {e} /\ written' = written \cup {e}
                  /\ IsEntries(written') /\ last_sequence' = last_sequence + 1
                  /\ last_sequence \in Nat /\ last_sequence' \in 0 .. MaxSeq
                  /\ \A d \in written : d.seq <= last_sequence /\ d.seq \in Int
<1> DEFINE e == [key |-> key, seq |-> last_sequence + 1, del |-> del]
<1>1. /\ last_sequence \in 0 .. MaxSeq /\ last_sequence < MaxSeq /\ MaxSeq \in Nat /\ last_sequence \in Nat
      /\ IsEntries(written) /\ \A d \in written : d.seq <= last_sequence
  BY LsmAssumption DEF Write, TypeInv, IsHistory
<1>2. last_sequence + 1 \in 1 .. MaxSeq
  BY <1>1
<1>3. del \in BOOLEAN
  BY LsmAssumption
<1>4. e \in Entry /\ e.key = key /\ e.seq = last_sequence + 1
  BY <1>2, <1>3 DEF Entry
<1>5. /\ mem' = mem \cup {e} /\ written' = written \cup {e} /\ last_sequence' = last_sequence + 1
  BY DEF Write
<1> HIDE DEF e
<1>6. \A d \in written : d.seq <= last_sequence /\ d.seq \in Int
  BY <1>1, EntryType DEF IsEntries
<1>7. IsEntries(written \cup {e})
  <2>1. IsFiniteSet(written \cup {e}) /\ written \cup {e} \subseteq Entry
    BY <1>1, <1>4, FS_AddElement DEF IsEntries
  <2>2. \A d, b \in written \cup {e} : d.seq = b.seq => d = b
    BY <1>1, <1>4, <1>6 DEF IsEntries
  <2> QED
    BY <2>1, <2>2 DEF IsEntries
<1>8. last_sequence' \in 0 .. MaxSeq
  BY <1>1, <1>5
<1> QED
  BY <1>1, <1>4, <1>5, <1>6, <1>7, <1>8

\* A write takes the next sequence number.
LEMMA TypeWrite ==
    ASSUME TypeInv, NEW key \in Keys, NEW del \in Types, Write(key, del)
    PROVE  TypeInv'
<1>1. PICK e : /\ e \in Entry /\ e.key = key /\ e.seq = last_sequence + 1
               /\ mem' = mem \cup {e} /\ written' = written \cup {e}
               /\ IsEntries(written') /\ last_sequence' = last_sequence + 1
               /\ last_sequence \in Nat /\ last_sequence' \in 0 .. MaxSeq
               /\ \A d \in written : d.seq <= last_sequence /\ d.seq \in Int
  BY WriteProp
<1>2. UNCHANGED <<imm, tree, snapshots, compaction, caller, manual>>
  BY DEF Write
<1>3. IsHistory(written', last_sequence', mem', imm', snapshots')
  <2>1. \A d \in written' : d.seq <= last_sequence'
    BY <1>1
  <2>2. mem \subseteq written /\ imm \subseteq written /\ snapshots \subseteq 0 .. last_sequence
    BY DEF TypeInv, IsHistory
  <2>3. snapshots' \subseteq 0 .. last_sequence'
    BY <1>1, <1>2, <2>2
  <2>4. mem' \subseteq written' /\ imm' \subseteq written'
    BY <1>1, <1>2, <2>2
  <2> QED
    BY <1>1, <2>1, <2>3, <2>4 DEF IsHistory
<1>4. IsTree(files, next_file, written')
  BY <1>1, TreeGrows DEF TypeInv
<1> QED
  BY <1>2, <1>3, <1>4 DEF TypeInv, tree

\* The new table has a new number, and the inputs of a compaction stay where they are.
LEMMA TypeFlush ==
    ASSUME TypeInv, FlushMemTable
    PROVE  TypeInv'
<1>1. PICK l, f : Flushes(l, f)
  BY FlushesProp
<1>2. IsEntries(written) /\ next_file \in Nat
  BY TypeFacts
<1>3. /\ next_file' = next_file + 1 /\ imm' = {} /\ file_to_compact' = Nil
      /\ UNCHANGED <<last_sequence, mem, compact_pointer, snapshots, compaction, caller, manual, written>>
  BY DEF FlushMemTable, Flush, Install
<1>4. IsTree(files', next_file', written')
  <2>1. IsTables({f}, written)
    BY <1>1, FS_Singleton DEF Flushes, IsTables
  <2>2. IsTree(files, next_file, written)
    BY DEF TypeInv
  <2>3. \A g \in {f} : next_file <= g.number /\ g.number < next_file + 1
    BY <1>1, <1>2 DEF Flushes
  <2>4. next_file + 1 \in Nat /\ next_file <= next_file + 1
    BY <1>2
  <2>5. /\ files' \in [Level -> SUBSET TableFile] /\ l \in Level
        /\ \A k \in Level : k # l => files'[k] \subseteq files[k]
        /\ files'[l] \subseteq files[l] \cup {f}
    BY <1>1 DEF Flushes
  <2>6. IsTree(files', next_file + 1, written)
    BY <1>2, <2>1, <2>2, <2>3, <2>4, <2>5, TreeChange
  <2> QED
    BY <1>3, <2>6
<1>5. IsHistory(written', last_sequence', mem', imm', snapshots')
  BY <1>3 DEF TypeInv, IsHistory
<1>6. IsWork(compaction', files', manual')
  <2> SUFFICES ASSUME compaction # Nil PROVE IsWork(compaction, files', manual)
    BY <1>3 DEF IsWork
  <2>1. compaction.level \in Level /\ compaction.level + 1 \in Level
    BY WorkProp
  <2>2. \A k \in Level : files[k] \subseteq files'[k]
    BY <1>1 DEF Flushes
  <2>3. IsWork(compaction, files, manual)
    BY DEF TypeInv
  <2> QED
    BY <2>1, <2>2, <2>3 DEF IsWork
<1> QED
  BY <1>3, <1>4, <1>5, <1>6 DEF TypeInv, IsSeek

\* A move keeps the files, a merge writes entries of its inputs only.
LEMMA TypeBackground ==
    ASSUME TypeInv, BackgroundCompaction
    PROVE  TypeInv'
<1>0. IsEntries(written) /\ LevelTables(written)
  BY TypeFacts
<1>1. CASE Ends
  <2>1. IsRequest(caller', manual')
    BY <1>1 DEF Ends, IsRequest
  <2>2. IsWork(compaction', files', manual')
    BY <1>1 DEF Ends, IsWork, BackgroundCompaction
  <2> QED
    BY <1>1, <2>1, <2>2 DEF Ends, TypeInv
<1>2. ASSUME NEW L \in 0 .. NumLevels - 2, NEW P, Begins(L, P) PROVE TypeInv'
  <2> DEFINE c == SetupOtherInputs(L, P)
  <2>1. /\ IsSetup(c, L, written)
        /\ Moves(c, L) \/ Starts(c, L)
        /\ compact_pointer' = [compact_pointer EXCEPT ![L] = LargestOf(c.in0)]
    BY <1>2, BeginCases
  <2> HIDE DEF c
  <2>2. /\ UNCHANGED <<last_sequence, mem, imm, next_file, snapshots, written, caller, manual>>
        /\ compaction = Nil
    BY <1>2 DEF Begins
  <2>3. L \in Level /\ L + 1 \in Level /\ L # L + 1
    BY LsmAssumption DEF Level
  <2>4. c.in0 \subseteq files[L] /\ c.in0 # {} /\ c.in1 \subseteq files[L + 1]
    BY <2>1 DEF IsSetup, Overlapping
  <2>5. IsPointers(compact_pointer')
    <3>1. AreTables(c.in0, written)
      BY <2>3, <2>4, TypeFacts DEF AreTables
    <3>2. LargestOf(c.in0) \in Entry
      BY <1>0, <2>4, <3>1, LargestOfProp DEF IsEntries
    <3>3. compact_pointer \in [Level -> Entry \cup {Nil}]
      BY DEF TypeInv, IsPointers
    <3> QED
      BY <2>1, <3>2, <3>3 DEF IsPointers
  <2>6. CASE Moves(c, L)
    <3>1. IsTree(files', next_file, written)
      <4>1. IsTree(files, next_file, written)
        BY DEF TypeInv
      <4>2. /\ files' \in [Level -> SUBSET TableFile]
            /\ \A l \in Level : l # L /\ l # L + 1 => files'[l] = files[l]
            /\ files'[L] = files[L] \ c.in0 /\ files'[L + 1] = files[L + 1] \cup c.in0
        BY <2>6 DEF Moves
      <4> QED
        BY <1>0, <2>3, <2>4, <4>1, <4>2, TreeMove
    <3>2. file_to_compact' = Nil /\ compaction' = Nil
      BY <2>2, <2>6 DEF Moves
    <3> QED
      BY <2>2, <2>5, <3>1, <3>2 DEF TypeInv, IsSeek, IsWork
  <2>7. CASE Starts(c, L)
    <3>1. /\ compaction'.level = L /\ compaction'.in0 = c.in0 /\ compaction'.in1 = c.in1
          /\ compaction'.manual_end \in Keys \cup {Nil} /\ (manual <=> compaction'.manual_end # Nil)
          /\ IsMerge(compaction'.outputs, c, DataOf(c.in0 \cup c.in1))
          /\ UNCHANGED <<files, file_to_compact>>
      BY <2>1, <2>7, StartsProp
    <3>2. compaction'.outputs \in Seq((SUBSET DataOf(c.in0 \cup c.in1)) \ {{}})
      BY <3>1 DEF IsMerge
    <3>3. IsWork(compaction', files', manual')
      BY <2>2, <2>4, <3>1, <3>2 DEF IsWork
    <3> QED
      BY <2>2, <2>5, <3>1, <3>3 DEF TypeInv
  <2> QED
    BY <2>1, <2>6, <2>7
<1> QED
  BY <1>1, <1>2, BackgroundCases

\* Installing removes the inputs and nothing else.
LEMMA TypeInstall ==
    ASSUME TypeInv, InstallCompactionResults
    PROVE  TypeInv'
<1> DEFINE c == compaction
           F == OutputFiles(c.outputs)
           n == next_file + Len(c.outputs)
<1>1. /\ compaction # Nil /\ Installs(c, F) /\ IsTables(F, written) /\ Len(c.outputs) \in Nat
      /\ \A f \in F : next_file <= f.number /\ f.number < n
  BY InstallsProp
<1>2. IsEntries(written) /\ next_file \in Nat
  BY TypeFacts
<1>3. c.level \in Level /\ c.level + 1 \in Level /\ c.level # c.level + 1
  BY <1>1, WorkProp
<1>4. /\ next_file' = n /\ compaction' = Nil /\ file_to_compact' = Nil
      /\ UNCHANGED <<last_sequence, mem, imm, compact_pointer, snapshots, written>>
  BY DEF InstallCompactionResults, Install
<1>5. IsTree(files', n, written)
  <2>1. n \in Nat /\ next_file <= n
    BY <1>1, <1>2
  <2>2. /\ files' \in [Level -> SUBSET TableFile]
        /\ \A l \in Level : l # c.level + 1 => files'[l] \subseteq files[l]
        /\ files'[c.level + 1] \subseteq files[c.level + 1] \cup F
    BY <1>1, <1>3 DEF Installs
  <2>3. IsTree(files, next_file, written)
    BY DEF TypeInv
  <2> HIDE DEF F, n
  <2> QED
    BY <1>1, <1>2, <1>3, <2>1, <2>2, <2>3, TreeChange
<1>6. IsRequest(caller', manual')
  <2>1. IsRequest(caller, manual) /\ IsWork(compaction, files, manual)
    BY DEF TypeInv
  <2>2. CASE compaction.manual_end # Nil
    <3>1. caller \in [level : ManualLevels, begin : Keys, end : Keys] /\ compaction.manual_end \in Keys
      BY <1>1, <2>1, <2>2 DEF IsRequest, IsWork
    <3>2. caller' = [caller EXCEPT !.begin = compaction.manual_end] /\ manual' = FALSE
      BY <2>2 DEF InstallCompactionResults
    <3> QED
      BY <3>1, <3>2 DEF IsRequest
  <2>3. CASE compaction.manual_end = Nil
    <3>1. UNCHANGED <<caller, manual>>
      BY <2>3 DEF InstallCompactionResults
    <3> QED
      BY <2>1, <3>1
  <2> QED
    BY <2>2, <2>3
<1> QED
  BY <1>4, <1>5, <1>6 DEF TypeInv, IsSeek, IsWork

\* Every step keeps the types.
LEMMA TypeStep ==
    ASSUME TypeInv, [Next]_vars
    PROVE  TypeInv'
<1>1. CASE \E k \in Keys, del \in Types : Write(k, del)
  BY <1>1, TypeWrite
<1>2. CASE SwitchMemTable
  <2>1. IsHistory(written', last_sequence', mem', imm', snapshots')
    BY <1>2 DEF TypeInv, IsHistory, SwitchMemTable
  <2> QED
    BY <1>2, <2>1 DEF TypeInv, SwitchMemTable, tree
<1>3. CASE FlushMemTable
  BY <1>3, TypeFlush
<1>4. CASE BackgroundCompaction
  BY <1>4, TypeBackground
<1>5. CASE InstallCompactionResults
  BY <1>5, TypeInstall
<1>6. CASE PostManual
  <2>1. IsRequest(caller', manual')
    BY <1>6 DEF TypeInv, IsRequest, PostManual
  <2>2. IsWork(compaction', files', manual')
    BY <1>6 DEF TypeInv, IsWork, PostManual, tree
  <2> QED
    BY <1>6, <2>1, <2>2 DEF TypeInv, PostManual, tree
<1>7. ASSUME NEW l \in ManualLevels, NEW b \in Keys, NEW e \in Keys, TEST_CompactRange(l, b, e) PROVE TypeInv'
  <2>1. IsRequest(caller', manual')
    <3>1. caller' = [level |-> l, begin |-> b, end |-> e] /\ caller = Nil /\ manual' = manual
      BY <1>7 DEF TEST_CompactRange
    <3>2. manual = FALSE
      BY <3>1 DEF TypeInv, IsRequest
    <3> QED
      BY <3>1, <3>2 DEF IsRequest
  <2> QED
    BY <1>7, <2>1 DEF TypeInv, TEST_CompactRange, tree
<1>8. ASSUME NEW k \in Keys, NEW s \in View, NEW charged \in {ChargedByGet(k, s), RecordReadSample(k, s)},
             UpdateStats(charged)
      PROVE  TypeInv'
  <2>1. file_to_compact' = charged /\ charged # Nil /\ UNCHANGED files
    BY <1>8 DEF UpdateStats
  <2>2. PICK hits : charged = Charge(ForEachOverlapping(k, s), hits)
    BY <2>1 DEF ChargedByGet, ChargeGet, RecordReadSample
  <2>3. charged.level \in 0 .. NumLevels - 2 /\ charged.file \in files[charged.level]
    BY <2>1, <2>2, TypeFacts, ChargeProp
  <2>4. IsSeek(file_to_compact', files')
    BY <2>1, <2>3 DEF IsSeek
  <2> QED
    BY <1>8, <2>4 DEF TypeInv, UpdateStats
<1>9. CASE GetSnapshot
  <2>1. IsHistory(written', last_sequence', mem', imm', snapshots')
    <3>1. last_sequence \in 0 .. last_sequence
      BY LsmAssumption DEF TypeInv, IsHistory
    <3> QED
      BY <1>9, <3>1 DEF TypeInv, IsHistory, GetSnapshot
  <2> QED
    BY <1>9, <2>1 DEF TypeInv, GetSnapshot, tree
<1>10. ASSUME NEW s \in snapshots, ReleaseSnapshot(s) PROVE TypeInv'
  <2>1. IsHistory(written', last_sequence', mem', imm', snapshots')
    BY <1>10 DEF TypeInv, IsHistory, ReleaseSnapshot
  <2> QED
    BY <1>10, <2>1 DEF TypeInv, ReleaseSnapshot, tree
<1>11. CASE UNCHANGED vars
  BY <1>11 DEF TypeInv, vars, tree
<1> QED
  BY <1>1, <1>2, <1>3, <1>4, <1>5, <1>6, <1>7, <1>8, <1>9, <1>10, <1>11 DEF Next, Background
-----------------------------------------------------------------------------
(***************************************************************************)
(* Reads, and the levels they go through.                                  *)
(***************************************************************************)
LEMMA TypeInvImplies ==
    ASSUME TypeInv PROVE TypeOK
<1>0. IsEntries(written) /\ MaxSeq \in Nat /\ written \subseteq Entry
  BY TypeFacts, LsmAssumption DEF IsEntries
<1>1. last_sequence \in 0 .. MaxSeq /\ mem \in SUBSET Entry /\ imm \in SUBSET Entry /\ IsSnapshotList(snapshots)
  BY <1>0 DEF TypeInv, IsHistory, IsSnapshotList
<1>2. IsVersion(files, file_to_compact)
  <2>1. ASSUME NEW l \in Level, NEW f \in files[l]
        PROVE  f.number < next_file /\ f.data \in (SUBSET Entry) \ {{}}
    <3>1. f.number < next_file /\ IsTable(f, written)
      BY TreeProp DEF TypeInv
    <3>2. f.data \subseteq written /\ f.data # {}
      BY <1>0, <3>1, TableProp
    <3> QED
      BY <1>0, <3>1, <3>2
  <2> QED
    BY <2>1 DEF IsVersion, TypeInv, IsSeek
<1>3. \A l \in Level : compact_pointer[l] # Nil => compact_pointer[l] \in Entry
  BY DEF TypeInv, IsPointers
<1>4. compaction # Nil => IsCompaction(compaction)
  <2> SUFFICES ASSUME compaction # Nil PROVE IsCompaction(compaction)
    OBVIOUS
  <2>1. /\ compaction.in0 \subseteq files[compaction.level] /\ compaction.in0 # {}
        /\ compaction.in1 \subseteq files[compaction.level + 1]
        /\ \A f \in compaction.in0 \cup compaction.in1 : IsTable(f, written)
    BY WorkProp
  <2>2. PICK f \in compaction.in0 : IsTable(f, written)
    BY <2>1
  <2>3. f.data # {}
    BY <1>0, <2>2, TableProp
  <2>4. DataOf(compaction.in0) # {}
    BY <2>2, <2>3 DEF DataOf
  <2> QED
    BY <2>1, <2>4 DEF IsCompaction
<1>5. manual => caller # Nil
  BY DEF TypeInv, IsRequest
<1> QED
  BY <1>1, <1>2, <1>3, <1>4, <1>5 DEF TypeOK

\* What is stored has been written.
LEMMA StoredType ==
    ASSUME TypeInv
    PROVE  /\ \A l \in Level : DataOf(files[l]) \subseteq written
           /\ Stored(mem, imm, files) \subseteq written
           /\ \A e \in written : e.seq \in Int /\ e.key \in Int /\ e.key \in Keys /\ e.seq <= last_sequence
           /\ \A e, d \in written : e.seq = d.seq => e = d
           /\ last_sequence \in Nat /\ last_sequence \in View /\ View \subseteq 0 .. last_sequence
<1>0. IsEntries(written) /\ mem \subseteq written /\ imm \subseteq written
  BY TypeFacts
<1>1. ASSUME NEW l \in Level PROVE DataOf(files[l]) \subseteq written
  <2>1. \A f \in files[l] : IsTable(f, written)
    BY TreeProp DEF TypeInv
  <2>2. \A f \in files[l] : f.data \subseteq written
    BY <1>0, <2>1, TableProp
  <2> QED
    BY <2>2 DEF DataOf
<1>2. Stored(mem, imm, files) \subseteq written
  BY <1>0, <1>1 DEF Stored
<1>3. \A e \in written : e.seq \in Int /\ e.key \in Int /\ e.key \in Keys
  BY <1>0, EntryType DEF IsEntries
<1>4. \A e \in written : e.seq <= last_sequence
  BY DEF TypeInv, IsHistory
<1>5. last_sequence \in Nat
  BY LsmAssumption DEF TypeInv, IsHistory
<1>6. View \subseteq 0 .. last_sequence /\ last_sequence \in View
  BY <1>5 DEF TypeInv, IsHistory, View
<1> QED
  BY <1>0, <1>1, <1>2, <1>3, <1>4, <1>5, <1>6 DEF IsEntries

\* A new database is sound.
LEMMA SoundInit ==
    ASSUME Init PROVE SoundInv
<1>1. files \in [Level -> {{}}] /\ \A l \in Level : files[l] = {} /\ DataOf(files[l]) = {}
  BY DEF Init, DataOf
<1>2. LevelsApart(files)
  BY <1>1 DEF LevelsApart, Disjoint
<1>3. 0 \in Level
  BY LsmAssumption DEF Level
<1>4. ByAge(mem, imm, files)
  BY <1>1, <1>3 DEF ByAge, Older, Init
<1> QED
  BY <1>2, <1>4 DEF SoundInv, Init, IsSoundWork, Kept

\* Readers that see more do not disturb a merge.
LEMMA WorkView ==
    ASSUME TypeInv, NEW V, V \subseteq Int, NEW U, U \subseteq Int, \A u \in U : \E v \in V : v <= u,
           IsSoundWork(compaction, files, V)
    PROVE  IsSoundWork(compaction, files, U)
<1> SUFFICES ASSUME compaction # Nil PROVE IsSoundWork(compaction, files, U)
  BY DEF IsSoundWork
<1> DEFINE D == DataOf(compaction.in0 \cup compaction.in1)
<1>1. D \subseteq written
  BY WorkProp
<1>2. \A d \in D : d.seq \in Int
  BY <1>1, StoredType
<1>3. ASSUME NEW e, Superseded(e, D, V) PROVE Superseded(e, D, U)
  <2>1. PICK d \in D : d.key = e.key /\ d.seq > e.seq /\ \A s \in V : d.seq <= s
    BY <1>3 DEF Superseded
  <2>2. \A u \in U : d.seq <= u
    <3> SUFFICES ASSUME NEW u \in U PROVE d.seq <= u
      OBVIOUS
    <3>1. PICK v \in V : v <= u
      OBVIOUS
    <3>2. d.seq <= v /\ d.seq \in Int /\ v \in Int /\ u \in Int
      BY <1>2, <2>1, <3>1
    <3> QED
      BY <3>1, <3>2
  <2> QED
    BY <2>1, <2>2 DEF Superseded
<1> HIDE DEF D
<1>4. \A e : Superseded(e, D, V) => Superseded(e, D, U)
  BY <1>3
<1> QED
  BY <1>4 DEF IsSoundWork, D

\* Steps that change nothing stored and add no reader.
LEMMA SoundView ==
    ASSUME TypeInv, SoundInv, View' \subseteq View,
           UNCHANGED <<mem, imm, files, compaction, written, disturbed, lapsed>>
    PROVE  SoundInv'
<1> SUFFICES ASSUME ~disturbed
             PROVE  IsSoundWork(compaction, files, View') /\ Kept(written, Stored(mem, imm, files), View', lapsed)
  BY DEF SoundInv
<1>1. View \subseteq 0 .. last_sequence /\ last_sequence \in Nat
  BY StoredType
<1>2. View \subseteq Int
  BY <1>1
<1>3. \A u \in View' : \E v \in View : v <= u
  BY <1>2
<1>4. IsSoundWork(compaction, files, View')
  <2>1. View' \subseteq Int
    BY <1>2
  <2>2. IsSoundWork(compaction, files, View)
    BY DEF SoundInv
  <2> QED
    BY <1>2, <1>3, <2>1, <2>2, WorkView
<1>5. Kept(written, Stored(mem, imm, files), View', lapsed)
  BY DEF SoundInv, Kept
<1> QED
  BY <1>4, <1>5

\* A write is newer than all that is stored; the readers of its number see it in mem_.
LEMMA SoundWrite ==
    ASSUME TypeInv, SoundInv, NEW key \in Keys, NEW del \in Types, Write(key, del)
    PROVE  SoundInv'
<1>1. PICK n : /\ n \in Entry /\ n.key = key /\ n.seq = last_sequence + 1
               /\ mem' = mem \cup {n} /\ written' = written \cup {n}
               /\ last_sequence' = last_sequence + 1
               /\ last_sequence \in Nat
               /\ \A d \in written : d.seq <= last_sequence /\ d.seq \in Int
  BY WriteProp
<1>2. UNCHANGED <<imm, files, snapshots, compaction, disturbed, lapsed>>
  BY DEF Write, tree
<1> SUFFICES ASSUME ~disturbed
             PROVE  /\ ByAge(mem', imm, files) /\ IsSoundWork(compaction, files, View')
                    /\ Kept(written', Stored(mem', imm, files), View', lapsed)
  BY <1>2 DEF SoundInv
<1>3. /\ ByAge(mem, imm, files) /\ IsSoundWork(compaction, files, View)
      /\ Kept(written, Stored(mem, imm, files), View, lapsed)
  BY DEF SoundInv
<1>4. /\ \A l \in Level : DataOf(files[l]) \subseteq written
      /\ Stored(mem, imm, files) \subseteq written
      /\ View \subseteq 0 .. last_sequence
  BY StoredType
<1>5. imm \subseteq written /\ mem \subseteq written
  BY TypeFacts
<1>6. ASSUME NEW D, D \subseteq written, Older(D, mem) PROVE Older(D, mem')
  BY <1>1, <1>6 DEF Older
<1>7. ByAge(mem', imm, files)
  BY <1>3, <1>4, <1>5, <1>6 DEF ByAge
<1>8. View' = snapshots \cup {last_sequence + 1} /\ View = snapshots \cup {last_sequence}
  BY <1>1, <1>2 DEF View
<1>9. View \subseteq Int /\ View' \subseteq Int
  BY <1>1, <1>4, <1>8
<1>10. \A u \in View' : \E v \in View : v <= u
  BY <1>1, <1>8, <1>9
<1>11. IsSoundWork(compaction, files, View')
  BY <1>3, <1>9, <1>10, WorkView
<1>12. Stored(mem', imm, files) = Stored(mem, imm, files) \cup {n}
  BY <1>1 DEF Stored
<1>13. ASSUME NEW w \in written', NEW u \in View', IsNewest(w, written', u)
       PROVE  \/ w \in Stored(mem', imm, files) \/ w \in lapsed
              \/ w.del /\ \A e \in Stored(mem', imm, files) : e.key = w.key => e.seq > w.seq
  <2>1. CASE w = n
    BY <1>12, <2>1
  <2>2. CASE w \in written
    <3> DEFINE v == IF u \in snapshots THEN u ELSE last_sequence
    <3>1. v \in View /\ v <= u /\ v \in Int /\ u \in Int /\ w.seq <= v
      BY <1>1, <1>8, <1>9, <1>13, <2>2 DEF IsNewest
    <3> HIDE DEF v
    <3>2. IsNewest(w, written, v)
      BY <1>1, <1>13, <3>1 DEF IsNewest
    <3>3. \/ w \in Stored(mem, imm, files) \/ w \in lapsed
          \/ w.del /\ \A e \in Stored(mem, imm, files) : e.key = w.key => e.seq > w.seq
      BY <1>3, <2>2, <3>1, <3>2 DEF Kept
    <3>4. n.seq > w.seq
      BY <1>1, <2>2
    <3> QED
      BY <1>12, <3>3, <3>4
  <2> QED
    BY <1>1, <2>1, <2>2
<1>14. Kept(written', Stored(mem', imm, files), View', lapsed)
  BY <1>13 DEF Kept
<1> QED
  BY <1>7, <1>11, <1>14

\* The memtable becomes imm_.
LEMMA SoundSwitch ==
    ASSUME TypeInv, SoundInv, SwitchMemTable
    PROVE  SoundInv'
<1>1. /\ imm = {} /\ imm' = mem /\ mem' = {}
      /\ UNCHANGED <<last_sequence, files, snapshots, compaction, written, disturbed, lapsed>>
  BY DEF SwitchMemTable, tree
<1>2. View' = View /\ Stored(mem', imm', files) = Stored(mem, imm, files)
  BY <1>1 DEF View, Stored
<1>3. ASSUME ByAge(mem, imm, files) PROVE ByAge(mem', imm', files)
  BY <1>1, <1>3 DEF ByAge, Older
<1> QED
  BY <1>1, <1>2, <1>3 DEF SoundInv

-----------------------------------------------------------------------------
\* A file that overlaps none of the others is apart from each.
LEMMA NoOverlapApart ==
    ASSUME NEW W, IsEntries(W), NEW fs, AreTables(fs, W), NEW f, IsTable(f, W),
           Overlapping(fs, f.smallest.key, f.largest.key) = {}, NEW g \in fs
    PROVE  g.largest.key < f.smallest.key \/ f.largest.key < g.smallest.key
<1>1. ~(g.largest.key >= f.smallest.key /\ g.smallest.key <= f.largest.key)
  BY DEF Overlapping
<1>2. /\ g.smallest.key \in Int /\ g.largest.key \in Int /\ f.smallest.key \in Int /\ f.largest.key \in Int
  BY TableProp DEF AreTables
<1> QED
  BY <1>1, <1>2

\* Files apart have no key in common.
LEMMA KeysApart ==
    ASSUME NEW W, IsEntries(W), NEW f, IsTable(f, W), NEW g, IsTable(g, W),
           g.largest.key < f.smallest.key \/ f.largest.key < g.smallest.key,
           NEW e \in f.data, NEW d \in g.data
    PROVE  e.key # d.key
<1>1. /\ f.smallest.key <= e.key /\ e.key <= f.largest.key /\ g.smallest.key <= d.key /\ d.key <= g.largest.key
      /\ g.smallest.key \in Int /\ g.largest.key \in Int /\ f.smallest.key \in Int /\ f.largest.key \in Int
      /\ e.key \in Int /\ d.key \in Int
  BY TableProp
<1> QED
  BY <1>1

\* A table that overlaps none of some tables without a gap lies before or behind them.
LEMMA SolidApart ==
    ASSUME NEW W, IsEntries(W), NEW Q, AreTables(Q, W), Solid(Q), NEW f, IsTable(f, W),
           \A h \in Q : h.largest.key < f.smallest.key \/ f.largest.key < h.smallest.key
    PROVE  Apart(f.data, DataOf(Q))
<1>1. /\ f.smallest.key \in Keys /\ f.smallest.key \in Int /\ f.largest.key \in Int /\ f.smallest.key <= f.largest.key
  BY TableProp, TableKeys
<1>2. \A h \in Q : /\ IsTable(h, W) /\ h.smallest.key \in Int /\ h.largest.key \in Int
                   /\ h.smallest.key <= h.largest.key
  BY TableProp DEF AreTables
<1>3. CASE \E h \in Q : h.largest.key < f.smallest.key
  <2>1. PICK h \in Q : h.largest.key < f.smallest.key
    BY <1>3
  <2>2. ASSUME NEW g \in Q, ~(g.largest.key < f.smallest.key) PROVE FALSE
    <3>1. f.largest.key < g.smallest.key
      BY <2>2
    <3>2. h.smallest.key <= f.smallest.key /\ f.smallest.key <= g.largest.key
      BY <1>1, <1>2, <2>1, <3>1
    <3>3. Covered(Q, f.smallest.key)
      BY <1>1, <3>2 DEF Solid
    <3>4. PICK x \in Q : x.smallest.key <= f.smallest.key /\ f.smallest.key <= x.largest.key
      BY <3>3 DEF Covered
    <3> QED
      BY <1>1, <1>2, <3>4
  <2>3. \A g \in Q : AllBefore(g.data, f.data)
    BY <1>2, <2>2, AllBeforeTables
  <2> QED
    BY <2>3 DEF Apart, AllBefore, DataOf
<1>4. CASE ~ \E h \in Q : h.largest.key < f.smallest.key
  <2>1. \A g \in Q : AllBefore(f.data, g.data)
    BY <1>2, <1>4, AllBeforeTables
  <2> QED
    BY <2>1 DEF Apart, AllBefore, DataOf
<1> QED
  BY <1>3, <1>4

\* The new table goes below no newer entry of its keys, and no file of its level overlaps it; a merge in
\* progress without gaps will not overlap it either.
LEMMA SoundFlush ==
    ASSUME TypeInv, SoundInv, FlushMemTable
    PROVE  SoundInv'
<1>1. PICK l, f : Flushes(l, f)
  BY FlushesProp
<1>2. /\ imm' = {} /\ disturbed' = (disturbed \/ (compaction # Nil /\ compaction.manual_end # Nil))
      /\ UNCHANGED <<last_sequence, mem, snapshots, compaction, written, lapsed>>
  BY DEF FlushMemTable
<1>3. View' = View
  BY <1>2 DEF View
<1> SUFFICES ASSUME ~disturbed, compaction # Nil => compaction.manual_end = Nil
             PROVE  /\ LevelsApart(files') /\ ByAge(mem, {}, files')
                    /\ IsSoundWork(compaction, files', View)
                    /\ Kept(written, Stored(mem, {}, files'), View, lapsed)
  BY <1>2, <1>3 DEF SoundInv
<1>4. /\ LevelsApart(files) /\ ByAge(mem, imm, files)
      /\ IsSoundWork(compaction, files, View)
      /\ Kept(written, Stored(mem, imm, files), View, lapsed)
  BY DEF SoundInv
<1>5. /\ l \in Level
      /\ \A k \in Level : k # l => files'[k] = files[k]
      /\ files'[l] = files[l] \cup {f}
      /\ IsTable(f, written) /\ f.number = next_file /\ f.data = imm
      /\ l # 0 => \A j \in 0 .. l : Overlapping(files[j], f.smallest.key, f.largest.key) = {}
  BY <1>1 DEF Flushes
<1>6. IsEntries(written) /\ \A k \in Level : AreTables(files[k], written)
  BY TypeFacts
<1>7. Level \subseteq Nat /\ 0 \in Level
  BY LsmAssumption DEF Level
<1>8. ASSUME l # 0, NEW j \in Level, j <= l, NEW g \in files[j]
      PROVE  IsTable(g, written) /\ (g.largest.key < f.smallest.key \/ f.largest.key < g.smallest.key)
  <2>1. Overlapping(files[j], f.smallest.key, f.largest.key) = {}
    BY <1>5, <1>7, <1>8
  <2>2. IsTable(g, written)
    BY <1>6 DEF AreTables
  <2> QED
    BY <1>5, <1>6, <2>1, <2>2, NoOverlapApart
<1>9. LevelsApart(files')
  <2> SUFFICES ASSUME l # 0, NEW g \in files[l]
               PROVE  Before(f.largest, g.smallest) \/ Before(g.largest, f.smallest)
    BY <1>4, <1>5 DEF LevelsApart, Disjoint
  <2>1. IsTable(g, written) /\ (g.largest.key < f.smallest.key \/ f.largest.key < g.smallest.key)
    BY <1>5, <1>7, <1>8
  <2> QED
    BY <1>5, <1>6, <2>1, AllBeforeTables
<1>10. DataOf(files'[l]) = DataOf(files[l]) \cup imm
  BY <1>5 DEF DataOf
<1>11. ByAge(mem, {}, files')
  <2>1. Older({}, mem) /\ \A k \in Level : Older(DataOf(files'[k]), {})
    BY DEF Older
  <2>2. ASSUME NEW k \in Level PROVE Older(DataOf(files'[k]), mem)
    <3>1. Older(DataOf(files[k]), mem) /\ Older(imm, mem)
      BY <1>4 DEF ByAge
    <3> QED
      BY <1>5, <1>10, <3>1 DEF Older
  <2>3. ASSUME NEW g \in files'[0], NEW h \in files'[0], g.number < h.number PROVE Older(g.data, h.data)
    <3>1. CASE g \in files[0] /\ h \in files[0]
      BY <1>4, <2>3, <3>1 DEF ByAge
    <3>2. CASE l = 0 /\ h = f /\ g \in files[0]
      <4>1. Older(DataOf(files[0]), imm)
        BY <1>4, <1>7 DEF ByAge
      <4> QED
        BY <1>5, <3>2, <4>1 DEF Older, DataOf
    <3>3. CASE l = 0 /\ g = f
      <4>1. \A x \in files'[0] : x.number <= next_file
        <5>1. \A x \in files[0] : x.number < next_file /\ IsTable(x, written)
          BY <1>7, TreeProp DEF TypeInv
        <5>2. next_file \in Nat /\ \A x \in files[0] : x.number \in Nat
          BY <1>6, <5>1, TableProp, TypeFacts
        <5> QED
          BY <1>5, <3>3, <5>1, <5>2
      <4>2. h.number \in Int /\ next_file \in Int
        <5>1. IsTable(h, written)
          BY <1>5, <1>6, <1>7, <3>3 DEF AreTables
        <5> QED
          BY <1>6, <5>1, TableProp, TypeFacts
      <4> QED
        BY <1>5, <2>3, <3>3, <4>1, <4>2
    <3> QED
      BY <1>5, <1>7, <3>1, <3>2, <3>3
  <2>4. ASSUME NEW a \in Level, NEW b \in Level, a < b PROVE Older(DataOf(files'[b]), DataOf(files'[a]))
    <3>1. Older(DataOf(files[b]), DataOf(files[a])) /\ Older(DataOf(files[b]), imm)
      BY <1>4, <2>4 DEF ByAge
    <3>2. CASE b = l
      <4>1. a # l /\ l # 0 /\ a <= l
        BY <1>7, <2>4, <3>2
      <4>2. ASSUME NEW e \in imm, NEW d \in DataOf(files[a]) PROVE e.key # d.key
        <5>1. PICK g \in files[a] : d \in g.data
          BY DEF DataOf
        <5> QED
          BY <1>5, <1>6, <1>8, <4>1, <5>1, KeysApart
      <4> QED
        BY <1>5, <1>10, <3>1, <3>2, <4>1, <4>2 DEF Older
    <3>3. CASE b # l
      <4>1. files'[b] = files[b]
        BY <1>5, <3>3
      <4> QED
        BY <1>5, <1>10, <3>1, <4>1 DEF Older
    <3> QED
      BY <3>2, <3>3
  <2> QED
    BY <2>1, <2>2, <2>3, <2>4 DEF ByAge
<1>12. IsSoundWork(compaction, files', View)
  <2> SUFFICES ASSUME compaction # Nil PROVE IsSoundWork(compaction, files', View)
    BY DEF IsSoundWork
  <2> DEFINE c == compaction
             L == c.level
             Q == c.in0 \cup c.in1
             D == DataOf(Q)
  <2>1. /\ Separate(c.in0, files[L])
        /\ \A g \in files[L + 1] \ c.in1 : Apart(g.data, D)
        /\ Solid(Q)
        /\ \A i, j \in 1 .. Len(c.outputs) : i < j => AllBefore(c.outputs[i], c.outputs[j])
        /\ \A e \in D \ UNION ToSet(c.outputs) : Superseded(e, D, View) \/ NothingBelow(e, c, files)
    BY <1>4 DEF IsSoundWork
  <2>2. /\ L \in Level /\ L + 1 \in Level /\ c.in0 \subseteq files[L] /\ c.in1 \subseteq files[L + 1]
        /\ \A h \in Q : IsTable(h, written)
    BY WorkProp
  <2> HIDE DEF L, Q
  <2>3. Separate(c.in0, files'[L])
    <3>1. ASSUME NEW h \in c.in0 PROVE Older(h.data, imm)
      <4>1. Older(DataOf(files[L]), imm)
        BY <1>4, <2>2 DEF ByAge
      <4> QED
        BY <2>2, <3>1, <4>1 DEF Older, DataOf
    <3> QED
      BY <1>5, <2>1, <2>2, <3>1 DEF Separate
  <2>4. ASSUME L + 1 <= l, NEW h \in Q
        PROVE  h.largest.key < f.smallest.key \/ f.largest.key < h.smallest.key
    <3>1. l # 0 /\ L <= l /\ l \in Nat
      BY <1>5, <1>7, <2>2, <2>4
    <3>2. h \in files[L] \/ h \in files[L + 1]
      BY <2>2 DEF Q
    <3> QED
      BY <1>8, <2>2, <2>4, <3>1, <3>2
  <2>5. ASSUME NEW g \in files'[L + 1] \ c.in1 PROVE Apart(g.data, D)
    <3>1. CASE g \in files[L + 1]
      BY <2>1, <2>5, <3>1
    <3>2. CASE g = f /\ l = L + 1
      <4>0. L + 1 <= l
        BY <1>7, <2>2, <3>2
      <4>1. \A h \in Q : h.largest.key < f.smallest.key \/ f.largest.key < h.smallest.key
        BY <2>4, <4>0
      <4>2. AreTables(Q, written)
        BY <2>2 DEF AreTables
      <4> QED
        BY <1>5, <1>6, <2>1, <3>2, <4>1, <4>2, SolidApart
    <3> QED
      BY <1>5, <2>2, <2>5, <3>1, <3>2
  <2>6. ASSUME NEW e \in D, NothingBelow(e, c, files) PROVE NothingBelow(e, c, files')
    <3>1. ASSUME NEW k \in L + 2 .. NumLevels - 1, NEW d \in DataOf(files'[k]) PROVE d.key # e.key
      <4>1. k \in Level /\ L + 1 <= k
        BY <1>7, <2>2, LsmAssumption DEF Level
      <4>2. CASE d \in DataOf(files[k])
        BY <2>6, <4>2 DEF NothingBelow, L
      <4>3. CASE k = l /\ d \in imm
        <5>1. PICK h \in Q : e \in h.data
          BY DEF DataOf
        <5>2. h.largest.key < f.smallest.key \/ f.largest.key < h.smallest.key
          BY <2>4, <4>1, <4>3
        <5>3. IsTable(h, written) /\ d \in f.data
          BY <1>5, <2>2, <4>3
        <5> QED
          BY <1>5, <1>6, <5>1, <5>2, <5>3, KeysApart
      <4> QED
        BY <1>5, <1>10, <3>1, <4>1, <4>2, <4>3
    <3> QED
      BY <2>6, <3>1 DEF NothingBelow, L
  <2>7. \A e \in D \ UNION ToSet(c.outputs) : Superseded(e, D, View) \/ NothingBelow(e, c, files')
    <3> HIDE DEF D
    <3> QED
      BY <2>1, <2>6
  <2> HIDE DEF D
  <2> QED
    BY <2>1, <2>3, <2>5, <2>7 DEF IsSoundWork, D, Q, L
<1>13. Stored(mem, {}, files') = Stored(mem, imm, files)
  <2>1. UNION {DataOf(files'[k]) : k \in Level} = imm \cup UNION {DataOf(files[k]) : k \in Level}
    <3>1. \A k \in Level : k # l => DataOf(files'[k]) = DataOf(files[k])
      BY <1>5
    <3>2. l \in Level /\ DataOf(files'[l]) = DataOf(files[l]) \cup imm
      BY <1>5, <1>10
    <3> DEFINE old == [k \in Level |-> DataOf(files[k])]
               new == [k \in Level |-> DataOf(files'[k])]
    <3>3. \A k \in Level : new[k] = IF k = l THEN old[k] \cup imm ELSE old[k]
      BY <3>1, <3>2
    <3>4. /\ UNION {DataOf(files[k]) : k \in Level} = UNION {old[k] : k \in Level}
          /\ UNION {DataOf(files'[k]) : k \in Level} = UNION {new[k] : k \in Level}
      OBVIOUS
    <3> HIDE DEF old, new
    <3>5. UNION {new[k] : k \in Level} \subseteq imm \cup UNION {old[k] : k \in Level}
      BY <3>3
    <3>6. imm \cup UNION {old[k] : k \in Level} \subseteq UNION {new[k] : k \in Level}
      <4>1. imm \subseteq new[l] /\ \A k \in Level : old[k] \subseteq new[k]
        BY <3>2, <3>3
      <4> QED
        BY <3>2, <4>1
    <3>7. UNION {new[k] : k \in Level} = imm \cup UNION {old[k] : k \in Level}
      BY <3>5, <3>6
    <3> QED
      BY <3>4, <3>7, Zenon
  <2> QED
    BY <2>1 DEF Stored
<1> QED
  BY <1>4, <1>9, <1>11, <1>12, <1>13

-----------------------------------------------------------------------------
\* Files of a level, with all of the level below that is in their way, go one level down.
GoesDown(gs, L, A, B, F) ==
    /\ \A l \in Level : l # L /\ l # L + 1 => gs[l] = files[l]
    /\ gs[L] = files[L] \ A /\ gs[L + 1] = (files[L + 1] \ B) \cup F
    /\ A \subseteq files[L] /\ B \subseteq files[L + 1]
    /\ AreTables(F, written) /\ Disjoint(F) /\ DataOf(F) \subseteq DataOf(A \cup B)
    /\ Separate(A, files[L])
    /\ \A g \in files[L + 1] \ B : Apart(g.data, DataOf(A \cup B))

\* The output level stays disjoint: what comes down is apart from what stays there.
LEMMA DownApart ==
    ASSUME TypeInv, LevelsApart(files), NEW L \in 0 .. NumLevels - 2, NEW gs, NEW A, NEW B, NEW F,
           GoesDown(gs, L, A, B, F)
    PROVE  LevelsApart(gs)
<1>1. L \in Level /\ L + 1 \in Level /\ L # L + 1 /\ L + 1 # 0
  BY LsmAssumption DEF Level
<1>2. IsEntries(written) /\ AreTables(files[L + 1], written)
  BY <1>1, TypeFacts
<1>3. /\ \A l \in Level : l # L /\ l # L + 1 => gs[l] = files[l]
      /\ gs[L] = files[L] \ A /\ gs[L + 1] = (files[L + 1] \ B) \cup F
      /\ AreTables(F, written) /\ Disjoint(F) /\ DataOf(F) \subseteq DataOf(A \cup B)
      /\ \A g \in files[L + 1] \ B : Apart(g.data, DataOf(A \cup B))
  BY DEF GoesDown
<1>4. ASSUME NEW l \in Level \ {0}, l # L + 1 PROVE Disjoint(gs[l])
  <2>1. gs[l] \subseteq files[l] /\ Disjoint(files[l])
    BY <1>3, <1>4 DEF LevelsApart
  <2> QED
    BY <2>1 DEF Disjoint
<1>5. ASSUME NEW g \in files[L + 1] \ B, NEW f \in F
      PROVE  Before(g.largest, f.smallest) \/ Before(f.largest, g.smallest)
  <2>1. /\ g.smallest \in g.data /\ g.largest \in g.data /\ f.smallest \in f.data /\ f.largest \in f.data
    BY <1>2, <1>3, TableProp DEF AreTables
  <2>2. f.data \subseteq DataOf(F)
    BY DEF DataOf
  <2>3. f.smallest \in DataOf(A \cup B) /\ f.largest \in DataOf(A \cup B)
    BY <1>3, <2>1, <2>2
  <2>4. Apart(g.data, DataOf(A \cup B))
    BY <1>3
  <2> QED
    BY <2>1, <2>3, <2>4 DEF Apart, AllBefore
<1>6. Disjoint(gs[L + 1])
  <2>1. Disjoint(files[L + 1])
    BY <1>1 DEF LevelsApart
  <2> QED
    BY <1>3, <1>5, <2>1 DEF Disjoint
<1> QED
  BY <1>4, <1>6 DEF LevelsApart

\* The levels stay ordered by age: what comes down is older than all its level keeps of its keys.
LEMMA DownByAge ==
    ASSUME TypeInv, ByAge(mem, imm, files), NEW L \in 0 .. NumLevels - 2, NEW gs, NEW A, NEW B, NEW F,
           GoesDown(gs, L, A, B, F)
    PROVE  ByAge(mem, imm, gs)
<1>1. L \in Level /\ L + 1 \in Level /\ L # L + 1 /\ L + 1 # 0 /\ 0 \in Level /\ L \in Int /\ Level \subseteq Int
  BY LsmAssumption DEF Level
<1>2. /\ \A l \in Level : l # L /\ l # L + 1 => gs[l] = files[l]
      /\ gs[L] = files[L] \ A /\ gs[L + 1] = (files[L + 1] \ B) \cup F
      /\ A \subseteq files[L] /\ B \subseteq files[L + 1]
      /\ DataOf(F) \subseteq DataOf(A \cup B) /\ Separate(A, files[L])
  BY DEF GoesDown
<1>3. \A l \in Level : l # L + 1 => gs[l] \subseteq files[l]
  BY <1>2
<1>4. \A l \in Level : l # L + 1 => DataOf(gs[l]) \subseteq DataOf(files[l])
  BY <1>3 DEF DataOf
<1>5. /\ DataOf(gs[L + 1]) \subseteq DataOf(files[L + 1]) \cup DataOf(A)
      /\ DataOf(A) \subseteq DataOf(files[L])
  <2>1. DataOf(gs[L + 1]) \subseteq DataOf(files[L + 1]) \cup DataOf(F)
    BY <1>2 DEF DataOf
  <2>2. DataOf(A \cup B) \subseteq DataOf(A) \cup DataOf(files[L + 1])
    BY <1>2 DEF DataOf
  <2>3. DataOf(A) \subseteq DataOf(files[L])
    BY <1>2 DEF DataOf
  <2> QED
    BY <1>2, <2>1, <2>2, <2>3
<1>6. ASSUME NEW D, \A l \in Level : Older(DataOf(files[l]), D), NEW l \in Level PROVE Older(DataOf(gs[l]), D)
  <2>1. CASE l # L + 1
    BY <1>4, <1>6, <2>1 DEF Older
  <2>2. CASE l = L + 1
    BY <1>1, <1>5, <1>6, <2>2 DEF Older
  <2> QED
    BY <2>1, <2>2
<1>7. \A l \in Level : Older(DataOf(gs[l]), mem) /\ Older(DataOf(gs[l]), imm)
  BY <1>6 DEF ByAge
<1>8. \A f, g \in gs[0] : f.number < g.number => Older(f.data, g.data)
  <2>1. gs[0] \subseteq files[0]
    BY <1>1, <1>3
  <2> QED
    BY <2>1 DEF ByAge
<1>9. Older(DataOf(A), DataOf(files[L] \ A))
  BY <1>2 DEF Separate, Older, DataOf
<1>10. ASSUME NEW a \in Level, NEW b \in Level, a < b PROVE Older(DataOf(gs[b]), DataOf(gs[a]))
  <2>0. \A k, m \in Level : k < m => Older(DataOf(files[m]), DataOf(files[k]))
    BY DEF ByAge
  <2>1. CASE a # L + 1 /\ b # L + 1
    <3>1. Older(DataOf(files[b]), DataOf(files[a]))
      BY <1>10, <2>0
    <3> QED
      BY <1>4, <2>1, <3>1 DEF Older
  <2>2. CASE b = L + 1
    <3>1. Older(DataOf(files[L + 1]), DataOf(gs[a]))
      <4>1. Older(DataOf(files[L + 1]), DataOf(files[a])) /\ a # L + 1
        BY <1>1, <1>10, <2>0, <2>2
      <4> QED
        BY <1>4, <4>1 DEF Older
    <3>2. Older(DataOf(A), DataOf(gs[a]))
      <4>1. CASE a = L
        BY <1>2, <1>9, <4>1
      <4>2. CASE a # L
        <5>1. a < L /\ a # L + 1
          BY <1>1, <1>10, <2>2, <4>2
        <5>2. Older(DataOf(files[L]), DataOf(files[a]))
          BY <1>1, <2>0, <5>1
        <5> QED
          BY <1>4, <1>5, <5>1, <5>2 DEF Older
      <4> QED
        BY <4>1, <4>2
    <3> QED
      BY <1>5, <2>2, <3>1, <3>2 DEF Older
  <2>3. CASE a = L + 1
    <3>1. b # L + 1 /\ L < b
      BY <1>1, <1>10, <2>3
    <3>2. Older(DataOf(files[b]), DataOf(files[L + 1])) /\ Older(DataOf(files[b]), DataOf(files[L]))
      BY <1>1, <1>10, <2>0, <2>3, <3>1
    <3> QED
      BY <1>4, <1>5, <2>3, <3>1, <3>2 DEF Older
  <2> QED
    BY <2>1, <2>2, <2>3
<1> QED
  BY <1>7, <1>8, <1>10 DEF ByAge

\* A snapshot that is held is at least the smallest.
LEMMA SmallestSnapshot ==
    ASSUME TypeInv
    PROVE  smallest_snapshot \in Int /\ \A s \in View : smallest_snapshot <= s /\ s \in Int
<1>1. /\ last_sequence \in Nat /\ snapshots \subseteq 0 .. last_sequence
  BY StoredType DEF TypeInv, IsHistory
<1>2. CASE snapshots = {}
  BY <1>1, <1>2 DEF smallest_snapshot, View
<1>3. CASE snapshots # {}
  <2>1. snapshots \subseteq Nat
    BY <1>1
  <2>2. Min(snapshots) \in snapshots /\ \A y \in snapshots : Min(snapshots) <= y
    BY <1>3, <2>1, MinProp
  <2>3. smallest_snapshot = Min(snapshots)
    BY <1>3 DEF smallest_snapshot
  <2>4. smallest_snapshot \in Nat /\ smallest_snapshot <= last_sequence
    <3>1. smallest_snapshot \in 0 .. last_sequence
      BY <1>1, <2>2, <2>3
    <3> QED
      BY <1>1, <3>1
  <2>5. \A s \in snapshots : smallest_snapshot <= s /\ s \in Int
    BY <2>1, <2>2, <2>3
  <2> QED
    BY <1>1, <2>4, <2>5 DEF View
<1> QED
  BY <1>2, <1>3

\* The inputs of a compaction that starts.
LEMMA SetupSound ==
    ASSUME TypeInv, LevelsApart(files), NEW L \in 0 .. NumLevels - 2, NEW P, Begins(L, P)
    PROVE  LET c == SetupOtherInputs(L, P)
           IN  /\ Separate(c.in0, files[L])
               /\ \A g \in files[L + 1] \ c.in1 : Apart(g.data, DataOf(c.in0 \cup c.in1))
               /\ ~manual => Solid(c.in0 \cup c.in1)
<1> DEFINE c == SetupOtherInputs(L, P)
<1>0. IsEntries(written) /\ LevelTables(written)
  BY TypeFacts
<1>1. L \in Level /\ L + 1 \in Level /\ L + 1 # 0
  BY LsmAssumption DEF Level
<1>2. IsPick(P, L) /\ P \subseteq files[L] /\ P # {} /\ (~manual => Solid(P))
  BY DEF Begins, IsPick
<1>3. (L # 0 => Disjoint(files[L])) /\ Disjoint(files[L + 1])
  BY <1>1 DEF LevelsApart
<1>4. Separate(c.in0, files[L])
  BY <1>0, <1>2, <1>3, SetupSeparates
<1>5. ~manual => Solid(c.in0 \cup c.in1)
  BY <1>0, <1>2, SetupSolid
<1>6. IsSetup(c, L, written)
  BY BeginCases
<1> HIDE DEF c
<1>7. c.in0 \subseteq files[L] /\ c.in0 # {} /\ c.in1 = Overlapping(files[L + 1], LowOf(c.in0), HighOf(c.in0))
  BY <1>6 DEF IsSetup
<1>8. AreTables(files[L + 1], written) /\ AreTables(c.in0, written)
  BY <1>1, <1>7, TypeFacts DEF AreTables
<1>9. \A g \in files[L + 1] \ c.in1 : Apart(g.data, DataOf(c.in0 \cup c.in1))
  BY <1>0, <1>3, <1>7, <1>8, OverlapApart
<1> QED
  BY <1>4, <1>5, <1>9 DEF c

\* A trivial move.
LEMMA SoundMove ==
    ASSUME TypeInv, SoundInv, NEW L \in 0 .. NumLevels - 2, NEW P, Begins(L, P), Moves(SetupOtherInputs(L, P), L)
    PROVE  SoundInv'
<1> DEFINE c == SetupOtherInputs(L, P)
<1>0. IsSetup(c, L, written)
  BY BeginCases
<1>1. /\ UNCHANGED <<last_sequence, mem, imm, snapshots, written, disturbed, lapsed>> /\ compaction = Nil
  BY DEF Begins
<1>2. ~disturbed => /\ Separate(c.in0, files[L])
                    /\ \A g \in files[L + 1] \ c.in1 : Apart(g.data, DataOf(c.in0 \cup c.in1))
  BY SetupSound DEF SoundInv
<1> HIDE DEF c
<1>3. /\ \A l \in Level : l # L /\ l # L + 1 => files'[l] = files[l]
      /\ files'[L] = files[L] \ c.in0 /\ files'[L + 1] = files[L + 1] \cup c.in0
      /\ compaction' = Nil /\ c.in1 = {} /\ \E f : c.in0 = {f}
  BY <1>1 DEF Moves, c
<1>4. View' = View
  BY <1>1 DEF View
<1> SUFFICES ASSUME ~disturbed
             PROVE  /\ LevelsApart(files') /\ ByAge(mem, imm, files')
                    /\ Kept(written, Stored(mem, imm, files'), View, lapsed)
  BY <1>1, <1>3, <1>4 DEF SoundInv, IsSoundWork
<1>5. LevelsApart(files) /\ ByAge(mem, imm, files) /\ Kept(written, Stored(mem, imm, files), View, lapsed)
  BY DEF SoundInv
<1>6. L \in Level /\ L + 1 \in Level /\ L # L + 1
  BY LsmAssumption DEF Level
<1>7. c.in0 \subseteq files[L]
  BY <1>0 DEF IsSetup
<1>8. AreTables(c.in0, written)
  BY <1>6, <1>7, TypeFacts DEF AreTables
<1>9. Disjoint(c.in0)
  BY <1>3 DEF Disjoint
<1>10. GoesDown(files', L, c.in0, {}, c.in0)
  <2>1. c.in0 \cup {} = c.in0 /\ files[L + 1] \ {} = files[L + 1]
    OBVIOUS
  <2> QED
    BY <1>2, <1>3, <1>7, <1>8, <1>9, <2>1 DEF GoesDown
<1>11. LevelsApart(files') /\ ByAge(mem, imm, files')
  BY <1>5, <1>10, DownApart, DownByAge
<1>12. Stored(mem, imm, files') = Stored(mem, imm, files)
  <2>1. DataOf(files'[L]) \cup DataOf(files'[L + 1]) = DataOf(files[L]) \cup DataOf(files[L + 1])
    BY <1>3, <1>7 DEF DataOf
  <2>2. \A l \in Level : l # L /\ l # L + 1 => DataOf(files'[l]) = DataOf(files[l])
    BY <1>3
  <2>3. UNION {DataOf(files'[l]) : l \in Level} = UNION {DataOf(files[l]) : l \in Level}
    BY <1>6, <2>1, <2>2
  <2> QED
    BY <2>3 DEF Stored
<1> QED
  BY <1>5, <1>11, <1>12

\* What the merge drops is hidden from every reader, or has nothing to hide.
LEMMA DroppedSound ==
    ASSUME TypeInv, NEW L \in 0 .. NumLevels - 2, NEW c, c.level = L, NEW data, data \subseteq written,
           NEW outputs, IsMerge(outputs, c, data), NEW e \in data \ UNION ToSet(outputs),
           NEW r, r.level = L, r.outputs = outputs
    PROVE  Superseded(e, data, View) \/ NothingBelow(e, r, files)
<1>1. UNION ToSet(outputs) = {d \in data : ~Drop(c, data, d)}
  BY DEF IsMerge
<1>2. Drop(c, data, e)
  BY <1>1
<1>3. smallest_snapshot \in Int /\ \A s \in View : smallest_snapshot <= s /\ s \in Int
  BY SmallestSnapshot
<1>4. \A d \in data : d \in written /\ d.seq \in Int /\ d.key \in Int
  BY StoredType
<1>5. CASE Hidden(data, e)
  <2>1. PICK d \in data : d.key = e.key /\ d.seq > e.seq /\ d.seq <= smallest_snapshot
    BY <1>5 DEF Hidden
  <2>2. \A s \in View : d.seq <= s
    BY <1>3, <1>4, <2>1
  <2> QED
    BY <2>1, <2>2 DEF Superseded
<1>6. CASE Obsolete(c, e)
  <2>1. e.del /\ e.seq <= smallest_snapshot /\ IsBaseLevelForKey(c, e.key)
    BY <1>6 DEF Obsolete
  <2>2. ASSUME NEW l \in L + 2 .. NumLevels - 1, NEW d \in DataOf(files[l]) PROVE d.key # e.key
    <3>1. Overlapping(files[l], e.key, e.key) = {}
      BY <2>1 DEF IsBaseLevelForKey, OverlapInLevel
    <3>2. PICK g \in files[l] : d \in g.data
      BY DEF DataOf
    <3>3. l \in Level
      BY LsmAssumption DEF Level
    <3>4. IsTable(g, written)
      BY <3>2, <3>3, TypeFacts DEF AreTables
    <3>5. /\ g.smallest.key <= d.key /\ d.key <= g.largest.key /\ d.key \in Int
          /\ g.smallest.key \in Int /\ g.largest.key \in Int
      BY <3>2, <3>4, TypeFacts, TableProp
    <3> QED
      BY <3>1, <3>2, <3>5 DEF Overlapping
  <2>3. ASSUME NEW d \in UNION ToSet(outputs), d.key = e.key PROVE d.seq > e.seq
    <3>1. d \in data /\ ~Hidden(data, d) /\ d # e
      BY <1>1, <2>3 DEF Drop
    <3>2. ~(e.seq > d.seq)
      BY <2>1, <2>3, <3>1 DEF Hidden
    <3>3. d.seq # e.seq
      BY <1>4, <3>1, StoredType
    <3> QED
      BY <1>4, <3>1, <3>2, <3>3
  <2> QED
    BY <2>1, <2>2, <2>3 DEF NothingBelow
<1> QED
  BY <1>2, <1>5, <1>6 DEF Drop

\* A merge that starts is sound.
LEMMA SoundStart ==
    ASSUME TypeInv, SoundInv, NEW L \in 0 .. NumLevels - 2, NEW P, Begins(L, P), Starts(SetupOtherInputs(L, P), L)
    PROVE  SoundInv'
<1> DEFINE c == SetupOtherInputs(L, P)
           D == DataOf(c.in0 \cup c.in1)
<1>1. /\ UNCHANGED <<last_sequence, mem, imm, snapshots, written, disturbed, lapsed>>
  BY DEF Begins
<1>2. ~disturbed => /\ Separate(c.in0, files[L])
                    /\ \A g \in files[L + 1] \ c.in1 : Apart(g.data, DataOf(c.in0 \cup c.in1))
                    /\ ~manual => Solid(c.in0 \cup c.in1)
  BY SetupSound DEF SoundInv
<1>3. IsSetup(c, L, written)
  BY BeginCases
<1> HIDE DEF c
<1>4. /\ compaction'.level = L /\ compaction'.in0 = c.in0 /\ compaction'.in1 = c.in1
      /\ (manual <=> compaction'.manual_end # Nil)
      /\ IsMerge(compaction'.outputs, c, D) /\ D \subseteq written
      /\ UNCHANGED files
  BY <1>3, StartsProp DEF c
<1>5. c.level = L
  BY <1>3 DEF IsSetup
<1>6. View' = View
  BY <1>1 DEF View
<1> SUFFICES ASSUME ~disturbed PROVE IsSoundWork(compaction', files, View)
  BY <1>1, <1>4, <1>6 DEF SoundInv
<1> DEFINE r == compaction'
<1>7. \A i, j \in 1 .. Len(r.outputs) : i < j => AllBefore(r.outputs[i], r.outputs[j])
  BY <1>4 DEF IsMerge
<1> HIDE DEF D, r
<1>8. \A e \in D \ UNION ToSet(r.outputs) : Superseded(e, D, View) \/ NothingBelow(e, r, files)
  BY <1>4, <1>5, DroppedSound DEF r
<1>9. IsSoundWork(r, files, View)
  BY <1>2, <1>4, <1>7, <1>8 DEF IsSoundWork, D, r
<1> QED
  BY <1>9 DEF r

\* So BackgroundCompaction is.
LEMMA SoundBackground ==
    ASSUME TypeInv, SoundInv, BackgroundCompaction
    PROVE  SoundInv'
<1>1. CASE Ends
  <2>1. View' = View /\ UNCHANGED <<mem, imm, files, compaction, written, disturbed, lapsed>>
    BY <1>1 DEF Ends, View
  <2> QED
    BY <2>1, SoundView
<1>2. ASSUME NEW L \in 0 .. NumLevels - 2, NEW P, Begins(L, P) PROVE SoundInv'
  BY <1>2, BeginCases, SoundMove, SoundStart
<1> QED
  BY <1>1, <1>2, BackgroundCases

-----------------------------------------------------------------------------
\* The files of a merge, one behind the other.
LEMMA OutputsDisjoint ==
    ASSUME TypeInv, compaction # Nil,
           \A i, j \in 1 .. Len(compaction.outputs) :
               i < j => AllBefore(compaction.outputs[i], compaction.outputs[j])
    PROVE  Disjoint(OutputFiles(compaction.outputs))
<1> DEFINE o == compaction.outputs
           n == Len(o)
           File(i) == FileMetaData(next_file + i - 1, o[i])
           D == DataOf(compaction.in0 \cup compaction.in1)
<1>1. D \subseteq written /\ o \in Seq((SUBSET D) \ {{}})
  BY WorkProp
<1>2. IsEntries(written) /\ next_file \in Nat
  BY TypeFacts
<1> HIDE DEF D
<1>3. n \in Nat /\ \A i \in 1 .. n : o[i] \subseteq D /\ o[i] # {}
  BY <1>1
<1>4. ASSUME NEW i \in 1 .. n
      PROVE  File(i).smallest \in o[i] /\ File(i).largest \in o[i]
  <2>1. next_file + i - 1 \in Nat
    BY <1>2, <1>3
  <2>2. o[i] \subseteq written /\ o[i] # {}
    BY <1>1, <1>3
  <2>3. IsTable(File(i), written) /\ File(i).data = o[i]
    BY <1>2, <2>1, <2>2, TableOf
  <2> QED
    BY <1>2, <2>3, TableProp
<1>5. OutputFiles(o) = {File(i) : i \in 1 .. n}
  BY DEF OutputFiles
<1>6. \A i, j \in 1 .. n : i < j => AllBefore(o[i], o[j])
  OBVIOUS
<1> HIDE DEF n, File, o
<1>7. ASSUME NEW i \in 1 .. n, NEW j \in 1 .. n, i < j PROVE Before(File(i).largest, File(j).smallest)
  BY <1>4, <1>6, <1>7 DEF AllBefore
<1>8. \A i, j \in 1 .. n : i = j \/ i < j \/ j < i
  BY <1>3
<1>9. Disjoint(OutputFiles(o))
  BY <1>5, <1>7, <1>8 DEF Disjoint
<1> QED
  BY <1>9 DEF o

\* What a reader looks for is among the outputs, or superseded by an entry every reader sees, or a deletion
\* with nothing left to hide; what lapses is recorded.
LEMMA SoundInstall ==
    ASSUME TypeInv, SoundInv, InstallCompactionResults
    PROVE  SoundInv'
<1> DEFINE c == compaction
           L == c.level
           O == UNION ToSet(c.outputs)
           F == OutputFiles(c.outputs)
           D == DataOf(c.in0 \cup c.in1)
<1>1. /\ c # Nil /\ Installs(c, F) /\ IsTables(F, written) /\ DataOf(F) = O /\ O \subseteq D
  BY InstallsProp
<1>2. /\ L \in 0 .. NumLevels - 2 /\ L \in Level /\ L + 1 \in Level /\ L # L + 1
      /\ c.in0 \subseteq files[L] /\ c.in1 \subseteq files[L + 1] /\ D \subseteq written
  BY <1>1, WorkProp
<1>3. /\ compaction' = Nil /\ lapsed' = lapsed \cup Lapsing(c)
      /\ UNCHANGED <<last_sequence, mem, imm, snapshots, written, disturbed>>
  BY DEF InstallCompactionResults
<1>4. View' = View
  BY <1>3 DEF View
<1> SUFFICES ASSUME ~disturbed
             PROVE  /\ LevelsApart(files') /\ ByAge(mem, imm, files')
                    /\ Kept(written, Stored(mem, imm, files'), View, lapsed')
  BY <1>3, <1>4 DEF SoundInv, IsSoundWork
<1>5. /\ LevelsApart(files) /\ ByAge(mem, imm, files) /\ IsSoundWork(c, files, View)
      /\ Kept(written, Stored(mem, imm, files), View, lapsed)
  BY DEF SoundInv
<1>6. /\ Separate(c.in0, files[L])
      /\ \A g \in files[L + 1] \ c.in1 : Apart(g.data, D)
      /\ \A i, j \in 1 .. Len(c.outputs) : i < j => AllBefore(c.outputs[i], c.outputs[j])
      /\ \A e \in D \ O : Superseded(e, D, View) \/ NothingBelow(e, c, files)
  BY <1>1, <1>5 DEF IsSoundWork
<1>7. /\ \A l \in Level : l # L /\ l # L + 1 => files'[l] = files[l]
      /\ files'[L] = files[L] \ c.in0
      /\ files'[L + 1] = (files[L + 1] \ c.in1) \cup F
  BY <1>1 DEF Installs
<1>8. Disjoint(F) /\ AreTables(F, written)
  BY <1>1, <1>6, OutputsDisjoint, TablesAre
<1>9. GoesDown(files', L, c.in0, c.in1, F)
  <2> HIDE DEF F, L, O
  <2> QED
    BY <1>1, <1>2, <1>6, <1>7, <1>8 DEF GoesDown
<1> HIDE DEF F, L, O, D
<1>10. LevelsApart(files') /\ ByAge(mem, imm, files')
  BY <1>2, <1>5, <1>9, DownApart, DownByAge
<1> DEFINE S == Stored(mem, imm, files)
           T == Stored(mem, imm, files')
<1>11. /\ S \subseteq written /\ \A l \in Level : DataOf(files[l]) \subseteq S
       /\ mem \subseteq S /\ imm \subseteq S
       /\ \A l \in Level : DataOf(files'[l]) \subseteq T
       /\ mem \subseteq T /\ imm \subseteq T
       /\ \A x \in S : x \in mem \/ x \in imm \/ \E l \in Level : x \in DataOf(files[l])
       /\ \A x \in T : x \in mem \/ x \in imm \/ \E l \in Level : x \in DataOf(files'[l])
  BY StoredType DEF Stored
<1> HIDE DEF S, T
<1>12. DataOf(c.in0) \subseteq DataOf(files[L]) /\ DataOf(c.in1) \subseteq DataOf(files[L + 1])
       /\ D = DataOf(c.in0) \cup DataOf(c.in1)
  BY <1>2 DEF DataOf, D
<1>13. /\ DataOf(files'[L]) = DataOf(files[L] \ c.in0)
       /\ DataOf(files'[L + 1]) = DataOf(files[L + 1] \ c.in1) \cup O
       /\ \A l \in Level : l # L /\ l # L + 1 => DataOf(files'[l]) = DataOf(files[l])
       /\ DataOf(files[L]) \subseteq DataOf(files[L] \ c.in0) \cup DataOf(c.in0)
       /\ DataOf(files[L + 1]) \subseteq DataOf(files[L + 1] \ c.in1) \cup DataOf(c.in1)
       /\ DataOf(files[L] \ c.in0) \subseteq DataOf(files[L])
       /\ DataOf(files[L + 1] \ c.in1) \subseteq DataOf(files[L + 1])
  <2>1. DataOf(files'[L + 1]) = DataOf(files[L + 1] \ c.in1) \cup DataOf(F)
    BY <1>7 DEF DataOf
  <2>2. /\ DataOf(files[L]) \subseteq DataOf(files[L] \ c.in0) \cup DataOf(c.in0)
        /\ DataOf(files[L + 1]) \subseteq DataOf(files[L + 1] \ c.in1) \cup DataOf(c.in1)
        /\ DataOf(files[L] \ c.in0) \subseteq DataOf(files[L])
        /\ DataOf(files[L + 1] \ c.in1) \subseteq DataOf(files[L + 1])
    BY DEF DataOf
  <2> QED
    BY <1>1, <1>7, <2>1, <2>2
<1>14. T \subseteq S
  <2> SUFFICES ASSUME NEW x \in T, NEW l \in Level, x \in DataOf(files'[l]) PROVE x \in S
    BY <1>11
  <2>1. CASE l = L
    BY <1>2, <1>11, <1>13, <2>1
  <2>2. CASE l = L + 1
    BY <1>1, <1>2, <1>11, <1>12, <1>13, <2>2
  <2>3. CASE l # L /\ l # L + 1
    BY <1>11, <1>13, <2>3
  <2> QED
    BY <2>1, <2>2, <2>3
<1>15. ASSUME NEW x \in S, x \notin T PROVE x \in D /\ x \notin O
  <2>1. PICK l \in Level : x \in DataOf(files[l])
    BY <1>11, <1>15
  <2>2. x \notin O
    BY <1>2, <1>11, <1>13, <1>15
  <2>3. CASE l = L
    BY <1>2, <1>11, <1>12, <1>13, <1>15, <2>1, <2>2, <2>3
  <2>4. CASE l = L + 1
    BY <1>2, <1>11, <1>12, <1>13, <1>15, <2>1, <2>2, <2>4
  <2>5. CASE l # L /\ l # L + 1
    BY <1>11, <1>13, <1>15, <2>1, <2>5
  <2> QED
    BY <2>3, <2>4, <2>5
<1>16. \A e \in written : e.seq \in Int /\ e.key \in Int
  BY StoredType
<1>17. \A e, d \in written : e.seq = d.seq => e = d
  BY StoredType
<1>18. ASSUME NEW w \in D, w \notin O, w \notin T, NothingBelow(w, c, files), w \notin Lapsing(c),
              NEW x \in T, x.key = w.key
       PROVE  x.seq > w.seq
  <2>0. w \in written /\ x \in written /\ x # w /\ x.seq \in Int /\ w.seq \in Int /\ x.seq # w.seq
    BY <1>2, <1>11, <1>14, <1>16, <1>17, <1>18
  <2>1. w.del /\ (\A l \in L + 2 .. NumLevels - 1 : \A d \in DataOf(files[l]) : d.key # w.key)
        /\ \A d \in O : d.key = w.key => d.seq > w.seq
    BY <1>18 DEF NothingBelow, L, O
  <2>2. w \in DataOf(c.in0) \/ w \in DataOf(c.in1)
    BY <1>12, <1>18
  <2>3. CASE x \in mem \/ x \in imm
    <3>1. \A l \in Level : Older(DataOf(files[l]), mem) /\ Older(DataOf(files[l]), imm)
      BY <1>5 DEF ByAge
    <3> QED
      BY <1>2, <1>12, <1>18, <2>0, <2>2, <2>3, <3>1 DEF Older
  <2>4. ASSUME NEW l \in Level, x \in DataOf(files'[l]) PROVE x.seq > w.seq
    <3>0. \A k, m \in Level : k < m => Older(DataOf(files[m]), DataOf(files[k]))
      BY <1>5 DEF ByAge
    <3>1. CASE l < L
      <4>1. l # L /\ l # L + 1 /\ l < L + 1
        BY <1>2, <3>1 DEF Level
      <4>2. x \in DataOf(files[l])
        BY <1>13, <2>4, <4>1
      <4> QED
        BY <1>2, <1>12, <1>18, <2>0, <2>2, <3>0, <3>1, <4>1, <4>2 DEF Older
    <3>2. CASE l = L
      <4>1. x \in DataOf(files[L] \ c.in0) /\ x \in DataOf(files[L])
        BY <1>13, <2>4, <3>2
      <4>2. CASE w \in DataOf(c.in0)
        <5>1. PICK h \in c.in0 : w \in h.data
          BY <4>2 DEF DataOf
        <5>2. PICK g \in files[L] \ c.in0 : x \in g.data
          BY <4>1 DEF DataOf
        <5> QED
          BY <1>6, <1>18, <2>0, <5>1, <5>2 DEF Separate, Older
      <4>3. CASE w \in DataOf(c.in1)
        <5>1. L < L + 1
          BY <1>2 DEF Level
        <5>2. Older(DataOf(files[L + 1]), DataOf(files[L]))
          BY <1>2, <3>0, <5>1
        <5> QED
          BY <1>12, <1>18, <2>0, <4>1, <4>3, <5>2 DEF Older
      <4> QED
        BY <2>2, <4>2, <4>3
    <3>3. CASE l = L + 1
      <4>1. CASE x \in O
        BY <1>18, <2>1, <4>1
      <4>2. CASE x \in DataOf(files[L + 1] \ c.in1)
        <5>1. ~(x.seq < w.seq)
          BY <1>18, <2>1, <4>2 DEF Lapsing, D, O, L
        <5> QED
          BY <2>0, <5>1
      <4> QED
        BY <1>13, <2>4, <3>3, <4>1, <4>2
    <3>4. CASE l > L + 1
      <4>1. l \in L + 2 .. NumLevels - 1 /\ l # L /\ l # L + 1
        BY <1>2, <3>4, LsmAssumption DEF Level
      <4>2. x \in DataOf(files[l])
        BY <1>13, <2>4, <4>1
      <4> QED
        BY <1>18, <2>1, <4>1, <4>2
    <3>5. l < L \/ l = L \/ l = L + 1 \/ l > L + 1
      BY <1>2, LsmAssumption DEF Level
    <3> QED
      BY <3>1, <3>2, <3>3, <3>4, <3>5
  <2> QED
    BY <1>11, <2>3, <2>4
<1>19. ASSUME NEW w \in written, NEW s \in View, IsNewest(w, written, s)
       PROVE  \/ w \in T \/ w \in lapsed'
              \/ w.del /\ \A e \in T : e.key = w.key => e.seq > w.seq
  <2>1. \/ w \in S \/ w \in lapsed
        \/ w.del /\ \A e \in S : e.key = w.key => e.seq > w.seq
    BY <1>5, <1>19 DEF Kept, S
  <2>2. CASE w \in lapsed
    BY <1>3, <2>2
  <2>3. CASE w.del /\ \A e \in S : e.key = w.key => e.seq > w.seq
    BY <1>14, <2>3
  <2>4. CASE w \in S /\ w \notin T
    <3>1. w \in D /\ w \notin O
      BY <1>15, <2>4
    <3>2. ~Superseded(w, D, View)
      <4> SUFFICES ASSUME Superseded(w, D, View) PROVE FALSE
        OBVIOUS
      <4>1. PICK d \in D : d.key = w.key /\ d.seq > w.seq /\ \A v \in View : d.seq <= v
        BY DEF Superseded
      <4>2. d \in written /\ d.seq <= s /\ d.seq \in Int /\ w.seq \in Int
        BY <1>2, <1>16, <4>1
      <4>3. d.seq <= w.seq
        BY <1>19, <4>1, <4>2 DEF IsNewest
      <4> QED
        BY <4>1, <4>2, <4>3
    <3>3. NothingBelow(w, c, files)
      BY <1>6, <3>1, <3>2
    <3>4. CASE w \in Lapsing(c)
      BY <1>3, <3>4
    <3>5. CASE w \notin Lapsing(c)
      <4>1. w.del
        BY <3>3 DEF NothingBelow
      <4>2. \A x \in T : x.key = w.key => x.seq > w.seq
        BY <1>18, <2>4, <3>1, <3>3, <3>5
      <4> QED
        BY <4>1, <4>2
    <3> QED
      BY <3>4, <3>5
  <2> QED
    BY <2>1, <2>2, <2>3, <2>4
<1>20. Kept(written, T, View, lapsed')
  BY <1>19 DEF Kept
<1> QED
  BY <1>10, <1>20 DEF T

\* Every step keeps what is stored sound.
LEMMA SoundStep ==
    ASSUME TypeInv, SoundInv, [Next]_vars
    PROVE  SoundInv'
<1>1. CASE \E k \in Keys, del \in Types : Write(k, del)
  BY <1>1, SoundWrite
<1>2. CASE SwitchMemTable
  BY <1>2, SoundSwitch
<1>3. CASE FlushMemTable
  BY <1>3, SoundFlush
<1>4. CASE BackgroundCompaction
  BY <1>4, SoundBackground
<1>5. CASE InstallCompactionResults
  BY <1>5, SoundInstall
<1> DEFINE Same == View' \subseteq View /\ UNCHANGED <<mem, imm, files, compaction, written, disturbed, lapsed>>
<1>6. CASE PostManual
  <2>1. Same
    BY <1>6 DEF PostManual, tree, View
  <2> QED
    BY <2>1, SoundView
<1>7. ASSUME NEW l \in ManualLevels, NEW b \in Keys, NEW e \in Keys, TEST_CompactRange(l, b, e) PROVE SoundInv'
  <2>1. Same
    BY <1>7 DEF TEST_CompactRange, tree, View
  <2> QED
    BY <2>1, SoundView
<1>8. ASSUME NEW charged, UpdateStats(charged) PROVE SoundInv'
  <2>1. Same
    BY <1>8 DEF UpdateStats, View
  <2> QED
    BY <2>1, SoundView
<1>9. CASE GetSnapshot
  <2>1. Same
    BY <1>9 DEF GetSnapshot, tree, View
  <2> QED
    BY <2>1, SoundView
<1>10. ASSUME NEW s \in snapshots, ReleaseSnapshot(s) PROVE SoundInv'
  <2>1. Same
    BY <1>10 DEF ReleaseSnapshot, tree, View
  <2> QED
    BY <2>1, SoundView
<1>11. CASE UNCHANGED vars
  <2>1. Same
    BY <1>11 DEF vars, tree, View
  <2> QED
    BY <2>1, SoundView
<1> QED
  BY <1>1, <1>2, <1>3, <1>4, <1>5, <1>6, <1>7, <1>8, <1>9, <1>10, <1>11 DEF Next, Background
-----------------------------------------------------------------------------
(***************************************************************************)
(* What reads find.                                                        *)
(***************************************************************************)
\* What SoundInv says of the levels is what readers count on.
LEMMA SoundLevels ==
    ASSUME SoundInv PROVE LevelsSound
  BY DEF SoundInv, LevelsSound, LevelsDisjoint, NoOverlap, LevelsApart, Disjoint, LevelsOrdered, ByAge

\* Of two files of a disjoint level the one that starts first ends before the other starts.
LEMMA SortedApart ==
    ASSUME NEW W, IsEntries(W), NEW fs, IsTables(fs, W), Disjoint(fs), NEW f \in fs, NEW g \in fs,
           BySmallestKey(f, g)
    PROVE  Before(f.largest, g.smallest)
<1>1. IsTable(f, W) /\ IsTable(g, W)
  BY DEF IsTables
<1>2. /\ f.smallest \in W /\ f.largest \in W /\ g.smallest \in W /\ g.largest \in W
      /\ ~Before(f.largest, f.smallest) /\ ~Before(g.largest, g.smallest)
      /\ f.number \in Nat /\ g.number \in Nat
  BY <1>1, TableProp
<1>3. ~Before(g.smallest, f.smallest) /\ f # g
  BY <1>2, BeforeOrder DEF BySmallestKey
<1>4. ~Before(g.largest, f.smallest)
  BY <1>2, <1>3, BeforeOrder
<1> QED
  BY <1>3, <1>4 DEF Disjoint

\* Below level 0 the bisection ends at the file that has the newest entry a reader may see.
LEMMA FoundByBisection ==
    ASSUME TypeInv, LevelsApart(files), NEW l \in Level \ {0}, NEW f \in files[l],
           NEW s \in Nat, NEW w \in f.data, IsNewest(w, written, s)
    PROVE  f \in Candidates(l, w.key, s)
<1> DEFINE q == Sorted(files[l])
           n == Cardinality(files[l])
           ikey == [key |-> w.key, seq |-> s]
<1>0. IsEntries(written) /\ IsTables(files[l], written) /\ Disjoint(files[l])
  BY TypeFacts DEF LevelsApart
<1>1. /\ n \in Nat /\ q \in [1 .. n -> files[l]] /\ Len(q) = n
      /\ \A i, j \in 1 .. n : i < j => BySmallestKey(q[i], q[j])
      /\ \A g \in files[l] : \E i \in 1 .. n : q[i] = g
  BY <1>0, SortedProp
<1>2. Candidates(l, w.key, s) = At(q, FindFile(q, ikey), w.key)
  BY DEF Candidates, Searched
<1> HIDE DEF q, n
<1>3. PICK t \in 1 .. n : q[t] = f
  BY <1>1
<1>4. \A g \in files[l] : IsTable(g, written) /\ g.largest \in written /\ g.largest \in g.data
  BY <1>0, TableProp DEF IsTables
<1>5. \A e \in written : e.key \in Int /\ e.seq \in Int
  BY StoredType
<1>6. w \in written /\ w.key \in Int /\ w.seq \in Int /\ f.smallest.key <= w.key /\ ~Before(f.largest, w)
  BY <1>0, <1>4, TableProp
<1>7. w.seq <= s /\ \A d \in written : d.key = w.key /\ d.seq <= s => d.seq <= w.seq
  BY DEF IsNewest
<1>8. ASSUME NEW i \in 1 .. n PROVE Before(q[i].largest, ikey) <=> i < t
  <2> DEFINE g == q[i]
             e == g.largest
  <2>1. g \in files[l] /\ IsTable(g, written) /\ e \in written /\ e \in g.data /\ e.key \in Int /\ e.seq \in Int
    BY <1>1, <1>4, <1>5
  <2>2. CASE i < t
    <3>1. Before(g.largest, f.smallest)
      <4>1. BySmallestKey(g, f)
        BY <1>1, <1>3, <2>2
      <4> QED
        BY <1>0, <2>1, <4>1, SortedApart
    <3> HIDE DEF g
    <3>2. Before(e, w)
      BY <1>0, <1>4, <2>1, <3>1, DisjointOrder
    <3>3. Before(e, ikey)
      BY <1>6, <1>7, <2>1, <3>2 DEF Before
    <3> QED
      BY <2>2, <3>3 DEF g
  <2>3. CASE i = t
    <3>1. ~Before(e, w)
      BY <1>3, <1>6, <2>3
    <3>2. ~Before(e, ikey)
      BY <1>6, <1>7, <2>1, <3>1 DEF Before
    <3> QED
      BY <2>3, <3>2
  <2>4. CASE i > t
    <3>1. Before(f.largest, g.smallest)
      <4>1. BySmallestKey(f, g)
        BY <1>1, <1>3, <2>4
      <4> QED
        BY <1>0, <2>1, <4>1, SortedApart
    <3> HIDE DEF g
    <3>2. Before(w, e)
      BY <1>0, <1>4, <2>1, <3>1, DisjointOrder
    <3>3. ~Before(e, ikey)
      BY <1>6, <1>7, <2>1, <3>2 DEF Before
    <3> QED
      BY <2>4, <3>3 DEF g
  <2> QED
    BY <2>2, <2>3, <2>4
<1> HIDE DEF ikey
<1>9. FindFile(q, ikey) = t
  BY <1>1, <1>8, FindFileProp
<1> QED
  BY <1>1, <1>2, <1>3, <1>6, <1>9 DEF At

\* A read looks into the file that has the newest entry it may see.
LEMMA LookedInto ==
    ASSUME TypeInv, LevelsApart(files), NEW l \in Level, NEW f \in files[l],
           NEW s \in Nat, NEW w \in f.data, IsNewest(w, written, s)
    PROVE  [level |-> l, file |-> f] \in ForEachOverlapping(w.key, s)
<1>0. IsEntries(written) /\ LevelTables(written) /\ IsTables(files[l], written)
  BY TypeFacts
<1>1. f \in Candidates(l, w.key, s)
  <2>1. CASE l = 0
    <3>1. f.smallest.key <= w.key /\ w.key <= f.largest.key
      BY <1>0, TableProp DEF IsTables
    <3> QED
      BY <2>1, <3>1 DEF Candidates, InRange
  <2>2. CASE l # 0
    BY <2>2, FoundByBisection
  <2> QED
    BY <2>1, <2>2
<1> HIDE DEF Candidates
<1> DEFINE k == w.key
<1> HIDE DEF k
<1>2. f \in Candidates(l, k, s)
  BY <1>1 DEF k
<1>3. [level |-> l, file |-> f] \in ForEachOverlapping(k, s)
  BY <1>0, <1>2, SearchProp
<1> QED
  BY <1>3 DEF k

\* The answer of data that has the newest entry a reader may see is that entry.
LEMMA AnswersNewest ==
    ASSUME TypeInv, NEW D, D \subseteq written, NEW s, s \in Nat, NEW w \in D, IsNewest(w, written, s)
    PROVE  SaveValue(D, w.key, s) = w
<1> DEFINE k == w.key
           x == SaveValue(D, k, s)
<1>0. IsEntries(written)
  BY TypeFacts
<1>1. IsSeen(w, D, k, s)
  BY DEF IsSeen, IsNewest
<1> HIDE DEF k
<1>2. IsSeen(x, D, k, s) /\ \A d : IsSeen(d, D, k, s) => d.seq <= x.seq
  BY <1>0, <1>1, SaveValueProp
<1> HIDE DEF x
<1>3. x \in D /\ x.key = k /\ x.seq <= s
  BY <1>2 DEF IsSeen
<1>4. w.seq <= x.seq
  BY <1>1, <1>2
<1>5. x.seq <= w.seq
  BY <1>3 DEF IsNewest, k
<1>6. x \in written /\ w \in written
  BY <1>3
<1>7. x.seq = w.seq
  BY <1>4, <1>5, <1>6, StoredType
<1>8. x = w
  BY <1>6, <1>7, StoredType
<1> QED
  BY <1>8 DEF x, k

\* Nobody in front of the file that has the newest entry answers.
LEMMA VersionGetNewest ==
    ASSUME TypeInv, LevelsApart(files), ByAge(mem, imm, files), NEW l \in Level, NEW f \in files[l],
           NEW s \in Nat, NEW w \in f.data, IsNewest(w, written, s)
    PROVE  VersionGet(ForEachOverlapping(w.key, s), w.key, s) = w
<1> DEFINE k == w.key
           S == ForEachOverlapping(k, s)
           hits == Hits(S, k, s)
           a == [level |-> l, file |-> f]
           b == First(hits)
           e == SaveValue(b.file.data, k, s)
<1>0. IsEntries(written) /\ LevelTables(written) /\ \A m \in Level : AreTables(files[m], written)
  BY TypeFacts
<1>1. \A m \in Level : \A g \in files[m] : g.data \subseteq written /\ g.data \subseteq DataOf(files[m]) /\ g.number \in Nat
  BY <1>0, TableProp DEF AreTables, DataOf
<1>2. a \in S
  BY LookedInto
<1>3. SaveValue(f.data, k, s) = w
  BY <1>1, AnswersNewest
<1>4. w \in written /\ w # Nil
  BY <1>0, <1>1, LsmAssumption DEF IsEntries
<1>5. a \in hits
  BY <1>2, <1>3, <1>4 DEF Hits
<1>6. IsSearch(S) /\ \A c \in S : c.file \in Candidates(c.level, k, s)
  <2> HIDE DEF k
  <2> QED
    BY <1>0, SearchProp
<1>7. hits \subseteq S /\ \A c \in hits : SaveValue(c.file.data, k, s) # Nil
  BY DEF Hits
<1>8. VersionGet(S, k, s) = e
  BY <1>5 DEF VersionGet, Answer
<1> HIDE DEF S, hits, a
<1>9. IsSearch(hits)
  BY <1>6, <1>7 DEF IsSearch
<1>10. b \in hits /\ \A c \in hits \ {b} : NewestFirst(b, c)
  BY <1>0, <1>5, <1>9, FirstProp
<1> HIDE DEF b
<1>11. b \in S /\ b.level \in Level /\ b.file \in files[b.level] /\ b = [level |-> b.level, file |-> b.file]
  BY <1>6, <1>7, <1>10 DEF IsSearch
<1>12. IsSeen(e, b.file.data, k, s)
  <2> DEFINE D == b.file.data
  <2>1. D \subseteq written
    BY <1>1, <1>11
  <2>2. SaveValue(D, k, s) # Nil
    BY <1>7, <1>10
  <2> HIDE DEF D, k
  <2>3. IsSeen(SaveValue(D, k, s), D, k, s)
    BY <1>0, <2>1, <2>2, SaveValueProp
  <2> QED
    BY <2>3 DEF D
<1> HIDE DEF e
<1>13. e \in b.file.data /\ e.key = w.key /\ e.seq <= s /\ e \in written
  BY <1>1, <1>11, <1>12 DEF IsSeen
<1>14. e.seq <= w.seq /\ e.seq \in Int /\ w.seq \in Int
  BY <1>4, <1>13, StoredType DEF IsNewest
<1>15. b = a
  <2> SUFFICES ASSUME b # a PROVE FALSE
    OBVIOUS
  <2>1. NewestFirst(b, a)
    BY <1>5, <1>10
  <2>2. a.level = l /\ a.file = f
    BY DEF a
  <2>3. ~Older(f.data, b.file.data)
    BY <1>13, <1>14 DEF Older
  <2>4. CASE b.level < l
    <3>1. Older(DataOf(files[l]), DataOf(files[b.level]))
      BY <1>11, <2>4 DEF ByAge
    <3>2. f.data \subseteq DataOf(files[l]) /\ b.file.data \subseteq DataOf(files[b.level])
      BY <1>1, <1>11
    <3> QED
      BY <2>3, <3>1, <3>2 DEF Older
  <2>5. CASE b.level = l /\ b.file.number > f.number
    <3>1. CASE l = 0
      <4>1. f.number < b.file.number
        BY <1>1, <1>11, <2>5
      <4> QED
        BY <1>11, <2>3, <2>5, <3>1, <4>1 DEF ByAge
    <3>2. CASE l # 0
      <4>1. f \in Candidates(l, k, s) /\ b.file \in Candidates(l, k, s)
        BY <1>2, <1>6, <1>11, <2>2, <2>5
      <4> HIDE DEF k
      <4>2. b.file = f
        BY <1>0, <3>2, <4>1, CandidatesProp
      <4> QED
        BY <1>1, <2>5, <4>2
    <3> QED
      BY <3>1, <3>2
  <2> QED
    BY <2>1, <2>2, <2>4, <2>5 DEF NewestFirst
<1>16. e = w
  BY <1>3, <1>15 DEF a, e
<1> QED
  BY <1>8, <1>16 DEF S

\* Where nothing of the key is seen, nothing is found.
LEMMA NothingFound ==
    ASSUME TypeInv, NEW k, NEW s,
           \A e \in Stored(mem, imm, files) : ~(e.key = k /\ e.seq <= s)
    PROVE  Get(k, s) = Nil
<1> DEFINE S == ForEachOverlapping(k, s)
<1>0. IsEntries(written) /\ LevelTables(written) /\ mem \subseteq written /\ imm \subseteq written
  BY TypeFacts
<1>1. ASSUME NEW D, D \subseteq Stored(mem, imm, files) PROVE SaveValue(D, k, s) = Nil
  <2>1. D \subseteq written
    BY <1>1, StoredType
  <2>2. \A e : ~IsSeen(e, D, k, s)
    BY <1>1 DEF IsSeen
  <2> QED
    BY <1>0, <2>1, <2>2, SaveValueProp
<1>2. MemGet(k, s) = Nil
  <2>1. mem \cup imm \subseteq Stored(mem, imm, files)
    BY DEF Stored
  <2> DEFINE D == mem \cup imm
  <2> HIDE DEF D
  <2>2. SaveValue(D, k, s) = Nil
    BY <1>1, <2>1 DEF D
  <2> QED
    BY <2>2 DEF MemGet, D
<1>3. Hits(S, k, s) = {}
  <2>1. IsSearch(S)
    BY <1>0, SearchProp
  <2> HIDE DEF S
  <2>2. ASSUME NEW a \in S PROVE SaveValue(a.file.data, k, s) = Nil
    <3>1. a.level \in Level /\ a.file \in files[a.level]
      BY <2>1 DEF IsSearch
    <3>2. a.file.data \subseteq Stored(mem, imm, files)
      BY <3>1 DEF Stored, DataOf
    <3> DEFINE D == a.file.data
    <3> HIDE DEF D
    <3>3. SaveValue(D, k, s) = Nil
      BY <1>1, <3>2 DEF D
    <3> QED
      BY <3>3 DEF D
  <2> QED
    BY <2>2 DEF Hits
<1>4. VersionGet(S, k, s) = Nil
  <2> HIDE DEF S
  <2> QED
    BY <1>3 DEF VersionGet, Answer
<1> QED
  BY <1>2, <1>4 DEF Get, GetFrom

\* The newest entry is found when it is stored.
LEMMA StoredIsFound ==
    ASSUME TypeInv, LevelsApart(files), ByAge(mem, imm, files), NEW s \in Nat,
           NEW w \in Stored(mem, imm, files), IsNewest(w, written, s)
    PROVE  Get(w.key, s) = w
<1> DEFINE k == w.key
           M == mem \cup imm
<1>0. IsEntries(written) /\ M \subseteq written
  BY TypeFacts
<1>1. w \in written /\ w # Nil
  BY <1>0, StoredType, LsmAssumption DEF IsEntries
<1>2. MemGet(k, s) = SaveValue(M, k, s)
  BY DEF MemGet
<1>3. CASE w \in M
  <2> HIDE DEF M
  <2>1. SaveValue(M, k, s) = w
    BY <1>0, <1>3, AnswersNewest
  <2> QED
    BY <1>1, <1>2, <2>1 DEF Get, GetFrom
<1>4. CASE w \notin M
  <2>1. PICK l \in Level : w \in DataOf(files[l])
    BY <1>4 DEF Stored
  <2>2. PICK f \in files[l] : w \in f.data
    BY <2>1 DEF DataOf
  <2>3. VersionGet(ForEachOverlapping(k, s), k, s) = w
    BY <2>2, VersionGetNewest
  <2>4. ASSUME NEW e, IsSeen(e, M, k, s) PROVE FALSE
    <3>1. e \in M /\ e.key = w.key /\ e.seq <= s /\ e \in written
      BY <1>0, <2>4 DEF IsSeen
    <3>2. w.seq < e.seq
      BY <2>1, <3>1 DEF ByAge, Older
    <3>3. e.seq <= w.seq /\ e.seq \in Int /\ w.seq \in Int
      BY <1>1, <3>1, StoredType DEF IsNewest
    <3> QED
      BY <3>2, <3>3
  <2>5. SaveValue(M, k, s) = Nil
    <3> HIDE DEF M, k
    <3> QED
      BY <1>0, <2>4, SaveValueProp
  <2> QED
    BY <1>2, <2>3, <2>5 DEF Get, GetFrom
<1> QED
  BY <1>3, <1>4

\* Every read finds the newest entry, unless that is a deletion that lapsed.
LEMMA SoundReads ==
    ASSUME TypeInv, SoundInv PROVE ReadsNewest
<1> SUFFICES ASSUME ~disturbed, NEW k \in Keys, NEW s \in View
             PROVE  ReadCorrect(k, s) \/ Newest(k, s) \in lapsed
  BY DEF ReadsNewest
<1> DEFINE w == Newest(k, s)
<1>0. IsEntries(written)
  BY TypeFacts
<1>1. /\ LevelsApart(files) /\ ByAge(mem, imm, files)
      /\ Kept(written, Stored(mem, imm, files), View, lapsed)
  BY DEF SoundInv
<1>2. s \in Nat /\ Stored(mem, imm, files) \subseteq written /\ \A e \in written : e.seq \in Int
  BY StoredType
<1>3. \/ w = Nil /\ \A e : ~IsSeen(e, written, k, s)
      \/ w # Nil /\ IsSeen(w, written, k, s) /\ \A d : IsSeen(d, written, k, s) => d.seq <= w.seq
  BY <1>0, SaveValueProp DEF Newest
<1>4. ReadCorrect(k, s) <=> Value(Get(k, s)) = Value(w)
  BY DEF ReadCorrect
<1> HIDE DEF w
<1>5. CASE w = Nil
  <2>1. \A e \in Stored(mem, imm, files) : ~(e.key = k /\ e.seq <= s)
    BY <1>2, <1>3, <1>5 DEF IsSeen
  <2>2. Get(k, s) = Nil
    BY <2>1, NothingFound
  <2> QED
    BY <1>4, <1>5, <2>2
<1>6. CASE w # Nil
  <2>1. w \in written /\ w.key = k /\ w.seq <= s
    BY <1>3, <1>6 DEF IsSeen
  <2>2. IsNewest(w, written, s)
    BY <1>3, <1>6, <2>1 DEF IsSeen, IsNewest
  <2>3. \/ w \in Stored(mem, imm, files) \/ w \in lapsed
        \/ w.del /\ \A e \in Stored(mem, imm, files) : e.key = w.key => e.seq > w.seq
    BY <1>1, <2>1, <2>2 DEF Kept
  <2>4. CASE w \in Stored(mem, imm, files)
    <3>1. Get(w.key, s) = w
      BY <1>1, <1>2, <2>2, <2>4, StoredIsFound
    <3> QED
      BY <1>4, <2>1, <3>1
  <2>5. CASE w \in lapsed
    BY <2>5 DEF w
  <2>6. CASE w.del /\ \A e \in Stored(mem, imm, files) : e.key = w.key => e.seq > w.seq
    <3>1. ASSUME NEW e \in Stored(mem, imm, files), e.key = k, e.seq <= s PROVE FALSE
      <4>1. e \in written /\ e.seq \in Int /\ w.seq \in Int /\ e.seq > w.seq
        BY <1>2, <2>1, <2>6, <3>1
      <4>2. e.seq <= w.seq
        BY <2>1, <2>2, <3>1, <4>1 DEF IsNewest
      <4> QED
        BY <4>1, <4>2
    <3>2. Get(k, s) = Nil
      BY <3>1, NothingFound
    <3>3. Value(w) = Nil /\ Value(Nil) = Nil
      BY <1>6, <2>6 DEF Value
    <3> QED
      BY <1>4, <3>2, <3>3
  <2> QED
    BY <2>3, <2>4, <2>5, <2>6
<1> QED
  BY <1>5, <1>6

-----------------------------------------------------------------------------
(***************************************************************************)
(* The theorems.                                                           *)
(***************************************************************************)
\* No write, flush, compaction, snapshot or read breaks the types of what is stored, nor, as long as
\* no memtable was flushed during a manual compaction, the order of the levels, the merge in progress
\* and what readers will look for.
THEOREM LsmInvariance == Spec => [](TypeInv /\ SoundInv)
<1>1. Init => TypeInv /\ SoundInv
  BY TypeInit, SoundInit
<1>2. TypeInv /\ SoundInv /\ [Next]_vars => TypeInv' /\ SoundInv'
  BY TypeStep, SoundStep
<1> QED
  BY <1>1, <1>2, PTL DEF Spec

\* Memtables, versions, snapshots and the compaction in progress keep their types: file_to_compact_ is
\* a file of the current version above the last level, and the inputs of a compaction stay in their
\* levels until it is installed.
THEOREM LsmTypeCorrect == Spec => []TypeOK
<1>1. TypeInv => TypeOK
  BY TypeInvImplies
<1> QED
  BY <1>1, LsmInvariance, PTL

\* Below level 0 the files of a level never overlap (MaybeAddFile), and entries never hop across
\* levels (Version::Get), whatever is compacted, moved or flushed in the meantime.
THEOREM LsmLevelsSound == Spec => []LevelsSound
<1>1. SoundInv => LevelsSound
  BY SoundLevels
<1> QED
  BY <1>1, LsmInvariance, PTL

\* DBImpl::Get finds the newest entry of the key at every snapshot held, in the memtables or through
\* the bisection of each level, but for deletions that a compaction dropped too early.
THEOREM LsmReadsNewest == Spec => []ReadsNewest
<1>1. TypeInv /\ SoundInv => ReadsNewest
  BY SoundReads
<1> QED
  BY <1>1, LsmInvariance, PTL
=============================================================================
