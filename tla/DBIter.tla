-------------------------------- MODULE DBIter --------------------------------
(***************************************************************************)
(* Iteration over a leveldb database: DBIter on a MergingIterator of two    *)
(* children, the memtable, which grows while the iterator moves, and a      *)
(* table, read through a TwoLevelIterator whose blocks may be unreadable.   *)
(* An entry is its internal key, a number: user key first, newest first.    *)
(***************************************************************************)
EXTENDS Integers, Sequences, FiniteSetsExt, SequencesExt

CONSTANTS IterUsers,    \* user keys 1 .. n
          SnapshotSeq,     \* sequence number of the iterator: entries there when it is made
          MaxAdds       \* bound: entries added later

VARIABLES
    mem,        \* entries of the memtable
    blocks,     \* entries of the table, block by block; bad: blocks that cannot be read
    deletions,  \* entries that are deletion markers
    it,         \* the iterators
    moved       \* history: the user key the last call should have reached

itervars == <<mem, blocks, deletions, it, moved>>

LastSeq == SnapshotSeq + MaxAdds
IKey(user, seq) == user * (LastSeq + 1) + (LastSeq - seq)
UserOf(k) == k \div (LastSeq + 1)
SequenceOf(k) == LastSeq - (k % (LastSeq + 1))
None == 0

AtOrAfter(keys, k) == LET s == {x \in keys : x >= k} IN IF s = {} THEN None ELSE Min(s)
Below(keys, k) == LET s == {x \in keys : x < k} IN IF s = {} THEN None ELSE Max(s)
First(keys) == AtOrAfter(keys, 0)
LastIn(keys) == IF keys = {} THEN None ELSE Max(keys)

-----------------------------------------------------------------------------
(* TwoLevelIterator: index is the position of index_iter_, open the block   *)
(* of data_iter_ (0: null), at its entry; failed is status_.                *)
Blocks == 1 .. Len(blocks.data)
Block(i) == IF i \in blocks.bad THEN {} ELSE blocks.data[i]

\* the index key of a block: its last key, or anything before the next block
Separator(i) ==
    IF blocks.far /\ i < Len(blocks.data) THEN First(blocks.data[i + 1]) - 1 ELSE LastIn(blocks.data[i])

InitDataBlockForgets(t, i) ==
    [t EXCEPT !.index = i, !.open = IF i \in Blocks THEN i ELSE 0, !.at = None]

\* SetDataIterator saves the error of the block it leaves
InitDataBlock(t, i) ==
    IF i \in Blocks /\ t.open = i THEN [t EXCEPT !.index = i]
    ELSE [t EXCEPT !.index = i, !.open = IF i \in Blocks THEN i ELSE 0, !.at = None,
                   !.failed = @ \/ t.open \in blocks.bad]

TableEnd == Len(blocks.data) + 1
SeekToFirstIn(t) == [t EXCEPT !.at = IF t.open = 0 THEN None ELSE First(Block(t.open))]
SeekToLastIn(t) == [t EXCEPT !.at = IF t.open = 0 THEN None ELSE LastIn(Block(t.open))]

Forward(t, i) == IF t.at # None \/ i <= t.index THEN t ELSE SeekToFirstIn(InitDataBlock(t, i))
Backward(t, i) == IF t.at # None \/ i >= t.index THEN t ELSE SeekToLastIn(InitDataBlock(t, i))
SkipEmptyDataBlocksForward(t) == FoldLeft(Forward, t, [i \in 1 .. TableEnd |-> i])
SkipEmptyDataBlocksBackward(t) == FoldLeft(Backward, t, [i \in 1 .. TableEnd |-> TableEnd - i])

SeekIn(t, k) == [t EXCEPT !.at = IF t.open = 0 THEN None ELSE AtOrAfter(Block(t.open), k)]
IndexOf(k) == LET s == {i \in Blocks : Separator(i) >= k} IN IF s = {} THEN TableEnd ELSE Min(s)
TSeek(t, k) == SkipEmptyDataBlocksForward(SeekIn(InitDataBlock(t, IndexOf(k)), k))
TSeekToFirst(t) == SkipEmptyDataBlocksForward(SeekToFirstIn(InitDataBlock(t, 1)))
TSeekToLast(t) == SkipEmptyDataBlocksBackward(SeekToLastIn(InitDataBlock(t, TableEnd - 1)))
TNext(t) == SkipEmptyDataBlocksForward([t EXCEPT !.at = AtOrAfter(Block(t.open), t.at + 1)])
TPrev(t) == SkipEmptyDataBlocksBackward([t EXCEPT !.at = Below(Block(t.open), t.at)])

\* TwoLevelIterator::status, which is what MergingIterator and DBIter answer with
Failed(t) == t.failed \/ t.open \in blocks.bad

-----------------------------------------------------------------------------
(* MergingIterator of the memtable (m) and the table (t).                   *)
FindSmallest(x) ==
    [x EXCEPT !.cur = IF x.m = None /\ x.t.at = None THEN "none"
                      ELSE IF x.t.at = None \/ (x.m # None /\ x.m <= x.t.at) THEN "m" ELSE "t"]
FindLargest(x) ==
    [x EXCEPT !.cur = IF x.m = None /\ x.t.at = None THEN "none"
                      ELSE IF x.m > x.t.at THEN "m" ELSE "t"]

Key(x) == IF x.cur = "m" THEN x.m ELSE x.t.at
MSeek(x, k) == FindSmallest([x EXCEPT !.m = AtOrAfter(mem, k), !.t = TSeek(@, k), !.fwd = TRUE])
MSeekToFirst(x) == FindSmallest([x EXCEPT !.m = First(mem), !.t = TSeekToFirst(@), !.fwd = TRUE])
MSeekToLast(x) == FindLargest([x EXCEPT !.m = LastIn(mem), !.t = TSeekToLast(@), !.fwd = FALSE])

NoTurn(x) == x

\* the child that is not current is placed after the key
TurnForward(x) ==
    IF x.fwd THEN x
    ELSE IF x.cur = "m" THEN [x EXCEPT !.fwd = TRUE, !.t = TSeek(@, x.m)]
    ELSE [x EXCEPT !.fwd = TRUE, !.m = AtOrAfter(mem, x.t.at)]

Advance(x) == IF x.cur = "m" THEN [x EXCEPT !.m = AtOrAfter(mem, x.m + 1)] ELSE [x EXCEPT !.t = TNext(@)]
Retreat(x) == IF x.cur = "m" THEN [x EXCEPT !.m = Below(mem, x.m)] ELSE [x EXCEPT !.t = TPrev(@)]
MNext(x) == FindSmallest(Advance(TurnForward(x)))
MPrev(x) == FindLargest(Retreat(x))

\* Prev from a forward position: first the other child seeks the key ...
TurnSeek(x) ==
    IF x.cur = "m" THEN [x EXCEPT !.t = TSeek(@, x.m)] ELSE [x EXCEPT !.m = AtOrAfter(mem, x.t.at)]

\* ... then it steps back, or goes to its last entry, which may be new
TurnPlace(x) ==
    IF x.cur = "m"
    THEN [x EXCEPT !.fwd = FALSE, !.t = IF @.at # None THEN TPrev(@) ELSE TSeekToLast(@)]
    ELSE [x EXCEPT !.fwd = FALSE, !.m = IF @ # None THEN Below(mem, @) ELSE LastIn(mem)]

-----------------------------------------------------------------------------
(* DBIter.                                                                  *)
Covered(k) == SequenceOf(k) <= SnapshotSeq
Rest(x, valid) == [x EXCEPT !.do = "rest", !.valid = valid, !.saved = IF x.dir = "fwd" THEN None ELSE @]

\* FindNextUserEntry, one turn of its loop; called with iter_ valid
FindNextFrom(x, skipping) ==
    IF x.cur = "none" THEN Rest(x, FALSE) ELSE [x EXCEPT !.do = "next", !.skipping = skipping]

StepNext ==
    /\ it.do = "next"
    /\ LET k == Key(it)
           hidden == it.skipping /\ UserOf(k) <= it.saved
       IN it' = IF Covered(k) /\ k \notin deletions /\ ~hidden THEN Rest(it, TRUE)
                ELSE IF Covered(k) /\ k \in deletions
                THEN FindNextFrom(MNext([it EXCEPT !.saved = UserOf(k)]), TRUE)
                ELSE FindNextFrom(MNext(it), it.skipping)
    /\ UNCHANGED <<mem, blocks, deletions, moved>>

\* FindPrevUserEntry: val is value_type, the entry saved or a deletion
EndPrev(x) ==
    IF x.val = None THEN [x EXCEPT !.do = "rest", !.valid = FALSE, !.saved = None, !.dir = "fwd"]
    ELSE Rest(x, TRUE)

FindPrevFrom(x) == IF x.cur = "none" THEN EndPrev(x) ELSE [x EXCEPT !.do = "prev"]

StepPrev ==
    /\ it.do = "prev"
    /\ LET k == Key(it)
           past == Covered(k) /\ it.val # None /\ UserOf(k) < it.saved
           took == [it EXCEPT !.val = IF k \in deletions THEN None ELSE k,
                              !.saved = IF k \in deletions THEN None ELSE UserOf(k)]
       IN it' = IF past THEN EndPrev(it)
                ELSE IF Covered(k) THEN FindPrevFrom(MPrev(took))
                ELSE FindPrevFrom(MPrev(it))
    /\ UNCHANGED <<mem, blocks, deletions, moved>>

\* Prev of a forward iterator leaves the entries of its key
BackSeek ==
    /\ it.do = "back" /\ it.fwd
    /\ it' = [TurnSeek(it) EXCEPT !.do = "place"]
    /\ UNCHANGED <<mem, blocks, deletions, moved>>

LeaveKey(x) ==
    IF x.cur = "none" THEN [x EXCEPT !.do = "rest", !.valid = FALSE, !.saved = None]
    ELSE IF UserOf(Key(x)) < x.saved THEN FindPrevFrom([x EXCEPT !.dir = "rev", !.val = None])
    ELSE [x EXCEPT !.do = "back"]

BackPlace ==
    /\ it.do = "place"
    /\ it' = LeaveKey(MPrev(TurnPlace(it)))
    /\ UNCHANGED <<mem, blocks, deletions, moved>>

Back ==
    /\ it.do = "back" /\ ~it.fwd
    /\ it' = LeaveKey(MPrev(it))
    /\ UNCHANGED <<mem, blocks, deletions, moved>>

-----------------------------------------------------------------------------
(* What the snapshot holds: the newest entry of each user key, if it is no  *)
(* deletion.                                                                *)
All == mem \cup UNION {blocks.data[i] : i \in Blocks}
Newest(u) == AtOrAfter({k \in All : UserOf(k) = u /\ Covered(k)}, 0)
LiveUsers == {u \in IterUsers : Newest(u) # None /\ Newest(u) \notin deletions}

Position(x) == IF ~x.valid THEN None ELSE IF x.dir = "fwd" THEN UserOf(Key(x)) ELSE x.saved

Move(x, want) ==
    /\ it.do = "rest"
    /\ it' = x
    /\ moved' = want
    /\ UNCHANGED <<mem, blocks, deletions>>

Seek(u) ==
    Move(FindNextFrom(MSeek([it EXCEPT !.dir = "fwd", !.saved = None], IKey(u, SnapshotSeq)), FALSE),
         AtOrAfter(LiveUsers, u))

SeekToFirst ==
    Move(FindNextFrom(MSeekToFirst([it EXCEPT !.dir = "fwd"]), FALSE), First(LiveUsers))

SeekToLast ==
    Move(FindPrevFrom(MSeekToLast([it EXCEPT !.dir = "rev", !.val = None])), LastIn(LiveUsers))

NextMove(x) ==
    IF x.dir = "fwd" THEN FindNextFrom([x EXCEPT !.saved = UserOf(Key(x))], TRUE)
    ELSE FindNextFrom([(IF x.cur = "none" THEN MSeekToFirst(x) ELSE MNext(x)) EXCEPT !.dir = "fwd"], TRUE)

Next0 == it.valid /\ Move(NextMove(it), AtOrAfter(LiveUsers, Position(it) + 1))

PrevMove(x) ==
    IF x.dir = "fwd" THEN [x EXCEPT !.saved = UserOf(Key(x)), !.do = "back"]
    ELSE FindPrevFrom([x EXCEPT !.val = None])

Prev0 == it.valid /\ Move(PrevMove(it), Below(LiveUsers, Position(it)))

\* a writer, meanwhile
Add(u, del) ==
    /\ Cardinality(All) < LastSeq
    /\ LET k == IKey(u, Cardinality(All) + 1)
       IN /\ mem' = mem \cup {k}
          /\ deletions' = IF del THEN deletions \cup {k} ELSE deletions
    /\ UNCHANGED <<blocks, it, moved>>

-----------------------------------------------------------------------------
\* the older entries are in the table, in one or two blocks
Init ==
    \E user \in [1 .. SnapshotSeq -> IterUsers], del \in SUBSET (1 .. SnapshotSeq),
       flushed \in 0 .. SnapshotSeq, far \in BOOLEAN :
        LET key(s) == IKey(user[s], s)
            table == {key(s) : s \in 1 .. flushed}
        IN \E cut \in table \cup {None} :
           LET low == {k \in table : k <= cut}
               high == table \ low
               data == SelectSeq(<<low, high>>, LAMBDA b : b # {})
           IN /\ mem = {key(s) : s \in flushed + 1 .. SnapshotSeq}
              /\ deletions = {key(s) : s \in del}
              /\ far => Len(data) = 2   \* the separator of a single block is its last key
              /\ \E bad \in SUBSET (1 .. Len(data)) : blocks = [data |-> data, bad |-> bad, far |-> far]
              /\ it = [do |-> "rest", valid |-> FALSE, dir |-> "fwd", saved |-> None, val |-> None,
                       skipping |-> FALSE, cur |-> "none", fwd |-> TRUE, m |-> None,
                       t |-> [index |-> 0, open |-> 0, at |-> None, failed |-> FALSE]]
              /\ moved = None

Next ==
    \/ \E u \in IterUsers : Seek(u)
    \/ SeekToFirst \/ SeekToLast \/ Next0 \/ Prev0
    \/ StepNext \/ StepPrev \/ BackSeek \/ BackPlace \/ Back
    \/ \E u \in IterUsers, del \in BOOLEAN : Add(u, del)

Spec == Init /\ [][Next]_itervars

-----------------------------------------------------------------------------
\* TwoLevelIterator: the entry of the index it is at, the block it has open and the key there.
IsTwoLevelIterator(t) ==
    /\ t.index \in 0 .. TableEnd /\ t.open \in 0 .. Len(blocks.data)
    /\ t.at # None => t.open # 0 /\ t.at \in blocks.data[t.open]
    /\ t.failed \in BOOLEAN

\* MergingIterator: its children, the one it is on and its direction.
IsMergingIterator(i) ==
    /\ i.cur \in {"none", "m", "t"} /\ i.fwd \in BOOLEAN
    /\ i.m \in mem \cup {None} /\ IsTwoLevelIterator(i.t)

\* DBIter: in reverse it is behind the entry it shows, which it has copied into saved.
IsDBIter(i) ==
    /\ i.do \in {"rest", "next", "prev", "back", "place"} /\ i.dir \in {"fwd", "rev"}
    /\ {i.valid, i.skipping} \subseteq BOOLEAN
    /\ i.do \in {"next", "prev"} => i.cur # "none"

TypeOK == IsMergingIterator(it) /\ IsDBIter(it)

Reached ==
    /\ Position(it) = moved
    /\ it.valid => (IF it.dir = "fwd" THEN Key(it) ELSE it.val) = Newest(moved)

(* Every call ends at the live user key it should reach and at its newest   *)
(* entry, forwards and backwards, after every turn, and whatever is added   *)
(* to the memtable meanwhile.                                               *)
MovesExact == it.do = "rest" /\ blocks.bad = {} => Reached

(* A call that missed something because a block cannot be read leaves an    *)
(* error in status().                                                       *)
ErrorsTold == it.do = "rest" /\ ~Reached => Failed(it.t)
=============================================================================
