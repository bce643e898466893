------------------------------- MODULE MemTable -------------------------------
(***************************************************************************)
(* leveldb's memtable: a SkipList that one writer extends while readers     *)
(* walk it without a lock.  A node is its internal key, a number that       *)
(* orders entries by user key and, for one user key, newest first.  Every   *)
(* load and store of a link is a step of its own; a reader may load an      *)
(* older value of max_height_, which is neither acquired nor released.      *)
(***************************************************************************)
EXTENDS Integers, Sequences, FiniteSetsExt

CONSTANTS Users,        \* user keys 1 .. n
          MaxSeq,       \* bound: entries added
          kMaxHeight,
          MemReaders

VARIABLES
    link,       \* node |-> its links by level, 1 .. height
    max_height,
    adding,     \* the entry that Insert is linking in, or none
    last_seq,   \* versions_->LastSequence(): what readers take as their snapshot
    walk        \* the search each reader is in

memvars == <<link, max_height, adding, last_seq, walk>>

head == 0
Null == 1000000        \* sorts after every key
Junk == -1             \* a link of a new node before it is set
InternalKey(user, seq) == user * (MaxSeq + 1) + (MaxSeq - seq)
User(k) == k \div (MaxSeq + 1)
SeqOf(k) == MaxSeq - (k % (MaxSeq + 1))

NotAdding == [key |-> 0, level |-> 0, height |-> 0, published |-> FALSE]
Resting == [op |-> "none", target |-> 0, x |-> head, level |-> 0, done |-> FALSE,
            result |-> Null, old |-> {}, snapshot |-> 0]
Linked == DOMAIN link \ (IF adding.level = 1 /\ ~adding.published THEN {head, adding.key} ELSE {head})

-----------------------------------------------------------------------------
(* SkipList::Insert, by MemTable::Add, by the writer at the front of the    *)
(* queue.                                                                   *)
\* FindGreaterOrEqual fills prev: only this thread changes links, one result
Prev(key, level) == Max({n \in DOMAIN link : n < key /\ Len(link[n]) >= level})

\* heights of RandomHeight
NewNode(height) == [i \in 1 .. height |-> Junk]

RandomHeight == 1 .. kMaxHeight

Insert(user, height) ==
    /\ adding = NotAdding /\ last_seq < MaxSeq
    /\ LET key == InternalKey(user, last_seq + 1)
       IN /\ adding' = [key |-> key, level |-> 1, height |-> height, published |-> FALSE]
          /\ link' = [n \in DOMAIN link \cup {key} |-> IF n = key THEN NewNode(height) ELSE link[n]]
    /\ max_height' = IF height > max_height THEN height ELSE max_height
    /\ UNCHANGED <<last_seq, walk>>

\* publishes the node before its own link is set
PublishFirst ==
    /\ adding.level > 0 /\ link[adding.key][adding.level] = Junk
    /\ link' = [link EXCEPT ![Prev(adding.key, adding.level)][adding.level] = adding.key]
    /\ UNCHANGED <<max_height, adding, last_seq, walk>>

\* x->NoBarrier_SetNext(i, prev[i]->NoBarrier_Next(i))
SetOwnLink ==
    /\ adding.level > 0 /\ link[adding.key][adding.level] = Junk
    /\ link' = [link EXCEPT ![adding.key][adding.level] = link[Prev(adding.key, adding.level)][adding.level]]
    /\ UNCHANGED <<max_height, adding, last_seq, walk>>

\* prev[i]->SetNext(i, x), then the next level
Publish ==
    /\ adding.level > 0 /\ link[adding.key][adding.level] # Junk
    /\ link' = [link EXCEPT ![Prev(adding.key, adding.level)][adding.level] = adding.key]
    /\ adding' = [adding EXCEPT !.published = TRUE,
                                !.level = IF @ = adding.height THEN 0 ELSE @ + 1]
    /\ UNCHANGED <<max_height, last_seq, walk>>

\* the sequence is published while the entry is being linked in
SetLastSequenceEarly ==
    /\ adding # NotAdding /\ last_seq < SeqOf(adding.key)
    /\ last_seq' = last_seq + 1
    /\ UNCHANGED <<link, max_height, adding, walk>>

\* DBImpl::Write sets the last sequence once the batch is in the memtable
SetLastSequence ==
    /\ adding # NotAdding /\ adding.level = 0
    /\ last_seq' = last_seq + 1
    /\ adding' = NotAdding
    /\ UNCHANGED <<link, max_height, walk>>

-----------------------------------------------------------------------------
(* Readers: MemTable::Get and the methods of SkipList::Iterator, each a     *)
(* FindGreaterOrEqual, FindLessThan or FindLast from the head.              *)
Begin(r, op, target, height, snapshot) ==
    /\ walk[r].op = "none"
    /\ walk' = [walk EXCEPT ![r] = [op |-> op, target |-> target, x |-> head, level |-> height,
                                    done |-> FALSE, result |-> Null, old |-> Linked, snapshot |-> snapshot]]
    /\ UNCHANGED <<link, max_height, adding, last_seq>>

Get(r, user, height) == Begin(r, "get", InternalKey(user, last_seq), height, last_seq)
Seek(r, target, height) == Begin(r, "seek", target, height, 0)
FindLessThan(r, target, height) == Begin(r, "less", target, height, 0)
FindLast(r, height) == Begin(r, "last", Null, height, 0)

\* Iterator::Next of a reader at key: one load
Next0(r, key) ==
    /\ walk[r].op = "none" /\ key \in Linked
    /\ walk' = [walk EXCEPT ![r] = [op |-> "next", target |-> key + 1, x |-> key, level |-> 1,
                                    done |-> FALSE, result |-> Null, old |-> Linked, snapshot |-> 0]]
    /\ UNCHANGED <<link, max_height, adding, last_seq>>

Searching(r) == walk[r].op # "none" /\ ~walk[r].done
Done(r, result) == walk' = [walk EXCEPT ![r].done = TRUE, ![r].result = result]

\* goes past a key that equals the target
StepPast(r) ==
    /\ Searching(r)
    /\ LET w == walk[r]
           next == link[w.x][w.level]
       IN IF next <= w.target /\ next # Null
          THEN walk' = [walk EXCEPT ![r].x = next]
          ELSE IF w.level > 1
          THEN walk' = [walk EXCEPT ![r].level = @ - 1]
          ELSE Done(r, IF w.op \in {"less", "last"} THEN w.x ELSE next)
    /\ UNCHANGED <<link, max_height, adding, last_seq>>

\* go right while the next key is before the target, else down; at the bottom
\* a search for a key returns the next node, one for a predecessor this node
Step(r) ==
    /\ Searching(r)
    /\ LET w == walk[r]
           next == link[w.x][w.level]
       IN IF next < w.target
          THEN walk' = [walk EXCEPT ![r].x = next]
          ELSE IF w.level > 1
          THEN walk' = [walk EXCEPT ![r].level = @ - 1]
          ELSE Done(r, IF w.op \in {"less", "last"} THEN w.x ELSE next)
    /\ UNCHANGED <<link, max_height, adding, last_seq>>

Finish(r) ==
    /\ walk[r].done
    /\ walk' = [walk EXCEPT ![r] = Resting]
    /\ UNCHANGED <<link, max_height, adding, last_seq>>

-----------------------------------------------------------------------------
Init ==
    /\ link = [n \in {head} |-> [i \in 1 .. kMaxHeight |-> Null]]
    /\ max_height = 1 /\ adding = NotAdding /\ last_seq = 0
    /\ walk = [r \in MemReaders |-> Resting]

Next ==
    \/ \E user \in Users, height \in RandomHeight : Insert(user, height)
    \/ SetOwnLink \/ Publish \/ SetLastSequence
    \/ \E r \in MemReaders :
          \/ \E height \in 1 .. max_height :
                \/ \E user \in Users : Get(r, user, height)
                \/ \E target \in DOMAIN link \ {head} :
                      Seek(r, target, height) \/ FindLessThan(r, target, height)
                \/ FindLast(r, height)
          \/ \E key \in DOMAIN link \ {head} : Next0(r, key)
          \/ Step(r) \/ Finish(r)

Spec == Init /\ [][Next]_memvars

-----------------------------------------------------------------------------
\* A Node: as many links as it is high, each to a node, to none, or not set yet.
IsNode(n) == link[n] \in Seq(DOMAIN link \cup {Null, Junk}) /\ Len(link[n]) \in 1 .. kMaxHeight

\* The list: its head is as high as a node can be, and max_height is the height of some node.
IsSkipList ==
    /\ Len(link[head]) = kMaxHeight /\ max_height \in 1 .. kMaxHeight
    /\ max_height > 1 => \E n \in DOMAIN link \ {head} : Len(link[n]) = max_height

\* A search of an Iterator or of Get: where it is, on which level, and what it found.
IsSearch(w) ==
    /\ w.x \in DOMAIN link /\ w.level \in 0 .. max_height
    /\ w.done \in BOOLEAN /\ w.result \in DOMAIN link \cup {Null}
    /\ w.snapshot \in 0 .. last_seq

TypeOK ==
    /\ \A n \in DOMAIN link : IsNode(n)
    /\ IsSkipList /\ last_seq \in 0 .. MaxSeq
    /\ \A r \in MemReaders : IsSearch(walk[r])

(* No reader meets a link that is not set yet, or a node too low for the    *)
(* level it is on.                                                          *)
ReadersSafe ==
    \A r \in MemReaders : Searching(r) =>
        /\ walk[r].level <= Len(link[walk[r].x])
        /\ link[walk[r].x][walk[r].level] # Junk

(* What a search returns, although entries were added while it ran: no      *)
(* entry that was there when it began lies between the key it looks for and *)
(* its result.                                                              *)
SearchExact ==
    \A r \in MemReaders :
        LET w == walk[r]
        IN /\ w.done /\ w.op \in {"get", "seek", "next"} =>
                 /\ w.result >= w.target /\ w.result \in DOMAIN link \cup {Null}
                 /\ \A k \in w.old : k >= w.target => w.result <= k
           /\ w.done /\ w.op \in {"less", "last"} =>
                 /\ w.result < w.target
                 /\ \A k \in w.old : k < w.target => k <= w.result

(* A Get answers with the newest entry of the key that its snapshot covers, *)
(* and with none if there is none, whatever is added meanwhile.             *)
GetNewest ==
    \A r \in MemReaders : walk[r].done /\ walk[r].op = "get" =>
        LET w == walk[r]
            covered == {k \in DOMAIN link \ {head} : User(k) = User(w.target) /\ SeqOf(k) <= w.snapshot}
        IN IF covered = {} THEN w.result = Null \/ User(w.result) # User(w.target)
           ELSE w.result = Min(covered)
=============================================================================
