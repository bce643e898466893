------------------------------- MODULE CStore -------------------------------
(***************************************************************************)
(* What a client of the C interface (c.cc) sees of its data: write batches   *)
(* that it fills, appends to each other, replays through its own callbacks   *)
(* and writes more than once; single puts and deletes; and an iterator that  *)
(* walks the database, at a snapshot or as it was when the iterator was      *)
(* made, while the client goes on writing.  The database below applies a     *)
(* batch as a whole (WriteQueue) and reads by sequence number (LsmTree).     *)
(***************************************************************************)
EXTENDS Integers, Sequences, FiniteSetsExt, SequencesExt

CONSTANTS StoreKeys,     \* user keys, numbers
          Deleted,       \* the keys that deletions are for
          MaxBatch,      \* bound: records of the first batch; the second has one less
          MaxLast        \* bound: sequence numbers given out

VARIABLES
    batch,      \* leveldb_writebatch_t, two of them: the count of the header and the records
    last,       \* versions_->LastSequence()
    entries,    \* what is in the database: key, sequence number, deleted or put
    snap,       \* leveldb_snapshot_t: its sequence number, or None
    iter,       \* leveldb_iterator_t: its sequence number (None: there is none) and its position
    past        \* history: the keys present after each sequence number; the keys a walk has shown

None == -1
End == 0                                          \* not Valid()
Batches == {1, 2}
Bound(b) == MaxBatch + 1 - b
NoWalk == [on |-> FALSE, keys |-> {}]
Ops == [key : StoreKeys, del : {FALSE}] \cup [key : Deleted, del : {TRUE}]
EmptyBatch == [count |-> 0, ops |-> <<>>]

Init ==
    /\ batch = [b \in Batches |-> EmptyBatch]
    /\ last = 0 /\ entries = {}
    /\ snap = None /\ iter = [seq |-> None, at |-> End]
    /\ past = [keys |-> <<{}>>, walk |-> NoWalk]

-----------------------------------------------------------------------------
leveldb_writebatch_clear(b) ==
    /\ batch' = [batch EXCEPT ![b] = EmptyBatch]
    /\ UNCHANGED <<last, entries, snap, iter, past>>

Add(rep, op) == [rep EXCEPT !.count = @ + 1, !.ops = Append(@, op)]

\* writebatch_put and writebatch_delete
leveldb_writebatch_add(b, op) ==
    /\ Len(batch[b].ops) < Bound(b)
    /\ batch' = [batch EXCEPT ![b] = Add(@, op)]
    /\ UNCHANGED <<last, entries, snap, iter, past>>

AppendRecords(dst, src) == [dst EXCEPT !.ops = @ \o src.ops]

\* WriteBatchInternal::Append; a batch may be appended to itself.
AppendTo(dst, src) == [dst EXCEPT !.count = @ + src.count, !.ops = @ \o src.ops]

leveldb_writebatch_append(d, s) ==
    /\ Len(batch[d].ops) + Len(batch[s].ops) <= Bound(d)
    /\ batch' = [batch EXCEPT ![d] = AppendTo(@, batch[s])]
    /\ UNCHANGED <<last, entries, snap, iter, past>>

\* MemTableInserter: one sequence number after the other from that of the header.
InsertInto(rep, seq) == {[key |-> rep.ops[i].key, seq |-> seq + i - 1, del |-> rep.ops[i].del] : i \in 1 .. Len(rep.ops)}

\* What the callbacks of writebatch_iterate do to a client that keeps a copy of the keys.
Replay(rep, keys) == FoldLeft(LAMBDA ks, op : IF op.del THEN ks \ {op.key} ELSE ks \cup {op.key}, keys, rep.ops)

\* The keys present after each record of the batch.
Stages(rep) == [i \in 1 .. Len(rep.ops) |-> Replay([rep EXCEPT !.ops = SubSeq(@, 1, i)], Head(Reverse(past.keys)))]

\* DBImpl::Write sets the sequence number of the batch and goes on by its count.
Write(rep) ==
    /\ last + Len(rep.ops) <= MaxLast
    /\ entries' = entries \cup InsertInto(rep, last + 1)
    /\ last' = last + rep.count
    /\ past' = [past EXCEPT !.keys = @ \o Stages(rep)]
    /\ UNCHANGED <<snap, iter>>

\* The batch may be written again: the number in its header is set anew each time.
leveldb_write(b) == Write(batch[b]) /\ UNCHANGED batch

\* DB::Put and DB::Delete make a batch of one record.
leveldb_put(op) == Write(Add(EmptyBatch, op)) /\ UNCHANGED batch

-----------------------------------------------------------------------------
\* The newest entry of the key that the sequence number covers.
Newest(k, seq) == {e \in entries : e.key = k /\ e.seq <= seq /\ \A d \in entries : d.key = k /\ d.seq <= seq => d.seq <= e.seq}
Present(seq) == {k \in StoreKeys : \E e \in Newest(k, seq) : ~e.del}

leveldb_create_snapshot ==
    /\ snap = None
    /\ snap' = last
    /\ UNCHANGED <<batch, last, entries, iter, past>>

leveldb_release_snapshot ==
    /\ snap # None
    /\ snap' = None
    /\ UNCHANGED <<batch, last, entries, iter, past>>

\* The snapshot of the read options, or the last sequence number of now.
leveldb_create_iterator ==
    /\ iter.seq = None
    /\ iter' = [seq |-> IF snap = None THEN last ELSE snap, at |-> End]
    /\ past' = [past EXCEPT !.walk = NoWalk]
    /\ UNCHANGED <<batch, last, entries, snap>>

leveldb_iter_destroy ==
    /\ iter.seq # None
    /\ iter' = [seq |-> None, at |-> End]
    /\ past' = [past EXCEPT !.walk = NoWalk]
    /\ UNCHANGED <<batch, last, entries, snap>>

ViewOfNow == Present(last)

\* An iterator sees what its sequence number covers.
View == Present(iter.seq)

FirstOf(keys) == IF keys = {} THEN End ELSE Min(keys)
LastOf(keys) == IF keys = {} THEN End ELSE Max(keys)
From(k) == FirstOf({j \in View : j >= k})
After(k) == FirstOf({j \in View : j > k})
Before(k) == LastOf({j \in View : j < k})
Seen(k) == IF k = End THEN {} ELSE {k}

Move(to, walk) ==
    /\ iter' = [iter EXCEPT !.at = to]
    /\ past' = [past EXCEPT !.walk = walk]
    /\ UNCHANGED <<batch, last, entries, snap>>

leveldb_iter_seek_to_first == iter.seq # None /\ Move(FirstOf(View), [on |-> TRUE, keys |-> Seen(FirstOf(View))])
leveldb_iter_seek_to_last == iter.seq # None /\ Move(LastOf(View), NoWalk)
leveldb_iter_seek(k) == iter.seq # None /\ Move(From(k), NoWalk)
\* next and prev are called on a valid iterator only
leveldb_iter_next == iter.at # End /\ Move(After(iter.at), [past.walk EXCEPT !.keys = IF past.walk.on THEN @ \cup Seen(After(iter.at)) ELSE {}])
leveldb_iter_prev == iter.at # End /\ Move(Before(iter.at), NoWalk)

Next ==
    \/ \E b \in Batches :
          \/ leveldb_writebatch_clear(b) \/ leveldb_write(b)
          \/ \E op \in Ops : leveldb_writebatch_add(b, op)
          \/ \E s \in Batches : leveldb_writebatch_append(b, s)
    \/ \E op \in Ops : leveldb_put(op)
    \/ leveldb_create_snapshot \/ leveldb_release_snapshot \/ leveldb_create_iterator \/ leveldb_iter_destroy
    \/ leveldb_iter_seek_to_first \/ leveldb_iter_seek_to_last \/ leveldb_iter_next \/ leveldb_iter_prev
    \/ \E k \in StoreKeys : leveldb_iter_seek(k)

Spec == Init /\ [][Next]_<<batch, last, entries, snap, iter, past>>

-----------------------------------------------------------------------------
(* Numbers and positions.                                                   *)
TypeOK ==
    /\ last \in 0 .. MaxLast /\ snap \in {None} \cup 0 .. last /\ iter.seq \in {None} \cup 0 .. last
    /\ iter.at \in {End} \cup StoreKeys
    /\ \A b \in Batches : batch[b].count \in Nat

(* However batches were filled, appended, to themselves too, cleared and     *)
(* written again, no two entries of the database have one sequence number    *)
(* and none is beyond the last; so the keys present at each number are those *)
(* a client that replays the batches through its callbacks has.              *)
SequencesExact ==
    /\ {e.seq : e \in entries} = 1 .. last /\ Cardinality(entries) = last
    /\ \A s \in 0 .. last : Present(s) = past.keys[s + 1]

(* An iterator shows keys of the moment its sequence number stands for, and  *)
(* a walk from the first key shows every one of them up to where it is,      *)
(* whatever is written and whichever snapshot is released meanwhile.         *)
WalkWhole ==
    /\ iter.at # End => iter.at \in past.keys[iter.seq + 1]
    /\ past.walk.on =>
          past.walk.keys = {k \in past.keys[iter.seq + 1] : iter.at = End \/ k <= iter.at}
=============================================================================
