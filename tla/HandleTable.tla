----------------------------- MODULE HandleTable -----------------------------
(***************************************************************************)
(* HandleTable of leveldb's LRUCache (util/cache.cc): an array of chains,    *)
(* doubled and filled anew when it holds more entries than chains.  Keys 2j  *)
(* and 2j + 1 have the same hash j, so that a chain holds keys that differ   *)
(* only in their bytes and keys that differ in the bits a longer array uses. *)
(* LRUCache uses the table as a function of the key: that is what is checked *)
(* here.                                                                     *)
(***************************************************************************)
EXTENDS Integers, Sequences, SequencesExt, FiniteSets, FiniteSetsExt

CONSTANTS HashKeys,   \* keys of the entries
          EntriesPerKey     \* entries that are made for one key, one after the other

VARIABLES length_, elems_, list_,   \* of HandleTable; a chain is a sequence of entries
          held                      \* history: key |-> the entry inserted last and not removed, None

None == [key |-> -1, handle |-> -1]
hash(key) == key \div 2
LRUHandle(key, h) == [key |-> key, handle |-> h]

Buckets == 0 .. length_ - 1
\* hash & (length - 1): the length is a power of two
BucketOf(key, length) == hash(key) % length

\* The place in the chain where the key is, or behind its end.
FindPointer(chain, key) == Min({i \in 1 .. Len(chain) : chain[i].key = key} \cup {Len(chain) + 1})

Lookup(key) ==
    LET chain == list_[BucketOf(key, length_)] i == FindPointer(chain, key)
    IN IF i <= Len(chain) THEN chain[i] ELSE None

-----------------------------------------------------------------------------
NewLength(elems) == CHOOSE n \in {4 * 2 ^ k : k \in 0 .. elems} :
                        n >= elems /\ (n = 4 \/ n \div 2 < elems)

ResizeByOldLength(list, elems) ==
    LET all == FlattenSeq([i \in 1 .. Cardinality(DOMAIN list) |-> list[i - 1]])
    IN [b \in 0 .. NewLength(elems) - 1 |-> Reverse(SelectSeq(all, LAMBDA e : BucketOf(e.key, Cardinality(DOMAIN list)) = b))]

\* Chain by chain, every entry is put in front of its new chain.
Resize(list, elems) ==
    LET all == FlattenSeq([i \in 1 .. Cardinality(DOMAIN list) |-> list[i - 1]])
    IN [b \in 0 .. NewLength(elems) - 1 |-> Reverse(SelectSeq(all, LAMBDA e : BucketOf(e.key, NewLength(elems)) = b))]

\* The constructor calls Resize on an array of no chains.
Init ==
    /\ elems_ = 0
    /\ length_ = NewLength(0)
    /\ list_ = Resize(<<>>, 0)
    /\ held = [k \in HashKeys |-> None]

\* An entry takes the place of the one with its key, or the end of the chain.
Insert(key, h) ==
    LET b == BucketOf(key, length_)
        i == FindPointer(list_[b], key)
        old == Lookup(key)
        chained == [list_ EXCEPT ![b] = SubSeq(@, 1, i - 1) \o <<LRUHandle(key, h)>> \o SubSeq(@, i + 1, Len(@))]
        elems == IF old = None THEN elems_ + 1 ELSE elems_
        grown == old = None /\ elems > length_
    IN /\ held[key] # LRUHandle(key, h)
       /\ elems_' = elems
       /\ list_' = IF grown THEN Resize(chained, elems) ELSE chained
       /\ length_' = IF grown THEN NewLength(elems) ELSE length_
       /\ held' = [held EXCEPT ![key] = LRUHandle(key, h)]

RemoveKeyCutsChain(key) ==
    LET b == BucketOf(key, length_) i == FindPointer(list_[b], key)
    IN /\ list_' = [list_ EXCEPT ![b] = SubSeq(@, 1, i - 1)]
       /\ elems_' = IF Lookup(key) = None THEN elems_ ELSE elems_ - 1
       /\ held' = [held EXCEPT ![key] = None]
       /\ UNCHANGED length_

RemoveKey(key) ==
    LET b == BucketOf(key, length_) i == FindPointer(list_[b], key)
    IN /\ list_' = [list_ EXCEPT ![b] = SubSeq(@, 1, i - 1) \o SubSeq(@, i + 1, Len(@))]
       /\ elems_' = IF Lookup(key) = None THEN elems_ ELSE elems_ - 1
       /\ held' = [held EXCEPT ![key] = None]
       /\ UNCHANGED length_

Next == \E k \in HashKeys : RemoveKey(k) \/ \E h \in EntriesPerKey : Insert(k, h)

Spec == Init /\ [][Next]_<<length_, elems_, list_, held>>

-----------------------------------------------------------------------------
(* Chains of entries, one per bucket.                                       *)
TypeOK == elems_ \in Nat /\ DOMAIN list_ = Buckets

(* After any inserts, replacements, removals and the resizes they lead to,   *)
(* the table finds for every key the entry inserted last, and nothing for a  *)
(* key that was removed.                                                     *)
LookupExact == \A k \in HashKeys : Lookup(k) = held[k]

(* elems_ counts the entries in the chains (Resize asserts it), none is in   *)
(* two chains, and there are never more entries than chains.                 *)
ChainsCounted ==
    /\ elems_ = MapThenSumSet(LAMBDA b : Len(list_[b]), Buckets)
    /\ elems_ = Cardinality(UNION {ToSet(list_[b]) : b \in Buckets})
    /\ elems_ <= length_
=============================================================================
