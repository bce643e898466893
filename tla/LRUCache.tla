------------------------------- MODULE LRUCache -------------------------------
(***************************************************************************)
(* One shard of leveldb's LRUCache and the threads that use it the way      *)
(* TableCache::FindTable, NewIterator and Get do: Lookup, on a miss open    *)
(* the table without a lock, Insert, use the handle, Release it.  Erase     *)
(* (Evict) and Prune come at any time.  An iterator keeps the handle in its *)
(* cleanup list until it is deleted; its user may register more.  Every     *)
(* method holds the mutex of the shard: one step.  The chains of            *)
(* HandleTable are the function "table".                                    *)
(***************************************************************************)
EXTENDS Integers, Sequences, FiniteSetsExt, SequencesExt

CONSTANTS CacheThreads, CacheKeys,
          CacheReaders,   \* the threads that make iterators
          Charges,        \* charge of an entry
          Capacities,     \* capacity_ of the shard
          MaxEntries,     \* bound: entries ever inserted
          MaxCleanups     \* bound: cleanup functions of an iterator

VARIABLES
    cache,      \* LRUCache: capacity, usage, table, lru (oldest first), in_use, its entries;
                \* history: order, entries by their last release
    user        \* what each thread does: idle, opening a table, holding a handle; the cleanup list of its iterator

cachevars == <<cache, user>>

Idle == [do |-> "idle", key |-> 0, e |-> 0, cleanup |-> << >>]
Entries == 1 .. Len(cache.entry)
Drop(seq, e) == SelectSeq(seq, LAMBDA x : x # e)

-----------------------------------------------------------------------------
(* Methods, as functions of the cache c.                                    *)
\* the last reference is gone: deleter, free
Freed(c, e) == [c EXCEPT !.entry[e].freed = @ + 1, !.order = Drop(@, e)]

Ref(c, e) ==
    [c EXCEPT !.lru = IF c.entry[e].refs = 1 /\ c.entry[e].in_cache THEN Drop(@, e) ELSE @,
              !.in_use = IF c.entry[e].refs = 1 /\ c.entry[e].in_cache THEN @ \cup {e} ELSE @,
              !.entry[e].refs = @ + 1]

UnrefFront(c, e) ==
    LET d == [c EXCEPT !.entry[e].refs = @ - 1]
    IN IF d.entry[e].refs = 0 THEN Freed(d, e)
       ELSE IF d.entry[e].in_cache /\ d.entry[e].refs = 1
       THEN [d EXCEPT !.in_use = @ \ {e}, !.lru = <<e>> \o @, !.order = Append(Drop(@, e), e)]
       ELSE d

Unref(c, e) ==
    LET d == [c EXCEPT !.entry[e].refs = @ - 1]
    IN IF d.entry[e].refs = 0 THEN Freed(d, e)
       ELSE IF d.entry[e].in_cache /\ d.entry[e].refs = 1
       THEN [d EXCEPT !.in_use = @ \ {e}, !.lru = Append(@, e), !.order = Append(Drop(@, e), e)]
       ELSE d

FinishEraseKeepsCharge(c, e) ==
    Unref([c EXCEPT !.lru = Drop(@, e), !.in_use = @ \ {e}, !.entry[e].in_cache = FALSE], e)

FinishEraseLeaks(c, e) ==
    [c EXCEPT !.lru = Drop(@, e), !.in_use = @ \ {e}, !.entry[e].in_cache = FALSE,
              !.usage = @ - c.entry[e].charge]

\* the entry leaves its list; it lives on while clients hold it
FinishErase(c, e) ==
    Unref([c EXCEPT !.lru = Drop(@, e), !.in_use = @ \ {e}, !.entry[e].in_cache = FALSE,
                    !.usage = @ - c.entry[e].charge], e)

\* HandleTable::Remove, then FinishErase
RemoveKey(c, k) ==
    IF c.table[k] = 0 THEN c ELSE FinishErase([c EXCEPT !.table[k] = 0], c.table[k])

\* the loop at the end of Insert
EvictOld(c) ==
    FoldLeft(LAMBDA d, e : IF d.usage > d.capacity THEN RemoveKey(d, d.entry[e].key) ELSE d,
             c, c.lru)

InsertEntry(c, k, charge) ==
    LET e == Len(c.entry) + 1
        cached == c.capacity > 0
        new == [key |-> k, charge |-> charge, refs |-> IF cached THEN 2 ELSE 1,
                in_cache |-> cached, freed |-> 0]
        old == c.table[k]
        added == [c EXCEPT !.entry = Append(@, new), !.in_use = IF cached THEN @ \cup {e} ELSE @,
                           !.usage = IF cached THEN @ + charge ELSE @,
                           !.table[k] = IF cached THEN e ELSE @]
    IN EvictOld(IF cached /\ old # 0 THEN FinishErase(added, old) ELSE added)

-----------------------------------------------------------------------------
(* TableCache::FindTable: two threads may miss and open the same table.     *)
Lookup(t, k) ==
    /\ user[t].do = "idle" /\ ~cache.gone
    /\ IF cache.table[k] # 0
       THEN /\ cache' = Ref(cache, cache.table[k])
            /\ user' = [user EXCEPT ![t].do = "hold", ![t].key = k, ![t].e = cache.table[k]]
       ELSE /\ user' = [user EXCEPT ![t].do = "open", ![t].key = k]
            /\ UNCHANGED cache

\* back to what the thread did before it looked for the table
Unhanded(u) == [Idle EXCEPT !.cleanup = u.cleanup]

\* errors are not cached
OpenFails(t) ==
    /\ user[t].do = "open"
    /\ user' = [user EXCEPT ![t] = Unhanded(@)]
    /\ UNCHANGED cache

Insert(t, charge) ==
    /\ user[t].do = "open" /\ Len(cache.entry) < MaxEntries
    /\ cache' = InsertEntry(cache, user[t].key, charge)
    /\ user' = [user EXCEPT ![t].do = "hold", ![t].e = Len(cache.entry) + 1]

\* Get is done
Release(t) ==
    /\ user[t].do = "hold"
    /\ cache' = Unref(cache, user[t].e)
    /\ user' = [user EXCEPT ![t] = Unhanded(@)]

RegisteredOver(list, e) == <<e>>

\* the first is in the iterator itself, the others are linked in behind it
Registered(list, e) == IF list = << >> THEN <<e>> ELSE <<Head(list), e>> \o Tail(list)

\* TableCache::NewIterator: the handle goes with the iterator
RegisterCleanup(t) ==
    /\ user[t].do = "hold" /\ t \in CacheReaders /\ Len(user[t].cleanup) < MaxCleanups
    /\ user' = [user EXCEPT ![t] = [Unhanded(@) EXCEPT !.cleanup = Registered(@, user[t].e)]]
    /\ UNCHANGED cache

\* ~Iterator runs each function of the list: UnrefEntry, or ReleaseBlock for a block
UnrefEntry(c, e) == Unref(c, e)

DeleteIterator(t) ==
    /\ user[t].do = "idle" /\ user[t].cleanup # << >>
    /\ cache' = FoldLeft(UnrefEntry, cache, user[t].cleanup)
    /\ user' = [user EXCEPT ![t] = Idle]

Erase(k) ==
    /\ cache.table[k] # 0 /\ cache' = RemoveKey(cache, k)
    /\ UNCHANGED user

Prune ==
    /\ cache.lru # << >>
    /\ cache' = FoldLeft(LAMBDA c, e : RemoveKey(c, c.entry[e].key), cache, cache.lru)
    /\ UNCHANGED user

\* ~LRUCache, after the clients are done; the table is not touched
Destroy ==
    /\ ~cache.gone /\ \A t \in CacheThreads : user[t] = Idle
    /\ cache' = [FoldLeft(LAMBDA c, e : Unref([c EXCEPT !.entry[e].in_cache = FALSE], e),
                          cache, cache.lru) EXCEPT !.gone = TRUE]
    /\ UNCHANGED user

-----------------------------------------------------------------------------
Init ==
    /\ \E capacity \in Capacities :
          cache = [capacity |-> capacity, usage |-> 0, table |-> [k \in CacheKeys |-> 0], lru |-> << >>,
                   in_use |-> {}, entry |-> << >>, order |-> << >>, gone |-> FALSE]
    /\ user = [t \in CacheThreads |-> Idle]

\* TableCache::NewIterator and Get, with FindTable: find the table or open it, use it, release the handle.
UseTable(t) ==
    \/ \E k \in CacheKeys : Lookup(t, k)
    \/ OpenFails(t) \/ Release(t) \/ RegisterCleanup(t) \/ DeleteIterator(t)
    \/ \E charge \in Charges : Insert(t, charge)

\* Calls that ShardedLRUCache hands to the shard of the key, or to every shard.
ShardedLRUCache ==
    \/ ~cache.gone /\ (Prune \/ \E k \in CacheKeys : Erase(k))
    \/ Destroy

Next == (\E t \in CacheThreads : UseTable(t)) \/ ShardedLRUCache

Spec == Init /\ [][Next]_cachevars

-----------------------------------------------------------------------------
Holders(e) == {t \in CacheThreads : e \in ToSet(user[t].cleanup) \/ (user[t].do = "hold" /\ user[t].e = e)}
InCache == {e \in Entries : cache.entry[e].in_cache}

\* An LRUHandle: in the cache or not, the references to it, and how often it was freed.
LRUHandle == [key : CacheKeys, charge : Charges, refs : Nat, in_cache : BOOLEAN, freed : Nat]

\* A shard: both lists, the table and the charge of what is in it.
Shard ==
    [capacity : Capacities, usage : Nat, table : [CacheKeys -> 0 .. MaxEntries], lru : Seq(1 .. MaxEntries),
     in_use : SUBSET (1 .. MaxEntries), entry : Seq(LRUHandle), order : Seq(1 .. MaxEntries), gone : BOOLEAN]

\* A thread in TableCache: it has no handle, opens the table it did not find, or has a handle.
TableCacheUser == [do : {"idle", "open", "hold"}, key : CacheKeys \cup {0}, e : 0 .. MaxEntries, cleanup : Seq(1 .. MaxEntries)]

TypeOK == cache \in Shard /\ user \in [CacheThreads -> TableCacheUser]

(* A handle stays usable until its holder releases it, whatever is erased,  *)
(* replaced or evicted meanwhile; the deleter runs once, when the last      *)
(* reference goes; and nothing is left over when the cache is destroyed.    *)
HandlesValid ==
    \A e \in Entries :
        /\ Holders(e) # {} => cache.entry[e].freed = 0
        /\ cache.entry[e].freed =
              IF Holders(e) = {} /\ ~cache.entry[e].in_cache THEN 1 ELSE 0
        /\ cache.gone => cache.entry[e].freed = 1

(* The lists, the hash table and usage_ agree: an entry of the cache is in  *)
(* lru_ when only the cache refers to it and in in_use_ when clients do,    *)
(* and usage_ is the sum of what is in both.                                *)
ListsAgree ==
    ~cache.gone =>
        /\ ToSet(cache.lru) = {e \in InCache : Holders(e) = {}}
        /\ cache.in_use = {e \in InCache : Holders(e) # {}}
        /\ {cache.table[k] : k \in CacheKeys} \ {0} = InCache
        /\ \A e \in InCache : cache.table[cache.entry[e].key] = e
        /\ cache.usage = FoldSet(LAMBDA e, n : n + cache.entry[e].charge, 0, InCache)

(* The entries that may be evicted are in the order in which they were last *)
(* released (history "order").                                              *)
OldestFirst == ~cache.gone => cache.lru = SelectSeq(cache.order, LAMBDA e : e \in ToSet(cache.lru))
=============================================================================
