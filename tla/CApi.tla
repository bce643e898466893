-------------------------------- MODULE CApi --------------------------------
(***************************************************************************)
(* The C interface of leveldb (db/c.cc, include/leveldb/c.h): who owns what  *)
(* is on the heap, and the convention of errptr.  The database below is an   *)
(* object that may answer every call with success or an error.  The client   *)
(* keeps the rules of c.h: it has one handle of each type at a time,         *)
(* destroys it once, and destroys nothing that an open database, an          *)
(* iterator or an options object refers to.                                  *)
(***************************************************************************)
EXTENDS Integers, FiniteSets

VARIABLES
    heap,      \* type |-> how many objects of it are allocated
    refs,      \* options, database or read options |-> the objects it points to and does not own
    client,    \* handles and strings it has to give back (hands), *errptr (err) and whether it is allocated
    told       \* history: what the last call that failed was, None since the client took the message

None == "none"

\* The object that a handle of two parts owns.
rep == [leveldb_t |-> "DB", leveldb_iterator_t |-> "Iterator", leveldb_snapshot_t |-> "Snapshot",
        leveldb_cache_t |-> "Cache", Wrapper |-> "Bloom"]
Pairs == DOMAIN rep
Reps == {rep[h] : h \in Pairs}
Simple == {"leveldb_options_t", "leveldb_readoptions_t", "leveldb_writeoptions_t"}
Callbacks == {"leveldb_comparator_t"}       \* made from the client's functions and state, as a policy is
leveldb_env_t == "leveldb_env_t"            \* is_default: its rep is Env::Default(), which nobody may delete
Handles == Pairs \cup Simple \cup Callbacks \cup {leveldb_env_t}
Types == Handles \cup Reps \cup {"Env", "State", "message", "value"}

Holds(h) == h \in client.hands
Alloc(S) == [t \in Types |-> heap[t] + (IF t \in S THEN 1 ELSE 0)]
Free(S) == [t \in Types |-> heap[t] - (IF t \in S THEN 1 ELSE 0)]
\* The client does not destroy what one of these refers to.
Referred(t) == \E r \in DOMAIN refs : t \in refs[r]

-----------------------------------------------------------------------------
Init ==
    /\ heap = [t \in Types |-> IF t = "Env" THEN 1 ELSE 0]
    /\ refs = [r \in {"leveldb_options_t", "leveldb_readoptions_t", "DB", "Iterator", "Snapshot"} |-> {}]
    /\ client = [hands |-> {}, err |-> None]
    /\ told = None

Give(h) == client' = [client EXCEPT !.hands = @ \cup {h}]
TakeBack(h) == client' = [client EXCEPT !.hands = @ \ {h}]

\* A failure frees the message the client has not taken yet.
RenewedKeepsOld == Alloc({"message"})
Renewed == IF client.err = None THEN Alloc({"message"}) ELSE heap

SaveError(op) ==
    /\ heap' = Renewed
    /\ client' = [client EXCEPT !.err = op]
    /\ told' = op
    /\ UNCHANGED refs

leveldb_create(h) ==
    /\ h \in Simple \cup {leveldb_env_t} /\ ~Holds(h)
    /\ heap' = Alloc({h}) /\ Give(h)
    /\ UNCHANGED <<refs, told>>

\* env_destroy deletes the handle, never the default Env.
leveldb_destroy(h) ==
    /\ h \in Simple \cup {leveldb_env_t} /\ Holds(h)
    /\ heap' = Free({h}) /\ TakeBack(h)
    /\ refs' = [r \in DOMAIN refs |-> IF r = h THEN {} ELSE refs[r]]
    /\ UNCHANGED told

\* comparator_create, filterpolicy_create: the object keeps the client's state and destructor.
leveldb_callbacks_create(h) ==
    /\ h \in Callbacks /\ ~Holds(h)
    /\ heap' = Alloc({h, "State"}) /\ Give(h)
    /\ UNCHANGED <<refs, told>>

\* The virtual destructor calls the client's.
Destructed(h) == {h, "State"}

leveldb_callbacks_destroy(h) ==
    /\ h \in Callbacks /\ Holds(h) /\ ~Referred(h)
    /\ heap' = Free(Destructed(h)) /\ TakeBack(h)
    /\ UNCHANGED <<refs, told>>

\* filterpolicy_create_bloom and cache_create_lru.
leveldb_pair_create(h) ==
    /\ h \in {"Wrapper", "leveldb_cache_t"} /\ ~Holds(h)
    /\ heap' = Alloc({h, rep[h]}) /\ Give(h)
    /\ UNCHANGED <<refs, told>>

\* What options refer to: the comparator or policy object, and the cache itself, not its handle.
Option(h) == IF h = "leveldb_cache_t" THEN rep[h] ELSE h

\* ~Wrapper deletes rep_ and the base class then calls DoNothing; cache_destroy deletes the cache and its handle.
PairDeleted(h) == {h, rep[h]}

leveldb_pair_destroy(h) ==
    /\ h \in {"Wrapper", "leveldb_cache_t"} /\ Holds(h) /\ ~Referred(Option(h))
    /\ heap' = Free(PairDeleted(h)) /\ TakeBack(h)
    /\ UNCHANGED <<refs, told>>

leveldb_options_set(h) ==
    /\ Holds("leveldb_options_t") /\ Holds(h) /\ h \in Callbacks \cup {"Wrapper", "leveldb_cache_t"}
    /\ refs' = [refs EXCEPT !["leveldb_options_t"] = @ \cup {Option(h)}]
    /\ UNCHANGED <<heap, client, told>>

leveldb_readoptions_set_snapshot(s) ==
    /\ Holds("leveldb_readoptions_t") /\ s \in {None} \cup (client.hands \cap {"leveldb_snapshot_t"})
    /\ refs' = [refs EXCEPT !["leveldb_readoptions_t"] = IF s = None THEN {} ELSE {rep[s]}]
    /\ UNCHANGED <<heap, client, told>>

-----------------------------------------------------------------------------
\* The database copies the options: it refers to what they refer to, not to them.
CopiedByAddress == {"leveldb_options_t"}
Copied == refs["leveldb_options_t"]

leveldb_open ==
    /\ Holds("leveldb_options_t") /\ ~Holds("leveldb_t")
    /\ heap' = Alloc({"leveldb_t", "DB"}) /\ Give("leveldb_t")
    /\ refs' = [refs EXCEPT !["DB"] = Copied]
    /\ UNCHANGED told

\* DB::Open has deleted the database; the handle is made after the status is looked at.
leveldb_open_fails == Holds("leveldb_options_t") /\ ~Holds("leveldb_t") /\ SaveError("open")

\* The client has deleted the iterators and released the snapshots.
leveldb_close ==
    /\ Holds("leveldb_t") /\ ~Referred("DB")
    /\ heap' = Free({"leveldb_t", "DB"}) /\ TakeBack("leveldb_t")
    /\ refs' = [refs EXCEPT !["DB"] = {}]
    /\ UNCHANGED told

\* put, delete and write; a success leaves *errptr as it is.
leveldb_write_fails == Holds("leveldb_t") /\ SaveError("write")

\* repair_db and destroy_db, on a database that is not open.
leveldb_repair_fails == Holds("leveldb_options_t") /\ ~Holds("leveldb_t") /\ SaveError("repair")
leveldb_destroy_db_fails == Holds("leveldb_options_t") /\ ~Holds("leveldb_t") /\ SaveError("destroy")

\* malloc and memcpy, or strdup: a copy that the client gives to leveldb_free
CopyString ==
    /\ ~Holds("value")
    /\ heap' = Alloc({"value"}) /\ Give("value")
    /\ UNCHANGED <<refs, told>>

leveldb_get_found == Holds("leveldb_t") /\ CopyString

\* NULL, and no error, for a property that is not known or a directory that cannot be made
leveldb_property_value(known) ==
    /\ Holds("leveldb_t")
    /\ IF known THEN CopyString ELSE UNCHANGED <<heap, refs, client, told>>

leveldb_env_get_test_directory(made) ==
    /\ Holds(leveldb_env_t)
    /\ IF made THEN CopyString ELSE UNCHANGED <<heap, refs, client, told>>

\* A key that is not found is no error.
ReportedUnlessOk(s) == s # "ok"
Reported(s) == s = "error"

leveldb_get_fails(s) ==
    /\ Holds("leveldb_t")
    /\ IF Reported(s) THEN heap' = Renewed /\ client' = [client EXCEPT !.err = "get"] ELSE UNCHANGED <<heap, client>>
    /\ told' = IF s = "error" THEN "get" ELSE told
    /\ UNCHANGED refs

\* create_iterator and create_snapshot.
leveldb_child_create(h) ==
    /\ h \in {"leveldb_iterator_t", "leveldb_snapshot_t"} /\ ~Holds(h) /\ Holds("leveldb_t")
    /\ heap' = Alloc({h, rep[h]}) /\ Give(h)
    /\ refs' = [refs EXCEPT ![rep[h]] = {"DB"}]
    /\ UNCHANGED told

leveldb_iter_get_error == Holds("leveldb_iterator_t") /\ SaveError("iterator")

\* iter_destroy and release_snapshot; the client has taken the snapshot out of its options.
leveldb_child_destroy(h) ==
    /\ h \in {"leveldb_iterator_t", "leveldb_snapshot_t"} /\ Holds(h) /\ ~Referred(rep[h])
    /\ heap' = Free({h, rep[h]}) /\ TakeBack(h)
    /\ refs' = [refs EXCEPT ![rep[h]] = {}]
    /\ UNCHANGED told

leveldb_free == Holds("value") /\ heap' = Free({"value"}) /\ TakeBack("value") /\ UNCHANGED <<refs, told>>

\* The client reads the message, frees it and sets *errptr to NULL.
TakeError ==
    /\ client.err # None
    /\ heap' = Free({"message"})
    /\ client' = [client EXCEPT !.err = None]
    /\ told' = None
    /\ UNCHANGED refs

Next ==
    \/ \E h \in Handles :
          \/ leveldb_create(h) \/ leveldb_destroy(h)
          \/ leveldb_callbacks_create(h) \/ leveldb_callbacks_destroy(h)
          \/ leveldb_pair_create(h) \/ leveldb_pair_destroy(h)
          \/ leveldb_child_create(h) \/ leveldb_child_destroy(h)
          \/ leveldb_options_set(h)
    \/ \E s \in {None, "leveldb_snapshot_t"} : leveldb_readoptions_set_snapshot(s)
    \/ leveldb_open \/ leveldb_open_fails \/ leveldb_close \/ leveldb_write_fails
    \/ leveldb_repair_fails \/ leveldb_destroy_db_fails \/ leveldb_get_found
    \/ \E ok \in BOOLEAN : leveldb_property_value(ok) \/ leveldb_env_get_test_directory(ok)
    \/ \E s \in {"notfound", "error"} : leveldb_get_fails(s)
    \/ leveldb_iter_get_error \/ leveldb_free \/ TakeError

Spec == Init /\ [][Next]_<<heap, refs, client, told>>

-----------------------------------------------------------------------------
(* Counts of objects, and what the client holds.                            *)
TypeOK ==
    /\ heap \in [Types -> Nat]
    /\ \A r \in DOMAIN refs : refs[r] \subseteq Types
    /\ client.hands \subseteq Handles \cup {"value"}

\* What the client can give back: its handles, what they own, the message.
Reachable ==
    client.hands \cup {rep[h] : h \in client.hands \cap Pairs} \cup {"Env"}
        \cup (IF client.hands \cap Callbacks # {} THEN {"State"} ELSE {})
        \cup (IF client.err # None THEN {"message"} ELSE {})

(* What the interface has allocated and not freed is held by the client or   *)
(* owned by what it holds, after any sequence of calls and failures: giving  *)
(* back the handles frees all, the client's own state through its            *)
(* destructor, and nothing is freed twice; the default Env stays.            *)
NothingLost == \A t \in Types : heap[t] = IF t \in Reachable THEN 1 ELSE 0

(* No object points to freed memory under any order of destruction that c.h  *)
(* allows: a database lives on without the options it was opened with, and   *)
(* an iterator without the read options.                                     *)
PointersLive == \A r \in DOMAIN refs : \A t \in refs[r] : heap[t] > 0

(* *errptr tells the last failure since the client took a message; a success *)
(* and a key that is not found leave it.                                     *)
ErrorTold == client.err = told
=============================================================================
