------------------------------ MODULE DbOptions ------------------------------
(***************************************************************************)
(* The options of a leveldb database: what a client sets (c.cc, options.h)   *)
(* and what SanitizeOptions and the constructor of DBImpl make of it.        *)
(* Several databases may be opened with the same options and so share the    *)
(* client's block cache and logger; each one makes its own where the client  *)
(* has given none, and its destructor deletes those.                         *)
(*                                                                         *)
(* One size_t option stands for write_buffer_size, max_file_size and         *)
(* block_size, which are clipped alike.                                      *)
(***************************************************************************)
EXTENDS Integers, FiniteSets, TLC, Functions

CONSTANTS Databases,
          IntBits,                \* bits of an int, 32 in the code
          MinSize, MaxSize,       \* 64 << 10 and 1 << 30 in the code
          GivenSizes,             \* sizes a client may set; a number of files goes with each
          MinFiles, MaxFiles,     \* 64 and 50000 in the code
          kNumNonTableCacheFiles

VARIABLES
    opt,       \* the client's options: write_buffer_size, max_open_files, block_cache, info_log
    db,        \* open database |-> its options_; asked: history, the size the client had set
    live,      \* the caches and loggers on the heap
    gone       \* history: what was deleted when it was not on the heap

Null == "null"
Client == "client"                      \* what the client made
Kinds == {"cache", "log"}
Owners == {Client} \cup Databases
GivenFiles(v) == IF v < 2 ^ (IntBits - 1) THEN MaxFiles + 1 ELSE -1

-----------------------------------------------------------------------------
\* static_cast<int> of a size_t keeps the low bits.
Cast(v) == LET low == v % 2 ^ IntBits IN IF low >= 2 ^ (IntBits - 1) THEN low - 2 ^ IntBits ELSE low

AtMost(v, high) == IF Cast(v) > high THEN high ELSE v
AtLeast(v, low) == IF Cast(v) < low THEN low ELSE v

ClipLow(v, low, high) == AtLeast(v, low)

ClipToRange(v, low, high) == AtLeast(AtMost(v, high), low)

\* The logger cannot always be opened; it is then left out.
SanitizeOptions(d, logged) ==
    [write_buffer_size |-> ClipToRange(opt.write_buffer_size, MinSize, MaxSize),
     max_open_files |-> ClipToRange(opt.max_open_files, MinFiles + kNumNonTableCacheFiles, MaxFiles),
     cache |-> IF opt.cache = Null THEN d ELSE opt.cache,
     log |-> IF opt.log # Null THEN opt.log ELSE IF logged THEN d ELSE Null,
     asked |-> opt.write_buffer_size]

TableCacheSize(options) == options.max_open_files - kNumNonTableCacheFiles

OwnsAll(d) == {k \in Kinds : db[d][k] # Null}

\* owns_info_log_, owns_cache_: what is not the object the client passed.
Owns(d) == {k \in Kinds : db[d][k] = d}

Delete(objects) == live' = live \ objects /\ gone' = gone \cup (objects \ live)

-----------------------------------------------------------------------------
Init ==
    /\ opt = [write_buffer_size |-> MinSize, max_open_files |-> MinFiles + kNumNonTableCacheFiles,
              cache |-> Null, log |-> Null]
    /\ db = [d \in {} |-> opt]
    /\ live = Kinds \X {Client} /\ gone = {}

\* The setters of the sizes and of max_open_files, one after the other.
leveldb_options_set_numbers(v) ==
    /\ opt' = [opt EXCEPT !.write_buffer_size = v, !.max_open_files = GivenFiles(v)]
    /\ UNCHANGED <<db, live, gone>>

\* set_cache and set_info_log, or an assignment to the fields of Options.
leveldb_options_set(k, o) == opt' = [opt EXCEPT ![k] = o] /\ UNCHANGED <<db, live, gone>>

Made(d, options) == {<<k, d>> : k \in {k \in Kinds : options[k] = d}}

\* The constructor; DB::Open deletes the database again when Recover fails, which is a Close.
Open(d, logged) ==
    /\ d \notin DOMAIN db
    /\ db' = db @@ (d :> SanitizeOptions(d, logged))
    /\ live' = live \cup Made(d, SanitizeOptions(d, logged))
    /\ UNCHANGED <<opt, gone>>

\* The destructor of DBImpl: the table cache first, which has blocks in the block cache.
Close(d) ==
    /\ d \in DOMAIN db
    /\ Delete({<<k, db[d][k]>> : k \in Owns(d)})
    /\ db' = Restrict(db, DOMAIN db \ {d})
    /\ UNCHANGED opt

Next ==
    \/ \E v \in GivenSizes : leveldb_options_set_numbers(v)
    \/ \E k \in Kinds, o \in {Null, Client} : leveldb_options_set(k, o)
    \/ \E d \in Databases : (\E logged \in BOOLEAN : Open(d, logged)) \/ Close(d)

Spec == Init /\ [][Next]_<<opt, db, live, gone>>

-----------------------------------------------------------------------------
\* Options: two numbers, and the cache and the logger of some owner.
IsOptions(o) ==
    /\ o.write_buffer_size \in Nat /\ o.max_open_files \in Int
    /\ o.cache \in Owners \cup {Null} /\ o.log \in Owners \cup {Null}

(* The options of an open database.                                         *)
TypeOK ==
    /\ IsOptions(opt) /\ opt.cache \in {Client, Null} /\ opt.log \in {Client, Null}
    /\ \A d \in DOMAIN db : IsOptions(db[d]) /\ db[d].cache # Null

(* A size that an int can hold is brought into its range, and the table      *)
(* cache has at least MinFiles places; a larger size is compared by its low  *)
(* bits only: it becomes the least or the greatest size, or stays as it is   *)
(* when the low bits happen to lie in the range.                             *)
Clipped ==
    \A d \in DOMAIN db :
        /\ db[d].asked < 2 ^ (IntBits - 1) => db[d].write_buffer_size \in MinSize .. MaxSize
        /\ db[d].write_buffer_size \in MinSize .. MaxSize \cup {db[d].asked}
        /\ TableCacheSize(db[d]) \in MinFiles .. MaxFiles

(* An open database never uses a cache or a logger that is gone, however     *)
(* databases that share them are opened and closed; what a database made is  *)
(* gone with it, nothing is deleted twice, and the client keeps its own.     *)
SharedKept ==
    /\ \A d \in DOMAIN db, k \in Kinds : db[d][k] # Null => <<k, db[d][k]>> \in live
    /\ \A o \in live : o[2] = Client \/ (o[2] \in DOMAIN db /\ db[o[2]][o[1]] = o[2])
    /\ Kinds \X {Client} \subseteq live /\ gone = {}
=============================================================================
