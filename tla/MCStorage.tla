----------------------------- MODULE MCStorage -----------------------------
(***************************************************************************)
(* The parts of the system that share no state with any other, in one         *)
(* model: the behaviours of MCStorage are those of each part on its own.       *)
(***************************************************************************)
EXTENDS Integers, Sequences, FiniteSets

CONSTANTS
    IdBase, TimeDigits, RandDigits, MaxTime, MaxIds,             \* PushId
    BlockSize, Sizes, MaxRecords, Offsets,                       \* LogFile
    MaxWrites, MaxJobs, MaxCrashes,                              \* DBFiles
    CacheThreads, CacheReaders, CacheKeys, Charges, Capacities, MaxEntries, MaxCleanups,    \* LRUCache
    Users, MaxSeq, kMaxHeight, MemReaders,                       \* MemTable
    ArenaBlock, Align, PieceSizes, MaxPieces,                    \* Arena
    IterUsers, SnapshotSeq, MaxAdds,                                \* DBIter
    MaxByte, MaxTag, ValueSizes, block_size, restart_interval, FilterBase, TableEntries,   \* TableFile
    BufferSize, AppendSizes, MaxBytes,                           \* PosixFile
    FileThreads, kDefaultMmapLimit, Settings, Rlimits, UnknownLimit, Infinite, Fallback, MaxInt, MaxHeld,   \* PosixLimits
    Processes, LockThreads, NoProcess, MaxCalls,                 \* PosixLocks
    MaxItems,                                                    \* PosixThread
    GroupBits, Width32, Width64, kNumLevels, NameDigits, Ten, LookupSpace,        \* Codec
    Seqs, LogNumbers, TableNumbers, MaxNumber, MaxFaults,        \* Repair
    ByteBits, kPoly, kMaskDelta, MaskShift, RecordLengths, CutsAt, Changes,   \* Crc32c
    U, ByteValues, KeyLengths, MaxData,                          \* Base64
    FieldSizes, RawMax, MaxFields, MaxWritten, Room,             \* NanopbHooks
    BucketWidth, kNumBuckets, Sentinel, Samples, MaxSamples,     \* Histogram
    kStackBufferSize, HeaderSizes, MaxMessage, MaxLines,         \* PosixLogger
    Tiers, MaxEvents, MaxPackages, MaxBackgrounds,               \* Transport
    Images, DemandBuffer, Granularity, Leftover, MinIntervals, MaxInterval, MaxUploadFaults,   \* Upload
    HashKeys, EntriesPerKey,                                           \* HandleTable
    Objects, MessageSizes,                                           \* StatusObject
    Items, MaxOpens, MaxCuts,                                    \* DestroyDb
    Fetchers, Backgrounds, MaxPerHost, MaxDispatchers, MaxTimers,   \* FetchService
    StoreKeys, Deleted, MaxBatch, MaxLast,                       \* CStore
    Databases, IntBits, MinSize, MaxSize, GivenSizes, MinFiles, MaxFiles, kNumNonTableCacheFiles,   \* DbOptions
    Receivers, TableCells, MaxChats, MaxLookups,                 \* RecentChats
    MaxUsers, MaxScreens,                                        \* Directory
    MaxShown, MaxQuestions                                       \* Inspect

\* PushId: the timestamp fits its digits, in the code until the year 10889.
ASSUME PushIdAssumption ==
    /\ IdBase \in Nat \ {0, 1}
    /\ TimeDigits \in Nat \ {0} /\ RandDigits \in Nat \ {0}
    /\ MaxTime \in Nat /\ MaxTime < IdBase ^ TimeDigits
    /\ MaxIds \in Nat

\* TableFile: keys that share prefixes, and some with the largest byte.
TableUsers == {<<1>>, <<1, 2>>, <<1, 1, 3>>, <<2>>, <<3, 3>>}

VARIABLES
    part,   \* the part that is running
    s1, s2, s3, s4, s5, s6, s7   \* its variables, in the order of the INSTANCE below; the rest are unused

storage == <<part, s1, s2, s3, s4, s5, s6, s7>>

Ids == INSTANCE PushId WITH
    clock <- s1, lastPushTime <- s2, lastRandChars <- s3, ids <- s4, epochs <- s5, epoch <- s6,
    Base <- IdBase
Log == INSTANCE LogFile WITH
    log <- s1, records <- s2, left <- s3, fault <- s4, reader <- s5, got <- s6, reported <- s7
Files == INSTANCE DBFiles WITH files <- s1, CURRENT <- s2, db <- s3, past <- s4
Cache == INSTANCE LRUCache WITH cache <- s1, user <- s2
Mem == INSTANCE MemTable WITH link <- s1, max_height <- s2, adding <- s3, last_seq <- s4, walk <- s5
Arenas == INSTANCE Arena WITH arena <- s1, pieces <- s2
Iter == INSTANCE DBIter WITH mem <- s1, blocks <- s2, deletions <- s3, it <- s4, moved <- s5
Tables == INSTANCE TableFile WITH tb <- s1, added <- s2, bad <- s3
Proto == INSTANCE Nanopb WITH pb <- s1
File == INSTANCE PosixFile WITH disk <- s1, wf <- s2, rd <- s3, calls <- s4
Limits == INSTANCE PosixLimits WITH allowed <- s1, opener <- s2, held <- s3, env <- s4
Locks == INSTANCE PosixLocks WITH locked <- s1, owner <- s2, locker <- s3, stray <- s4
Thread == INSTANCE PosixThread WITH work <- s1, thread <- s2, past <- s3
Code == INSTANCE Codec WITH wire <- s1
C == INSTANCE CApi WITH heap <- s1, refs <- s2, client <- s3, told <- s4
Rep == INSTANCE Repair WITH
    logs <- s1, tables <- s2, lost <- s3, manifest <- s4, rp <- s5, past <- s6
Crc == INSTANCE Crc32c WITH tables <- s1, record <- s2
B64 == INSTANCE Base64 WITH b64 <- s1
Hooks == INSTANCE NanopbHooks WITH msg <- s1, in <- s2, hooks <- s3, out <- s4
Hist == INSTANCE Histogram WITH hist <- s1, sampled <- s2
Logger == INSTANCE PosixLogger WITH logv <- s1, infolog <- s2
Transports == INSTANCE Transport WITH
    q <- s1, stored <- s2, prio <- s3, coord <- s4, uploader <- s5, packages <- s6, app <- s7
Uploads == INSTANCE Upload WITH
    up <- s1, fetch <- s2, main <- s3, wire <- s4, server <- s5, answers <- s6, mishaps <- s7
Hashed == INSTANCE HandleTable WITH length_ <- s1, elems_ <- s2, list_ <- s3, held <- s4
Statuses == INSTANCE StatusObject WITH state_ <- s1, arrays <- s2, meant <- s3
Destroys == INSTANCE DestroyDb WITH dir <- s1, lockfile <- s2, db <- s3, destroy <- s4, past <- s5
Service == INSTANCE FetchService WITH
    service <- s1, fetcher <- s2, dispatcher <- s3, timers <- s4, past <- s5
Stores == INSTANCE CStore WITH
    batch <- s1, last <- s2, entries <- s3, snap <- s4, iter <- s5, past <- s6
Opts == INSTANCE DbOptions WITH opt <- s1, db <- s2, live <- s3, gone <- s4
Chats == INSTANCE RecentChats WITH
    chats <- s1, table <- s2, username <- s3, lookups <- s4, last <- s5
Directories == INSTANCE Directory WITH screens <- s1, view <- s2, raised <- s3, stored <- s4
Look == INSTANCE Inspect WITH looked <- s1, dump <- s2

Parts ==
    {"ids", "log", "files", "cache", "mem", "arena", "iter", "table", "proto", "file",
    "limits", "locks", "thread", "codec", "capi", "repair", "crc", "base64", "hooks", "hist",
    "logger", "transport", "upload", "handles", "status", "destroy", "service", "cstore",
    "options", "chats", "users", "inspect"}

-----------------------------------------------------------------------------
Init ==
    /\ part \in Parts
    /\ \/ part = "ids" /\ Ids!Init /\ s7 = 0
       \/ part = "log" /\ Log!Init
       \/ part = "files" /\ Files!Init /\ s5 = 0 /\ s6 = 0 /\ s7 = 0
       \/ part = "cache" /\ Cache!Init /\ s3 = 0 /\ s4 = 0 /\ s5 = 0 /\ s6 = 0 /\ s7 = 0
       \/ part = "mem" /\ Mem!Init /\ s6 = 0 /\ s7 = 0
       \/ part = "arena" /\ Arenas!Init /\ s3 = 0 /\ s4 = 0 /\ s5 = 0 /\ s6 = 0 /\ s7 = 0
       \/ part = "iter" /\ Iter!Init /\ s6 = 0 /\ s7 = 0
       \/ part = "table" /\ Tables!Init /\ s4 = 0 /\ s5 = 0 /\ s6 = 0 /\ s7 = 0
       \/ part = "proto" /\ Proto!Init /\ s2 = 0 /\ s3 = 0 /\ s4 = 0 /\ s5 = 0 /\ s6 = 0 /\ s7 = 0
       \/ part = "file" /\ File!Init /\ s5 = 0 /\ s6 = 0 /\ s7 = 0
       \/ part = "limits" /\ Limits!Init /\ s5 = 0 /\ s6 = 0 /\ s7 = 0
       \/ part = "locks" /\ Locks!Init /\ s5 = 0 /\ s6 = 0 /\ s7 = 0
       \/ part = "thread" /\ Thread!Init /\ s4 = 0 /\ s5 = 0 /\ s6 = 0 /\ s7 = 0
       \/ part = "codec" /\ Code!Init /\ s2 = 0 /\ s3 = 0 /\ s4 = 0 /\ s5 = 0 /\ s6 = 0 /\ s7 = 0
       \/ part = "capi" /\ C!Init /\ s5 = 0 /\ s6 = 0 /\ s7 = 0
       \/ part = "repair" /\ Rep!Init /\ s7 = 0
       \/ part = "crc" /\ Crc!Init /\ s3 = 0 /\ s4 = 0 /\ s5 = 0 /\ s6 = 0 /\ s7 = 0
       \/ part = "base64" /\ B64!Init /\ s2 = 0 /\ s3 = 0 /\ s4 = 0 /\ s5 = 0 /\ s6 = 0 /\ s7 = 0
       \/ part = "hooks" /\ Hooks!Init /\ s5 = 0 /\ s6 = 0 /\ s7 = 0
       \/ part = "hist" /\ Hist!Init /\ s3 = 0 /\ s4 = 0 /\ s5 = 0 /\ s6 = 0 /\ s7 = 0
       \/ part = "logger" /\ Logger!Init /\ s3 = 0 /\ s4 = 0 /\ s5 = 0 /\ s6 = 0 /\ s7 = 0
       \/ part = "transport" /\ Transports!Init
       \/ part = "upload" /\ Uploads!Init
       \/ part = "handles" /\ Hashed!Init /\ s5 = 0 /\ s6 = 0 /\ s7 = 0
       \/ part = "status" /\ Statuses!Init /\ s4 = 0 /\ s5 = 0 /\ s6 = 0 /\ s7 = 0
       \/ part = "destroy" /\ Destroys!Init /\ s6 = 0 /\ s7 = 0
       \/ part = "service" /\ Service!Init /\ s6 = 0 /\ s7 = 0
       \/ part = "cstore" /\ Stores!Init /\ s7 = 0
       \/ part = "options" /\ Opts!Init /\ s5 = 0 /\ s6 = 0 /\ s7 = 0
       \/ part = "chats" /\ Chats!Init /\ s6 = 0 /\ s7 = 0
       \/ part = "users" /\ Directories!Init /\ s5 = 0 /\ s6 = 0 /\ s7 = 0
       \/ part = "inspect" /\ Look!Init /\ s3 = 0 /\ s4 = 0 /\ s5 = 0 /\ s6 = 0 /\ s7 = 0

Next ==
    /\ UNCHANGED part
    /\ \/ part = "ids" /\ Ids!Next /\ UNCHANGED s7
       \/ part = "log" /\ Log!Next
       \/ part = "files" /\ Files!Next /\ UNCHANGED <<s5, s6, s7>>
       \/ part = "cache" /\ Cache!Next /\ UNCHANGED <<s3, s4, s5, s6, s7>>
       \/ part = "mem" /\ Mem!Next /\ UNCHANGED <<s6, s7>>
       \/ part = "arena" /\ Arenas!Next /\ UNCHANGED <<s3, s4, s5, s6, s7>>
       \/ part = "iter" /\ Iter!Next /\ UNCHANGED <<s6, s7>>
       \/ part = "table" /\ Tables!Next /\ UNCHANGED <<s4, s5, s6, s7>>
       \/ part = "proto" /\ Proto!Next /\ UNCHANGED <<s2, s3, s4, s5, s6, s7>>
       \/ part = "file" /\ File!Next /\ UNCHANGED <<s5, s6, s7>>
       \/ part = "limits" /\ Limits!Next /\ UNCHANGED <<s5, s6, s7>>
       \/ part = "locks" /\ Locks!Next /\ UNCHANGED <<s5, s6, s7>>
       \/ part = "thread" /\ Thread!Next /\ UNCHANGED <<s4, s5, s6, s7>>
       \/ part = "codec" /\ Code!Next /\ UNCHANGED <<s2, s3, s4, s5, s6, s7>>
       \/ part = "capi" /\ C!Next /\ UNCHANGED <<s5, s6, s7>>
       \/ part = "repair" /\ Rep!Next /\ UNCHANGED s7
       \/ part = "crc" /\ Crc!Next /\ UNCHANGED <<s3, s4, s5, s6, s7>>
       \/ part = "base64" /\ B64!Next /\ UNCHANGED <<s2, s3, s4, s5, s6, s7>>
       \/ part = "hooks" /\ Hooks!Next /\ UNCHANGED <<s5, s6, s7>>
       \/ part = "hist" /\ Hist!Next /\ UNCHANGED <<s3, s4, s5, s6, s7>>
       \/ part = "logger" /\ Logger!Next /\ UNCHANGED <<s3, s4, s5, s6, s7>>
       \/ part = "transport" /\ Transports!Next
       \/ part = "upload" /\ Uploads!Next
       \/ part = "handles" /\ Hashed!Next /\ UNCHANGED <<s5, s6, s7>>
       \/ part = "status" /\ Statuses!Next /\ UNCHANGED <<s4, s5, s6, s7>>
       \/ part = "destroy" /\ Destroys!Next /\ UNCHANGED <<s6, s7>>
       \/ part = "service" /\ Service!Next /\ UNCHANGED <<s6, s7>>
       \/ part = "cstore" /\ Stores!Next /\ UNCHANGED s7
       \/ part = "options" /\ Opts!Next /\ UNCHANGED <<s5, s6, s7>>
       \/ part = "chats" /\ Chats!Next /\ UNCHANGED <<s6, s7>>
       \/ part = "users" /\ Directories!Next /\ UNCHANGED <<s5, s6, s7>>
       \/ part = "inspect" /\ Look!Next /\ UNCHANGED <<s3, s4, s5, s6, s7>>

Spec == Init /\ [][Next]_storage

-----------------------------------------------------------------------------
(* Each part's variables have their types while it runs.                    *)
TypeOK ==
    /\ part = "ids" => Ids!TypeOK
    /\ part = "log" => Log!TypeOK
    /\ part = "files" => Files!TypeOK
    /\ part = "cache" => Cache!TypeOK
    /\ part = "mem" => Mem!TypeOK
    /\ part = "arena" => Arenas!TypeOK
    /\ part = "iter" => Iter!TypeOK
    /\ part = "table" => Tables!TypeOK
    /\ part = "proto" => Proto!TypeOK
    /\ part = "file" => File!TypeOK
    /\ part = "limits" => Limits!TypeOK
    /\ part = "locks" => Locks!TypeOK
    /\ part = "thread" => Thread!TypeOK
    /\ part = "codec" => Code!TypeOK
    /\ part = "capi" => C!TypeOK
    /\ part = "repair" => Rep!TypeOK
    /\ part = "crc" => Crc!TypeOK
    /\ part = "base64" => B64!TypeOK
    /\ part = "hooks" => Hooks!TypeOK
    /\ part = "hist" => Hist!TypeOK
    /\ part = "logger" => Logger!TypeOK
    /\ part = "transport" => Transports!TypeOK
    /\ part = "upload" => Uploads!TypeOK
    /\ part = "handles" => Hashed!TypeOK
    /\ part = "status" => Statuses!TypeOK
    /\ part = "destroy" => Destroys!TypeOK
    /\ part = "service" => Service!TypeOK
    /\ part = "cstore" => Stores!TypeOK
    /\ part = "options" => Opts!TypeOK
    /\ part = "chats" => Chats!TypeOK
    /\ part = "users" => Directories!TypeOK
    /\ part = "inspect" => Look!TypeOK

(* leveldb's log (log_writer.cc, log_reader.cc): what was written is read   *)
(* back, nothing else is ever returned, a fault costs no record of another  *)
(* block, and a record it does cost is reported, unless it looks like a     *)
(* write that a crash cut short, in the last block, or like a header of     *)
(* zeros.                                                                   *)
LogIntact ==
    /\ part = "log" => /\ Log!ReadsBack /\ Log!NoForgery /\ Log!FaultContained /\ Log!LossReported

(* leveldb's files over crashes and failed calls: what is owed to clients   *)
(* is visible after every Open (DB::Open, LogAndApply,                      *)
(* DeleteObsoleteFiles), RepairDB keeps every entry that can be read and    *)
(* describes only what is there, and DestroyDB, when it can list the files, *)
(* deletes everything or says that it has not, and never an open database.  *)
(* (A listing that fails is masked: OK is returned, as db.h warns.)         *)
CrashSafe ==
    /\ part = "files" => /\ Files!OwedVisible /\ Files!SequencesUnique /\ Files!LiveFilesKept
                         /\ Files!OpensAgain
    /\ part = "repair" => /\ Rep!EntriesKept /\ Rep!Salvaged /\ Rep!DescriptorSound
    /\ part = "destroy" => /\ Destroys!DestroyedAll /\ Destroys!OpenKept

(* leveldb's Env on POSIX (env_posix.cc, env.cc, posix_logger.h): files     *)
(* hold what was appended, once and in order, although calls write or read  *)
(* less than asked or fail; limits on descriptors and maps are kept and     *)
(* given back; one holder of a lock in a process, and one process, until a  *)
(* second call of LockFile in it is refused and closes its descriptor,      *)
(* which gives the lock of the first away; background work runs once, in    *)
(* order, with nobody asleep over it; lines of the log are whole.           *)
EnvSound ==
    /\ part = "file" => /\ File!FileExact /\ File!NeverTwice /\ File!SyncKept /\ File!ReadsWhole
    /\ part = "limits" => /\ Limits!LimitsHeld /\ Limits!AllGivenBack
    /\ part = "locks" => /\ Locks!OneHolder /\ Locks!NoNameLeft
    /\ part = "thread" => /\ Thread!NoSleepOverWork /\ Thread!OnceInOrder
    /\ part = "logger" => Logger!LinesWhole

(* leveldb's structures in memory: the cache frees no entry in use, loses   *)
(* none of its lists and drops the oldest first (cache.cc); its hash table  *)
(* finds what is in it; readers of the skip list meet only finished nodes   *)
(* and find the newest entry while a writer links another (skiplist.h,      *)
(* memtable.cc); pieces of the arena never overlap (arena.cc).              *)
MemorySound ==
    /\ part = "cache" => /\ Cache!HandlesValid /\ Cache!ListsAgree /\ Cache!OldestFirst
    /\ part = "handles" => /\ Hashed!LookupExact /\ Hashed!ChainsCounted
    /\ part = "mem" => /\ Mem!ReadersSafe /\ Mem!SearchExact /\ Mem!GetNewest
    /\ part = "arena" => Arenas!PiecesApart

(* Reading leveldb: an iterator is where the sorted map of its snapshot     *)
(* says after any moves in any order (db_iter.cc, merger.cc,                *)
(* two_level_iterator.cc); a table gives back every key that was added and  *)
(* no other (table.cc, block.cc, filter_block.cc); what cannot be read is   *)
(* an error, never an absent key; a dump shows every record and complains   *)
(* of each that it cannot read (dumpfile.cc), and properties agree with the *)
(* version (db_impl.cc).                                                    *)
ReadsExact ==
    /\ part = "iter" => /\ Iter!MovesExact /\ Iter!ErrorsTold
    /\ part = "table" => /\ Tables!GetExact /\ Tables!DamageTold /\ Tables!ScanExact
    /\ part = "inspect" => /\ Look!DumpTells /\ Look!PropertiesAgree

(* What is encoded is decoded: version edits, varints, batches, file names  *)
(* and lookup keys of leveldb at the edges of their widths.  Cut short they *)
(* are refused, except a version edit cut between two fields, which decodes *)
(* as the fields before the cut: only the log's checksum tells.  CRC-32C by *)
(* strides and its mask; the base64 of the web socket's handshake; merged   *)
(* histograms.                                                              *)
CodecsExact ==
    /\ part = "codec" => /\ Code!EditsReadBack /\ Code!CutEditsTold /\ Code!EditsFit
                         /\ Code!VarintsReadBack /\ Code!BatchesReadBack /\ Code!NamesParse
                         /\ Code!LookupsFit
    /\ part = "crc" => /\ Crc!ExtendExact /\ Crc!DamageSeen
    /\ part = "base64" => /\ B64!TextReadBack /\ B64!OneTextEach /\ B64!TargetHeld
                          /\ B64!HandshakeEncodes
    /\ part = "hist" => /\ Hist!MergeCounts /\ Hist!PercentilesClose /\ Hist!SummaryTrue

(* nanopb (pb_encode.c, pb_decode.c): a message is read back as it was      *)
(* sent, merged when a field comes twice, with every block it allocated     *)
(* released once, whatever the bytes; a number too wide for its field is    *)
(* refused, but a signed one loses what is above 32 bits; with callbacks,   *)
(* extensions and unknown fields the stream is always at the next field.    *)
MessagesExact ==
    /\ part = "proto" => /\ Proto!RoundTrip /\ Proto!SizesAgree /\ Proto!MergeExact
                         /\ Proto!NothingLeaks /\ Proto!DecodedFits /\ Proto!FrameExact
                         /\ Proto!WiderTold
    /\ part = "hooks" => /\ Hooks!FieldsAligned /\ Hooks!TakenOnce /\ Hooks!SubmessagesWhole

(* A client of leveldb: with the C API no object is freed twice, lost or    *)
(* used after it was destroyed, and every failure is told (c.cc); batches   *)
(* take the sequence numbers they count and an iterator shows one moment    *)
(* (write_batch.cc, c.cc); options within int are clipped and shared        *)
(* objects outlive each database (db_impl.cc); a Status owns its text alone *)
(* (status.cc).                                                             *)
ClientSound ==
    /\ part = "capi" => /\ C!NothingLost /\ C!PointersLive /\ C!ErrorTold
    /\ part = "cstore" => /\ Stores!SequencesExact /\ Stores!WalkWhole
    /\ part = "options" => /\ Opts!Clipped /\ Opts!SharedKept
    /\ part = "status" => /\ Statuses!OwnedOnce /\ Statuses!TextKept

(* GoogleDataTransport, with storage, prioritizer, coordinator and uploader *)
(* each on a queue of its own: no package is refused; an event goes out     *)
(* once, whole, unless the coordinator has lost its entry for the package   *)
(* in flight; and none is lost or its file left behind, unless it came      *)
(* during a forced upload, which drops it unsent with the set it shares.    *)
EventsSent ==
    /\ part = "transport" => /\ Transports!SentOnce /\ Transports!NeverRefused
                             /\ Transports!SentWhole /\ Transports!NoneLost
                             /\ Transports!NoFileLeft

(* Upload of the profile picture (GTMSessionUploadFetcher.m,                *)
(* GTMSessionFetcher.m, GTMSessionFetcherService.m): success means that the *)
(* server has all of it, the callback runs once, waits are bounded, no      *)
(* upload is left open; the service's places for a host are used, kept      *)
(* within the limit and given back, and a task runs on a session that is    *)
(* alive.                                                                   *)
UploadSound ==
    /\ part = "upload" => /\ Uploads!SuccessStored /\ Uploads!FinalizedWhole /\ Uploads!ToldOnce
                          /\ Uploads!WaitsShort /\ Uploads!NoneLeftOpen
    /\ part = "service" => /\ Service!SlotsUsed /\ Service!NoneStuck /\ Service!TaskOnLiveSession
                           /\ Service!SessionForTask

(* What the app lists: push ids increase while the clock does not go back   *)
(* (FNextPushId.m), a row of Home shows the name of its own chat from the   *)
(* answer of its lookup until one that an earlier row of the cell waited    *)
(* for overwrites it (HomeViewController.swift), and NewMessage lists every *)
(* user once (NewMessageTableViewController.swift).                         *)
ListsExact ==
    /\ part = "ids" => Ids!Increasing
    /\ part = "chats" => Chats!NameRight
    /\ part = "users" => Directories!UsersOnce

(* No step writes a table of leveldb again that a version still names       *)
(* (version_set.cc, db_impl.cc), and a push id that overruns its random     *)
(* digits within a millisecond starts again at the first (FNextPushId.m).   *)
StepsKept ==
    [][/\ part = "files" => Files!KeepsTables
       /\ part = "ids" => Ids!Restarts]_storage
=============================================================================
