# Verification of the iOS chat app

The app is an iOS client of Firebase. Its own code is 860 lines of Swift under
`src/ChatApp/ChatApp`; the libraries it is built with are vendored under
`src/ChatApp/Pods`: the Firebase SDK (Auth, Storage, Realtime Database), the HTTP
client GTMSessionFetcher, GoogleDataTransport, nanopb and leveldb. This directory
holds TLA+ modules that model the app together with the parts of those libraries
that carry logic, TLC configurations that check them on small instances, and
proofs that hold for every instance.

## Inventory

| Part | State | Operations | Talks to | Hard behaviour |
|---|---|---|---|---|
| LoginViewController | its place in the stack of screens | sign in, alert, open Register | Auth, Home | answers that come late, twice, or after the screen is gone |
| RegisterViewController | picked photo | createUser, putData, downloadURL, updateChildValues; pick a photo; Back | Auth, Storage, database | a chain of four calls; each may fail, be lost or time out, and the process may die between two |
| HomeViewController | `chats`, navigation title, cells | observe `/chats`, sign out, open the other screens | Auth, database | a list fed by asynchronous events; the title read once; cells reused while a lookup is in flight |
| ChatLogViewController | the receiver | send a message | Auth (sender), database | the sender is read at the time of sending; the write may be refused or lost |
| NewMessageTableViewController | `users` | observe `/users`, close | database | an observer that is never removed |
| Auth SDK | current user, keychain | sign in, create, sign out, forced sign-out | keychain, backend | current user set on a work queue, before the completion block on the main queue; a save may fail |
| Storage SDK, GTMSessionUploadFetcher, GTMSessionFetcher | the upload task, its fetcher, chunks, retries | putData: the resumable protocol | backend, main queue | requests that time out here and arrive there later; three queues |
| GTMSessionFetcherService | running and delayed fetchers, the shared session | start, stop, discard the session | fetchers on any thread | a delayed fetcher started by another one's thread; the discard timer |
| Realtime Database SDK | connection, listens, outstanding writes, answers held back, view cache | listen, write, reconnect, raise events | backend, app | lost connections, repeated writes, answers out of order with the listen, refusal by the rules |
| Push ids | last time, last random digits | next id | database | same millisecond, carry, clock set back |
| GoogleDataTransport | stored events, prioritizer, packages in flight | store, upload, archive | four serial queues | late answers, sets shared instead of copied, background time running out |
| nanopb | streams, messages, oneofs, blocks | encode, decode, release | GoogleDataTransport | truncated and repeated fields, ownership of blocks |
| leveldb | memtables, levels, logs, MANIFEST, caches, threads | write, read, iterate, flush, compact, recover, repair, destroy | the file system | group commit, a background thread, crashes between two file operations, lock-free reads |
| SocketRocket's base 64 | none | encode, decode | the handshake | lengths, padding, buffers |
| AppDelegate, SceneDelegate, models, extensions, cells | none of interest | start | | |

What makes each part correct: Home is used by a signed-in user only, and Login is
the only way in; screens never pile up in a wrong order, whatever a late
completion block dismisses; a registration either ends in a complete profile or
leaves nothing that looks like one; the list of chats shows each stored message
once, keeps a sender's order, and loses nothing it has shown; every request and
every write is answered in the end. In the store: what was acknowledged survives
a crash as far as it was promised, a read finds the newest entry of its snapshot,
no thread waits for a signal that nobody gives, no file in use is deleted. In the
codecs: what was encoded is decoded, and what is damaged is noticed or bounded.
The hazards, each at its line and with the properties that would catch it, are in
`PROJECT.json`.

## Modules

### The app

**Session**: one phone, Auth, Storage and `/users`. State: the process,
`currentUser`, the keychain, the stack `presented` of modal screens above Home,
whether a chat log is pushed, the title, the photo of each Register object,
requests in flight, the main queue, and the backend's accounts, images, profiles
and senders.

Screens are objects. `presentLoginView` makes a new Login each time, and a
request in flight keeps the object that issued it alive, because the completion
block captures `self`; so Login and Register objects have identities and are
reused only when neither the screen nor a request holds them. That is what lets
a completion block of an old Login meet a new one.

A request goes through `sent` (network or server), `replied` (outcome known),
`queued` (completion block on the main queue). A registration is one request
that goes through create, upload, url and write, since each completion block
starts the next call. Actions are the taps (`loginButton`,
`registerButtonPressed`, `logoutButtonPressed`, ...), one action per completion
block (`authenticateDone`, `createUserDone`, `putDataDone`, `downloadURLDone`,
`updateChildValuesDone`, `fetchUserDone`), the answers of the backend
(`serve...`), `Timeout` and `LateArrival` (the phone gives up and the server acts
later), the Auth work queue (`receiveAuth`, which saves the user and sets it
before the block is queued), forced sign-out, `Launch` and `Kill`.

Simplifications: a transition between screens is atomic (no animation); input of
four characters or less returns early and is a stutter; the default image of
Register may or may not have a JPEG form; loading the keychain at launch may
fail; presenting Login from `viewDidLoad` works, since Home sits in a navigation
controller. The keyboard handlers of Login and Register only move a constraint
and hide or show the image view; they share no state with anything modelled.

**ChatFeed**: phones and `/chats`. State per phone: `listening`, the two shares
of unackedListensCount (`chatsUnacked` for the listen for `/chats`,
`otherUnacked` for the listens for other queries, of which nothing else is kept),
`outstanding` (outstandingPuts, by index), `putsToAck`, the view cache (`complete`, `serverCache`), the local
`writes`, childAdded blocks on the main queue (`events`) and
`HomeViewController.chats`; the connection, FIFO both ways; `late`, writes of a
dead connection that the server has yet to read; and the server's listens and
`/chats`.

Actions of the app are `observeMessages`, `handleSendMessage` (the whole of
`updateChildValues`: local write, events, outstanding put, sending it) and
`childAdded` (append). The client's are `restoreState`, `onDisconnect`, one per
message (`onSnapshot`, `onDataUpdate`, `onPutResponse`, `onListenOk`,
`onListenDenied`, `onListenRevoked`), and `listenOther` and `onOtherListen`, a
listen for another query and its answer; answers to writes are held back while
either count is above zero. A message is four fields written below
`/chats/key`, so before the first snapshot no child of the view is complete and a
local write raises nothing; afterwards the view is the cache with the local
writes, and each step raises a childAdded for each child it adds, in the order of the push ids.
Whether a write is accepted or refused makes no difference to the view: the
local write goes.

The server is modelled from how the client uses it: data of an accepted write
goes to all listeners before the answer to the writer; a listen is answered after
any number of the writes that follow it, which is the case `putsToAck` exists
for; any write may be refused by the rules, also the repeat of one that was
accepted. Two hops of `dispatch_async` (main queue to the client's queue) are
merged with the step they lead to, as they are FIFO. A message is its number in
the order of sending, which is the order of the client's put indices; its push id
is any one not used yet, since `childByAutoId` takes it from the server's time,
whose offset every connection sets anew, so that it may go back. Reading the hash of the cache, by which the server may
leave out a snapshot that would change nothing, is not modelled.

**ChatBoard**: what the list of chats promises. A board that only grows and, on
each phone, a list that only grows, by messages that are on the board or the
phone's own, each once, and that starts again with the process. ChatFeed
implements it under the mapping board = `db`, shown = `chats` followed by
`events`.

**RecentChats**: the table of Home, its reused cells and the lookups of names in
flight. **Directory**: the observers of `/users`, one per NewMessage screen; its
`deinit` never runs while the observer that holds it is registered. **PushId**:
`FNextPushId` with its digits, the carry, the overrun and a clock that goes back,
which ChatFeed abstracts to distinct numbers in any order.

### leveldb

**WriteQueue**: the threads of `DBImpl` as they interleave at `mutex_`. A step is
what a thread does from one release of the mutex to the next: the queue of
writers and group commit (`Write`, `BuildBatchGroup`), `MakeRoomForWrite`, the
background thread, `TEST_CompactMemTable`, `TEST_CompactRange`, the destructor.
Waiting on a condition variable is a state that only a signal ends. Batches are
entries with a size; a group and a record of the log are sets of entries, which
their sequence numbers order; of the levels the number of level-0 files is kept.

**LsmTree**: what is stored and what a read finds: memtables, levels, snapshots,
the choice of compactions, what they drop and write, the level a flush goes to,
while writes, reads and flushes go on during a compaction.

**LogFile** (fragments, blocks, checksums; cut, damaged and continued files),
**DBFiles** (files over open, recovery, MANIFEST and CURRENT, obsolete files,
crashes), **Repair**, **DestroyDb**, **LRUCache**, **HandleTable**, **MemTable**
(skip list, one load or store at a time), **Arena**, **DBIter**, **TableFile**,
**Codec** (varints, slices, edits, batches, names), **Crc32c**, **CApi**,
**CStore**, **DbOptions**, **StatusObject**, **Histogram**, **Inspect** (text
dumps of files and the properties of a database), and of `PosixEnv`
**PosixFile**, **PosixLimits**, **PosixLocks**, **PosixThread**, **PosixLogger**.

What they assume and leave out. DBFiles: a killed process loses nothing it wrote;
a failing machine loses unsynced records from some point on, the first of them
possibly in part; creations, renames and deletions keep their order (a journalled
directory). Crc32c has bytes of two bits, Codec and Base64 scaled widths, so that
every input up to a length is tried. LRUCache is one shard of the sixteen, with
iterators that release their handles by lists of cleanups
(`Iterator::RegisterCleanup`). The code asks for Snappy and for an accelerated
checksum and falls back when they are not compiled in, as here: TableFile and
Crc32c have the question and the fallback. Histogram has the numbers of a report
(median, average, variance, rows), not its text. Inspect has what a dump shows of
each item and what it complains of, not the wording.

### The other libraries

**Nanopb** and **NanopbHooks**: static and pointer fields, then callbacks,
extensions and unknown fields, over whole, concatenated, cut and garbled
messages. **Base64**. **Transport**: storage, prioritizer, coordinator and
uploader of one target with their four queues; the other target runs the same
code under other names (`GDTFLL*`). A package never expires: its timer sits on a
run loop that nothing runs. **Upload**: `putData` to its completion block over
three queues, with late requests and retries; the app drops the task, so pause,
resume and cancel are not called; progress, `Retry-After` and background sessions
are left out. **FetchService**: the fetchers of one host and their shared
session. It assumes that a fetcher gets from its session to its task in less than
the 60 seconds of the discard timer; `resetSession` and `setReuseSession` are left
out (FirebaseAuth sets `reuseSession = NO`, FIRAuthBackend.m:544).

### Composition

`MCSession` and `MCWriteQueue` add the symmetry sets for TLC.
`MCStorage` holds the parts that share no state with any other: the variable
`part` says which one runs, and its variables are `s1` to `s7`. A behaviour of
MCStorage is a behaviour of one part, so one run checks each part on its own.
Its twelve invariants and `StepsKept` are conjunctions, over the parts, of the
named properties in the parts' modules. (The parts have no ASSUME of their own;
the assumptions on constants are in MCStorage.)

## Runs

| Run | Instance | Shows |
|---|---|---|
| session_screens | 1 account, 2 passwords, 3 Login, 2 Register, 2 requests, fairness | screens nest, Home is guarded, senders exist, Login leaves only by its own success, every request comes to its end |
| session_accounts | 2 accounts, 2 requests | keychain and current user agree, profiles are complete, a broken registration stays broken |
| session_title | 1 of each | violated: the title does not follow a sign-in (`// FIXME: tak read`) |
| feed_pair | 2 phones, 2 messages, 2 push ids in either order, 1 break | a sender's order is kept but for a clock that went back, ChatFeed implements ChatBoard |
| feed_delivers | 2 phones, 1 message, 1 break, 1 other listen, fairness | types, no duplicates, nothing lost, phones at rest agree with the server, stored messages are shown, writes are answered |
| write_queue | 3 threads, 4 calls, 1 failure | group commit, the promise of sync, no lost signal, manual compactions outlive their use |
| write_returns | 2 threads, 3 calls, 1 failure, fairness | every call returns, the destructor ends, unless the process ended as in write_null |
| write_null | 2 threads, 4 calls, 1 failure | violated: after an error the background thread goes through a null `manual_compaction_` |
| lsm_reads | 2 keys, 4 writes, 1 snapshot, seek or manual compaction, fairness | reads find the newest entry, levels are sound, GetApproximateSizes is exact, compaction ends |
| lsm_lost_read | 3 keys, 5 puts, a manual compaction of level 1 | violated: a flush during a manual compaction makes a key unreadable |
| lsm_deleted | 2 keys, 4 writes, 1 snapshot, no manual compaction | violated: a key that was deleted is found again |
| storage_parts | the parts of MCStorage | each part's own properties |

Bounds. Two requests are enough for a sign-in to overtake another or a
registration, three Login objects for two old ones to have answers pending while
a third is on screen; the second password is the wrong one. Two phones and two
messages are the least in which a reader can see a writer's messages out of
order, one break is enough for a repeat. With other listens the space grows
fast, so they are in the run with one message: an answer held back by them needs
no second one. The proofs hold for any number of messages, push ids, breaks and
other listens. `Key`, `PushId`, `MaxBreaks` and `MaxOthers` bound messages, push
ids, breaks and the unanswered listens for other queries, `Slot` the
requests in flight, and of the dead connections of a phone at most one has unread
writes. Three threads are a leader, a member of its group and one that comes
after the group was built; a buffer of one entry makes every write after the
first look for room, and a stop trigger of two makes it wait. Four writes and two
keys are enough for a key to be in two files of one level and in two levels.
In MCStorage the bounds are named after what they bound; those of the cache are
three entries (`MaxEntries`), two threads of which one iterates (`CacheReaders`)
with up to two cleanups (`MaxCleanups`, one in the iterator and one in its list);
a dump has up to two records, a level up to two files (`MaxShown`), and the level
asked for goes beyond the last (`MaxQuestions`).
Feed, LSM and storage runs do not check deadlock: with all messages sent, breaks
used up or work done, they rest.

What the runs say of the exceptions is worth as much: a refused message may be
listed twice or out of order (the app keeps it in `chats` and a late copy of it
may be accepted), a message abandoned by a killed process may be stored
behind those of the next process, and two messages that reach a phone at once are
listed by push id, against the order of sending if the clock went back between
them. All are in the statements of
`NoDuplicateChat` and `SenderOrder`.

Fairness. In Session the backend answers, the work queues and the main queue run
(weak fairness of `Serve`, `Receive`, `RunMain` for each request): URL sessions
time out and dispatch queues are served. In ChatFeed the server reads and
answers, listens for other queries too (`onOtherListen`), the client reads, the
main queue runs, for each phone. Taps, kills,
failures, breaks and reconnects are not fair, so delivery is promised only while
the connection stays up; and an answer held back is passed on only if the
listens for other queries do not overlap without end. In WriteQueue each thread that can run does (weak
fairness of `Step(t)`, `Background`, `DestroyWoken`): threads are scheduled by the
system and a condition variable that was signalled wakes its waiter. In LsmTree
the background work goes on as long as there is some. A memtable is switched
only by a later write that finds it full, so switching is not fair: `Settles` is
about the work that there is.

## Findings

- After an error the background thread may dereference a null
  `manual_compaction_` (`db_impl.cc:755`, run write_null). TEST_CompactRange takes
  its request back when it finds `bg_error_` set (`db_impl.cc:618-621`, "Cancel my
  manual compaction since we aborted early for some reason."), and the thread that
  is working on it goes through the pointer at its end. `CallsReturn` is stated up
  to that crash and `ManualOutlives` up to an error.
- After a sign-in the title of Home is not the user's
  (`LoginViewController.swift:79`, run session_title).
- A memtable flushed while a manual compaction works may land between the files
  that compaction writes, and a read then misses a key (`db_impl.cc:545`, run
  lsm_lost_read). `LevelsSound` and `ReadsNewest` are therefore stated for
  histories without such a flush (`disturbed` records it).
- A deleted key may be found again (`db_impl.cc:949`, run lsm_deleted). A snapshot
  makes a compaction keep a deletion and the value it hides; the limit on file
  sizes may put them into two files of a level, the deletion at the end of the
  first. When the snapshot is released, a compaction of a smaller key takes the
  first of these files as `inputs_[1]` and not the second: `AddBoundaryInputs`
  extends `inputs_[0]` only (`version_set.cc:1407-1410`). No level further down has
  the key, so the deletion is dropped, and the value in the second file is the
  newest entry that is left. `ReadsNewest` is therefore stated for keys without
  such a drop (`lapsed` records them).

Observed on the way, outside any run: the second password is read and never
compared with the first (`RegisterViewController.swift:135`, although line 140 says
`// Validate input first`), so the account gets the first; a duplicate of the last
chunk that arrives late can make an upload that is stored be reported as failed; `updateChunkFetcher`
rounds the offset in the header only; `Retry-After` bypasses the retry limit;
`ClipToRange` of the options casts a size_t to int; `repair.cc:169` says that
checksums are verified where the call passes `false`.

Some properties of MCStorage hold with exceptions. What the code does in them:

- A second LockFile in a process is refused and closes its descriptor
  (`env_posix.cc:626-628`), and with that gives away the lock that the first call
  holds, since closing any descriptor of a file drops the process's `fcntl` locks;
  `env.h:142-153` promises that the lock keeps others out. `OneHolder` holds across
  processes until such a refusal (`stray`).
- DestroyDB answers OK when the directory cannot be listed
  (`db_impl.cc:1522-1526`), as `db.h:153-154` warns. `DestroyedAll` is about listings
  that succeed.
- The log reader drops without a report what looks like a write cut short at the
  end of the file, and a header of zeros. `LossReported` excepts both.
- A version edit cut between two fields decodes as the fields before the cut
  (`version_edit.cc:196`); the checksum of the log record is what tells.
- GoogleDataTransport drops an event that is stored while a forced upload is under
  way, which took the prioritizer's own set (`GDTCCTPrioritizer.m:65`, `aside`), and
  may send events twice after an empty package has freed a target in use
  (`GDTCORUploadCoordinator.m:215`, `bare`).
- A row of Home shows another user's name when the lookup of an earlier row of its
  cell is answered last (`HomeViewController.swift:164-178`).
- A delayed fetcher begun by another thread at the moment of its own call fails for
  want of a task (`GTMSessionFetcher.m:702`).
- nanopb refuses a number too wide for a field of 8 or 16 bits, but reads a signed
  one from 32 bits, so what is above them is lost (`pb_decode.c:1297-1321`).
- DumpFile returns OK although writing its output failed or the file is damaged
  (the dump says so); escaping leaves the backslash as it is, so that the text is
  not unique; a percentile of no samples divides zero by zero.

## Proofs

The theorems hold for all values of the constants that satisfy the assumptions
named in the modules.

**SessionProofs**: Session implies TypeOK, ScreensNest, HomeSignedIn,
KeychainAgrees (invariants) and LoginLeaves (an action property), for all sets of
accounts, passwords, objects and requests. Assumed: the kinds of objects are
distinct and Nil is none of the values (`ObjectsDistinct`, `NilIsNoValue`).

KeychainAgrees is inductive as it stands. HomeSignedIn is not: a step that takes
Login away is safe only if the block it runs belongs to a sign-in that has set
the current user. The inductive invariant SessionInv adds: the blocks on the main
queue belong to requests that wait for them, each once (QueueSound); requests are
held by the kind of object that issues them (OwnersFit), so a block that dismisses
Login is a sign-in's; nothing of a process outlives it (DeadIsQuiet); and when a
successful sign-in of a Login on screen is queued, somebody is signed in or an
account has been disabled (SuccessIsSignedIn). The last holds because signing out
needs Home on top, and then no Login is on screen. What `dismiss` and `present`
do is computed once for each of the six stacks (the Dismiss and Onto lemmas), and
LoginsOnScreen says which steps change the set of Logins on screen; LoginLeaves
follows from it.

**SessionProofs, registrations**: SenderKnown, ProfileConsistent and OrphanForever. A
profile is written from what a request still holds three calls after createUser,
so the invariant RegistrationInv ties each stage of a request to what the server
has already done for it (AllBacked: past createUser there is the account with the
request's password, past putData the image), and whoever is signed in, or would
be after a restart, to an account (UsersKnown). The server forgets neither
(ServerGrows), so what backs a request backs it for ever. OrphanForever follows:
no step gives a profile to an account whose registration has no request left.

**WriteQueueProofs**: TypeOK, CommitSound, AcknowledgedKept, NobodyForgotten and
ManualOutlives, for any number of threads, calls and failures and any sizes and
triggers. Assumed: `WriteQueueAssumption` (sizes and limits are numbers, the
compaction trigger is positive and no higher than the stop trigger, as
`config::kL0_...` are). WriteQueueInv has seven parts beside the types.

- QueueInv: a thread is in `writers` once, and only the head is awake; who has
  left the queue and was signalled is done; the destructor finds nobody in a call.
- BackgroundInv: the background thread is scheduled whenever somebody waits for
  it, or there is work for it and no error; the manual compaction it uses belongs
  to a caller that still waits.
- NumbersInv: calls are numbered in the order of the queue, and `lastSequence`
  stays below the queue by one number for each place in it, so numbering a group
  can never meet a later call.
- GroupInv: only the head leads; the group is the batches of the first n writers,
  its sequence numbers follow `lastSequence`, and what is no longer to be inserted
  is in the memtable.
- LogInv: what is logged and not of the group in hand is older than the queue, and
  each record is stored whole or not at all.
- StoredInv: what a read can find is older than the queue, or of the group in hand.
- ToldInv: a caller told of success finds its entry stored (synced, if it asked for
  that), one told of failure does not.

GroupCommit is the longest argument: MakeRoomForWrite and the log append release
the mutex with the group in hand, so every other action has to be shown to leave
the head, its group and its numbers alone.

**ChatFeedSteps, ChatFeedProofs**: TypeOK, NothingLost, NoDuplicateChat,
QuietConverged, SenderOrder and the refinement
ImplementsBoard, for any number of phones, messages, push ids, broken connections
and listens for other queries. They
are facts about the list of a phone, and each depends on messages that are still
on their way: when an answer to a write makes onPutResponse drop the local write,
the message must be in the cache already, or the list would show it twice when it
comes back. Why it is there is the order of what the server sent before. So the
inductive invariant ChatFeedInv is mostly about connections, and each part is an
operator of the state of *one* connection, with lemmas about reading its first
message and sending one more:

- WireInv (Wire): where the listen is (on its way, read, answered, refused,
  revoked), what its share of `unackedListensCount` therefore is, and in which order
  snapshot,
  listenOk, data, denied and revoked can follow one another on the way back.
- ContentInv (Content): a phone hears only of what is stored (Truthful); a snapshot
  takes nothing from the cache (Keeps); when listenOk is read, every write answered
  before it that was not refused is in the cache (Caught), and so for each answer
  read after it (Safe): this is why holding back `putsToAck` is enough; and a
  listener gets, or has, all that is stored (Informed).
- PendingInv: the local writes are `outstandingPuts` and the answers held back, and
  on a connection each outstanding write is on its way to the server or its answer
  is on the way back.
- HeldInv (Held): answers that a listen for another query still holds back when the
  listen for `/chats` has been answered are of writes that the cache has, or that
  were refused; so they may be passed on at any later time.
- FeedInv: a complete view and the list agree up to what was refused (Mirrors).

ChatFeedSteps has the invariant and the lemmas about one connection, and shows
that every action keeps the types, the connections and the writes; ChatFeedProofs
shows that it keeps the lists, and that each step is a step of ChatBoard
(FeedRaised and BoardGrow) or changes nothing there.

The last part of ChatFeedProofs proves SenderOrder. Sorting in the view orders
only what one step adds to the list, so the theorem rests on the order in which messages reach the
server and come back. Among the messages that were neither refused nor abandoned,
OrderInv says: a message is on a connection after the earlier ones of its phone,
unless those are stored (InOrder; sorting `outstandingPuts` in restoreState and
the answers still on the way matter here); so `/chats`, each snapshot and each
cache has, with a message, the earlier ones (Closed); data of a message comes when
the phone has the earlier ones (Orderly); and a complete cache, or a snapshot, has
all of the phone's own messages that are no longer local writes (Settled). Hence a
view with a message has the earlier ones (ViewClosed), and what a step adds, which
was not in the view, belongs behind all that the list has. What a step adds at
once is sorted by push id, which may be against the order of sending: OrderInv is
about the order of sending, and SequenceInv about the pairs of it whose push ids
have the same order (Due).

**LsmTreeLemmas, LsmTreeProofs**: TypeOK, LevelsSound and ReadsNewest of LsmTree,
for any keys, levels, file sizes and triggers and any number of writes, snapshots
and compactions. Assumed: `LsmAssumption` (finitely many keys, positive sizes and
triggers, at least three levels, a flush goes at most to
`kMaxMemCompactLevel < kNumLevels`, manual compactions are of a level that has one
below it). The invariant has two halves.

TypeInv is about shape: what is stored was written, once for each sequence number
(IsHistory); a file has entries, its bounds are its first and its last, and its
number is in one place and below `next_file` (IsTree); `file_to_compact`, the
inputs of the compaction in hand and what it has written so far are parts of the
current version (IsSeek, IsPointers, IsRequest, IsWork).

SoundInv is about content, and is what the two properties need:

- LevelsApart and ByAge: from level 1 on the files of a level are disjoint; of two
  entries of a key the newer is in the memtable before `imm_`, before level 0 (by
  file number), before level 1 and so on. Neither is kept by installing a
  compaction unless that is known of its inputs, hence
- IsSoundWork: whatever was written or flushed since the compaction started, the
  files left in its level have nothing older than its inputs for a key of theirs
  (Separate), those left in the output level lie outside their range, its outputs
  are in order, and each entry it dropped is hidden from every reader by a newer
  one (Superseded) or is a deletion with no entry of its key further down and none
  older in the outputs (NothingBelow).
- Kept: the newest entry that a reader could see is stored, or is a deletion with
  nothing left to hide, or is in `lapsed`.

The argument. AddBoundaryInputs, the least set that its loop leaves alone, goes on
until no file begins with the user key the inputs end with, so what stays behind
in the level is Separate; the expansion of SetupOtherInputs is taken only when it does not change `inputs_[1]`. The inputs of
an automatic compaction are an interval of each level (Solid), so
PickLevelForMemTableOutput, which asks for overlap with the current files, cannot
put a flush between them; those of a manual compaction may have gaps, and
`disturbed` marks the flushes during one. DoCompactionWork's `last_sequence_for_key` is at
most `smallest_snapshot` only after an entry that all readers see, which gives
Superseded; its other rule gives NothingBelow, up to the older entry of a file
that was left out of `inputs_[1]`, which is `lapsed`. Last, FindFile's bisection
over disjoint files finds the one file that may have the key, so the first hit of
Get is the newest stored entry. The loops of DoCompactionWork and FindFile are
recursive functions; that they are well defined (Iteration) and what they compute
(MergeProp, FindFileProp) is shown with the least turn at which it fails
(LeastNatural) in place of the induction rule. TypeInv
and SoundInv were checked by TLC on the instance of lsm_reads before they were
proved.

Only model-checked are: liveness (RequestsSettle, SettlesOnline, CallsReturn,
Settles), since fairness and ENABLED are out of the prover's reach; SizesExact of
LsmTree, a sum over the sizes of a set of files (MapThenSumSet, whose fold over a
set has no theorem to cite); and the parts of MCStorage, most of which compute on
sequences by RECURSIVE operators, for which the prover has no SMT backend: the
codecs are compared with their reference definitions over all small inputs
instead.

## Plan

What would come next:

1. Session and ChatFeed composed: sign-out revoking the listen, a listen refused
   before the first sign-in, the sender of messages that wait for a connection.
2. Theorems about the parts of MCStorage that need no recursion (DBFiles, LRUCache,
   PosixLocks), each in its own module.

## Not modelled

Layout, colours, images, console output and analytics; the scene callbacks, which
are empty; the keyboard handlers; transactions, limits, priorities, disk
persistence and onDisconnect writes of the database client, which the app does
not use; token refresh and other providers of Auth; downloads, metadata and
listing of Storage; SDWebImage, FirebaseCore, FirebaseInstanceID, GoogleUtilities
and the binary pods. Of leveldb: the wording of dumps and properties, the test
harness, `thread_annotations.h`, the template and
Windows ports, the snappy library, the clock.

Hazards seen and not covered by a property: the first MANIFEST is not synced
before CURRENT names it (`db_impl.cc:199`; DBFiles marks such histories as
tainted); `repair.cc:371` and `:336` go on with a table whose copy failed, where
the only loss is of what was unreadable; a failing realloc while decoding
(`pb_decode.c:643`) and a callback that consumes nothing (`pb_decode.c:681`), for
which the app has no schema; the average of an empty histogram; the daily tier of
`GDTCCTPrioritizer` over a change of the clock; `GDTCORStorage.m:112`, an event
whose file cannot be written, which is dropped by design; a fetcher cancelled
while it is being retried, since the app never cancels.
