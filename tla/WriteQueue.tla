------------------------------ MODULE WriteQueue ------------------------------
(***************************************************************************)
(* Writers and the background thread of leveldb's DBImpl: the queue of      *)
(* writers and group commit (Write, BuildBatchGroup), the wait for room     *)
(* (MakeRoomForWrite), flushes and compactions in the background            *)
(* (BackgroundCall), compactions asked for by a caller (TEST_CompactRange,  *)
(* TEST_CompactMemTable) and the destructor.                                *)
(*                                                                          *)
(* A step is what a thread does from one release of mutex_ to the next.     *)
(* Waiting on a condition variable is a state that only a signal ends.      *)
(* A batch is one entry; its size decides how many fit a group and the      *)
(* memtable.  A group, and a record of the log, is the set of its entries,  *)
(* which their sequence numbers order.  Of the levels only the number of    *)
(* files at level 0 is kept.                                                *)
(***************************************************************************)
EXTENDS Integers, Sequences, FiniteSets, FiniteSetsExt

CONSTANTS Thread, Nil,
          Sizes,            \* sizes of batches
          SmallSize,        \* 128 << 10 in BuildBatchGroup
          LargeSize,        \* 1 << 20
          WriteBufferSize,  \* options_.write_buffer_size
          CompactionTrigger, SlowdownTrigger, StopTrigger,  \* config::kL0_...
          Ops,              \* kinds of calls: write, flush, range
          MaxOps,           \* bound: calls made
          MaxFailures       \* bound: operations on files that fail

ASSUME WriteQueueAssumption ==
    /\ Nil \notin Thread
    /\ Sizes \subseteq Nat \ {0} /\ Ops \subseteq {"write", "flush", "range"}
    /\ {SmallSize, LargeSize, WriteBufferSize, CompactionTrigger, SlowdownTrigger,
        StopTrigger, MaxOps, MaxFailures} \subseteq Nat
    /\ 0 < CompactionTrigger /\ CompactionTrigger <= StopTrigger

VARIABLES
    pc,            \* where each thread is
    call,          \* the call each thread makes: Writer
    status, done,  \* w.status, w.done (for a manual compaction: manual.done)
    force, allow_delay,  \* of MakeRoomForWrite, for the head of the queue
    mutex,         \* Nil, or the thread that goes on without releasing it
    writers,       \* writers_
    last_writer, group, todo,   \* the group being written; the part not in mem yet
    log, synced,   \* records of the log files; batches covered by a Sync
    mem, imm,      \* batches in the memtables, imm: {}, or the one that waits for its flush
    tables,        \* batches in table files
    lastSequence,  \* versions_->LastSequence()
    l0,            \* versions_->NumLevelFiles(0)
    bg, nested, inputs, is_manual,  \* the background thread and its compaction
    scheduled,     \* background_compaction_scheduled_
    manual,        \* manual_compaction_: the thread that waits for it
    bgError,       \* bg_error_ is not ok
    closing,       \* the destructor
    crashed,       \* the background thread has used a manual_compaction_ that is null
    issued, failures,
    acked          \* calls that have returned, with their result

locals == <<pc, call, status, done, force, allow_delay>>
groups == <<last_writer, group, todo>>
store == <<log, synced, mem, imm, tables, lastSequence>>
work == <<bg, nested, inputs, is_manual>>
history == <<issued, failures, acked>>
vars == <<locals, mutex, writers, groups, store, l0, work, scheduled, manual, bgError,
          closing, crashed, history>>

-----------------------------------------------------------------------------
\* WriteOptions has one member, sync.
WriteOptions == BOOLEAN
Writer == [op : Ops, sync : WriteOptions, size : Sizes \cup {0}, id : 1 .. MaxOps]
Entry == [id : 1 .. MaxOps, size : Sizes, seq : 0 .. MaxOps]

\* asleep: on the condition variable of the writer; ...wait: on background_work_finished_signal_
PC == {"idle", "asleep", "signalled", "room", "roomwait", "append", "sync",
       "insert", "finish", "flush", "flushwait", "range", "rangewait"}

\* What a writer is told; sync_error is the error of Sync, after which no write may succeed.
Status == {"ok", "error", "sync_error"}

\* MutexLock, by the thread that goes on holding mutex_ from one step to the next.
MutexLock == Thread \cup {Nil}

TypeOK ==
    /\ pc \in [Thread -> PC]
    /\ call \in [Thread -> Writer \cup {Nil}]
    /\ status \in [Thread -> Status]
    /\ done \in [Thread -> BOOLEAN]
    /\ force \in BOOLEAN /\ allow_delay \in BOOLEAN
    /\ mutex \in MutexLock
    /\ writers \in Seq(Thread)
    /\ last_writer \in Thread \cup {Nil}
    /\ group \subseteq Entry /\ todo \subseteq Entry
    /\ log \in Seq(SUBSET Entry) /\ synced \subseteq 1 .. MaxOps
    /\ mem \subseteq Entry /\ imm \subseteq SUBSET Entry /\ tables \subseteq Entry
    /\ lastSequence \in 0 .. MaxOps /\ l0 \in Nat
    /\ bg \in {"idle", "build", "apply", "compact", "install"}
    /\ nested \in BOOLEAN /\ inputs \in Nat /\ is_manual \in BOOLEAN
    /\ scheduled \in BOOLEAN /\ manual \in Thread \cup {Nil} /\ bgError \in BOOLEAN
    /\ closing \in {"open", "waiting", "woken", "closed"} /\ crashed \in BOOLEAN
    /\ issued \in 0 .. MaxOps /\ failures \in 0 .. MaxFailures
    /\ acked \subseteq [op : Ops, id : 1 .. MaxOps, sync : BOOLEAN, ok : BOOLEAN]

Ids(entries) == {e.id : e \in entries}
Logged == UNION {log[i] : i \in DOMAIN log}
InLog == Ids(Logged)
Stored == Ids(mem) \cup Ids(tables) \cup Ids(UNION imm)

\* The batches in the current log file: not those of a memtable that was switched, whose file is
\* written no more.  (A record whose write failed counts wherever it is: nobody relies on it.)
InLogFile == InLog \ (Ids(tables) \cup Ids(UNION imm))
memUsage == MapThenSumSet(LAMBDA e : e.size, mem)

Init ==
    /\ pc = [t \in Thread |-> "idle"] /\ call = [t \in Thread |-> Nil]
    /\ status = [t \in Thread |-> "ok"] /\ done = [t \in Thread |-> FALSE]
    /\ force = FALSE /\ allow_delay = FALSE /\ mutex = Nil
    /\ writers = <<>> /\ last_writer = Nil /\ group = {} /\ todo = {}
    /\ log = <<>> /\ synced = {} /\ mem = {} /\ imm = {} /\ tables = {}
    /\ lastSequence = 0 /\ l0 = 0
    /\ bg = "idle" /\ nested = FALSE /\ inputs = 0 /\ is_manual = FALSE
    /\ scheduled = FALSE /\ manual = Nil /\ bgError = FALSE
    /\ closing = "open" /\ crashed = FALSE
    /\ issued = 0 /\ failures = 0 /\ acked = {}

Running == ~crashed /\ closing # "closed"
Lock(t) == Running /\ mutex \in {Nil, t}
Fail == failures < MaxFailures /\ failures' = failures + 1

\* Only the writers are told, not those who wait for a compaction.
WokenWriters(at) == [t \in Thread |-> IF at[t] = "roomwait" THEN "room" ELSE at[t]]

\* background_work_finished_signal_.SignalAll()
Woken(at) ==
    [t \in Thread |-> CASE at[t] = "roomwait" -> "room"
                        [] at[t] = "flushwait" -> "flush"
                        [] at[t] = "rangewait" -> "range"
                        [] OTHER -> at[t]]

WokenDestructor == IF closing = "waiting" THEN "woken" ELSE closing

\* bg_error_ after RecordBackgroundError: the first error stays.
RecordBackgroundError(failed) == bgError \/ failed

NeedsCompaction(files) == files >= CompactionTrigger

\* The number of files is not looked at: only a memtable or a caller's request.
HasWorkButFiles(failed, i, m, files) ==
    closing = "open" /\ ~failed /\ (i # {} \/ m # Nil)

\* The conditions under which MaybeScheduleCompaction calls env_->Schedule.
HasWork(failed, i, m, files) ==
    /\ closing = "open" /\ ~failed
    /\ i # {} \/ m # Nil \/ NeedsCompaction(files)

MaybeScheduleCompaction(i, m, files) ==
    scheduled' = (scheduled \/ HasWork(bgError', i, m, files))

-----------------------------------------------------------------------------
(* Write, on the thread of the caller.                                      *)

\* A look at the group being written instead of the queue.
NobodyLogs == group = {}

\* The condition of the first loop of Write for a writer that has just joined.
NobodyAhead == writers = <<>>

\* DBImpl::Write joins the queue.  The head goes on to MakeRoomForWrite; TEST_CompactMemTable
\* is a write without a batch.
Write(t, op, sync, size) ==
    /\ Lock(t) /\ closing = "open" /\ pc[t] = "idle" /\ issued < MaxOps
    /\ op \in Ops \ {"range"}
    /\ IF op = "flush" THEN size = 0 /\ ~sync ELSE size \in Sizes
    /\ issued' = issued + 1
    /\ call' = [call EXCEPT ![t] = [op |-> op, sync |-> sync, size |-> size, id |-> issued + 1]]
    /\ done' = [done EXCEPT ![t] = FALSE]
    /\ status' = [status EXCEPT ![t] = "ok"]
    /\ writers' = Append(writers, t)
    /\ pc' = [pc EXCEPT ![t] = IF NobodyAhead THEN "room" ELSE "asleep"]
    /\ mutex' = IF NobodyAhead THEN t ELSE Nil
    /\ IF NobodyAhead
       THEN force' = (op = "flush") /\ allow_delay' = (op # "flush")
       ELSE UNCHANGED <<force, allow_delay>>
    /\ UNCHANGED <<groups, store, l0, work, scheduled, manual, bgError, closing, crashed,
                   failures, acked>>

\* What a thread does when its Write is over: the call returns, except that
\* TEST_CompactMemTable goes on to wait for the flush.
AfterWrite(t, result) ==
    IF call[t].op = "flush" /\ result = "ok" THEN "flush" ELSE "idle"

Acknowledge(t, result) ==
    IF AfterWrite(t, result) = "idle"
    THEN {[op |-> call[t].op, id |-> call[t].id, sync |-> call[t].sync, ok |-> result = "ok"]}
    ELSE {}

\* Back from w.cv.Wait(): done by the leader of a group, head of the queue, or neither.
Wake(t) ==
    /\ Lock(t) /\ pc[t] = "signalled"
    /\ \/ /\ done[t]
          /\ pc' = [pc EXCEPT ![t] = AfterWrite(t, status[t])]
          /\ acked' = acked \cup Acknowledge(t, status[t])
          /\ UNCHANGED <<mutex, force, allow_delay>>
       \/ /\ ~done[t] /\ writers[1] = t
          /\ pc' = [pc EXCEPT ![t] = "room"] /\ mutex' = t
          /\ force' = (call[t].op = "flush") /\ allow_delay' = (call[t].op # "flush")
          /\ UNCHANGED acked
       \/ /\ ~done[t] /\ writers[1] # t
          /\ pc' = [pc EXCEPT ![t] = "asleep"]
          /\ UNCHANGED <<mutex, force, allow_delay, acked>>
    /\ UNCHANGED <<call, status, done, writers, groups, store, l0, work, scheduled, manual,
                   bgError, closing, crashed, issued, failures>>

\* The new head is not told: it was signalled when it joined, or never.
PopGroupForgetsHead(t, last, result, at) ==
    LET n == CHOOSE i \in DOMAIN writers : writers[i] = last
        members == {writers[i] : i \in 1 .. n} \ {t}
    IN  /\ writers' = SubSeq(writers, n + 1, Len(writers))
        /\ status' = [s \in Thread |-> IF s \in members \cup {t} THEN result ELSE status[s]]
        /\ done' = [s \in Thread |-> s \in members \/ done[s]]
        /\ pc' = [s \in Thread |->
                    IF s = t THEN AfterWrite(t, result)
                    ELSE IF s \in members /\ at[s] = "asleep" THEN "signalled"
                    ELSE at[s]]
        /\ acked' = acked \cup Acknowledge(t, result)
        /\ mutex' = Nil

\* The end of Write: the group leaves the queue, its members are told the result and the
\* new head is woken.
PopGroup(t, last, result, at) ==
    LET n == CHOOSE i \in DOMAIN writers : writers[i] = last
        members == {writers[i] : i \in 1 .. n} \ {t}
        head == IF n < Len(writers) THEN {writers[n + 1]} ELSE {}
    IN  /\ writers' = SubSeq(writers, n + 1, Len(writers))
        /\ status' = [s \in Thread |-> IF s \in members \cup {t} THEN result ELSE status[s]]
        /\ done' = [s \in Thread |-> s \in members \/ done[s]]
        /\ pc' = [s \in Thread |->
                    IF s = t THEN AfterWrite(t, result)
                    ELSE IF s \in members \cup head /\ at[s] = "asleep" THEN "signalled"
                    ELSE at[s]]
        /\ acked' = acked \cup Acknowledge(t, result)
        /\ mutex' = Nil

\* The size of the batch that the first k writers make.
BatchSize(k) == MapThenSumSet(LAMBDA i : call[writers[i]].size, 1 .. k)

MaxBatchSize ==
    LET first == call[writers[1]].size
    IN  IF first <= SmallSize THEN first + SmallSize ELSE LargeSize

\* A sync write is taken along by one that does not sync.
GroupIgnoresSync(n) == TRUE

\* No sync write goes along with one that does not sync.
GroupSyncs(n) == \A i \in 2 .. n : call[writers[i]].sync => call[writers[1]].sync

\* BuildBatchGroup: how many writers the head takes along.
GroupFits(n) ==
    /\ GroupSyncs(n)
    /\ \A i \in 2 .. n : call[writers[i]].op = "write" => BatchSize(i) <= MaxBatchSize

GroupLength == Max({n \in 1 .. Len(writers) : GroupFits(n)})

\* The members of the group that bring a batch, by their place in the queue.
Batches == {i \in 1 .. GroupLength : call[writers[i]].op = "write"}

\* Where the batch of i comes among them.
Rank(i) == Cardinality({j \in Batches : j <= i})

\* The sequence number of the last entry is given once more.
BatchGroupFromLast ==
    {[id |-> call[writers[i]].id, size |-> call[writers[i]].size,
      seq |-> lastSequence + Rank(i) - 1] : i \in Batches}

\* The entries of the group with their sequence numbers, from LastSequence + 1 on.
BatchGroup ==
    {[id |-> call[writers[i]].id, size |-> call[writers[i]].size,
      seq |-> lastSequence + Rank(i)] : i \in Batches}

-----------------------------------------------------------------------------
(* MakeRoomForWrite, one iteration of its loop per step; mutex_ is held from *)
(* one iteration to the next unless it sleeps or waits.                     *)

InRoom(t) == Lock(t) /\ pc[t] = "room"
MustDelay == allow_delay /\ l0 >= SlowdownTrigger
HasRoom == ~force /\ memUsage <= WriteBufferSize

RoomError(t) ==
    /\ InRoom(t) /\ bgError
    /\ PopGroup(t, t, "error", pc)
    /\ UNCHANGED <<call, force, allow_delay, groups, store, l0, work, scheduled, manual, bgError,
                   closing, crashed, issued, failures>>

RoomDelay(t) ==
    /\ InRoom(t) /\ ~bgError /\ MustDelay
    /\ allow_delay' = FALSE /\ mutex' = Nil
    /\ UNCHANGED <<pc, call, status, done, force, writers, groups, store, l0, work, scheduled,
                   manual, bgError, closing, crashed, history>>

\* There is room: a group is formed, or the write without a batch is over.
RoomFound(t) ==
    /\ InRoom(t) /\ ~bgError /\ ~MustDelay /\ HasRoom
    /\ \/ /\ call[t].op = "flush"
          /\ PopGroup(t, t, "ok", pc) /\ UNCHANGED groups
       \/ /\ call[t].op = "write"
          /\ last_writer' = writers[GroupLength]
          /\ group' = BatchGroup /\ todo' = BatchGroup
          /\ pc' = [pc EXCEPT ![t] = "append"] /\ mutex' = Nil
          /\ UNCHANGED <<status, done, writers, acked>>
    /\ UNCHANGED <<call, force, allow_delay, store, l0, work, scheduled, manual, bgError,
                   closing, crashed, issued, failures>>

RoomWait(t) ==
    /\ InRoom(t) /\ ~bgError /\ ~MustDelay /\ ~HasRoom
    /\ imm # {} \/ l0 >= StopTrigger
    /\ pc' = [pc EXCEPT ![t] = "roomwait"] /\ mutex' = Nil
    /\ UNCHANGED <<call, status, done, force, allow_delay, writers, groups, store, l0, work,
                   scheduled, manual, bgError, closing, crashed, history>>

\* The memtable is full: a new log file and a new memtable.
SwitchMemTable(t) ==
    /\ InRoom(t) /\ ~bgError /\ ~MustDelay /\ ~HasRoom
    /\ imm = {} /\ l0 < StopTrigger
    /\ imm' = {mem} /\ mem' = {} /\ force' = FALSE /\ mutex' = t
    /\ UNCHANGED bgError
    /\ MaybeScheduleCompaction(imm', manual, l0)
    /\ UNCHANGED <<pc, call, status, done, allow_delay, writers, groups, log, synced, tables,
                   lastSequence, l0, work, manual, closing, crashed, history>>

NoNewLogFile(t) ==
    /\ InRoom(t) /\ ~bgError /\ ~MustDelay /\ ~HasRoom
    /\ imm = {} /\ l0 < StopTrigger
    /\ Fail /\ PopGroup(t, t, "error", pc)
    /\ UNCHANGED <<call, force, allow_delay, groups, store, l0, work, scheduled, manual, bgError,
                   closing, crashed, issued>>

-----------------------------------------------------------------------------
(* The head of the queue writes its group without mutex_.                   *)

AddRecord(t) ==
    /\ Running /\ pc[t] = "append"
    /\ \/ /\ log' = Append(log, group)
          /\ pc' = [pc EXCEPT ![t] = IF call[t].sync THEN "sync" ELSE "insert"]
          /\ UNCHANGED <<status, failures>>
       \/ /\ Fail /\ status' = [status EXCEPT ![t] = "error"]
          /\ pc' = [pc EXCEPT ![t] = "finish"] /\ UNCHANGED log
    /\ UNCHANGED <<call, done, force, allow_delay, mutex, writers, groups, synced, mem, imm, tables,
                   lastSequence, l0, work, scheduled, manual, bgError, closing, crashed, issued,
                   acked>>

\* logfile_->Sync(): the current file only.
Sync(t) ==
    /\ Running /\ pc[t] = "sync"
    /\ \/ /\ synced' = synced \cup InLogFile
          /\ pc' = [pc EXCEPT ![t] = "insert"] /\ UNCHANGED <<status, failures>>
       \/ /\ Fail /\ status' = [status EXCEPT ![t] = "sync_error"]
          /\ pc' = [pc EXCEPT ![t] = "finish"] /\ UNCHANGED synced
    /\ UNCHANGED <<call, done, force, allow_delay, mutex, writers, groups, log, mem, imm, tables,
                   lastSequence, l0, work, scheduled, manual, bgError, closing, crashed, issued,
                   acked>>

\* WriteBatchInternal::InsertInto, entry by entry.
InsertInto(t) ==
    /\ Running /\ pc[t] = "insert"
    /\ \E e \in todo :
          /\ \A f \in todo : e.seq <= f.seq
          /\ mem' = mem \cup {e} /\ todo' = todo \ {e}
    /\ pc' = [pc EXCEPT ![t] = IF todo' = {} THEN "finish" ELSE "insert"]
    /\ UNCHANGED <<call, status, done, force, allow_delay, mutex, writers, last_writer, group, log,
                   synced, imm, tables, lastSequence, l0, work, scheduled, manual, bgError, closing,
                   crashed, history>>

\* One number for each record of the log.
NextSequenceByRecord == lastSequence + 1

\* last_sequence += Count(updates), also after an error.
NextSequence == lastSequence + Cardinality(group)

\* The writer locks again and makes the group visible; a failed Sync stops all later writes.
FinishWrite(t) ==
    /\ Lock(t) /\ pc[t] = "finish"
    /\ lastSequence' = NextSequence
    /\ group' = {} /\ todo' = {} /\ last_writer' = Nil
    /\ LET failed == status[t] = "sync_error"
           result == IF status[t] = "ok" THEN "ok" ELSE "error"
       IN  /\ bgError' = RecordBackgroundError(failed)
           /\ PopGroup(t, last_writer, result, IF failed /\ ~bgError THEN Woken(pc) ELSE pc)
    /\ UNCHANGED closing
    /\ UNCHANGED <<call, force, allow_delay, log, synced, mem, imm, tables, l0, work, scheduled,
                   manual, crashed, issued, failures>>

-----------------------------------------------------------------------------
(* TEST_CompactMemTable and TEST_CompactRange wait for the background thread. *)

CompactMemTableWait(t) ==
    /\ Lock(t) /\ pc[t] = "flush"
    /\ \/ /\ imm # {} /\ ~bgError
          /\ pc' = [pc EXCEPT ![t] = "flushwait"] /\ UNCHANGED acked
       \/ /\ imm = {} \/ bgError
          /\ pc' = [pc EXCEPT ![t] = "idle"]
          /\ acked' = acked \cup {[op |-> "flush", id |-> call[t].id, sync |-> FALSE, ok |-> imm = {}]}
    /\ UNCHANGED <<call, status, done, force, allow_delay, mutex, writers, groups, store, l0, work,
                   scheduled, manual, bgError, closing, crashed, issued, failures>>

CompactRange(t) ==
    /\ Lock(t) /\ closing = "open" /\ pc[t] = "idle" /\ issued < MaxOps /\ "range" \in Ops
    /\ issued' = issued + 1
    /\ call' = [call EXCEPT ![t] = [op |-> "range", sync |-> FALSE, size |-> 0, id |-> issued + 1]]
    /\ done' = [done EXCEPT ![t] = FALSE]
    /\ pc' = [pc EXCEPT ![t] = "range"]
    /\ UNCHANGED <<status, force, allow_delay, mutex, writers, groups, store, l0, work, scheduled,
                   manual, bgError, closing, crashed, failures, acked>>

\* The loop of TEST_CompactRange: ask for the compaction when nobody else does, then wait.
RequestManual(t) ==
    /\ Lock(t) /\ pc[t] = "range" /\ ~done[t] /\ ~bgError
    /\ manual' = IF manual = Nil THEN t ELSE manual
    /\ UNCHANGED bgError
    /\ IF manual = Nil THEN MaybeScheduleCompaction(imm, manual', l0) ELSE UNCHANGED scheduled
    /\ pc' = [pc EXCEPT ![t] = "rangewait"]
    /\ UNCHANGED <<call, status, done, force, allow_delay, mutex, writers, groups, store, l0, work,
                   closing, crashed, history>>

\* Whoever asked, the request is withdrawn.
WithdrawAny(t) == Nil

Withdraw(t) == IF manual = t THEN Nil ELSE manual

\* Done, or given up after an error: the request is withdrawn.
EndManual(t) ==
    /\ Lock(t) /\ pc[t] = "range" /\ (done[t] \/ bgError)
    /\ manual' = Withdraw(t)
    /\ pc' = [pc EXCEPT ![t] = "idle"]
    /\ acked' = acked \cup {[op |-> "range", id |-> call[t].id, sync |-> FALSE, ok |-> done[t]]}
    /\ UNCHANGED <<call, status, done, force, allow_delay, mutex, writers, groups, store, l0, work,
                   scheduled, bgError, closing, crashed, issued, failures>>

-----------------------------------------------------------------------------
(* The background thread.                                                   *)

BgLock == Running /\ mutex = Nil

\* The end of BackgroundCall, after a piece of work that failed or not.
FinishCall(failed, i, m, files) ==
    /\ bgError' = RecordBackgroundError(failed)
    /\ bg' = "idle" /\ nested' = FALSE /\ inputs' = 0 /\ is_manual' = FALSE
    /\ scheduled' = HasWork(bgError', i, m, files)
    /\ pc' = Woken(pc) /\ closing' = WokenDestructor

\* BackgroundCall has nothing to do: the DB closes, an error, or no compaction is found.
BackgroundNothing ==
    /\ BgLock /\ scheduled /\ bg = "idle"
    /\ \/ /\ closing # "open" \/ bgError
          /\ FinishCall(FALSE, imm, manual, l0) /\ UNCHANGED <<manual, done>>
       \/ /\ closing = "open" /\ ~bgError /\ imm = {} /\ manual # Nil
          /\ done' = [done EXCEPT ![manual] = TRUE] /\ manual' = Nil
          /\ FinishCall(FALSE, imm, Nil, l0)
       \/ /\ closing = "open" /\ ~bgError /\ imm = {} /\ manual = Nil /\ ~NeedsCompaction(l0)
          /\ FinishCall(FALSE, imm, manual, l0) /\ UNCHANGED <<manual, done>>
    /\ UNCHANGED <<call, status, force, allow_delay, mutex, writers, groups, store, l0, crashed,
                   history>>

\* A memtable to flush comes first, then a compaction somebody waits for, then one by size.
BackgroundCompaction ==
    /\ BgLock /\ scheduled /\ bg = "idle" /\ closing = "open" /\ ~bgError
    /\ \/ imm # {} /\ bg' = "build" /\ UNCHANGED <<inputs, is_manual>>
       \/ /\ imm = {} /\ manual # Nil /\ l0 > 0
          /\ bg' = "compact" /\ is_manual' = TRUE /\ inputs' \in 1 .. l0
       \/ /\ imm = {} /\ manual = Nil /\ NeedsCompaction(l0)
          /\ is_manual' = FALSE /\ inputs' \in 1 .. l0
          /\ \/ bg' = "compact"
             \/ inputs' = 1 /\ bg' = "install"     \* IsTrivialMove
    /\ UNCHANGED <<locals, mutex, writers, groups, store, l0, nested, scheduled, manual, bgError,
                   closing, crashed, history>>

\* CompactMemTable is over: back to the compaction it interrupted, or to BackgroundCall.
AfterFlush(failed, i, files) ==
    \/ /\ nested /\ nested' = FALSE /\ bg' = "compact"
       /\ bgError' = RecordBackgroundError(failed)
       /\ pc' = Woken(pc) /\ closing' = WokenDestructor
       /\ UNCHANGED <<inputs, is_manual, scheduled>>
    \/ ~nested /\ FinishCall(failed, i, manual, files)

\* WriteLevel0Table has built the table, without mutex_.
BuildTable ==
    /\ BgLock /\ bg = "build"
    /\ \/ /\ closing = "open" /\ bg' = "apply"
          /\ UNCHANGED <<pc, nested, inputs, is_manual, scheduled, bgError, closing, failures>>
       \/ /\ closing # "open" /\ AfterFlush(TRUE, imm, l0) /\ UNCHANGED failures
       \/ /\ Fail /\ AfterFlush(TRUE, imm, l0)
    /\ UNCHANGED <<call, status, done, force, allow_delay, mutex, writers, groups, store, l0, manual,
                   crashed, issued, acked>>

\* LogAndApply of the flush.  PickLevelForMemTableOutput may place the table below level 0, and
\* an empty memtable makes no table.
FlushMemTable ==
    /\ BgLock /\ bg = "apply"
    /\ \/ /\ tables' = tables \cup UNION imm /\ imm' = {}
          /\ l0' \in {l0} \cup (IF imm = {{}} THEN {} ELSE {l0 + 1})
          /\ AfterFlush(FALSE, {}, l0') /\ UNCHANGED failures
       \/ /\ Fail /\ AfterFlush(TRUE, imm, l0) /\ UNCHANGED <<tables, imm, l0>>
    /\ UNCHANGED <<call, status, done, force, allow_delay, mutex, writers, groups, log, synced, mem,
                   lastSequence, manual, crashed, issued, acked>>

\* The end of BackgroundCompaction: the caller's request is answered, through manual_compaction_.
FinishCompaction(failed, files) ==
    /\ crashed' = (is_manual /\ manual = Nil)
    /\ \/ /\ is_manual /\ manual # Nil
          /\ done' = IF failed THEN [done EXCEPT ![manual] = TRUE] ELSE done
          /\ manual' = Nil
       \/ /\ ~is_manual \/ manual = Nil
          /\ UNCHANGED <<done, manual>>
    /\ FinishCall(failed, imm, manual', files)

\* DoCompactionWork merges without mutex_, and flushes a memtable that is waiting.
DoCompactionWork ==
    /\ BgLock /\ bg = "compact"
    /\ \/ /\ imm # {} /\ closing = "open"
          /\ bg' = "build" /\ nested' = TRUE
          /\ UNCHANGED <<pc, done, inputs, is_manual, scheduled, manual, bgError, closing, crashed,
                         failures>>
       \/ /\ closing = "open" /\ bg' = "install"
          /\ UNCHANGED <<pc, done, nested, inputs, is_manual, scheduled, manual, bgError, closing,
                         crashed, failures>>
       \/ closing # "open" /\ FinishCompaction(TRUE, l0) /\ UNCHANGED failures
       \/ Fail /\ FinishCompaction(TRUE, l0)
    /\ UNCHANGED <<call, status, force, allow_delay, mutex, writers, groups, store, l0, issued, acked>>

\* One file too many is taken from level 0.
FilesLeftOffByOne == l0 - inputs - 1

FilesLeft == l0 - inputs

\* InstallCompactionResults, or the LogAndApply of a trivial move.
InstallCompactionResults ==
    /\ BgLock /\ bg = "install"
    /\ \/ l0' = FilesLeft /\ FinishCompaction(FALSE, l0') /\ UNCHANGED failures
       \/ Fail /\ FinishCompaction(TRUE, l0) /\ UNCHANGED l0
    /\ UNCHANGED <<call, status, force, allow_delay, mutex, writers, groups, store, issued, acked>>

-----------------------------------------------------------------------------
\* ~DBImpl, called when no call is in progress.
Destroy ==
    /\ BgLock /\ closing = "open" /\ \A t \in Thread : pc[t] = "idle"
    /\ closing' = IF scheduled THEN "waiting" ELSE "closed"
    /\ UNCHANGED <<locals, mutex, writers, groups, store, l0, work, scheduled, manual, bgError,
                   crashed, history>>

DestroyWoken ==
    /\ BgLock /\ closing = "woken"
    /\ closing' = IF scheduled THEN "waiting" ELSE "closed"
    /\ UNCHANGED <<locals, mutex, writers, groups, store, l0, work, scheduled, manual, bgError,
                   crashed, history>>

\* The end: the DB is gone, or the process.
Ended == ~Running /\ UNCHANGED vars

Step(t) ==
    \/ Wake(t) \/ RoomError(t) \/ RoomDelay(t) \/ RoomFound(t) \/ RoomWait(t)
    \/ SwitchMemTable(t) \/ NoNewLogFile(t)
    \/ AddRecord(t) \/ Sync(t) \/ InsertInto(t) \/ FinishWrite(t)
    \/ CompactMemTableWait(t) \/ RequestManual(t) \/ EndManual(t)

Background ==
    \/ BackgroundNothing \/ BackgroundCompaction \/ BuildTable \/ FlushMemTable
    \/ DoCompactionWork \/ InstallCompactionResults

Next ==
    \/ \E t \in Thread :
        \/ \E op \in Ops, sync \in BOOLEAN, size \in Sizes \cup {0} : Write(t, op, sync, size)
        \/ CompactRange(t)
        \/ Step(t)
    \/ Background
    \/ Destroy \/ DestroyWoken \/ Ended

Spec == Init /\ [][Next]_vars

\* Threads that are not waiting run, and so does the thread of the Env.
Fairness == (\A t \in Thread : WF_vars(Step(t))) /\ WF_vars(Background) /\ WF_vars(DestroyWoken)

FairSpec == Spec /\ Fairness

-----------------------------------------------------------------------------
(* Properties.                                                              *)

Leading(t) == pc[t] \in {"append", "sync", "insert", "finish"}

\* Write releases mutex_ while it logs a group and fills the memtable; still one thread at a
\* time does so, it is the head of the queue, and its group are the writers behind it.
OneLogger ==
    \A t \in Thread : pc[t] \in {"room", "roomwait"} \/ Leading(t) =>
        /\ writers # <<>> /\ writers[1] = t
        /\ Leading(t) => \E n \in DOMAIN writers : writers[n] = last_writer

\* A reader, who reads up to LastSequence, sees a group whole or not at all: no entry of the
\* group that is being inserted is visible, and of the records in the log all entries up to
\* LastSequence are stored or, after an error, none.
GroupsAtomic ==
    /\ \A e \in group : e.seq > lastSequence
    /\ \A i \in DOMAIN log : log[i] # group =>
          Ids(log[i]) \subseteq Stored \/ Ids(log[i]) \cap Stored = {}

\* Writes reach the log in the order in which the calls joined the queue, and sequence numbers
\* follow that order and are never given twice, whatever fails.
QueueOrder ==
    \A e, f \in Logged \cup group : e.id < f.id <=> e.seq < f.seq

\* What DBImpl::Write promises of the queue while mutex_ is released for the log: the head alone
\* writes, readers see whole groups, and the log has the order of the queue.
CommitSound == OneLogger /\ GroupsAtomic /\ QueueOrder

\* A write that was acknowledged is stored, one that returned an error is not; one that asked
\* for sync is in the synced part of the log or in a table, also when another thread wrote it
\* as a member of its group.
AcknowledgedKept ==
    \A a \in acked : a.op = "write" =>
        /\ a.ok <=> a.id \in Stored
        /\ a.ok /\ a.sync => a.id \in synced \cup Ids(tables)

\* Nobody waits for a signal that nobody will send: the head of the queue is awake, and a thread
\* waits for the background thread only while it has work or runs.
NoLostWakeup ==
    Running =>
    /\ writers # <<>> => pc[writers[1]] # "asleep"
    /\ \A t \in Thread : pc[t] \in {"roomwait", "flushwait", "rangewait"} => scheduled
    /\ closing = "waiting" => scheduled

\* Work is never forgotten: a memtable to flush or too many files at level 0 have the background
\* thread scheduled, unless an error stops it.
WorkScheduled ==
    closing = "open" /\ ~bgError /\ Running /\ (imm # {} \/ NeedsCompaction(l0)) => scheduled

\* bg_cv_, the writers' condition variables and MaybeScheduleCompaction together: nobody sleeps
\* without someone who will wake him, and no work waits without a thread scheduled for it.
NobodyForgotten == NoLostWakeup /\ WorkScheduled

\* manual_compaction_ points to the caller's frame for as long as the background thread uses it,
\* unless an error makes the caller give up.
ManualOutlives == bg # "idle" /\ is_manual /\ ~bgError => manual # Nil /\ pc[manual] \in {"range", "rangewait"}

\* TEST_CompactRange takes its request back when it gives up after an error, and with that sets
\* manual_compaction_ to null; the background thread, which may be working on the request and goes
\* through manual_compaction_ at its end, never finds it null.
CancelledSafely == ~crashed

\* Every call returns, and the destructor ends, whatever the queue, the stalls of MakeRoomForWrite
\* and the background thread do, unless the process ends by the null pointer of CancelledSafely,
\* which the code does not prevent: then nothing returns any more.
CallsReturn ==
    /\ \A t \in Thread : pc[t] # "idle" ~> pc[t] = "idle" \/ crashed
    /\ closing # "open" ~> closing = "closed" \/ crashed
=============================================================================
