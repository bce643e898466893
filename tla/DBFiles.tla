------------------------------- MODULE DBFiles -------------------------------
(***************************************************************************)
(* The files of a leveldb database and its life over crashes: DB::Open and  *)
(* recovery from CURRENT, the MANIFEST and the logs, VersionSet::LogAndApply,*)
(* memtable and table compactions, DeleteObsoleteFiles, and readers that    *)
(* hold old versions.  What is inside a file is its sequence of records: a  *)
(* write in a log, an edit in a MANIFEST, the set of its writes in a table. *)
(*                                                                          *)
(* The process may be killed at any step: what was written stays.  The      *)
(* machine may fail: of the records after the last Sync of a file any       *)
(* number is gone, and the first lost one may be there in part.  Creations, *)
(* renames and deletions are kept in their order (a journalled directory).  *)
(***************************************************************************)
EXTENDS Integers, Sequences, FiniteSetsExt, SequencesExt

CONSTANTS MaxWrites,    \* bound: writes issued
          MaxJobs,      \* bound: compactions, and as many switches of the memtable
          MaxCrashes    \* bound: kills and machine failures

VARIABLES
    files,      \* <<kind, number>> |-> its records, how many are synced, torn (-1, or after which)
    CURRENT,    \* number of the MANIFEST that CURRENT names, 0: no CURRENT
    db,         \* the process: DBImpl, VersionSet and the job under way
    past        \* history: writes issued and owed, crashes; unsynced: the MANIFEST in use
                \* has records nobody synced; tainted: reuse_logs or NewDB lost by it

filevars == <<files, CURRENT, db, past>>

File(data) == [data |-> data, dur |-> 0, torn |-> -1]
Put(name, file) == [k \in DOMAIN files \cup {name} |-> IF k = name THEN file ELSE files[k]]
AppendTo(name, rec) == [files EXCEPT ![name].data = Append(@, rec)]
SyncFile(name) == [files EXCEPT ![name].dur = Len(files[name].data)]
Without(name) == [k \in DOMAIN files \ {name} |-> files[k]]

\* log::Reader: a torn record ends the file or, when more was appended, hides it
Readable(f) == IF f.torn = -1 THEN f.data ELSE SubSeq(f.data, 1, f.torn)
Hides(f) == f.torn >= 0 /\ Len(f.data) > f.torn

NoEdit == [add |-> {}, del |-> {}, log |-> 0, next |-> 0, last |-> 0]
NoCompaction == [ins |-> {}, out |-> 0]
Down == [pc |-> "down", reuse |-> FALSE, next |-> 2, manifest |-> 0, log_number |-> 0,
         last |-> 0, current |-> {}, descriptor |-> FALSE, mem |-> {}, imm |-> {},
         has_imm |-> FALSE, logfile |-> 0, pending |-> {}, held |-> {}, bg_error |-> FALSE,
         replay |-> << >>, save |-> FALSE, edit |-> NoEdit, job |-> "none", out |-> 0, outer |-> NoCompaction,
         phase |-> "idle"]

\* a table whose file is gone cannot be read
TableData(n) == IF <<"table", n>> \in DOMAIN files THEN files[<<"table", n>>].data[1] ELSE {}
DataOf(ns) == UNION {TableData(n) : n \in ns}
Visible == db.mem \cup db.imm \cup DataOf(db.current)
Ids(ws) == {w.id : w \in ws}

-----------------------------------------------------------------------------
(* DB::Open: NewDB, Recover.                                                *)
Open(reuse) ==
    /\ db.pc = "down"
    /\ db' = [Down EXCEPT !.pc = IF CURRENT = 0 THEN "newdb" ELSE "recover", !.reuse = reuse]
    /\ UNCHANGED <<files, CURRENT, past>>

\* the first MANIFEST is closed, not synced
NewDB ==
    /\ db.pc = "newdb"
    /\ files' = Put(<<"manifest", 1>>, File(<<[NoEdit EXCEPT !.next = 2]>>))
    /\ db' = [db EXCEPT !.pc = "newdb_current", !.manifest = 1, !.phase = "temp"]
    /\ past' = [past EXCEPT !.unsynced = TRUE]
    /\ UNCHANGED CURRENT

\* SetCurrentFile: a temporary file, synced, then renamed
WriteTemp ==
    /\ db.phase = "temp"
    /\ files' = Put(<<"temp", db.manifest>>, [File(<<db.manifest>>) EXCEPT !.dur = 1])
    /\ db' = [db EXCEPT !.phase = "rename"]
    /\ UNCHANGED <<CURRENT, past>>

Rename ==
    /\ db.phase = "rename"
    /\ files' = Without(<<"temp", db.manifest>>)
    /\ CURRENT' = db.manifest
    /\ db' = IF db.pc = "newdb_current"
             THEN [Down EXCEPT !.pc = "recover", !.reuse = db.reuse]
             ELSE [db EXCEPT !.phase = "install"]
    /\ UNCHANGED past

\* numbers of logs to replay, in the order they were generated
Logs(min_log) ==
    SetToSortSeq({n \in 1 .. db.next + 10 : <<"log", n>> \in DOMAIN files /\ n >= min_log}, <)

Replay(edits) == FoldLeft(LAMBDA tables, e : (tables \ e.del) \cup e.add, {}, edits)

\* the next file number is not taken from the MANIFEST
RecoveredNoNext(m, edits) ==
    [db EXCEPT !.pc = "replay", !.current = Replay(edits), !.last = Last(edits).last,
               !.log_number = Last(edits).log,
               !.manifest = IF db.reuse THEN CURRENT ELSE Last(edits).next,
               !.descriptor = db.reuse, !.save = ~db.reuse,
               !.replay = Logs(Last(edits).log)]

\* VersionSet::Recover and ReuseManifest; the first check of DBImpl::Recover
Recovered(m, edits) ==
    [db EXCEPT !.pc = "replay", !.current = Replay(edits),
               !.next = Last(edits).next + 1, !.last = Last(edits).last,
               !.log_number = Last(edits).log,
               !.manifest = IF db.reuse THEN CURRENT ELSE Last(edits).next,
               !.descriptor = db.reuse, !.save = ~db.reuse,
               !.replay = Logs(Last(edits).log)]

\* no record with the file and log numbers: nothing, or the snapshot alone
Unfinished(edits) == \A e \in ToSet(edits) : e.next = 0

Recover ==
    /\ db.pc = "recover"
    /\ LET m == files[<<"manifest", CURRENT>>]
           edits == Readable(m)
           missing == {n \in Replay(edits) : \A kind \in {"table", "log", "manifest", "temp"} :
                                                <<kind, n>> \notin DOMAIN files}
       IN IF Unfinished(edits) \/ Hides(m) \/ missing # {}
          THEN db' = [Down EXCEPT !.pc = "failed"] /\ UNCHANGED past
          ELSE /\ db' = Recovered(m, edits)
               /\ past' = [past EXCEPT !.tainted = @ \/ (db.reuse /\ m.torn >= 0),
                                       !.unsynced = @ \/ (db.reuse /\ m.dur < Len(m.data))]
    /\ UNCHANGED <<files, CURRENT>>

\* WriteLevel0Table of what was replayed: a table of its own number
Level0(fs, n, ws) ==
    IF ws = {} THEN fs
    ELSE [k \in DOMAIN fs \cup {<<"table", n>>} |->
             IF k = <<"table", n>> THEN [File(<<ws>>) EXCEPT !.dur = 1] ELSE fs[k]]

MarkFileNumberUnused(next, number) == next

MarkFileNumberUsed(next, number) == IF next <= number THEN number + 1 ELSE next

\* the first k records fill a memtable, which is compacted at once
RecoverLogFile(k) ==
    /\ db.pc = "replay" /\ db.replay # << >>
    /\ LET n == Head(db.replay)
           recs == Readable(files[<<"log", n>>])
           early == ToSet(SubSeq(recs, 1, k))
           late == ToSet(SubSeq(recs, k + 1, Len(recs)))
           keep == db.reuse /\ Len(db.replay) = 1 /\ k = 0
           added == {<<early, db.next>>, <<IF keep THEN {} ELSE late, db.next + (IF k > 0 THEN 1 ELSE 0)>>}
           numbers == {t[2] : t \in {a \in added : a[1] # {}}}
       IN /\ k \in 0 .. Len(recs)
          /\ files' = Level0(Level0(files, db.next, early), db.next + (IF k > 0 THEN 1 ELSE 0),
                             IF keep THEN {} ELSE late)
          /\ db' = [db EXCEPT
                       !.replay = Tail(@),
                       !.edit.add = @ \cup numbers,
                       !.next = MarkFileNumberUsed(@ + Cardinality(numbers), n),
                       !.save = @ \/ numbers # {},
                       !.last = Max({@} \cup {w.seq : w \in ToSet(recs)}),
                       !.mem = IF keep THEN late ELSE {},
                       !.logfile = IF keep THEN n ELSE 0]
          /\ past' = [past EXCEPT !.tainted = @ \/ (keep /\ files[<<"log", n>>].torn >= 0)]
    /\ UNCHANGED CURRENT

\* the new log of DB::Open, then LogAndApply if there is something to save
OpenLog ==
    /\ db.pc = "replay" /\ db.replay = << >> /\ db.logfile = 0
    /\ files' = Put(<<"log", db.next>>, File(<< >>))
    /\ db' = [db EXCEPT !.next = @ + 1, !.logfile = db.next]
    /\ UNCHANGED <<CURRENT, past>>

\* what a successful Open shows is owed from then on
Opened(d) ==
    past' = [past EXCEPT !.owed = @ \cup Ids(d.mem \cup DataOf(d.current)),
                         !.synced = @ \cup Ids(DataOf(d.current)),
                         !.unsynced = @ /\ ~d.save]

-----------------------------------------------------------------------------
(* DeleteObsoleteFiles, as a function of the process d it is called in.     *)
AddCurrentFiles(d) == d.current

AddLiveFiles(d) == d.current \cup UNION d.held

\* the outputs of the compaction under way are not looked at
KeptIfLive(d, name) ==
    LET n == name[2]
    IN CASE name[1] = "log" -> n >= d.log_number
         [] name[1] = "manifest" -> n >= d.manifest
         [] OTHER -> n \in AddLiveFiles(d)

\* logs and descriptors by number, tables and temporary files by use: pending_outputs_ holds the
\* output of a compaction while a flush within it collects files
Kept(d, name) ==
    LET n == name[2]
    IN CASE name[1] = "log" -> n >= d.log_number
         [] name[1] = "manifest" -> n >= d.manifest
         [] OTHER -> n \in d.pending \cup AddLiveFiles(d)

\* after an error it is not known which version was committed
DeleteObsoleteFiles(d) ==
    files' = IF d.bg_error THEN files
             ELSE [k \in {name \in DOMAIN files : Kept(d, name)} |-> files[k]]

OpenDone ==
    /\ db.pc = "replay" /\ db.replay = << >> /\ db.logfile # 0 /\ ~db.save
    /\ db' = [db EXCEPT !.pc = "open", !.edit = NoEdit]
    /\ Opened(db')
    /\ DeleteObsoleteFiles(db')
    /\ UNCHANGED CURRENT

OpenSaves ==
    /\ db.pc = "replay" /\ db.replay = << >> /\ db.logfile # 0 /\ db.save
    /\ db' = [db EXCEPT !.pc = "save", !.edit.log = db.logfile, !.job = "open", !.phase = "apply"]
    /\ UNCHANGED <<files, CURRENT, past>>

-----------------------------------------------------------------------------
(* VersionSet::LogAndApply: the record is made under the mutex, written and *)
(* synced without it; a new MANIFEST begins with a snapshot.                *)
Snapshot(d) == [NoEdit EXCEPT !.add = d.current]

EditNoLast(d) == [d.edit EXCEPT !.next = d.next, !.log = IF @ = 0 THEN d.log_number ELSE @]

Edit(d) == [d.edit EXCEPT !.next = d.next, !.last = d.last,
                          !.log = IF @ = 0 THEN d.log_number ELSE @]

LogAndApply ==
    /\ db.phase = "apply"
    /\ db' = [db EXCEPT !.edit = Edit(db), !.phase = "record"]
    /\ files' = IF db.descriptor THEN files
                ELSE Put(<<"manifest", db.manifest>>, File(<<Snapshot(db)>>))
    /\ UNCHANGED <<CURRENT, past>>

AddManifestRecord ==
    /\ db.phase = "record"
    /\ files' = AppendTo(<<"manifest", db.manifest>>, db.edit)
    /\ db' = [db EXCEPT !.phase = "sync"]
    /\ UNCHANGED <<CURRENT, past>>

\* no Sync before CURRENT is set
SyncManifestLater ==
    /\ db.phase = "sync"
    /\ db' = [db EXCEPT !.phase = IF db.descriptor THEN "install" ELSE "temp"]
    /\ UNCHANGED <<files, CURRENT, past>>

SyncManifest ==
    /\ db.phase = "sync"
    /\ files' = SyncFile(<<"manifest", db.manifest>>)
    /\ db' = [db EXCEPT !.phase = IF db.descriptor THEN "install" ELSE "temp"]
    /\ UNCHANGED <<CURRENT, past>>

\* The job is over: back to the compaction that the flush has interrupted, or to BackgroundCall.
JobOver(d) ==
    IF d.outer = NoCompaction
    THEN [d EXCEPT !.job = "none", !.phase = "idle", !.edit = NoEdit, !.pending = @ \ {d.out}, !.out = 0]
    ELSE [d EXCEPT !.job = "compact", !.phase = "build", !.edit = [NoEdit EXCEPT !.del = d.outer.ins],
                   !.pending = @ \ {d.out}, !.out = d.outer.out, !.outer = NoCompaction]

\* a write or sync error: Open fails and removes the new MANIFEST, the
\* background thread records the error and collects no files any more
ManifestError ==
    /\ db.phase \in {"record", "sync"} /\ past.crashes < MaxCrashes
    /\ IF db.pc = "open"
       THEN /\ db' = JobOver([db EXCEPT !.bg_error = TRUE])
            /\ UNCHANGED files
       ELSE /\ db' = Down
            /\ files' = IF db.descriptor THEN files ELSE Without(<<"manifest", db.manifest>>)
    /\ past' = [past EXCEPT !.crashes = @ + 1]
    /\ UNCHANGED CURRENT

\* the job's own end is part of it: CompactMemTable drops imm_, CleanupCompaction
\* its pending outputs, DB::Open is done; then DeleteObsoleteFiles
Installed(d) ==
    JobOver([d EXCEPT !.current = (@ \ d.edit.del) \cup d.edit.add, !.log_number = d.edit.log,
                      !.descriptor = TRUE, !.pc = "open",
                      !.imm = IF d.job = "flush" THEN {} ELSE @,
                      !.has_imm = IF d.job = "flush" THEN FALSE ELSE @])

Install ==
    /\ db.phase = "install"
    /\ db' = Installed(db)
    /\ IF db.job = "open" THEN Opened(db')
       ELSE past' = [past EXCEPT !.synced = @ \cup Ids(DataOf(db'.current)), !.unsynced = FALSE]
    /\ DeleteObsoleteFiles(db')
    /\ UNCHANGED CURRENT

-----------------------------------------------------------------------------
(* An open database: writes, switching to a new memtable and log, jobs of   *)
(* the background thread, iterators.                                        *)
Running == db.pc = "open" /\ ~db.bg_error

Write(sync) ==
    /\ Running /\ past.issued < MaxWrites
    /\ LET w == [id |-> past.issued + 1, seq |-> db.last + 1]
           name == <<"log", db.logfile>>
           f == files[name]
           data == Append(f.data, w)
       IN /\ files' = [files EXCEPT ![name].data = data, ![name].dur = IF sync THEN Len(data) ELSE @]
          /\ db' = [db EXCEPT !.last = @ + 1, !.mem = @ \cup {w}]
          /\ past' = [past EXCEPT !.issued = @ + 1, !.owed = @ \cup {w.id},
                                  !.synced = IF sync THEN @ \cup Ids(ToSet(data)) ELSE @]
    /\ UNCHANGED CURRENT

\* the old log is closed as it is, without a Sync
SwitchMemTable ==
    /\ Running /\ ~db.has_imm /\ past.jobs < MaxJobs
    /\ files' = Put(<<"log", db.next>>, File(<< >>))
    /\ db' = [db EXCEPT !.logfile = db.next, !.next = @ + 1, !.imm = db.mem, !.has_imm = TRUE,
                        !.mem = {}]
    /\ past' = [past EXCEPT !.jobs = @ + 1]
    /\ UNCHANGED CURRENT

\* WriteLevel0Table of imm_, or DoCompactionWork on the tables ins: the number
\* is pending while the mutex is released and the table written
StartJob(job, ins, outer) ==
    /\ files' = Put(<<"table", db.next>>, File(<< >>))
    /\ db' = [db EXCEPT !.job = job, !.phase = "build", !.out = db.next, !.next = @ + 1,
                        !.pending = @ \cup {db.next}, !.outer = outer,
                        !.edit = [NoEdit EXCEPT !.del = ins]]
    /\ UNCHANGED CURRENT

\* CompactMemTable, of BackgroundCompaction or, also after an error, from within DoCompactionWork.
StartFlush ==
    /\ db.pc = "open" /\ db.has_imm
    /\ \/ /\ db.phase = "idle" /\ ~db.bg_error
          /\ StartJob("flush", {}, NoCompaction)
       \/ /\ db.phase = "build" /\ db.job = "compact"
          /\ StartJob("flush", {}, [ins |-> db.edit.del, out |-> db.out])
    /\ UNCHANGED past

StartCompaction(ins) ==
    /\ Running /\ db.phase = "idle" /\ ~db.has_imm /\ ins # {} /\ past.compactions < MaxJobs
    /\ StartJob("compact", ins, NoCompaction)
    /\ past' = [past EXCEPT !.compactions = @ + 1]

OutputData == IF db.job = "flush" THEN db.imm ELSE DataOf(db.edit.del)

\* what is written to a file that was deleted meanwhile is gone with it
WriteOutput ==
    IF <<"table", db.out>> \notin DOMAIN files THEN files
    ELSE Put(<<"table", db.out>>, [File(<<OutputData>>) EXCEPT !.dur = 1])

\* CompactMemTable: the logs before the current one are no longer needed
FinishTable ==
    /\ db.phase = "build"
    /\ files' = IF OutputData = {} THEN Without(<<"table", db.out>>) ELSE WriteOutput
    /\ db' = [db EXCEPT !.phase = "apply",
                        !.edit.add = IF OutputData = {} THEN {} ELSE {db.out},
                        !.edit.log = IF db.job = "flush" THEN db.logfile ELSE 0,
                        !.pending = IF db.job = "flush" THEN @ \ {db.out} ELSE @]
    /\ UNCHANGED <<CURRENT, past>>

\* BuildTable removes its file, DoCompactionWork leaves it
TableError ==
    /\ db.phase = "build" /\ past.crashes < MaxCrashes
    /\ files' = IF db.job = "flush" THEN Without(<<"table", db.out>>) ELSE files
    /\ db' = JobOver([db EXCEPT !.bg_error = TRUE])
    /\ past' = [past EXCEPT !.crashes = @ + 1]
    /\ UNCHANGED CURRENT

\* an iterator, a Get or a compaction refers to the version it started with (of
\* interest while jobs may follow)
Hold ==
    /\ db.pc = "open" /\ db.held = {} /\ db.current # {} /\ past.compactions < MaxJobs
    /\ db' = [db EXCEPT !.held = {db.current}]
    /\ UNCHANGED <<files, CURRENT, past>>

Release ==
    /\ db.pc = "open" /\ db.held # {}
    /\ db' = [db EXCEPT !.held = {}]
    /\ UNCHANGED <<files, CURRENT, past>>

-----------------------------------------------------------------------------
(* Crashes.  Closing the database leaves the same files as a kill.          *)
Kill ==
    /\ db.pc \notin {"down", "failed"} /\ past.crashes < MaxCrashes
    /\ db' = Down
    /\ past' = [past EXCEPT !.crashes = @ + 1]
    /\ UNCHANGED <<files, CURRENT>>

Loose == {k \in DOMAIN files : files[k].dur < Len(files[k].data)}

\* what is left of a file, and whether the first lost record left a piece
Left(f, n, piece) == [data |-> SubSeq(f.data, 1, n), dur |-> n, torn |-> IF piece THEN n ELSE f.torn]

MachineFails ==
    /\ past.crashes < MaxCrashes
    /\ \E n \in [Loose -> 0 .. 3], piece \in [Loose -> BOOLEAN] :
          /\ \A k \in Loose : n[k] \in files[k].dur .. Len(files[k].data)
                              /\ (piece[k] => n[k] < Len(files[k].data) /\ files[k].torn = -1)
          /\ files' = [k \in DOMAIN files |-> IF k \in Loose THEN Left(files[k], n[k], piece[k])
                                              ELSE files[k]]
    /\ db' = Down
    /\ past' = [past EXCEPT !.crashes = @ + 1, !.owed = @ \cap past.synced,
                            !.tainted = @ \/ (CURRENT # 0 /\ past.unsynced)]
    /\ UNCHANGED CURRENT

-----------------------------------------------------------------------------
Init ==
    /\ files = << >> /\ CURRENT = 0 /\ db = Down
    /\ past = [issued |-> 0, owed |-> {}, synced |-> {}, crashes |-> 0, jobs |-> 0, compactions |-> 0,
               unsynced |-> FALSE, tainted |-> FALSE]

Next ==
    \/ \E reuse \in BOOLEAN : Open(reuse)
    \/ NewDB \/ WriteTemp \/ Rename \/ Recover
    \/ \E k \in 0 .. MaxWrites : RecoverLogFile(k)
    \/ OpenLog \/ OpenDone \/ OpenSaves
    \/ LogAndApply \/ AddManifestRecord \/ SyncManifest \/ ManifestError \/ Install
    \/ \E sync \in BOOLEAN : Write(sync)
    \/ SwitchMemTable \/ StartFlush
    \/ \E ins \in SUBSET db.current : StartCompaction(ins)
    \/ FinishTable \/ TableError \/ Hold \/ Release
    \/ Kill \/ MachineFails

Spec == Init /\ [][Next]_filevars

-----------------------------------------------------------------------------
\* What Env keeps under the name k: the records of the file, how many of them are synced, where it is torn.
IsFile(k, f) ==
    /\ k[1] \in {"log", "manifest", "table", "temp"} /\ k[2] \in Nat
    /\ f.dur \in 0 .. Len(f.data) /\ f.torn \in -1 .. Len(f.data)

\* The members of DBImpl and its VersionSet: every file they name has a number that was given out.
IsDBImpl(d) ==
    /\ d.log_number < d.next /\ d.logfile < d.next /\ d.manifest < d.next
    /\ \A n \in d.pending : n < d.next
    /\ d.outer # NoCompaction => d.job = "flush" /\ d.outer.out \in d.pending
    /\ {d.reuse, d.descriptor, d.has_imm, d.bg_error, d.save} \subseteq BOOLEAN
    /\ d.imm # {} => d.has_imm

TypeOK ==
    /\ \A k \in DOMAIN files : IsFile(k, files[k])
    /\ CURRENT \in Nat
    /\ IsDBImpl(db)
    /\ past.synced \subseteq 1 .. past.issued

(* Once the database is open again it shows every write it owes: all that   *)
(* were acknowledged, less the ones without sync that a machine failure has *)
(* taken.  Left out: a MANIFEST or log with a torn end that reuse_logs has  *)
(* continued, and a machine failure while the MANIFEST in use has records   *)
(* that nobody synced: the first one of NewDB, or one that reuse_logs took  *)
(* over from a process killed before its Sync.                              *)
OwedVisible ==
    db.pc = "open" /\ ~past.tainted => past.owed \subseteq Ids(Visible)

(* Nothing is shown that was not written, and no two writes that are shown  *)
(* have one sequence number: the newest of a key is well defined after any  *)
(* number of recoveries.                                                    *)
SequencesUnique ==
    db.pc = "open" =>
        /\ \A a, b \in Visible : a.seq = b.seq => a = b
        /\ \A w \in Visible : w.seq <= db.last

(* Files in use are there: tables of the current version and of versions    *)
(* that readers hold, complete, and the logs of both memtables.             *)
LiveFilesKept ==
    db.pc = "open" =>
        /\ \A n \in db.current \cup UNION db.held :
              /\ <<"table", n>> \in DOMAIN files
              /\ Len(files[<<"table", n>>].data) = 1
        /\ <<"log", db.logfile>> \in DOMAIN files
        /\ ~past.tainted => db.imm \cup db.mem \subseteq
              UNION {ToSet(Readable(files[k])) : k \in {x \in DOMAIN files : x[1] = "log"}}

(* Open never finds the database corrupt, wherever it was interrupted.      *)
OpensAgain == db.pc = "failed" => past.tainted

(* A table that the MANIFEST named by CURRENT lists is never written again: *)
(* numbers handed out after a crash do not meet it.                         *)
KeepsTables ==
    CURRENT # 0 => \A n \in Replay(Readable(files[<<"manifest", CURRENT>>])) :
        <<"table", n>> \in DOMAIN files /\ <<"table", n>> \in DOMAIN files'
            => files'[<<"table", n>>].data = files[<<"table", n>>].data
=============================================================================
