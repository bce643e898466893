------------------------------ MODULE DestroyDb ------------------------------
(***************************************************************************)
(* DestroyDB (db/db_impl.cc) against DB::Open of the same directory by       *)
(* another process: the directory is listed, the lock taken, every listed    *)
(* file of the database deleted one by one in the order of the listing, the  *)
(* lock given back, and then the lock file and the directory removed.  The   *)
(* call may be cut off after any step and made again; a deletion may fail,   *)
(* and so may the listing.                                                   *)
(* What Open does with the files it finds is in DBFiles; here it is one      *)
(* step, which leaves a new descriptor, one table and an empty log.          *)
(***************************************************************************)
EXTENDS Integers, FiniteSets

CONSTANTS Items,        \* what is written, once each
          MaxOpens,     \* bound: opens that succeed
          MaxCuts     \* bound: calls cut off, and deletions that fail

VARIABLES
    dir,       \* file |-> what it holds; NoDir when there is no directory
    lockfile,  \* the file LOCK names now, 0: none; the lock files that are locked
    db,        \* the other process: closed, made (its DBImpl is) or open; what it shows, its generation of files
    destroy,   \* the call of DestroyDB: pc, files still to delete, result
    past       \* history: opens, faults; whether Open ran within the
               \* call (met), and whether DestroyDB deleted the LOCK file of an open database (unnamed)

NoDir == [none |-> {}]
Name(kind, g) == <<kind, g>>
CURRENT == Name("CURRENT", 0)
InfoLog == Name("LOG", 0)
OldInfoLog == Name("LOG.old", 0)
LOCK == Name("LOCK", 0)
Notes == Name("notes.txt", 0)            \* a file ParseFileName does not know
Manifest(g) == Name("MANIFEST", g)
LogFile(g) == Name("log", g)
Table(g) == Name("table", g)

HasDir == dir # NoDir
Files == IF HasDir THEN DOMAIN dir ELSE {}
ParseFileName(f) == f # Notes
Without(f) == [g \in Files \ {f} |-> dir[g]]

\* LockFile makes the file when there is none; a lock is on the file, not on its name.
LockFree == lockfile.name \notin lockfile.locked
NewLock == CHOOSE n \in 1 .. 3 : n \notin lockfile.locked
Locked == IF lockfile.name = 0 THEN NewLock ELSE lockfile.name
Locking == [name |-> Locked, locked |-> lockfile.locked \cup {Locked}]
WithLock(fs) == [f \in DOMAIN fs \cup {LOCK} |-> IF f = LOCK THEN {} ELSE fs[f]]

-----------------------------------------------------------------------------
(* The other process.                                                       *)
LogItems == UNION {dir[f] : f \in {g \in Files : g[1] = "log"}}
\* The descriptor that CURRENT names, and the table it lists.
Named == IF CURRENT \in Files THEN CHOOSE g \in 0 .. MaxOpens : dir[CURRENT] = {g} ELSE 0
Listed == IF Manifest(Named) \in Files THEN dir[Manifest(Named)] ELSE {}
Recoverable == CURRENT \in Files => Manifest(Named) \in Files /\ (Listed # {} => Table(Named) \in Files)
Recovered == LogItems \cup (IF CURRENT \in Files /\ Listed # {} THEN dir[Table(Named)] ELSE {})

\* RemoveObsoleteFiles: what Open leaves; a file it does not know stays.
Opened(g, shows) ==
    [f \in {CURRENT, Manifest(g), LogFile(g), InfoLog, LOCK} \cup (IF shows = {} THEN {} ELSE {Table(g)})
             \cup (Files \cap {Notes, OldInfoLog}) |->
        CASE f = CURRENT -> {g} [] f = Manifest(g) -> (IF shows = {} THEN {} ELSE {g})
          [] f = Table(g) -> shows [] OTHER -> {}]

Within == destroy.pc \notin {"idle", "done"}

\* Seen from DestroyDB, a step of DB::Open.
Meets ==
    /\ past' = [past EXCEPT !.met = @ \/ Within]
    /\ destroy' = IF destroy.pc = "done" THEN [destroy EXCEPT !.pc = "idle"] ELSE destroy

\* Before there is a lock, the directory is made and LOG renamed and opened anew.
SanitizeOptions ==
    /\ db.pc = "closed" /\ past.opens < MaxOpens
    /\ db' = [db EXCEPT !.pc = "made"]
    /\ dir' = [f \in Files \cup {InfoLog} \cup (IF InfoLog \in Files THEN {OldInfoLog} ELSE {}) |->
                  IF f \in {InfoLog, OldInfoLog} THEN {} ELSE dir[f]]
    /\ Meets
    /\ UNCHANGED lockfile

LockRefused == db.pc = "made" /\ ~LockFree /\ db' = [db EXCEPT !.pc = "closed"] /\ UNCHANGED <<dir, lockfile, destroy, past>>

\* create_if_missing is set
Open ==
    /\ db.pc = "made" /\ LockFree /\ past.opens < MaxOpens /\ Recoverable
    /\ db' = [pc |-> "open", shows |-> Recovered, g |-> past.opens + 1, lock |-> Locked]
    /\ dir' = Opened(past.opens + 1, Recovered)
    /\ lockfile' = Locking
    /\ past' = [past EXCEPT !.opens = @ + 1, !.met = @ \/ Within, !.unnamed = FALSE]
    /\ destroy' = IF destroy.pc = "done" THEN [destroy EXCEPT !.pc = "idle"] ELSE destroy

\* "missing files", or CURRENT points to a file that is not there: the lock is given back.
OpenFails ==
    /\ db.pc = "made" /\ LockFree /\ ~Recoverable
    /\ db' = [db EXCEPT !.pc = "closed"]
    /\ dir' = WithLock(dir)
    /\ lockfile' = [Locking EXCEPT !.locked = lockfile.locked]
    /\ Meets

Write(i) ==
    /\ db.pc = "open" /\ i \notin past.written /\ LogFile(db.g) \in Files
    /\ dir' = [dir EXCEPT ![LogFile(db.g)] = @ \cup {i}]
    /\ db' = [db EXCEPT !.shows = @ \cup {i}]
    /\ past' = [past EXCEPT !.written = @ \cup {i}]
    /\ UNCHANGED <<lockfile, destroy>>

Close ==
    /\ db.pc = "open"
    /\ db' = [db EXCEPT !.pc = "closed"]
    /\ lockfile' = [lockfile EXCEPT !.locked = @ \ {db.lock}]
    /\ UNCHANGED <<dir, destroy, past>>

-----------------------------------------------------------------------------
(* DestroyDB.                                                               *)
Go(pc) == destroy' = [destroy EXCEPT !.pc = pc]

\* When the files cannot be listed, DestroyDB returns OK: there may be no directory.
GetChildren(fails) ==
    /\ destroy.pc \in {"idle", "done"}
    /\ fails => HasDir /\ past.faults < MaxCuts
    /\ destroy' = [destroy EXCEPT !.pc = IF HasDir /\ ~fails THEN "lock" ELSE "done", !.left = Files,
                                  !.ok = TRUE, !.listed = HasDir /\ ~fails]
    /\ past' = [past EXCEPT !.met = FALSE, !.faults = IF fails THEN @ + 1 ELSE @]
    /\ UNCHANGED <<dir, lockfile, db>>

LockFileAlways ==
    /\ destroy.pc = "lock" /\ HasDir
    /\ lockfile' = Locking /\ dir' = WithLock(dir)
    /\ destroy' = [destroy EXCEPT !.pc = "delete", !.lock = Locked]
    /\ UNCHANGED <<db, past>>

\* An error when the database is open, or its directory has gone meanwhile: nothing is touched.
LockFile ==
    /\ destroy.pc = "lock"
    /\ IF HasDir /\ LockFree
       THEN /\ lockfile' = Locking /\ dir' = WithLock(dir)
            /\ destroy' = [destroy EXCEPT !.pc = "delete", !.lock = Locked]
       ELSE /\ destroy' = [destroy EXCEPT !.pc = "idle", !.ok = FALSE]
            /\ UNCHANGED <<dir, lockfile>>
    /\ UNCHANGED <<db, past>>

\* The lock file is deleted at the end.
Deletable(f) == ParseFileName(f) /\ f # LOCK

DeleteFileForgetsError(f, fails) ==
    /\ destroy.pc = "delete" /\ f \in destroy.left
    /\ fails => Deletable(f) /\ f \in Files /\ past.faults < MaxCuts
    /\ dir' = IF Deletable(f) /\ ~fails THEN Without(f) ELSE dir
    /\ destroy' = [destroy EXCEPT !.left = @ \ {f}]
    /\ past' = [past EXCEPT !.faults = IF fails THEN @ + 1 ELSE @]
    /\ UNCHANGED <<lockfile, db>>

\* An error is kept, and the next file is tried.
DeleteFile(f, fails) ==
    /\ destroy.pc = "delete" /\ f \in destroy.left
    /\ fails => Deletable(f) /\ f \in Files /\ past.faults < MaxCuts
    /\ dir' = IF Deletable(f) /\ ~fails THEN Without(f) ELSE dir
    /\ destroy' = [destroy EXCEPT !.left = @ \ {f}, !.ok = @ /\ (Deletable(f) => f \in Files /\ ~fails)]
    /\ past' = [past EXCEPT !.faults = IF fails THEN @ + 1 ELSE @]
    /\ UNCHANGED <<lockfile, db>>

UnlockFile ==
    /\ destroy.pc = "delete" /\ destroy.left = {}
    /\ lockfile' = [lockfile EXCEPT !.locked = @ \ {destroy.lock}]
    /\ Go("unlocked") /\ UNCHANGED <<dir, db, past>>

DeleteLockFile ==
    /\ destroy.pc = "unlocked"
    /\ dir' = Without(LOCK) /\ lockfile' = [lockfile EXCEPT !.name = 0]
    /\ past' = [past EXCEPT !.unnamed = @ \/ db.pc = "open"]
    /\ Go("rmdir") /\ UNCHANGED db

\* rmdir of a directory that holds other files fails, and that is no error.
DeleteDir ==
    /\ destroy.pc = "rmdir"
    /\ dir' = IF Files = {} THEN NoDir ELSE dir
    /\ Go(IF destroy.ok THEN "done" ELSE "idle") /\ UNCHANGED <<lockfile, db, past>>

\* The process ends; its lock goes with it.
Crash ==
    /\ Within /\ past.faults < MaxCuts
    /\ destroy' = [destroy EXCEPT !.pc = "idle", !.ok = FALSE]
    /\ lockfile' = IF destroy.pc = "delete" THEN [lockfile EXCEPT !.locked = @ \ {destroy.lock}] ELSE lockfile
    /\ past' = [past EXCEPT !.faults = @ + 1]
    /\ UNCHANGED <<dir, db>>

-----------------------------------------------------------------------------
\* No database yet, with or without a directory that holds a file of somebody else.
Init ==
    /\ dir \in {NoDir, [f \in {Notes} |-> {}]}
    /\ lockfile = [name |-> 0, locked |-> {}]
    /\ db = [pc |-> "closed", shows |-> {}, g |-> 0, lock |-> 0]
    /\ destroy = [pc |-> "idle", left |-> {}, ok |-> FALSE, listed |-> FALSE, lock |-> 0]
    /\ past = [opens |-> 0, faults |-> 0, met |-> FALSE, unnamed |-> FALSE, written |-> {}, notes |-> HasDir]

Next ==
    \/ SanitizeOptions \/ LockRefused \/ Open \/ OpenFails \/ Close \/ \E i \in Items : Write(i)
    \/ \E fails \in BOOLEAN : GetChildren(fails)
    \/ LockFile \/ UnlockFile \/ DeleteLockFile \/ DeleteDir \/ Crash
    \/ \E f \in destroy.left, fails \in BOOLEAN : DeleteFile(f, fails)

Spec == Init /\ [][Next]_<<dir, lockfile, db, destroy, past>>

-----------------------------------------------------------------------------
(* Places in DestroyDB, and the data written.                               *)
TypeOK ==
    /\ destroy.pc \in {"idle", "lock", "delete", "unlocked", "rmdir", "done"}
    /\ db.shows \subseteq Items

(* A call that has listed the files and returns OK, with no step of DB::Open *)
(* in between its own, has left nothing of the database, also when it        *)
(* finishes what an earlier call that was cut off or met an error has begun: *)
(* the next Open shows nothing, and a directory that held nothing else is    *)
(* gone.  A call that could not list them returns OK as well and has done    *)
(* nothing, as db.h warns.                                                   *)
DestroyedAll ==
    destroy.pc = "done" /\ destroy.listed /\ ~past.met =>
        Files \subseteq {Notes} /\ (HasDir => past.notes)

(* DestroyDB never deletes a file of an open database, unless it has deleted *)
(* the LOCK file that this database had locked, which happens when the       *)
(* database was opened between UnlockFile and the deletion of LOCK; and it   *)
(* never deletes a file that is not the database's.                          *)
OpenKept ==
    /\ db.pc = "open" /\ ~past.unnamed =>
          {CURRENT, Manifest(db.g), LogFile(db.g)} \cup (IF Listed = {} THEN {} ELSE {Table(db.g)}) \subseteq Files
    /\ past.notes => Notes \in Files
=============================================================================
