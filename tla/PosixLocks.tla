------------------------------ MODULE PosixLocks ------------------------------
(***************************************************************************)
(* LockFile and UnlockFile of leveldb's PosixEnv, which keep a database to  *)
(* one opener: locks_ of each process keeps its own threads apart, fcntl    *)
(* keeps processes apart.  A process loses its fcntl lock on a file when it *)
(* closes ANY descriptor of that file.                                      *)
(***************************************************************************)
EXTENDS Integers, FiniteSets

CONSTANTS Processes, LockThreads,
          NoProcess,
          MaxCalls      \* bound: calls of LockFile by a thread

VARIABLES
    locked,    \* process |-> the file is in locked_files_
    owner,     \* the process that has the fcntl lock, or NoProcess
    locker,    \* process and thread |-> pc, whether it holds a PosixFileLock, calls made
    stray      \* history: a descriptor was closed while a thread of the process held the lock

lockvars == <<locked, owner, locker, stray>>

At(p, t, pc) == locker[p][t].pc = pc
Go(p, t, pc) == locker' = [locker EXCEPT ![p][t].pc = pc]
Holds(p, t) == At(p, t, "holds")

\* close(2) of a descriptor of the lock file
CloseFd(p) ==
    /\ owner' = IF owner = p THEN NoProcess ELSE owner
    /\ stray' = (stray \/ (owner = p /\ \E t \in LockThreads : Holds(p, t)))

-----------------------------------------------------------------------------
(* LockFile.                                                                *)
Open(p, t, ok) ==
    /\ At(p, t, "idle") /\ locker[p][t].calls < MaxCalls
    /\ locker' = [locker EXCEPT ![p][t] = [pc |-> IF ok THEN "insert" ELSE "idle", calls |-> @.calls + 1]]
    /\ UNCHANGED <<locked, owner, stray>>

\* what the table says is not looked at
InsertAlways(p, t) ==
    /\ At(p, t, "insert")
    /\ locked' = [locked EXCEPT ![p] = TRUE]
    /\ Go(p, t, "fcntl")
    /\ UNCHANGED <<owner, stray>>

Insert(p, t) ==
    /\ At(p, t, "insert")
    /\ locked' = [locked EXCEPT ![p] = TRUE]
    /\ Go(p, t, IF locked[p] THEN "refused" ELSE "fcntl")
    /\ UNCHANGED <<owner, stray>>

\* "already held by process": the descriptor is closed
Refused(p, t) == At(p, t, "refused") /\ CloseFd(p) /\ Go(p, t, "idle") /\ UNCHANGED locked

\* F_SETLK does not wait
LockOrUnlock(p, t) ==
    /\ At(p, t, "fcntl")
    /\ owner' = IF owner = NoProcess THEN p ELSE owner
    /\ Go(p, t, IF owner \in {NoProcess, p} THEN "holds" ELSE "failed")
    /\ UNCHANGED <<locked, stray>>

LockFails(p, t) ==
    /\ At(p, t, "fcntl") /\ Go(p, t, "failed")
    /\ UNCHANGED <<locked, owner, stray>>

FailedClose(p, t) == At(p, t, "failed") /\ CloseFd(p) /\ Go(p, t, "remove") /\ UNCHANGED locked

\* the name stays in the table
RemoveForgotten(p, t) ==
    /\ At(p, t, "remove") /\ Go(p, t, "idle")
    /\ UNCHANGED <<locked, owner, stray>>

FailedRemove(p, t) ==
    /\ At(p, t, "remove") /\ locked' = [locked EXCEPT ![p] = FALSE] /\ Go(p, t, "idle")
    /\ UNCHANGED <<owner, stray>>

-----------------------------------------------------------------------------
(* UnlockFile: F_UNLCK, then the table, then close.                         *)
Unlock(p, t) ==
    /\ Holds(p, t)
    /\ owner' = IF owner = p THEN NoProcess ELSE owner
    /\ Go(p, t, "unlocked")
    /\ UNCHANGED <<locked, stray>>

\* an error leaves the lock in the table for good
UnlockFails(p, t) == Holds(p, t) /\ Go(p, t, "lost") /\ UNCHANGED <<locked, owner, stray>>

Remove(p, t) ==
    /\ At(p, t, "unlocked") /\ locked' = [locked EXCEPT ![p] = FALSE] /\ Go(p, t, "closing")
    /\ UNCHANGED <<owner, stray>>

UnlockClose(p, t) == At(p, t, "closing") /\ CloseFd(p) /\ Go(p, t, "idle") /\ UNCHANGED locked

\* the process ends: the system closes its descriptors; it may be started again
Exit(p) ==
    /\ \E t \in LockThreads : ~At(p, t, "idle")
    /\ owner' = IF owner = p THEN NoProcess ELSE owner
    /\ locked' = [locked EXCEPT ![p] = FALSE]
    /\ locker' = [locker EXCEPT ![p] = [t \in LockThreads |-> [locker[p][t] EXCEPT !.pc = "idle"]]]
    /\ UNCHANGED stray

-----------------------------------------------------------------------------
Init ==
    /\ locked = [p \in Processes |-> FALSE] /\ owner = NoProcess /\ stray = FALSE
    /\ locker = [p \in Processes |-> [t \in LockThreads |-> [pc |-> "idle", calls |-> 0]]]

Next ==
    \E p \in Processes :
        \/ \E t \in LockThreads :
              \/ \E ok \in BOOLEAN : Open(p, t, ok)
              \/ Insert(p, t) \/ Refused(p, t) \/ LockOrUnlock(p, t) \/ LockFails(p, t)
              \/ FailedClose(p, t) \/ FailedRemove(p, t)
              \/ Unlock(p, t) \/ UnlockFails(p, t) \/ Remove(p, t) \/ UnlockClose(p, t)
        \/ Exit(p)

Spec == Init /\ [][Next]_lockvars

-----------------------------------------------------------------------------
\* PosixLockTable: whether the process has the name of the file in its table.
PosixLockTable == BOOLEAN

\* PosixFileLock: from fcntl on a thread has the descriptor of the lock file; a lost one is never given back.
IsPosixFileLock(l) ==
    /\ l.pc \in {"idle", "insert", "refused", "fcntl", "failed", "remove", "holds", "unlocked", "closing", "lost"}
    /\ l.calls \in 0 .. MaxCalls

TypeOK ==
    /\ owner \in Processes \cup {NoProcess} /\ locked \in [Processes -> PosixLockTable]
    /\ \A p \in Processes, t \in LockThreads : IsPosixFileLock(locker[p][t])

(* Threads of one process never hold the lock at the same time.  Threads of *)
(* two processes do, against what env.h promises of LockFile, but only      *)
(* after one of them has lost its fcntl lock to the closing of another      *)
(* descriptor (stray): that of a call of LockFile refused by its own        *)
(* process, or of an UnlockFile not yet finished.                           *)
OneHolder ==
    \A p, q \in Processes, t, u \in LockThreads :
        Holds(p, t) /\ Holds(q, u) => (p = q /\ t = u) \/ (p # q /\ stray)

(* A database that nobody holds or is asking for can be locked again: the   *)
(* table has no name left over, unless unlocking failed.                    *)
NoNameLeft ==
    \A p \in Processes :
        (\A t \in LockThreads : At(p, t, "idle")) => ~locked[p] /\ owner # p
=============================================================================
