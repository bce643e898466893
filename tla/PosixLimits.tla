----------------------------- MODULE PosixLimits -----------------------------
(***************************************************************************)
(* Read-only files of leveldb's PosixEnv: NewRandomAccessFile maps a file   *)
(* into memory while mmap_limiter_ allows it, else keeps a descriptor open  *)
(* while fd_limiter_ allows it, else opens the file on every read.  Threads *)
(* open, read and delete files at the same time; Limiter is two atomic      *)
(* operations, not one.  The limits are set, or taken from the descriptors  *)
(* the system allows, before the first call of Env::Default makes the one   *)
(* PosixEnv of the process (SingletonEnv), and not after it.                *)
(***************************************************************************)
EXTENDS Integers, FiniteSets, FiniteSetsExt

CONSTANTS FileThreads,
          kDefaultMmapLimit,
          Settings,     \* limits that EnvPosixTestHelper sets
          Rlimits,      \* descriptors the process may have, UnknownLimit or Infinite
          UnknownLimit, Infinite,
          Fallback,     \* 50 in the code
          MaxInt,       \* std::numeric_limits<int>::max()
          MaxHeld       \* bound: files a thread has open

VARIABLES
    allowed,   \* acquires_allowed_ of both limiters
    opener,    \* thread |-> where it is (pc), descriptors it has open for the call
    held,      \* thread |-> its files by kind: mmap, fd, none
    env        \* SingletonEnv: whether it is initialized; g_mmap_limit, g_open_read_only_file_limit

limitvars == <<allowed, opener, held, env>>

Unset == -1
Kinds == {"mmap", "fd", "none"}
Limit == [mmap |-> env.mmap, fd |-> env.fd]
At(t, pc) == opener[t].pc = pc
Go(t, pc, fds) == opener' = [opener EXCEPT ![t] = [pc |-> pc, fds |-> @.fds + fds]]
Files(t) == held[t].mmap + held[t].fd + held[t].none

-----------------------------------------------------------------------------
(* EnvPosixTestHelper and SingletonEnv.                                     *)

\* SetReadOnlyMMapLimit and SetReadOnlyFDLimit; AssertEnvNotInitialized
SetLimit(kind, limit) ==
    /\ ~env.initialized
    /\ env' = [env EXCEPT ![kind] = limit]
    /\ UNCHANGED <<allowed, opener, held>>

\* a fifth of the descriptors, unless a limit was set
MaxOpenFiles(rlim) ==
    IF env.fd # Unset THEN env.fd
    ELSE CASE rlim = UnknownLimit -> Fallback [] rlim = Infinite -> MaxInt [] OTHER -> rlim \div 5

\* the first call, by any thread, makes the PosixEnv and its limiters; nothing destroys it
Default(rlim) ==
    /\ ~env.initialized
    /\ env' = [env EXCEPT !.initialized = TRUE, !.fd = MaxOpenFiles(rlim)]
    /\ allowed' = [mmap |-> env.mmap, fd |-> MaxOpenFiles(rlim)]
    /\ UNCHANGED <<opener, held>>

-----------------------------------------------------------------------------
(* Limiter.                                                                 *)
\* the last one may be taken twice
AcquireLoose(t, kind, yes, no) ==
    /\ allowed' = [allowed EXCEPT ![kind] = @ - 1]
    /\ Go(t, IF allowed[kind] >= 0 THEN yes ELSE no, 0)

\* fetch_sub; what it found decides, and a failed one still has to be undone
Acquire(t, kind, yes, no) ==
    /\ allowed' = [allowed EXCEPT ![kind] = @ - 1]
    /\ Go(t, IF allowed[kind] > 0 THEN yes ELSE no, 0)

Release(kind) == allowed' = [allowed EXCEPT ![kind] = @ + 1]

-----------------------------------------------------------------------------
(* NewRandomAccessFile.                                                     *)
Open(t, ok) ==
    /\ env.initialized /\ At(t, "idle") /\ Files(t) < MaxHeld
    /\ IF ok THEN Go(t, "map", 1) ELSE UNCHANGED opener
    /\ UNCHANGED <<allowed, held, env>>

AcquireMap(t) == At(t, "map") /\ Acquire(t, "mmap", "size", "unmap") /\ UNCHANGED <<held, env>>
UndoMap(t) == At(t, "unmap") /\ Release("mmap") /\ Go(t, "fd", 0) /\ UNCHANGED <<held, env>>

\* GetFileSize and mmap; either may fail
Map(t, ok) ==
    /\ At(t, "size")
    /\ held' = IF ok THEN [held EXCEPT ![t].mmap = @ + 1] ELSE held
    /\ Go(t, IF ok THEN "close" ELSE "closefail", 0)
    /\ UNCHANGED <<allowed, env>>

CloseFd(t) ==
    /\ opener[t].pc \in {"close", "closefail"}
    /\ Go(t, IF At(t, "close") THEN "idle" ELSE "giveback", -1)
    /\ UNCHANGED <<allowed, held, env>>

\* nothing is given back after an error
ForgetMap(t) == At(t, "giveback") /\ UNCHANGED <<allowed, held, env>> /\ Go(t, "idle", 0)

GiveBackMap(t) == At(t, "giveback") /\ Release("mmap") /\ Go(t, "idle", 0) /\ UNCHANGED <<held, env>>

\* the constructor of PosixRandomAccessFile
AcquireFd(t) == At(t, "fd") /\ Acquire(t, "fd", "keep", "unfd") /\ UNCHANGED <<held, env>>
UndoFd(t) == At(t, "unfd") /\ Release("fd") /\ Go(t, "drop", 0) /\ UNCHANGED <<held, env>>
KeepFd(t) == At(t, "keep") /\ held' = [held EXCEPT ![t].fd = @ + 1] /\ Go(t, "idle", -1) /\ UNCHANGED <<allowed, env>>
DropFd(t) == At(t, "drop") /\ held' = [held EXCEPT ![t].none = @ + 1] /\ Go(t, "idle", -1) /\ UNCHANGED <<allowed, env>>

-----------------------------------------------------------------------------
(* Read of a file without a descriptor opens it and closes it again; the    *)
(* other kinds of Read change nothing.                                      *)
ReadOpens(t) == At(t, "idle") /\ held[t].none > 0 /\ Go(t, "reading", 1) /\ UNCHANGED <<allowed, held, env>>
ReadCloses(t) == At(t, "reading") /\ Go(t, "idle", -1) /\ UNCHANGED <<allowed, held, env>>

(* The destructors: munmap or close, then Release.                          *)
Delete(t, kind) ==
    /\ At(t, "idle") /\ held[t][kind] > 0
    /\ held' = [held EXCEPT ![t][kind] = @ - 1]
    /\ Go(t, CASE kind = "mmap" -> "unmapped" [] kind = "fd" -> "closed" [] kind = "none" -> "idle", 0)
    /\ UNCHANGED <<allowed, env>>

DeleteReleases(t) ==
    /\ opener[t].pc \in {"unmapped", "closed"}
    /\ Release(IF At(t, "unmapped") THEN "mmap" ELSE "fd")
    /\ Go(t, "idle", 0)
    /\ UNCHANGED <<held, env>>

-----------------------------------------------------------------------------
Init ==
    /\ env = [initialized |-> FALSE, mmap |-> kDefaultMmapLimit, fd |-> Unset]
    /\ allowed = [mmap |-> 0, fd |-> 0]
    /\ opener = [t \in FileThreads |-> [pc |-> "idle", fds |-> 0]]
    /\ held = [t \in FileThreads |-> [k \in Kinds |-> 0]]

Next ==
    \/ \E kind \in {"mmap", "fd"}, limit \in Settings : SetLimit(kind, limit)
    \/ \E rlim \in Rlimits : Default(rlim)
    \/ \E t \in FileThreads :
        \/ \E ok \in BOOLEAN : Open(t, ok) \/ Map(t, ok)
        \/ AcquireMap(t) \/ UndoMap(t) \/ CloseFd(t) \/ GiveBackMap(t)
        \/ AcquireFd(t) \/ UndoFd(t) \/ KeepFd(t) \/ DropFd(t)
        \/ ReadOpens(t) \/ ReadCloses(t)
        \/ \E kind \in Kinds : Delete(t, kind)
        \/ DeleteReleases(t)

Spec == Init /\ [][Next]_limitvars

-----------------------------------------------------------------------------
\* SingletonEnv: the limits are set before it is initialized and never after.
IsSingletonEnv(e) == e.initialized \in BOOLEAN /\ e.mmap \in Int /\ e.fd \in Int

\* Limiter: never more than its limit, and below 0 only by the threads that are in Acquire.
IsLimiter(left, limit) == left \in -Cardinality(FileThreads) .. limit

\* RandomAccessFile: the files a thread has open, by kind.
RandomAccessFiles == [Kinds -> 0 .. MaxHeld]

TypeOK ==
    /\ IsSingletonEnv(env)
    /\ env.initialized => \A k \in DOMAIN Limit : IsLimiter(allowed[k], Limit[k])
    /\ held \in [FileThreads -> RandomAccessFiles]

InUse(kind) == FoldSet(LAMBDA t, n : n + held[t][kind], 0, FileThreads)

(* At no time are more files mapped, or kept open, than the limiters were   *)
(* made for, whatever the threads do at the same time; a process that may   *)
(* have fewer than five descriptors keeps none open.                        *)
LimitsHeld == env.initialized => \A k \in DOMAIN Limit : InUse(k) <= Limit[k]

(* Nothing leaks, also when opening or mapping fails: once the threads are  *)
(* between calls the counters are exactly the limits less what is in use,   *)
(* and no descriptor is open but those of the files that keep one.          *)
AllGivenBack ==
    env.initialized /\ (\A t \in FileThreads : At(t, "idle")) =>
        /\ \A k \in DOMAIN Limit : allowed[k] = Limit[k] - InUse(k)
        /\ \A t \in FileThreads : opener[t].fds = 0
=============================================================================
