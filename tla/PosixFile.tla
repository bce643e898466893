------------------------------ MODULE PosixFile ------------------------------
(***************************************************************************)
(* Files of leveldb's PosixEnv: one file, written through the buffer of     *)
(* PosixWritableFile (Append, Flush, Sync, Close) or by WriteStringToFile,  *)
(* read by ReadFileToString.  Every system call is a step: it may take less *)
(* than it was given, or fail; the machine may fail between any two.  The   *)
(* bytes of the file are numbered in the order in which they are appended.  *)
(***************************************************************************)
EXTENDS Integers, Sequences, SequencesExt

CONSTANTS BufferSize,     \* kWritableFileBufferSize
          AppendSizes,    \* bytes of a call of Append
          MaxBytes        \* bound: bytes appended

VARIABLES
    disk,      \* the file: its bytes, how many are on the medium, whether it exists
    wf,        \* PosixWritableFile: buf_, the call under way (op, pc), what it has to write (todo, rest)
    rd,        \* ReadFileToString: what it has read, whether it has returned
    calls      \* history: bytes appended (all, and to this file: sent), failed, synced

posixvars == <<disk, wf, rd, calls>>

NoFile == [data |-> << >>, dur |-> 0, exists |-> FALSE]
Shut == [fd |-> FALSE, whole |-> FALSE, buf |-> << >>, op |-> "none", pc |-> "idle", todo |-> << >>, rest |-> << >>]
NotRead == [at |-> 0, got |-> << >>, do |-> "none"]
Idle == wf.fd /\ wf.pc = "idle"
NewBytes(n) == [i \in 1 .. n |-> calls.all + i]

-----------------------------------------------------------------------------
(* Opening: NewWritableFile truncates, NewAppendableFile goes on.           *)
NewFile(old, whole) ==
    /\ ~wf.fd /\ wf.op = "none" /\ rd.do # "read" /\ calls.all < MaxBytes
    /\ disk' = [old EXCEPT !.exists = TRUE]
    /\ wf' = [Shut EXCEPT !.fd = TRUE, !.whole = whole]
    /\ rd' = NotRead
    /\ calls' = [calls EXCEPT !.sent = old.data, !.failed = FALSE,
                              !.synced = IF old = NoFile THEN << >> ELSE @]

NewWritableFile == NewFile(NoFile, FALSE)
NewAppendableFile == NewFile(disk, FALSE)
DoWriteStringToFile == NewFile(NoFile, TRUE)

\* what the call op does once the buffer is to be written first
FlushBuffer(w, op) == [w EXCEPT !.op = op, !.pc = "flush", !.todo = w.buf]

\* DoWriteStringToFile goes on with Sync and Close, and after an error with delete
Return(w, ok) ==
    /\ wf' = CASE ~w.whole -> [w EXCEPT !.op = "none", !.pc = "idle"]
               [] w.whole /\ ~ok -> FlushBuffer(w, "close")
               [] w.whole /\ ok /\ w.op = "append" -> [w EXCEPT !.op = "sync", !.pc = "dir"]
               [] w.whole /\ ok /\ w.op = "sync" -> FlushBuffer(w, "close")
    /\ calls' = [calls EXCEPT !.failed = @ \/ ~ok,
                              !.synced = IF w.op = "sync" /\ ok /\ ~calls.failed THEN calls.sent ELSE @]

\* as much as possible goes to the buffer, the rest waits until it is written
Append0(new, copy) ==
    LET w == [wf EXCEPT !.buf = @ \o SubSeq(new, 1, copy), !.rest = SubSeq(new, copy + 1, Len(new)),
                        !.op = "append"]
        sent == [calls EXCEPT !.all = @ + Len(new), !.sent = @ \o new]
    IN IF w.rest # << >> THEN wf' = FlushBuffer(w, "append") /\ calls' = sent
       ELSE /\ wf' = IF w.whole THEN [w EXCEPT !.op = "sync", !.pc = "dir"] ELSE [w EXCEPT !.op = "none"]
            /\ calls' = sent

Smaller(m, n) == IF m < n THEN m ELSE n

AppendBytes(n) ==
    /\ Idle /\ calls.all + n <= MaxBytes
    /\ Append0(NewBytes(n), Smaller(n, BufferSize - Len(wf.buf)))
    /\ UNCHANGED <<disk, rd>>

Flush == Idle /\ ~wf.whole /\ wf' = FlushBuffer(wf, "flush") /\ UNCHANGED <<disk, rd, calls>>
Sync == Idle /\ ~wf.whole /\ wf' = [wf EXCEPT !.op = "sync", !.pc = "dir"] /\ UNCHANGED <<disk, rd, calls>>

\* also the destructor, which drops the status
Close == Idle /\ ~wf.whole /\ wf' = FlushBuffer(wf, "close") /\ UNCHANGED <<disk, rd, calls>>

-----------------------------------------------------------------------------
(* The system calls.                                                        *)
\* the buffer is left where it is
SyncDirOnly(ok) ==
    /\ wf.pc = "dir"
    /\ IF ok THEN wf' = [wf EXCEPT !.pc = "fsync"] /\ UNCHANGED calls ELSE Return(wf, FALSE)
    /\ UNCHANGED <<disk, rd>>

\* the directory is synced first, if the file is a MANIFEST
SyncDirIfManifest(ok) ==
    /\ wf.pc = "dir"
    /\ IF ok THEN wf' = FlushBuffer(wf, "sync") /\ UNCHANGED calls ELSE Return(wf, FALSE)
    /\ UNCHANGED <<disk, rd>>

Writing == wf.pc \in {"flush", "direct"} /\ wf.todo # << >>

\* the loop of WriteUnbuffered does not advance its pointer
WriteUnadvanced(k) ==
    /\ Writing /\ k \in 1 .. Len(wf.todo)
    /\ disk' = [disk EXCEPT !.data = @ \o SubSeq(wf.todo, 1, k)]
    /\ wf' = [wf EXCEPT !.todo = SubSeq(@, 1, Len(@) - k)]
    /\ UNCHANGED <<rd, calls>>

\* write(2) takes k bytes; EINTR and 0 are tried again
WriteUnbuffered(k) ==
    /\ Writing /\ k \in 1 .. Len(wf.todo)
    /\ disk' = [disk EXCEPT !.data = @ \o SubSeq(wf.todo, 1, k)]
    /\ wf' = [wf EXCEPT !.todo = SubSeq(@, k + 1, Len(@))]
    /\ UNCHANGED <<rd, calls>>

\* pos_ keeps its value when the write failed
EmptiedIfWritten(w) == [w EXCEPT !.buf = IF w.todo = << >> THEN << >> ELSE @, !.todo = << >>]

\* pos_ is reset whether the buffer was written or not
Emptied(w) == [w EXCEPT !.buf = << >>, !.todo = << >>]

WriteFails ==
    /\ Writing
    /\ IF wf.op = "close"
       THEN wf' = [Emptied(wf) EXCEPT !.pc = "close"] /\ calls' = [calls EXCEPT !.failed = TRUE]
       ELSE Return([Emptied(wf) EXCEPT !.rest = << >>], FALSE)
    /\ UNCHANGED <<disk, rd>>

\* small rests go to the buffer, large ones are written directly
AppendRest(w) ==
    IF Len(w.rest) < BufferSize THEN Return([w EXCEPT !.buf = w.rest, !.rest = << >>], TRUE)
    ELSE wf' = [w EXCEPT !.pc = "direct", !.todo = w.rest, !.rest = << >>] /\ UNCHANGED calls

Written ==
    /\ wf.pc \in {"flush", "direct"} /\ wf.todo = << >>
    /\ CASE wf.op = "append" /\ wf.pc = "flush" -> AppendRest(Emptied(wf))
         [] wf.op = "append" /\ wf.pc = "direct" -> Return(wf, TRUE)
         [] wf.op = "flush" -> Return(Emptied(wf), TRUE)
         [] wf.op = "sync" -> wf' = [Emptied(wf) EXCEPT !.pc = "fsync"] /\ UNCHANGED calls
         [] wf.op = "close" -> wf' = [Emptied(wf) EXCEPT !.pc = "close"] /\ UNCHANGED calls
    /\ UNCHANGED <<disk, rd>>

\* F_FULLFSYNC, or fsync where the file system does not know it
SyncFd(ok) ==
    /\ wf.pc = "fsync"
    /\ disk' = IF ok THEN [disk EXCEPT !.dur = Len(disk.data)] ELSE disk
    /\ Return(wf, ok)
    /\ UNCHANGED rd

\* DoWriteStringToFile deletes the file after an error
CloseFd(ok) ==
    /\ wf.pc = "close"
    /\ wf' = [Shut EXCEPT !.op = IF wf.whole /\ (calls.failed \/ ~ok) THEN "delete" ELSE "none"]
    /\ calls' = [calls EXCEPT !.failed = @ \/ ~ok]
    /\ UNCHANGED <<disk, rd>>

DeleteFile ==
    /\ wf.op = "delete"
    /\ disk' = NoFile /\ wf' = Shut /\ calls' = [calls EXCEPT !.synced = << >>]
    /\ UNCHANGED rd

-----------------------------------------------------------------------------
(* ReadFileToString reads fragments until one is empty.                     *)
ReadFileToString ==
    /\ ~wf.fd /\ wf.op = "none" /\ disk.exists /\ rd = NotRead
    /\ rd' = [NotRead EXCEPT !.do = "read"]
    /\ UNCHANGED <<disk, wf, calls>>

\* a short fragment is taken for the last one
LastIfShort(k, size) == k < size

LastFragment(k, size) == k = 0

\* PosixSequentialFile::Read: at most the size asked for, possibly less; EINTR is tried again
Read(k) ==
    /\ rd.do = "read" /\ k \in 0 .. Smaller(BufferSize, Len(disk.data) - rd.at)
    /\ k = 0 => rd.at = Len(disk.data)
    /\ rd' = [at |-> rd.at + k, got |-> rd.got \o SubSeq(disk.data, rd.at + 1, rd.at + k),
              do |-> IF LastFragment(k, BufferSize) THEN "done" ELSE "read"]
    /\ UNCHANGED <<disk, wf, calls>>

ReadFails == rd.do = "read" /\ rd' = [rd EXCEPT !.do = "error"] /\ UNCHANGED <<disk, wf, calls>>

\* what is not on the medium may be gone, a file that was never synced with its name too
MachineFails(n) ==
    /\ n \in disk.dur .. Len(disk.data)
    /\ disk' = [disk EXCEPT !.data = SubSeq(@, 1, n), !.dur = n]
    /\ wf' = Shut /\ rd' = NotRead
    /\ calls' = [calls EXCEPT !.sent = SubSeq(disk.data, 1, n), !.failed = FALSE]

-----------------------------------------------------------------------------
Init ==
    /\ disk = NoFile /\ wf = Shut /\ rd = NotRead
    /\ calls = [all |-> 0, sent |-> << >>, failed |-> FALSE, synced |-> << >>]

Next ==
    \/ NewWritableFile \/ NewAppendableFile \/ DoWriteStringToFile
    \/ \E n \in AppendSizes : AppendBytes(n)
    \/ Flush \/ Sync \/ Close \/ WriteFails \/ Written \/ DeleteFile
    \/ \E k \in 1 .. MaxBytes : WriteUnbuffered(k)
    \/ \E ok \in BOOLEAN : SyncDirIfManifest(ok) \/ SyncFd(ok) \/ CloseFd(ok)
    \/ ReadFileToString \/ ReadFails
    \/ \E k \in 0 .. BufferSize : Read(k)
    \/ \E n \in 0 .. MaxBytes : MachineFails(n)

Spec == Init /\ [][Next]_posixvars

-----------------------------------------------------------------------------
\* WritableFile: what it holds back fits into its buffer.
IsWritableFile(w) ==
    /\ Len(w.buf) <= BufferSize
    /\ w.op \in {"none", "append", "flush", "sync", "close", "delete"}
    /\ w.pc \in {"idle", "dir", "flush", "direct", "fsync", "close"}

\* SequentialFile: where it is, and what was read from the beginning of the file.
IsSequentialFile(r) == r.at \in 0 .. Len(disk.data) /\ Len(r.got) = r.at

TypeOK ==
    /\ disk.dur \in 0 .. Len(disk.data) /\ disk.exists \in BOOLEAN
    /\ IsWritableFile(wf) /\ IsSequentialFile(rd)

\* what of the buffer and of the call under way has not reached the file
Pending == IF wf.pc \in {"flush", "direct"} THEN wf.todo \o wf.rest ELSE wf.buf

(* As long as no call has failed, the file followed by what the buffer      *)
(* still holds is what was appended, in order, however the writes were cut; *)
(* after Close the file is complete.                                        *)
FileExact == wf.op # "delete" /\ ~calls.failed => disk.data \o Pending = calls.sent

(* Also after failed writes no byte is in the file twice and none overtakes *)
(* an earlier one: a buffer that could not be written is given up.          *)
NeverTwice == \A i, j \in 1 .. Len(disk.data) : i < j => disk.data[i] < disk.data[j]

(* Whatever was appended before a Sync that succeeded, after no error, is   *)
(* there, also when the machine fails.                                      *)
SyncKept == IsPrefix(calls.synced, disk.data)

(* ReadFileToString returns the whole file, although reads may be short.    *)
ReadsWhole == rd.do = "done" => rd.got = disk.data
=============================================================================
