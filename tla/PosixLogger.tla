----------------------------- MODULE PosixLogger -----------------------------
(***************************************************************************)
(* PosixLogger::Logv (util/posix_logger.h): a line of the info log is        *)
(* printed into a buffer on the stack and, when it does not fit, once more   *)
(* into one of the size that the first attempt has asked for.  snprintf      *)
(* stores at most one character less than the buffer has and returns how     *)
(* many it would have stored.  A line is the number of its characters and    *)
(* whether the last one ends the line.                                       *)
(***************************************************************************)
EXTENDS Integers, Sequences

CONSTANTS kStackBufferSize,   \* 512 in the code
          HeaderSizes,        \* characters of the date and the thread, 28 and at most 32 more
          MaxMessage,         \* bound: characters of a message
          MaxLines            \* bound: lines of the log

VARIABLES logv,     \* the call under way: message, buffer, iteration
          infolog   \* the file, and as history the messages it was given

Idle == [pc |-> "idle", header |-> 0, message |-> 0, ended |-> FALSE, iteration |-> 0, size |-> 0, offset |-> 0]
Least(a, b) == IF a < b THEN a ELSE b

Init == logv = Idle /\ infolog = [lines |-> <<>>, given |-> <<>>]

\* The message may end with a newline of its own.
Logv(h, n, ended) ==
    /\ logv.pc = "idle" /\ Len(infolog.given) < MaxLines
    /\ logv' = [pc |-> "print", header |-> h, message |-> n, ended |-> ended, iteration |-> 0, size |-> kStackBufferSize, offset |-> 0]
    /\ infolog' = [infolog EXCEPT !.given = Append(@, h + n + (IF ended THEN 0 ELSE 1))]

\* snprintf and vsnprintf return the size of the whole.
FormatLine ==
    /\ logv.pc = "print"
    /\ logv' = [logv EXCEPT !.pc = "check", !.offset = logv.header + logv.message]
    /\ UNCHANGED infolog

\* Room for a newline after the last character, and for the end of the string.
DynamicSizeTight == logv.offset
DynamicSize == logv.offset + 2

Fits == logv.offset < logv.size - 1

\* The second attempt, or, when even that buffer is too small, a line cut short.
TooSmall ==
    /\ logv.pc = "check" /\ ~Fits
    /\ logv' = IF logv.iteration = 0 THEN [logv EXCEPT !.pc = "print", !.iteration = 1, !.size = DynamicSize]
               ELSE [logv EXCEPT !.pc = "end", !.offset = logv.size - 1]
    /\ UNCHANGED infolog

Enough == logv.pc = "check" /\ Fits /\ logv' = [logv EXCEPT !.pc = "end"] /\ UNCHANGED infolog

\* What the buffer holds at the offset: the message was stored up to size - 1.
Stored == Least(logv.header + logv.message, logv.size - 1)
EndsLine == logv.ended /\ logv.offset = logv.header + logv.message /\ Stored = logv.offset

\* A newline is added unless there is one; the line is written and flushed.
EndLine ==
    /\ logv.pc = "end"
    /\ logv' = [logv EXCEPT !.pc = "write", !.offset = IF EndsLine THEN @ ELSE @ + 1]
    /\ UNCHANGED infolog

Write ==
    /\ logv.pc = "write"
    /\ infolog' = [infolog EXCEPT !.lines = Append(@, logv.offset)]
    /\ logv' = Idle

Next ==
    \/ \E h \in HeaderSizes, n \in 0 .. MaxMessage, ended \in BOOLEAN : (n > 0 \/ ~ended) /\ Logv(h, n, ended)
    \/ FormatLine \/ TooSmall \/ Enough \/ EndLine \/ Write

Spec == Init /\ [][Next]_<<logv, infolog>>

-----------------------------------------------------------------------------
(* A call prints at most twice.                                             *)
TypeOK == logv.iteration \in {0, 1} /\ logv.offset \in 0 .. logv.header + logv.message + 1

(* The file has every message, once, whole and ended by one newline, and no  *)
(* character is stored behind the end of a buffer, whatever the lengths: the *)
(* branch that cuts a line short is never taken (assert(false) in Logv).     *)
LinesWhole ==
    /\ logv.pc = "idle" => infolog.lines = infolog.given
    /\ logv.pc = "write" => logv.offset <= logv.size
    /\ ~(logv.pc = "check" /\ logv.iteration = 1 /\ ~Fits)
=============================================================================
