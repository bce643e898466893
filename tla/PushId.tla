-------------------------------- MODULE PushId --------------------------------
(***************************************************************************)
(* Push ids of the Realtime Database client (FNextPushId get:): the keys of *)
(* /chats.  An id is the time in milliseconds followed by random digits;    *)
(* within one millisecond the random digits count upwards.  PUSH_CHARS      *)
(* lists its characters in the order of their codes, so an id is its        *)
(* sequence of digits and keys sort as the digits do.                       *)
(***************************************************************************)
EXTENDS Integers, Sequences

CONSTANTS Base,        \* 64 in the code
          TimeDigits,  \* 8
          RandDigits,  \* 12
          MaxTime,     \* bound: the last millisecond of the clock
          MaxIds       \* bound: ids taken

VARIABLES clock,          \* the clock of the phone, in milliseconds
          lastPushTime,
          lastRandChars,
          ids,            \* the ids handed out, in order
          epochs,         \* for each id, the epoch it was taken in
          epoch           \* counts the clock set back and the effects of an overrun

vars == <<clock, lastPushTime, lastRandChars, ids, epochs, epoch>>

Digit == 0 .. Base - 1
Rand == [1 .. RandDigits -> Digit]

\* A static that an increment outside the array has hit: no clock shows it.
Elsewhere == -1

TypeOK ==
    /\ clock \in 1 .. MaxTime
    /\ lastPushTime \in 0 .. MaxTime \cup {Elsewhere}
    /\ lastRandChars \in Rand
    /\ ids \in Seq([1 .. TimeDigits + RandDigits -> Digit])
    /\ epochs \in Seq(Nat) /\ epoch \in Nat

timeStampChars(now) ==
    [i \in 1 .. TimeDigits |-> (now \div Base ^ (TimeDigits - i)) % Base]

\* No carry: the last digit alone counts.
IncrementNoCarry(rand) == [rand EXCEPT ![RandDigits] = @ + 1]

\* One carry too few: the digit at its maximum stays there.
IncrementSaturates(rand) ==
    LET full(i) == \A j \in i .. RandDigits : rand[j] = Base - 1
    IN  [i \in 1 .. RandDigits |->
            IF rand[i] = Base - 1 THEN rand[i]
            ELSE IF full(i + 1) THEN rand[i] + 1
            ELSE rand[i]]

\* The trailing digits that are at their maximum become 0 and the one before
\* them is incremented; if all are, the increment leaves the array.
Increment(rand) ==
    LET full(i) == \A j \in i .. RandDigits : rand[j] = Base - 1
    IN  [i \in 1 .. RandDigits |->
            IF full(i) THEN 0
            ELSE IF full(i + 1) THEN rand[i] + 1
            ELSE rand[i]]

\* lastRandChars[-1]++ changes whatever lies before the array, perhaps lastPushTime.
Overrun(rand) == \A i \in 1 .. RandDigits : rand[i] = Base - 1

-----------------------------------------------------------------------------

Init ==
    /\ clock \in 1 .. MaxTime
    /\ lastPushTime = 0
    /\ lastRandChars = [i \in 1 .. RandDigits |-> 0]
    /\ ids = <<>> /\ epochs = <<>> /\ epoch = 0

\* The digits are drawn anew each time: two ids of one millisecond may come in
\* any order.
alwaysDraw(duplicateTime) == Rand

newDigits(duplicateTime) ==
    IF duplicateTime THEN {Increment(lastRandChars)} ELSE Rand

get ==
    LET duplicateTime == clock = lastPushTime
        over == duplicateTime /\ Overrun(lastRandChars)
        hit == lastPushTime = Elsewhere
    IN  /\ Len(ids) < MaxIds
        /\ lastRandChars' \in newDigits(duplicateTime)
        /\ lastPushTime' \in IF over THEN {clock, Elsewhere} ELSE {clock}
        /\ epoch' = IF over \/ hit THEN epoch + 1 ELSE epoch
        /\ ids' = Append(ids, timeStampChars(clock) \o lastRandChars')
        /\ epochs' = Append(epochs, epoch')
        /\ UNCHANGED clock

Tick == clock < MaxTime /\ clock' = clock + 1
        /\ UNCHANGED <<lastPushTime, lastRandChars, ids, epochs, epoch>>

\* The clock is adjusted: the time server or the user sets it back.
SetBack ==
    /\ epoch < MaxIds
    /\ \E t \in 1 .. clock - 1 : clock' = t
    /\ epoch' = epoch + 1
    /\ UNCHANGED <<lastPushTime, lastRandChars, ids, epochs>>

Next == get \/ Tick \/ SetBack

Spec == Init /\ [][Next]_vars

-----------------------------------------------------------------------------

Less(a, b) ==
    \E i \in DOMAIN a : a[i] < b[i] /\ \A j \in 1 .. i - 1 : a[j] = b[j]

\* Ids increase, hence differ, as long as the clock is not set back and the
\* random digits of one millisecond do not run over: what lets a phone's messages
\* be listed in the order they were sent.
Increasing ==
    \A i, j \in DOMAIN ids :
        i < j /\ epochs[i] = epochs[j] => Less(ids[i], ids[j])

\* The digits run over only from the last id of a millisecond, and the id that
\* follows is the first of that millisecond again: it sorts
\* before the one just given.
Restarts ==
    epochs' # epochs /\ epoch' # epoch /\ lastPushTime # Elsewhere =>
        /\ \A i \in 1 .. RandDigits : lastRandChars'[i] = 0
        /\ Less(ids'[Len(ids')], ids[Len(ids)])
=============================================================================
