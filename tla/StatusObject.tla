----------------------------- MODULE StatusObject -----------------------------
(***************************************************************************)
(* leveldb's Status (include/leveldb/status.h, util/status.cc): an object is *)
(* one pointer, null for success, else to an array it owns that holds the    *)
(* length of the message, the code and the message.  Objects are copied,     *)
(* moved into one another and destroyed; a result that is assigned is a      *)
(* temporary object.  An array is a sequence of cells, the four bytes of the *)
(* length being one.                                                         *)
(***************************************************************************)
EXTENDS Integers, Sequences, FiniteSets, FiniteSetsExt

CONSTANTS Objects,     \* Status variables of the program, positive numbers
          MessageSizes     \* bound: numbers of characters of msg and msg2

VARIABLES state_,      \* object |-> the array it points to, 0 for null
          arrays,      \* the arrays that are allocated, by address
          meant        \* history: what each object was given, by value: code, msg and msg2

Null == 0
kOk == 0
Codes == [kNotFound |-> 1, kCorruption |-> 2, kNotSupported |-> 3, kInvalidArgument |-> 4, kIOError |-> 5]
Code == {Codes[c] : c \in DOMAIN Codes}
Slices == {[i \in 1 .. n |-> IF i % 2 = 1 THEN "x" ELSE "y"] : n \in MessageSizes}
OK == [code |-> kOk, msg |-> <<>>, msg2 |-> <<>>]

Addresses == 1 .. 2 * Cardinality(Objects) + 1
Fresh == Min(Addresses \ DOMAIN arrays)
New(cells) == [a \in DOMAIN arrays \cup {Fresh} |-> IF a = Fresh THEN cells ELSE arrays[a]]
Delete(heap, a) == [b \in DOMAIN heap \ {a} |-> heap[b]]      \* delete[] of null does nothing

-----------------------------------------------------------------------------
SizeForgetsColon(msg, msg2) == Len(msg) + Len(msg2)

Size(msg, msg2) == Len(msg) + (IF Len(msg2) > 0 THEN 2 + Len(msg2) ELSE 0)

\* Status(code, msg, msg2)
Filled(code, msg, msg2) ==
    SubSeq(<<Size(msg, msg2), code>> \o msg \o (IF Len(msg2) > 0 THEN <<":", " ">> \o msg2 ELSE <<>>),
           1, 2 + Size(msg, msg2))

\* As many cells as the first one says.
CopyState(cells) == SubSeq(cells, 1, cells[1] + 2)

code(o) == IF state_[o] = Null THEN kOk ELSE arrays[state_[o]][2]

\* The name of the code, then the message; "OK" when there is none.
ToString(o) ==
    IF state_[o] = Null THEN <<kOk>>
    ELSE <<code(o)>> \o SubSeq(arrays[state_[o]], 3, 2 + arrays[state_[o]][1])

-----------------------------------------------------------------------------
Init == state_ = [o \in Objects |-> Null] /\ arrays = <<>> /\ meant = [o \in Objects |-> OK]

\* s = Status::IOError(...): the temporary gets the old array and frees it.
AssignResult(o, c, msg, msg2) ==
    /\ arrays' = Delete(New(Filled(c, msg, msg2)), state_[o])
    /\ state_' = [state_ EXCEPT ![o] = Fresh]
    /\ meant' = [meant EXCEPT ![o] = [code |-> c, msg |-> msg, msg2 |-> msg2]]

\* s = Status::OK(), or the end of its scope and a new object in its place.
AssignOK(o) ==
    /\ arrays' = Delete(arrays, state_[o])
    /\ state_' = [state_ EXCEPT ![o] = Null]
    /\ meant' = [meant EXCEPT ![o] = OK]

\* operator=(const Status&): nothing when both are null or one object.
CopyAssign(o, rhs) ==
    /\ IF state_[o] = state_[rhs] THEN UNCHANGED <<state_, arrays>>
       ELSE IF state_[rhs] = Null
       THEN arrays' = Delete(arrays, state_[o]) /\ state_' = [state_ EXCEPT ![o] = Null]
       ELSE arrays' = Delete(New(CopyState(arrays[state_[rhs]])), state_[o]) /\ state_' = [state_ EXCEPT ![o] = Fresh]
    /\ meant' = [meant EXCEPT ![o] = meant[rhs]]

\* operator=(Status&&): the two are swapped, also when they are one.
MoveAssign(o, rhs) ==
    /\ state_' = [state_ EXCEPT ![o] = state_[rhs], ![rhs] = state_[o]]
    /\ meant' = [meant EXCEPT ![o] = meant[rhs], ![rhs] = meant[o]]
    /\ UNCHANGED arrays

MoveConstructLeavesBoth(o, rhs) ==
    /\ o # rhs /\ state_[o] = Null
    /\ state_' = [state_ EXCEPT ![o] = state_[rhs]]
    /\ meant' = [meant EXCEPT ![o] = meant[rhs]]
    /\ UNCHANGED arrays

\* Status(Status&&): a new object takes the array, the other one is OK.
MoveConstruct(o, rhs) ==
    /\ o # rhs /\ state_[o] = Null
    /\ state_' = [state_ EXCEPT ![o] = state_[rhs], ![rhs] = Null]
    /\ meant' = [meant EXCEPT ![o] = meant[rhs], ![rhs] = OK]
    /\ UNCHANGED arrays

Next ==
    \E o \in Objects :
       \/ \E c \in Code, msg \in Slices, msg2 \in Slices : AssignResult(o, c, msg, msg2)
       \/ AssignOK(o)
       \/ \E rhs \in Objects : CopyAssign(o, rhs) \/ MoveAssign(o, rhs) \/ MoveConstruct(o, rhs)

Spec == Init /\ [][Next]_<<state_, arrays, meant>>

-----------------------------------------------------------------------------
(* Objects point to arrays.                                                 *)
TypeOK == state_ \in [Objects -> Addresses \cup {Null}] /\ DOMAIN arrays \subseteq Addresses

(* Every array is owned by exactly one object: after any copies and moves,   *)
(* of an object to itself too, none is freed twice or lost, and none is      *)
(* shared.                                                                   *)
OwnedOnce ==
    /\ {state_[o] : o \in Objects} \ {Null} = DOMAIN arrays
    /\ \A o, p \in Objects : o # p /\ state_[o] = state_[p] => state_[o] = Null

(* An object tells the code and the whole message that it was given, through *)
(* all the copies in between; both parts of the message are there.           *)
TextKept ==
    \A o \in Objects :
       /\ code(o) = meant[o].code
       /\ meant[o] # OK =>
             ToString(o) = <<meant[o].code>> \o meant[o].msg
                              \o (IF meant[o].msg2 = <<>> THEN <<>> ELSE <<":", " ">> \o meant[o].msg2)
=============================================================================
