----------------------------- MODULE PosixThread -----------------------------
(***************************************************************************)
(* Background work of leveldb's PosixEnv: Schedule puts a function on a     *)
(* queue, one detached thread runs them one after the other.  The thread    *)
(* sleeps on a condition variable; the mutex is held from one step to the   *)
(* next of each section, so a section is one step.                          *)
(***************************************************************************)
EXTENDS Integers, Sequences, SequencesExt

CONSTANTS MaxItems      \* bound: functions scheduled

VARIABLES
    work,      \* background_work_queue_
    thread,    \* the background thread: none, awake, asleep or running a function
    past       \* history: functions scheduled and run, in order

threadvars == <<work, thread, past>>

\* Signal wakes the thread if it sleeps; it is not remembered
Signal == IF thread = "asleep" THEN "awake" ELSE thread

\* the queue is looked at after the new function was put there
NeedsSignalLate(queue) == Len(queue) > 0

NeedsSignal(queue) == queue = << >>

Schedule(item) ==
    /\ Len(past.scheduled) < MaxItems /\ item = Len(past.scheduled) + 1
    /\ thread' = IF thread = "none" THEN "awake" ELSE IF NeedsSignal(work) THEN Signal ELSE thread
    /\ work' = Append(work, item)
    /\ past' = [past EXCEPT !.scheduled = Append(@, item)]

\* the function is taken off when it has returned
PopLate == work

Pop == Tail(work)

\* Wait while the queue is empty, else take the front of it and let go of the mutex
BackgroundThreadMain ==
    /\ thread = "awake"
    /\ IF work = << >> THEN thread' = "asleep" /\ UNCHANGED <<work, past>>
       ELSE /\ thread' = "running" /\ work' = Pop
            /\ past' = [past EXCEPT !.run = Append(@, Head(work))]

\* Wait may return without a signal
SpuriousWakeup == thread = "asleep" /\ thread' = "awake" /\ UNCHANGED <<work, past>>

\* the function returns; it may have called Schedule before
Returned == thread = "running" /\ thread' = "awake" /\ UNCHANGED <<work, past>>

Init == work = << >> /\ thread = "none" /\ past = [scheduled |-> << >>, run |-> << >>]

Next ==
    \/ \E item \in 1 .. MaxItems : Schedule(item)
    \/ BackgroundThreadMain \/ SpuriousWakeup \/ Returned

Spec == Init /\ [][Next]_threadvars

-----------------------------------------------------------------------------
\* BackgroundWorkItem: a function, by the order of its scheduling.
BackgroundWorkItem == 1 .. MaxItems

TypeOK == thread \in {"none", "awake", "asleep", "running"} /\ work \in Seq(BackgroundWorkItem)

(* The thread never sleeps while there is work.                             *)
NoSleepOverWork == work # << >> => thread \in {"awake", "running"}

(* Every function runs once, in the order of the calls of Schedule.         *)
OnceInOrder == past.run \o work = past.scheduled
=============================================================================
