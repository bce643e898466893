----------------------------- MODULE FetchService -----------------------------
(***************************************************************************)
(* GTMSessionFetcherService, which Firebase Storage and Auth send their      *)
(* requests through: how many fetchers of a host run at once, and the one    *)
(* NSURLSession they share, made by the first, kept by a delegate            *)
(* dispatcher, and discarded by a timer when it is not used.  The fetchers   *)
(* here have one host.  A fetcher begins on the thread of its caller (own);  *)
(* a delayed one is begun again by the thread on which another has stopped   *)
(* (re), and stopped by any thread at any time.  A block of                  *)
(* @synchronized(self) is one step.                                          *)
(*                                                                           *)
(* Timing assumed: a fetcher gets from sessionForFetcherCreation to its task *)
(* in less than unusedSessionTimeout, 60 seconds, since nothing in between   *)
(* waits for the network.                                                    *)
(***************************************************************************)
EXTENDS Integers, Sequences, SequencesExt, FiniteSets

CONSTANTS Fetchers,          \* numbers; the smaller has the smaller servicePriority
          Backgrounds,       \* which of these use a background session: the choices
          MaxPerHost,        \* maxRunningFetchersPerHost, not 0
          MaxDispatchers,    \* bound: delegate dispatchers made
          MaxTimers          \* bound: discard timers started

VARIABLES
    service,    \* the arrays of running and delayed fetchers; whether the semaphore is free
    fetcher,    \* fetcher |-> background session, where its threads are, session, task (0: none), serviceHost set, stopping
    dispatcher, \* the dispatchers, the current one last: session and discard timer (0: none)
    timers,     \* started; in flight: fired, and on the way to the service
    past        \* history: fetchers stopped before serviceHost was set (early), begun again before their own
                \* call had returned (overlapped), without a session for their task (sessionless); a task was
                \* made on an invalidated session (onInvalid)

Threads == {"own", "re"}
Own == -1                                       \* a background fetcher's session is its own
Shares(x) == ~fetcher[x].background              \* canShareSession
Current == Len(dispatcher)
Go(x, t, pc) == [fetcher EXCEPT ![x].pc[t] = pc]
At(x, t, pc) == fetcher[x].pc[t] = pc
numberOfNonBackgroundSessionFetchers(s) == Cardinality({x \in ToSet(s) : Shares(x)})
Rest == {"idle", "returned"}

\* Threads between sessionForFetcherCreation and their task, or the place that clears the session.
Using == {<<x, t>> \in Fetchers \X Threads :
            Shares(x) /\ fetcher[x].pc[t] \in {"should", "runhost", "delayhost", "clear", "authorize", "task"}}

-----------------------------------------------------------------------------
(* beginFetchMayDelay:mayAuthorize:                                         *)
\* After the session: only the first call may be delayed, the last one has its authorization.
AfterSession(x, t) == IF At(x, t, "session2") THEN "task" ELSE IF t = "own" THEN "should" ELSE "authorize"
CreatePc(x, t) == IF At(x, t, "session2") THEN "create2" ELSE "create"
Calls(x, t) == fetcher[x].pc[t] \in {"session", "session2"} \/ (t = "own" /\ At(x, t, "idle"))

\* The semaphore is taken; startSessionUsage ends the discard timer; a session there is given out at once.
sessionForFetcherCreation(x, t) ==
    /\ Calls(x, t)
    /\ IF ~Shares(x) \/ fetcher[x].session # 0
       THEN /\ fetcher' = [Go(x, t, AfterSession(x, t)) EXCEPT ![x].session = IF Shares(x) THEN @ ELSE Own]
            /\ UNCHANGED <<service, dispatcher>>
       ELSE /\ service.free
            /\ dispatcher' = [dispatcher EXCEPT ![Current].timer = 0]
            /\ IF dispatcher[Current].session = "live"
               THEN fetcher' = [Go(x, t, AfterSession(x, t)) EXCEPT ![x].session = Current] /\ UNCHANGED service
               ELSE fetcher' = Go(x, t, CreatePc(x, t)) /\ service' = [service EXCEPT !.free = FALSE]
    /\ UNCHANGED <<timers, past>>

\* The caller makes the session and tells the service, which signals the semaphore.
fetcherDidCreateSession(x, t) ==
    /\ fetcher[x].pc[t] \in {"create", "create2"}
    /\ dispatcher' = [dispatcher EXCEPT ![Current].session = "live"]
    /\ fetcher' = [Go(x, t, IF At(x, t, "create2") THEN "task" ELSE IF t = "own" THEN "should" ELSE "authorize")
                      EXCEPT ![x].session = Current]
    /\ service' = [service EXCEPT !.free = TRUE]
    /\ UNCHANGED <<timers, past>>

ShouldRunNowLoose(x) == ~Shares(x) \/ MaxPerHost >= numberOfNonBackgroundSessionFetchers(service.running)

ShouldRunNow(x) == ~Shares(x) \/ MaxPerHost > numberOfNonBackgroundSessionFetchers(service.running)

fetcherShouldBeginFetching(x) ==
    /\ At(x, "own", "should")
    /\ service' = IF x \in ToSet(service.running) THEN service
                  ELSE IF ShouldRunNow(x) THEN [service EXCEPT !.running = Append(@, x)]
                  ELSE [service EXCEPT !.delayed = Append(@, x)]
    /\ fetcher' = Go(x, "own", IF x \in ToSet(service'.running) THEN "runhost" ELSE "delayhost")
    /\ UNCHANGED <<dispatcher, timers, past>>

\* fetcher.serviceHost = host, outside of the block.
SetServiceHost(x) ==
    /\ fetcher[x].pc["own"] \in {"runhost", "delayhost"}
    /\ fetcher' = [Go(x, "own", IF At(x, "own", "runhost") THEN "authorize" ELSE "clear") EXCEPT ![x].host = TRUE]
    /\ UNCHANGED <<service, dispatcher, timers, past>>

\* The fetch is deferred: the session may not be valid any more when it is begun again.
ClearSession(x) ==
    /\ At(x, "own", "clear")
    /\ fetcher' = [Go(x, "own", "returned") EXCEPT ![x].session = IF Shares(x) THEN 0 ELSE @]
    /\ UNCHANGED <<service, dispatcher, timers, past>>

\* Authorization may take long: the session is cleared, and asked for again afterwards.
authorizeRequest(x, t) ==
    /\ At(x, t, "authorize")
    /\ fetcher' = [Go(x, t, "authorizing") EXCEPT ![x].session = IF Shares(x) THEN 0 ELSE @]
    /\ UNCHANGED <<service, dispatcher, timers, past>>

AuthorizedAlready(x, t) ==
    /\ At(x, t, "authorize") /\ fetcher' = Go(x, t, "task")
    /\ UNCHANGED <<service, dispatcher, timers, past>>

FinishedOnOldSession(x, t, error) ==
    /\ At(x, t, "authorizing")
    /\ fetcher' = IF error THEN [Go(x, t, "returned") EXCEPT ![x].stop = "pending"] ELSE Go(x, t, "task")
    /\ UNCHANGED <<service, dispatcher, timers, past>>

\* finishedWithError: without authorization there is no fetch.
authorizerFinished(x, t, error) ==
    /\ At(x, t, "authorizing")
    /\ fetcher' = IF error THEN [Go(x, t, "returned") EXCEPT ![x].stop = "pending"] ELSE Go(x, t, "session2")
    /\ UNCHANGED <<service, dispatcher, timers, past>>

\* The task is made and, in fetcherDidBeginFetching, put into the dispatcher's map, which ends the timer.
\* Without a session there is no task: failToBeginFetchWithError.
MakeTask(x, t) ==
    LET s == fetcher[x].session
        bad == s > 0 /\ dispatcher[s].session # "live"
    IN /\ At(x, t, "task")
       /\ fetcher' = [Go(x, t, "returned") EXCEPT ![x].task = s, ![x].stop = IF s = 0 THEN "pending" ELSE @]
       /\ dispatcher' = IF s > 0 /\ ~bad THEN [dispatcher EXCEPT ![s].timer = 0] ELSE dispatcher
       /\ past' = [past EXCEPT !.onInvalid = @ \/ bad, !.sessionless = IF s = 0 THEN @ \cup {x} ELSE @]
       /\ UNCHANGED <<service, timers>>

-----------------------------------------------------------------------------
(* Stopping.                                                                *)
\* stopFetching by anybody, or the end of a task (also of one made after a stop).
StopFetching(x) ==
    /\ ~At(x, "own", "idle") /\ (fetcher[x].stop = "no" \/ (fetcher[x].stop = "done" /\ fetcher[x].task # 0))
    /\ fetcher' = [fetcher EXCEPT ![x].stop = "pending"]
    /\ UNCHANGED <<service, dispatcher, timers, past>>

InMap(d) == {x \in Fetchers : fetcher[x].task = d}

\* fetcherDidStop, up to removeFetcher: the last one out of the map starts the discard timer.
removeFetcher(x) ==
    LET d == fetcher[x].session
        i == timers.started + 1
    IN /\ fetcher[x].stop = "pending"
       /\ fetcher' = [fetcher EXCEPT ![x].task = 0, ![x].stop = IF fetcher[x].host THEN "unmapped" ELSE "done"]
       /\ past' = [past EXCEPT !.early = IF fetcher[x].host THEN @ ELSE @ \cup {x}]
       /\ IF fetcher[x].host /\ d > 0 /\ InMap(d) \ {x} = {}
          THEN /\ i <= MaxTimers
               /\ timers' = [timers EXCEPT !.started = i]
               /\ dispatcher' = [dispatcher EXCEPT ![d].timer = i]
          ELSE UNCHANGED <<timers, dispatcher>>
       /\ UNCHANGED service

\* The least priority first, in the order of arrival.
MoreUrgent(x, y) == x < y
NextFetcher(delayed) == CHOOSE x \in ToSet(delayed) : \A y \in ToSet(delayed) \ {x} : MoreUrgent(x, y)

\* The loop of fetcherDidStop, one turn for every fetcher that is delayed.
StartDelayed(running, delayed) ==
    FoldLeft(LAMBDA s, i : IF s.delayed # <<>> /\ numberOfNonBackgroundSessionFetchers(s.running) < MaxPerHost
                           THEN [running |-> Append(s.running, NextFetcher(s.delayed)),
                                 delayed |-> SelectSeq(s.delayed, LAMBDA y : y # NextFetcher(s.delayed))]
                           ELSE s,
             [running |-> running, delayed |-> delayed], [i \in 1 .. Len(delayed) |-> i])

Kept(s, x) == s

Removed(s, x) == SelectSeq(s, LAMBDA y : y # x)

Started(x) == StartDelayed(Removed(service.running, x), Removed(service.delayed, x))

\* serviceHost = nil comes last: only another stop of x reads it, and that one would find nothing to do.
fetcherDidStop(x) ==
    LET next == Started(x)
        again == ToSet(next.running) \ ToSet(service.running)
    IN /\ fetcher[x].stop = "unmapped"
       /\ service' = [service EXCEPT !.running = next.running, !.delayed = next.delayed]
       /\ fetcher' = [y \in Fetchers |->
             IF y = x THEN [fetcher[x] EXCEPT !.stop = "done", !.host = FALSE]
             ELSE IF y \in again THEN [fetcher[y] EXCEPT !.pc["re"] = "session"] ELSE fetcher[y]]
       /\ past' = [past EXCEPT !.overlapped = @ \cup {y \in again : fetcher[y].pc["own"] # "returned"}]
       /\ UNCHANGED <<dispatcher, timers>>

\* Both arrays are emptied first, so that no stop starts a delayed fetcher.
stopAllFetchers ==
    /\ service.running # <<>>
    /\ service' = [service EXCEPT !.running = <<>>, !.delayed = <<>>]
    /\ fetcher' = [x \in Fetchers |-> IF x \in ToSet(service.running \o service.delayed)
                                      THEN [fetcher[x] EXCEPT !.stop = "pending"] ELSE fetcher[x]]
    /\ UNCHANGED <<dispatcher, timers, past>>

-----------------------------------------------------------------------------
(* The discard timer.                                                       *)
\* It fires when no thread is between session and task: those that were as it was started have gone on (the
\* timing assumed), and one that came later has ended it.
discardTimerFired(d) ==
    LET i == dispatcher[d].timer
    IN /\ i # 0 /\ i \notin timers.fired
       /\ Using = {}
       /\ timers' = [timers EXCEPT !.fired = @ \cup {i}, !.flight = IF InMap(d) = {} THEN @ \cup {i} ELSE @]
       /\ UNCHANGED <<service, fetcher, dispatcher, past>>

DiscardUnchecked(i) == TRUE

\* Only if nobody has ended the timer since it fired.
Discard(i) == dispatcher[Current].timer = i

\* The session is invalidated once its tasks are finished, and a new dispatcher is made.
resetSessionForDispatcherDiscardTimer(i) ==
    /\ i \in timers.flight /\ service.free
    /\ timers' = [timers EXCEPT !.flight = @ \ {i}]
    /\ Discard(i) => Current < MaxDispatchers
    /\ dispatcher' = IF Discard(i)
                     THEN Append([dispatcher EXCEPT ![Current] = [session |-> "invalid", timer |-> 0]],
                                 [session |-> "none", timer |-> 0])
                     ELSE dispatcher
    /\ UNCHANGED <<service, fetcher, past>>

-----------------------------------------------------------------------------
Init ==
    /\ service = [running |-> <<>>, delayed |-> <<>>, free |-> TRUE]
    /\ \E b \in Backgrounds :
          fetcher = [x \in Fetchers |-> [background |-> x \in b, pc |-> [t \in Threads |-> "idle"],
                                         session |-> 0, task |-> 0, host |-> FALSE, stop |-> "no"]]
    /\ dispatcher = <<[session |-> "none", timer |-> 0]>>
    /\ timers = [started |-> 0, fired |-> {}, flight |-> {}]
    /\ past = [early |-> {}, overlapped |-> {}, sessionless |-> {}, onInvalid |-> FALSE]

Next ==
    \/ \E x \in Fetchers :
          \/ fetcherShouldBeginFetching(x) \/ SetServiceHost(x) \/ ClearSession(x)
          \/ StopFetching(x) \/ removeFetcher(x) \/ fetcherDidStop(x)
          \/ \E t \in Threads :
                \/ sessionForFetcherCreation(x, t) \/ fetcherDidCreateSession(x, t)
                \/ authorizeRequest(x, t) \/ AuthorizedAlready(x, t) \/ MakeTask(x, t)
                \/ \E error \in BOOLEAN : authorizerFinished(x, t, error)
    \/ stopAllFetchers
    \/ \E d \in 1 .. Current : discardTimerFired(d)
    \/ \E i \in timers.flight : resetSessionForDispatcherDiscardTimer(i)

Spec == Init /\ [][Next]_<<service, fetcher, dispatcher, timers, past>>

-----------------------------------------------------------------------------
\* GTMSessionFetcher: the session it was given and the dispatcher whose map has its task.
IsFetcher(f) ==
    /\ f.session \in {Own, 0} \cup 1 .. Len(dispatcher) /\ f.task \in {Own, 0} \cup 1 .. Len(dispatcher)
    /\ f.stop \in {"no", "pending", "unmapped", "done"} /\ f.host \in BOOLEAN

\* GTMSessionFetcherSessionDelegateDispatcher: its session, and its discard timer.
IsDispatcher(d) == d.session \in {"none", "live", "invalid"} /\ d.timer \in 0 .. timers.started

(* Fetchers in the arrays.                                                  *)
TypeOK ==
    /\ ToSet(service.running \o service.delayed) \subseteq Fetchers /\ service.free \in BOOLEAN
    /\ \A x \in Fetchers : IsFetcher(fetcher[x])
    /\ \A d \in 1 .. Len(dispatcher) : IsDispatcher(dispatcher[d])

(* At most maxRunningFetchersPerHost fetchers of a host run, background ones *)
(* aside; a fetcher is delayed only while that many run; and none is in both *)
(* arrays or twice in one (issuedFetchers asserts it).                       *)
SlotsUsed ==
    /\ numberOfNonBackgroundSessionFetchers(service.running) <= MaxPerHost
    /\ service.delayed # <<>> => numberOfNonBackgroundSessionFetchers(service.running) = MaxPerHost
    /\ IsInjective(service.running \o service.delayed)

(* A fetcher that counts as running is on its way, has a task or is about to *)
(* be stopped: nothing occupies a place that no later call will free.  The   *)
(* one exception: it was stopped between fetcherShouldBeginFetching's block  *)
(* and the assignment of serviceHost.                                        *)
NoneStuck ==
    \A x \in ToSet(service.running) \ past.early :
        ~({fetcher[x].pc[t] : t \in Threads} \subseteq Rest /\ fetcher[x].task = 0
          /\ fetcher[x].stop \notin {"pending", "unmapped"})

(* No task is made on a session that the discard timer has invalidated,      *)
(* whenever the timer fires and however long authorization takes.            *)
TaskOnLiveSession == ~past.onInvalid

(* A fetcher fails for want of a session only when it was begun again while  *)
(* its own call of beginFetch had not returned: that call clears the session *)
(* which the other has just been given.                                      *)
SessionForTask == past.sessionless \subseteq past.overlapped
=============================================================================
