------------------------------- MODULE Directory -------------------------------
(***************************************************************************)
(* The list of users of NewMessageTableViewController.  Each screen adds an  *)
(* observer of /users and never removes it, and the observer's block holds   *)
(* the screen, so the screens of a process are fed for ever, by one view of  *)
(* /users in the database client.  A user is its key, a number.  Profiles    *)
(* are written by other phones; lost connections are in ChatFeed.            *)
(***************************************************************************)
EXTENDS Integers, Sequences, SequencesExt

CONSTANTS MaxUsers,     \* keys of /users: 1 .. MaxUsers
          MaxScreens    \* bound: screens opened

VARIABLES
    screens,   \* NewMessageTableViewController objects: open, users, whether the observer is registered
    view,      \* the view of /users: there at all, complete, its children
    raised,    \* childAdded events on the main queue
    stored     \* /users on the server

dirvars == <<screens, view, raised, stored>>

NoView == [exists |-> FALSE, complete |-> FALSE, children |-> {}]
InKeyOrder(keys) == SetToSortSeq(keys, <)
Screens == 1 .. Len(screens)
Registered == SelectSeq([s \in Screens |-> s], LAMBDA s : screens[s].registered)

Init == screens = <<>> /\ view = NoView /\ raised = <<>> /\ stored = {}

\* generateEventsForChanges: change after change, and for each the registrations in turn.
EventsFor(keys, registrations) ==
    FlattenSeq([k \in DOMAIN keys |->
        [s \in DOMAIN registrations |-> [screen |-> registrations[s], key |-> keys[k]]]])

InitialForAll(s) == Append(Registered, s)
\* initialEvents goes to the new registration only.
InitialFor(s) == <<s>>

\* newMessageButtonPressed, viewDidLoad and fetchUser: addEventRegistration.  A new view begins with
\* the users that lookups of single profiles have brought (serverCacheForQuery).
fetchUser(known) ==
    /\ view.exists => known = {}
    /\ \A s \in Screens : ~screens[s].open
    /\ Len(screens) < MaxScreens
    /\ screens' = Append(screens, [open |-> TRUE, users |-> <<>>, registered |-> TRUE])
    /\ view' = [view EXCEPT !.exists = TRUE, !.children = @ \cup known]
    /\ raised' = raised \o EventsFor(InKeyOrder(view.children \cup known), InitialFor(Len(screens) + 1))
    /\ UNCHANGED stored

\* didSelectRowAt or a swipe.
dismiss(s) ==
    /\ screens[s].open
    /\ screens' = [screens EXCEPT ![s].open = FALSE]
    /\ UNCHANGED <<view, raised, stored>>

\* The server's data, whole at first and then child by child.
Given(data) ==
    /\ view' = [view EXCEPT !.complete = TRUE, !.children = @ \cup data]
    /\ raised' = raised \o EventsFor(InKeyOrder(data \ view.children), Registered)
    /\ UNCHANGED <<screens, stored>>

Snapshot == view.exists /\ ~view.complete /\ Given(stored)
Update(k) == view.complete /\ k \in stored \ view.children /\ Given({k})

\* Refused or revoked by the rules, as in a sign-out: the registrations go, with the view.
ListenCancelled ==
    /\ view.exists
    /\ view' = NoView
    /\ screens' = [s \in Screens |-> [screens[s] EXCEPT !.registered = FALSE]]
    /\ UNCHANGED <<raised, stored>>

\* The block of fetchUser.
childAdded ==
    /\ raised # <<>>
    /\ screens' = [screens EXCEPT ![Head(raised).screen].users = Append(@, Head(raised).key)]
    /\ raised' = Tail(raised)
    /\ UNCHANGED <<view, stored>>

\* Another phone registers.
Stored(k) ==
    /\ k \notin stored
    /\ stored' = stored \cup {k}
    /\ UNCHANGED <<screens, view, raised>>

Next ==
    \/ \E known \in SUBSET stored : fetchUser(known)
    \/ Snapshot \/ ListenCancelled \/ childAdded
    \/ \E s \in Screens : dismiss(s)
    \/ \E k \in 1 .. MaxUsers : Update(k) \/ Stored(k)

Spec == Init /\ [][Next]_dirvars

-----------------------------------------------------------------------------
TypeOK ==
    /\ \A s \in Screens : screens[s].users \in Seq(1 .. MaxUsers)
    /\ view.complete => view.exists
    /\ view.children \subseteq stored

Awaited(s) == SelectSeq(raised, LAMBDA e : e.screen = s)
Listed(s) == screens[s].users \o [i \in DOMAIN Awaited(s) |-> Awaited(s)[i].key]

(* Every screen, the ones closed long ago included, lists or will list each  *)
(* user of the view once and no other, however many observers share the      *)
(* view and whenever each was added; one whose listen was cancelled keeps a  *)
(* list without repetitions.                                                 *)
UsersOnce ==
    \A s \in Screens :
        /\ IsInjective(Listed(s))
        /\ screens[s].registered => ToSet(Listed(s)) = view.children
=============================================================================
