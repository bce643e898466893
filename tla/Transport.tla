------------------------------ MODULE Transport ------------------------------
(***************************************************************************)
(* GoogleDataTransport, by which the Firebase pods send their events: the    *)
(* storage, the prioritizer, the coordinator and the uploader of one target, *)
(* each with a serial queue of its own (GDTCORStorage.m,                     *)
(* GDTCCTPrioritizer.m, GDTCORUploadCoordinator.m, GDTCCTUploader.m,         *)
(* GDTCORUploadPackage.m).  A dispatch_async is an item at the end of a      *)
(* queue; in a dispatch_sync the caller waits for an item of its own.  An    *)
(* event is its number and its tier; what a request holds is its events and  *)
(* those of them whose file was gone.  A package does not expire: its timer  *)
(* is an NSTimer that initWithTarget puts on the run loop of the thread it   *)
(* is on, a worker of the coordinator's queue, and nothing runs that loop.   *)
(***************************************************************************)
EXTENDS Integers, Sequences, FiniteSets

CONSTANTS Tiers,          \* GDTCOREventQoS of the events sent: "fast", "default", "daily"
          MaxEvents,      \* bound: events sent
          MaxPackages,    \* bound: packages made
          MaxBackgrounds  \* bound: times that the app goes to the background

VARIABLES
    q,           \* storageQueue, coordinationQueue, the prioritizer's and the uploader's queue
    stored,      \* GDTCORStorage: storedEvents, the files on disk, the archive
    prio,        \* GDTCCTPrioritizer: events, timeOfLastDailyUpload
    coord,       \* GDTCORUploadCoordinator: targetToInFlightPackages (dict, inflight) and the block it is running
    uploader,    \* GDTCCTUploader: currentUploadPackage, nextUploadTime, the requests under way
    packages,    \* GDTCORUploadPackage: the events, or the prioritizer's own set; isHandled
    app          \* foreground or background; history: events sent, requests, what became of them

None == 0
Idle == [pc |-> "idle", p |-> None, high |-> FALSE, wifi |-> FALSE]
Run(queue, item) == [q EXCEPT ![queue] = Append(@, item)]
Done(queue) == [q EXCEPT ![queue] = Tail(@)]
At(queue, what) == q[queue] # <<>> /\ Head(q[queue]).do = what
Item(what) == [do |-> what, e |-> <<>>, p |-> None, events |-> {}, high |-> FALSE, wifi |-> FALSE]

\* package.events: the property is not a copy, so it may be the set that the prioritizer goes on changing.
EventsOf(p) == IF packages[p].shared THEN prio.events ELSE packages[p].events

Init ==
    /\ q = [storage |-> <<>>, coord |-> <<>>, prio |-> <<>>, uploader |-> <<>>]
    /\ stored = [events |-> {}, files |-> {}, archive |-> {}]
    /\ prio = [events |-> {}, daily |-> "never"]
    /\ coord = [dict |-> TRUE, inflight |-> {}, block |-> Idle]
    /\ uploader = [current |-> None, wait |-> FALSE, tasks |-> {}, clearing |-> FALSE]
    /\ packages = <<>>
    /\ app = [at |-> "foreground", moves |-> 0, sent |-> 0, given |-> {}, requests |-> <<>>, aside |-> {}, bare |-> FALSE]

-----------------------------------------------------------------------------
\* sendDataEvent, transformEvent and the first part of storeEvent.
SendEvent(tier) ==
    /\ app.sent < MaxEvents
    /\ app' = [app EXCEPT !.sent = @ + 1]
    /\ q' = Run("storage", [Item("store") EXCEPT !.e = <<app.sent + 1, tier>>])
    /\ UNCHANGED <<stored, prio, coord, uploader, packages>>

\* encodeWithCoder: the events, and the packages in flight if there are any.
Archive(events) == {[events |-> events, inflight |-> coord.inflight # {}]}

\* A fast event forces an upload; in the background the state is archived after every event.
StoreEvent ==
    /\ At("storage", "store")
    /\ LET e == Head(q.storage).e
           given == [Done("storage") EXCEPT !.prio = Append(@, [Item("prioritize") EXCEPT !.e = e])]
       IN  /\ stored' = [stored EXCEPT !.events = @ \cup {e}, !.files = @ \cup {e},
                                       !.archive = IF app.at = "background" THEN Archive(stored.events \cup {e}) ELSE @]
           /\ q' = IF e[2] = "fast" THEN [given EXCEPT !.coord = Append(@, Item("force"))] ELSE given
           /\ app' = [app EXCEPT !.given = @ \cup {e}]
    /\ UNCHANGED <<prio, coord, uploader, packages>>

removeEvents ==
    /\ At("storage", "remove")
    /\ LET gone == Head(q.storage).events IN stored' = [stored EXCEPT !.events = @ \ gone, !.files = @ \ gone]
    /\ q' = Done("storage")
    /\ UNCHANGED <<prio, coord, uploader, packages, app>>

prioritizeEvent ==
    /\ At("prio", "prioritize")
    /\ prio' = [prio EXCEPT !.events = @ \cup {Head(q.prio).e}]
    /\ q' = Done("prio")
    /\ UNCHANGED <<stored, coord, uploader, packages, app>>

-----------------------------------------------------------------------------
\* The event handler of the timer, which runs on the coordinator's queue between any two blocks: uploadTargets with the
\* conditions of the moment.  The source goes on the queue again only behind the block that it has put there.
Timer(wifi) ==
    /\ app.at = "foreground" /\ coord.block.pc = "idle" /\ Len(packages) < MaxPackages
    /\ \A i \in 1 .. Len(q.coord) : q.coord[i].do = "upload" => q.coord[i].high
    /\ q' = Run("coord", [Item("upload") EXCEPT !.wifi = wifi])
    /\ UNCHANGED <<stored, prio, coord, uploader, packages, app>>

\* forceUploadForTarget; without a network the block of uploadTargets returns at once.
Force(network) ==
    /\ coord.block.pc = "idle" /\ At("coord", "force")
    /\ q' = IF network THEN [q EXCEPT !.coord = Append(Tail(@), [Item("upload") EXCEPT !.high = TRUE])]
            ELSE Done("coord")
    /\ UNCHANGED <<stored, prio, coord, uploader, packages, app>>

InFlightUnchecked == FALSE
\* _targetToInFlightPackages[target]; nil when the dictionary is nil.
InFlight == coord.dict /\ coord.inflight # {}

\* Asks the uploader, which answers on its queue.
UploadTargets ==
    /\ coord.block.pc = "idle" /\ At("coord", "upload")
    /\ LET b == Head(q.coord)
           asks == ~InFlight /\ Len(packages) < MaxPackages
       IN  /\ coord' = [coord EXCEPT !.block = IF asks THEN [Idle EXCEPT !.pc = "asking", !.high = b.high, !.wifi = b.wifi] ELSE Idle]
           /\ q' = IF asks THEN [Done("coord") EXCEPT !.uploader = Append(@, Item("ready"))] ELSE Done("coord")
    /\ UNCHANGED <<stored, prio, uploader, packages, app>>

FreeUnlessHigh == uploader.current = None \/ coord.block.high
\* Neither currentUploadPackage nor currentTask.
Free == uploader.current = None

\* late: nextUploadTime has been reached.
readyToUpload(late) ==
    /\ At("uploader", "ready")
    /\ LET ready == Free /\ (coord.block.high \/ ~uploader.wait \/ late)
       IN  /\ coord' = [coord EXCEPT !.block = IF ready THEN [@ EXCEPT !.pc = "packing"] ELSE Idle]
           /\ q' = IF ready THEN [Done("uploader") EXCEPT !.prio = Append(@, Item("pack"))] ELSE Done("uploader")
    /\ UNCHANGED <<stored, prio, uploader, packages, app>>

\* The first upload without priority sends the daily events; after a day every one does: the time is set only once.
Daily == prio.daily # "today"
OkToSend == {e \in prio.events : coord.block.wifi \/ e[2] # "daily" \/ Daily}

uploadPackageWithConditions ==
    /\ At("prio", "pack")
    /\ packages' = Append(packages, [events |-> IF coord.block.high THEN {} ELSE OkToSend, shared |-> coord.block.high, handled |-> FALSE, background |-> FALSE])
    /\ prio' = IF ~coord.block.high /\ prio.daily = "never" THEN [prio EXCEPT !.daily = "today"] ELSE prio
    /\ coord' = [coord EXCEPT !.block.pc = "packed", !.block.p = Len(packages) + 1]
    /\ q' = Done("prio")
    /\ UNCHANGED <<stored, uploader, app>>

DayPasses == prio.daily = "today" /\ prio' = [prio EXCEPT !.daily = "past"] /\ UNCHANGED <<q, stored, coord, uploader, packages, app>>

\* The package is in flight, if there is a dictionary to say so; one without events is complete.
Packed ==
    /\ coord.block.pc = "packed"
    /\ LET p == coord.block.p
       IN  IF EventsOf(p) # {}
           THEN /\ coord' = [coord EXCEPT !.inflight = IF coord.dict THEN {p} ELSE @, !.block = Idle]
                /\ packages' = [packages EXCEPT ![p].background = TRUE]
                /\ q' = Run("uploader", [Item("upload") EXCEPT !.p = p])
                /\ app' = [app EXCEPT !.bare = @ \/ ~coord.dict]
           ELSE /\ coord' = [coord EXCEPT !.block = Idle]
                /\ packages' = [packages EXCEPT ![p].handled = TRUE]
                /\ q' = Run("coord", [Item("delivered") EXCEPT !.p = p])
                /\ UNCHANGED app
    /\ UNCHANGED <<stored, prio, uploader>>

\* uploadPackage and constructRequestProtoFromPackage, with the files that are there.
Upload ==
    /\ At("uploader", "upload")
    /\ LET p == Head(q.uploader).p
       IN  IF uploader.current # None THEN UNCHANGED <<uploader, app>>
           ELSE /\ uploader' = [uploader EXCEPT !.current = p, !.tasks = @ \cup {p}]
                /\ app' = [app EXCEPT !.requests = Append(@, [events |-> EventsOf(p), missing |-> EventsOf(p) \ stored.files])]
    /\ q' = Done("uploader")
    /\ UNCHANGED <<stored, prio, coord, packages>>

\* completeDelivery: only the first call is passed on.
Handled(p) == [packages EXCEPT ![p].handled = TRUE]
CompleteDelivery(p) == IF packages[p].handled THEN q ELSE Run("coord", [Item("delivered") EXCEPT !.p = p])

\* The handler of the request, whether it was answered, failed or was cancelled.
Complete(p) ==
    /\ p \in uploader.tasks /\ ~uploader.clearing
    /\ uploader' = [uploader EXCEPT !.tasks = @ \ {p}, !.wait = TRUE, !.clearing = TRUE]
    /\ q' = CompleteDelivery(p)
    /\ packages' = [Handled(p) EXCEPT ![p].background = FALSE]
    /\ UNCHANGED <<stored, prio, coord, app>>

\* Its end: currentTask and currentUploadPackage are cleared, whosever they are.
Clear ==
    /\ uploader.clearing
    /\ uploader' = [uploader EXCEPT !.current = None, !.clearing = FALSE]
    /\ UNCHANGED <<q, stored, prio, coord, packages, app>>

\* The time in the background is up: the current package is taken for delivered.
BackgroundExpires(p) ==
    /\ app.at = "background" /\ packages[p].background
    /\ LET done == IF uploader.current = None THEN packages ELSE Handled(uploader.current)
       IN  packages' = [done EXCEPT ![p].background = FALSE]
    /\ q' = IF uploader.current = None THEN q ELSE CompleteDelivery(uploader.current)
    /\ UNCHANGED <<stored, prio, coord, uploader, app>>

\* packageDelivered: the entry of the target is removed, whichever package it is for.
PackageDelivered ==
    /\ coord.block.pc = "idle" /\ At("coord", "delivered")
    /\ LET p == Head(q.coord).p
       IN  /\ coord' = [coord EXCEPT !.inflight = {}, !.block = [Idle EXCEPT !.pc = "removing", !.p = p]]
           /\ q' = [Done("coord") EXCEPT !.prio = Append(@, [Item("drop") EXCEPT !.p = p])]
           /\ app' = [app EXCEPT !.bare = @ \/ coord.inflight \ {p} # {}]
    /\ UNCHANGED <<stored, prio, uploader, packages>>

RemovedAll(p) == stored.events
RemovedNone(p) == {}
\* What removeEvents copies: the set as it is now.
Removed(p) == EventsOf(p)

RemoveDelivered ==
    /\ coord.block.pc = "removing"
    /\ coord' = [coord EXCEPT !.block = Idle]
    /\ q' = Run("storage", [Item("remove") EXCEPT !.events = Removed(coord.block.p)])
    /\ UNCHANGED <<stored, prio, uploader, packages, app>>

DroppedAll(p) == prio.events
\* packageDelivered of the prioritizer: every event that the package has now.
Dropped(p) == EventsOf(p)

Drop ==
    /\ At("prio", "drop")
    /\ LET p == Head(q.prio).p
       IN  /\ prio' = [prio EXCEPT !.events = @ \ Dropped(p)]
           /\ app' = IF packages[p].shared THEN [app EXCEPT !.aside = @ \cup prio.events] ELSE app
    /\ q' = Done("prio")
    /\ UNCHANGED <<stored, coord, uploader, packages>>

-----------------------------------------------------------------------------
\* appWillBackground.
EnterBackground ==
    /\ app.at = "foreground" /\ app.moves < MaxBackgrounds
    /\ app' = [app EXCEPT !.at = "background", !.moves = @ + 1]
    /\ q' = Run("storage", Item("archive"))
    /\ UNCHANGED <<stored, prio, coord, uploader, packages>>

WriteArchive ==
    /\ At("storage", "archive")
    /\ stored' = [stored EXCEPT !.archive = Archive(stored.events)]
    /\ q' = Done("storage")
    /\ UNCHANGED <<prio, coord, uploader, packages, app>>

\* appWillForeground: the archive is read at once and takes its place on the storage's queue.
EnterForeground ==
    /\ app.at = "background"
    /\ app' = [app EXCEPT !.at = "foreground"]
    /\ \/ stored.archive = {} /\ UNCHANGED q
       \/ \E a \in stored.archive : q' = Run("storage", [Item("restore") EXCEPT !.events = a.events, !.high = a.inflight])
    /\ UNCHANGED <<stored, prio, coord, uploader, packages>>

\* initWithCoder of both: without packages in the archive the dictionary is nil, with packages their
\* class is not among those allowed, so it is nil or, where that is an exception, empty.
Restore(raises) ==
    /\ At("storage", "restore") /\ (raises => Head(q.storage).high)
    /\ stored' = [stored EXCEPT !.events = Head(q.storage).events]
    /\ coord' = [coord EXCEPT !.dict = raises, !.inflight = {}]
    /\ app' = [app EXCEPT !.bare = @ \/ coord.inflight # {}]
    /\ q' = Done("storage")
    /\ UNCHANGED <<prio, uploader, packages>>

Next ==
    \/ \E tier \in Tiers : SendEvent(tier)
    \/ StoreEvent \/ removeEvents \/ prioritizeEvent
    \/ (\E wifi \in BOOLEAN : Timer(wifi)) \/ (\E network \in BOOLEAN : Force(network))
    \/ UploadTargets \/ (\E late \in BOOLEAN : readyToUpload(late)) \/ uploadPackageWithConditions \/ DayPasses
    \/ Packed \/ Upload \/ Clear \/ PackageDelivered \/ RemoveDelivered \/ Drop
    \/ \E p \in 1 .. Len(packages) : Complete(p) \/ BackgroundExpires(p)
    \/ EnterBackground \/ WriteArchive \/ EnterForeground \/ \E raises \in BOOLEAN : Restore(raises)

Spec == Init /\ [][Next]_<<q, stored, prio, coord, uploader, packages, app>>

-----------------------------------------------------------------------------
Sent == UNION {app.requests[i].events : i \in 1 .. Len(app.requests)}
Quiet == (\A queue \in DOMAIN q : q[queue] = <<>>) /\ coord.block = Idle /\ \A p \in 1 .. Len(packages) : packages[p].handled

\* GDTCOREvent: its number and its tier.
IsEvent(e) == e[1] \in 1 .. app.sent /\ e[2] \in Tiers

\* GDTCORStorage: the events it knows, the files on disk, and an archive of them.
IsStorage(s) ==
    /\ \A e \in s.files \cup s.events : IsEvent(e)
    /\ \A a \in s.archive : a.events \subseteq app.given

\* GDTCCTPrioritizer: its events, and when daily events were sent last.
IsPrioritizer(p) == p.events \subseteq app.given /\ p.daily \in {"never", "today", "past"}

\* GDTCORUploadCoordinator: one package in flight at most, and the block that waits for an answer.
IsUploadCoordinator(c) ==
    /\ Cardinality(c.inflight) <= 1 /\ (c.inflight # {} => c.dict)
    /\ c.block.pc \in {"idle", "asking", "packing", "packed", "removing"}
    /\ c.block.pc \in {"packed", "removing"} <=> c.block.p # None

\* GDTCCTUploader: the package being uploaded, and the requests that may still be answered.
IsUploader(u) == ({u.current} \ {None}) \cup u.tasks \subseteq 1 .. Len(packages)

\* GDTCORUploadPackage: events of its own, or the prioritizer's set; the background task that keeps it.
IsUploadPackage(p) == (p.shared => p.events = {}) /\ p.events \subseteq app.given /\ {p.handled, p.background} \subseteq BOOLEAN

\* GDTCORApplication: in the foreground or the background.
IsApplication(a) == a.at \in {"foreground", "background"} /\ a.moves \in 0 .. MaxBackgrounds

(* Sets of events, and one package in flight at most.                       *)
TypeOK ==
    /\ IsApplication(app) /\ IsStorage(stored) /\ IsPrioritizer(prio)
    /\ IsUploadCoordinator(coord) /\ IsUploader(uploader)
    /\ \A p \in 1 .. Len(packages) : IsUploadPackage(packages[p])

(* An event goes out in one request, however forced uploads, the timer and   *)
(* late answers interleave, as long as the coordinator has an entry for the  *)
(* package in flight.  It does go out twice after the entry was taken        *)
(* (app.bare): by the block of another package, which removes it whosever it *)
(* is, or by an archive that is read back, after which there is none.        *)
SentOnce ==
    \A i, j \in 1 .. Len(app.requests) :
        i < j /\ app.requests[i].events \cap app.requests[j].events # {} => app.bare

(* The uploader never finds another upload under way when a package reaches  *)
(* it (it would drop the package without an answer, and no other would be    *)
(* made while that one is in flight): between its answer that it is ready    *)
(* and the package, nothing else is on its queue.                            *)
NeverRefused == At("uploader", "upload") => uploader.current = None

(* The file of an event is there when its request is made, unless a package  *)
(* of a forced upload, which shares the prioritizer's set, has removed what  *)
(* came after it, or an event goes out a second time.                        *)
SentWhole ==
    \A i \in 1 .. Len(app.requests) :
        app.requests[i].missing # {} => app.bare \/ \E p \in 1 .. Len(packages) : packages[p].shared

(* When everything is at rest, an event that was stored and that the         *)
(* prioritizer no longer has went out in a request, except one that was put  *)
(* aside: a forced upload shares the prioritizer's own set, so that an event *)
(* added to it during the upload is dropped, unsent, with the others.        *)
NoneLost == Quiet => app.given \subseteq prio.events \cup Sent \cup app.aside

(* When everything is at rest, the files are those of events still to be     *)
(* sent, or were put aside with a shared set, which may be empty already     *)
(* when the storage is told what to remove: such a file stays for good.      *)
NoFileLeft == Quiet => stored.files \subseteq prio.events \cup app.aside
=============================================================================
