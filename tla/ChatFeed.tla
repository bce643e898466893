------------------------------ MODULE ChatFeed ------------------------------
(***************************************************************************)
(* The list of chats: phones that send messages to /chats of the realtime  *)
(* database and show, in HomeViewController.chats, what observe(.childAdded)*)
(* reports.                                                                *)
(*                                                                         *)
(* On each phone the database client keeps a cache of what the server sent *)
(* and the local writes that the server has not answered, and reports the  *)
(* union of both.  A lost connection loses everything on it; on the next   *)
(* one the client listens again and repeats every write without an answer, *)
(* so the server may see a write twice.  Messages to and from the server   *)
(* are handled on the client's own queue, events are delivered on the main *)
(* queue, one block per event.                                             *)
(*                                                                         *)
(* A message is its number in the order of sending, which is the order of  *)
(* the client's put indices; its push id, by which the children of /chats  *)
(* are sorted, comes from a clock that may go back.  The server is modelled *)
(* from how the client uses it: each connection is FIFO both ways; a write *)
(* is accepted or refused by the security rules, its data goes to all      *)
(* listeners before the answer to the writer; a listen is answered after   *)
(* any number of the writes that follow it.  Of the listens for other      *)
(* queries (users, names) only that they wait for an answer is kept.       *)
(***************************************************************************)
EXTENDS Naturals, Sequences, SequencesExt

CONSTANTS
    Phone,      \* devices running the app
    Key,        \* bound on messages: their numbers in the order of sending
    PushId,     \* the push ids that may be generated
    MaxBreaks,  \* bound on broken connections and killed processes
    MaxOthers,  \* bound on a phone's unanswered listens for other queries
    Nobody      \* the author of a message not sent yet

ASSUME KeysOrdered == Key \subseteq Nat /\ IsFiniteSet(Key)

ASSUME PushIdsOrdered == PushId \subseteq Nat \ {0}

ASSUME OthersBounded == MaxOthers \in Nat

ASSUME BreaksBounded == MaxBreaks \in Nat

ASSUME NobodyIsNoPhone == Nobody \notin Phone

VARIABLES
    running,      \* the process is alive
    author,       \* the phone that sent a message
    pushId,       \* the name of the message below /chats, 0 before it is sent
    connected,    \* connectionState = ConnectionStateConnected
    listening,    \* listens holds the query for /chats
    chatsUnacked, \* share of the listen for /chats in unackedListensCount
    otherUnacked, \* share of the listens for other queries
    outstanding,  \* outstandingPuts, by index
    putsToAck,    \* answered writes held back until the listen is answered
    complete,     \* cachedServerSnap.isFullyInitialized
    serverCache,  \* cachedServerSnap
    writes,       \* the local writes of the write tree
    events,       \* childAdded blocks on the main queue, oldest first
    chats,        \* HomeViewController.chats
    toServer,     \* the connection, phone to server
    toClient,     \* the connection, server to phone
    breaks,       \* broken connections and killed processes so far
    late,         \* writes of a dead connection that the server has yet to read
    listener,     \* the server's listen of the connection
    db,           \* /chats
    refused,      \* messages that the rules refused at least once
    abandoned     \* messages without an answer when their process ended

client  == <<running, author, pushId, connected, listening, chatsUnacked, otherUnacked,
             outstanding, putsToAck, complete, serverCache, writes, events, chats>>
network == <<toServer, toClient, late, breaks>>
backend == <<listener, db, refused, abandoned>>
vars    == <<client, network, backend>>

-----------------------------------------------------------------------------
(***************************************************************************)
(* Messages on a connection.                                               *)
(***************************************************************************)
Listen    == [type |-> "listen"]
Put(k)    == [type |-> "put", key |-> k]
ToServer  == {Listen} \cup {Put(k) : k \in Key}

Snapshot(S) == [type |-> "snapshot", keys |-> S]
Data(k)     == [type |-> "data", key |-> k]
Ack(k)      == [type |-> "ack", key |-> k]
ListenOk    == [type |-> "listenOk"]
Denied      == [type |-> "denied"]
Revoked     == [type |-> "revoked"]
ToClient    == {Snapshot(S) : S \in SUBSET Key} \cup {Data(k) : k \in Key}
               \cup {Ack(k) : k \in Key} \cup {ListenOk, Denied, Revoked}

\* What the view of /chats holds.  A message is four separate fields written
\* below /chats/key, so before the first snapshot no child is complete.
View(p) == IF complete[p] THEN serverCache[p] \cup writes[p] ELSE {}

\* Listens without an answer, whatever they are for.
unackedListensCount(p) == chatsUnacked[p] + otherUnacked[p]

\* The messages of S from the least rank to the greatest.
Sorted(S, rank) ==
    {s \in [1 .. Cardinality(S) -> S] :
        ToSet(s) = S /\ \A i, j \in DOMAIN s : i < j => rank[s[i]] < rank[s[j]]}

\* One childAdded for each child that the step adds to the view, by push id.
raiseEvents(p) ==
    \E s \in Sorted(View(p)' \ View(p), pushId') : events' = [events EXCEPT ![p] = @ \o s]

-----------------------------------------------------------------------------
Init ==
    /\ running = [p \in Phone |-> FALSE]
    /\ author = [k \in Key |-> Nobody]
    /\ pushId = [k \in Key |-> 0]
    /\ connected = [p \in Phone |-> FALSE]
    /\ listening = [p \in Phone |-> FALSE]
    /\ chatsUnacked = [p \in Phone |-> 0]
    /\ otherUnacked = [p \in Phone |-> 0]
    /\ outstanding = [p \in Phone |-> {}]
    /\ putsToAck = [p \in Phone |-> {}]
    /\ complete = [p \in Phone |-> FALSE]
    /\ serverCache = [p \in Phone |-> {}]
    /\ writes = [p \in Phone |-> {}]
    /\ events = [p \in Phone |-> <<>>]
    /\ chats = [p \in Phone |-> <<>>]
    /\ toServer = [p \in Phone |-> <<>>]
    /\ toClient = [p \in Phone |-> <<>>]
    /\ late = [p \in Phone |-> <<>>]
    /\ breaks = 0
    /\ listener = [p \in Phone |-> "none"]
    /\ db = {}
    /\ refused = {}
    /\ abandoned = {}

-----------------------------------------------------------------------------
(***************************************************************************)
(* The app.                                                                *)
(***************************************************************************)
\* viewDidLoad of Home, whether or not somebody is signed in.
observeMessages(p) ==
    /\ ~running[p]
    /\ running' = [running EXCEPT ![p] = TRUE]
    /\ listening' = [listening EXCEPT ![p] = TRUE]
    /\ UNCHANGED <<author, pushId, connected, chatsUnacked, otherUnacked, outstanding,
                   putsToAck, complete, serverCache, writes, events, chats, network, backend>>

\* A listen for another query: the profile of a user, the name of a row.
listenOther(p) ==
    /\ connected[p]
    /\ otherUnacked[p] < MaxOthers
    /\ otherUnacked' = [otherUnacked EXCEPT ![p] = @ + 1]
    /\ UNCHANGED <<running, author, pushId, connected, listening, chatsUnacked, outstanding,
                   putsToAck, complete, serverCache, writes, events, chats, network, backend>>

\* The write is outstanding until it is answered, and sent if there is a
\* connection.
putInternal(p, k) ==
    /\ outstanding' = [outstanding EXCEPT ![p] = @ \cup {k}]
    /\ toServer' = IF connected[p] THEN [toServer EXCEPT ![p] = Append(@, Put(k))]
                                   ELSE toServer

\* updateChildValues: the write shows in the view at once.
update(p, k) ==
    /\ writes' = [writes EXCEPT ![p] = @ \cup {k}]
    /\ putInternal(p, k)
    /\ UNCHANGED <<running, connected, listening, chatsUnacked, otherUnacked, putsToAck,
                   complete, serverCache, chats, toClient, late, breaks, backend>>
    /\ raiseEvents(p)

\* The next message.  childByAutoId takes the push id from the server's time,
\* the phone's clock plus an offset that every connection sets anew, so it may
\* be below those of earlier messages; 72 random bits keep it unique.
handleSendMessage(p, k) ==
    /\ running[p]
    /\ \A j \in Key : j < k <=> author[j] # Nobody
    /\ author' = [author EXCEPT ![k] = p]
    /\ \E id \in PushId \ {pushId[j] : j \in Key} : pushId' = [pushId EXCEPT ![k] = id]
    /\ update(p, k)

\* Mutant of childAdded: the newest message is put on top.
childAddedOnTop(p) ==
    /\ events[p] # <<>>
    /\ chats' = [chats EXCEPT ![p] = <<Head(events[p])>> \o @]
    /\ events' = [events EXCEPT ![p] = Tail(@)]
    /\ UNCHANGED <<running, author, pushId, connected, listening, chatsUnacked, otherUnacked,
                   outstanding, putsToAck, complete, serverCache, writes, network, backend>>

\* The block of observe(.childAdded).
childAdded(p) ==
    /\ events[p] # <<>>
    /\ chats' = [chats EXCEPT ![p] = Append(@, Head(events[p]))]
    /\ events' = [events EXCEPT ![p] = Tail(@)]
    /\ UNCHANGED <<running, author, pushId, connected, listening, chatsUnacked, otherUnacked,
                   outstanding, putsToAck, complete, serverCache, writes, network, backend>>

-----------------------------------------------------------------------------
(***************************************************************************)
(* The connection of the database client.                                  *)
(***************************************************************************)
Puts(s) == [i \in DOMAIN s |-> Put(s[i])]

index == [k \in Key |-> k]

\* Mutant of restoreState: the keys of outstandingPuts are not sorted.
restoreStateUnsorted(p) ==
    /\ running[p] /\ ~connected[p]
    /\ connected' = [connected EXCEPT ![p] = TRUE]
    /\ chatsUnacked' = [chatsUnacked EXCEPT ![p] = IF listening[p] THEN @ + 1 ELSE @]
    /\ \E s \in SetToSeqs(outstanding[p]) :
          toServer' = [toServer EXCEPT ![p] =
                          (IF listening[p] THEN <<Listen>> ELSE <<>>) \o Puts(s)]
    /\ \E n \in 0..MaxOthers : otherUnacked' = [otherUnacked EXCEPT ![p] = n]
    /\ UNCHANGED <<running, author, pushId, listening, outstanding, putsToAck, complete,
                   serverCache, writes, events, chats, toClient, late, breaks, backend>>

\* Mutant of restoreState: it does not listen again.
restoreStateDeaf(p) ==
    /\ running[p] /\ ~connected[p]
    /\ connected' = [connected EXCEPT ![p] = TRUE]
    /\ chatsUnacked' = [chatsUnacked EXCEPT ![p] = IF listening[p] /\ ~complete[p] THEN @ + 1 ELSE @]
    /\ \E s \in Sorted(outstanding[p], index) :
          toServer' = [toServer EXCEPT ![p] =
                          (IF listening[p] /\ ~complete[p] THEN <<Listen>> ELSE <<>>) \o Puts(s)]
    /\ \E n \in 0..MaxOthers : otherUnacked' = [otherUnacked EXCEPT ![p] = n]
    /\ UNCHANGED <<running, author, pushId, listening, outstanding, putsToAck, complete,
                   serverCache, writes, events, chats, toClient, late, breaks, backend>>

\* A connection is ready and authenticated: listen again, for /chats and for
\* the other queries there are, then repeat the writes that have no answer.
restoreState(p) ==
    /\ running[p] /\ ~connected[p]
    /\ connected' = [connected EXCEPT ![p] = TRUE]
    /\ chatsUnacked' = [chatsUnacked EXCEPT ![p] = IF listening[p] THEN @ + 1 ELSE @]
    /\ \E s \in Sorted(outstanding[p], index) :
          toServer' = [toServer EXCEPT ![p] =
                          (IF listening[p] THEN <<Listen>> ELSE <<>>) \o Puts(s)]
    /\ \E n \in 0..MaxOthers : otherUnacked' = [otherUnacked EXCEPT ![p] = n]
    /\ UNCHANGED <<running, author, pushId, listening, outstanding, putsToAck, complete,
                   serverCache, writes, events, chats, toClient, late, breaks, backend>>

\* The writes on the connection to the server, which a listen can only precede.
Unread(p) == IF toServer[p] # <<>> /\ Head(toServer[p]) = Listen THEN Tail(toServer[p])
                                                                 ELSE toServer[p]

\* The connection of p breaks.  Of the writes on it the server still reads the
\* first n (bound: the rest of one dead connection at a time).
Break(p) ==
    /\ breaks < MaxBreaks
    /\ breaks' = breaks + 1
    /\ connected' = [connected EXCEPT ![p] = FALSE]
    /\ toServer' = [toServer EXCEPT ![p] = <<>>]
    /\ toClient' = [toClient EXCEPT ![p] = <<>>]
    /\ listener' = [listener EXCEPT ![p] = "none"]
    /\ \E n \in 0..Len(Unread(p)) :
          /\ late[p] # <<>> => n = 0
          /\ late' = [late EXCEPT ![p] = @ \o SubSeq(Unread(p), 1, n)]

\* Mutant of onDisconnect: writes that were sent are forgotten.
onDisconnectForgets(p) ==
    /\ connected[p]
    /\ Break(p)
    /\ chatsUnacked' = [chatsUnacked EXCEPT ![p] = 0]
    /\ otherUnacked' = [otherUnacked EXCEPT ![p] = 0]
    /\ outstanding' = [outstanding EXCEPT ![p] = {}]
    /\ UNCHANGED <<running, author, pushId, listening, putsToAck, complete,
                   serverCache, writes, events, chats, db, refused, abandoned>>

\* Mutant of onDisconnect: unackedListensCount is not reset.
onDisconnectKeepsCount(p) ==
    /\ connected[p]
    /\ Break(p)
    /\ UNCHANGED <<running, author, pushId, listening, chatsUnacked, otherUnacked, outstanding,
                   putsToAck, complete, serverCache, writes, events, chats, db, refused, abandoned>>

\* The callbacks of what was sent are dropped; outstanding writes and answers
\* held back are kept.
onDisconnect(p) ==
    /\ connected[p]
    /\ Break(p)
    /\ chatsUnacked' = [chatsUnacked EXCEPT ![p] = 0]
    /\ otherUnacked' = [otherUnacked EXCEPT ![p] = 0]
    /\ UNCHANGED <<running, author, pushId, listening, outstanding, putsToAck, complete,
                   serverCache, writes, events, chats, db, refused, abandoned>>

\* The process ends.  Persistence is not enabled: the client starts from
\* nothing, and writes that have not reached the server are gone.
Kill(p) ==
    /\ running[p]
    /\ running' = [running EXCEPT ![p] = FALSE]
    /\ Break(p)
    /\ listening' = [listening EXCEPT ![p] = FALSE]
    /\ chatsUnacked' = [chatsUnacked EXCEPT ![p] = 0]
    /\ otherUnacked' = [otherUnacked EXCEPT ![p] = 0]
    /\ outstanding' = [outstanding EXCEPT ![p] = {}]
    /\ putsToAck' = [putsToAck EXCEPT ![p] = {}]
    /\ complete' = [complete EXCEPT ![p] = FALSE]
    /\ serverCache' = [serverCache EXCEPT ![p] = {}]
    /\ writes' = [writes EXCEPT ![p] = {}]
    /\ events' = [events EXCEPT ![p] = <<>>]
    /\ chats' = [chats EXCEPT ![p] = <<>>]
    /\ abandoned' = abandoned \cup outstanding[p]
    /\ UNCHANGED <<author, pushId, db, refused>>

-----------------------------------------------------------------------------
(***************************************************************************)
(* The client handles a message of the server.                             *)
(***************************************************************************)
onDataMessage(p, type) ==
    /\ toClient[p] # <<>>
    /\ Head(toClient[p]).type = type
    /\ toClient' = [toClient EXCEPT ![p] = Tail(@)]
    /\ UNCHANGED <<running, author, pushId, connected, chats, toServer, late, breaks, backend>>

\* All of /chats: an overwrite at the root of the view.
onSnapshot(p) ==
    /\ onDataMessage(p, "snapshot")
    /\ complete' = [complete EXCEPT ![p] = TRUE]
    /\ serverCache' = [serverCache EXCEPT ![p] = Head(toClient[p]).keys]
    /\ UNCHANGED <<listening, chatsUnacked, otherUnacked, outstanding, putsToAck, writes>>
    /\ raiseEvents(p)

\* One message: a merge into the cache, ignored without a complete one.
onDataUpdate(p) ==
    /\ onDataMessage(p, "data")
    /\ serverCache' = IF complete[p]
                      THEN [serverCache EXCEPT ![p] = @ \cup {Head(toClient[p]).key}]
                      ELSE serverCache
    /\ UNCHANGED <<listening, chatsUnacked, otherUnacked, outstanding, putsToAck, complete, writes>>
    /\ raiseEvents(p)

\* Mutant of onPutResponse: the answer is passed on at once.
onPutResponseAtOnce(p) ==
    /\ onDataMessage(p, "ack")
    /\ LET k == Head(toClient[p]).key
       IN  /\ outstanding' = [outstanding EXCEPT ![p] = @ \ {k}]
           /\ writes' = [writes EXCEPT ![p] = @ \ {k}]
    /\ UNCHANGED <<listening, chatsUnacked, otherUnacked, putsToAck, complete, serverCache>>
    /\ raiseEvents(p)

\* The answer to a write, which is the same to the view whether it was
\* accepted or refused: the local write goes.  While any listen is unanswered
\* the answer is held back.
onPutResponse(p) ==
    /\ onDataMessage(p, "ack")
    /\ LET k == Head(toClient[p]).key
       IN  /\ outstanding' = [outstanding EXCEPT ![p] = @ \ {k}]
           /\ \/ /\ k \in outstanding[p] /\ unackedListensCount(p) = 0
                 /\ writes' = [writes EXCEPT ![p] = @ \ {k}]
                 /\ UNCHANGED putsToAck
              \/ /\ k \in outstanding[p] /\ unackedListensCount(p) # 0
                 /\ putsToAck' = [putsToAck EXCEPT ![p] = @ \cup {k}]
                 /\ UNCHANGED writes
              \/ /\ k \notin outstanding[p]
                 /\ UNCHANGED <<putsToAck, writes>>
    /\ UNCHANGED <<listening, chatsUnacked, otherUnacked, complete, serverCache>>
    /\ raiseEvents(p)

\* A listen is answered: with the last one the answers held back are passed on.
ackPuts(p) ==
    \/ /\ unackedListensCount(p)' = 0
       /\ writes' = [writes EXCEPT ![p] = @ \ putsToAck[p]]
       /\ putsToAck' = [putsToAck EXCEPT ![p] = {}]
    \/ /\ unackedListensCount(p)' # 0
       /\ UNCHANGED <<writes, putsToAck>>

\* Mutant of onListenOk: the answers held back are not passed on.
onListenOkHolds(p) ==
    /\ onDataMessage(p, "listenOk")
    /\ chatsUnacked' = [chatsUnacked EXCEPT ![p] = @ - 1]
    /\ UNCHANGED <<listening, otherUnacked, outstanding, putsToAck, complete, serverCache, writes>>
    /\ raiseEvents(p)

onListenOk(p) ==
    /\ onDataMessage(p, "listenOk")
    /\ chatsUnacked' = [chatsUnacked EXCEPT ![p] = @ - 1]
    /\ UNCHANGED otherUnacked
    /\ ackPuts(p)
    /\ UNCHANGED <<listening, outstanding, complete, serverCache>>
    /\ raiseEvents(p)

\* The answer to a listen for another query, which may come at any point of the
\* connection.
onOtherListen(p) ==
    /\ otherUnacked[p] > 0
    /\ otherUnacked' = [otherUnacked EXCEPT ![p] = @ - 1]
    /\ UNCHANGED chatsUnacked
    /\ ackPuts(p)
    /\ UNCHANGED <<running, author, pushId, connected, listening, outstanding, complete,
                   serverCache, chats, network, backend>>
    /\ raiseEvents(p)

\* The query and its view are removed.  The app gives no cancel block, so
\* nobody is told, and nothing listens again before the process is restarted.
removeListen(p) ==
    /\ listening' = [listening EXCEPT ![p] = FALSE]
    /\ complete' = [complete EXCEPT ![p] = FALSE]
    /\ serverCache' = [serverCache EXCEPT ![p] = {}]

\* The rules refuse the listen.
onListenDenied(p) ==
    /\ onDataMessage(p, "denied")
    /\ removeListen(p)
    /\ chatsUnacked' = [chatsUnacked EXCEPT ![p] = @ - 1]
    /\ UNCHANGED otherUnacked
    /\ ackPuts(p)
    /\ UNCHANGED <<outstanding, events>>

\* The rules no longer allow the listen, as after signing out.
onListenRevoked(p) ==
    /\ onDataMessage(p, "revoked")
    /\ removeListen(p)
    /\ UNCHANGED <<chatsUnacked, otherUnacked, outstanding, putsToAck, writes, events>>

Receive(p) ==
    \/ onSnapshot(p) \/ onDataUpdate(p) \/ onPutResponse(p)
    \/ onListenOk(p) \/ onListenDenied(p) \/ onListenRevoked(p)

-----------------------------------------------------------------------------
(***************************************************************************)
(* The server.                                                             *)
(***************************************************************************)
readListen(p) ==
    /\ toServer[p] # <<>>
    /\ Head(toServer[p]) = Listen
    /\ toServer' = [toServer EXCEPT ![p] = Tail(@)]
    /\ listener' = [listener EXCEPT ![p] = "asked"]
    /\ UNCHANGED <<client, toClient, late, breaks, db, refused, abandoned>>

answerListen(p) ==
    /\ listener[p] = "asked"
    /\ \/ /\ listener' = [listener EXCEPT ![p] = "on"]
          /\ toClient' = [toClient EXCEPT ![p] = @ \o <<Snapshot(db), ListenOk>>]
       \/ /\ listener' = [listener EXCEPT ![p] = "none"]
          /\ toClient' = [toClient EXCEPT ![p] = Append(@, Denied)]
    /\ UNCHANGED <<client, toServer, late, breaks, db, refused, abandoned>>

revokeListen(p) ==
    /\ listener[p] = "on"
    /\ listener' = [listener EXCEPT ![p] = "none"]
    /\ toClient' = [toClient EXCEPT ![p] = Append(@, Revoked)]
    /\ UNCHANGED <<client, toServer, late, breaks, db, refused, abandoned>>

\* The write of k: accepted, and then sent to every listener if it is new, or
\* refused; the connections in answerTo get the answer.
Store(k, answerTo) ==
    \/ /\ db' = db \cup {k}
       /\ toClient' = [q \in Phone |->
              toClient[q]
              \o (IF listener[q] = "on" /\ k \notin db THEN <<Data(k)>> ELSE <<>>)
              \o (IF q \in answerTo THEN <<Ack(k)>> ELSE <<>>)]
       /\ UNCHANGED refused
    \/ /\ refused' = refused \cup {k}
       /\ toClient' = [q \in Phone |->
              IF q \in answerTo THEN Append(toClient[q], Ack(k)) ELSE toClient[q]]
       /\ UNCHANGED db

readPut(p) ==
    /\ toServer[p] # <<>>
    /\ Head(toServer[p]).type = "put"
    /\ toServer' = [toServer EXCEPT ![p] = Tail(@)]
    /\ Store(Head(toServer[p]).key, {p})
    /\ UNCHANGED <<client, late, breaks, listener, abandoned>>

readLate(p) ==
    /\ late[p] # <<>>
    /\ late' = [late EXCEPT ![p] = Tail(@)]
    /\ Store(Head(late[p]).key, {})
    /\ UNCHANGED <<client, toServer, breaks, listener, abandoned>>

Serve(p) == readListen(p) \/ readPut(p)

-----------------------------------------------------------------------------
Next ==
    \E p \in Phone :
        \/ observeMessages(p) \/ childAdded(p) \/ listenOther(p)
        \/ \E k \in Key : handleSendMessage(p, k)
        \/ restoreState(p) \/ onDisconnect(p) \/ Kill(p)
        \/ Receive(p) \/ onOtherListen(p)
        \/ Serve(p) \/ answerListen(p) \/ revokeListen(p) \/ readLate(p)

Spec == Init /\ [][Next]_vars

\* A connection that is up carries messages, the server answers, and the
\* queues of the phone run.  People, kills and broken connections are not fair.
Fairness ==
    \A p \in Phone : /\ WF_vars(Serve(p))
                     /\ WF_vars(answerListen(p))
                     /\ WF_vars(Receive(p))
                     /\ WF_vars(onOtherListen(p))
                     /\ WF_vars(childAdded(p))

FairSpec == Spec /\ Fairness

-----------------------------------------------------------------------------
(***************************************************************************)
(* Properties.                                                             *)
(***************************************************************************)
\* Every variable has the type the code gives it; unackedListensCount is never
\* negative, and counts the listen for /chats at most once.
TypeOK ==
    /\ running \in [Phone -> BOOLEAN]
    /\ author \in [Key -> Phone \cup {Nobody}]
    /\ pushId \in [Key -> PushId \cup {0}]
    /\ connected \in [Phone -> BOOLEAN]
    /\ listening \in [Phone -> BOOLEAN]
    /\ chatsUnacked \in [Phone -> 0..1]
    /\ otherUnacked \in [Phone -> 0..MaxOthers]
    /\ outstanding \in [Phone -> SUBSET Key]
    /\ putsToAck \in [Phone -> SUBSET Key]
    /\ complete \in [Phone -> BOOLEAN]
    /\ serverCache \in [Phone -> SUBSET Key]
    /\ writes \in [Phone -> SUBSET Key]
    /\ events \in [Phone -> Seq(Key)]
    /\ chats \in [Phone -> Seq(Key)]
    /\ toServer \in [Phone -> Seq(ToServer)]
    /\ toClient \in [Phone -> Seq(ToClient)]
    /\ late \in [Phone -> Seq(ToServer)]
    /\ listener \in [Phone -> {"none", "asked", "on"}]
    /\ breaks \in 0..MaxBreaks
    /\ db \subseteq Key
    /\ refused \subseteq Key
    /\ abandoned \subseteq Key

\* What p shows or is about to show, in order.
Feed(p) == chats[p] \o events[p]

\* Every message is shown once.  The app appends on every childAdded and never
\* looks whether the chat is there, so this rests on the client reporting no
\* child twice: over its own write and the server's echo of it, over a write
\* repeated on a new connection, over the snapshot of a new listen.  A message
\* that the rules refused may come back, when a repeat of it is accepted.
NoDuplicateChat ==
    \A p \in Phone : \A i, j \in DOMAIN Feed(p) :
        i # j /\ Feed(p)[i] = Feed(p)[j] => Feed(p)[i] \in refused

\* Everybody sees the messages of one sender in the order in which they were
\* sent, over reconnects and repeated writes, unless the clock behind the push
\* ids went back between them: of two messages that the view gets at once the
\* one with the lower push id is shown first.  Out of order may also come a
\* message that was refused first, and one abandoned by a process that was
\* killed, which the server may read after those of the next process.
SenderOrder ==
    \A p \in Phone : \A i, j \in DOMAIN Feed(p) :
        LET x == Feed(p)[i]
            y == Feed(p)[j]
        IN  i < j /\ author[x] = author[y] /\ {x, y} \cap (refused \cup abandoned) = {}
            => x <= y \/ pushId[x] < pushId[y]

\* No message that is shown is lost: it is stored, or the phone that shows it
\* is its author and will send it again, or the author has been told it was
\* refused (which the app ignores).
NothingLost ==
    \A p \in Phone : \A k \in ToSet(Feed(p)) :
        \/ k \in db \cup refused
        \/ author[k] = p /\ k \in outstanding[p]

\* p and the server have nothing more to say to each other.
Quiet(p) ==
    /\ connected[p] /\ listening[p]
    /\ toServer[p] = <<>> /\ toClient[p] = <<>> /\ listener[p] = "on"
    /\ events[p] = <<>> /\ otherUnacked[p] = 0

\* A quiet phone shows all of /chats, and nothing else but messages refused;
\* it waits for no answer and holds none back.
QuietConverged ==
    \A p \in Phone : Quiet(p) =>
        /\ db \subseteq ToSet(chats[p])
        /\ ToSet(chats[p]) \ db \subseteq refused
        /\ outstanding[p] = {} /\ writes[p] = {}

Board == INSTANCE ChatBoard WITH board <- db, shown <- [p \in Phone |-> Feed(p)]

\* Behind connections, caches, repeats and queues there is a board: observing
\* /chats shows each phone a list that only grows, by messages stored or its
\* own, each once, and starts again only with the process.
ImplementsBoard == Board!Spec

\* Unless the connection breaks or the read is refused, a stored message is
\* shown on every phone in the end.
Delivered ==
    \A p \in Phone, k \in Key :
        k \in db ~> k \in ToSet(chats[p]) \/ ~connected[p] \/ ~listening[p]

\* Unless the connection breaks, every write is answered, and an answer held
\* back is passed on.  It waits for as long as some listen is unanswered, so not
\* for ever unless listens for other queries overlap without end; and a phone
\* whose listen for /chats was taken away may hold an answer back with no listen
\* left to release it, in a view that nobody sees.
WritesSettle ==
    \A p \in Phone, k \in Key :
        []<>(otherUnacked[p] = 0) =>
            (k \in writes[p] ~> k \notin writes[p] \/ ~connected[p] \/ ~listening[p])

\* What a connection that stays up owes the app: its messages shown, its writes
\* answered.
SettlesOnline == Delivered /\ WritesSettle
=============================================================================
