--------------------------- MODULE ChatFeedProofs ---------------------------
(***************************************************************************)
(* Proofs about ChatFeed, part 2: the list of each phone, the theorems, and *)
(* the order in which everybody sees the messages of one sender, for any   *)
(* number of phones, messages and broken connections.                      *)
(***************************************************************************)
EXTENDS ChatFeedSteps

USE DEF unackedListensCount

LEMMA FeedType ==
    ASSUME TypeOK, NEW p \in Phone
    PROVE  Feed(p) \in Seq(Key) /\ chats[p] \in Seq(Key) /\ events[p] \in Seq(Key)
<1>1. chats[p] \in Seq(Key) /\ events[p] \in Seq(Key)
  BY DEF TypeOK
<1> QED
  BY <1>1, ConcatOf DEF Feed

\* The first of e moves to the end of c.
LEMMA MoveHead ==
    ASSUME NEW S, NEW c \in Seq(S), NEW e \in Seq(S), e # <<>>
    PROVE  Append(c, Head(e)) \o Tail(e) = c \o e
<1>1. Head(e) \in S /\ Tail(e) \in Seq(S) /\ <<Head(e)>> \in Seq(S)
  BY TailOf
<1>2. Append(c, Head(e)) = c \o <<Head(e)>>
  BY <1>1, ConcatOne
<1>3. <<Head(e)>> \o Tail(e) = e
  BY HeadTailProperties
<1>4. (c \o <<Head(e)>>) \o Tail(e) = c \o (<<Head(e)>> \o Tail(e))
  BY <1>1, ConcatAssociative
<1> QED
  BY <1>2, <1>3, <1>4

\* What s lists twice is in r.
Distinct(s, r) == \A i, j \in DOMAIN s : i # j /\ s[i] = s[j] => s[i] \in r

LEMMA DistinctConcat ==
    ASSUME NEW S, NEW q \in Seq(S), NEW t \in Seq(S), NEW r, Distinct(q, r),
           \A i, j \in DOMAIN t : i # j => t[i] # t[j],
           \A i \in DOMAIN t : t[i] \in ToSet(q) => t[i] \in r
    PROVE  Distinct(q \o t, r)
<1> DEFINE u == q \o t
<1>1. /\ Len(q) \in Nat /\ Len(t) \in Nat
      /\ DOMAIN q = 1 .. Len(q) /\ DOMAIN t = 1 .. Len(t) /\ DOMAIN u = 1 .. Len(q) + Len(t)
      /\ \A i \in DOMAIN q : u[i] = q[i]
      /\ \A i \in DOMAIN t : u[Len(q) + i] = t[i]
  BY ConcatOf
<1> HIDE DEF u
<1>2. ASSUME NEW i \in DOMAIN u PROVE i \in DOMAIN q \/ (i - Len(q) \in DOMAIN t /\ u[i] = t[i - Len(q)])
  <2>1. CASE i \notin DOMAIN q
    <3>1. i - Len(q) \in DOMAIN t /\ Len(q) + (i - Len(q)) = i
      BY <1>1, <2>1
    <3> QED
      BY <1>1, <3>1
  <2> QED
    BY <2>1
<1>3. \A i \in DOMAIN q : u[i] \in ToSet(q)
  BY <1>1 DEF ToSet
<1> SUFFICES ASSUME NEW i \in DOMAIN u, NEW j \in DOMAIN u, i # j, u[i] = u[j] PROVE u[i] \in r
  BY DEF u, Distinct
<1>4. CASE i \in DOMAIN q /\ j \in DOMAIN q
  BY <1>1, <1>4 DEF Distinct
<1>5. CASE i \in DOMAIN q /\ j \notin DOMAIN q
  BY <1>2, <1>3, <1>5
<1>6. CASE i \notin DOMAIN q /\ j \in DOMAIN q
  BY <1>2, <1>3, <1>6
<1>7. CASE i \notin DOMAIN q /\ j \notin DOMAIN q
  <2>1. i - Len(q) # j - Len(q)
    BY <1>1
  <2> QED
    BY <1>2, <1>7, <2>1
<1> QED
  BY <1>4, <1>5, <1>6, <1>7

-----------------------------------------------------------------------------
(***************************************************************************)
(* Every step keeps the lists.                                             *)
(***************************************************************************)
Unique(p) == Distinct(Feed(p), refused)

Kept(p) == \A k \in ToSet(Feed(p)) : k \in db \cup refused \/ (author[k] = p /\ k \in outstanding[p])

FeedAt(p) == Mirrors(p) /\ Unique(p) /\ Kept(p)

\* A step that adds t to the list of p by push id, with nothing of the view and
\* nothing that is in the list already unless it was refused.
Adds(p, t) ==
    /\ t \in Seq(Key) /\ Feed(p)' = Feed(p) \o t
    /\ \A i, j \in DOMAIN t : i # j => t[i] # t[j]
    /\ \A i, j \in DOMAIN t : i < j => pushId'[t[i]] < pushId'[t[j]]
    /\ \A i \in DOMAIN t : /\ t[i] \in db \/ author'[t[i]] = p
                           /\ t[i] \in ToSet(Feed(p)) => t[i] \in refused
                           /\ t[i] \notin View(p) /\ (complete[p] \/ Feed(p) = <<>>)

LEMMA FeedInvAt == FeedInv <=> \A p \in Phone : FeedAt(p)
BY DEF FeedInv, FeedAt, Unique, Distinct, Kept, NothingLost, NoDuplicateChat

LEMMA FeedRaised ==
    ASSUME TypeOK, TypeOK', NEW p \in Phone, FeedAt(p), raiseEvents(p),
           UNCHANGED <<chats, running, listening, refused, db>>,
           complete[p] => complete'[p], ~complete[p] /\ complete'[p] => listening[p],
           View(p) \subseteq View(p)' \cup refused,
           \A k \in View(p)' \ View(p) :
             /\ k \in db \/ author'[k] = p
             /\ k \in db \cup refused \/ (author'[k] = p /\ k \in outstanding'[p]),
           \A k \in outstanding[p] : author[k] = p => k \in db \cup refused \/ (author'[k] = p /\ k \in outstanding'[p])
    PROVE  FeedAt(p)' /\ \E t : Adds(p, t)
<1>1. /\ serverCache' \in [Phone -> SUBSET Key] /\ writes' \in [Phone -> SUBSET Key]
      /\ pushId' \in [Key -> PushId \cup {0}]
  BY DEF TypeOK
<1>2. PICK t \in Seq(Key) :
             /\ events' = [events EXCEPT ![p] = @ \o t] /\ ToSet(t) = View(p)' \ View(p)
             /\ DOMAIN t = 1 .. Len(t)
             /\ \A i, j \in DOMAIN t : i < j => pushId'[t[i]] < pushId'[t[j]]
             /\ \A i, j \in DOMAIN t : i # j => t[i] # t[j]
  BY <1>1, Raised
<1>3. Feed(p) \in Seq(Key) /\ chats[p] \in Seq(Key) /\ events[p] \in Seq(Key)
  BY FeedType
<1>4. Feed(p)' = Feed(p) \o t
  <2>1. Feed(p)' = chats[p] \o (events[p] \o t)
    BY <1>2 DEF Feed, TypeOK
  <2>2. (chats[p] \o events[p]) \o t = chats[p] \o (events[p] \o t)
    <3> DEFINE c == chats[p]
               e == events[p]
    <3> HIDE DEF c, e
    <3>1. c \in Seq(Key) /\ e \in Seq(Key)
      BY <1>3 DEF c, e
    <3>2. (c \o e) \o t = c \o (e \o t)
      BY <3>1, ConcatAssociative
    <3> QED
      BY <3>2 DEF c, e
  <2> QED
    BY <2>1, <2>2 DEF Feed
<1>5. ToSet(Feed(p) \o t) = ToSet(Feed(p)) \cup ToSet(t)
  BY <1>3, ToSetConcat
<1>6. /\ complete[p] => ToSet(Feed(p)) \subseteq View(p) \cup refused /\ View(p) \subseteq ToSet(Feed(p))
      /\ ~complete[p] /\ (listening[p] \/ ~running[p]) => Feed(p) = <<>>
      /\ Unique(p) /\ Kept(p)
  BY DEF FeedAt, Mirrors
<1>7. ToSet(<<>>) = {} /\ (~complete[p] => View(p) = {}) /\ (~complete'[p] => View(p)' = {})
  BY DEF ToSet, View
<1>8. \A i \in DOMAIN t : t[i] \in View(p)' \ View(p)
  BY <1>2 DEF ToSet
<1>9. ASSUME NEW i \in DOMAIN t
      PROVE  (complete[p] \/ Feed(p) = <<>>) /\ (t[i] \in ToSet(Feed(p)) => t[i] \in refused)
  <2>1. complete'[p]
    BY <1>7, <1>8
  <2>2. complete[p] \/ Feed(p) = <<>>
    BY <1>6, <2>1
  <2> QED
    BY <1>6, <1>7, <1>8, <2>2
<1>10. Adds(p, t)
  BY <1>2, <1>4, <1>8, <1>9 DEF Adds
<1>11. Unique(p)'
  <2> DEFINE f == Feed(p)
             g == Feed(p)'
  <2>2. f \in Seq(Key) /\ g = f \o t /\ Distinct(f, refused)
    BY <1>3, <1>4, <1>6 DEF Unique
  <2>3. \A i \in DOMAIN t : t[i] \in ToSet(f) => t[i] \in refused
    BY <1>9
  <2> HIDE DEF f, g
  <2>4. Distinct(g, refused)
    BY <1>2, <2>2, <2>3, DistinctConcat
  <2> QED
    BY <2>4 DEF g, Unique
<1>12. ToSet(Feed(p)') = ToSet(Feed(p)) \cup (View(p)' \ View(p))
  BY <1>2, <1>4, <1>5
<1>13. Mirrors(p)'
  <2>1. ASSUME complete'[p]
        PROVE  ToSet(Feed(p)') \subseteq View(p)' \cup refused' /\ View(p)' \subseteq ToSet(Feed(p)')
    <3>1. CASE complete[p]
      BY <1>6, <1>12, <3>1
    <3>2. CASE ~complete[p]
      <4>1. ToSet(Feed(p)) = {} /\ View(p) = {}
        BY <1>6, <1>7, <2>1, <3>2
      <4> QED
        BY <1>12, <4>1
    <3> QED
      BY <3>1, <3>2
  <2>2. ASSUME ~complete'[p], listening'[p] \/ ~running'[p] PROVE Feed(p)' = <<>>
    <3>1. Feed(p) = <<>> /\ ToSet(t) = {}
      BY <1>2, <1>6, <1>7, <2>2
    <3>2. t = <<>>
      <4>1. t # <<>> => 1 \in DOMAIN t
        BY TailOf
      <4> QED
        BY <3>1, <4>1 DEF ToSet
    <3> QED
      BY <1>4, <3>1, <3>2
  <2>3. ToSet(Feed(p))' = ToSet(Feed(p)')
    OBVIOUS
  <2> QED
    BY <2>1, <2>2 DEF Mirrors
<1>14. Kept(p)'
  <2>1. \A k \in ToSet(Feed(p)) : k \in db \cup refused \/ (author[k] = p /\ k \in outstanding[p])
    BY <1>6 DEF Kept
  <2> QED
    BY <1>12, <2>1 DEF Kept
<1> QED
  BY <1>10, <1>11, <1>13, <1>14 DEF FeedAt

LEMMA ContentReadAt ==
    ASSUME TypeOK, WireInv, ContentInv, NEW p \in Phone, toClient[p] # <<>>
    PROVE  ContentAfterRead(listening[p], chatsUnacked[p], listener[p], serverCache[p], putsToAck[p], toClient[p],
                            db, refused)
<1>1. Wire(connected[p], listening[p], chatsUnacked[p], complete[p], listener[p], toServer[p], toClient[p])
  BY DEF WireInv
<1>2. Content(listening[p], chatsUnacked[p], listener[p], serverCache[p], putsToAck[p], toClient[p], db, refused)
  BY DEF ContentInv
<1>3. chatsUnacked[p] \in 0 .. 1 /\ listener[p] \in {"none", "asked", "on"} /\ toClient[p] \in Seq(ToClient)
  BY DEF TypeOK
<1> QED
  BY <1>1, <1>2, <1>3, ContentRead

\* A phone with a view listens; what it holds back has been answered.
LEMMA ViewFacts ==
    ASSUME TypeOK, WireInv, ContentInv, PendingInv, NEW p \in Phone
    PROVE  /\ complete[p] => listening[p]
           /\ toClient[p] # <<>> => connected[p] /\ running[p]
           /\ putsToAck[p] \subseteq db \cup refused /\ serverCache[p] \subseteq db
           /\ writes[p] = outstanding[p] \cup putsToAck[p] /\ \A k \in writes[p] : author[k] = p
<1>1. complete[p] => listening[p]
  BY DEF WireInv, Wire
<1>2. toClient[p] # <<>> => connected[p]
  BY DEF WireInv, Wire
<1>3. putsToAck[p] \subseteq db \cup refused /\ serverCache[p] \subseteq db
  BY DEF ContentInv, Content, Truthful
<1>4. Pending(p)
  BY DEF PendingInv
<1> QED
  BY <1>1, <1>2, <1>3, <1>4 DEF Pending

\* A list that does not change, while the server goes on.
LEMMA AddsNothing ==
    ASSUME TypeOK, NEW p \in Phone, Feed(p)' = Feed(p)
    PROVE  \E t : Adds(p, t)
<1>1. Feed(p) \in Seq(Key) /\ <<>> \in Seq(Key) /\ DOMAIN <<>> = {}
  BY FeedType
<1>2. Feed(p) \o <<>> = Feed(p)
  BY <1>1
<1>3. Adds(p, <<>>)
  BY <1>1, <1>2 DEF Adds
<1> QED
  BY <1>3

LEMMA FeedSame ==
    ASSUME NEW p \in Phone, FeedAt(p), Feed(p)' = Feed(p), db \subseteq db', refused \subseteq refused',
           View(p)' = View(p), complete'[p] = complete[p],
           complete[p] \/ (listening'[p] = listening[p] /\ running'[p] = running[p]) \/ Feed(p) = <<>>,
           \A k \in outstanding[p] : author[k] = p => author'[k] = p /\ k \in outstanding'[p]
    PROVE  FeedAt(p)'
<1>1. Mirrors(p)'
  BY DEF FeedAt, Mirrors
<1>2. Unique(p)'
  <2> DEFINE f == Feed(p)
             g == Feed(p)'
  <2>1. Distinct(f, refused) /\ g = f
    BY DEF FeedAt, Unique
  <2> HIDE DEF f, g
  <2>2. Distinct(g, refused')
    BY <2>1 DEF Distinct
  <2> QED
    BY <2>2 DEF g, Unique
<1>3. Kept(p)'
  BY DEF FeedAt, Kept
<1> QED
  BY <1>1, <1>2, <1>3 DEF FeedAt

LEMMA ReadFeed ==
    ASSUME TypeOK, TypeOK', WireInv, ContentInv, PendingInv, HeldInv, NEW p \in Phone, FeedAt(p),
           Receive(p) \/ onOtherListen(p)
    PROVE  FeedAt(p)' /\ \E t : Adds(p, t)
<1> DEFINE q == toClient[p]
           Reads(type) == q # <<>> /\ q[1].type = type /\ Head(q) = q[1]
                          /\ UNCHANGED <<author, running, connected, chats, db, refused>>
<1>1. ASSUME NEW type, onDataMessage(p, type) PROVE Reads(type)
  BY <1>1, Reading DEF onDataMessage, backend
<1>2. ASSUME q # <<>>
      PROVE  /\ WireAfterRead(connected[p], listening[p], chatsUnacked[p], complete[p], listener[p], toServer[p], q)
             /\ ContentAfterRead(listening[p], chatsUnacked[p], listener[p], serverCache[p], putsToAck[p], q, db, refused)
  BY <1>2, WireReadAt, ContentReadAt
<1>3. /\ complete[p] => listening[p]
      /\ q # <<>> => connected[p] /\ running[p]
      /\ putsToAck[p] \subseteq db \cup refused /\ serverCache[p] \subseteq db
      /\ writes[p] = outstanding[p] \cup putsToAck[p] /\ \A k \in writes[p] : author[k] = p
      /\ chatsUnacked[p] \in 0 .. 1 /\ otherUnacked[p] \in Nat
  <2>1. /\ complete[p] => listening[p]
        /\ q # <<>> => connected[p] /\ running[p]
        /\ putsToAck[p] \subseteq db \cup refused /\ serverCache[p] \subseteq db
        /\ writes[p] = outstanding[p] \cup putsToAck[p] /\ \A k \in writes[p] : author[k] = p
    BY ViewFacts
  <2>2. chatsUnacked[p] \in 0 .. 1 /\ otherUnacked[p] \in 0 .. MaxOthers
    BY DEF TypeOK
  <2> QED
    BY <2>1, <2>2, OthersBounded
<1> HIDE DEF q, Reads
<1>4. CASE onSnapshot(p)
  <2>1. Reads("snapshot")
    BY <1>1, <1>4 DEF onSnapshot
  <2>2. /\ complete' = [complete EXCEPT ![p] = TRUE]
        /\ serverCache' = [serverCache EXCEPT ![p] = q[1].keys]
        /\ UNCHANGED <<listening, outstanding, putsToAck, writes>> /\ raiseEvents(p)
    BY <1>4, <2>1 DEF onSnapshot, Reads, q
  <2>3. serverCache[p] \subseteq q[1].keys /\ q[1].keys \subseteq db
    BY <1>2, <2>1 DEF ContentAfterRead, Reads
  <2>4. complete'[p] /\ serverCache'[p] = q[1].keys
    BY <2>2 DEF TypeOK
  <2>5. View(p) \subseteq View(p)' /\ View(p)' = q[1].keys \cup writes[p]
    BY <2>2, <2>3, <2>4 DEF View
  <2>6. listening[p]
    <3>1. Wire(connected[p], listening[p], chatsUnacked[p], complete[p], listener[p], toServer[p], q)
      BY DEF WireInv, q
    <3>2. 1 \in DOMAIN q
      BY <2>1, TailOf DEF Reads, TypeOK, q
    <3> QED
      BY <2>1, <3>1, <3>2 DEF Wire, Only, Reads
  <2>7. UNCHANGED <<chats, running, listening, refused, db>>
    BY <2>1, <2>2 DEF Reads
  <2>8. \A k \in View(p)' \ View(p) :
             /\ k \in db \/ author'[k] = p
             /\ k \in db \cup refused \/ (author'[k] = p /\ k \in outstanding'[p])
    BY <1>3, <2>1, <2>2, <2>3, <2>5 DEF Reads
  <2>9. \A k \in outstanding[p] : author[k] = p => k \in db \cup refused \/ (author'[k] = p /\ k \in outstanding'[p])
    BY <2>1, <2>2 DEF Reads
  <2> QED
    BY <2>2, <2>4, <2>5, <2>6, <2>7, <2>8, <2>9, FeedRaised
<1>5. CASE onDataUpdate(p)
  <2>1. Reads("data")
    BY <1>1, <1>5 DEF onDataUpdate
  <2>2. complete[p] /\ q[1].key \in db
    BY <1>2, <2>1 DEF WireAfterRead, ContentAfterRead, Reads
  <2>3. /\ serverCache' = [serverCache EXCEPT ![p] = @ \cup {q[1].key}]
        /\ UNCHANGED <<listening, outstanding, putsToAck, complete, writes>> /\ raiseEvents(p)
    BY <1>5, <2>1, <2>2 DEF onDataUpdate, Reads, q
  <2>4. View(p)' = View(p) \cup {q[1].key}
    BY <2>2, <2>3 DEF View, TypeOK
  <2>5. UNCHANGED <<chats, running, listening, refused, db, author>>
    BY <2>1, <2>3 DEF Reads
  <2> QED
    BY <2>2, <2>3, <2>4, <2>5, FeedRaised
<1>6. CASE onPutResponse(p)
  <2>1. Reads("ack")
    BY <1>1, <1>6 DEF onPutResponse
  <2>2. /\ outstanding' = [outstanding EXCEPT ![p] = @ \ {q[1].key}]
        /\ writes' = writes \/ (chatsUnacked[p] = 0 /\ writes' = [writes EXCEPT ![p] = @ \ {q[1].key}])
        /\ UNCHANGED <<listening, complete, serverCache>> /\ raiseEvents(p)
    BY <1>3, <1>6, <2>1 DEF onPutResponse, Reads, q
  <2>3. /\ outstanding'[p] = outstanding[p] \ {q[1].key}
        /\ writes'[p] = writes[p] \/ (chatsUnacked[p] = 0 /\ writes'[p] = writes[p] \ {q[1].key})
    BY <2>2 DEF TypeOK
  <2>4. q[1].key \in db \cup refused /\ (listening[p] /\ chatsUnacked[p] = 0 => q[1].key \in refused \cup serverCache[p])
    BY <1>2, <2>1 DEF ContentAfterRead, Reads
  <2>5. View(p) \subseteq View(p)' \cup refused /\ View(p)' \subseteq View(p)
    BY <1>3, <2>2, <2>3, <2>4 DEF View
  <2>6. UNCHANGED <<chats, running, listening, refused, db, author>>
    BY <2>1, <2>2 DEF Reads
  <2>7. \A k \in outstanding[p] : author[k] = p => k \in db \cup refused \/ (author'[k] = p /\ k \in outstanding'[p])
    BY <2>3, <2>4, <2>6
  <2> QED
    BY <2>2, <2>5, <2>6, <2>7, FeedRaised
<1>7. CASE onListenOk(p)
  <2>1. Reads("listenOk")
    BY <1>1, <1>7 DEF onListenOk
  <2>2. UNCHANGED <<listening, outstanding, complete, serverCache>> /\ ackPuts(p) /\ raiseEvents(p)
    BY <1>7 DEF onListenOk
  <2>3. putsToAck[p] \subseteq refused \cup serverCache[p]
    BY <1>2, <2>1 DEF ContentAfterRead, Reads
  <2>4. PICK g \in {{}, putsToAck[p]} : writes'[p] = writes[p] \ g
    BY <2>2, Acked
  <2>5. View(p) \subseteq View(p)' \cup refused /\ View(p)' \subseteq View(p)
    BY <2>2, <2>3, <2>4 DEF View
  <2>6. UNCHANGED <<chats, running, listening, refused, db, author>>
    BY <2>1, <2>2 DEF Reads
  <2> QED
    BY <2>2, <2>5, <2>6, FeedRaised
<1>8. ASSUME NEW type, Reads(type), UNCHANGED <<outstanding, events>>, ~complete'[p], ~listening'[p]
      PROVE  FeedAt(p)' /\ \E t : Adds(p, t)
  <2>1. Feed(p)' = Feed(p)
    BY <1>8 DEF Reads, Feed
  <2>2. running'[p] /\ UNCHANGED <<author, db, refused>>
    BY <1>3, <1>8 DEF Reads
  <2>3. Mirrors(p)'
    BY <1>8, <2>2 DEF Mirrors
  <2>4. Unique(p)' /\ Kept(p)'
    BY <1>8, <2>1, <2>2 DEF FeedAt, Unique, Kept, Distinct
  <2> QED
    BY <2>1, <2>3, <2>4, AddsNothing DEF FeedAt
<1>9. CASE onListenDenied(p)
  <2>1. Reads("denied") /\ UNCHANGED <<outstanding, events>>
    BY <1>1, <1>9 DEF onListenDenied
  <2>2. ~complete'[p] /\ ~listening'[p]
    BY <1>9 DEF onListenDenied, removeListen, TypeOK
  <2> QED
    BY <1>8, <2>1, <2>2
<1>10. CASE onListenRevoked(p)
  <2>1. Reads("revoked") /\ UNCHANGED <<outstanding, events>>
    BY <1>1, <1>10 DEF onListenRevoked
  <2>2. ~complete'[p] /\ ~listening'[p]
    BY <1>10 DEF onListenRevoked, removeListen, TypeOK
  <2> QED
    BY <1>8, <2>1, <2>2
<1>11. CASE onOtherListen(p)
  <2>1. /\ otherUnacked[p] > 0 /\ ackPuts(p) /\ raiseEvents(p)
        /\ UNCHANGED <<listening, running, outstanding, complete, serverCache, chats, author, db, refused, chatsUnacked>>
        /\ otherUnacked' = [otherUnacked EXCEPT ![p] = @ - 1]
    BY <1>11 DEF onOtherListen, backend
  <2>2. PICK g \in {{}, putsToAck[p]} : writes'[p] = writes[p] \ g /\ (g = {} \/ unackedListensCount(p)' = 0)
    BY <2>1, Acked
  <2>3. g = {} \/ chatsUnacked[p] = 0
    BY <1>3, <2>1, <2>2 DEF TypeOK
  <2>4. complete[p] => g \subseteq refused \cup serverCache[p]
    <3>1. Held(p)
      BY DEF HeldInv
    <3>2. connected[p]
      BY <2>1, <3>1 DEF Held
    <3> QED
      BY <1>3, <2>3, <3>1, <3>2 DEF Held
  <2>5. View(p) \subseteq View(p)' \cup refused /\ View(p)' \subseteq View(p)
    BY <2>1, <2>2, <2>4 DEF View
  <2> QED
    BY <2>1, <2>5, FeedRaised
<1> QED
  BY <1>4, <1>5, <1>6, <1>7, <1>9, <1>10, <1>11 DEF Receive

LEMMA SendFeed ==
    ASSUME TypeOK, TypeOK', NEW p \in Phone, FeedAt(p), NEW k \in Key, handleSendMessage(p, k)
    PROVE  FeedAt(p)' /\ \E t : Adds(p, t)
<1>1. /\ author[k] = Nobody /\ author' = [author EXCEPT ![k] = p]
      /\ writes' = [writes EXCEPT ![p] = @ \cup {k}] /\ outstanding' = [outstanding EXCEPT ![p] = @ \cup {k}]
      /\ UNCHANGED <<chats, running, listening, refused, db, complete, serverCache>> /\ raiseEvents(p)
  BY KeysOrdered DEF handleSendMessage, update, putInternal, backend
<1>2. /\ writes'[p] = writes[p] \cup {k} /\ outstanding'[p] = outstanding[p] \cup {k} /\ author'[k] = p
      /\ \A j \in Key : j # k => author'[j] = author[j]
  BY <1>1 DEF TypeOK
<1>3. View(p) \subseteq View(p)' \cup refused /\ View(p)' \subseteq View(p) \cup {k}
  BY <1>1, <1>2 DEF View
<1>4. \A j \in outstanding[p] : author[j] = p => j \in db \cup refused \/ (author'[j] = p /\ j \in outstanding'[p])
  BY <1>2 DEF TypeOK
<1>5. \A j \in View(p)' \ View(p) :
             /\ j \in db \/ author'[j] = p
             /\ j \in db \cup refused \/ (author'[j] = p /\ j \in outstanding'[p])
  BY <1>2, <1>3
<1> QED
  BY <1>1, <1>3, <1>4, <1>5, FeedRaised


\* What the list of p depends on, besides the server.
Shows(p) == <<chats[p], events[p], complete[p], serverCache[p], writes[p], listening[p], running[p], outstanding[p]>>

LEMMA FeedFrame ==
    ASSUME TypeOK, FeedInv, NEW p \in Phone, \A o \in Phone \ {p} : Shows(o)' = Shows(o),
           \A k \in Key : author[k] # Nobody => author'[k] = author[k],
           db \subseteq db', refused \subseteq refused', FeedAt(p)'
    PROVE  FeedInv'
<1>1. ASSUME NEW o \in Phone, o # p PROVE FeedAt(o)'
  <2>1. /\ chats'[o] = chats[o] /\ events'[o] = events[o] /\ complete'[o] = complete[o]
        /\ serverCache'[o] = serverCache[o] /\ writes'[o] = writes[o] /\ listening'[o] = listening[o]
        /\ running'[o] = running[o] /\ outstanding'[o] = outstanding[o]
    <3>1. Shows(o)' = Shows(o)
      BY <1>1
    <3> QED
      BY <3>1 DEF Shows
  <2>2. FeedAt(o) /\ o # Nobody /\ outstanding[o] \subseteq Key
    BY FeedInvAt, NobodyIsNoPhone DEF TypeOK
  <2>3. Feed(o)' = Feed(o) /\ View(o)' = View(o)
    BY <2>1 DEF Feed, View
  <2>4. \A k \in outstanding[o] : author[k] = o => author'[k] = o /\ k \in outstanding'[o]
    BY <2>1, <2>2
  <2> QED
    BY <2>1, <2>2, <2>3, <2>4, FeedSame
<1>2. \A o \in Phone : FeedAt(o)'
  BY <1>1
<1> QED
  BY <1>2 DEF FeedInv, FeedAt, Unique, Distinct, Kept, NothingLost, NoDuplicateChat

\* A step of p, and of the server for p.
Step(p) ==
    \/ observeMessages(p) \/ childAdded(p) \/ listenOther(p)
    \/ \E k \in Key : handleSendMessage(p, k)
    \/ restoreState(p) \/ onDisconnect(p) \/ Kill(p)
    \/ Receive(p) \/ onOtherListen(p)
    \/ Serve(p) \/ answerListen(p) \/ revokeListen(p) \/ readLate(p)

\* It changes no list but p's.
LEMMA OtherLists ==
    ASSUME TypeOK, NEW p \in Phone, Step(p)
    PROVE  \A o \in Phone \ {p} : Shows(o)' = Shows(o)
<1>1. CASE observeMessages(p)
  BY <1>1 DEF observeMessages, Shows, TypeOK
<1>2. CASE childAdded(p)
  BY <1>2 DEF childAdded, Shows, TypeOK
<1>3. ASSUME NEW k \in Key, handleSendMessage(p, k) PROVE \A o \in Phone \ {p} : Shows(o)' = Shows(o)
  BY <1>3 DEF handleSendMessage, update, putInternal, raiseEvents, Shows, TypeOK
<1>4. CASE restoreState(p)
  BY <1>4 DEF restoreState, Shows
<1>5. CASE onDisconnect(p)
  BY <1>5 DEF onDisconnect, Shows
<1>6. CASE Kill(p)
  BY <1>6 DEF Kill, Shows, TypeOK
<1>9. ASSUME ackPuts(p) PROVE \A o \in Phone \ {p} : writes'[o] = writes[o]
  BY <1>9 DEF ackPuts, TypeOK
<1>7. CASE Receive(p)
  <2>1. UNCHANGED <<chats, running>>
    BY <1>7 DEF Receive, onSnapshot, onDataUpdate, onPutResponse, onListenOk, onListenDenied, onListenRevoked,
                onDataMessage
  <2>2. CASE onSnapshot(p)
    BY <2>1, <2>2 DEF onSnapshot, raiseEvents, Shows, TypeOK
  <2>3. CASE onDataUpdate(p)
    BY <2>1, <2>3 DEF onDataUpdate, raiseEvents, Shows, TypeOK
  <2>4. CASE onPutResponse(p)
    <3>1. \A o \in Phone \ {p} : writes'[o] = writes[o]
      BY <2>4 DEF onPutResponse, TypeOK
    <3>2. \A o \in Phone \ {p} : events'[o] = events[o] /\ outstanding'[o] = outstanding[o]
      BY <2>4 DEF onPutResponse, raiseEvents, TypeOK
    <3>3. UNCHANGED <<listening, complete, serverCache>>
      BY <2>4 DEF onPutResponse
    <3> QED
      BY <2>1, <3>1, <3>2, <3>3 DEF Shows
  <2>5. CASE onListenOk(p)
    BY <1>9, <2>1, <2>5 DEF onListenOk, raiseEvents, Shows, TypeOK
  <2>6. CASE onListenDenied(p)
    BY <1>9, <2>1, <2>6 DEF onListenDenied, removeListen, Shows, TypeOK
  <2>7. CASE onListenRevoked(p)
    BY <2>1, <2>7 DEF onListenRevoked, removeListen, Shows, TypeOK
  <2> QED
    BY <1>7, <2>2, <2>3, <2>4, <2>5, <2>6, <2>7 DEF Receive
<1>8. CASE readListen(p) \/ readPut(p) \/ answerListen(p) \/ revokeListen(p) \/ readLate(p)
  BY <1>8 DEF readListen, readPut, answerListen, revokeListen, readLate, client, Shows
<1>10. CASE listenOther(p)
  BY <1>10 DEF listenOther, Shows
<1>11. CASE onOtherListen(p)
  BY <1>9, <1>11 DEF onOtherListen, raiseEvents, Shows, TypeOK
<1> QED
  BY <1>1, <1>2, <1>3, <1>4, <1>5, <1>6, <1>7, <1>8, <1>10, <1>11 DEF Step, Serve

\* The block of childAdded moves a message within the list.
LEMMA ChildAddedFeed ==
    ASSUME TypeOK, NEW p \in Phone, childAdded(p)
    PROVE  Feed(p)' = Feed(p)
<1> DEFINE c == chats[p]
           e == events[p]
<1>1. c \in Seq(Key) /\ e \in Seq(Key) /\ e # <<>>
  BY FeedType DEF childAdded
<1>2. chats'[p] = Append(c, Head(e)) /\ events'[p] = Tail(e)
  BY DEF childAdded, TypeOK
<1> HIDE DEF c, e
<1>3. Append(c, Head(e)) \o Tail(e) = c \o e
  BY <1>1, MoveHead
<1> QED
  BY <1>2, <1>3 DEF Feed, c, e

LEMMA FeedStep ==
    ASSUME TypeOK, TypeOK', WireInv, ContentInv, PendingInv, HeldInv, FeedInv, NEW p \in Phone, Step(p)
    PROVE  FeedInv'
<1>1. \A o \in Phone \ {p} : Shows(o)' = Shows(o)
  BY OtherLists
<1>2. FeedAt(p) /\ Pending(p) /\ p # Nobody
  BY FeedInvAt, NobodyIsNoPhone DEF PendingInv
<1>3. ASSUME UNCHANGED author, db \subseteq db', refused \subseteq refused', FeedAt(p)' PROVE FeedInv'
  BY <1>1, <1>3, FeedFrame
<1>4. ASSUME Feed(p)' = Feed(p), View(p)' = View(p), complete'[p] = complete[p], outstanding'[p] = outstanding[p],
             (listening'[p] = listening[p] /\ running'[p] = running[p]) \/ Feed(p) = <<>>,
             UNCHANGED author, db \subseteq db', refused \subseteq refused'
      PROVE  FeedInv'
  <2>1. FeedAt(p)'
    BY <1>2, <1>4, FeedSame
  <2> QED
    BY <1>3, <1>4, <2>1
<1>5. CASE observeMessages(p)
  <2>1. ~running[p] /\ UNCHANGED <<author, complete, serverCache, writes, outstanding, events, chats, db, refused>>
    BY <1>5 DEF observeMessages, backend
  <2>2. ~complete[p]
    BY <1>2, <2>1, ViewFacts DEF Pending
  <2>3. Feed(p) = <<>>
    BY <1>2, <2>1, <2>2 DEF FeedAt, Mirrors
  <2>4. Feed(p)' = Feed(p) /\ View(p)' = View(p)
    BY <2>1 DEF Feed, View
  <2> QED
    BY <1>4, <2>1, <2>3, <2>4
<1>6. CASE childAdded(p)
  <2>1. UNCHANGED <<author, complete, serverCache, writes, outstanding, listening, running, db, refused>>
    BY <1>6 DEF childAdded, backend
  <2>2. Feed(p)' = Feed(p) /\ View(p)' = View(p)
    BY <1>6, <2>1, ChildAddedFeed DEF View
  <2> QED
    BY <1>4, <2>1, <2>2
<1>7. ASSUME NEW k \in Key, handleSendMessage(p, k) PROVE FeedInv'
  <2>1. author[k] = Nobody /\ author' = [author EXCEPT ![k] = p] /\ UNCHANGED <<db, refused>>
    BY <1>7, KeysOrdered DEF handleSendMessage, update, backend
  <2>2. \A j \in Key : author[j] # Nobody => author'[j] = author[j]
    BY <2>1 DEF TypeOK
  <2>3. FeedAt(p)'
    BY <1>2, <1>7, SendFeed
  <2> QED
    BY <1>1, <2>1, <2>2, <2>3, FeedFrame
<1>8. CASE listenOther(p) \/ restoreState(p) \/ onDisconnect(p)
  <2>1. UNCHANGED <<author, complete, serverCache, writes, outstanding, listening, running, events, chats, db, refused>>
    BY <1>8 DEF listenOther, restoreState, onDisconnect, backend
  <2>2. Feed(p)' = Feed(p) /\ View(p)' = View(p)
    BY <2>1 DEF Feed, View
  <2> QED
    BY <1>4, <2>1, <2>2
<1>9. CASE Kill(p)
  <2>1. /\ complete' = [complete EXCEPT ![p] = FALSE] /\ events' = [events EXCEPT ![p] = <<>>]
        /\ chats' = [chats EXCEPT ![p] = <<>>] /\ UNCHANGED <<author, db, refused>>
    BY <1>9 DEF Kill
  <2>2. ~complete'[p] /\ Feed(p)' = <<>> \o <<>>
    BY <2>1 DEF TypeOK, Feed
  <2>3. Feed(p)' = <<>>
    BY <2>2
  <2>4. FeedAt(p)'
    BY <2>2, <2>3 DEF FeedAt, Mirrors, Unique, Distinct, Kept, ToSet
  <2> QED
    BY <1>3, <2>1, <2>4
<1>10. CASE Receive(p) \/ onOtherListen(p)
  <2>1. UNCHANGED <<author, db, refused>>
    BY <1>10 DEF Receive, onSnapshot, onDataUpdate, onPutResponse, onListenOk, onListenDenied, onListenRevoked,
                onDataMessage, onOtherListen, backend
  <2>2. FeedAt(p)'
    BY <1>2, <1>10, ReadFeed
  <2> QED
    BY <1>3, <2>1, <2>2
<1>11. CASE readListen(p) \/ readPut(p) \/ answerListen(p) \/ revokeListen(p) \/ readLate(p)
  <2>1. UNCHANGED <<author, complete, serverCache, writes, outstanding, listening, running, events, chats>>
    BY <1>11 DEF readListen, readPut, answerListen, revokeListen, readLate, client
  <2>2. Feed(p)' = Feed(p) /\ View(p)' = View(p)
    BY <2>1 DEF Feed, View
  <2>3. db \subseteq db' /\ refused \subseteq refused'
    BY <1>11 DEF readListen, readPut, answerListen, revokeListen, readLate, Store
  <2> QED
    BY <1>4, <2>1, <2>2, <2>3
<1> QED
  BY <1>5, <1>6, <1>7, <1>8, <1>9, <1>10, <1>11 DEF Step, Serve


-----------------------------------------------------------------------------
(***************************************************************************)
(* The theorems.                                                           *)
(***************************************************************************)
LEMMA ChatFeedInit == Init => ChatFeedInv
<1> SUFFICES ASSUME Init PROVE ChatFeedInv
  OBVIOUS
<1>1. <<>> \in Seq(Key) /\ <<>> \in Seq(ToServer) /\ <<>> \in Seq(ToClient) 
      /\ 0 \in 0 .. MaxBreaks /\ 0 \in 0 .. MaxOthers /\ 0 \in 0 .. 1
  BY BreaksBounded, OthersBounded
<1>2. TypeOK
  BY <1>1 DEF Init, TypeOK
<1>3. WireInv
  BY WireNone DEF Init, WireInv
<1>4. ContentInv
  BY ContentNone DEF Init, ContentInv
<1>5. PendingInv
  BY DEF Init, PendingInv, Pending, Sending, OwnPuts
<1>6. \A p \in Phone : Feed(p) = <<>> \o <<>> /\ ~complete[p]
  BY DEF Init, Feed
<1>7. \A p \in Phone : Feed(p) = <<>>
  BY <1>6
<1>8. FeedInv
  BY <1>6, <1>7 DEF FeedInv, Mirrors, NothingLost, NoDuplicateChat, ToSet
<1>9. HeldInv
  BY DEF Init, HeldInv, Held
<1> QED
  BY <1>2, <1>3, <1>4, <1>5, <1>8, <1>9 DEF ChatFeedInv

LEMMA ChatFeedStep == ChatFeedInv /\ [Next]_vars => ChatFeedInv'
<1> SUFFICES ASSUME ChatFeedInv, [Next]_vars PROVE ChatFeedInv'
  OBVIOUS
<1>1. TypeOK /\ WireInv /\ ContentInv /\ PendingInv /\ HeldInv /\ FeedInv
  BY DEF ChatFeedInv
<1>2. CASE Next
  <2>1. PICK p \in Phone : Step(p)
    BY <1>2 DEF Next, Step
  <2>2. TypeOK'
    BY <1>1, <1>2, TypeStep
  <2>3. WireInv' /\ ContentInv'
    BY <1>1, <1>2, ConnectionStep
  <2>4. PendingInv'
    BY <1>1, <1>2, PendingStep
  <2>5. FeedInv'
    BY <1>1, <2>1, <2>2, FeedStep
  <2>6. HeldInv'
    BY <1>1, <1>2, HeldStep
  <2> QED
    BY <2>2, <2>3, <2>4, <2>5, <2>6 DEF ChatFeedInv
<1>3. CASE UNCHANGED vars
  <2> USE <1>3 DEF vars, client, network, backend
  <2>1. TypeOK'
    BY <1>1 DEF TypeOK
  <2>2. WireInv' /\ ContentInv'
    BY <1>1 DEF WireInv, ContentInv
  <2>3. PendingInv'
    BY <1>1 DEF PendingInv, Pending, Sending, OwnPuts
  <2>4. FeedInv'
    BY <1>1 DEF FeedInv, Mirrors, View, NothingLost, NoDuplicateChat, Feed
  <2>5. HeldInv'
    BY <1>1 DEF HeldInv, Held
  <2> QED
    BY <2>1, <2>2, <2>3, <2>4, <2>5 DEF ChatFeedInv
<1> QED
  BY <1>2, <1>3

\* Whatever phones, people, connections and the server do, the messages on
\* every connection, the writes that wait and the lists fit together as the
\* inductive invariant says.
THEOREM ChatFeedInvariance == Spec => []ChatFeedInv
<1>1. Init => ChatFeedInv
  BY ChatFeedInit
<1>2. ChatFeedInv /\ [Next]_vars => ChatFeedInv'
  BY ChatFeedStep
<1> QED
  BY <1>1, <1>2, PTL DEF Spec

\* Over reconnects, answers that come late and listens taken away,
\* unackedListensCount never falls below the listens that wait for an answer:
\* it is not negative, counts the listen for /chats at most once whatever other
\* queries listen, and all else is what the code declares.
THEOREM TypeCorrect == Spec => []TypeOK
<1>1. ChatFeedInv => TypeOK
  BY DEF ChatFeedInv
<1> QED
  BY <1>1, ChatFeedInvariance, PTL

\* A message that HomeViewController.chats shows, or is about to show, is
\* stored, was refused, or is still to be sent by this phone.
THEOREM NothingIsLost == Spec => []NothingLost
<1>1. ChatFeedInv => NothingLost
  BY DEF ChatFeedInv, FeedInv
<1> QED
  BY <1>1, ChatFeedInvariance, PTL

\* The block of observe(.childAdded), which appends without looking, appends no
\* message twice unless it was refused in between.
THEOREM NoChatTwice == Spec => []NoDuplicateChat
<1>1. ChatFeedInv => NoDuplicateChat
  BY DEF ChatFeedInv, FeedInv
<1> QED
  BY <1>1, ChatFeedInvariance, PTL

\* A connected phone with nothing under way shows exactly what is stored, but
\* for what was refused, and no write or answer waits on it forever.
THEOREM QuietIsConverged == Spec => []QuietConverged
<1>1. ASSUME ChatFeedInv, NEW p \in Phone, Quiet(p)
      PROVE  /\ db \subseteq ToSet(chats[p]) /\ ToSet(chats[p]) \ db \subseteq refused
             /\ outstanding[p] = {} /\ writes[p] = {}
  <2>1. TypeOK /\ WireInv /\ ContentInv /\ Pending(p) /\ Mirrors(p)
    BY <1>1 DEF ChatFeedInv, PendingInv, FeedInv
  <2>2. /\ connected[p] /\ listening[p] /\ toServer[p] = <<>> /\ toClient[p] = <<>>
        /\ listener[p] = "on" /\ events[p] = <<>> /\ otherUnacked[p] = 0 /\ chatsUnacked[p] \in 0 .. 1
    BY <1>1, <2>1 DEF Quiet, TypeOK
  <2>3. ToSet(<<>>) = {} /\ DOMAIN <<>> = {}
    BY DEF ToSet
  <2>4. Wire(connected[p], listening[p], chatsUnacked[p], complete[p], listener[p], toServer[p], toClient[p])
    BY <2>1 DEF WireInv
  <2>5. complete[p] /\ chatsUnacked[p] # 1
    BY <2>2, <2>3, <2>4 DEF Wire, Has, Asking
  <2>6. outstanding[p] = {} /\ putsToAck[p] = {} /\ writes[p] = {}
    BY <2>1, <2>2, <2>3, <2>5 DEF Pending
  <2>7. Content(listening[p], chatsUnacked[p], listener[p], serverCache[p], putsToAck[p], toClient[p], db, refused)
    BY <2>1 DEF ContentInv
  <2>8. db = serverCache[p]
    <3>1. \A k \in db : Knows(serverCache[p], <<>>, k, Len(<<>>) + 1)
      BY <2>2, <2>7 DEF Content, Informed
    <3>2. Len(<<>>) + 1 = 1 /\ 1 .. 1 - 1 = {}
      OBVIOUS
    <3>3. db \subseteq serverCache[p]
      BY <3>1, <3>2 DEF Knows
    <3> QED
      BY <2>7, <3>3 DEF Content, Truthful
  <2>9. Feed(p) = chats[p]
    BY <2>1, <2>2 DEF Feed, TypeOK
  <2>10. View(p) = db
    BY <2>5, <2>6, <2>8 DEF View
  <2> QED
    BY <2>1, <2>5, <2>6, <2>9, <2>10 DEF Mirrors
<1>2. ChatFeedInv => QuietConverged
  BY <1>1 DEF QuietConverged
<1> QED
  BY <1>2, ChatFeedInvariance, PTL


-----------------------------------------------------------------------------
(***************************************************************************)
(* Every step is one of the board's, or none.                              *)
(***************************************************************************)
LEMMA BoardGrow ==
    ASSUME TypeOK, NEW p \in Phone, NEW t, Adds(p, t), \A o \in Phone \ {p} : Feed(o)' = Feed(o)
    PROVE  Board!Grow(p)
<1> DEFINE f == Feed(p)
           g == Feed(p)'
<1>1. /\ f \in Seq(Key) /\ t \in Seq(Key) /\ g = f \o t
      /\ \A i, j \in DOMAIN t : i # j => t[i] # t[j]
      /\ \A i \in DOMAIN t : (t[i] \in db \/ author'[t[i]] = p) /\ (t[i] \in ToSet(f) => t[i] \in refused)
  BY FeedType DEF Adds
<1> HIDE DEF f, g
<1>2. /\ Len(f) \in Nat /\ Len(t) \in Nat /\ g \in Seq(Key) /\ Len(g) = Len(f) + Len(t)
      /\ DOMAIN f = 1 .. Len(f) /\ DOMAIN t = 1 .. Len(t) /\ DOMAIN g = 1 .. Len(f) + Len(t)
      /\ \A i \in DOMAIN f : g[i] = f[i]
      /\ \A i \in DOMAIN t : g[Len(f) + i] = t[i]
  BY <1>1, ConcatOf
<1>3. Len(f) <= Len(g) /\ SubSeq(g, 1, Len(f)) = f
  BY <1>1, <1>2, SubSeqOfConcat1
<1>4. ASSUME NEW i \in (Len(f) + 1) .. Len(g)
      PROVE  i \in Nat /\ i - Len(f) \in DOMAIN t /\ g[i] = t[i - Len(f)]
  <2>1. i \in Nat /\ i - Len(f) \in DOMAIN t /\ Len(f) + (i - Len(f)) = i
    BY <1>2
  <2> QED
    BY <1>2, <2>1
<1>5. ASSUME NEW i \in (Len(f) + 1) .. Len(g), Board!Lists(SubSeq(g, 1, i - 1), g[i])
      PROVE  g[i] \in refused
  <2>1. i \in Nat /\ i - Len(f) \in DOMAIN t /\ g[i] = t[i - Len(f)]
    BY <1>4
  <2>2. i - 1 \in 0 .. Len(g) /\ i - 1 <= Len(g) /\ i - 1 \in Nat
    BY <1>2, <1>5
  <2>3. DOMAIN SubSeq(g, 1, i - 1) = 1 .. i - 1 /\ \A j \in 1 .. i - 1 : SubSeq(g, 1, i - 1)[j] = g[j]
    BY <1>2, <2>2
  <2>4. PICK j \in 1 .. i - 1 : g[j] = g[i]
    BY <1>5, <2>3 DEF Board!Lists
  <2>5. CASE j \in DOMAIN f
    <3>1. g[i] \in ToSet(f)
      BY <1>2, <2>4, <2>5 DEF ToSet
    <3> QED
      BY <1>1, <2>1, <3>1
  <2>6. CASE j \notin DOMAIN f
    <3>1. j \in (Len(f) + 1) .. Len(g) /\ j - Len(f) # i - Len(f)
      BY <1>2, <2>2, <2>6
    <3>2. j - Len(f) \in DOMAIN t /\ g[j] = t[j - Len(f)]
      BY <1>4, <3>1
    <3> QED
      BY <1>1, <2>1, <2>4, <3>1, <3>2
  <2> QED
    BY <2>5, <2>6
<1>6. \A i \in (Len(f) + 1) .. Len(g) : g[i] \in db \/ author'[g[i]] = p
  BY <1>1, <1>4
<1>7. [o \in Phone |-> Feed(o)][p] = f /\ [o \in Phone |-> Feed(o)]'[p] = g
  BY DEF f, g
<1>8. \A o \in Phone \ {p} : [x \in Phone |-> Feed(x)]'[o] = [x \in Phone |-> Feed(x)][o]
  OBVIOUS
<1> QED
  BY <1>3, <1>5, <1>6, <1>7, <1>8 DEF Board!Grow

LEMMA BoardStep == ChatFeedInv /\ [Next]_vars => [Board!Next]_(Board!vars)
<1> DEFINE shown == [o \in Phone |-> Feed(o)]
<1> SUFFICES ASSUME ChatFeedInv, [Next]_vars PROVE Board!Next \/ UNCHANGED <<author, db, refused, shown>>
  BY DEF Board!vars
<1>1. TypeOK /\ WireInv /\ ContentInv /\ PendingInv /\ HeldInv /\ FeedInv
  BY DEF ChatFeedInv
<1>2. CASE UNCHANGED vars
  BY <1>2 DEF vars, client, backend, Feed
<1>3. ASSUME Next PROVE Board!Next \/ UNCHANGED <<author, db, refused, shown>>
  <2>1. PICK p \in Phone : Step(p)
    BY <1>3 DEF Next, Step
  <2>2. TypeOK'
    BY <1>1, <1>3, TypeStep
  <2>3. FeedAt(p)
    BY <1>1, FeedInvAt
  <2>4. \A o \in Phone \ {p} : Feed(o)' = Feed(o)
    <3>1. \A o \in Phone \ {p} : Shows(o)' = Shows(o)
      BY <1>1, <2>1, OtherLists
    <3> QED
      BY <3>1 DEF Shows, Feed
  <2>5. ASSUME Feed(p)' = Feed(p) PROVE shown' = shown
    BY <2>4, <2>5
  <2>6. CASE childAdded(p)
    <3>1. UNCHANGED <<author, db, refused>>
      BY <2>6 DEF childAdded, backend
    <3> QED
      BY <1>1, <2>5, <2>6, <3>1, ChildAddedFeed
  <2>7. CASE observeMessages(p) \/ listenOther(p) \/ restoreState(p) \/ onDisconnect(p)
    <3>1. UNCHANGED <<author, db, refused, chats, events>>
      BY <2>7 DEF observeMessages, listenOther, restoreState, onDisconnect, backend
    <3> QED
      BY <2>5, <3>1 DEF Feed
  <2>8. ASSUME NEW k \in Key, handleSendMessage(p, k) PROVE Board!Next
    <3>1. PICK t : Adds(p, t)
      BY <1>1, <2>2, <2>3, <2>8, SendFeed
    <3>2. Board!Grow(p)
      BY <1>1, <2>4, <3>1, BoardGrow
    <3>3. author[k] = Nobody /\ author' = [author EXCEPT ![k] = p] /\ UNCHANGED <<db, refused>>
      BY <2>8, KeysOrdered DEF handleSendMessage, update, backend
    <3> QED
      BY <3>2, <3>3 DEF Board!Next, Board!Write
  <2>9. CASE Kill(p)
    <3>1. /\ events' = [events EXCEPT ![p] = <<>>] /\ chats' = [chats EXCEPT ![p] = <<>>]
          /\ UNCHANGED <<author, db, refused>>
      BY <2>9 DEF Kill
    <3>2. Feed(p)' = <<>> \o <<>>
      BY <1>1, <3>1 DEF TypeOK, Feed
    <3>3. Feed(p)' = <<>>
      BY <3>2
    <3>4. shown' = [shown EXCEPT ![p] = <<>>]
      BY <2>4, <3>3
    <3> QED
      BY <3>1, <3>4 DEF Board!Next, Board!Clear
  <2>10. CASE Receive(p) \/ onOtherListen(p)
    <3>1. PICK t : Adds(p, t)
      BY <1>1, <2>2, <2>3, <2>10, ReadFeed
    <3>2. Board!Grow(p)
      BY <1>1, <2>4, <3>1, BoardGrow
    <3>3. UNCHANGED <<author, db, refused>>
      BY <2>10 DEF Receive, onSnapshot, onDataUpdate, onPutResponse, onListenOk, onListenDenied, onListenRevoked,
                   onDataMessage, onOtherListen, backend
    <3> QED
      BY <3>2, <3>3 DEF Board!Next, Board!Show
  <2>11. ASSUME NEW k \in Key, author[k] # Nobody, NEW A, Store(k, A), UNCHANGED client PROVE Board!Next
    <3>1. shown' = shown /\ author' = author
      BY <2>11 DEF client, Feed
    <3>2. (db' = db \cup {k} /\ refused' = refused) \/ (refused' = refused \cup {k} /\ db' = db)
      BY <2>11 DEF Store
    <3>3. CASE db' = db \cup {k} /\ refused' = refused
      BY <2>11, <3>1, <3>3 DEF Board!Next, Board!Post
    <3>4. CASE refused' = refused \cup {k} /\ db' = db
      BY <2>11, <3>1, <3>4 DEF Board!Next, Board!Refuse
    <3> QED
      BY <3>2, <3>3, <3>4
  <2>12. p # Nobody
    BY NobodyIsNoPhone
  <2>13. CASE readPut(p)
    <3>1. toServer[p] # <<>> /\ Head(toServer[p]).type = "put" /\ Store(Head(toServer[p]).key, {p}) /\ UNCHANGED client
      BY <2>13 DEF readPut
    <3>2. Head(toServer[p]).key \in Key /\ author[Head(toServer[p]).key] = p
      BY <1>1, <3>1, ServerReads
    <3> QED
      BY <2>11, <2>12, <3>1, <3>2
  <2>14. CASE readLate(p)
    <3>1. late[p] # <<>> /\ Store(Head(late[p]).key, {}) /\ UNCHANGED client
      BY <2>14 DEF readLate
    <3>2. Head(late[p]).key \in Key /\ author[Head(late[p]).key] = p
      BY <1>1, <3>1, ServerReadsLate
    <3> QED
      BY <2>11, <2>12, <3>1, <3>2
  <2>15. CASE readListen(p) \/ answerListen(p) \/ revokeListen(p)
    <3>1. UNCHANGED <<author, db, refused, chats, events>>
      BY <2>15 DEF readListen, answerListen, revokeListen, client
    <3> QED
      BY <2>5, <3>1 DEF Feed
  <2> QED
    BY <2>1, <2>6, <2>7, <2>8, <2>9, <2>10, <2>13, <2>14, <2>15 DEF Step, Serve
<1> QED
  BY <1>2, <1>3

LEMMA BoardInit == Init => Board!Init
<1> SUFFICES ASSUME Init PROVE Board!Init
  OBVIOUS
<1>1. \A p \in Phone : Feed(p) = <<>> \o <<>>
  BY DEF Init, Feed
<1>2. [p \in Phone |-> Feed(p)] = [p \in Phone |-> <<>>]
  BY <1>1
<1> QED
  BY <1>2 DEF Init, Board!Init

\* What observe(.childAdded) shows on all phones, behind connections, caches,
\* repeated writes and queues, is the board: lists that only grow, by messages
\* that are stored or the phone's own.
THEOREM BoardImplemented == Spec => ImplementsBoard
<1>1. Init => Board!Init
  BY BoardInit
<1>2. ChatFeedInv /\ [Next]_vars => [Board!Next]_(Board!vars)
  BY BoardStep
<1> QED
  BY <1>1, <1>2, ChatFeedInvariance, PTL DEF Spec, ImplementsBoard, Board!Spec

-----------------------------------------------------------------------------
(***************************************************************************)
(* The inductive invariant.                                                *)
(***************************************************************************)
\* The messages that nobody refused or abandoned, and which was sent earlier
\* by the same phone.
Clean == {k \in Key : author[k] # Nobody /\ k \notin refused \cup abandoned}

Earlier == {w \in Clean \X Clean : author[w[1]] = author[w[2]] /\ w[1] < w[2]}

\* The messages of p that wait for no answer.
Settled(p) == {k \in Clean : author[k] = p} \ writes[p]

\* With a message, S has the earlier ones.
Closed(S, R) == \A y \in S : \A x \in Key : <<x, y>> \in R => x \in S

\* A message is sent after the earlier ones, unless those are stored in d.
InOrder(s, d, R) ==
    \A i \in DOMAIN s : \A x, y \in Key :
        s[i] = Put(y) /\ <<x, y>> \in R => x \in d \/ \E j \in 1 .. i - 1 : s[j] = Put(x)

\* What the server sends to a phone whose cache is c keeps the order; a
\* snapshot has all of u.
Orderly(c, q, u, R) ==
    \A i \in DOMAIN q :
        /\ q[i].type = "snapshot" => Closed(q[i].keys, R) /\ u \subseteq q[i].keys
        /\ q[i].type = "data" => \A x \in Key : <<x, q[i].key>> \in R => Knows(c, q, x, i)

\* What phone p, its connections and the server hold, in order: s is toServer, l
\* is late, c is serverCache, q is toClient, cmp is complete, u is Settled, d is db.
Ordered(s, l, c, q, cmp, u, d, R) ==
    /\ InOrder(s, d, R) /\ InOrder(l, d, R)
    /\ Closed(c, R) /\ Orderly(c, q, u, R)
    /\ cmp => u \subseteq c

OrderAt(p) ==
    Ordered(toServer[p], late[p], serverCache[p], toClient[p], complete[p], Settled(p), db, Earlier)

Sent == {k \in Key : author[k] # Nobody}

OrderInv ==
    /\ Closed(db, Earlier)
    /\ db \cup refused \cup abandoned \subseteq Sent
    /\ \A k \in Clean : k \in db \cup outstanding[author[k]]
    /\ \A p \in Phone : OrderAt(p)

\* No message of the list f comes before an earlier one.
Sequenced(f, R) == \A i, j \in DOMAIN f : i < j => <<f[j], f[i]>> \notin R

\* Of these, the ones whose push ids are in the order of sending too.
Due == {w \in Earlier : ~(pushId[w[2]] < pushId[w[1]])}

SequenceInv == \A p \in Phone : Sequenced(Feed(p), Due)

-----------------------------------------------------------------------------
(***************************************************************************)
(* What is in order stays so when messages are refused or abandoned, when  *)
(* others are sent and when more is stored.                                *)
(***************************************************************************)
\* Below a message of A, T has nothing that R does not have.
Narrows(T, R, A) == \A x, y \in Key : y \in A /\ <<x, y>> \in T => <<x, y>> \in R

PutsIn(s, A) == \A i \in DOMAIN s : \A y \in Key : s[i] = Put(y) => y \in A

BringsIn(q, A) ==
    \A i \in DOMAIN q : /\ q[i].type = "snapshot" => q[i].keys \subseteq A
                        /\ q[i].type = "data" => q[i].key \in A

LEMMA InOrderAged ==
    ASSUME NEW s, NEW d, NEW e, NEW R, NEW T, NEW A,
           InOrder(s, d, R), d \subseteq e, PutsIn(s, A), Narrows(T, R, A)
    PROVE  InOrder(s, e, T)
<1> SUFFICES ASSUME NEW i \in DOMAIN s, NEW x \in Key, NEW y \in Key, s[i] = Put(y), <<x, y>> \in T
             PROVE  x \in e \/ \E j \in 1 .. i - 1 : s[j] = Put(x)
  BY DEF InOrder
<1>1. <<x, y>> \in R
  BY DEF PutsIn, Narrows
<1> QED
  BY <1>1 DEF InOrder

LEMMA ClosedAged ==
    ASSUME NEW c \in SUBSET Key, NEW R, NEW T, NEW A, Closed(c, R), c \subseteq A, Narrows(T, R, A)
    PROVE  Closed(c, T)
BY DEF Closed, Narrows

LEMMA OrderlyAged ==
    ASSUME NEW c, NEW q \in Seq(ToClient), NEW u, NEW v, NEW R, NEW T, NEW A,
           Orderly(c, q, u, R), v \subseteq u, BringsIn(q, A), Narrows(T, R, A)
    PROVE  Orderly(c, q, v, T)
<1> SUFFICES ASSUME NEW i \in DOMAIN q
             PROVE  /\ q[i].type = "snapshot" => Closed(q[i].keys, T) /\ v \subseteq q[i].keys
                    /\ q[i].type = "data" => \A x \in Key : <<x, q[i].key>> \in T => Knows(c, q, x, i)
  BY DEF Orderly
<1>1. q[i] \in ToClient
  BY ElementOfSeq, LenProperties
<1>2. CASE q[i].type = "snapshot"
  <2>1. q[i].keys \in SUBSET Key /\ q[i].keys \subseteq A /\ Closed(q[i].keys, R) /\ u \subseteq q[i].keys
    BY <1>1, <1>2, MessageFields DEF BringsIn, Orderly
  <2>2. Closed(q[i].keys, T)
    BY <2>1, ClosedAged
  <2> QED
    BY <1>2, <2>1, <2>2
<1>3. CASE q[i].type = "data"
  <2>1. q[i].key \in Key /\ q[i].key \in A
    BY <1>1, <1>3, MessageFields DEF BringsIn
  <2>2. \A x \in Key : <<x, q[i].key>> \in T => <<x, q[i].key>> \in R
    BY <2>1 DEF Narrows
  <2> QED
    BY <1>3, <2>2 DEF Orderly
<1> QED
  BY <1>2, <1>3

LEMMA OrderedAged ==
    ASSUME NEW s, NEW l, NEW c \in SUBSET Key, NEW q \in Seq(ToClient), NEW cmp, NEW u, NEW v, NEW d, NEW e,
           NEW R, NEW T, NEW A, Ordered(s, l, c, q, cmp, u, d, R), d \subseteq e, v \subseteq u,
           PutsIn(s, A), PutsIn(l, A), c \subseteq A, BringsIn(q, A), Narrows(T, R, A)
    PROVE  Ordered(s, l, c, q, cmp, v, e, T)
<1>1. /\ InOrder(s, d, R) /\ InOrder(l, d, R) /\ Closed(c, R) /\ Orderly(c, q, u, R)
      /\ cmp => u \subseteq c
  BY DEF Ordered
<1>2. InOrder(s, e, T) /\ InOrder(l, e, T)
  BY <1>1, InOrderAged
<1>3. Closed(c, T)
  BY <1>1, ClosedAged
<1>4. Orderly(c, q, v, T)
  BY <1>1, OrderlyAged
<1> QED
  BY <1>1, <1>2, <1>3, <1>4 DEF Ordered

-----------------------------------------------------------------------------
(***************************************************************************)
(* The connection to the server.                                           *)
(***************************************************************************)
\* The first message is read: it is stored, or nothing has to wait for it.
LEMMA InOrderTail ==
    ASSUME NEW s \in Seq(ToServer), s # <<>>, NEW d, NEW R, InOrder(s, d, R),
           \A x, y \in Key : s[1] = Put(x) /\ <<x, y>> \in R => x \in d
    PROVE  InOrder(Tail(s), d, R)
<1>1. /\ Len(s) \in Nat \ {0} /\ DOMAIN s = 1 .. Len(s) /\ DOMAIN Tail(s) = 1 .. Len(s) - 1
      /\ \A i \in DOMAIN Tail(s) : Tail(s)[i] = s[i + 1]
  BY TailOf
<1> SUFFICES ASSUME NEW i \in DOMAIN Tail(s), NEW x \in Key, NEW y \in Key,
                    Tail(s)[i] = Put(y), <<x, y>> \in R, x \notin d
             PROVE  \E j \in 1 .. i - 1 : Tail(s)[j] = Put(x)
  BY DEF InOrder
<1>2. i \in Nat /\ i + 1 \in DOMAIN s /\ s[i + 1] = Put(y)
  BY <1>1
<1>3. PICK j \in 1 .. (i + 1) - 1 : s[j] = Put(x)
  BY <1>2 DEF InOrder
<1>4. j # 1
  BY <1>3
<1>5. j - 1 \in 1 .. i - 1 /\ j - 1 \in DOMAIN Tail(s) /\ Tail(s)[j - 1] = s[j]
  BY <1>1, <1>2, <1>3, <1>4
<1> QED
  BY <1>3, <1>5

LEMMA InOrderAppend ==
    ASSUME NEW s \in Seq(ToServer), NEW k \in Key, NEW d, NEW R, InOrder(s, d, R),
           \A x \in Key : <<x, k>> \in R => x \in d \/ Put(x) \in ToSet(s)
    PROVE  InOrder(Append(s, Put(k)), d, R)
<1> DEFINE t == Append(s, Put(k))
<1>1. /\ Len(s) \in Nat /\ DOMAIN s = 1 .. Len(s) /\ DOMAIN t = 1 .. Len(s) + 1
      /\ \A i \in DOMAIN s : t[i] = s[i]
      /\ t[Len(s) + 1] = Put(k)
  BY AppendOf, PutMessage
<1> HIDE DEF t
<1> SUFFICES ASSUME NEW i \in DOMAIN t, NEW x \in Key, NEW y \in Key, t[i] = Put(y), <<x, y>> \in R, x \notin d
             PROVE  \E j \in 1 .. i - 1 : t[j] = Put(x)
  BY DEF InOrder, t
<1>2. CASE i \in DOMAIN s
  <2>1. PICK j \in 1 .. i - 1 : s[j] = Put(x)
    BY <1>1, <1>2 DEF InOrder
  <2>2. j \in DOMAIN s
    BY <1>1, <1>2, <2>1
  <2> QED
    BY <1>1, <2>1, <2>2
<1>3. CASE i \notin DOMAIN s
  <2>1. i = Len(s) + 1 /\ 1 .. i - 1 = DOMAIN s
    BY <1>1, <1>3
  <2>2. y = k
    BY <1>1, <2>1, PutMessage
  <2>3. Put(x) \in ToSet(s)
    BY <2>2
  <2>4. PICK j \in DOMAIN s : s[j] = Put(x)
    BY <2>3 DEF ToSet
  <2> QED
    BY <1>1, <2>1, <2>4
<1> QED
  BY <1>2, <1>3

LEMMA InOrderPrefix ==
    ASSUME NEW s, NEW t, NEW d, NEW R, InOrder(s, d, R), NEW n \in Nat,
           DOMAIN t = 1 .. n, \A i \in 1 .. n : i \in DOMAIN s /\ t[i] = s[i]
    PROVE  InOrder(t, d, R)
<1> SUFFICES ASSUME NEW i \in 1 .. n, NEW x \in Key, NEW y \in Key, t[i] = Put(y), <<x, y>> \in R, x \notin d
             PROVE  \E j \in 1 .. i - 1 : t[j] = Put(x)
  BY DEF InOrder
<1>1. PICK j \in 1 .. i - 1 : s[j] = Put(x)
  BY DEF InOrder
<1>2. j \in 1 .. n
  BY <1>1
<1> QED
  BY <1>1, <1>2

\* restoreState sends the listen and the outstanding writes o by their keys.
LEMMA InOrderRestored ==
    ASSUME NEW o \in SUBSET Key, NEW x \in Sorted(o, index), NEW lis, NEW d, NEW R,
           \A j, k \in Key : <<j, k>> \in R => j < k,
           \A j, k \in Key : <<j, k>> \in R /\ k \in o => j \in d \cup o
    PROVE  InOrder((IF lis THEN <<Listen>> ELSE <<>>) \o Puts(x), d, R)
<1> DEFINE a == IF lis THEN <<Listen>> ELSE <<>>
           b == Puts(x)
           t == a \o b
<1>1. /\ x \in Seq(Key) /\ ToSet(x) = o /\ DOMAIN x = 1 .. Len(x)
      /\ \A i, j \in DOMAIN x : i < j => x[i] < x[j]
  <2>1. InRankOrder(x, o, index)
    BY SortedFacts, IndexRanks
  <2>2. \A i \in DOMAIN x : x[i] \in Key /\ index[x[i]] = x[i]
    BY <2>1, IndexRanks, ElementOfSeq, LenProperties DEF InRankOrder
  <2> QED
    BY <2>1, <2>2 DEF InRankOrder
<1>2. /\ b \in Seq(ToServer) /\ Len(b) = Len(x) /\ DOMAIN b = DOMAIN x
      /\ \A i \in DOMAIN x : x[i] \in Key /\ b[i] = Put(x[i])
  BY <1>1, PutsFacts
<1>3. a \in Seq(ToServer) /\ \A i \in DOMAIN a : a[i] = Listen
  <2>1. Listen \in ToServer
    BY DEF ToServer
  <2> QED
    BY <2>1
<1> HIDE DEF a, b
<1>4. /\ Len(a) \in Nat /\ Len(x) \in Nat /\ DOMAIN a = 1 .. Len(a) /\ DOMAIN t = 1 .. Len(a) + Len(x)
      /\ \A i \in DOMAIN a : t[i] = a[i]
      /\ \A i \in DOMAIN x : t[Len(a) + i] = b[i]
  <2>1. /\ Len(a) \in Nat /\ Len(b) \in Nat /\ DOMAIN a = 1 .. Len(a) /\ DOMAIN t = 1 .. Len(a) + Len(b)
        /\ \A i \in DOMAIN a : t[i] = a[i]
        /\ \A i \in DOMAIN b : t[Len(a) + i] = b[i]
    <3>1. a \in Seq(ToServer) /\ b \in Seq(ToServer)
      BY <1>2, <1>3
    <3> QED
      BY <3>1, ConcatOf
  <2> HIDE DEF t
  <2> QED
    BY <1>2, <2>1
<1> HIDE DEF t
<1> SUFFICES ASSUME NEW i \in DOMAIN t, NEW j \in Key, NEW k \in Key, t[i] = Put(k), <<j, k>> \in R, j \notin d
             PROVE  \E m \in 1 .. i - 1 : t[m] = Put(j)
  BY DEF InOrder, t, a, b
<1>5. i \notin DOMAIN a
  BY <1>3, <1>4, PutMessage
<1>6. i - Len(a) \in DOMAIN x /\ Len(a) + (i - Len(a)) = i
  BY <1>1, <1>4, <1>5
<1>7. t[i] = Put(x[i - Len(a)]) /\ x[i - Len(a)] \in Key
  BY <1>2, <1>4, <1>6
<1>8. x[i - Len(a)] = k
  BY <1>7, PutMessage
<1>9. k \in o
  BY <1>1, <1>6, <1>8 DEF ToSet
<1>10. PICK m \in DOMAIN x : x[m] = j
  BY <1>1, <1>9 DEF ToSet
<1>11. j < k /\ j \in Nat /\ k \in Nat
  BY KeysOrdered
<1>12. m < i - Len(a)
  <2>1. ~(i - Len(a) < m)
    BY <1>1, <1>6, <1>8, <1>10, <1>11
  <2>2. m # i - Len(a)
    BY <1>8, <1>10, <1>11
  <2>3. m \in Nat /\ i - Len(a) \in Nat
    BY <1>1, <1>6
  <2> QED
    BY <2>1, <2>2, <2>3
<1>13. Len(a) + m \in 1 .. i - 1 /\ t[Len(a) + m] = Put(j)
  BY <1>1, <1>2, <1>4, <1>10, <1>12
<1> QED
  BY <1>13

-----------------------------------------------------------------------------
(***************************************************************************)
(* The connection to the phone.                                            *)
(***************************************************************************)
LEMMA OrderlyTail ==
    ASSUME NEW q \in Seq(ToClient), q # <<>>, NEW c, NEW b, NEW u, NEW R, Orderly(c, q, u, R),
           c \subseteq b, \A k \in Key : Brings(q[1], k) => k \in b
    PROVE  Orderly(b, Tail(q), u, R)
<1>1. /\ Len(q) \in Nat \ {0} /\ DOMAIN q = 1 .. Len(q) /\ DOMAIN Tail(q) = 1 .. Len(q) - 1
      /\ \A i \in DOMAIN Tail(q) : Tail(q)[i] = q[i + 1]
  BY TailOf
<1> SUFFICES ASSUME NEW i \in DOMAIN Tail(q)
             PROVE  /\ Tail(q)[i].type = "snapshot" => Closed(Tail(q)[i].keys, R) /\ u \subseteq Tail(q)[i].keys
                    /\ Tail(q)[i].type = "data" =>
                         \A x \in Key : <<x, Tail(q)[i].key>> \in R => Knows(b, Tail(q), x, i)
  BY DEF Orderly
<1>2. i \in Nat /\ i <= Len(q) /\ i + 1 \in DOMAIN q /\ Tail(q)[i] = q[i + 1]
  BY <1>1
<1>3. ASSUME NEW x \in Key, Knows(c, q, x, i + 1) PROVE Knows(b, Tail(q), x, i)
  BY <1>2, <1>3, KnowsTail
<1> QED
  BY <1>2, <1>3 DEF Orderly

LEMMA OrderlyAppend ==
    ASSUME NEW q \in Seq(ToClient), NEW m \in ToClient, NEW c, NEW u, NEW R, Orderly(c, q, u, R),
           m.type = "snapshot" => Closed(m.keys, R) /\ u \subseteq m.keys,
           m.type = "data" => \A x \in Key : <<x, m.key>> \in R => Knows(c, q, x, Len(q) + 1)
    PROVE  Orderly(c, Append(q, m), u, R)
<1> DEFINE t == Append(q, m)
<1>1. /\ Len(q) \in Nat /\ DOMAIN q = 1 .. Len(q) /\ DOMAIN t = 1 .. Len(q) + 1
      /\ \A i \in DOMAIN q : t[i] = q[i]
      /\ t[Len(q) + 1] = m
  BY AppendOf
<1>2. ASSUME NEW i \in 1 .. Len(q) + 1, NEW x, Knows(c, q, x, i) PROVE Knows(c, t, x, i)
  BY <1>2, KnowsAppend
<1> HIDE DEF t
<1> SUFFICES ASSUME NEW i \in DOMAIN t
             PROVE  /\ t[i].type = "snapshot" => Closed(t[i].keys, R) /\ u \subseteq t[i].keys
                    /\ t[i].type = "data" => \A x \in Key : <<x, t[i].key>> \in R => Knows(c, t, x, i)
  BY DEF Orderly, t
<1>3. i \in 1 .. Len(q) + 1
  BY <1>1
<1>4. CASE i \in DOMAIN q
  <2>1. t[i] = q[i]
    BY <1>1, <1>4
  <2> QED
    BY <1>2, <1>3, <1>4, <2>1 DEF Orderly
<1>5. CASE i \notin DOMAIN q
  <2>1. i = Len(q) + 1 /\ t[i] = m
    BY <1>1, <1>5
  <2> QED
    BY <1>2, <1>3, <2>1
<1> QED
  BY <1>4, <1>5

\* Another u matters only to a snapshot and to a view that is complete.
LEMMA OrderedSettle ==
    ASSUME NEW s, NEW l, NEW c, NEW q, NEW cmp, NEW u, NEW v, NEW d, NEW R,
           Ordered(s, l, c, q, cmp, u, d, R), ~Has(q, {"snapshot"}), cmp => v \subseteq c
    PROVE  Ordered(s, l, c, q, cmp, v, d, R)
<1>1. \A i \in DOMAIN q : q[i].type # "snapshot"
  BY DEF Has
<1> QED
  BY <1>1 DEF Ordered, Orderly

LEMMA OrderedAcks ==
    ASSUME NEW s, NEW l, NEW c, NEW q, NEW cmp, NEW u, NEW v, NEW d, NEW R, NEW p, NEW b,
           Ordered(s, l, c, p, cmp, u, d, R), Only(q, {"ack"}), Closed(b, R)
    PROVE  Ordered(s, l, b, q, FALSE, v, d, R)
<1>1. \A i \in DOMAIN q : q[i].type = "ack"
  BY DEF Only
<1> QED
  BY <1>1 DEF Ordered, Orderly

OrderedAfterRead(s, l, c, q, cmp, u, d, R) ==
    /\ q[1].type \in {"ack", "listenOk"} => Ordered(s, l, c, Tail(q), cmp, u, d, R)
    /\ q[1].type = "snapshot" => Ordered(s, l, q[1].keys, Tail(q), TRUE, u, d, R)
    /\ q[1].type = "data" => Ordered(s, l, c \cup {q[1].key}, Tail(q), cmp, u, d, R)
    /\ q[1].type \in Stops => \A v : Ordered(s, l, {}, Tail(q), FALSE, v, d, R)

LEMMA OrderedRead ==
    ASSUME NEW s, NEW l, NEW c, NEW q \in Seq(ToClient), q # <<>>, NEW cmp, NEW u, NEW d, NEW R,
           Ordered(s, l, c, q, cmp, u, d, R), InTurn(q), Keeps(c, q)
    PROVE  OrderedAfterRead(s, l, c, q, cmp, u, d, R)
<1>1. /\ InOrder(s, d, R) /\ InOrder(l, d, R) /\ Closed(c, R) /\ Orderly(c, q, u, R)
      /\ cmp => u \subseteq c
  BY DEF Ordered
<1>2. 1 \in DOMAIN q
  BY TailOf
<1>3. ASSUME NEW b, c \subseteq b, \A k \in Key : Brings(q[1], k) => k \in b
      PROVE  Orderly(b, Tail(q), u, R)
  BY <1>1, <1>3, OrderlyTail
<1>4. CASE q[1].type \in {"ack", "listenOk"}
  <2>1. c \subseteq c /\ \A k \in Key : Brings(q[1], k) => k \in c
    BY <1>4 DEF Brings
  <2>2. Orderly(c, Tail(q), u, R)
    BY <1>3, <2>1
  <2> QED
    BY <1>1, <1>4, <2>2 DEF Ordered, OrderedAfterRead, Stops
<1>5. CASE q[1].type = "snapshot"
  <2>1. c \subseteq q[1].keys /\ Closed(q[1].keys, R) /\ u \subseteq q[1].keys
    BY <1>1, <1>2, <1>5 DEF Keeps, Orderly
  <2>2. \A k \in Key : Brings(q[1], k) => k \in q[1].keys
    BY <1>5 DEF Brings
  <2>3. Orderly(q[1].keys, Tail(q), u, R)
    BY <1>3, <2>1, <2>2
  <2> QED
    BY <1>1, <1>5, <2>1, <2>3 DEF Ordered, OrderedAfterRead, Stops
<1>6. CASE q[1].type = "data"
  <2> DEFINE b == c \cup {q[1].key}
  <2>1. c \subseteq b /\ \A k \in Key : Brings(q[1], k) => k \in b
    BY <1>6 DEF Brings
  <2>2. \A x \in Key : <<x, q[1].key>> \in R => x \in c
    <3>1. 1 .. 1 - 1 = {}
      OBVIOUS
    <3> QED
      BY <1>1, <1>2, <1>6, <3>1 DEF Orderly, Knows
  <2>3. Closed(b, R)
    BY <1>1, <2>2 DEF Closed
  <2> HIDE DEF b
  <2>4. Orderly(b, Tail(q), u, R)
    BY <1>3, <2>1
  <2>5. cmp => u \subseteq b
    BY <1>1, <2>1
  <2>6. Ordered(s, l, b, Tail(q), cmp, u, d, R)
    BY <1>1, <2>3, <2>4, <2>5 DEF Ordered
  <2> QED
    BY <1>6, <2>6 DEF OrderedAfterRead, Stops, b
<1>7. CASE q[1].type \in Stops
  <2>1. Only(Tail(q), {"ack"})
    BY <1>7, HeadSettles
  <2>2. Closed({}, R)
    BY DEF Closed
  <2>3. \A v : Ordered(s, l, {}, Tail(q), FALSE, v, d, R)
    BY <2>1, <2>2, OrderedAcks
  <2> QED
    BY <1>7, <2>3 DEF OrderedAfterRead, Stops
<1>8. CASE q[1].type \notin {"ack", "listenOk", "snapshot", "data"} \cup Stops
  BY <1>8 DEF OrderedAfterRead, Stops
<1> QED
  BY <1>4, <1>5, <1>6, <1>7, <1>8


-----------------------------------------------------------------------------
(***************************************************************************)
(* What every step does to the order of the messages, and what it leaves.  *)
(***************************************************************************)
LEMMA EarlierFacts ==
    ASSUME NEW x \in Key, NEW y \in Key
    PROVE  <<x, y>> \in Earlier <=> x \in Clean /\ y \in Clean /\ author[x] = author[y] /\ x < y
BY DEF Earlier

LEMMA OrderContents ==
    ASSUME TypeOK, ContentInv, PendingInv, OrderInv, NEW p \in Phone
    PROVE  /\ PutsIn(toServer[p], Sent) /\ PutsIn(late[p], Sent)
           /\ serverCache[p] \subseteq Sent /\ serverCache[p] \in SUBSET Key
           /\ toClient[p] \in Seq(ToClient) /\ BringsIn(toClient[p], Sent)
<1>1. Sending(p) /\ p # Nobody
  BY NobodyIsNoPhone DEF PendingInv
<1>2. \A j, k \in Key : Put(j) = Put(k) => j = k
  BY PutMessage
<1>3. \A k \in Key : Put(k) # Listen
  BY PutMessage
<1>4. PutsIn(toServer[p], Sent)
  BY <1>1, <1>2, <1>3 DEF PutsIn, Sending, Sent
<1>5. PutsIn(late[p], Sent)
  BY <1>1, <1>2 DEF PutsIn, Sending, OwnPuts, Sent
<1>6. Truthful(serverCache[p], putsToAck[p], toClient[p], db, refused)
  BY DEF ContentInv, Content
<1>7. db \subseteq Sent
  BY DEF OrderInv
<1>8. serverCache[p] \subseteq Sent /\ BringsIn(toClient[p], Sent)
  BY <1>6, <1>7 DEF Truthful, BringsIn
<1> QED
  BY <1>4, <1>5, <1>8 DEF TypeOK

\* What p held in order, it still does.
LEMMA OrderAges ==
    ASSUME TypeOK, ContentInv, PendingInv, OrderInv, NEW p \in Phone, NEW v, v \subseteq Settled(p),
           Narrows(Earlier', Earlier, Sent), db \subseteq db'
    PROVE  Ordered(toServer[p], late[p], serverCache[p], toClient[p], complete[p], v, db', Earlier')
<1>1. Ordered(toServer[p], late[p], serverCache[p], toClient[p], complete[p], Settled(p), db, Earlier)
  BY DEF OrderInv, OrderAt
<1>2. /\ PutsIn(toServer[p], Sent) /\ PutsIn(late[p], Sent)
      /\ serverCache[p] \subseteq Sent /\ serverCache[p] \in SUBSET Key
      /\ toClient[p] \in Seq(ToClient) /\ BringsIn(toClient[p], Sent)
  BY OrderContents
<1> QED
  BY <1>1, <1>2, OrderedAged

\* A step without a new message.
LEMMA FewerClean ==
    ASSUME author' = author, refused \subseteq refused', abandoned \subseteq abandoned'
    PROVE  Clean' \subseteq Clean /\ Earlier' \subseteq Earlier
<1>1. Clean' \subseteq Clean
  BY DEF Clean
<1> QED
  BY <1>1 DEF Earlier

\* A new message comes after all of its phone.
LEMMA SendAges ==
    ASSUME TypeOK, NEW p \in Phone, NEW k \in Key, handleSendMessage(p, k)
    PROVE  /\ Narrows(Earlier', Earlier, Sent) /\ Clean' \subseteq Clean \cup {k}
           /\ \A j \in Key : j # k => author'[j] = author[j]
           /\ author'[k] = p /\ k \notin Sent
           /\ UNCHANGED <<db, refused, abandoned>>
<1>1. /\ author[k] = Nobody /\ author' = [author EXCEPT ![k] = p] /\ UNCHANGED <<db, refused, abandoned>>
      /\ \A j \in Key : author[j] = p => j < k
  BY KeysOrdered, NobodyIsNoPhone DEF handleSendMessage, update, backend
<1>2. author'[k] = p /\ \A j \in Key : j # k => author'[j] = author[j]
  BY <1>1 DEF TypeOK
<1>3. Clean' \subseteq Clean \cup {k}
  BY <1>1, <1>2 DEF Clean
<1>4. ASSUME NEW x \in Key, NEW y \in Key, y \in Sent, <<x, y>> \in Earlier' PROVE <<x, y>> \in Earlier
  <2>1. x \in Clean' /\ y \in Clean' /\ author'[x] = author'[y] /\ x < y
    BY <1>4 DEF Earlier
  <2>2. y # k
    BY <1>1, <1>4 DEF Sent
  <2>3. x # k
    <3> SUFFICES ASSUME x = k PROVE FALSE
      OBVIOUS
    <3>1. y < k
      BY <1>1, <1>2, <2>1, <2>2
    <3> QED
      BY <2>1, <3>1, KeysOrdered
  <2> QED
    BY <1>2, <1>3, <2>1, <2>2, <2>3, EarlierFacts
<1> QED
  BY <1>1, <1>2, <1>3, <1>4 DEF Narrows, Sent

LEMMA OtherAges ==
    ASSUME author' = author, refused \subseteq refused', abandoned \subseteq abandoned'
    PROVE  Narrows(Earlier', Earlier, Sent)
BY FewerClean DEF Narrows

LEMMA SettledKept ==
    ASSUME author' = author, refused \subseteq refused', abandoned \subseteq abandoned',
           NEW o \in Phone, writes[o] \subseteq writes'[o]
    PROVE  Settled(o)' \subseteq Settled(o)
BY FewerClean DEF Settled

\* What OrderAt depends on, besides the server.
Placed(o) == <<toServer[o], late[o], serverCache[o], toClient[o], complete[o], writes[o], outstanding[o]>>

LEMMA OrderFrame ==
    ASSUME TypeOK, ContentInv, PendingInv, OrderInv, NEW o \in Phone, Placed(o)' = Placed(o),
           Settled(o)' \subseteq Settled(o), Narrows(Earlier', Earlier, Sent), db \subseteq db'
    PROVE  OrderAt(o)'
<1>1. /\ toServer'[o] = toServer[o] /\ late'[o] = late[o] /\ serverCache'[o] = serverCache[o]
      /\ toClient'[o] = toClient[o] /\ complete'[o] = complete[o]
  BY DEF Placed
<1>2. Ordered(toServer[o], late[o], serverCache[o], toClient[o], complete[o], Settled(o)', db', Earlier')
  BY OrderAges
<1> QED
  BY <1>1, <1>2 DEF OrderAt


\* A step of p that sends nothing new and stores nothing.
LEMMA OrderRest ==
    ASSUME TypeOK, ContentInv, PendingInv, OrderInv, NEW p \in Phone,
           UNCHANGED <<author, db, refused>>, abandoned \subseteq abandoned', abandoned' \subseteq abandoned \cup Sent,
           \A o \in Phone \ {p} : Placed(o)' = Placed(o),
           \A k \in outstanding[p] : k \in outstanding'[p] \cup db \cup refused \cup abandoned',
           OrderAt(p)'
    PROVE  OrderInv'
<1>1. /\ Closed(db, Earlier) /\ db \cup refused \cup abandoned \subseteq Sent
      /\ \A k \in Clean : k \in db \cup outstanding[author[k]]
  BY DEF OrderInv
<1>2. Narrows(Earlier', Earlier, Sent) /\ Clean' \subseteq Clean /\ Sent' = Sent
  BY OtherAges, FewerClean DEF Sent
<1>3. \A o \in Phone \ {p} : writes'[o] = writes[o] /\ outstanding'[o] = outstanding[o]
  BY DEF Placed
<1>4. ASSUME NEW o \in Phone, o # p PROVE OrderAt(o)'
  <2>1. Settled(o)' \subseteq Settled(o)
    BY <1>3, <1>4, SettledKept
  <2> QED
    BY <1>2, <1>4, <2>1, OrderFrame
<1>5. Closed(db', Earlier')
  <2>1. db \in SUBSET Key /\ db \subseteq Sent
    BY <1>1 DEF TypeOK
  <2>2. Closed(db, Earlier')
    BY <1>1, <1>2, <2>1, ClosedAged
  <2> QED
    BY <2>2
<1>6. db' \cup refused' \cup abandoned' \subseteq Sent'
  BY <1>1, <1>2
<1>7. ASSUME NEW k \in Clean' PROVE k \in db' \cup outstanding'[author'[k]]
  <2>1. k \in Clean /\ k \notin refused \cup abandoned' /\ k \in db \cup outstanding[author[k]]
    BY <1>1, <1>2 DEF Clean
  <2>2. author[k] \in Phone
    BY <2>1 DEF Clean, TypeOK
  <2> QED
    BY <1>3, <2>1, <2>2
<1> QED
  BY <1>4, <1>5, <1>6, <1>7 DEF OrderInv

\* The connection of p breaks: the server may read the first writes of it.
LEMMA OrderBreak ==
    ASSUME TypeOK, ContentInv, PendingInv, OrderInv, NEW p \in Phone, Break(p), UNCHANGED <<author, db, refused>>,
           abandoned \subseteq abandoned'
    PROVE  InOrder(late'[p], db', Earlier')
<1> DEFINE s == toServer[p]
           l == late[p]
<1>1. Narrows(Earlier', Earlier, Sent)
  BY OtherAges
<1>2. Ordered(s, l, serverCache[p], toClient[p], complete[p], Settled(p), db', Earlier')
  BY <1>1, OrderAges
<1>3. InOrder(s, db', Earlier') /\ InOrder(l, db', Earlier')
  BY <1>2 DEF Ordered
<1>4. PICK n \in 0 .. Len(Unread(p)) : (l # <<>> => n = 0) /\ late' = [late EXCEPT ![p] = @ \o SubSeq(Unread(p), 1, n)]
  BY DEF Break
<1> DEFINE u == Unread(p)
           t == SubSeq(u, 1, n)
<1>5. /\ t \in Seq(ToServer) /\ u = IF Asking(s) THEN Tail(s) ELSE s
      /\ n \in Nat /\ n <= Len(u) /\ Len(t) = n /\ \A i \in 1 .. n : t[i] = u[i]
  BY UnreadFacts DEF PendingInv
<1>6. late'[p] = l \o t /\ l \in Seq(ToServer) /\ s \in Seq(ToServer)
  BY <1>4 DEF TypeOK
<1> HIDE DEF s, l, t, u
<1>7. InOrder(u, db', Earlier') /\ u \in Seq(ToServer)
  <2>1. CASE Asking(s)
    <3>1. s # <<>> /\ s[1] = Listen
      BY <2>1 DEF Asking
    <3>2. \A x, y \in Key : s[1] = Put(x) /\ <<x, y>> \in Earlier' => x \in db'
      BY <3>1, PutMessage
    <3>3. InOrder(Tail(s), db', Earlier')
      BY <1>3, <1>6, <3>1, <3>2, InOrderTail
    <3> QED
      BY <1>5, <1>6, <2>1, <3>1, <3>3, TailOf
  <2> QED
    BY <1>3, <1>5, <1>6, <2>1
<1>8. DOMAIN t = 1 .. n /\ \A i \in 1 .. n : i \in DOMAIN u /\ t[i] = u[i]
  BY <1>5, <1>7, LenProperties
<1>9. InOrder(t, db', Earlier')
  BY <1>5, <1>7, <1>8, InOrderPrefix
<1>10. CASE l = <<>>
  BY <1>5, <1>6, <1>9, <1>10
<1>11. CASE l # <<>>
  <2>1. n = 0
    BY <1>4, <1>11 DEF l
  <2>2. t = <<>>
    BY <1>5, <2>1, EmptySeq
  <2> QED
    BY <1>3, <1>6, <2>2
<1> QED
  BY <1>10, <1>11


-----------------------------------------------------------------------------
(***************************************************************************)
(* Every step keeps the order.                                             *)
(***************************************************************************)
\* The steps of the app and of the connection, but for a new message.
LEMMA OrderPhone ==
    ASSUME TypeOK, ContentInv, PendingInv, OrderInv, NEW p \in Phone,
           observeMessages(p) \/ childAdded(p) \/ listenOther(p) \/ restoreState(p) \/ onDisconnect(p) \/ Kill(p)
    PROVE  OrderInv'
<1> DEFINE Now == Ordered(toServer[p], late[p], serverCache[p], toClient[p], complete[p], Settled(p)', db', Earlier')
<1>1. ASSUME UNCHANGED <<author, db, refused>>, abandoned \subseteq abandoned', writes[p] \subseteq writes'[p]
      PROVE  Now
  <2>1. Narrows(Earlier', Earlier, Sent)
    BY <1>1, OtherAges
  <2>2. Settled(p)' \subseteq Settled(p)
    BY <1>1, SettledKept
  <2> QED
    BY <1>1, <2>1, <2>2, OrderAges
<1> HIDE DEF Now
<1>2. CASE observeMessages(p) \/ childAdded(p) \/ listenOther(p)
  <2>1. /\ UNCHANGED <<author, db, refused, abandoned, toServer, late, serverCache, toClient, complete, writes,
                       outstanding>>
    BY <1>2 DEF observeMessages, childAdded, listenOther, network, backend
  <2>2. \A o \in Phone \ {p} : Placed(o)' = Placed(o)
    BY <2>1 DEF Placed
  <2>3. Now
    BY <1>1, <2>1
  <2>4. OrderAt(p)'
    BY <2>1, <2>3 DEF OrderAt, Now
  <2> QED
    BY <2>1, <2>2, <2>4, OrderRest
<1>3. CASE restoreState(p)
  <2>1. UNCHANGED <<author, db, refused, abandoned, late, serverCache, toClient, complete, writes, outstanding>>
    BY <1>3 DEF restoreState, backend
  <2>2. PICK x \in Sorted(outstanding[p], index) :
          toServer' = [toServer EXCEPT ![p] = (IF listening[p] THEN <<Listen>> ELSE <<>>) \o Puts(x)]
    BY <1>3 DEF restoreState
  <2>3. toServer'[p] = (IF listening[p] THEN <<Listen>> ELSE <<>>) \o Puts(x)
        /\ \A o \in Phone \ {p} : toServer'[o] = toServer[o]
    BY <2>2 DEF TypeOK
  <2>4. \A o \in Phone \ {p} : Placed(o)' = Placed(o)
    BY <2>1, <2>3 DEF Placed
  <2>5. \A j, k \in Key : <<j, k>> \in Earlier' => j < k
    BY DEF Earlier
  <2>6. ASSUME NEW j \in Key, NEW k \in Key, <<j, k>> \in Earlier', k \in outstanding[p]
        PROVE  j \in db' \cup outstanding[p]
    <3>1. <<j, k>> \in Earlier
      BY <2>1, <2>6, FewerClean
    <3>2. j \in Clean /\ author[j] = author[k]
      BY <3>1 DEF Earlier
    <3>3. author[k] = p
      BY <2>6 DEF PendingInv, Pending
    <3> QED
      BY <2>1, <3>2, <3>3 DEF OrderInv
  <2>7. InOrder(toServer'[p], db', Earlier')
    <3>1. outstanding[p] \in SUBSET Key
      BY DEF TypeOK
    <3>2. InOrder((IF listening[p] THEN <<Listen>> ELSE <<>>) \o Puts(x), db', Earlier')
      BY <2>5, <2>6, <3>1, InOrderRestored
    <3> QED
      BY <2>3, <3>2
  <2>8. Now
    BY <1>1, <2>1
  <2>9. OrderAt(p)'
    BY <2>1, <2>7, <2>8 DEF OrderAt, Now, Ordered
  <2> QED
    BY <2>1, <2>4, <2>9, OrderRest
<1>4. ASSUME Break(p), UNCHANGED <<author, db, refused>>, abandoned \subseteq abandoned',
             Closed(serverCache'[p], Earlier'), complete'[p] => Settled(p)' \subseteq serverCache'[p]
      PROVE  OrderAt(p)'
  <2>1. toServer'[p] = <<>> /\ toClient'[p] = <<>>
    BY <1>4 DEF Break, TypeOK
  <2>2. InOrder(late'[p], db', Earlier')
    BY <1>4, OrderBreak
  <2>3. DOMAIN <<>> = {}
    OBVIOUS
  <2>4. InOrder(<<>>, db', Earlier') /\ Orderly(serverCache'[p], <<>>, Settled(p)', Earlier')
    BY <2>3 DEF InOrder, Orderly
  <2> QED
    BY <1>4, <2>1, <2>2, <2>4 DEF OrderAt, Ordered
<1>5. ASSUME Break(p) PROVE \A o \in Phone \ {p} : /\ toServer'[o] = toServer[o] /\ late'[o] = late[o]
                                                   /\ toClient'[o] = toClient[o]
  BY <1>5 DEF Break, TypeOK
<1>6. CASE onDisconnect(p)
  <2>1. Break(p) /\ UNCHANGED <<author, db, refused, abandoned, serverCache, complete, writes, outstanding>>
    BY <1>6 DEF onDisconnect
  <2>2. \A o \in Phone \ {p} : Placed(o)' = Placed(o)
    BY <1>5, <2>1 DEF Placed
  <2>3. Now
    BY <1>1, <2>1
  <2>4. Closed(serverCache'[p], Earlier') /\ (complete'[p] => Settled(p)' \subseteq serverCache'[p])
    BY <2>1, <2>3 DEF Now, Ordered
  <2>5. OrderAt(p)'
    BY <1>4, <2>1, <2>4
  <2> QED
    BY <2>1, <2>2, <2>5, OrderRest
<1>7. CASE Kill(p)
  <2>1. /\ Break(p) /\ UNCHANGED <<author, db, refused>> /\ abandoned' = abandoned \cup outstanding[p]
        /\ complete' = [complete EXCEPT ![p] = FALSE] /\ serverCache' = [serverCache EXCEPT ![p] = {}]
        /\ writes' = [writes EXCEPT ![p] = {}] /\ outstanding' = [outstanding EXCEPT ![p] = {}]
    BY <1>7 DEF Kill
  <2>2. \A o \in Phone \ {p} : /\ complete'[o] = complete[o] /\ serverCache'[o] = serverCache[o]
                               /\ writes'[o] = writes[o] /\ outstanding'[o] = outstanding[o]
    BY <2>1 DEF TypeOK
  <2>3. \A o \in Phone \ {p} : Placed(o)' = Placed(o)
    BY <1>5, <2>1, <2>2 DEF Placed
  <2>4. ~complete'[p] /\ serverCache'[p] = {}
    BY <2>1 DEF TypeOK
  <2>5. OrderAt(p)'
    BY <1>4, <2>1, <2>4 DEF Closed
  <2>6. outstanding[p] \subseteq Sent
    BY NobodyIsNoPhone DEF PendingInv, Pending, Sent, TypeOK
  <2> QED
    BY <2>1, <2>3, <2>5, <2>6, OrderRest
<1> QED
  BY <1>2, <1>3, <1>6, <1>7

\* The server reads a listen, answers it or takes it away.
LEMMA OrderListen ==
    ASSUME TypeOK, ContentInv, PendingInv, OrderInv, NEW p \in Phone,
           readListen(p) \/ answerListen(p) \/ revokeListen(p)
    PROVE  OrderInv'
<1> DEFINE s == toServer[p]
           l == late[p]
           c == serverCache[p]
           q == toClient[p]
           cmp == complete[p]
           u == Settled(p)'
<1>1. UNCHANGED <<author, db, refused, abandoned, late, serverCache, complete, writes, outstanding>>
  BY DEF readListen, answerListen, revokeListen, client
<1>2. Ordered(s, l, c, q, cmp, u, db', Earlier')
  BY <1>1, OtherAges, SettledKept, OrderAges
<1>3. s \in Seq(ToServer) /\ q \in Seq(ToClient)
  BY DEF TypeOK
<1>4. ASSUME NEW t, toServer' = [toServer EXCEPT ![p] = t] \/ (toServer' = toServer /\ t = s),
             NEW w, toClient' = [toClient EXCEPT ![p] = w] \/ (toClient' = toClient /\ w = q),
             Ordered(t, l, c, w, cmp, u, db', Earlier')
      PROVE  OrderInv'
  <2>1. toServer'[p] = t /\ \A o \in Phone \ {p} : toServer'[o] = toServer[o]
    <3>1. CASE toServer' = [toServer EXCEPT ![p] = t]
      BY <3>1 DEF TypeOK
    <3> QED
      BY <1>4, <3>1
  <2>2. toClient'[p] = w /\ \A o \in Phone \ {p} : toClient'[o] = toClient[o]
    <3>1. CASE toClient' = [toClient EXCEPT ![p] = w]
      BY <3>1 DEF TypeOK
    <3> QED
      BY <1>4, <3>1
  <2>3. \A o \in Phone \ {p} : Placed(o)' = Placed(o)
    BY <1>1, <2>1, <2>2 DEF Placed
  <2>4. OrderAt(p)'
    BY <1>1, <1>4, <2>1, <2>2 DEF OrderAt
  <2> QED
    BY <1>1, <2>3, <2>4, OrderRest
<1>5. /\ InOrder(s, db', Earlier') /\ InOrder(l, db', Earlier')
      /\ Closed(c, Earlier') /\ Orderly(c, q, u, Earlier') /\ (cmp => u \subseteq c)
  BY <1>2 DEF Ordered
<1>6. u \subseteq db' /\ Closed(db', Earlier')
  <2>1. \A k \in Settled(p) : k \in db
    BY DEF Settled, OrderInv, PendingInv, Pending
  <2>2. u \subseteq Settled(p)
    BY <1>1, SettledKept
  <2>3. db \in SUBSET Key /\ db \subseteq Sent /\ Closed(db, Earlier)
    BY DEF OrderInv, TypeOK
  <2>4. Closed(db, Earlier')
    BY <1>1, <2>3, OtherAges, ClosedAged
  <2> QED
    BY <1>1, <2>1, <2>2, <2>4
<1> HIDE DEF s, l, c, q, cmp, u
<1>7. ASSUME NEW m \in {ListenOk, Denied, Revoked}, NEW w \in Seq(ToClient), Orderly(c, w, u, Earlier')
      PROVE  Orderly(c, Append(w, m), u, Earlier')
  <2>1. m \in ToClient /\ m.type \in {"listenOk", "denied", "revoked"}
    BY DEF ToClient, ListenOk, Denied, Revoked
  <2> QED
    BY <1>7, <2>1, OrderlyAppend
<1>8. CASE readListen(p)
  <2>1. s # <<>> /\ Head(s) = Listen /\ toServer' = [toServer EXCEPT ![p] = Tail(s)] /\ toClient' = toClient
    BY <1>8 DEF readListen, s
  <2>2. Head(s) = s[1]
    BY <1>3, <2>1, TailOf
  <2>3. \A x, y \in Key : s[1] = Put(x) /\ <<x, y>> \in Earlier' => x \in db'
    BY <2>1, <2>2, PutMessage
  <2>4. InOrder(Tail(s), db', Earlier')
    BY <1>3, <1>5, <2>1, <2>3, InOrderTail
  <2>5. Ordered(Tail(s), l, c, q, cmp, u, db', Earlier')
    BY <1>5, <2>4 DEF Ordered
  <2> QED
    BY <1>4, <2>1, <2>5
<1>9. ASSUME NEW w, toServer' = toServer, toClient' = [toClient EXCEPT ![p] = w], Orderly(c, w, u, Earlier')
      PROVE  OrderInv'
  <2>1. Ordered(s, l, c, w, cmp, u, db', Earlier')
    BY <1>5, <1>9 DEF Ordered
  <2> QED
    BY <1>4, <1>9, <2>1
<1>10. CASE answerListen(p)
  <2>1. toServer' = toServer
    BY <1>10 DEF answerListen
  <2>2. CASE toClient' = [toClient EXCEPT ![p] = @ \o <<Snapshot(db), ListenOk>>]
    <3> DEFINE a == Append(q, Snapshot(db))
               w == Append(a, ListenOk)
    <3>1. /\ Snapshot(db) \in ToClient /\ Snapshot(db).type = "snapshot" /\ Snapshot(db).keys = db
          /\ ListenOk \in ToClient
      BY DEF ToClient, Snapshot, TypeOK
    <3>2. a \in Seq(ToClient) /\ q \o <<Snapshot(db), ListenOk>> = w
      BY <1>3, <3>1, AppendOf
    <3>3. Orderly(c, a, u, Earlier')
      BY <1>1, <1>3, <1>5, <1>6, <3>1, OrderlyAppend
    <3> HIDE DEF a
    <3>4. Orderly(c, w, u, Earlier')
      BY <1>7, <3>2, <3>3
    <3>5. toClient' = [toClient EXCEPT ![p] = w]
      BY <2>2, <3>2 DEF q
    <3> QED
      BY <1>9, <2>1, <3>4, <3>5
  <2>3. CASE toClient' = [toClient EXCEPT ![p] = Append(@, Denied)]
    <3>1. toClient' = [toClient EXCEPT ![p] = Append(q, Denied)]
      BY <2>3 DEF q
    <3> QED
      BY <1>3, <1>5, <1>7, <1>9, <2>1, <3>1
  <2> QED
    BY <1>10, <2>2, <2>3 DEF answerListen
<1>11. CASE revokeListen(p)
  <2>1. toServer' = toServer /\ toClient' = [toClient EXCEPT ![p] = Append(q, Revoked)]
    BY <1>11 DEF revokeListen, q
  <2> QED
    BY <1>3, <1>5, <1>7, <1>9, <2>1
<1> QED
  BY <1>8, <1>10, <1>11


\* The phone handles a message of the server.
LEMMA OrderReceive ==
    ASSUME TypeOK, WireInv, ContentInv, PendingInv, OrderInv, NEW p \in Phone, Receive(p)
    PROVE  OrderInv'
<1> DEFINE s == toServer[p]
           l == late[p]
           c == serverCache[p]
           q == toClient[p]
           cmp == complete[p]
           u == Settled(p)
           v == Settled(p)'
<1>1. UNCHANGED <<author, db, refused, abandoned, toServer, late>>
  BY DEF Receive, onSnapshot, onDataUpdate, onPutResponse, onListenOk, onListenDenied, onListenRevoked,
         onDataMessage, backend
<1>2. q \in Seq(ToClient) /\ q # <<>> /\ Head(q) = q[1] /\ toClient' = [toClient EXCEPT ![p] = Tail(q)]
  <2>1. PICK type : onDataMessage(p, type)
    BY DEF Receive, onSnapshot, onDataUpdate, onPutResponse, onListenOk, onListenDenied, onListenRevoked
  <2> QED
    BY <2>1, Reading
<1>3. /\ WireAfterRead(connected[p], listening[p], chatsUnacked[p], cmp, listener[p], s, q)
      /\ ContentAfterRead(listening[p], chatsUnacked[p], listener[p], c, putsToAck[p], q, db, refused)
  BY <1>2, WireReadAt, ContentReadAt
<1>4. InTurn(q) /\ Keeps(c, q) /\ (cmp => listening[p])
  BY ViewFacts DEF WireInv, Wire, ContentInv, Content
<1>5. Ordered(s, l, c, q, cmp, u, db', Earlier')
  BY <1>1, OtherAges, OrderAges
<1> HIDE DEF s, l, c, q, cmp, u, v
<1>6. OrderedAfterRead(s, l, c, q, cmp, u, db', Earlier')
  BY <1>2, <1>4, <1>5, OrderedRead
<1>7. toClient'[p] = Tail(q) /\ toServer'[p] = s /\ late'[p] = l
      /\ \A o \in Phone \ {p} : toClient'[o] = toClient[o] /\ toServer'[o] = toServer[o] /\ late'[o] = late[o]
  BY <1>1, <1>2 DEF TypeOK, s, l
<1>8. ASSUME Ordered(s, l, serverCache'[p], Tail(q), complete'[p], v, db', Earlier'),
             \A k \in outstanding[p] : k \in outstanding'[p] \cup db \cup refused
      PROVE  OrderInv'
  <2>1. OrderAt(p)'
    BY <1>7, <1>8 DEF OrderAt, v
  <2>2. \A o \in Phone \ {p} : Shows(o)' = Shows(o)
    BY OtherLists DEF Step
  <2>3. \A o \in Phone \ {p} : /\ complete'[o] = complete[o] /\ serverCache'[o] = serverCache[o]
                               /\ writes'[o] = writes[o] /\ outstanding'[o] = outstanding[o]
    BY <2>2 DEF Shows
  <2>4. \A o \in Phone \ {p} : Placed(o)' = Placed(o)
    BY <1>7, <2>3 DEF Placed
  <2> QED
    BY <1>1, <1>8, <2>1, <2>4, OrderRest
<1>17. chatsUnacked[p] \in 0 .. 1 /\ otherUnacked[p] \in Nat
  BY OthersBounded DEF TypeOK
<1>9. Clean' = Clean /\ u = {k \in Clean : author[k] = p} \ writes[p] /\ v = {k \in Clean : author[k] = p} \ writes'[p]
  BY <1>1 DEF Clean, Settled, u, v
<1>10. \A k \in Clean : k \notin refused
  BY DEF Clean
<1>11. CASE onSnapshot(p)
  <2>1. /\ q[1].type = "snapshot" /\ complete' = [complete EXCEPT ![p] = TRUE]
        /\ serverCache' = [serverCache EXCEPT ![p] = q[1].keys] /\ UNCHANGED <<writes, outstanding>>
    BY <1>2, <1>11 DEF onSnapshot, onDataMessage, q
  <2>2. complete'[p] = TRUE /\ serverCache'[p] = q[1].keys /\ v = u
    BY <1>9, <2>1 DEF TypeOK
  <2>3. Ordered(s, l, q[1].keys, Tail(q), TRUE, u, db', Earlier')
    BY <1>6, <2>1 DEF OrderedAfterRead
  <2>4. Ordered(s, l, serverCache'[p], Tail(q), complete'[p], v, db', Earlier')
    BY <2>2, <2>3
  <2> QED
    BY <1>8, <2>1, <2>4
<1>12. CASE onDataUpdate(p)
  <2>1. /\ q[1].type = "data" /\ UNCHANGED <<complete, writes, outstanding>>
        /\ serverCache' = IF cmp THEN [serverCache EXCEPT ![p] = @ \cup {q[1].key}] ELSE serverCache
    BY <1>2, <1>12 DEF onDataUpdate, onDataMessage, q, cmp
  <2>2. cmp
    BY <1>3, <2>1 DEF WireAfterRead
  <2>3. complete'[p] = cmp /\ serverCache'[p] = c \cup {q[1].key} /\ v = u
    BY <1>9, <2>1, <2>2 DEF TypeOK, cmp, c
  <2>4. Ordered(s, l, c \cup {q[1].key}, Tail(q), cmp, u, db', Earlier')
    BY <1>6, <2>1 DEF OrderedAfterRead
  <2>5. Ordered(s, l, serverCache'[p], Tail(q), complete'[p], v, db', Earlier')
    BY <2>3, <2>4
  <2> QED
    BY <1>8, <2>1, <2>5
<1>13. ASSUME q[1].type \in {"ack", "listenOk"}, UNCHANGED <<complete, serverCache>>,
              ~Has(Tail(q), {"snapshot"}), cmp => writes[p] \subseteq writes'[p] \cup refused \cup c
       PROVE  Ordered(s, l, serverCache'[p], Tail(q), complete'[p], v, db', Earlier')
  <2>1. Ordered(s, l, c, Tail(q), cmp, u, db', Earlier')
    BY <1>6, <1>13 DEF OrderedAfterRead
  <2>2. cmp => u \subseteq c
    BY <2>1 DEF Ordered
  <2>3. cmp => v \subseteq c
    BY <1>9, <1>10, <1>13, <2>2
  <2>4. Ordered(s, l, c, Tail(q), cmp, v, db', Earlier')
    BY <1>13, <2>1, <2>3, OrderedSettle
  <2> QED
    BY <1>13, <2>4 DEF c, cmp
<1>14. CASE onPutResponse(p)
  <2>1. /\ q[1].type = "ack" /\ UNCHANGED <<complete, serverCache>>
        /\ outstanding' = [outstanding EXCEPT ![p] = @ \ {q[1].key}]
        /\ writes' = writes \/ (chatsUnacked[p] = 0 /\ writes' = [writes EXCEPT ![p] = @ \ {q[1].key}])
    BY <1>2, <1>14, <1>17 DEF onPutResponse, onDataMessage, q
  <2>2. /\ outstanding'[p] = outstanding[p] \ {q[1].key}
        /\ writes'[p] = writes[p] \/ (chatsUnacked[p] = 0 /\ writes'[p] = writes[p] \ {q[1].key})
    BY <2>1 DEF TypeOK
  <2>3. q[1].key \in db \cup refused /\ (listening[p] /\ chatsUnacked[p] = 0 => q[1].key \in refused \cup c)
    BY <1>3, <2>1 DEF ContentAfterRead
  <2>4. Ordered(s, l, serverCache'[p], Tail(q), complete'[p], v, db', Earlier')
    <3>1. CASE writes'[p] = writes[p]
      <4>1. v = u /\ complete'[p] = cmp /\ serverCache'[p] = c
        BY <1>9, <2>1, <3>1 DEF cmp, c
      <4>2. Ordered(s, l, c, Tail(q), cmp, u, db', Earlier')
        BY <1>6, <2>1 DEF OrderedAfterRead
      <4> QED
        BY <4>1, <4>2
    <3>2. CASE chatsUnacked[p] = 0 /\ writes'[p] = writes[p] \ {q[1].key}
      <4>1. Wire(connected[p], listening[p], chatsUnacked[p], cmp, listener[p], s, Tail(q))
        BY <1>3, <2>1 DEF WireAfterRead
      <4>2. ~Has(Tail(q), {"snapshot"})
        <5>1. Has(Tail(q), {"listenOk"}) => Has(Tail(q), Answers)
          BY DEF Has, Answers
        <5> QED
          BY <3>2, <4>1, <5>1 DEF Wire
      <4>3. cmp => writes[p] \subseteq writes'[p] \cup refused \cup c
        BY <1>4, <2>3, <3>2
      <4> QED
        BY <1>13, <2>1, <4>2, <4>3
    <3> QED
      BY <2>2, <3>1, <3>2
  <2> QED
    BY <1>8, <2>2, <2>3, <2>4
<1>15. CASE onListenOk(p)
  <2>1. /\ q[1].type = "listenOk" /\ UNCHANGED <<complete, serverCache, outstanding>> /\ ackPuts(p)
    BY <1>2, <1>15 DEF onListenOk, onDataMessage, q
  <2>6. PICK g \in {{}, putsToAck[p]} : writes'[p] = writes[p] \ g
    BY <2>1, Acked
  <2>2. writes[p] \subseteq writes'[p] \cup refused \cup c
    BY <1>3, <2>1, <2>6 DEF ContentAfterRead
  <2>3. ~Has(Tail(q), {"snapshot", "denied"})
    BY <1>2, <1>4, <2>1, HeadSettles
  <2>4. ~Has(Tail(q), {"snapshot"})
    BY <2>3 DEF Has
  <2>5. Ordered(s, l, serverCache'[p], Tail(q), complete'[p], v, db', Earlier')
    BY <1>13, <2>1, <2>2, <2>4
  <2> QED
    BY <1>8, <2>1, <2>5
<1>16. CASE onListenDenied(p) \/ onListenRevoked(p)
  <2>1. /\ q[1].type \in Stops /\ UNCHANGED outstanding
        /\ complete' = [complete EXCEPT ![p] = FALSE] /\ serverCache' = [serverCache EXCEPT ![p] = {}]
    BY <1>2, <1>16 DEF onListenDenied, onListenRevoked, removeListen, onDataMessage, q, Stops
  <2>2. complete'[p] = FALSE /\ serverCache'[p] = {}
    BY <2>1 DEF TypeOK
  <2>3. Ordered(s, l, {}, Tail(q), FALSE, v, db', Earlier')
    BY <1>6, <2>1 DEF OrderedAfterRead
  <2>4. Ordered(s, l, serverCache'[p], Tail(q), complete'[p], v, db', Earlier')
    BY <2>2, <2>3
  <2> QED
    BY <1>8, <2>1, <2>4
<1> QED
  BY <1>11, <1>12, <1>14, <1>15, <1>16 DEF Receive


\* Another listen is answered, and with it perhaps all that was held back.
LEMMA OrderOther ==
    ASSUME TypeOK, WireInv, ContentInv, PendingInv, HeldInv, OrderInv, NEW p \in Phone, onOtherListen(p)
    PROVE  OrderInv'
<1>1. /\ otherUnacked[p] > 0 /\ ackPuts(p) /\ otherUnacked' = [otherUnacked EXCEPT ![p] = @ - 1]
      /\ UNCHANGED <<chatsUnacked, author, db, refused, abandoned, toServer, late, serverCache, toClient, complete,
                     outstanding>>
  BY DEF onOtherListen, network, backend
<1>2. PICK g \in {{}, putsToAck[p]} :
        /\ writes' = [writes EXCEPT ![p] = @ \ g] /\ writes'[p] = writes[p] \ g
        /\ g = {} \/ unackedListensCount(p)' = 0
  BY <1>1, Acked
<1>3. \A o \in Phone \ {p} : Placed(o)' = Placed(o)
  BY <1>1, <1>2 DEF Placed, TypeOK
<1> DEFINE s == toServer[p]
           l == late[p]
           c == serverCache[p]
           q == toClient[p]
           cmp == complete[p]
           u == Settled(p)
           v == Settled(p)'
<1>4. Ordered(s, l, c, q, cmp, u, db', Earlier')
  BY <1>1, OtherAges, OrderAges
<1>5. Clean' = Clean /\ u = {k \in Clean : author[k] = p} \ writes[p] /\ v = {k \in Clean : author[k] = p} \ writes'[p]
  BY <1>1 DEF Clean, Settled
<1>6. \A k \in Clean : k \notin refused
  BY DEF Clean
<1>7. Held(p) /\ (cmp => listening[p]) /\ Wire(connected[p], listening[p], chatsUnacked[p], cmp, listener[p], s, q)
  BY ViewFacts DEF HeldInv, WireInv
<1> HIDE DEF s, l, c, q, cmp, u, v
<1>8. Ordered(s, l, c, q, cmp, v, db', Earlier')
  <2>1. CASE g = {}
    BY <1>2, <1>4, <1>5, <2>1
  <2>2. CASE g # {}
    <3>1. otherUnacked'[p] \in Nat /\ chatsUnacked[p] \in 0 .. 1
      BY <1>1, OthersBounded DEF TypeOK
    <3>2. chatsUnacked[p] = 0
      BY <1>1, <1>2, <2>2, <3>1
    <3>3. connected[p]
      BY <1>1, <1>7 DEF Held
    <3>4. ~Has(q, {"snapshot"})
      <4>1. Has(q, {"listenOk"}) => Has(q, Answers)
        BY DEF Has, Answers
      <4> QED
        BY <1>7, <3>2, <4>1 DEF Wire
    <3>5. cmp => g \subseteq refused \cup c
      BY <1>7, <3>2, <3>3 DEF Held, c
    <3>6. cmp => v \subseteq c
      <4>1. cmp => u \subseteq c
        BY <1>4 DEF Ordered
      <4> QED
        BY <1>2, <1>5, <1>6, <3>5, <4>1
    <3> QED
      BY <1>4, <3>4, <3>6, OrderedSettle
  <2> QED
    BY <2>1, <2>2
<1>9. OrderAt(p)'
  BY <1>1, <1>8 DEF OrderAt, s, l, c, q, cmp, v
<1> QED
  BY <1>1, <1>3, <1>9, OrderRest

\* A new message: the earlier ones of the phone are stored, or before it on the
\* connection.
LEMMA OrderSend ==
    ASSUME TypeOK, ContentInv, PendingInv, OrderInv, NEW p \in Phone, NEW k \in Key, handleSendMessage(p, k)
    PROVE  OrderInv'
<1>1. /\ Narrows(Earlier', Earlier, Sent) /\ Clean' \subseteq Clean \cup {k}
      /\ \A j \in Key : j # k => author'[j] = author[j]
      /\ author'[k] = p /\ k \notin Sent
      /\ UNCHANGED <<db, refused, abandoned>>
  BY SendAges
<1>2. /\ UNCHANGED <<late, serverCache, toClient, complete>>
      /\ writes' = [writes EXCEPT ![p] = @ \cup {k}] /\ outstanding' = [outstanding EXCEPT ![p] = @ \cup {k}]
      /\ toServer' = IF connected[p] THEN [toServer EXCEPT ![p] = Append(@, Put(k))] ELSE toServer
  BY DEF handleSendMessage, update, putInternal
<1>3. /\ writes'[p] = writes[p] \cup {k} /\ outstanding'[p] = outstanding[p] \cup {k}
      /\ \A o \in Phone \ {p} : writes'[o] = writes[o] /\ outstanding'[o] = outstanding[o]
  BY <1>2 DEF TypeOK
<1>4. /\ toServer'[p] = IF connected[p] THEN Append(toServer[p], Put(k)) ELSE toServer[p]
      /\ \A o \in Phone \ {p} : toServer'[o] = toServer[o]
  BY <1>2 DEF TypeOK
<1>5. Sent \subseteq Sent' /\ p # Nobody
  BY <1>1, NobodyIsNoPhone DEF Sent
<1>6. ASSUME NEW o \in Phone PROVE Settled(o)' \subseteq Settled(o)
  <2> SUFFICES ASSUME NEW j \in Clean', author'[j] = o, j \notin writes'[o] PROVE j \in Settled(o)
    BY DEF Settled
  <2>1. j # k
    BY <1>1, <1>3
  <2>2. j \in Clean /\ j \in Key /\ author[j] = o
    BY <1>1, <2>1 DEF Clean
  <2> QED
    BY <1>3, <2>2 DEF Settled
<1>7. ASSUME NEW o \in Phone, o # p PROVE OrderAt(o)'
  <2>1. Placed(o)' = Placed(o)
    BY <1>2, <1>3, <1>4, <1>7 DEF Placed
  <2> QED
    BY <1>1, <1>6, <2>1, OrderFrame
<1>8. OrderAt(p)'
  <2> DEFINE s == toServer[p]
             u == Settled(p)'
  <2>1. Ordered(s, late[p], serverCache[p], toClient[p], complete[p], u, db', Earlier')
    BY <1>1, <1>6, OrderAges
  <2>2. InOrder(s, db', Earlier') /\ s \in Seq(ToServer)
    BY <2>1 DEF Ordered, TypeOK
  <2>3. ASSUME connected[p], NEW x \in Key, <<x, k>> \in Earlier' PROVE x \in db' \/ Put(x) \in ToSet(s)
    <3>1. x \in Clean' /\ author'[x] = p /\ x < k
      BY <1>1, <2>3 DEF Earlier
    <3>2. x # k
      BY <3>1, KeysOrdered
    <3>3. x \in Clean /\ author[x] = p /\ x \notin refused
      BY <1>1, <3>1, <3>2 DEF Clean
    <3>4. x \in db \cup outstanding[p]
      BY <3>3 DEF OrderInv
    <3>5. CASE x \in outstanding[p]
      <4>1. Put(x) \in ToSet(s) \/ Ack(x) \in ToSet(toClient[p])
        BY <2>3, <3>5 DEF PendingInv, Pending
      <4>2. CASE Ack(x) \in ToSet(toClient[p])
        <5>1. PICK i \in DOMAIN toClient[p] : toClient[p][i] = Ack(x)
          BY <4>2 DEF ToSet
        <5>2. toClient[p][i].type = "ack" /\ toClient[p][i].key = x
          BY <5>1 DEF Ack
        <5>3. x \in db \cup refused
          BY <5>2 DEF ContentInv, Content, Truthful
        <5> QED
          BY <1>1, <3>3, <5>3
      <4> QED
        BY <4>1, <4>2
    <3> QED
      BY <1>1, <3>4, <3>5
  <2> HIDE DEF s, u
  <2>4. connected[p] => InOrder(Append(s, Put(k)), db', Earlier')
    BY <2>2, <2>3, InOrderAppend
  <2>5. InOrder(toServer'[p], db', Earlier')
    BY <1>4, <2>2, <2>4 DEF s
  <2> QED
    BY <1>2, <2>1, <2>5 DEF OrderAt, Ordered, u
<1>9. Closed(db', Earlier')
  <2>1. db \in SUBSET Key /\ db \subseteq Sent /\ Closed(db, Earlier)
    BY DEF OrderInv, TypeOK
  <2>2. Closed(db, Earlier')
    BY <1>1, <2>1, ClosedAged
  <2> QED
    BY <1>1, <2>2
<1>10. db' \cup refused' \cup abandoned' \subseteq Sent'
  BY <1>1, <1>5 DEF OrderInv
<1>11. ASSUME NEW j \in Clean' PROVE j \in db' \cup outstanding'[author'[j]]
  <2>1. CASE j = k
    BY <1>1, <1>3, <2>1
  <2>2. CASE j # k
    <3>1. j \in Clean /\ author'[j] = author[j] /\ author[j] \in Phone
      BY <1>1, <2>2 DEF Clean, TypeOK
    <3>2. j \in db \cup outstanding[author[j]]
      BY <3>1 DEF OrderInv
    <3> QED
      BY <1>1, <1>3, <3>1, <3>2
  <2> QED
    BY <2>1, <2>2
<1> QED
  BY <1>7, <1>8, <1>9, <1>10, <1>11 DEF OrderInv

\* The server stores or refuses a message whose earlier ones are stored.
LEMMA OrderStore ==
    ASSUME TypeOK, ContentInv, PendingInv, OrderInv, NEW k \in Key, NEW A \in SUBSET Phone, Store(k, A),
           UNCHANGED <<author, abandoned, complete, serverCache, writes>>, NEW o \in Phone,
           \A x \in Key : <<x, k>> \in Earlier => x \in db
    PROVE  Ordered(toServer[o], late[o], serverCache[o], toClient'[o], complete[o], Settled(o)', db', Earlier')
<1> DEFINE s == toServer[o]
           l == late[o]
           c == serverCache[o]
           q0 == toClient[o]
           q1 == IF listener[o] = "on" /\ k \notin db THEN Append(q0, Data(k)) ELSE q0
           cmp == complete[o]
           u == Settled(o)'
<1>1. db \subseteq db' /\ refused \subseteq refused'
  BY DEF Store
<1>2. Ordered(s, l, c, q0, cmp, u, db', Earlier')
  BY <1>1, OtherAges, SettledKept, OrderAges
<1>3. /\ InOrder(s, db', Earlier') /\ InOrder(l, db', Earlier')
      /\ Closed(c, Earlier') /\ Orderly(c, q0, u, Earlier') /\ (cmp => u \subseteq c)
  BY <1>2 DEF Ordered
<1>4. /\ q0 \in Seq(ToClient) /\ Ack(k) \in ToClient /\ Ack(k).type = "ack"
      /\ Data(k) \in ToClient /\ Data(k).type = "data" /\ Data(k).key = k
  BY DEF TypeOK, ToClient, Ack, Data
<1>5. ASSUME listener[o] = "on", NEW x \in Key, <<x, k>> \in Earlier' PROVE Knows(c, q0, x, Len(q0) + 1)
  <2>1. x \in db
    BY <1>1, <1>5, FewerClean
  <2> QED
    BY <1>5, <2>1 DEF ContentInv, Content, Informed
<1> HIDE DEF s, l, c, q0, cmp, u
<1>6. q1 \in Seq(ToClient) /\ Orderly(c, q1, u, Earlier')
  <2>1. CASE listener[o] = "on" /\ k \notin db
    <3>1. Append(q0, Data(k)) \in Seq(ToClient)
      BY <1>4, AppendOf
    <3>2. Orderly(c, Append(q0, Data(k)), u, Earlier')
      BY <1>3, <1>4, <1>5, <2>1, OrderlyAppend
    <3> QED
      BY <2>1, <3>1, <3>2
  <2> QED
    BY <1>3, <1>4, <2>1
<1>7. ASSUME NEW q \in Seq(ToClient), Orderly(c, q, u, Earlier') PROVE Orderly(c, Append(q, Ack(k)), u, Earlier')
  BY <1>4, <1>7, OrderlyAppend
<1>8. ASSUME NEW q \in Seq(ToClient), Orderly(c, q, u, Earlier'),
             toClient'[o] = IF o \in A THEN Append(q, Ack(k)) ELSE q
      PROVE  Ordered(s, l, c, toClient'[o], cmp, u, db', Earlier')
  <2>1. Orderly(c, toClient'[o], u, Earlier')
    BY <1>7, <1>8
  <2> QED
    BY <1>3, <2>1 DEF Ordered
<1>9. Ordered(s, l, c, toClient'[o], cmp, u, db', Earlier')
  <2>1. CASE toClient' = [q \in Phone |->
                toClient[q]
                \o (IF listener[q] = "on" /\ k \notin db THEN <<Data(k)>> ELSE <<>>)
                \o (IF q \in A THEN <<Ack(k)>> ELSE <<>>)]
    <3>1. toClient'[o] = q0 \o (IF listener[o] = "on" /\ k \notin db THEN <<Data(k)>> ELSE <<>>)
                            \o (IF o \in A THEN <<Ack(k)>> ELSE <<>>)
      BY <2>1 DEF q0
    <3>2. q0 \o (IF listener[o] = "on" /\ k \notin db THEN <<Data(k)>> ELSE <<>>) = q1
      BY <1>4, ConcatOne
    <3>3. q1 \o (IF o \in A THEN <<Ack(k)>> ELSE <<>>) = IF o \in A THEN Append(q1, Ack(k)) ELSE q1
      <4> HIDE DEF q1
      <4> QED
        BY <1>4, <1>6, ConcatOne
    <3>4. toClient'[o] = IF o \in A THEN Append(q1, Ack(k)) ELSE q1
      BY <3>1, <3>2, <3>3
    <3> HIDE DEF q1
    <3> QED
      BY <1>6, <1>8, <3>4
  <2>2. CASE toClient' = [q \in Phone |-> IF q \in A THEN Append(toClient[q], Ack(k)) ELSE toClient[q]]
    <3>1. toClient'[o] = IF o \in A THEN Append(q0, Ack(k)) ELSE q0
      BY <2>2 DEF q0
    <3> QED
      BY <1>3, <1>4, <1>8, <3>1
  <2> QED
    BY <2>1, <2>2 DEF Store
<1> QED
  BY <1>9 DEF s, l, c, cmp, u


\* It took the message from the front of a connection.
Takes(k, s, t) == t = s \/ (s # <<>> /\ s[1] = Put(k) /\ t = Tail(s))

LEMMA OrderStored ==
    ASSUME TypeOK, ContentInv, PendingInv, OrderInv, NEW k \in Key, k \in Sent, NEW A \in SUBSET Phone, Store(k, A),
           UNCHANGED <<author, abandoned, complete, serverCache, writes, outstanding>>,
           \A x \in Key : <<x, k>> \in Earlier => x \in db,
           \A o \in Phone : Takes(k, toServer[o], toServer'[o]) /\ Takes(k, late[o], late'[o])
    PROVE  OrderInv'
<1>1. (db' = db \cup {k} /\ refused' = refused) \/ (refused' = refused \cup {k} /\ db' = db)
  BY DEF Store
<1>2. Clean' \subseteq Clean /\ Earlier' \subseteq Earlier /\ Sent' = Sent
  BY <1>1, FewerClean DEF Sent
<1>3. \A y \in Key : <<k, y>> \in Earlier' => k \in db'
  BY <1>1 DEF Earlier, Clean
<1>4. ASSUME NEW s \in Seq(ToServer), NEW t, Takes(k, s, t), InOrder(s, db', Earlier') PROVE InOrder(t, db', Earlier')
  <2>1. CASE s # <<>> /\ s[1] = Put(k) /\ t = Tail(s)
    <3>1. \A x, y \in Key : s[1] = Put(x) /\ <<x, y>> \in Earlier' => x \in db'
      <4>1. \A x \in Key : s[1] = Put(x) => x = k
        BY <2>1, PutMessage
      <4> QED
        BY <1>3, <4>1
    <3> QED
      BY <1>4, <2>1, <3>1, InOrderTail
  <2> QED
    BY <1>4, <2>1 DEF Takes
<1>5. ASSUME NEW o \in Phone PROVE OrderAt(o)'
  <2>1. Ordered(toServer[o], late[o], serverCache[o], toClient'[o], complete[o], Settled(o)', db', Earlier')
    BY OrderStore
  <2>2. toServer[o] \in Seq(ToServer) /\ late[o] \in Seq(ToServer)
    BY DEF TypeOK
  <2>3. InOrder(toServer[o], db', Earlier') /\ InOrder(late[o], db', Earlier')
    BY <2>1 DEF Ordered
  <2>4. InOrder(toServer'[o], db', Earlier') /\ InOrder(late'[o], db', Earlier')
    BY <1>4, <2>2, <2>3
  <2> QED
    BY <2>1, <2>4 DEF OrderAt, Ordered
<1>6. Closed(db', Earlier')
  <2>1. db \subseteq Key /\ Closed(db, Earlier)
    BY DEF OrderInv, TypeOK
  <2>2. \A y \in db \cup {k} : \A x \in Key : <<x, y>> \in Earlier => x \in db
    BY <2>1 DEF Closed
  <2> QED
    BY <1>1, <1>2, <2>2 DEF Closed
<1>7. db' \cup refused' \cup abandoned' \subseteq Sent'
  BY <1>1, <1>2 DEF OrderInv
<1>8. \A j \in Clean' : j \in db' \cup outstanding'[author'[j]]
  BY <1>1, <1>2 DEF OrderInv
<1> QED
  BY <1>5, <1>6, <1>7, <1>8 DEF OrderInv

LEMMA HeadFirst ==
    ASSUME NEW s \in Seq(ToServer), s # <<>>, NEW d, NEW R, InOrder(s, d, R), NEW k \in Key, s[1] = Put(k)
    PROVE  \A x \in Key : <<x, k>> \in R => x \in d
<1>1. 1 \in DOMAIN s /\ 1 .. 1 - 1 = {}
  BY TailOf
<1> QED
  BY <1>1 DEF InOrder

LEMMA OrderServer ==
    ASSUME TypeOK, WireInv, ContentInv, PendingInv, OrderInv, NEW p \in Phone, readPut(p) \/ readLate(p)
    PROVE  OrderInv'
<1>1. p # Nobody /\ InOrder(toServer[p], db, Earlier) /\ InOrder(late[p], db, Earlier)
  BY NobodyIsNoPhone DEF OrderInv, OrderAt, Ordered
<1>2. UNCHANGED <<author, abandoned, complete, serverCache, writes, outstanding>>
  BY DEF readPut, readLate, client
<1>3. CASE readPut(p)
  <2> DEFINE s == toServer[p]
             k == Head(s).key
  <2>1. /\ s # <<>> /\ Head(s).type = "put" /\ Store(k, {p})
        /\ toServer' = [toServer EXCEPT ![p] = Tail(@)] /\ late' = late
    BY <1>3 DEF readPut
  <2>2. s \in Seq(ToServer) /\ k \in Key /\ author[k] = p /\ s[1] = Put(k)
    BY <2>1, ServerReads DEF TypeOK
  <2>3. k \in Sent
    BY <1>1, <2>2 DEF Sent
  <2>4. toServer'[p] = Tail(s) /\ \A o \in Phone \ {p} : toServer'[o] = toServer[o]
    BY <2>1 DEF TypeOK
  <2>5. \A o \in Phone : Takes(k, toServer[o], toServer'[o]) /\ Takes(k, late[o], late'[o])
    BY <2>1, <2>2, <2>4 DEF Takes
  <2>6. \A x \in Key : <<x, k>> \in Earlier => x \in db
    <3> HIDE DEF s, k
    <3> QED
      BY <1>1, <2>1, <2>2, HeadFirst DEF s
  <2>7. {p} \in SUBSET Phone
    OBVIOUS
  <2> HIDE DEF s, k
  <2> QED
    BY <1>2, <2>1, <2>2, <2>3, <2>5, <2>6, <2>7, OrderStored
<1>4. CASE readLate(p)
  <2> DEFINE s == late[p]
             k == Head(s).key
  <2>1. /\ s # <<>> /\ Store(k, {})
        /\ late' = [late EXCEPT ![p] = Tail(@)] /\ toServer' = toServer
    BY <1>4 DEF readLate
  <2>2. s \in Seq(ToServer) /\ k \in Key /\ author[k] = p /\ s[1] = Put(k)
    BY <2>1, ServerReadsLate DEF TypeOK
  <2>3. k \in Sent
    BY <1>1, <2>2 DEF Sent
  <2>4. late'[p] = Tail(s) /\ \A o \in Phone \ {p} : late'[o] = late[o]
    BY <2>1 DEF TypeOK
  <2>5. \A o \in Phone : Takes(k, toServer[o], toServer'[o]) /\ Takes(k, late[o], late'[o])
    BY <2>1, <2>2, <2>4 DEF Takes
  <2>6. \A x \in Key : <<x, k>> \in Earlier => x \in db
    <3> HIDE DEF s, k
    <3> QED
      BY <1>1, <2>1, <2>2, HeadFirst DEF s
  <2>7. {} \in SUBSET Phone
    OBVIOUS
  <2> HIDE DEF s, k
  <2> QED
    BY <1>2, <2>1, <2>2, <2>3, <2>5, <2>6, <2>7, OrderStored
<1> QED
  BY <1>3, <1>4

LEMMA OrderStep ==
    ASSUME TypeOK, WireInv, ContentInv, PendingInv, HeldInv, OrderInv, NEW p \in Phone, Step(p)
    PROVE  OrderInv'
<1>1. ASSUME NEW k \in Key, handleSendMessage(p, k) PROVE OrderInv'
  BY <1>1, OrderSend
<1>2. CASE observeMessages(p) \/ childAdded(p) \/ listenOther(p) \/ restoreState(p) \/ onDisconnect(p) \/ Kill(p)
  BY <1>2, OrderPhone
<1>6. CASE onOtherListen(p)
  BY <1>6, OrderOther
<1>3. CASE Receive(p)
  BY <1>3, OrderReceive
<1>4. CASE readListen(p) \/ answerListen(p) \/ revokeListen(p)
  BY <1>4, OrderListen
<1>5. CASE readPut(p) \/ readLate(p)
  BY <1>5, OrderServer
<1> QED
  BY <1>1, <1>2, <1>3, <1>4, <1>5, <1>6 DEF Step, Serve


-----------------------------------------------------------------------------
(***************************************************************************)
(* The lists.                                                              *)
(***************************************************************************)
LEMMA SequencedAged ==
    ASSUME NEW f \in Seq(Key), NEW R, NEW T, NEW A, Sequenced(f, R), ToSet(f) \subseteq A, Narrows(T, R, A)
    PROVE  Sequenced(f, T)
<1>1. \A i \in DOMAIN f : f[i] \in Key /\ f[i] \in A
  BY ElementOfSeq, LenProperties DEF ToSet
<1> QED
  BY <1>1 DEF Sequenced, Narrows

LEMMA SequencedConcat ==
    ASSUME NEW f \in Seq(Key), NEW t \in Seq(Key), NEW R, Sequenced(f, R), Sequenced(t, R),
           \A i \in DOMAIN t : \A y \in ToSet(f) : <<t[i], y>> \notin R
    PROVE  Sequenced(f \o t, R)
<1> DEFINE g == f \o t
<1>1. /\ Len(f) \in Nat /\ Len(t) \in Nat
      /\ DOMAIN f = 1 .. Len(f) /\ DOMAIN t = 1 .. Len(t) /\ DOMAIN g = 1 .. Len(f) + Len(t)
      /\ \A i \in DOMAIN f : g[i] = f[i]
      /\ \A i \in DOMAIN t : g[Len(f) + i] = t[i]
  BY ConcatOf
<1> HIDE DEF g
<1>2. ASSUME NEW i \in DOMAIN g, i \notin DOMAIN f PROVE i - Len(f) \in DOMAIN t /\ g[i] = t[i - Len(f)]
  <2>1. i - Len(f) \in DOMAIN t /\ Len(f) + (i - Len(f)) = i
    BY <1>1, <1>2
  <2> QED
    BY <1>1, <2>1
<1> SUFFICES ASSUME NEW i \in DOMAIN g, NEW j \in DOMAIN g, i < j PROVE <<g[j], g[i]>> \notin R
  BY DEF Sequenced, g
<1>3. CASE j \in DOMAIN f
  <2>1. i \in DOMAIN f
    BY <1>1, <1>3
  <2> QED
    BY <1>1, <1>3, <2>1 DEF Sequenced
<1>4. CASE i \in DOMAIN f /\ j \notin DOMAIN f
  <2>1. g[i] \in ToSet(f)
    BY <1>1, <1>4 DEF ToSet
  <2> QED
    BY <1>2, <1>4, <2>1
<1>5. CASE i \notin DOMAIN f /\ j \notin DOMAIN f
  <2>1. i - Len(f) < j - Len(f)
    BY <1>1
  <2> QED
    BY <1>2, <1>5, <2>1 DEF Sequenced
<1> QED
  BY <1>3, <1>4, <1>5

LEMMA FeedSent ==
    ASSUME TypeOK, FeedInv, OrderInv, NEW p \in Phone
    PROVE  ToSet(Feed(p)) \subseteq Sent
<1>1. Kept(p) /\ p # Nobody /\ Feed(p) \in Seq(Key)
  BY FeedInvAt, FeedType, NobodyIsNoPhone DEF FeedAt
<1>2. ToSet(Feed(p)) \subseteq Key
  BY <1>1, ElementOfSeq, LenProperties DEF ToSet
<1> QED
  BY <1>1, <1>2 DEF Kept, OrderInv, Sent

\* A view with a message has the earlier ones: the cache does, and of its own
\* messages a phone has those that wait and those that do not.
LEMMA ViewClosed ==
    ASSUME PendingInv, OrderInv, NEW p \in Phone, complete[p], NEW y \in View(p), NEW x \in Key, <<x, y>> \in Earlier
    PROVE  x \in View(p)
<1>1. View(p) = serverCache[p] \cup writes[p]
  BY DEF View
<1>2. Closed(serverCache[p], Earlier) /\ Settled(p) \subseteq serverCache[p]
  BY DEF OrderInv, OrderAt, Ordered
<1>3. x \in Clean /\ author[x] = author[y]
  BY DEF Earlier
<1>4. CASE y \in serverCache[p]
  BY <1>1, <1>2, <1>4 DEF Closed
<1>5. CASE y \in writes[p]
  <2>1. author[x] = p
    BY <1>3, <1>5 DEF PendingInv, Pending
  <2> QED
    BY <1>1, <1>2, <1>3, <2>1 DEF Settled
<1> QED
  BY <1>1, <1>4, <1>5

\* Push ids are given once.
LEMMA DueAges ==
    ASSUME Narrows(Earlier', Earlier, Sent), \A j \in Sent : pushId'[j] = pushId[j]
    PROVE  Narrows(Due', Due, Sent)
<1> SUFFICES ASSUME NEW x \in Key, NEW y \in Key, y \in Sent, <<x, y>> \in Due' PROVE <<x, y>> \in Due
  BY DEF Narrows
<1>1. <<x, y>> \in Earlier' /\ ~(pushId'[y] < pushId'[x])
  BY DEF Due
<1>2. <<x, y>> \in Earlier
  BY <1>1 DEF Narrows
<1>3. x \in Sent
  BY <1>2 DEF Earlier, Clean, Sent
<1> QED
  BY <1>1, <1>2, <1>3 DEF Due

\* What a step adds to the list comes before nothing that is there.
LEMMA SequenceAdds ==
    ASSUME TypeOK, TypeOK', PendingInv, FeedInv, OrderInv, SequenceInv, NEW p \in Phone, NEW t, Adds(p, t),
           Narrows(Earlier', Earlier, Sent), Narrows(Due', Due, Sent)
    PROVE  Sequenced(Feed(p)', Due')
<1> DEFINE f == Feed(p)
           g == Feed(p)'
<1>1. /\ f \in Seq(Key) /\ t \in Seq(Key) /\ g = f \o t
      /\ \A i, j \in DOMAIN t : i < j => pushId'[t[i]] < pushId'[t[j]]
      /\ \A i \in DOMAIN t : t[i] \notin View(p) /\ (complete[p] \/ f = <<>>)
  BY FeedType DEF Adds
<1>2. ToSet(f) \subseteq Sent /\ Sequenced(f, Due)
  BY FeedSent DEF SequenceInv
<1>3. Mirrors(p)
  BY DEF FeedInv
<1>4. ToSet(<<>>) = {} /\ (complete[p] => ToSet(f) \subseteq View(p) \cup refused)
  BY <1>3 DEF Mirrors, ToSet
<1> HIDE DEF f, g
<1>5. Sequenced(f, Due')
  BY <1>1, <1>2, SequencedAged
<1>6. \A i \in DOMAIN t : t[i] \in Key
  BY <1>1, ElementOfSeq, LenProperties
<1>7. Sequenced(t, Due')
  <2> SUFFICES ASSUME NEW i \in DOMAIN t, NEW j \in DOMAIN t, i < j, <<t[j], t[i]>> \in Due' PROVE FALSE
    BY DEF Sequenced
  <2>1. ~(pushId'[t[i]] < pushId'[t[j]])
    BY DEF Due
  <2> QED
    BY <1>1, <2>1
<1>8. ASSUME NEW i \in DOMAIN t, NEW y \in ToSet(f), <<t[i], y>> \in Due' PROVE FALSE
  <2>0. <<t[i], y>> \in Earlier'
    BY <1>8 DEF Due
  <2>1. y \in Key
    BY <1>2 DEF Sent
  <2>2. <<t[i], y>> \in Earlier
    BY <1>2, <1>6, <2>0, <2>1 DEF Narrows
  <2>3. y \notin refused
    BY <2>2 DEF Earlier, Clean
  <2>4. complete[p] /\ y \in View(p)
    BY <1>1, <1>4, <1>8, <2>3
  <2>5. t[i] \in View(p)
    BY <1>6, <2>2, <2>4, ViewClosed
  <2> QED
    BY <1>1, <2>5
<1>9. Sequenced(g, Due')
  BY <1>1, <1>5, <1>7, <1>8, SequencedConcat
<1> QED
  BY <1>9 DEF g

LEMMA SequenceStep ==
    ASSUME TypeOK, TypeOK', WireInv, ContentInv, PendingInv, HeldInv, FeedInv, OrderInv, SequenceInv,
           NEW p \in Phone, Step(p)
    PROVE  SequenceInv'
<1>1. Narrows(Earlier', Earlier, Sent)
  <2>1. ASSUME NEW k \in Key, handleSendMessage(p, k) PROVE Narrows(Earlier', Earlier, Sent)
    BY <2>1, SendAges
  <2>2. CASE observeMessages(p) \/ childAdded(p) \/ listenOther(p) \/ restoreState(p) \/ onDisconnect(p) \/ Kill(p)
    BY <2>2, OtherAges DEF observeMessages, childAdded, listenOther, restoreState, onDisconnect, Kill, backend
  <2>3. CASE Receive(p) \/ onOtherListen(p)
    <3>1. UNCHANGED <<author, refused, abandoned>>
      BY <2>3 DEF Receive, onSnapshot, onDataUpdate, onPutResponse, onListenOk, onListenDenied, onListenRevoked,
                  onDataMessage, onOtherListen, backend
    <3> QED
      BY <3>1, OtherAges
  <2>4. CASE readListen(p) \/ readPut(p) \/ answerListen(p) \/ revokeListen(p) \/ readLate(p)
    <3>1. UNCHANGED <<author, abandoned>> /\ refused \subseteq refused'
      BY <2>4 DEF readListen, readPut, answerListen, revokeListen, readLate, Store, client
    <3> QED
      BY <3>1, OtherAges
  <2> QED
    BY <2>1, <2>2, <2>3, <2>4 DEF Step, Serve
<1>7. Narrows(Due', Due, Sent)
  <2>1. ASSUME NEW k \in Key, handleSendMessage(p, k) PROVE \A j \in Sent : pushId'[j] = pushId[j]
    <3>1. k \notin Sent
      BY <2>1, SendAges
    <3>2. \A j \in Key : j # k => pushId'[j] = pushId[j]
      BY <2>1 DEF handleSendMessage, TypeOK
    <3> QED
      BY <3>1, <3>2 DEF Sent
  <2>2. ASSUME observeMessages(p) \/ childAdded(p) \/ listenOther(p) \/ restoreState(p) \/ onDisconnect(p) \/ Kill(p)
        PROVE  \A j \in Sent : pushId'[j] = pushId[j]
    <3>1. pushId' = pushId
      BY <2>2 DEF observeMessages, childAdded, listenOther, restoreState, onDisconnect, Kill
    <3> QED
      BY <3>1
  <2>3. ASSUME Receive(p) \/ onOtherListen(p)
        PROVE  \A j \in Sent : pushId'[j] = pushId[j]
    <3>1. ASSUME NEW type, onDataMessage(p, type) PROVE pushId' = pushId
      BY <3>1 DEF onDataMessage
    <3>2. Receive(p) => pushId' = pushId
      BY <3>1 DEF Receive, onSnapshot, onDataUpdate, onPutResponse, onListenOk, onListenDenied, onListenRevoked
    <3>3. onOtherListen(p) => pushId' = pushId
      BY DEF onOtherListen
    <3> QED
      BY <2>3, <3>2, <3>3
  <2>4. ASSUME readListen(p) \/ readPut(p) \/ answerListen(p) \/ revokeListen(p) \/ readLate(p)
        PROVE  \A j \in Sent : pushId'[j] = pushId[j]
    <3>1. pushId' = pushId
      BY <2>4 DEF readListen, readPut, answerListen, revokeListen, readLate, client
    <3> QED
      BY <3>1
  <2>5. \A j \in Sent : pushId'[j] = pushId[j]
    BY <2>1, <2>2, <2>3, <2>4 DEF Step, Serve
  <2> QED
    BY <1>1, <2>5, DueAges
<1>2. ASSUME NEW o \in Phone, Feed(o)' = Feed(o) PROVE Sequenced(Feed(o)', Due')
  <2> DEFINE f == Feed(o)
  <2>1. f \in Seq(Key) /\ ToSet(f) \subseteq Sent /\ Sequenced(f, Due)
    BY FeedType, FeedSent DEF SequenceInv
  <2>2. Feed(o)' = f
    BY <1>2
  <2> HIDE DEF f
  <2>3. Sequenced(f, Due')
    BY <1>7, <2>1, SequencedAged
  <2> QED
    BY <2>2, <2>3
<1>3. \A o \in Phone \ {p} : Feed(o)' = Feed(o)
  <2>1. \A o \in Phone \ {p} : Shows(o)' = Shows(o)
    BY OtherLists
  <2> QED
    BY <2>1 DEF Shows, Feed
<1>4. FeedAt(p)
  BY FeedInvAt
<1>5. Sequenced(Feed(p)', Due')
  <2>1. ASSUME NEW k \in Key, handleSendMessage(p, k) PROVE Sequenced(Feed(p)', Due')
    <3>1. PICK t : Adds(p, t)
      BY <1>4, <2>1, SendFeed
    <3> QED
      BY <1>1, <1>7, <3>1, SequenceAdds
  <2>2. CASE Receive(p) \/ onOtherListen(p)
    <3>1. PICK t : Adds(p, t)
      BY <1>4, <2>2, ReadFeed
    <3> QED
      BY <1>1, <1>7, <3>1, SequenceAdds
  <2>3. CASE Kill(p)
    <3>1. Feed(p)' = <<>> \o <<>>
      BY <2>3 DEF Kill, TypeOK, Feed
    <3>2. Feed(p)' = <<>>
      BY <3>1
    <3> QED
      BY <3>2 DEF Sequenced
  <2>4. CASE childAdded(p)
    BY <1>2, <2>4, ChildAddedFeed
  <2>5. CASE observeMessages(p) \/ listenOther(p) \/ restoreState(p) \/ onDisconnect(p)
    <3>1. UNCHANGED <<chats, events>>
      BY <2>5 DEF observeMessages, listenOther, restoreState, onDisconnect
    <3>2. Feed(p)' = Feed(p)
      BY <3>1 DEF Feed
    <3> QED
      BY <1>2, <3>2
  <2>6. CASE readListen(p) \/ readPut(p) \/ answerListen(p) \/ revokeListen(p) \/ readLate(p)
    <3>1. UNCHANGED <<chats, events>>
      BY <2>6 DEF readListen, readPut, answerListen, revokeListen, readLate, client
    <3>2. Feed(p)' = Feed(p)
      BY <3>1 DEF Feed
    <3> QED
      BY <1>2, <3>2
  <2> QED
    BY <2>1, <2>2, <2>3, <2>4, <2>5, <2>6 DEF Step, Serve
<1>6. \A o \in Phone : Sequenced(Feed(o)', Due')
  BY <1>2, <1>3, <1>5
<1> QED
  BY <1>6 DEF SequenceInv

-----------------------------------------------------------------------------
(***************************************************************************)
(* The theorem.                                                            *)
(***************************************************************************)
InOrderInv == ChatFeedInv /\ OrderInv /\ SequenceInv

LEMMA InOrderInit == Init => InOrderInv
<1> SUFFICES ASSUME Init PROVE InOrderInv
  OBVIOUS
<1>1. ChatFeedInv
  BY ChatFeedInit
<1>2. Clean = {} /\ db = {} /\ refused = {} /\ abandoned = {} /\ DOMAIN <<>> = {}
  BY DEF Init, Clean
<1>3. \A p \in Phone : /\ toServer[p] = <<>> /\ late[p] = <<>> /\ toClient[p] = <<>> /\ serverCache[p] = {}
                       /\ ~complete[p]
  BY DEF Init
<1>4. \A p \in Phone : OrderAt(p)
  BY <1>2, <1>3 DEF OrderAt, Ordered, InOrder, Closed, Orderly
<1>5. OrderInv
  BY <1>2, <1>4 DEF OrderInv, Closed
<1>6. \A p \in Phone : Feed(p) = <<>> \o <<>>
  BY DEF Init, Feed
<1>7. \A p \in Phone : Feed(p) = <<>>
  BY <1>6
<1>8. SequenceInv
  BY <1>2, <1>7 DEF SequenceInv, Sequenced
<1> QED
  BY <1>1, <1>5, <1>8 DEF InOrderInv

LEMMA InOrderNext == InOrderInv /\ [Next]_vars => InOrderInv'
<1> SUFFICES ASSUME InOrderInv, [Next]_vars PROVE InOrderInv'
  OBVIOUS
<1>1. ChatFeedInv /\ OrderInv /\ SequenceInv
  BY DEF InOrderInv
<1>2. TypeOK /\ WireInv /\ ContentInv /\ PendingInv /\ HeldInv /\ FeedInv
  BY <1>1 DEF ChatFeedInv
<1>3. ChatFeedInv' /\ TypeOK'
  BY <1>1, ChatFeedStep DEF ChatFeedInv
<1>4. CASE Next
  <2>1. PICK p \in Phone : Step(p)
    BY <1>4 DEF Next, Step
  <2>2. OrderInv'
    BY <1>1, <1>2, <2>1, OrderStep
  <2>3. SequenceInv'
    BY <1>1, <1>2, <1>3, <2>1, SequenceStep
  <2> QED
    BY <1>3, <2>2, <2>3 DEF InOrderInv
<1>5. CASE UNCHANGED vars
  <2> USE <1>5 DEF vars, client, network, backend
  <2>1. Clean' = Clean /\ Sent' = Sent
    BY DEF Clean, Sent
  <2>2. Earlier' = Earlier /\ Due' = Due
    <3>1. Earlier' = Earlier
      BY <2>1 DEF Earlier
    <3> QED
      BY <3>1 DEF Due
  <2>3. \A p \in Phone : Settled(p)' = Settled(p) /\ Feed(p)' = Feed(p)
    BY <2>1 DEF Settled, Feed
  <2>4. \A p \in Phone : OrderAt(p)'
    BY <1>1, <2>2, <2>3 DEF OrderInv, OrderAt
  <2>5. OrderInv'
    BY <1>1, <2>1, <2>2, <2>4 DEF OrderInv
  <2>6. SequenceInv'
    BY <1>1, <2>2, <2>3 DEF SequenceInv
  <2> QED
    BY <1>3, <2>5, <2>6 DEF InOrderInv
<1> QED
  BY <1>4, <1>5

\* Every phone shows the messages of one sender in the order in which they were
\* sent, over reconnects, repeated writes and snapshots, unless the clock that
\* childByAutoId reads went back between two of them; but for messages that were
\* refused or abandoned.
THEOREM SendersInOrder == Spec => []SenderOrder
<1>1. ASSUME InOrderInv, NEW p \in Phone, NEW i \in DOMAIN Feed(p), NEW j \in DOMAIN Feed(p), i < j,
             author[Feed(p)[i]] = author[Feed(p)[j]],
             {Feed(p)[i], Feed(p)[j]} \cap (refused \cup abandoned) = {}
      PROVE  Feed(p)[i] <= Feed(p)[j] \/ pushId[Feed(p)[i]] < pushId[Feed(p)[j]]
  <2> DEFINE x == Feed(p)[i]
             y == Feed(p)[j]
  <2>1. TypeOK /\ FeedInv /\ OrderInv /\ SequenceInv
    BY <1>1 DEF InOrderInv, ChatFeedInv
  <2>2. ToSet(Feed(p)) \subseteq Sent
    BY <2>1, FeedSent
  <2>3. x \in Sent /\ y \in Sent
    BY <2>2 DEF ToSet
  <2>4. x \in Clean /\ y \in Clean /\ x \in Nat /\ y \in Nat
    BY <1>1, <2>3, KeysOrdered DEF Sent, Clean
  <2>5. <<y, x>> \notin Due
    BY <1>1, <2>1 DEF SequenceInv, Sequenced
  <2>6. ~(y < x) \/ pushId[x] < pushId[y]
    BY <1>1, <2>4, <2>5 DEF Earlier, Due
  <2> QED
    BY <2>4, <2>6
<1>2. InOrderInv => SenderOrder
  BY <1>1 DEF SenderOrder
<1>3. Init => InOrderInv
  BY InOrderInit
<1>4. InOrderInv /\ [Next]_vars => InOrderInv'
  BY InOrderNext
<1> QED
  BY <1>2, <1>3, <1>4, PTL DEF Spec
=============================================================================
