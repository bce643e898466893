--------------------------- MODULE ChatFeedSteps ----------------------------
(***************************************************************************)
(* Proofs about ChatFeed, part 1: the inductive invariant, what reading and *)
(* sending one message does to a connection, and every step, which keeps the *)
(* types, what is on the connections and the writes that wait.             *)
(***************************************************************************)
EXTENDS ChatFeed, SequenceTheorems, FiniteSetTheorems, TLAPS

(***************************************************************************)
(* The inductive invariant.                                                *)
(*                                                                         *)
(* First what may be on the connection of a phone, whose state is: con,    *)
(* connected; lis, listening; un, chatsUnacked; cmp, complete; ls,         *)
(* listener; s, toServer; q, toClient.                                     *)
(***************************************************************************)
Asking(s) == s # <<>> /\ s[1] = Listen

Has(q, types) == \E i \in DOMAIN q : q[i].type \in types

Only(q, types) == \A i \in DOMAIN q : q[i].type \in types

Before(q, types, i) == \E j \in 1 .. i - 1 : q[j].type \in types

Stops == {"denied", "revoked"}

Answers == {"listenOk", "denied"}

\* Apart from answers to writes, which may be anywhere, the server sends on one
\* connection a snapshot, listenOk, data and perhaps revoked, or just denied.
Follows == {<<"snapshot", "listenOk">>, <<"snapshot", "data">>, <<"snapshot", "revoked">>,
            <<"listenOk", "data">>, <<"listenOk", "revoked">>,
            <<"data", "data">>, <<"data", "revoked">>}

InTurn(q) ==
    \A i, j \in DOMAIN q : i < j =>
        q[i].type = "ack" \/ q[j].type = "ack" \/ <<q[i].type, q[j].type>> \in Follows

\* The listen is on its way, read, answered, refused or revoked, and what is on
\* the connection back to the phone says so.
Wire(con, lis, un, cmp, ls, s, q) ==
    /\ ~con => s = <<>> /\ q = <<>> /\ ls = "none" /\ un = 0
    /\ Asking(s) => q = <<>> /\ un = 1 /\ lis /\ ls = "none"
    /\ ls = "asked" => Only(q, {"ack"}) /\ un = 1 /\ lis /\ ~Asking(s)
    /\ ls = "on" => lis /\ ~Asking(s) /\ ~Has(q, Stops) /\ (cmp \/ Has(q, {"snapshot"}))
    /\ ~lis => Only(q, {"ack"}) /\ ls = "none" /\ ~Asking(s) /\ un = 0 /\ ~cmp
    /\ con /\ lis /\ ls = "none" /\ ~Asking(s) => Has(q, Stops)
    /\ InTurn(q)
    /\ Has(q, Answers) => un = 1
    /\ un = 1 => Asking(s) \/ ls = "asked" \/ Has(q, Answers)
    /\ Has(q, {"snapshot"}) => Has(q, {"listenOk"})
    /\ \A i \in DOMAIN q : q[i].type = "data" => cmp \/ Before(q, {"snapshot"}, i)

-----------------------------------------------------------------------------
(***************************************************************************)
(* What the messages say: c is serverCache, h is putsToAck, d is db and r  *)
(* is refused.                                                             *)
(***************************************************************************)
Brings(m, k) == (m.type = "data" /\ m.key = k) \/ (m.type = "snapshot" /\ k \in m.keys)

\* When the phone reads message i, k is in its cache.
Knows(c, q, k, i) == k \in c \/ \E j \in 1 .. i - 1 : Brings(q[j], k)

\* The phone hears only of what is stored, and of answers that were given.
Truthful(c, h, q, d, r) ==
    /\ c \subseteq d /\ h \subseteq d \cup r
    /\ \A i \in DOMAIN q :
          /\ q[i].type = "snapshot" => q[i].keys \subseteq d
          /\ q[i].type = "data" => q[i].key \in d
          /\ q[i].type = "ack" => q[i].key \in d \cup r

\* A snapshot takes nothing from the cache.
Keeps(c, q) == \A i \in DOMAIN q : q[i].type = "snapshot" => c \subseteq q[i].keys

\* When the listen is answered the phone knows whatever has been answered
\* before and was not refused: what onListenOk drops from the local writes is
\* in the cache.
Caught(c, h, q, r) ==
    \A m \in DOMAIN q : q[m].type = "listenOk" =>
        /\ \A k \in h : k \in r \/ Knows(c, q, k, m)
        /\ \A i \in 1 .. m - 1 : q[i].type = "ack" => q[i].key \in r \/ Knows(c, q, q[i].key, m)

\* And so for every answer to a write that comes after the answer to the listen.
Safe(lis, un, c, q, r) ==
    \A i \in DOMAIN q :
        /\ q[i].type = "ack" /\ lis
        /\ un = 0 \/ Before(q, {"listenOk"}, i)
        /\ ~Before(q, Stops, i)
        => q[i].key \in r \/ Knows(c, q, q[i].key, i)

\* A phone that the server counts as a listener gets all there is.
Informed(ls, c, q, d) == ls = "on" => \A k \in d : Knows(c, q, k, Len(q) + 1)

Content(lis, un, ls, c, h, q, d, r) ==
    /\ Truthful(c, h, q, d, r) /\ Keeps(c, q) /\ Caught(c, h, q, r)
    /\ Safe(lis, un, c, q, r) /\ Informed(ls, c, q, d)

WireInv ==
    \A p \in Phone :
        Wire(connected[p], listening[p], chatsUnacked[p], complete[p], listener[p], toServer[p], toClient[p])

ContentInv ==
    \A p \in Phone :
        Content(listening[p], chatsUnacked[p], listener[p], serverCache[p], putsToAck[p], toClient[p], db, refused)

-----------------------------------------------------------------------------
(***************************************************************************)
(* The writes of a phone, and its list.                                    *)
(***************************************************************************)
\* Every write of the view waits for its answer or for the listen's.  On a
\* connection an outstanding write is under way, or its answer is.
Pending(p) ==
    /\ writes[p] = outstanding[p] \cup putsToAck[p] /\ outstanding[p] \cap putsToAck[p] = {}
    /\ \A k \in writes[p] : author[k] = p
    /\ connected[p] => \A k \in outstanding[p] :
          Put(k) \in ToSet(toServer[p]) \/ Ack(k) \in ToSet(toClient[p])
    /\ putsToAck[p] # {} /\ connected[p] /\ listening[p] => unackedListensCount(p) # 0
    /\ ~running[p] => ~connected[p] /\ ~listening[p] /\ outstanding[p] = {} /\ putsToAck[p] = {}

\* On the connections to the server there are writes of their phone, and a
\* listen comes first.
OwnPuts(p, s) == \A i \in DOMAIN s : \E k \in Key : s[i] = Put(k) /\ author[k] = p

Sending(p) ==
    /\ \A i \in DOMAIN toServer[p] :
          (i = 1 /\ toServer[p][i] = Listen) \/ (\E k \in Key : toServer[p][i] = Put(k) /\ author[k] = p)
    /\ OwnPuts(p, late[p])

PendingInv == \A p \in Phone : Pending(p) /\ Sending(p)

\* Answers that are still held back when the listen for /chats is answered, by
\* a listen for something else, are of writes that the cache has.
Held(p) ==
    /\ connected[p] /\ listening[p] /\ chatsUnacked[p] = 0 => putsToAck[p] \subseteq refused \cup serverCache[p]
    /\ ~connected[p] => otherUnacked[p] = 0

HeldInv == \A p \in Phone : Held(p)

\* The list and the view agree, up to what was refused; a view that is not
\* complete has reported nothing, until the listen is taken away.
Mirrors(p) ==
    /\ complete[p] => ToSet(Feed(p)) \subseteq View(p) \cup refused /\ View(p) \subseteq ToSet(Feed(p))
    /\ ~complete[p] /\ (listening[p] \/ ~running[p]) => Feed(p) = <<>>

FeedInv == (\A p \in Phone : Mirrors(p)) /\ NothingLost /\ NoDuplicateChat

ChatFeedInv == TypeOK /\ WireInv /\ ContentInv /\ PendingInv /\ HeldInv /\ FeedInv

-----------------------------------------------------------------------------
(***************************************************************************)
(* Sequences and messages.                                                 *)
(***************************************************************************)
LEMMA TailOf ==
    ASSUME NEW S, NEW q \in Seq(S), q # <<>>
    PROVE  /\ 1 \in DOMAIN q /\ Head(q) = q[1] /\ Head(q) \in S
           /\ Len(q) \in Nat \ {0}
           /\ Tail(q) \in Seq(S) /\ Len(Tail(q)) = Len(q) - 1
           /\ DOMAIN q = 1 .. Len(q) /\ DOMAIN Tail(q) = 1 .. Len(q) - 1
           /\ \A i \in DOMAIN Tail(q) : Tail(q)[i] = q[i + 1]
BY HeadTailProperties, LenProperties

LEMMA AppendOf ==
    ASSUME NEW S, NEW q \in Seq(S), NEW m \in S
    PROVE  /\ Append(q, m) \in Seq(S) /\ Len(Append(q, m)) = Len(q) + 1 /\ Len(q) \in Nat
           /\ DOMAIN q = 1 .. Len(q) /\ DOMAIN Append(q, m) = 1 .. Len(q) + 1
           /\ \A i \in DOMAIN q : Append(q, m)[i] = q[i]
           /\ Append(q, m)[Len(q) + 1] = m
           /\ Append(q, m) # <<>>
BY AppendProperties, LenProperties

LEMMA ConcatOf ==
    ASSUME NEW S, NEW q \in Seq(S), NEW t \in Seq(S)
    PROVE  /\ q \o t \in Seq(S) /\ Len(q \o t) = Len(q) + Len(t)
           /\ Len(q) \in Nat /\ Len(t) \in Nat
           /\ DOMAIN q = 1 .. Len(q) /\ DOMAIN t = 1 .. Len(t) /\ DOMAIN (q \o t) = 1 .. Len(q) + Len(t)
           /\ \A i \in DOMAIN q : (q \o t)[i] = q[i]
           /\ \A i \in DOMAIN t : (q \o t)[Len(q) + i] = t[i]
BY ConcatProperties, LenProperties

LEMMA MessageFields ==
    ASSUME NEW m \in ToClient
    PROVE  /\ m.type \in {"snapshot", "data", "ack", "listenOk", "denied", "revoked"}
           /\ m.type = "snapshot" => m.keys \in SUBSET Key
           /\ m.type \in {"data", "ack"} => m.key \in Key
           /\ m.type = "ack" => m = Ack(m.key)
BY DEF ToClient, Snapshot, Data, Ack, ListenOk, Denied, Revoked

LEMMA HasTail ==
    ASSUME NEW q \in Seq(ToClient), q # <<>>, NEW types
    PROVE  /\ Has(q, types) <=> q[1].type \in types \/ Has(Tail(q), types)
           /\ Only(q, types) => Only(Tail(q), types)
<1>1. /\ Tail(q) \in Seq(ToClient) /\ Len(q) \in Nat \ {0} /\ DOMAIN q = 1 .. Len(q)
      /\ DOMAIN Tail(q) = 1 .. Len(q) - 1
      /\ \A i \in DOMAIN Tail(q) : Tail(q)[i] = q[i + 1]
  BY TailOf
<1>2. ASSUME NEW i \in DOMAIN q, q[i].type \in types, i # 1 PROVE Has(Tail(q), types)
  <2>1. i - 1 \in DOMAIN Tail(q) /\ Tail(q)[i - 1] = q[i]
    BY <1>1, <1>2
  <2> QED
    BY <2>1, <1>2 DEF Has
<1>3. ASSUME NEW i \in DOMAIN Tail(q), Tail(q)[i].type \in types PROVE Has(q, types)
  <2>1. i + 1 \in DOMAIN q /\ Tail(q)[i] = q[i + 1]
    BY <1>1, <1>3
  <2> QED
    BY <2>1, <1>3 DEF Has
<1>4. 1 \in DOMAIN q
  BY <1>1
<1>5. ASSUME Only(q, types) PROVE Only(Tail(q), types)
  BY <1>1, <1>5 DEF Only
<1> QED
  BY <1>2, <1>3, <1>4, <1>5 DEF Has

LEMMA InTurnTail ==
    ASSUME NEW q \in Seq(ToClient), q # <<>>, InTurn(q)
    PROVE  /\ InTurn(Tail(q))
           /\ \A i \in DOMAIN Tail(q) :
                q[1].type = "ack" \/ Tail(q)[i].type = "ack" \/ <<q[1].type, Tail(q)[i].type>> \in Follows
<1>1. /\ Tail(q) \in Seq(ToClient) /\ Len(q) \in Nat \ {0} /\ DOMAIN q = 1 .. Len(q)
      /\ DOMAIN Tail(q) = 1 .. Len(q) - 1
      /\ \A i \in DOMAIN Tail(q) : Tail(q)[i] = q[i + 1]
  BY TailOf
<1>2. \A i \in DOMAIN Tail(q) : i \in Nat /\ i + 1 \in DOMAIN q /\ 1 \in DOMAIN q /\ 1 < i + 1
  BY <1>1
<1>3. \A i, j \in DOMAIN Tail(q) : i < j => i + 1 < j + 1
  BY <1>1
<1> HIDE DEF Follows
<1> QED
  BY <1>1, <1>2, <1>3 DEF InTurn

\* After the head came what may follow it.
LEMMA HeadSettles ==
    ASSUME NEW q \in Seq(ToClient), q # <<>>, InTurn(q)
    PROVE  /\ q[1].type \in Stops => Only(Tail(q), {"ack"})
           /\ q[1].type # "ack" => ~Has(Tail(q), {"snapshot", "denied"})
           /\ q[1].type \in {"listenOk", "data"} => ~Has(Tail(q), Answers)
<1>1. \A i \in DOMAIN Tail(q) :
        q[1].type = "ack" \/ Tail(q)[i].type = "ack" \/ <<q[1].type, Tail(q)[i].type>> \in Follows
  BY InTurnTail
<1> QED
  BY <1>1 DEF Stops, Answers, Has, Only, Follows

LEMMA DataTail ==
    ASSUME NEW q \in Seq(ToClient), q # <<>>, NEW cmp,
           \A i \in DOMAIN q : q[i].type = "data" => cmp \/ Before(q, {"snapshot"}, i)
    PROVE  /\ q[1].type = "data" => cmp
           /\ q[1].type # "snapshot" =>
                \A i \in DOMAIN Tail(q) : Tail(q)[i].type = "data" => cmp \/ Before(Tail(q), {"snapshot"}, i)
<1>1. /\ Tail(q) \in Seq(ToClient) /\ Len(q) \in Nat \ {0} /\ DOMAIN q = 1 .. Len(q)
      /\ DOMAIN Tail(q) = 1 .. Len(q) - 1
      /\ \A i \in DOMAIN Tail(q) : Tail(q)[i] = q[i + 1]
  BY TailOf
<1>2. q[1].type = "data" => cmp
  BY <1>1 DEF Before
<1>3. ASSUME q[1].type # "snapshot", NEW i \in DOMAIN Tail(q), Tail(q)[i].type = "data", ~cmp
      PROVE  Before(Tail(q), {"snapshot"}, i)
  <2>1. i \in Nat /\ i + 1 \in DOMAIN q /\ q[i + 1].type = "data"
    BY <1>1, <1>3
  <2>2. PICK j \in 1 .. (i + 1) - 1 : q[j].type \in {"snapshot"}
    BY <2>1, <1>3 DEF Before
  <2>3. j - 1 \in 1 .. i - 1 /\ j - 1 \in DOMAIN Tail(q) /\ Tail(q)[j - 1] = q[j]
    BY <1>1, <1>3, <2>1, <2>2
  <2> QED
    BY <2>2, <2>3 DEF Before
<1> QED
  BY <1>2, <1>3

-----------------------------------------------------------------------------
(***************************************************************************)
(* The phone reads a message.                                              *)
(***************************************************************************)
\* What the first message, once read, makes of the connection.
WireAfterRead(con, lis, un, cmp, ls, s, q) ==
    /\ q[1].type = "ack" => Wire(con, lis, un, cmp, ls, s, Tail(q))
    /\ q[1].type = "snapshot" => Wire(con, lis, un, TRUE, ls, s, Tail(q))
    /\ q[1].type = "data" => cmp /\ Wire(con, lis, un, cmp, ls, s, Tail(q))
    /\ q[1].type = "listenOk" => un = 1 /\ Wire(con, lis, 0, cmp, ls, s, Tail(q))
    /\ q[1].type = "denied" => un = 1 /\ Wire(con, FALSE, 0, FALSE, ls, s, Tail(q))
    /\ q[1].type = "revoked" => un = 0 /\ Wire(con, FALSE, un, FALSE, ls, s, Tail(q))

LEMMA WireRead ==
    ASSUME NEW con, NEW lis, NEW un \in 0 .. 1, NEW cmp,
           NEW ls \in {"none", "asked", "on"}, NEW s, NEW q \in Seq(ToClient), q # <<>>,
           Wire(con, lis, un, cmp, ls, s, q)
    PROVE  WireAfterRead(con, lis, un, cmp, ls, s, q)
<1> USE DEF WireAfterRead
<1> DEFINE t == Tail(q)
<1> DEFINE DataOk(c, u) == \A i \in DOMAIN u : u[i].type = "data" => c \/ Before(u, {"snapshot"}, i)
<1>1. /\ con /\ ~Asking(s) /\ InTurn(q) /\ DataOk(cmp, q)
  BY DEF Wire
<1>2. /\ Has(q, Stops) <=> q[1].type \in Stops \/ Has(t, Stops)
      /\ Has(q, Answers) <=> q[1].type \in Answers \/ Has(t, Answers)
      /\ Has(q, {"snapshot"}) <=> q[1].type \in {"snapshot"} \/ Has(t, {"snapshot"})
      /\ Has(q, {"listenOk"}) <=> q[1].type \in {"listenOk"} \/ Has(t, {"listenOk"})
      /\ Only(q, {"ack"}) => Only(t, {"ack"})
  BY HasTail
<1>3. InTurn(t)
  BY <1>1, InTurnTail
<1>4. /\ q[1].type \in Stops => Only(t, {"ack"})
      /\ q[1].type # "ack" => ~Has(t, {"snapshot", "denied"})
      /\ q[1].type \in {"listenOk", "data"} => ~Has(t, Answers)
  BY <1>1, HeadSettles
<1>5. /\ q[1].type = "data" => cmp
      /\ q[1].type # "snapshot" => DataOk(cmp, t)
  BY <1>1, DataTail
<1>6. DataOk(TRUE, t)
  OBVIOUS
<1>7. Only(t, {"ack"}) => ~Has(t, Stops) /\ ~Has(t, Answers) /\ ~Has(t, {"snapshot"}) /\ DataOk(FALSE, t)
  BY DEF Only, Has, Stops, Answers
<1>8. 1 \in DOMAIN q /\ (Only(q, {"ack"}) => q[1].type = "ack")
  BY TailOf DEF Only
<1>9. ~Has(t, {"snapshot", "denied"}) => ~Has(t, {"snapshot"})
  BY DEF Has
<1>10. q[1].type = "snapshot" => (Has(q, {"listenOk"}) => Has(t, {"listenOk"}))
  BY <1>2
<1> HIDE DEF t, DataOk
<1>11. CASE q[1].type = "ack"
  BY <1>1, <1>2, <1>3, <1>5, <1>8, <1>11 DEF Wire, Stops, Answers, DataOk, t
<1>12. CASE q[1].type = "snapshot"
  BY <1>1, <1>2, <1>3, <1>4, <1>6, <1>8, <1>9, <1>12 DEF Wire, Stops, Answers, DataOk, t
<1>13. CASE q[1].type = "data"
  BY <1>1, <1>2, <1>3, <1>4, <1>5, <1>8, <1>9, <1>13 DEF Wire, Stops, Answers, DataOk, t
<1>14. CASE q[1].type = "listenOk"
  BY <1>1, <1>2, <1>3, <1>4, <1>5, <1>8, <1>9, <1>14 DEF Wire, Stops, Answers, DataOk, t
<1>15. CASE q[1].type = "denied"
  <2>1. un = 1 /\ lis /\ ls = "none"
    BY <1>1, <1>2, <1>8, <1>15 DEF Wire, Answers, Stops
  <2> QED
    BY <1>1, <1>2, <1>3, <1>4, <1>7, <2>1, <1>15 DEF Wire, DataOk, t, Stops
<1>16. CASE q[1].type = "revoked"
  <2>1. Only(t, {"ack"})
    BY <1>4, <1>16 DEF Stops
  <2>2. ls = "none" /\ un = 0
    BY <1>1, <1>2, <1>7, <1>8, <2>1, <1>16 DEF Wire, Answers, Stops
  <2> QED
    BY <1>1, <1>2, <1>3, <1>7, <2>1, <2>2, <1>16 DEF Wire, DataOk, t
<1> QED
  BY <1>11, <1>12, <1>13, <1>14, <1>15, <1>16 DEF t

-----------------------------------------------------------------------------
(***************************************************************************)
(* The server sends a message.                                             *)
(***************************************************************************)
LEMMA HasAppend ==
    ASSUME NEW q \in Seq(ToClient), NEW m \in ToClient, NEW types
    PROVE  /\ Has(Append(q, m), types) <=> Has(q, types) \/ m.type \in types
           /\ Only(Append(q, m), types) <=> Only(q, types) /\ m.type \in types
<1>1. /\ Append(q, m) \in Seq(ToClient) /\ Len(q) \in Nat
      /\ DOMAIN q = 1 .. Len(q) /\ DOMAIN Append(q, m) = 1 .. Len(q) + 1
      /\ \A i \in DOMAIN q : Append(q, m)[i] = q[i]
      /\ Append(q, m)[Len(q) + 1] = m
  BY AppendOf
<1>2. DOMAIN Append(q, m) = DOMAIN q \cup {Len(q) + 1}
  BY <1>1
<1> QED
  BY <1>1, <1>2 DEF Has, Only

LEMMA InTurnAppend ==
    ASSUME NEW q \in Seq(ToClient), NEW m \in ToClient, InTurn(q),
           m.type = "ack" \/ \A i \in DOMAIN q : q[i].type = "ack" \/ <<q[i].type, m.type>> \in Follows
    PROVE  InTurn(Append(q, m))
<1>1. /\ Append(q, m) \in Seq(ToClient) /\ Len(q) \in Nat
      /\ DOMAIN q = 1 .. Len(q) /\ DOMAIN Append(q, m) = 1 .. Len(q) + 1
      /\ \A i \in DOMAIN q : Append(q, m)[i] = q[i]
      /\ Append(q, m)[Len(q) + 1] = m
  BY AppendOf
<1>2. \A i, j \in DOMAIN Append(q, m) : i < j => i \in DOMAIN q /\ (j \in DOMAIN q \/ j = Len(q) + 1)
  BY <1>1
<1> HIDE DEF Follows
<1> QED
  BY <1>1, <1>2 DEF InTurn

LEMMA DataAppend ==
    ASSUME NEW q \in Seq(ToClient), NEW m \in ToClient, NEW cmp,
           \A i \in DOMAIN q : q[i].type = "data" => cmp \/ Before(q, {"snapshot"}, i),
           m.type = "data" => cmp \/ Has(q, {"snapshot"})
    PROVE  \A i \in DOMAIN Append(q, m) :
             Append(q, m)[i].type = "data" => cmp \/ Before(Append(q, m), {"snapshot"}, i)
<1>1. /\ Append(q, m) \in Seq(ToClient) /\ Len(q) \in Nat
      /\ DOMAIN q = 1 .. Len(q) /\ DOMAIN Append(q, m) = 1 .. Len(q) + 1
      /\ \A i \in DOMAIN q : Append(q, m)[i] = q[i]
      /\ Append(q, m)[Len(q) + 1] = m
  BY AppendOf
<1> SUFFICES ASSUME NEW i \in DOMAIN Append(q, m), Append(q, m)[i].type = "data", ~cmp
             PROVE  Before(Append(q, m), {"snapshot"}, i)
  OBVIOUS
<1>2. CASE i \in DOMAIN q
  <2>1. PICK j \in 1 .. i - 1 : q[j].type \in {"snapshot"}
    BY <1>1, <1>2 DEF Before
  <2>2. j \in DOMAIN q
    BY <1>1, <1>2
  <2> QED
    BY <1>1, <2>1, <2>2 DEF Before
<1>3. CASE i = Len(q) + 1
  <2>1. PICK j \in DOMAIN q : q[j].type \in {"snapshot"}
    BY <1>1, <1>3 DEF Has
  <2>2. j \in 1 .. i - 1
    BY <1>1, <1>3
  <2> QED
    BY <1>1, <2>1, <2>2 DEF Before
<1> QED
  BY <1>1, <1>2, <1>3

\* What the message m, once sent, makes of it.
WireAfterSend(con, lis, un, cmp, ls, s, q, m) ==
    /\ m.type = "ack" /\ con /\ ~Asking(s) => Wire(con, lis, un, cmp, ls, s, Append(q, m))
    /\ m.type = "data" /\ ls = "on" => Wire(con, lis, un, cmp, ls, s, Append(q, m))
    /\ m.type = "denied" /\ ls = "asked" => Wire(con, lis, un, cmp, "none", s, Append(q, m))
    /\ m.type = "revoked" /\ ls = "on" => Wire(con, lis, un, cmp, "none", s, Append(q, m))

LEMMA WireSend ==
    ASSUME NEW con, NEW lis, NEW un \in 0 .. 1, NEW cmp,
           NEW ls \in {"none", "asked", "on"}, NEW s, NEW q \in Seq(ToClient), NEW m \in ToClient,
           Wire(con, lis, un, cmp, ls, s, q)
    PROVE  WireAfterSend(con, lis, un, cmp, ls, s, q, m)
<1> USE DEF WireAfterSend
<1> DEFINE t == Append(q, m)
<1> DEFINE DataOk(c, u) == \A i \in DOMAIN u : u[i].type = "data" => c \/ Before(u, {"snapshot"}, i)
<1>1. InTurn(q) /\ DataOk(cmp, q)
  BY DEF Wire
<1>2. /\ Has(t, Stops) <=> Has(q, Stops) \/ m.type \in Stops
      /\ Has(t, Answers) <=> Has(q, Answers) \/ m.type \in Answers
      /\ Has(t, {"snapshot"}) <=> Has(q, {"snapshot"}) \/ m.type \in {"snapshot"}
      /\ Has(t, {"listenOk"}) <=> Has(q, {"listenOk"}) \/ m.type \in {"listenOk"}
      /\ Only(t, {"ack"}) <=> Only(q, {"ack"}) /\ m.type \in {"ack"}
  BY HasAppend
<1>3. (m.type = "data" => cmp \/ Has(q, {"snapshot"})) => DataOk(cmp, t)
  BY <1>1, DataAppend
<1>4. m.type = "ack" => InTurn(t)
  BY <1>1, InTurnAppend
<1>5. Only(q, {"ack"}) => InTurn(t)
  BY <1>1, InTurnAppend DEF Only
<1>6. ASSUME ~Has(q, Stops), m.type \in {"data", "revoked"} PROVE InTurn(t)
  <2>1. ASSUME NEW i \in DOMAIN q PROVE q[i].type = "ack" \/ <<q[i].type, m.type>> \in Follows
    <3>1. q[i] \in ToClient
      BY TailOf, ElementOfSeq, LenProperties
    <3>2. q[i].type \in {"snapshot", "data", "ack", "listenOk"}
      BY <1>6, <3>1, MessageFields DEF Has, Stops
    <3> QED
      BY <3>2, <1>6 DEF Follows
  <2> QED
    BY <1>1, <2>1, InTurnAppend
<1> HIDE DEF t, DataOk
<1>11. CASE m.type = "ack" /\ con /\ ~Asking(s)
  BY <1>1, <1>2, <1>3, <1>4, <1>11 DEF Wire, Stops, Answers, DataOk, t
<1>12. CASE m.type = "data" /\ ls = "on"
  BY <1>1, <1>2, <1>3, <1>6, <1>12 DEF Wire, Stops, Answers, DataOk, t
<1>13. CASE m.type = "denied" /\ ls = "asked"
  BY <1>1, <1>2, <1>3, <1>5, <1>13 DEF Wire, Stops, Answers, DataOk, t
<1>14. CASE m.type = "revoked" /\ ls = "on"
  BY <1>1, <1>2, <1>3, <1>6, <1>14 DEF Wire, Stops, Answers, DataOk, t
<1> QED
  BY <1>11, <1>12, <1>13, <1>14 DEF t

\* The listen is accepted.
LEMMA WireAccept ==
    ASSUME NEW con, NEW lis, NEW un \in 0 .. 1, NEW cmp,
           NEW s, NEW q \in Seq(ToClient), NEW S \in SUBSET Key,
           Wire(con, lis, un, cmp, "asked", s, q)
    PROVE  Wire(con, lis, un, cmp, "on", s, q \o <<Snapshot(S), ListenOk>>)
<1> DEFINE t == Append(q, Snapshot(S))
           u == Append(t, ListenOk)
<1> DEFINE DataOk(c, w) == \A i \in DOMAIN w : w[i].type = "data" => c \/ Before(w, {"snapshot"}, i)
<1>1. Snapshot(S) \in ToClient /\ Snapshot(S).type = "snapshot" /\ ListenOk \in ToClient /\ ListenOk.type = "listenOk"
  BY DEF ToClient, Snapshot, ListenOk
<1>2. t \in Seq(ToClient)
  BY <1>1, AppendOf
<1>3. q \o <<Snapshot(S), ListenOk>> = u
  BY <1>1
<1>4. InTurn(q) /\ DataOk(cmp, q) /\ Only(q, {"ack"}) /\ lis /\ un = 1 /\ con /\ ~Asking(s)
  BY DEF Wire
<1>5. /\ Has(t, Stops) <=> Has(q, Stops)
      /\ Has(t, {"snapshot"})
  BY <1>1, HasAppend DEF Stops
<1>6. /\ Has(u, Stops) <=> Has(t, Stops)
      /\ Has(t, {"snapshot"}) => Has(u, {"snapshot"})
      /\ Has(u, {"listenOk"}) /\ Has(u, Answers)
  BY <1>1, <1>2, HasAppend DEF Stops, Answers
<1>7. ~Has(q, Stops)
  BY <1>4 DEF Has, Only, Stops
<1>8. InTurn(t) /\ DataOk(cmp, t)
  BY <1>1, <1>4, InTurnAppend, DataAppend DEF Only
<1>9. ASSUME NEW i \in DOMAIN t PROVE t[i].type = "ack" \/ <<t[i].type, "listenOk">> \in Follows
  <2>1. (i \in DOMAIN q /\ t[i] = q[i]) \/ t[i] = Snapshot(S)
    BY <1>1, AppendOf
  <2> QED
    BY <1>1, <1>4, <2>1 DEF Only, Follows
<1>10. InTurn(u) /\ DataOk(cmp, u)
  BY <1>1, <1>2, <1>8, <1>9, InTurnAppend, DataAppend
<1> HIDE DEF t, u, DataOk
<1> QED
  BY <1>3, <1>4, <1>5, <1>6, <1>7, <1>10 DEF Wire, DataOk

\* What is on the connection to the server counts only as far as it is the listen.
LEMMA WireServer ==
    ASSUME NEW con, NEW lis, NEW un \in 0 .. 1, NEW cmp,
           NEW ls \in {"none", "asked", "on"}, NEW s, NEW q \in Seq(ToClient), NEW t, con,
           Wire(con, lis, un, cmp, ls, s, q), Asking(s) <=> Asking(t)
    PROVE  Wire(con, lis, un, cmp, ls, t, q)
BY DEF Wire

LEMMA WireAsked ==
    ASSUME NEW con, NEW lis, NEW un \in 0 .. 1, NEW cmp,
           NEW ls \in {"none", "asked", "on"}, NEW s, NEW q \in Seq(ToClient), NEW t, con,
           Wire(con, lis, un, cmp, ls, s, q), Asking(s), ~Asking(t)
    PROVE  Wire(con, lis, un, cmp, "asked", t, q)
<1>1. q = <<>> => Only(q, {"ack"}) /\ ~Has(q, Answers)
  BY DEF Only, Has
<1> QED
  BY <1>1 DEF Wire

\* A new connection, and a broken one.
LEMMA WireConnect ==
    ASSUME NEW lis, NEW un \in 0 .. 1, NEW cmp,
           NEW ls \in {"none", "asked", "on"}, NEW s, NEW q \in Seq(ToClient), NEW t,
           Wire(FALSE, lis, un, cmp, ls, s, q), Asking(t) <=> lis
    PROVE  Wire(TRUE, lis, IF lis THEN un + 1 ELSE un, cmp, ls, t, q)
BY DEF Wire

LEMMA WireBreak ==
    ASSUME NEW con, NEW lis, NEW un \in 0 .. 1, NEW cmp, NEW ls, NEW s, NEW q,
           Wire(con, lis, un, cmp, ls, s, q)
    PROVE  Wire(FALSE, lis, 0, cmp, "none", <<>>, <<>>)
<1>1. ~Asking(<<>>) /\ \A types : ~Has(<<>>, types) /\ Only(<<>>, types)
  BY DEF Asking, Has, Only
<1>2. InTurn(<<>>) /\ \A i \in DOMAIN <<>> : FALSE
  BY DEF InTurn
<1> QED
  BY <1>1, <1>2 DEF Wire

LEMMA WireNone == Wire(FALSE, FALSE, 0, FALSE, "none", <<>>, <<>>)
<1>1. ~Asking(<<>>) /\ \A types : ~Has(<<>>, types) /\ Only(<<>>, types)
  BY DEF Asking, Has, Only
<1>2. InTurn(<<>>) /\ \A i \in DOMAIN <<>> : FALSE
  BY DEF InTurn
<1> QED
  BY <1>1, <1>2 DEF Wire

LEMMA WireObserve ==
    ASSUME NEW con, NEW lis, NEW un, NEW cmp, NEW ls, NEW s, NEW q,
           Wire(con, lis, un, cmp, ls, s, q), ~con
    PROVE  Wire(con, TRUE, un, cmp, ls, s, q)
BY DEF Wire, Has, Asking

-----------------------------------------------------------------------------
(***************************************************************************)
(* What the phone knows when it has read a message.                        *)
(***************************************************************************)
LEMMA KnowsTail ==
    ASSUME NEW q \in Seq(ToClient), q # <<>>, NEW c, NEW b, NEW k, NEW i \in Nat,
           k \in c => k \in b, Brings(q[1], k) => k \in b,
           i <= Len(q), Knows(c, q, k, i + 1)
    PROVE  Knows(b, Tail(q), k, i)
<1>1. /\ Len(q) \in Nat \ {0} /\ DOMAIN Tail(q) = 1 .. Len(q) - 1
      /\ \A j \in DOMAIN Tail(q) : Tail(q)[j] = q[j + 1]
  BY TailOf
<1>2. CASE k \in c
  BY <1>2 DEF Knows
<1>3. ASSUME NEW j \in 1 .. (i + 1) - 1, Brings(q[j], k) PROVE Knows(b, Tail(q), k, i)
  <2>1. CASE j = 1
    BY <1>3, <2>1 DEF Knows
  <2>2. CASE j # 1
    <3>1. j - 1 \in 1 .. i - 1 /\ j - 1 \in DOMAIN Tail(q) /\ Tail(q)[j - 1] = q[j]
      BY <1>1, <1>3, <2>2
    <3> QED
      BY <1>3, <3>1 DEF Knows
  <2> QED
    BY <2>1, <2>2
<1> QED
  BY <1>2, <1>3 DEF Knows

LEMMA BeforeTail ==
    ASSUME NEW q \in Seq(ToClient), q # <<>>, NEW types, NEW i \in Nat, i <= Len(q)
    PROVE  Before(q, types, i + 1) => q[1].type \in types \/ Before(Tail(q), types, i)
<1>1. /\ Len(q) \in Nat \ {0} /\ DOMAIN Tail(q) = 1 .. Len(q) - 1
      /\ \A j \in DOMAIN Tail(q) : Tail(q)[j] = q[j + 1]
  BY TailOf
<1>3. ASSUME NEW j \in 1 .. (i + 1) - 1, q[j].type \in types, j # 1 PROVE Before(Tail(q), types, i)
  <2>1. j - 1 \in 1 .. i - 1 /\ j - 1 \in DOMAIN Tail(q) /\ Tail(q)[j - 1] = q[j]
    BY <1>1, <1>3
  <2> QED
    BY <1>3, <2>1 DEF Before
<1> QED
  BY <1>3 DEF Before

LEMMA BeforeOfTail ==
    ASSUME NEW q \in Seq(ToClient), q # <<>>, NEW types, NEW i \in Nat, i <= Len(q)
    PROVE  i > 0 /\ (q[1].type \in types \/ Before(Tail(q), types, i)) => Before(q, types, i + 1)
<1>1. /\ Len(q) \in Nat \ {0} /\ DOMAIN Tail(q) = 1 .. Len(q) - 1
      /\ \A j \in DOMAIN Tail(q) : Tail(q)[j] = q[j + 1]
  BY TailOf
<1>2. ASSUME i > 0, q[1].type \in types PROVE Before(q, types, i + 1)
  <2>1. 1 \in 1 .. (i + 1) - 1
    BY <1>2
  <2> QED
    BY <1>2, <2>1 DEF Before
<1>3. ASSUME NEW j \in 1 .. i - 1, Tail(q)[j].type \in types PROVE Before(q, types, i + 1)
  <2>1. j + 1 \in 1 .. (i + 1) - 1 /\ j \in DOMAIN Tail(q) /\ Tail(q)[j] = q[j + 1]
    BY <1>1
  <2> QED
    BY <1>3, <2>1 DEF Before
<1> QED
  BY <1>2, <1>3 DEF Before

\* The cache becomes b, which has what the message brought; l and g are the
\* new listening and putsToAck.
LEMMA ContentTail ==
    ASSUME NEW lis, NEW un \in 0 .. 1, NEW ls, NEW c, NEW h, NEW q \in Seq(ToClient), q # <<>>,
           NEW d, NEW r, NEW b, NEW g, NEW v \in 0 .. 1,
           Content(lis, un, ls, c, h, q, d, r),
           c \subseteq b, b \subseteq d, \A k : Brings(q[1], k) => k \in b,
           b = c \/ ~Has(Tail(q), {"snapshot"}),
           g \subseteq h \cup (IF q[1].type = "ack" THEN {q[1].key} ELSE {}),
           v # un => q[1].type = "listenOk",
           q[1].type \notin Stops
    PROVE  Content(lis, v, ls, b, g, Tail(q), d, r)
<1> DEFINE t == Tail(q)
<1>1. /\ t \in Seq(ToClient) /\ Len(q) \in Nat \ {0} /\ DOMAIN q = 1 .. Len(q)
      /\ DOMAIN t = 1 .. Len(q) - 1 /\ Len(t) = Len(q) - 1
      /\ \A i \in DOMAIN t : t[i] = q[i + 1]
  BY TailOf
<1>2. \A i \in DOMAIN t : i \in Nat /\ i > 0 /\ i <= Len(q) /\ i + 1 \in DOMAIN q /\ t[i] = q[i + 1]
  BY <1>1
<1>3. ASSUME NEW k, NEW i \in 0 .. Len(q), Knows(c, q, k, i + 1) PROVE Knows(b, t, k, i)
  <2>1. i \in Nat /\ i <= Len(q) /\ (k \in c => k \in b) /\ (Brings(q[1], k) => k \in b)
    BY <1>1
  <2> QED
    BY <2>1, <1>3, KnowsTail
<1> HIDE DEF t
<1>4. Truthful(b, g, t, d, r)
  <2>1. 1 \in DOMAIN q
    BY <1>1
  <2> QED
    BY <1>2, <2>1 DEF Content, Truthful
<1>5. Keeps(b, t)
  BY <1>2 DEF Content, Keeps, Has, t
<1>6. Caught(b, g, t, r)
  <2> SUFFICES ASSUME NEW m \in DOMAIN t, t[m].type = "listenOk"
               PROVE  /\ \A k \in g : k \in r \/ Knows(b, t, k, m)
                      /\ \A i \in 1 .. m - 1 : t[i].type = "ack" => t[i].key \in r \/ Knows(b, t, t[i].key, m)
    BY DEF Caught
  <2>1. m \in 0 .. Len(q) /\ m + 1 \in DOMAIN q /\ q[m + 1].type = "listenOk"
    BY <1>1, <1>2
  <2>2. \A k \in h : k \in r \/ Knows(c, q, k, m + 1)
    BY <2>1 DEF Content, Caught
  <2>3. \A i \in 1 .. (m + 1) - 1 : q[i].type = "ack" => q[i].key \in r \/ Knows(c, q, q[i].key, m + 1)
    BY <2>1 DEF Content, Caught
  <2>4. 1 \in 1 .. (m + 1) - 1 /\ \A i \in 1 .. m - 1 : i + 1 \in 1 .. (m + 1) - 1 /\ i \in DOMAIN t
    BY <1>1
  <2>5. \A k \in g : k \in r \/ Knows(c, q, k, m + 1)
    BY <2>2, <2>3, <2>4
  <2>6. \A i \in 1 .. m - 1 : t[i].type = "ack" => t[i].key \in r \/ Knows(c, q, t[i].key, m + 1)
    BY <1>2, <2>3, <2>4
  <2> QED
    BY <2>1, <2>5, <2>6, <1>3
<1>7. Safe(lis, v, b, t, r)
  <2> SUFFICES ASSUME NEW i \in DOMAIN t, t[i].type = "ack", lis,
                      v = 0 \/ Before(t, {"listenOk"}, i), ~Before(t, Stops, i)
               PROVE  t[i].key \in r \/ Knows(b, t, t[i].key, i)
    BY DEF Safe
  <2>1. i \in 0 .. Len(q) /\ i + 1 \in DOMAIN q /\ q[i + 1] = t[i]
    BY <1>1, <1>2
  <2>2. un = 0 \/ Before(q, {"listenOk"}, i + 1)
    BY <1>2, BeforeOfTail DEF t
  <2>3. ~Before(q, Stops, i + 1)
    BY <1>2, BeforeTail DEF t
  <2>4. q[i + 1].key \in r \/ Knows(c, q, q[i + 1].key, i + 1)
    BY <2>1, <2>2, <2>3 DEF Content, Safe
  <2> QED
    BY <2>1, <2>4, <1>3
<1>8. Informed(ls, b, t, d)
  <2>1. Len(t) + 1 \in 0 .. Len(q) /\ (Len(t) + 1) + 1 = Len(q) + 1
    BY <1>1
  <2> QED
    BY <1>3, <2>1 DEF Content, Informed
<1> QED
  BY <1>4, <1>5, <1>6, <1>7, <1>8 DEF Content, t

LEMMA ContentStop ==
    ASSUME NEW lis, NEW un \in 0 .. 1, NEW ls, NEW c, NEW h, NEW q \in Seq(ToClient), q # <<>>,
           NEW d, NEW r, NEW g, NEW v,
           Content(lis, un, ls, c, h, q, d, r), g \subseteq h, ls # "on", Only(Tail(q), {"ack"})
    PROVE  Content(FALSE, v, ls, {}, g, Tail(q), d, r)
<1> DEFINE t == Tail(q)
<1>1. /\ t \in Seq(ToClient) /\ Len(q) \in Nat \ {0} /\ DOMAIN q = 1 .. Len(q)
      /\ DOMAIN t = 1 .. Len(q) - 1
      /\ \A i \in DOMAIN t : t[i] = q[i + 1]
  BY TailOf
<1>2. \A i \in DOMAIN t : i + 1 \in DOMAIN q /\ t[i] = q[i + 1] /\ t[i].type = "ack"
  BY <1>1 DEF Only
<1> HIDE DEF t
<1> QED
  BY <1>2 DEF Content, Truthful, Keeps, Caught, Safe, Informed, t

\* What the first message, once read, makes of it.
ContentAfterRead(lis, un, ls, c, h, q, d, r) ==
    /\ q[1].type = "ack" =>
         /\ Content(lis, un, ls, c, h, Tail(q), d, r)
         /\ Content(lis, un, ls, c, h \cup {q[1].key}, Tail(q), d, r)
         /\ q[1].key \in d \cup r
         /\ lis /\ un = 0 => q[1].key \in r \cup c
    /\ q[1].type = "snapshot" =>
         /\ Content(lis, un, ls, q[1].keys, h, Tail(q), d, r)
         /\ c \subseteq q[1].keys /\ q[1].keys \subseteq d
    /\ q[1].type = "data" =>
         Content(lis, un, ls, c \cup {q[1].key}, h, Tail(q), d, r) /\ q[1].key \in d
    /\ q[1].type = "listenOk" =>
         /\ Content(lis, 0, ls, c, {}, Tail(q), d, r) /\ Content(lis, 0, ls, c, h, Tail(q), d, r)
         /\ h \subseteq r \cup c
    /\ q[1].type = "denied" =>
         Content(FALSE, 0, ls, {}, {}, Tail(q), d, r) /\ Content(FALSE, 0, ls, {}, h, Tail(q), d, r)
    /\ q[1].type = "revoked" => Content(FALSE, un, ls, {}, h, Tail(q), d, r)

LEMMA ContentRead ==
    ASSUME NEW con, NEW lis, NEW un \in 0 .. 1, NEW cmp,
           NEW ls \in {"none", "asked", "on"}, NEW s, NEW q \in Seq(ToClient), q # <<>>,
           NEW c, NEW h, NEW d, NEW r,
           Wire(con, lis, un, cmp, ls, s, q), Content(lis, un, ls, c, h, q, d, r)
    PROVE  ContentAfterRead(lis, un, ls, c, h, q, d, r)
<1> USE DEF ContentAfterRead
<1>1. 1 \in DOMAIN q /\ q[1] \in ToClient /\ c \subseteq d
  BY TailOf DEF Content, Truthful
<1>2. /\ q[1].type = "snapshot" => c \subseteq q[1].keys /\ q[1].keys \subseteq d
      /\ q[1].type = "data" => q[1].key \in d
      /\ q[1].type = "ack" => q[1].key \in d \cup r
  BY <1>1 DEF Content, Truthful, Keeps
<1>3. \A k : ~Knows(c, q, k, 1) \/ k \in c
  BY DEF Knows
<1>4. /\ q[1].type \in Stops => Only(Tail(q), {"ack"})
      /\ q[1].type # "ack" => ~Has(Tail(q), {"snapshot", "denied"})
  BY HeadSettles DEF Wire
<1>5. ~Has(Tail(q), {"snapshot", "denied"}) => ~Has(Tail(q), {"snapshot"})
  BY DEF Has
<1>6. ASSUME q[1].type = "ack"
      PROVE  /\ Content(lis, un, ls, c, h, Tail(q), d, r)
             /\ Content(lis, un, ls, c, h \cup {q[1].key}, Tail(q), d, r)
             /\ lis /\ un = 0 => q[1].key \in r \cup c
  <2>1. \A k : ~Brings(q[1], k)
    BY <1>6 DEF Brings
  <2>2. q[1].type \notin Stops
    BY <1>6 DEF Stops
  <2>3. Content(lis, un, ls, c, h, Tail(q), d, r)
    BY <1>1, <1>6, <2>1, <2>2, ContentTail
  <2>4. Content(lis, un, ls, c, h \cup {q[1].key}, Tail(q), d, r)
    BY <1>1, <1>6, <2>1, <2>2, ContentTail
  <2>5. lis /\ un = 0 => q[1].key \in r \cup c
    <3>1. ~Before(q, Stops, 1)
      BY DEF Before
    <3> QED
      BY <1>1, <1>3, <1>6, <3>1 DEF Content, Safe
  <2> QED
    BY <2>3, <2>4, <2>5
<1>7. ASSUME q[1].type = "snapshot" PROVE Content(lis, un, ls, q[1].keys, h, Tail(q), d, r)
  <2>1. \A k : Brings(q[1], k) => k \in q[1].keys
    BY <1>7 DEF Brings
  <2>2. q[1].type \notin Stops
    BY <1>7 DEF Stops
  <2>3. ~Has(Tail(q), {"snapshot"})
    BY <1>4, <1>5, <1>7
  <2> QED
    BY <1>1, <1>2, <1>7, <2>1, <2>2, <2>3, ContentTail
<1>8. ASSUME q[1].type = "data" PROVE Content(lis, un, ls, c \cup {q[1].key}, h, Tail(q), d, r)
  <2>1. \A k : Brings(q[1], k) => k \in c \cup {q[1].key}
    BY <1>8 DEF Brings
  <2>2. q[1].type \notin Stops
    BY <1>8 DEF Stops
  <2>3. ~Has(Tail(q), {"snapshot"})
    BY <1>4, <1>5, <1>8
  <2>4. c \cup {q[1].key} \subseteq d
    BY <1>1, <1>2, <1>8
  <2> QED
    BY <1>1, <1>8, <2>1, <2>2, <2>3, <2>4, ContentTail
<1>9. ASSUME q[1].type = "listenOk"
      PROVE  /\ Content(lis, 0, ls, c, {}, Tail(q), d, r) /\ Content(lis, 0, ls, c, h, Tail(q), d, r)
             /\ h \subseteq r \cup c
  <2>1. \A k : ~Brings(q[1], k)
    BY <1>9 DEF Brings
  <2>2. q[1].type \notin Stops
    BY <1>9 DEF Stops
  <2>3. Content(lis, 0, ls, c, {}, Tail(q), d, r)
    <3>1. 0 \in 0 .. 1 /\ {} \subseteq h \cup (IF q[1].type = "ack" THEN {q[1].key} ELSE {})
      OBVIOUS
    <3> QED
      BY <1>1, <1>9, <2>1, <2>2, <3>1, ContentTail
  <2>4. Content(lis, 0, ls, c, h, Tail(q), d, r)
    <3>1. 0 \in 0 .. 1 /\ h \subseteq h \cup (IF q[1].type = "ack" THEN {q[1].key} ELSE {})
      OBVIOUS
    <3> QED
      BY <1>1, <1>9, <2>1, <2>2, <3>1, ContentTail
  <2>5. h \subseteq r \cup c
    BY <1>1, <1>3, <1>9 DEF Content, Caught
  <2> QED
    BY <2>3, <2>4, <2>5
<1>10. ASSUME q[1].type \in Stops
       PROVE  /\ Content(FALSE, 0, ls, {}, {}, Tail(q), d, r) /\ Content(FALSE, 0, ls, {}, h, Tail(q), d, r)
              /\ Content(FALSE, un, ls, {}, h, Tail(q), d, r)
  <2>1. Has(q, Stops)
    BY <1>1, <1>10 DEF Has
  <2>2. ls # "on"
    BY <2>1 DEF Wire
  <2> QED
    BY <1>4, <1>10, <2>2, ContentStop
<1> QED
  BY <1>2, <1>6, <1>7, <1>8, <1>9, <1>10 DEF Stops

-----------------------------------------------------------------------------
(***************************************************************************)
(* What the phone will know when the server has sent a message.            *)
(***************************************************************************)
LEMMA KnowsAppend ==
    ASSUME NEW q \in Seq(ToClient), NEW m \in ToClient, NEW c, NEW k, NEW types
    PROVE  /\ \A i \in 1 .. Len(q) + 1 :
                /\ Knows(c, Append(q, m), k, i) <=> Knows(c, q, k, i)
                /\ Before(Append(q, m), types, i) <=> Before(q, types, i)
           /\ Knows(c, q, k, Len(q) + 1) \/ Brings(m, k) => Knows(c, Append(q, m), k, (Len(q) + 1) + 1)
<1>1. /\ Append(q, m) \in Seq(ToClient) /\ Len(q) \in Nat
      /\ DOMAIN q = 1 .. Len(q)
      /\ \A i \in DOMAIN q : Append(q, m)[i] = q[i]
      /\ Append(q, m)[Len(q) + 1] = m
  BY AppendOf
<1>2. \A i \in 1 .. Len(q) + 1 : \A j \in 1 .. i - 1 : Append(q, m)[j] = q[j]
  BY <1>1
<1>3. \A i \in 1 .. Len(q) + 1 :
         /\ Knows(c, Append(q, m), k, i) <=> Knows(c, q, k, i)
         /\ Before(Append(q, m), types, i) <=> Before(q, types, i)
  BY <1>2 DEF Knows, Before
<1>4. ASSUME Brings(m, k) PROVE Knows(c, Append(q, m), k, (Len(q) + 1) + 1)
  <2>1. Len(q) + 1 \in 1 .. ((Len(q) + 1) + 1) - 1
    BY <1>1
  <2> QED
    BY <1>1, <1>4, <2>1 DEF Knows
<1>5. ASSUME Knows(c, q, k, Len(q) + 1) PROVE Knows(c, Append(q, m), k, (Len(q) + 1) + 1)
  <2>1. CASE k \in c
    BY <2>1 DEF Knows
  <2>2. ASSUME NEW j \in 1 .. (Len(q) + 1) - 1, Brings(q[j], k) PROVE Knows(c, Append(q, m), k, (Len(q) + 1) + 1)
    <3>1. j \in 1 .. ((Len(q) + 1) + 1) - 1 /\ Append(q, m)[j] = q[j]
      BY <1>1
    <3> QED
      BY <2>2, <3>1 DEF Knows
  <2> QED
    BY <1>5, <2>1, <2>2 DEF Knows
<1> QED
  BY <1>3, <1>4, <1>5

\* What must hold of the new message m, the last one; e and l are the new db
\* and listener.
Fits(lis, un, ls, c, h, q, m, l, e, r) ==
    /\ m.type = "snapshot" => c \subseteq m.keys /\ m.keys \subseteq e
    /\ m.type = "data" => m.key \in e
    /\ m.type = "ack" => m.key \in e \cup r
    /\ m.type = "listenOk" =>
          /\ \A k \in h : k \in r \/ Knows(c, q, k, Len(q) + 1)
          /\ \A i \in DOMAIN q : q[i].type = "ack" => q[i].key \in r \/ Knows(c, q, q[i].key, Len(q) + 1)
    /\ m.type = "ack" /\ lis /\ (un = 0 \/ Has(q, {"listenOk"})) /\ ~Has(q, Stops) =>
          m.key \in r \/ Knows(c, q, m.key, Len(q) + 1)
    /\ l = "on" => \A k \in e : Knows(c, q, k, Len(q) + 1) \/ Brings(m, k)

LEMMA ContentAppend ==
    ASSUME NEW lis, NEW un \in 0 .. 1, NEW ls, NEW c, NEW h, NEW q \in Seq(ToClient),
           NEW d, NEW r, NEW m \in ToClient, NEW l, NEW e,
           Content(lis, un, ls, c, h, q, d, r), d \subseteq e, Fits(lis, un, ls, c, h, q, m, l, e, r)
    PROVE  Content(lis, un, l, c, h, Append(q, m), e, r)
<1> DEFINE t == Append(q, m)
<1>1. /\ t \in Seq(ToClient) /\ Len(q) \in Nat /\ Len(t) = Len(q) + 1
      /\ DOMAIN q = 1 .. Len(q) /\ DOMAIN t = 1 .. Len(q) + 1
      /\ \A i \in DOMAIN q : t[i] = q[i]
      /\ t[Len(q) + 1] = m
  BY AppendOf
<1>2. ASSUME NEW i \in DOMAIN t
      PROVE  /\ i \in 1 .. Len(q) + 1
             /\ (i \in DOMAIN q /\ t[i] = q[i]) \/ (i = Len(q) + 1 /\ t[i] = m)
  <2>1. i \in 1 .. Len(q) + 1 /\ (i \in 1 .. Len(q) \/ i = Len(q) + 1)
    BY <1>1
  <2> QED
    BY <1>1, <2>1
<1>3. ASSUME NEW k, NEW i \in 1 .. Len(q) + 1 PROVE Knows(c, t, k, i) <=> Knows(c, q, k, i)
  BY KnowsAppend
<1>4. ASSUME NEW types, NEW i \in 1 .. Len(q) + 1 PROVE Before(t, types, i) <=> Before(q, types, i)
  BY KnowsAppend
<1>5. ASSUME NEW k, Knows(c, q, k, Len(q) + 1) \/ Brings(m, k) PROVE Knows(c, t, k, Len(t) + 1)
  BY <1>1, <1>5, KnowsAppend
<1>6. ASSUME NEW types PROVE Before(q, types, Len(q) + 1) <=> Has(q, types)
  BY <1>1 DEF Before, Has
<1> HIDE DEF t
<1>7. Truthful(c, h, t, e, r)
  BY <1>2 DEF Content, Truthful, Fits
<1>8. Keeps(c, t)
  BY <1>2 DEF Content, Keeps, Fits
<1>9. Caught(c, h, t, r)
  <2> SUFFICES ASSUME NEW n \in DOMAIN t, t[n].type = "listenOk"
               PROVE  /\ \A k \in h : k \in r \/ Knows(c, t, k, n)
                      /\ \A i \in 1 .. n - 1 : t[i].type = "ack" => t[i].key \in r \/ Knows(c, t, t[i].key, n)
    BY DEF Caught
  <2>1. \A i \in 1 .. n - 1 : i \in DOMAIN q /\ t[i] = q[i]
    BY <1>1
  <2>2. CASE n \in DOMAIN q
    BY <1>2, <1>3, <2>1, <2>2 DEF Content, Caught
  <2>3. CASE n = Len(q) + 1
    BY <1>1, <1>2, <1>3, <2>1, <2>3 DEF Fits
  <2> QED
    BY <1>2, <2>2, <2>3
<1>10. Safe(lis, un, c, t, r)
  <2> SUFFICES ASSUME NEW i \in DOMAIN t, t[i].type = "ack", lis,
                      un = 0 \/ Before(t, {"listenOk"}, i), ~Before(t, Stops, i)
               PROVE  t[i].key \in r \/ Knows(c, t, t[i].key, i)
    BY DEF Safe
  <2>1. (un = 0 \/ Before(q, {"listenOk"}, i)) /\ ~Before(q, Stops, i)
    BY <1>2, <1>4
  <2>2. CASE i \in DOMAIN q
    BY <1>2, <1>3, <2>1, <2>2 DEF Content, Safe
  <2>3. CASE i = Len(q) + 1
    BY <1>1, <1>2, <1>3, <1>6, <2>1, <2>3 DEF Fits
  <2> QED
    BY <1>2, <2>2, <2>3
<1>11. Informed(l, c, t, e)
  BY <1>5 DEF Informed, Fits
<1> QED
  BY <1>7, <1>8, <1>9, <1>10, <1>11 DEF Content, t

\* What a message, once sent, makes of it.
ContentAfterSend(con, lis, un, ls, s, c, h, q, d, r, k) ==
    /\ k \in d \cup r /\ con /\ ~Asking(s) => Content(lis, un, ls, c, h, Append(q, Ack(k)), d, r)
    /\ ls = "on" => Content(lis, un, ls, c, h, Append(q, Data(k)), d \cup {k}, r)

LEMMA ContentSend ==
    ASSUME NEW con, NEW lis, NEW un \in 0 .. 1, NEW cmp,
           NEW ls \in {"none", "asked", "on"}, NEW s, NEW q \in Seq(ToClient),
           NEW c, NEW h, NEW d, NEW r, NEW k \in Key,
           Wire(con, lis, un, cmp, ls, s, q), Content(lis, un, ls, c, h, q, d, r)
    PROVE  ContentAfterSend(con, lis, un, ls, s, c, h, q, d, r, k)
<1> USE DEF ContentAfterSend
<1>1. /\ Ack(k) \in ToClient /\ Data(k) \in ToClient /\ Denied \in ToClient /\ Revoked \in ToClient
      /\ Ack(k).type = "ack" /\ Data(k).type = "data" /\ Denied.type = "denied" /\ Revoked.type = "revoked"
      /\ Ack(k).key = k /\ Data(k).key = k
  BY DEF ToClient, Ack, Data, Denied, Revoked
<1>2. ASSUME k \in d \cup r, con, ~Asking(s) PROVE Content(lis, un, ls, c, h, Append(q, Ack(k)), d, r)
  <2>1. ls = "on" => \A x \in d : Knows(c, q, x, Len(q) + 1)
    BY DEF Content, Informed
  <2>2. ASSUME lis, un = 0 \/ Has(q, {"listenOk"}), ~Has(q, Stops)
        PROVE  k \in r \/ Knows(c, q, k, Len(q) + 1)
    <3>1. ls # "none"
      BY <1>2, <2>2 DEF Wire
    <3>2. ls = "asked" => un = 1 /\ Only(q, {"ack"})
      BY DEF Wire
    <3>3. Only(q, {"ack"}) => ~Has(q, {"listenOk"})
      BY DEF Only, Has
    <3> QED
      BY <1>2, <2>1, <2>2, <3>1, <3>2, <3>3
  <2>3. Fits(lis, un, ls, c, h, q, Ack(k), ls, d, r)
    BY <1>1, <1>2, <2>1, <2>2 DEF Fits
  <2> QED
    BY <1>1, <2>3, ContentAppend
<1>3. ASSUME ls = "on" PROVE Content(lis, un, ls, c, h, Append(q, Data(k)), d \cup {k}, r)
  <2>1. \A x \in d : Knows(c, q, x, Len(q) + 1)
    BY <1>3 DEF Content, Informed
  <2>2. Brings(Data(k), k)
    BY <1>1 DEF Brings
  <2>3. Fits(lis, un, ls, c, h, q, Data(k), ls, d \cup {k}, r)
    BY <1>1, <2>1, <2>2 DEF Fits
  <2> QED
    BY <1>1, <2>3, ContentAppend
<1> QED
  BY <1>2, <1>3

LEMMA ContentDenied ==
    ASSUME NEW lis, NEW un \in 0 .. 1, NEW ls \in {"none", "asked", "on"}, NEW q \in Seq(ToClient),
           NEW c, NEW h, NEW d, NEW r, Content(lis, un, ls, c, h, q, d, r)
    PROVE  Content(lis, un, "none", c, h, Append(q, Denied), d, r)
<1>1. Denied \in ToClient /\ Denied.type = "denied"
  BY DEF ToClient, Denied
<1>2. Fits(lis, un, ls, c, h, q, Denied, "none", d, r)
  BY <1>1 DEF Fits
<1> QED
  BY <1>1, <1>2, ContentAppend

LEMMA ContentRevoked ==
    ASSUME NEW lis, NEW un \in 0 .. 1, NEW ls \in {"none", "asked", "on"}, NEW q \in Seq(ToClient),
           NEW c, NEW h, NEW d, NEW r, Content(lis, un, ls, c, h, q, d, r)
    PROVE  Content(lis, un, "none", c, h, Append(q, Revoked), d, r)
<1>1. Revoked \in ToClient /\ Revoked.type = "revoked"
  BY DEF ToClient, Revoked
<1>2. Fits(lis, un, ls, c, h, q, Revoked, "none", d, r)
  BY <1>1 DEF Fits
<1> QED
  BY <1>1, <1>2, ContentAppend

LEMMA ContentAccept ==
    ASSUME NEW con, NEW lis, NEW un \in 0 .. 1, NEW cmp,
           NEW s, NEW q \in Seq(ToClient), NEW c, NEW h, NEW d \in SUBSET Key, NEW r,
           Wire(con, lis, un, cmp, "asked", s, q), Content(lis, un, "asked", c, h, q, d, r)
    PROVE  Content(lis, un, "on", c, h, q \o <<Snapshot(d), ListenOk>>, d, r)
<1> DEFINE m == Snapshot(d)
           t == Append(q, m)
<1>1. m \in ToClient /\ m.type = "snapshot" /\ m.keys = d /\ ListenOk \in ToClient /\ ListenOk.type = "listenOk"
  BY DEF ToClient, Snapshot, ListenOk
<1>2. t \in Seq(ToClient) /\ Len(t) = Len(q) + 1 /\ Len(q) \in Nat /\ t[Len(q) + 1] = m
  BY <1>1, AppendOf
<1>3. q \o <<m, ListenOk>> = Append(t, ListenOk)
  BY <1>1
<1>4. c \subseteq d /\ h \subseteq d \cup r
  BY DEF Content, Truthful
<1> HIDE DEF m, t
<1>5. Content(lis, un, "asked", c, h, t, d, r)
  <2>1. Fits(lis, un, "asked", c, h, q, m, "asked", d, r)
    BY <1>1, <1>4 DEF Fits
  <2> QED
    BY <1>1, <2>1, ContentAppend DEF t
<1>6. ASSUME NEW k \in d PROVE Knows(c, t, k, Len(t) + 1)
  <2>1. Len(q) + 1 \in 1 .. (Len(t) + 1) - 1 /\ Brings(t[Len(q) + 1], k)
    BY <1>1, <1>2 DEF Brings
  <2> QED
    BY <2>1 DEF Knows
<1>7. \A i \in DOMAIN t : t[i].type = "ack" => t[i].key \in d \cup r
  BY <1>5 DEF Content, Truthful
<1>8. Fits(lis, un, "asked", c, h, t, ListenOk, "on", d, r)
  BY <1>1, <1>4, <1>6, <1>7 DEF Fits
<1> QED
  BY <1>1, <1>2, <1>3, <1>5, <1>8, ContentAppend DEF m

LEMMA ContentGrows ==
    ASSUME NEW lis, NEW un, NEW ls, NEW c, NEW h, NEW q, NEW d, NEW r, NEW e, NEW w,
           Content(lis, un, ls, c, h, q, d, r), d \subseteq e, r \subseteq w, ls = "on" => e = d
    PROVE  Content(lis, un, ls, c, h, q, e, w)
BY DEF Content, Truthful, Keeps, Caught, Safe, Informed

LEMMA ContentUnheard ==
    ASSUME NEW lis, NEW un, NEW ls, NEW c, NEW h, NEW q, NEW d, NEW r, NEW l,
           Content(lis, un, ls, c, h, q, d, r), l # "on"
    PROVE  Content(lis, un, l, c, h, q, d, r)
BY DEF Content, Informed

LEMMA ContentBreak ==
    ASSUME NEW lis, NEW un, NEW ls, NEW c, NEW h, NEW q, NEW d, NEW r, NEW l, NEW v,
           Content(lis, un, ls, c, h, q, d, r)
    PROVE  Content(l, v, "none", c, h, <<>>, d, r)
BY DEF Content, Truthful, Keeps, Caught, Safe, Informed

LEMMA ContentFewer ==
    ASSUME NEW lis, NEW un, NEW ls, NEW c, NEW h, NEW q, NEW d, NEW r, NEW g,
           Content(lis, un, ls, c, h, q, d, r), g \subseteq h
    PROVE  Content(lis, un, ls, c, g, q, d, r)
BY DEF Content, Truthful, Caught

LEMMA ContentNone == ASSUME NEW lis, NEW un, NEW d, NEW r PROVE Content(lis, un, "none", {}, {}, <<>>, d, r)
BY DEF Content, Truthful, Keeps, Caught, Safe, Informed

-----------------------------------------------------------------------------
(***************************************************************************)
(* Types.                                                                  *)
(***************************************************************************)
InRankOrder(s, S, rank) ==
    /\ s \in Seq(Key) /\ s \in Seq(S) /\ ToSet(s) = S /\ DOMAIN s = 1 .. Len(s)
    /\ \A i, j \in DOMAIN s : i < j => rank[s[i]] < rank[s[j]]
    /\ \A i, j \in DOMAIN s : i # j => s[i] # s[j]

LEMMA SortedFacts ==
    ASSUME NEW S \in SUBSET Key, NEW rank \in [Key -> Nat], NEW s \in Sorted(S, rank)
    PROVE  InRankOrder(s, S, rank)
<1>1. Cardinality(S) \in Nat
  BY KeysOrdered, FS_Subset, FS_CardinalityType
<1>2. s \in [1 .. Cardinality(S) -> S] /\ ToSet(s) = S /\ \A i, j \in DOMAIN s : i < j => rank[s[i]] < rank[s[j]]
  BY DEF Sorted
<1>3. s \in Seq(S) /\ s \in Seq(Key) /\ DOMAIN s = 1 .. Len(s)
  BY <1>1, <1>2, SeqDef
<1>4. \A i \in DOMAIN s : rank[s[i]] \in Nat
  BY <1>2
<1>5. ASSUME NEW i \in DOMAIN s, NEW j \in DOMAIN s, i # j PROVE s[i] # s[j]
  <2>1. i < j \/ j < i
    BY <1>1, <1>2, <1>5
  <2>2. rank[s[i]] < rank[s[j]] \/ rank[s[j]] < rank[s[i]]
    BY <1>2, <2>1
  <2>3. rank[s[i]] \in Nat /\ rank[s[j]] \in Nat
    BY <1>4
  <2> QED
    BY <2>2, <2>3
<1> QED
  BY <1>2, <1>3, <1>5 DEF InRankOrder

\* Push ids are numbers.
LEMMA Ranks == ASSUME NEW r \in [Key -> PushId \cup {0}] PROVE r \in [Key -> Nat]
<1>1. PushId \cup {0} \subseteq Nat
  BY PushIdsOrdered
<1> QED
  BY <1>1

LEMMA ViewType ==
    ASSUME NEW p \in Phone, serverCache \in [Phone -> SUBSET Key], writes \in [Phone -> SUBSET Key]
    PROVE  View(p) \in SUBSET Key
BY DEF View

LEMMA IndexRanks == index \in [Key -> Nat] /\ \A k \in Key : index[k] = k
BY KeysOrdered DEF index

\* What raiseEvents does: t is the new events.
LEMMA Raised ==
    ASSUME NEW p \in Phone, TypeOK, serverCache' \in [Phone -> SUBSET Key], writes' \in [Phone -> SUBSET Key],
           pushId' \in [Key -> PushId \cup {0}], raiseEvents(p)
    PROVE  \E t \in Seq(Key) :
             /\ events' = [events EXCEPT ![p] = @ \o t] /\ ToSet(t) = View(p)' \ View(p)
             /\ DOMAIN t = 1 .. Len(t)
             /\ \A i, j \in DOMAIN t : i < j => pushId'[t[i]] < pushId'[t[j]]
             /\ \A i, j \in DOMAIN t : i # j => t[i] # t[j]
<1>1. View(p)' \ View(p) \in SUBSET Key
  BY DEF View
<1>2. PICK s \in Sorted(View(p)' \ View(p), pushId') : events' = [events EXCEPT ![p] = @ \o s]
  BY DEF raiseEvents
<1> DEFINE rank == pushId'
           new  == View(p)' \ View(p)
<1>3. rank \in [Key -> Nat]
  BY Ranks
<1>4. s \in Sorted(new, rank) /\ new \in SUBSET Key
  BY <1>1, <1>2
<1> HIDE DEF rank, new
<1>5. InRankOrder(s, new, rank)
  BY <1>3, <1>4, SortedFacts
<1>6. /\ s \in Seq(Key) /\ ToSet(s) = new /\ DOMAIN s = 1 .. Len(s)
      /\ \A i, j \in DOMAIN s : i < j => rank[s[i]] < rank[s[j]]
      /\ \A i, j \in DOMAIN s : i # j => s[i] # s[j]
  BY <1>5 DEF InRankOrder
<1> QED
  BY <1>2, <1>6 DEF rank, new

LEMMA EventsType ==
    ASSUME NEW p \in Phone, TypeOK, serverCache' \in [Phone -> SUBSET Key], writes' \in [Phone -> SUBSET Key],
           pushId' \in [Key -> PushId \cup {0}], raiseEvents(p)
    PROVE  events' \in [Phone -> Seq(Key)]
<1>1. PICK t \in Seq(Key) : events' = [events EXCEPT ![p] = @ \o t]
  BY Raised
<1>2. events[p] \in Seq(Key)
  BY DEF TypeOK
<1>3. events[p] \o t \in Seq(Key)
  BY <1>2, ConcatOf
<1> QED
  BY <1>1, <1>3 DEF TypeOK

LEMMA PutMessage == ASSUME NEW k \in Key PROVE Put(k) \in ToServer /\ Put(k).type = "put" /\ Put(k).key = k /\ Put(k) # Listen
BY DEF ToServer, Put, Listen

LEMMA PutsFacts ==
    ASSUME NEW s \in Seq(Key)
    PROVE  /\ Puts(s) \in Seq(ToServer) /\ Len(Puts(s)) = Len(s) /\ DOMAIN Puts(s) = DOMAIN s
           /\ DOMAIN s = 1 .. Len(s)
           /\ \A i \in DOMAIN s : s[i] \in Key /\ Puts(s)[i] = Put(s[i])
<1>1. DOMAIN s = 1 .. Len(s) /\ Len(s) \in Nat /\ \A i \in DOMAIN s : s[i] \in Key
  BY LenProperties, ElementOfSeq
<1>2. Puts(s) = [i \in 1 .. Len(s) |-> Put(s[i])]
  BY <1>1 DEF Puts
<1>3. \A i \in 1 .. Len(s) : Put(s[i]) \in ToServer
  BY <1>1, PutMessage
<1>4. Puts(s) \in [1 .. Len(s) -> ToServer]
  BY <1>2, <1>3
<1>5. Puts(s) \in Seq(ToServer)
  BY <1>1, <1>4, SeqDef
<1>6. Len(Puts(s)) = Len(s)
  BY <1>1, <1>4, <1>5, LenProperties
<1> QED
  BY <1>1, <1>2, <1>5, <1>6

\* What of a connection the server may read after its end.
LEMMA UnreadFacts ==
    ASSUME NEW p \in Phone, TypeOK, Sending(p), NEW n \in 0 .. Len(Unread(p))
    PROVE  /\ SubSeq(Unread(p), 1, n) \in Seq(ToServer)
           /\ OwnPuts(p, SubSeq(Unread(p), 1, n))
           /\ Unread(p) = IF Asking(toServer[p]) THEN Tail(toServer[p]) ELSE toServer[p]
           /\ n \in Nat /\ n <= Len(Unread(p)) /\ Len(SubSeq(Unread(p), 1, n)) = n
           /\ \A i \in 1 .. n : SubSeq(Unread(p), 1, n)[i] = Unread(p)[i]
<1> DEFINE s == toServer[p]
           u == Unread(p)
<1>1. s \in Seq(ToServer)
  BY DEF TypeOK
<1>2. u = IF Asking(s) THEN Tail(s) ELSE s
  BY <1>1, TailOf DEF Unread, Asking
<1>3. /\ DOMAIN s = 1 .. Len(s) /\ Len(s) \in Nat
      /\ s # <<>> => Tail(s) \in Seq(ToServer) /\ DOMAIN Tail(s) = 1 .. Len(s) - 1
                     /\ \A i \in DOMAIN Tail(s) : Tail(s)[i] = s[i + 1]
  BY <1>1, TailOf, LenProperties
<1>4. u \in Seq(ToServer) /\ Len(u) \in Nat /\ DOMAIN u = 1 .. Len(u)
  BY <1>1, <1>2, <1>3, LenProperties DEF Asking
<1>5. ASSUME NEW i \in DOMAIN u PROVE \E k \in Key : u[i] = Put(k) /\ author[k] = p
  <2>1. CASE Asking(s)
    <3>1. u = Tail(s) /\ i \in 1 .. Len(s) - 1 /\ u[i] = s[i + 1]
      BY <1>2, <1>3, <1>5, <2>1 DEF Asking
    <3>2. i + 1 \in DOMAIN s /\ i + 1 # 1
      BY <1>3, <3>1
    <3> QED
      BY <3>1, <3>2 DEF Sending
  <2>2. CASE ~Asking(s)
    <3>1. u[i] = s[i] /\ i \in DOMAIN s
      BY <1>2, <1>5, <2>2
    <3>2. ~(i = 1 /\ s[i] = Listen)
      BY <1>3, <2>2, <3>1 DEF Asking
    <3> QED
      BY <3>1, <3>2 DEF Sending
  <2> QED
    BY <2>1, <2>2
<1>6. n \in Nat /\ n <= Len(u) /\ \A i \in 1 .. n : i \in DOMAIN u
  BY <1>4
<1>7. \A i \in 1 .. n : u[i] \in ToServer
  BY <1>4, <1>6, ElementOfSeq
<1>8. /\ SubSeq(u, 1, n) \in Seq(ToServer) /\ Len(SubSeq(u, 1, n)) = n
      /\ \A i \in 1 .. n : SubSeq(u, 1, n)[i] = u[i]
  <2>1. /\ SubSeq(u, 1, n) \in Seq(ToServer) /\ Len(SubSeq(u, 1, n)) = IF 1 <= n THEN n - 1 + 1 ELSE 0
        /\ \A i \in 1 .. n - 1 + 1 : SubSeq(u, 1, n)[i] = u[1 + i - 1]
    BY <1>6, <1>7, SubSeqProperties
  <2>2. n - 1 + 1 = n /\ \A i \in 1 .. n : 1 + i - 1 = i
    BY <1>6
  <2> QED
    BY <1>6, <2>1, <2>2
<1>9. DOMAIN SubSeq(u, 1, n) = 1 .. n
  BY <1>8, LenProperties
<1>10. OwnPuts(p, SubSeq(u, 1, n))
  BY <1>5, <1>6, <1>8, <1>9 DEF OwnPuts
<1> QED
  BY <1>2, <1>6, <1>8, <1>10

LEMMA BreakTypes ==
    ASSUME NEW p \in Phone, TypeOK, Sending(p), Break(p)
    PROVE  /\ connected' \in [Phone -> BOOLEAN] /\ toServer' \in [Phone -> Seq(ToServer)]
           /\ toClient' \in [Phone -> Seq(ToClient)] /\ late' \in [Phone -> Seq(ToServer)]
           /\ listener' \in [Phone -> {"none", "asked", "on"}] /\ breaks' \in 0 .. MaxBreaks
<1>1. PICK n \in 0 .. Len(Unread(p)) : late' = [late EXCEPT ![p] = @ \o SubSeq(Unread(p), 1, n)]
  BY DEF Break
<1>2. SubSeq(Unread(p), 1, n) \in Seq(ToServer) /\ late[p] \in Seq(ToServer)
  BY UnreadFacts DEF TypeOK
<1>3. late[p] \o SubSeq(Unread(p), 1, n) \in Seq(ToServer)
  BY <1>2, ConcatOf
<1>4. late' \in [Phone -> Seq(ToServer)]
  BY <1>1, <1>3 DEF TypeOK
<1>5. breaks' \in 0 .. MaxBreaks
  BY BreaksBounded DEF Break, TypeOK
<1>6. <<>> \in Seq(ToServer) /\ <<>> \in Seq(ToClient)
  OBVIOUS
<1>7. connected' \in [Phone -> BOOLEAN] /\ toServer' \in [Phone -> Seq(ToServer)]
  BY <1>6 DEF Break, TypeOK
<1>8. toClient' \in [Phone -> Seq(ToClient)] /\ listener' \in [Phone -> {"none", "asked", "on"}]
  BY <1>6 DEF Break, TypeOK
<1> QED
  BY <1>4, <1>5, <1>7, <1>8

\* The server stores or refuses k: what each phone is sent.
LEMMA StoreTypes ==
    ASSUME TypeOK, NEW k \in Key, NEW A, Store(k, A)
    PROVE  toClient' \in [Phone -> Seq(ToClient)] /\ db' \subseteq Key /\ refused' \subseteq Key
<1>1. <<Data(k)>> \in Seq(ToClient) /\ <<Ack(k)>> \in Seq(ToClient) /\ <<>> \in Seq(ToClient) /\ Ack(k) \in ToClient
  BY DEF ToClient, Data, Ack
<1>2. \A a, b, c \in Seq(ToClient) : a \o b \o c \in Seq(ToClient)
  BY ConcatOf
<1>3. \A a \in Seq(ToClient) : Append(a, Ack(k)) \in Seq(ToClient)
  BY <1>1, AppendOf
<1>4. \A q \in Phone : toClient[q] \in Seq(ToClient)
  BY DEF TypeOK
<1>5. toClient' \in [Phone -> Seq(ToClient)]
  <2>1. CASE toClient' = [q \in Phone |->
              toClient[q]
              \o (IF listener[q] = "on" /\ k \notin db THEN <<Data(k)>> ELSE <<>>)
              \o (IF q \in A THEN <<Ack(k)>> ELSE <<>>)]
    BY <1>1, <1>2, <1>4, <2>1
  <2>2. CASE toClient' = [q \in Phone |-> IF q \in A THEN Append(toClient[q], Ack(k)) ELSE toClient[q]]
    BY <1>3, <1>4, <2>2
  <2> QED
    BY <2>1, <2>2 DEF Store
<1> QED
  BY <1>5 DEF Store, TypeOK

\* The message that the phone reads.
LEMMA Reading ==
    ASSUME TypeOK, NEW p \in Phone, NEW type, onDataMessage(p, type)
    PROVE  /\ toClient[p] \in Seq(ToClient) /\ toClient[p] # <<>>
           /\ Head(toClient[p]) = toClient[p][1] /\ toClient[p][1] \in ToClient /\ toClient[p][1].type = type
           /\ Tail(toClient[p]) \in Seq(ToClient)
           /\ toClient' = [toClient EXCEPT ![p] = Tail(toClient[p])]
           /\ toClient' \in [Phone -> Seq(ToClient)]
<1>1. toClient[p] \in Seq(ToClient) /\ toClient[p] # <<>>
  BY DEF TypeOK, onDataMessage
<1>2. /\ Head(toClient[p]) = toClient[p][1] /\ toClient[p][1] \in ToClient
      /\ Tail(toClient[p]) \in Seq(ToClient)
  BY <1>1, TailOf
<1> QED
  BY <1>1, <1>2 DEF TypeOK, onDataMessage

LEMMA WireReadAt ==
    ASSUME TypeOK, WireInv, NEW p \in Phone, toClient[p] # <<>>
    PROVE  WireAfterRead(connected[p], listening[p], chatsUnacked[p], complete[p], listener[p], toServer[p],
                         toClient[p])
<1>1. Wire(connected[p], listening[p], chatsUnacked[p], complete[p], listener[p], toServer[p], toClient[p])
  BY DEF WireInv
<1>2. chatsUnacked[p] \in 0 .. 1 /\ listener[p] \in {"none", "asked", "on"} /\ toClient[p] \in Seq(ToClient)
  BY DEF TypeOK
<1> QED
  BY <1>1, <1>2, WireRead

USE DEF unackedListensCount

\* With the last answer to a listen all held answers go, otherwise none.
LEMMA Acked ==
    ASSUME TypeOK, NEW p \in Phone, ackPuts(p)
    PROVE  \E g \in {{}, putsToAck[p]} :
             /\ writes' = [writes EXCEPT ![p] = @ \ g] /\ putsToAck' = [putsToAck EXCEPT ![p] = @ \ g]
             /\ writes'[p] = writes[p] \ g /\ putsToAck'[p] = putsToAck[p] \ g
             /\ putsToAck'[p] # {} => unackedListensCount(p)' # 0
             /\ g = {} \/ unackedListensCount(p)' = 0
             /\ writes' \in [Phone -> SUBSET Key] /\ putsToAck' \in [Phone -> SUBSET Key]
<1>1. writes \in [Phone -> SUBSET Key] /\ putsToAck \in [Phone -> SUBSET Key]
  BY DEF TypeOK
<1>2. CASE unackedListensCount(p)' = 0
  <2>1. writes' = [writes EXCEPT ![p] = @ \ putsToAck[p]] /\ putsToAck' = [putsToAck EXCEPT ![p] = {}]
    BY <1>2 DEF ackPuts
  <2> QED
    BY <1>1, <1>2, <2>1
<1>3. CASE unackedListensCount(p)' # 0
  <2>1. writes' = writes /\ putsToAck' = putsToAck
    BY <1>3 DEF ackPuts
  <2>2. writes = [writes EXCEPT ![p] = @ \ {}] /\ putsToAck = [putsToAck EXCEPT ![p] = @ \ {}]
    BY <1>1
  <2> QED
    BY <1>1, <1>3, <2>1, <2>2
<1> QED
  BY <1>2, <1>3

LEMMA ReadTypes ==
    ASSUME TypeOK, WireInv, NEW p \in Phone, Receive(p)
    PROVE  TypeOK'
<1> DEFINE Others(type) ==
       /\ onDataMessage(p, type)
       /\ toClient' \in [Phone -> Seq(ToClient)]
       /\ running' \in [Phone -> BOOLEAN] /\ author' \in [Key -> Phone \cup {Nobody}]
       /\ pushId' \in [Key -> PushId \cup {0}]
       /\ connected' \in [Phone -> BOOLEAN] /\ chats' \in [Phone -> Seq(Key)]
       /\ toServer' \in [Phone -> Seq(ToServer)] /\ late' \in [Phone -> Seq(ToServer)]
       /\ breaks' \in 0 .. MaxBreaks /\ listener' \in [Phone -> {"none", "asked", "on"}]
       /\ db' \subseteq Key /\ refused' \subseteq Key /\ abandoned' \subseteq Key
<1>1. ASSUME NEW type, onDataMessage(p, type) PROVE Others(type)
  BY <1>1, Reading DEF TypeOK, onDataMessage, backend
<1> HIDE DEF Others
<1>4. CASE onSnapshot(p)
  <2>1. Others("snapshot") /\ Head(toClient[p]).keys \in SUBSET Key
    BY <1>1, <1>4, Reading, MessageFields DEF onSnapshot
  <2>2. /\ complete' \in [Phone -> BOOLEAN] /\ serverCache' \in [Phone -> SUBSET Key]
        /\ listening' \in [Phone -> BOOLEAN] /\ chatsUnacked' \in [Phone -> 0 .. 1] /\ otherUnacked' \in [Phone -> 0 .. MaxOthers]
        /\ outstanding' \in [Phone -> SUBSET Key] /\ putsToAck' \in [Phone -> SUBSET Key]
        /\ writes' \in [Phone -> SUBSET Key]
    BY <1>4, <2>1 DEF onSnapshot, TypeOK
  <2>3. events' \in [Phone -> Seq(Key)]
    BY <1>4, <2>1, <2>2, EventsType DEF Others, onSnapshot
  <2> QED
    BY <2>1, <2>2, <2>3 DEF Others, TypeOK
<1>5. CASE onDataUpdate(p)
  <2>1. Others("data") /\ Head(toClient[p]).key \in Key
    BY <1>1, <1>5, Reading, MessageFields DEF onDataUpdate
  <2>2. /\ complete' \in [Phone -> BOOLEAN] /\ serverCache' \in [Phone -> SUBSET Key]
        /\ listening' \in [Phone -> BOOLEAN] /\ chatsUnacked' \in [Phone -> 0 .. 1] /\ otherUnacked' \in [Phone -> 0 .. MaxOthers]
        /\ outstanding' \in [Phone -> SUBSET Key] /\ putsToAck' \in [Phone -> SUBSET Key]
        /\ writes' \in [Phone -> SUBSET Key]
    BY <1>5, <2>1 DEF onDataUpdate, TypeOK
  <2>3. events' \in [Phone -> Seq(Key)]
    BY <1>5, <2>1, <2>2, EventsType DEF Others, onDataUpdate
  <2> QED
    BY <2>1, <2>2, <2>3 DEF Others, TypeOK
<1>6. CASE onPutResponse(p)
  <2>1. Others("ack") /\ Head(toClient[p]).key \in Key
    BY <1>1, <1>6, Reading, MessageFields DEF onPutResponse
  <2>2. /\ complete' \in [Phone -> BOOLEAN] /\ serverCache' \in [Phone -> SUBSET Key]
        /\ listening' \in [Phone -> BOOLEAN] /\ chatsUnacked' \in [Phone -> 0 .. 1] /\ otherUnacked' \in [Phone -> 0 .. MaxOthers]
        /\ outstanding' \in [Phone -> SUBSET Key] /\ putsToAck' \in [Phone -> SUBSET Key]
        /\ writes' \in [Phone -> SUBSET Key]
    <3> DEFINE k == Head(toClient[p]).key
    <3>1. /\ complete' \in [Phone -> BOOLEAN] /\ serverCache' \in [Phone -> SUBSET Key]
          /\ listening' \in [Phone -> BOOLEAN] /\ chatsUnacked' \in [Phone -> 0 .. 1] /\ otherUnacked' \in [Phone -> 0 .. MaxOthers]
          /\ outstanding' \in [Phone -> SUBSET Key]
      BY <1>6 DEF onPutResponse, TypeOK
    <3>2. /\ putsToAck' = putsToAck \/ putsToAck' = [putsToAck EXCEPT ![p] = @ \cup {k}]
          /\ writes' = writes \/ writes' = [writes EXCEPT ![p] = @ \ {k}]
      BY <1>6 DEF onPutResponse
    <3>3. k \in Key
      BY <2>1
    <3> HIDE DEF k
    <3>4. putsToAck[p] \cup {k} \in SUBSET Key /\ writes[p] \ {k} \in SUBSET Key
      BY <3>3 DEF TypeOK
    <3>5. putsToAck' \in [Phone -> SUBSET Key]
      <4>1. CASE putsToAck' = [putsToAck EXCEPT ![p] = @ \cup {k}]
        BY <3>4, <4>1 DEF TypeOK
      <4> QED
        BY <3>2, <4>1 DEF TypeOK
    <3>6. writes' \in [Phone -> SUBSET Key]
      <4>1. CASE writes' = [writes EXCEPT ![p] = @ \ {k}]
        BY <3>4, <4>1 DEF TypeOK
      <4> QED
        BY <3>2, <4>1 DEF TypeOK
    <3> QED
      BY <3>1, <3>5, <3>6
  <2>3. events' \in [Phone -> Seq(Key)]
    BY <1>6, <2>1, <2>2, EventsType DEF Others, onPutResponse
  <2> QED
    BY <2>1, <2>2, <2>3 DEF Others, TypeOK
<1>7. CASE onListenOk(p)
  <2>1. Others("listenOk") /\ chatsUnacked[p] = 1
    <3>1. onDataMessage(p, "listenOk")
      BY <1>7 DEF onListenOk
    <3>2. toClient[p] # <<>> /\ toClient[p][1].type = "listenOk"
      BY <3>1, Reading
    <3> QED
      BY <1>1, <3>1, <3>2, WireReadAt DEF WireAfterRead
  <2>2. /\ complete' \in [Phone -> BOOLEAN] /\ serverCache' \in [Phone -> SUBSET Key]
        /\ listening' \in [Phone -> BOOLEAN] /\ chatsUnacked' \in [Phone -> 0 .. 1] /\ otherUnacked' \in [Phone -> 0 .. MaxOthers]
        /\ outstanding' \in [Phone -> SUBSET Key] /\ putsToAck' \in [Phone -> SUBSET Key]
        /\ writes' \in [Phone -> SUBSET Key]
    <3>1. /\ complete' \in [Phone -> BOOLEAN] /\ serverCache' \in [Phone -> SUBSET Key]
          /\ listening' \in [Phone -> BOOLEAN] /\ outstanding' \in [Phone -> SUBSET Key]
          /\ chatsUnacked' \in [Phone -> 0 .. 1] /\ otherUnacked' \in [Phone -> 0 .. MaxOthers]
      BY <1>7, <2>1 DEF onListenOk, TypeOK
    <3>2. ackPuts(p)
      BY <1>7 DEF onListenOk
    <3> QED
      BY <3>1, <3>2, Acked
  <2>3. events' \in [Phone -> Seq(Key)]
    BY <1>7, <2>1, <2>2, EventsType DEF Others, onListenOk
  <2> QED
    BY <2>1, <2>2, <2>3 DEF Others, TypeOK
<1>8. CASE onListenDenied(p)
  <2>1. Others("denied") /\ chatsUnacked[p] = 1
    <3>1. onDataMessage(p, "denied")
      BY <1>8 DEF onListenDenied
    <3>2. toClient[p] # <<>> /\ toClient[p][1].type = "denied"
      BY <3>1, Reading
    <3> QED
      BY <1>1, <3>1, <3>2, WireReadAt DEF WireAfterRead
  <2>2. /\ complete' \in [Phone -> BOOLEAN] /\ serverCache' \in [Phone -> SUBSET Key]
        /\ listening' \in [Phone -> BOOLEAN] /\ chatsUnacked' \in [Phone -> 0 .. 1] /\ otherUnacked' \in [Phone -> 0 .. MaxOthers]
        /\ outstanding' \in [Phone -> SUBSET Key] /\ putsToAck' \in [Phone -> SUBSET Key]
        /\ writes' \in [Phone -> SUBSET Key] /\ events' \in [Phone -> Seq(Key)]
    <3>1. /\ complete' \in [Phone -> BOOLEAN] /\ serverCache' \in [Phone -> SUBSET Key]
          /\ listening' \in [Phone -> BOOLEAN] /\ outstanding' \in [Phone -> SUBSET Key]
          /\ chatsUnacked' \in [Phone -> 0 .. 1] /\ otherUnacked' \in [Phone -> 0 .. MaxOthers]
          /\ events' \in [Phone -> Seq(Key)]
      BY <1>8, <2>1 DEF onListenDenied, removeListen, TypeOK
    <3>2. ackPuts(p)
      BY <1>8 DEF onListenDenied
    <3> QED
      BY <3>1, <3>2, Acked
  <2> QED
    BY <2>1, <2>2 DEF Others, TypeOK
<1>9. CASE onListenRevoked(p)
  <2>1. Others("revoked")
    BY <1>1, <1>9 DEF onListenRevoked
  <2>2. /\ complete' \in [Phone -> BOOLEAN] /\ serverCache' \in [Phone -> SUBSET Key]
        /\ listening' \in [Phone -> BOOLEAN] /\ chatsUnacked' \in [Phone -> 0 .. 1] /\ otherUnacked' \in [Phone -> 0 .. MaxOthers]
        /\ outstanding' \in [Phone -> SUBSET Key] /\ putsToAck' \in [Phone -> SUBSET Key]
        /\ writes' \in [Phone -> SUBSET Key] /\ events' \in [Phone -> Seq(Key)]
    BY <1>9 DEF onListenRevoked, removeListen, TypeOK
  <2> QED
    BY <2>1, <2>2 DEF Others, TypeOK
<1> QED
  BY <1>4, <1>5, <1>6, <1>7, <1>8, <1>9 DEF Receive

LEMMA TypeStep ==
    ASSUME TypeOK, WireInv, PendingInv, Next
    PROVE  TypeOK'
<1> PICK p \in Phone :
        \/ observeMessages(p) \/ childAdded(p) \/ listenOther(p)
        \/ \E k \in Key : handleSendMessage(p, k)
        \/ restoreState(p) \/ onDisconnect(p) \/ Kill(p)
        \/ Receive(p) \/ onOtherListen(p)
        \/ Serve(p) \/ answerListen(p) \/ revokeListen(p) \/ readLate(p)
  BY DEF Next
<1>1. CASE observeMessages(p)
  BY <1>1 DEF observeMessages, TypeOK, network, backend
<1>2. CASE childAdded(p)
  <2>1. events[p] \in Seq(Key) /\ events[p] # <<>> /\ chats[p] \in Seq(Key)
    BY <1>2 DEF childAdded, TypeOK
  <2>2. Tail(events[p]) \in Seq(Key) /\ Append(chats[p], Head(events[p])) \in Seq(Key)
    BY <2>1, TailOf, AppendOf
  <2>3. chats' \in [Phone -> Seq(Key)] /\ events' \in [Phone -> Seq(Key)]
    BY <1>2, <2>2 DEF childAdded, TypeOK
  <2> QED
    BY <1>2, <2>3 DEF childAdded, TypeOK, network, backend
<1>3. ASSUME NEW k \in Key, handleSendMessage(p, k) PROVE TypeOK'
  <2>1. Put(k) \in ToServer /\ toServer[p] \in Seq(ToServer)
    BY PutMessage DEF TypeOK
  <2>2. Append(toServer[p], Put(k)) \in Seq(ToServer)
    BY <2>1, AppendOf
  <2>3. toServer' \in [Phone -> Seq(ToServer)]
    BY <1>3, <2>2 DEF handleSendMessage, update, putInternal, TypeOK
  <2>4. /\ writes' \in [Phone -> SUBSET Key] /\ serverCache' \in [Phone -> SUBSET Key]
        /\ outstanding' \in [Phone -> SUBSET Key] /\ author' \in [Key -> Phone \cup {Nobody}]
        /\ pushId' \in [Key -> PushId \cup {0}]
    BY <1>3 DEF handleSendMessage, update, putInternal, TypeOK
  <2>5. events' \in [Phone -> Seq(Key)]
    BY <1>3, <2>4, EventsType DEF handleSendMessage, update
  <2> QED
    BY <1>3, <2>3, <2>4, <2>5 DEF handleSendMessage, update, TypeOK, backend
<1>4. CASE restoreState(p)
  <2>1. PICK s \in Sorted(outstanding[p], index) :
          toServer' = [toServer EXCEPT ![p] = (IF listening[p] THEN <<Listen>> ELSE <<>>) \o Puts(s)]
    BY <1>4 DEF restoreState
  <2>2. s \in Seq(Key)
    BY SortedFacts, IndexRanks DEF TypeOK, InRankOrder
  <2>3. Puts(s) \in Seq(ToServer) /\ <<Listen>> \in Seq(ToServer) /\ <<>> \in Seq(ToServer)
    BY <2>2, PutsFacts DEF ToServer
  <2>4. (IF listening[p] THEN <<Listen>> ELSE <<>>) \o Puts(s) \in Seq(ToServer)
    BY <2>3, ConcatOf
  <2>5. toServer' \in [Phone -> Seq(ToServer)]
    BY <2>1, <2>4 DEF TypeOK
  <2>6. chatsUnacked[p] = 0
    BY <1>4 DEF restoreState, WireInv, Wire
  <2>7. chatsUnacked' \in [Phone -> 0 .. 1] /\ otherUnacked' \in [Phone -> 0 .. MaxOthers]
    BY <1>4, <2>6 DEF restoreState, TypeOK
  <2> QED
    BY <1>4, <2>5, <2>7 DEF restoreState, TypeOK, backend
<1>5. CASE onDisconnect(p)
  <2>1. /\ connected' \in [Phone -> BOOLEAN] /\ toServer' \in [Phone -> Seq(ToServer)]
        /\ toClient' \in [Phone -> Seq(ToClient)] /\ late' \in [Phone -> Seq(ToServer)]
        /\ listener' \in [Phone -> {"none", "asked", "on"}] /\ breaks' \in 0 .. MaxBreaks
    BY <1>5, BreakTypes DEF onDisconnect, PendingInv
  <2>2. chatsUnacked' \in [Phone -> 0 .. 1] /\ otherUnacked' \in [Phone -> 0 .. MaxOthers]
    BY <1>5, OthersBounded DEF onDisconnect, TypeOK
  <2> QED
    BY <1>5, <2>1, <2>2 DEF onDisconnect, TypeOK
<1>6. CASE Kill(p)
  <2>1. /\ connected' \in [Phone -> BOOLEAN] /\ toServer' \in [Phone -> Seq(ToServer)]
        /\ toClient' \in [Phone -> Seq(ToClient)] /\ late' \in [Phone -> Seq(ToServer)]
        /\ listener' \in [Phone -> {"none", "asked", "on"}] /\ breaks' \in 0 .. MaxBreaks
    BY <1>6, BreakTypes DEF Kill, PendingInv
  <2>2. <<>> \in Seq(Key)
    OBVIOUS
  <2>3. /\ running' \in [Phone -> BOOLEAN] /\ listening' \in [Phone -> BOOLEAN]
        /\ chatsUnacked' \in [Phone -> 0 .. 1] /\ otherUnacked' \in [Phone -> 0 .. MaxOthers]
        /\ outstanding' \in [Phone -> SUBSET Key]
        /\ putsToAck' \in [Phone -> SUBSET Key] /\ complete' \in [Phone -> BOOLEAN]
        /\ serverCache' \in [Phone -> SUBSET Key] /\ writes' \in [Phone -> SUBSET Key]
        /\ abandoned' \subseteq Key
    BY <1>6, OthersBounded DEF Kill, TypeOK
  <2>4. events' \in [Phone -> Seq(Key)] /\ chats' \in [Phone -> Seq(Key)]
    BY <1>6, <2>2 DEF Kill, TypeOK
  <2> QED
    BY <1>6, <2>1, <2>3, <2>4 DEF Kill, TypeOK
<1>7. CASE Receive(p)
  BY <1>7, ReadTypes
<1>8. CASE readListen(p)
  <2>1. toServer[p] \in Seq(ToServer) /\ toServer[p] # <<>>
    BY <1>8 DEF readListen, TypeOK
  <2>2. Tail(toServer[p]) \in Seq(ToServer)
    BY <2>1, TailOf
  <2> QED
    BY <1>8, <2>2 DEF readListen, TypeOK, client
<1>9. CASE readPut(p)
  <2>1. toServer[p] \in Seq(ToServer) /\ toServer[p] # <<>>
    BY <1>9 DEF readPut, TypeOK
  <2>2. Tail(toServer[p]) \in Seq(ToServer) /\ Head(toServer[p]) \in ToServer
    BY <2>1, TailOf
  <2>3. Head(toServer[p]).key \in Key
    BY <1>9, <2>2 DEF readPut, ToServer, Listen, Put
  <2>4. toClient' \in [Phone -> Seq(ToClient)] /\ db' \subseteq Key /\ refused' \subseteq Key
    BY <1>9, <2>3, StoreTypes DEF readPut
  <2> QED
    BY <1>9, <2>2, <2>4 DEF readPut, TypeOK, client
<1>10. CASE answerListen(p)
  <2>1. Snapshot(db) \in ToClient /\ ListenOk \in ToClient /\ Denied \in ToClient /\ toClient[p] \in Seq(ToClient)
    BY DEF TypeOK, ToClient
  <2>2. toClient[p] \o <<Snapshot(db), ListenOk>> \in Seq(ToClient) /\ Append(toClient[p], Denied) \in Seq(ToClient)
    BY <2>1
  <2>3. toClient' \in [Phone -> Seq(ToClient)] /\ listener' \in [Phone -> {"none", "asked", "on"}]
    <3>1. CASE /\ listener' = [listener EXCEPT ![p] = "on"]
               /\ toClient' = [toClient EXCEPT ![p] = @ \o <<Snapshot(db), ListenOk>>]
      BY <2>2, <3>1 DEF TypeOK
    <3>2. CASE /\ listener' = [listener EXCEPT ![p] = "none"]
               /\ toClient' = [toClient EXCEPT ![p] = Append(@, Denied)]
      BY <2>2, <3>2 DEF TypeOK
    <3> QED
      BY <1>10, <3>1, <3>2 DEF answerListen
  <2> QED
    BY <1>10, <2>3 DEF answerListen, TypeOK, client
<1>11. CASE revokeListen(p)
  <2>1. Revoked \in ToClient /\ toClient[p] \in Seq(ToClient)
    BY DEF TypeOK, ToClient
  <2>2. Append(toClient[p], Revoked) \in Seq(ToClient)
    BY <2>1
  <2> QED
    BY <1>11, <2>2 DEF revokeListen, TypeOK, client
<1>12. CASE readLate(p)
  <2>1. late[p] \in Seq(ToServer) /\ late[p] # <<>>
    BY <1>12 DEF readLate, TypeOK
  <2>2. Tail(late[p]) \in Seq(ToServer) /\ Head(late[p]) = late[p][1] /\ 1 \in DOMAIN late[p]
    BY <2>1, TailOf
  <2>3. Head(late[p]).key \in Key
    BY <2>2, PutMessage DEF PendingInv, Sending, OwnPuts
  <2>4. toClient' \in [Phone -> Seq(ToClient)] /\ db' \subseteq Key /\ refused' \subseteq Key
    BY <1>12, <2>3, StoreTypes DEF readLate
  <2> QED
    BY <1>12, <2>2, <2>4 DEF readLate, TypeOK, client
<1>13. CASE listenOther(p)
  <2>1. otherUnacked' \in [Phone -> 0 .. MaxOthers]
    BY <1>13, OthersBounded DEF listenOther, TypeOK
  <2> QED
    BY <1>13, <2>1 DEF listenOther, TypeOK, network, backend
<1>14. CASE onOtherListen(p)
  <2>1. otherUnacked' \in [Phone -> 0 .. MaxOthers] /\ chatsUnacked' \in [Phone -> 0 .. 1]
    BY <1>14, OthersBounded DEF onOtherListen, TypeOK
  <2>2. writes' \in [Phone -> SUBSET Key] /\ putsToAck' \in [Phone -> SUBSET Key]
    BY <1>14, <2>1, Acked DEF onOtherListen
  <2>3. serverCache' \in [Phone -> SUBSET Key] /\ pushId' \in [Key -> PushId \cup {0}]
    BY <1>14 DEF onOtherListen, TypeOK
  <2>4. events' \in [Phone -> Seq(Key)]
    BY <1>14, <2>2, <2>3, EventsType DEF onOtherListen
  <2> QED
    BY <1>14, <2>1, <2>2, <2>4 DEF onOtherListen, TypeOK, network, backend
<1> QED
  BY <1>1, <1>2, <1>3, <1>4, <1>5, <1>6, <1>7, <1>8, <1>9, <1>10, <1>11, <1>12, <1>13, <1>14 DEF Serve

-----------------------------------------------------------------------------
(***************************************************************************)
(* Every step keeps what is on the connections.                            *)
(***************************************************************************)
WireAt(p) == Wire(connected[p], listening[p], chatsUnacked[p], complete[p], listener[p], toServer[p], toClient[p])

ContentAt(p) ==
    Content(listening[p], chatsUnacked[p], listener[p], serverCache[p], putsToAck[p], toClient[p], db, refused)

\* What the invariant of p's connection depends on.
Linked(p) == <<connected[p], listening[p], chatsUnacked[p], complete[p], listener[p], toServer[p], toClient[p],
               serverCache[p], putsToAck[p]>>

LEMMA ConnectionFrame ==
    ASSUME WireInv, ContentInv, NEW p \in Phone, \A q \in Phone \ {p} : Linked(q)' = Linked(q),
           db' = db, refused' = refused, WireAt(p)', ContentAt(p)'
    PROVE  WireInv' /\ ContentInv'
<1>1. ASSUME NEW q \in Phone, q # p PROVE WireAt(q)' /\ ContentAt(q)'
  <2>1. /\ connected'[q] = connected[q] /\ listening'[q] = listening[q] /\ chatsUnacked'[q] = chatsUnacked[q]
        /\ complete'[q] = complete[q] /\ listener'[q] = listener[q] /\ toServer'[q] = toServer[q]
        /\ toClient'[q] = toClient[q] /\ serverCache'[q] = serverCache[q] /\ putsToAck'[q] = putsToAck[q]
    <3>1. Linked(q)' = Linked(q)
      BY <1>1
    <3> QED
      BY <3>1 DEF Linked
  <2>2. WireAt(q) /\ ContentAt(q)
    BY DEF WireInv, ContentInv, WireAt, ContentAt
  <2>3. WireAt(q)'
    BY <2>1, <2>2 DEF WireAt
  <2>4. ContentAt(q)'
    BY <2>1, <2>2 DEF ContentAt
  <2> QED
    BY <2>3, <2>4
<1> QED
  BY <1>1 DEF WireInv, ContentInv, WireAt, ContentAt

LEMMA AtPhone ==
    ASSUME TypeOK, WireInv, ContentInv, NEW p \in Phone
    PROVE  /\ WireAt(p) /\ ContentAt(p)
           /\ chatsUnacked[p] \in 0 .. 1 /\ listener[p] \in {"none", "asked", "on"}
           /\ toClient[p] \in Seq(ToClient) /\ toServer[p] \in Seq(ToServer)
BY DEF WireInv, ContentInv, WireAt, ContentAt, TypeOK

LEMMA ReadConnection ==
    ASSUME TypeOK, WireInv, ContentInv, NEW p \in Phone, Receive(p)
    PROVE  WireInv' /\ ContentInv'
<1> DEFINE q == toClient[p]
<1> DEFINE Reads(type) ==
       /\ q # <<>> /\ q[1].type = type /\ Head(q) = q[1]
       /\ toClient' = [toClient EXCEPT ![p] = Tail(q)]
       /\ UNCHANGED <<connected, listener, toServer, db, refused>>
<1>1. ASSUME NEW type, onDataMessage(p, type) PROVE Reads(type)
  BY <1>1, Reading DEF onDataMessage, backend
<1>2. WireAt(p) /\ ContentAt(p) /\ chatsUnacked[p] \in 0 .. 1 /\ listener[p] \in {"none", "asked", "on"}
      /\ q \in Seq(ToClient)
  BY AtPhone
<1>3. ASSUME q # <<>>
      PROVE  /\ WireAfterRead(connected[p], listening[p], chatsUnacked[p], complete[p], listener[p], toServer[p], q)
             /\ ContentAfterRead(listening[p], chatsUnacked[p], listener[p], serverCache[p], putsToAck[p], q, db, refused)
  <2>1. Wire(connected[p], listening[p], chatsUnacked[p], complete[p], listener[p], toServer[p], q)
    BY <1>2 DEF WireAt
  <2>2. Content(listening[p], chatsUnacked[p], listener[p], serverCache[p], putsToAck[p], q, db, refused)
    BY <1>2 DEF ContentAt
  <2>3. WireAfterRead(connected[p], listening[p], chatsUnacked[p], complete[p], listener[p], toServer[p], q)
    BY <1>2, <1>3, <2>1, WireRead
  <2>4. ContentAfterRead(listening[p], chatsUnacked[p], listener[p], serverCache[p], putsToAck[p], q, db, refused)
    BY <1>2, <1>3, <2>1, <2>2, ContentRead
  <2> QED
    BY <2>3, <2>4
<1> HIDE DEF q, Reads
<1>4. CASE onSnapshot(p)
  <2>1. Reads("snapshot")
    BY <1>1, <1>4 DEF onSnapshot
  <2>2. /\ complete' = [complete EXCEPT ![p] = TRUE]
        /\ serverCache' = [serverCache EXCEPT ![p] = q[1].keys]
        /\ UNCHANGED <<listening, chatsUnacked, putsToAck>>
    BY <1>4, <2>1 DEF onSnapshot, Reads, q
  <2>3. WireAt(p)'
    BY <1>3, <2>1, <2>2 DEF WireAt, WireAfterRead, Reads, TypeOK
  <2>4. ContentAt(p)'
    BY <1>3, <2>1, <2>2 DEF ContentAt, ContentAfterRead, Reads, TypeOK
  <2>5. \A o \in Phone \ {p} : Linked(o)' = Linked(o)
    BY <2>1, <2>2 DEF Linked, Reads, TypeOK
  <2> QED
    BY <2>1, <2>3, <2>4, <2>5, ConnectionFrame DEF Reads
<1>5. CASE onDataUpdate(p)
  <2>1. Reads("data")
    BY <1>1, <1>5 DEF onDataUpdate
  <2>0. complete[p]
    BY <1>3, <2>1 DEF WireAfterRead, Reads
  <2>2. /\ serverCache' = [serverCache EXCEPT ![p] = @ \cup {q[1].key}]
        /\ UNCHANGED <<listening, chatsUnacked, putsToAck, complete>>
    BY <1>5, <2>0, <2>1 DEF onDataUpdate, Reads, q
  <2>3. WireAt(p)'
    BY <1>2, <1>3, <2>1, <2>2 DEF WireAt, WireAfterRead, Reads, TypeOK
  <2>4. ContentAt(p)'
    BY <1>2, <1>3, <2>1, <2>2 DEF ContentAt, ContentAfterRead, Reads, TypeOK
  <2>5. \A o \in Phone \ {p} : Linked(o)' = Linked(o)
    BY <2>1, <2>2 DEF Linked, Reads, TypeOK
  <2> QED
    BY <2>1, <2>3, <2>4, <2>5, ConnectionFrame DEF Reads
<1>6. CASE onPutResponse(p)
  <2>1. Reads("ack")
    BY <1>1, <1>6 DEF onPutResponse
  <2>2. /\ putsToAck' = putsToAck \/ putsToAck' = [putsToAck EXCEPT ![p] = @ \cup {q[1].key}]
        /\ UNCHANGED <<listening, chatsUnacked, serverCache, complete>>
    BY <1>6, <2>1 DEF onPutResponse, Reads, q
  <2>3. WireAt(p)'
    BY <1>3, <2>1, <2>2 DEF WireAt, WireAfterRead, Reads, TypeOK
  <2>4. ContentAt(p)'
    <3>1. CASE putsToAck' = putsToAck
      BY <1>3, <2>1, <2>2, <3>1 DEF ContentAt, ContentAfterRead, Reads, TypeOK
    <3>2. CASE putsToAck' = [putsToAck EXCEPT ![p] = @ \cup {q[1].key}]
      BY <1>3, <2>1, <2>2, <3>2 DEF ContentAt, ContentAfterRead, Reads, TypeOK
    <3> QED
      BY <2>2, <3>1, <3>2
  <2>5. \A o \in Phone \ {p} : Linked(o)' = Linked(o)
    <3>1. \A o \in Phone \ {p} : putsToAck'[o] = putsToAck[o]
      BY <2>2 DEF TypeOK
    <3> QED
      BY <2>1, <2>2, <3>1 DEF Linked, Reads, TypeOK
  <2> QED
    BY <2>1, <2>3, <2>4, <2>5, ConnectionFrame DEF Reads
<1>7. CASE onListenOk(p)
  <2>1. Reads("listenOk")
    BY <1>1, <1>7 DEF onListenOk
  <2>0. chatsUnacked[p] = 1
    BY <1>3, <2>1 DEF WireAfterRead, Reads
  <2>2. /\ chatsUnacked' = [chatsUnacked EXCEPT ![p] = 0]
        /\ UNCHANGED <<listening, serverCache, complete>> /\ ackPuts(p)
    BY <1>7, <2>0 DEF onListenOk
  <2>6. PICK g \in {{}, putsToAck[p]} :
          putsToAck' = [putsToAck EXCEPT ![p] = @ \ g] /\ putsToAck'[p] = putsToAck[p] \ g
    BY <2>2, Acked
  <2>7. putsToAck'[p] = {} \/ putsToAck'[p] = putsToAck[p]
    BY <2>6
  <2>3. WireAt(p)'
    BY <1>2, <1>3, <2>1, <2>2 DEF WireAt, WireAfterRead, Reads, TypeOK
  <2>4. ContentAt(p)'
    BY <1>2, <1>3, <2>1, <2>2, <2>7 DEF ContentAt, ContentAfterRead, Reads, TypeOK
  <2>5. \A o \in Phone \ {p} : Linked(o)' = Linked(o)
    BY <2>1, <2>2, <2>6 DEF Linked, Reads, TypeOK
  <2> QED
    BY <2>1, <2>3, <2>4, <2>5, ConnectionFrame DEF Reads
<1>8. CASE onListenDenied(p)
  <2>1. Reads("denied")
    BY <1>1, <1>8 DEF onListenDenied
  <2>0. chatsUnacked[p] = 1
    BY <1>3, <2>1 DEF WireAfterRead, Reads
  <2>2. /\ chatsUnacked' = [chatsUnacked EXCEPT ![p] = 0]
        /\ listening' = [listening EXCEPT ![p] = FALSE]
        /\ complete' = [complete EXCEPT ![p] = FALSE]
        /\ serverCache' = [serverCache EXCEPT ![p] = {}] /\ ackPuts(p)
    BY <1>8, <2>0 DEF onListenDenied, removeListen
  <2>6. PICK g \in {{}, putsToAck[p]} :
          putsToAck' = [putsToAck EXCEPT ![p] = @ \ g] /\ putsToAck'[p] = putsToAck[p] \ g
    BY <2>2, Acked
  <2>7. putsToAck'[p] = {} \/ putsToAck'[p] = putsToAck[p]
    BY <2>6
  <2>3. WireAt(p)'
    BY <1>2, <1>3, <2>1, <2>2 DEF WireAt, WireAfterRead, Reads, TypeOK
  <2>4. ContentAt(p)'
    BY <1>2, <1>3, <2>1, <2>2, <2>7 DEF ContentAt, ContentAfterRead, Reads, TypeOK
  <2>5. \A o \in Phone \ {p} : Linked(o)' = Linked(o)
    BY <2>1, <2>2, <2>6 DEF Linked, Reads, TypeOK
  <2> QED
    BY <2>1, <2>3, <2>4, <2>5, ConnectionFrame DEF Reads
<1>9. CASE onListenRevoked(p)
  <2>1. Reads("revoked")
    BY <1>1, <1>9 DEF onListenRevoked
  <2>2. /\ listening' = [listening EXCEPT ![p] = FALSE]
        /\ complete' = [complete EXCEPT ![p] = FALSE]
        /\ serverCache' = [serverCache EXCEPT ![p] = {}]
        /\ UNCHANGED <<chatsUnacked, putsToAck>>
    BY <1>9 DEF onListenRevoked, removeListen
  <2>3. WireAt(p)'
    BY <1>2, <1>3, <2>1, <2>2 DEF WireAt, WireAfterRead, Reads, TypeOK
  <2>4. ContentAt(p)'
    BY <1>2, <1>3, <2>1, <2>2 DEF ContentAt, ContentAfterRead, Reads, TypeOK
  <2>5. \A o \in Phone \ {p} : Linked(o)' = Linked(o)
    BY <2>1, <2>2 DEF Linked, Reads, TypeOK
  <2> QED
    BY <2>1, <2>3, <2>4, <2>5, ConnectionFrame DEF Reads
<1> QED
  BY <1>4, <1>5, <1>6, <1>7, <1>8, <1>9 DEF Receive

LEMMA ConcatOne ==
    ASSUME NEW S, NEW q \in Seq(S), NEW m \in S
    PROVE  q \o <<m>> = Append(q, m) /\ q \o <<>> = q
OBVIOUS

\* What the server sends for a write, and what that makes of the connections.
\* The write is read from toServer, which does not matter to what is below.
LEMMA StoreConnection ==
    ASSUME TypeOK, ContentInv, NEW k \in Key, NEW A \in SUBSET Phone, Store(k, A),
           UNCHANGED <<connected, listening, chatsUnacked, complete, listener, serverCache, putsToAck>>,
           \A o \in Phone : Wire(connected[o], listening[o], chatsUnacked[o], complete[o], listener[o],
                                 toServer'[o], toClient[o]),
           \A o \in A : connected[o] /\ ~Asking(toServer'[o])
    PROVE  WireInv' /\ ContentInv'
<1> SUFFICES ASSUME NEW o \in Phone PROVE WireAt(o)' /\ ContentAt(o)'
  BY DEF WireInv, ContentInv, WireAt, ContentAt
<1> DEFINE W(q) == Wire(connected[o], listening[o], chatsUnacked[o], complete[o], listener[o], toServer'[o], q)
           C(q, d, r) == Content(listening[o], chatsUnacked[o], listener[o], serverCache[o], putsToAck[o], q, d, r)
           q0 == toClient[o]
           q1 == IF listener[o] = "on" /\ k \notin db THEN Append(q0, Data(k)) ELSE q0
<1>1. /\ chatsUnacked[o] \in 0 .. 1 /\ listener[o] \in {"none", "asked", "on"} /\ q0 \in Seq(ToClient)
      /\ Ack(k) \in ToClient /\ Ack(k).type = "ack" /\ Data(k) \in ToClient /\ Data(k).type = "data"
  BY DEF TypeOK, ToClient, Ack, Data
<1>2. W(q0) /\ C(q0, db, refused)
  BY DEF ContentInv
<1>3. ASSUME NEW q \in Seq(ToClient), W(q), NEW d, NEW r, C(q, d, r), k \in d \cup r, o \in A
      PROVE  W(Append(q, Ack(k))) /\ C(Append(q, Ack(k)), d, r)
  <2>1. WireAfterSend(connected[o], listening[o], chatsUnacked[o], complete[o], listener[o], toServer'[o], q, Ack(k))
    BY <1>1, <1>3, WireSend
  <2>2. ContentAfterSend(connected[o], listening[o], chatsUnacked[o], listener[o], toServer'[o], serverCache[o],
                         putsToAck[o], q, d, r, k)
    BY <1>1, <1>3, ContentSend
  <2>3. connected[o] /\ ~Asking(toServer'[o])
    BY <1>3
  <2>4. W(Append(q, Ack(k)))
    BY <1>1, <2>1, <2>3 DEF WireAfterSend
  <2>5. C(Append(q, Ack(k)), d, r)
    BY <1>3, <2>2, <2>3 DEF ContentAfterSend
  <2> QED
    BY <2>4, <2>5
<1>4. q1 \in Seq(ToClient) /\ W(q1) /\ C(q1, db \cup {k}, refused)
  <2>1. CASE listener[o] = "on" /\ k \notin db
    <3>1. WireAfterSend(connected[o], listening[o], chatsUnacked[o], complete[o], listener[o], toServer'[o], q0, Data(k))
      BY <1>1, <1>2, WireSend
    <3>2. ContentAfterSend(connected[o], listening[o], chatsUnacked[o], listener[o], toServer'[o], serverCache[o],
                           putsToAck[o], q0, db, refused, k)
      BY <1>1, <1>2, ContentSend
    <3>3. W(Append(q0, Data(k)))
      BY <1>1, <2>1, <3>1 DEF WireAfterSend
    <3>4. C(Append(q0, Data(k)), db \cup {k}, refused)
      BY <2>1, <3>2 DEF ContentAfterSend
    <3>5. Append(q0, Data(k)) \in Seq(ToClient)
      BY <1>1, AppendOf
    <3> QED
      BY <2>1, <3>3, <3>4, <3>5
  <2>2. CASE k \in db
    <3>1. db \cup {k} = db
      BY <2>2
    <3> QED
      BY <1>1, <1>2, <2>2, <3>1
  <2>3. CASE listener[o] # "on"
    <3>1. db \subseteq db \cup {k} /\ refused \subseteq refused /\ (listener[o] = "on" => db \cup {k} = db)
      BY <2>3
    <3>2. C(q0, db \cup {k}, refused)
      BY <1>2, <3>1, ContentGrows
    <3> QED
      BY <1>1, <1>2, <2>3, <3>2
  <2> QED
    BY <2>1, <2>2, <2>3
<1>5. C(q0, db, refused \cup {k})
  <2>1. db \subseteq db /\ refused \subseteq refused \cup {k} /\ (listener[o] = "on" => db = db)
    OBVIOUS
  <2> QED
    BY <1>2, <2>1, ContentGrows
<1>6. CASE /\ db' = db \cup {k} /\ refused' = refused
           /\ toClient' = [q \in Phone |->
                toClient[q]
                \o (IF listener[q] = "on" /\ k \notin db THEN <<Data(k)>> ELSE <<>>)
                \o (IF q \in A THEN <<Ack(k)>> ELSE <<>>)]
  <2>1. toClient'[o] = q0 \o (IF listener[o] = "on" /\ k \notin db THEN <<Data(k)>> ELSE <<>>)
                          \o (IF o \in A THEN <<Ack(k)>> ELSE <<>>)
    BY <1>6
  <2>2. q0 \o (IF listener[o] = "on" /\ k \notin db THEN <<Data(k)>> ELSE <<>>) = q1
    <3>1. q0 \o <<Data(k)>> = Append(q0, Data(k)) /\ q0 \o <<>> = q0
      <4> HIDE DEF q0
      <4> QED
        BY <1>1, ConcatOne
    <3> QED
      BY <3>1
  <2>3. q1 \o (IF o \in A THEN <<Ack(k)>> ELSE <<>>) = IF o \in A THEN Append(q1, Ack(k)) ELSE q1
    <3> HIDE DEF q1
    <3> QED
      BY <1>1, <1>4, ConcatOne
  <2>4. toClient'[o] = IF o \in A THEN Append(q1, Ack(k)) ELSE q1
    BY <2>1, <2>2, <2>3
  <2> HIDE DEF q1, W, C
  <2>5. W(toClient'[o]) /\ C(toClient'[o], db \cup {k}, refused)
    BY <1>3, <1>4, <2>4
  <2> QED
    BY <1>6, <2>5 DEF W, C, WireAt, ContentAt
<1>7. CASE /\ refused' = refused \cup {k} /\ db' = db
           /\ toClient' = [q \in Phone |-> IF q \in A THEN Append(toClient[q], Ack(k)) ELSE toClient[q]]
  <2>1. toClient'[o] = IF o \in A THEN Append(q0, Ack(k)) ELSE q0
    BY <1>7
  <2> HIDE DEF q1, W, C
  <2>2. W(toClient'[o]) /\ C(toClient'[o], db, refused \cup {k})
    BY <1>1, <1>2, <1>3, <1>5, <2>1
  <2> QED
    BY <1>7, <2>2 DEF W, C, WireAt, ContentAt
<1> QED
  BY <1>6, <1>7 DEF Store

\* What the server reads of a connection.
LEMMA ServerReads ==
    ASSUME TypeOK, WireInv, PendingInv, NEW p \in Phone, toServer[p] # <<>>
    PROVE  /\ connected[p] /\ ~Asking(Tail(toServer[p]))
           /\ Head(toServer[p]) = toServer[p][1] /\ Tail(toServer[p]) \in Seq(ToServer)
           /\ Head(toServer[p]).type = "put" => ~Asking(toServer[p]) /\ Head(toServer[p]).key \in Key
                                                 /\ author[Head(toServer[p]).key] = p
                                                 /\ Head(toServer[p]) = Put(Head(toServer[p]).key)
<1> DEFINE s == toServer[p]
<1>1. s \in Seq(ToServer) /\ s # <<>>
  BY DEF TypeOK
<1>2. /\ Head(s) = s[1] /\ Tail(s) \in Seq(ToServer) /\ 1 \in DOMAIN s
      /\ DOMAIN s = 1 .. Len(s) /\ DOMAIN Tail(s) = 1 .. Len(s) - 1 /\ Len(s) \in Nat \ {0}
      /\ \A i \in DOMAIN Tail(s) : Tail(s)[i] = s[i + 1]
  BY <1>1, TailOf
<1>3. Sending(p)
  BY DEF PendingInv
<1>4. connected[p]
  BY <1>1 DEF WireInv, Wire
<1>5. ~Asking(Tail(s))
  <2> SUFFICES ASSUME Tail(s) # <<>>, Tail(s)[1] = Listen PROVE FALSE
    BY DEF Asking
  <2>1. 1 \in DOMAIN Tail(s)
    BY <1>2, TailOf
  <2>2. s[2] = Listen /\ 2 \in DOMAIN s
    BY <1>2, <2>1
  <2>3. \E k \in Key : s[2] = Put(k)
    BY <1>3, <2>2 DEF Sending
  <2> QED
    BY <2>2, <2>3, PutMessage
<1>6. ASSUME Head(s).type = "put"
      PROVE  ~Asking(s) /\ Head(s).key \in Key /\ author[Head(s).key] = p /\ Head(s) = Put(Head(s).key)
  <2>1. s[1] # Listen
    BY <1>2, <1>6 DEF Listen
  <2>2. PICK k \in Key : s[1] = Put(k) /\ author[k] = p
    BY <1>2, <1>3, <2>1 DEF Sending
  <2> QED
    BY <1>2, <2>1, <2>2, PutMessage DEF Asking
<1> QED
  BY <1>2, <1>4, <1>5, <1>6

\* What is left of a dead connection.
LEMMA ServerReadsLate ==
    ASSUME TypeOK, PendingInv, NEW p \in Phone, late[p] # <<>>
    PROVE  /\ Head(late[p]).key \in Key /\ author[Head(late[p]).key] = p
           /\ Head(late[p]) = late[p][1] /\ Head(late[p]) = Put(Head(late[p]).key)
           /\ Tail(late[p]) \in Seq(ToServer)
<1>1. late[p] \in Seq(ToServer)
  BY DEF TypeOK
<1>2. Tail(late[p]) \in Seq(ToServer) /\ Head(late[p]) = late[p][1] /\ 1 \in DOMAIN late[p]
  BY <1>1, TailOf
<1>3. PICK k \in Key : late[p][1] = Put(k) /\ author[k] = p
  BY <1>2 DEF PendingInv, Sending, OwnPuts
<1> QED
  BY <1>2, <1>3, PutMessage

\* A new connection starts with the listen, if there is one.
LEMMA RestoredAsking ==
    ASSUME TypeOK, NEW p \in Phone, NEW s \in Sorted(outstanding[p], index)
    PROVE  Asking((IF listening[p] THEN <<Listen>> ELSE <<>>) \o Puts(s)) <=> listening[p]
<1>1. s \in Seq(Key) /\ Puts(s) \in Seq(ToServer) /\ Listen \in ToServer
  BY SortedFacts, IndexRanks, PutsFacts DEF TypeOK, ToServer, InRankOrder
<1>2. CASE listening[p]
  <2>1. (<<Listen>> \o Puts(s))[1] = Listen /\ Len(<<Listen>> \o Puts(s)) = 1 + Len(Puts(s)) /\ Len(Puts(s)) \in Nat
    BY <1>1
  <2> QED
    BY <1>1, <1>2, <2>1 DEF Asking
<1>3. CASE ~listening[p]
  <2>1. <<>> \o Puts(s) = Puts(s)
    BY <1>1
  <2>2. Puts(s) # <<>> => Puts(s)[1] # Listen
    <3>1. Puts(s) # <<>> => 1 \in DOMAIN Puts(s)
      BY <1>1, TailOf
    <3>2. DOMAIN Puts(s) = DOMAIN s /\ \A i \in DOMAIN s : s[i] \in Key /\ Puts(s)[i] = Put(s[i])
      BY <1>1, PutsFacts
    <3> QED
      BY <3>1, <3>2, PutMessage
  <2> QED
    BY <1>3, <2>1, <2>2 DEF Asking
<1> QED
  BY <1>2, <1>3

LEMMA ConnectionStep ==
    ASSUME TypeOK, WireInv, ContentInv, PendingInv, Next
    PROVE  WireInv' /\ ContentInv'
<1> PICK p \in Phone :
        \/ observeMessages(p) \/ childAdded(p) \/ listenOther(p)
        \/ \E k \in Key : handleSendMessage(p, k)
        \/ restoreState(p) \/ onDisconnect(p) \/ Kill(p)
        \/ Receive(p) \/ onOtherListen(p)
        \/ Serve(p) \/ answerListen(p) \/ revokeListen(p) \/ readLate(p)
  BY DEF Next
<1> DEFINE q == toClient[p]
           s == toServer[p]
<1>a. /\ WireAt(p) /\ ContentAt(p) /\ chatsUnacked[p] \in 0 .. 1 /\ listener[p] \in {"none", "asked", "on"}
      /\ q \in Seq(ToClient) /\ s \in Seq(ToServer)
  BY AtPhone
<1>w. Wire(connected[p], listening[p], chatsUnacked[p], complete[p], listener[p], s, q)
  BY <1>a DEF WireAt
<1>c. Content(listening[p], chatsUnacked[p], listener[p], serverCache[p], putsToAck[p], q, db, refused)
  BY <1>a DEF ContentAt
<1>d. ~connected[p] => q = <<>> /\ listener[p] = "none" /\ chatsUnacked[p] = 0
  BY <1>w DEF Wire
<1> HIDE DEF q, s
<1>1. CASE observeMessages(p)
  <2>1. /\ listening' = [listening EXCEPT ![p] = TRUE]
        /\ UNCHANGED <<connected, chatsUnacked, complete, listener, toServer, toClient, serverCache, putsToAck, db, refused>>
    BY <1>1 DEF observeMessages, network, backend
  <2>2. ~connected[p]
    BY <1>1 DEF observeMessages, PendingInv, Pending
  <2>3. Wire(connected[p], TRUE, chatsUnacked[p], complete[p], listener[p], s, q)
    BY <1>w, <2>2, WireObserve
  <2>4. Content(TRUE, chatsUnacked[p], "none", serverCache[p], putsToAck[p], <<>>, db, refused)
    BY <1>c, ContentBreak
  <2>5. WireAt(p)'
    BY <2>1, <2>3 DEF WireAt, q, s, TypeOK
  <2>6. ContentAt(p)'
    BY <1>d, <2>1, <2>2, <2>4 DEF ContentAt, q, TypeOK
  <2>7. \A o \in Phone \ {p} : Linked(o)' = Linked(o)
    BY <2>1 DEF Linked, TypeOK
  <2> QED
    BY <2>1, <2>5, <2>6, <2>7, ConnectionFrame
<1>2. CASE childAdded(p)
  BY <1>2 DEF childAdded, WireInv, ContentInv, network, backend
<1>3. ASSUME NEW k \in Key, handleSendMessage(p, k) PROVE WireInv' /\ ContentInv'
  <2>1. UNCHANGED <<connected, listening, chatsUnacked, complete, listener, toClient, serverCache, putsToAck, db, refused>>
    BY <1>3 DEF handleSendMessage, update, backend
  <2>2. toServer' = IF connected[p] THEN [toServer EXCEPT ![p] = Append(@, Put(k))] ELSE toServer
    BY <1>3 DEF handleSendMessage, update, putInternal
  <2>3. WireAt(p)'
    <3>1. CASE connected[p]
      <4>1. Asking(s) <=> Asking(Append(s, Put(k)))
        BY <1>a, PutMessage DEF Asking, q, s
      <4>2. Wire(connected[p], listening[p], chatsUnacked[p], complete[p], listener[p], Append(s, Put(k)), q)
        BY <1>a, <1>w, <3>1, <4>1, WireServer
      <4> QED
        BY <2>1, <2>2, <3>1, <4>2 DEF WireAt, q, s, TypeOK
    <3>2. CASE ~connected[p]
      BY <1>w, <2>1, <2>2, <3>2 DEF WireAt, q, s
    <3> QED
      BY <3>1, <3>2
  <2>4. ContentAt(p)'
    BY <1>c, <2>1 DEF ContentAt, q
  <2>5. \A o \in Phone \ {p} : Linked(o)' = Linked(o)
    BY <2>1, <2>2 DEF Linked, TypeOK
  <2> QED
    BY <2>1, <2>3, <2>4, <2>5, ConnectionFrame
<1>4. CASE restoreState(p)
  <2>1. /\ connected' = [connected EXCEPT ![p] = TRUE]
        /\ chatsUnacked' = [chatsUnacked EXCEPT ![p] = IF listening[p] THEN @ + 1 ELSE @]
        /\ UNCHANGED <<listening, complete, listener, toClient, serverCache, putsToAck, db, refused>>
        /\ ~connected[p]
    BY <1>4 DEF restoreState, backend
  <2>2. PICK x \in Sorted(outstanding[p], index) :
          toServer' = [toServer EXCEPT ![p] = (IF listening[p] THEN <<Listen>> ELSE <<>>) \o Puts(x)]
    BY <1>4 DEF restoreState
  <2> DEFINE t == (IF listening[p] THEN <<Listen>> ELSE <<>>) \o Puts(x)
  <2>3. Asking(t) <=> listening[p]
    BY RestoredAsking
  <2>4. toServer' = [toServer EXCEPT ![p] = t]
    BY <2>2
  <2> HIDE DEF t
  <2>5. Wire(FALSE, listening[p], chatsUnacked[p], complete[p], listener[p], s, q)
    BY <1>w, <2>1 DEF TypeOK
  <2>6. Wire(TRUE, listening[p], IF listening[p] THEN chatsUnacked[p] + 1 ELSE chatsUnacked[p], complete[p], listener[p], t, q)
    BY <1>a, <2>3, <2>5, WireConnect
  <2>7. Content(listening[p], IF listening[p] THEN chatsUnacked[p] + 1 ELSE chatsUnacked[p], "none", serverCache[p], putsToAck[p],
                <<>>, db, refused)
    BY <1>c, ContentBreak
  <2>8. WireAt(p)'
    BY <2>1, <2>4, <2>6 DEF WireAt, q, s, TypeOK
  <2>9. ContentAt(p)'
    BY <1>d, <2>1, <2>7 DEF ContentAt, q, TypeOK
  <2>10. \A o \in Phone \ {p} : Linked(o)' = Linked(o)
    BY <2>1, <2>4 DEF Linked, TypeOK
  <2> QED
    BY <2>1, <2>8, <2>9, <2>10, ConnectionFrame
<1>5. CASE onDisconnect(p)
  <2>1. /\ connected' = [connected EXCEPT ![p] = FALSE] /\ chatsUnacked' = [chatsUnacked EXCEPT ![p] = 0]
        /\ listener' = [listener EXCEPT ![p] = "none"]
        /\ toServer' = [toServer EXCEPT ![p] = <<>>] /\ toClient' = [toClient EXCEPT ![p] = <<>>]
        /\ UNCHANGED <<listening, complete, serverCache, putsToAck, db, refused>>
    BY <1>5 DEF onDisconnect, Break
  <2>2. Wire(FALSE, listening[p], 0, complete[p], "none", <<>>, <<>>)
    BY <1>a, <1>w, WireBreak
  <2>3. Content(listening[p], 0, "none", serverCache[p], putsToAck[p], <<>>, db, refused)
    BY <1>c, ContentBreak
  <2>4. WireAt(p)'
    BY <2>1, <2>2 DEF WireAt, TypeOK
  <2>5. ContentAt(p)'
    BY <2>1, <2>3 DEF ContentAt, TypeOK
  <2>6. \A o \in Phone \ {p} : Linked(o)' = Linked(o)
    BY <2>1 DEF Linked, TypeOK
  <2> QED
    BY <2>1, <2>4, <2>5, <2>6, ConnectionFrame
<1>6. CASE Kill(p)
  <2>1. /\ connected' = [connected EXCEPT ![p] = FALSE] /\ chatsUnacked' = [chatsUnacked EXCEPT ![p] = 0]
        /\ listener' = [listener EXCEPT ![p] = "none"]
        /\ toServer' = [toServer EXCEPT ![p] = <<>>] /\ toClient' = [toClient EXCEPT ![p] = <<>>]
        /\ listening' = [listening EXCEPT ![p] = FALSE] /\ complete' = [complete EXCEPT ![p] = FALSE]
        /\ serverCache' = [serverCache EXCEPT ![p] = {}] /\ putsToAck' = [putsToAck EXCEPT ![p] = {}]
        /\ UNCHANGED <<db, refused>>
    BY <1>6 DEF Kill, Break
  <2>4. WireAt(p)'
    BY <2>1, WireNone DEF WireAt, TypeOK
  <2>5. ContentAt(p)'
    BY <2>1, ContentNone DEF ContentAt, TypeOK
  <2>6. \A o \in Phone \ {p} : Linked(o)' = Linked(o)
    BY <2>1 DEF Linked, TypeOK
  <2> QED
    BY <2>1, <2>4, <2>5, <2>6, ConnectionFrame
<1>7. CASE Receive(p)
  BY <1>7, ReadConnection
<1>8. CASE readListen(p)
  <2>1. /\ s # <<>> /\ Head(s) = Listen
        /\ toServer' = [toServer EXCEPT ![p] = Tail(s)] /\ listener' = [listener EXCEPT ![p] = "asked"]
        /\ UNCHANGED <<connected, listening, chatsUnacked, complete, toClient, serverCache, putsToAck, db, refused>>
    BY <1>8 DEF readListen, client, s
  <2>2. connected[p] /\ ~Asking(Tail(s)) /\ Head(s) = s[1]
    BY <2>1, ServerReads DEF s
  <2>3. Asking(s)
    BY <2>1, <2>2 DEF Asking
  <2>4. Wire(connected[p], listening[p], chatsUnacked[p], complete[p], "asked", Tail(s), q)
    BY <1>a, <1>w, <2>2, <2>3, WireAsked
  <2>5. Content(listening[p], chatsUnacked[p], "asked", serverCache[p], putsToAck[p], q, db, refused)
    BY <1>c, ContentUnheard
  <2>6. WireAt(p)'
    BY <2>1, <2>4 DEF WireAt, q, TypeOK
  <2>7. ContentAt(p)'
    BY <2>1, <2>5 DEF ContentAt, q, TypeOK
  <2>8. \A o \in Phone \ {p} : Linked(o)' = Linked(o)
    BY <2>1 DEF Linked, TypeOK
  <2> QED
    BY <2>1, <2>6, <2>7, <2>8, ConnectionFrame
<1>9. CASE readPut(p)
  <2>1. /\ s # <<>> /\ Head(s).type = "put"
        /\ toServer' = [toServer EXCEPT ![p] = Tail(s)] /\ Store(Head(s).key, {p})
        /\ UNCHANGED <<connected, listening, chatsUnacked, complete, listener, serverCache, putsToAck>>
    BY <1>9 DEF readPut, client, s
  <2>2. connected[p] /\ ~Asking(Tail(s)) /\ ~Asking(s) /\ Head(s).key \in Key
    BY <2>1, ServerReads DEF s
  <2>3. Wire(connected[p], listening[p], chatsUnacked[p], complete[p], listener[p], Tail(s), q)
    BY <1>a, <1>w, <2>2, WireServer
  <2>4. ASSUME NEW o \in Phone
        PROVE  Wire(connected[o], listening[o], chatsUnacked[o], complete[o], listener[o], toServer'[o], toClient[o])
    <3>1. CASE o = p
      BY <2>1, <2>3, <3>1 DEF q, TypeOK
    <3>2. CASE o # p
      <4>1. toServer'[o] = toServer[o]
        BY <2>1, <3>2 DEF TypeOK
      <4> QED
        BY <4>1 DEF WireInv
    <3> QED
      BY <3>1, <3>2
  <2>5. \A o \in {p} : connected[o] /\ ~Asking(toServer'[o])
    BY <2>1, <2>2 DEF TypeOK
  <2>6. {p} \in SUBSET Phone
    OBVIOUS
  <2> QED
    BY <2>1, <2>2, <2>4, <2>5, <2>6, StoreConnection
<1>10. CASE answerListen(p)
  <2>1. /\ listener[p] = "asked"
        /\ UNCHANGED <<connected, listening, chatsUnacked, complete, toServer, serverCache, putsToAck, db, refused>>
    BY <1>10 DEF answerListen, client
  <2>2. CASE /\ listener' = [listener EXCEPT ![p] = "on"]
             /\ toClient' = [toClient EXCEPT ![p] = @ \o <<Snapshot(db), ListenOk>>]
    <3>1. db \in SUBSET Key
      BY DEF TypeOK
    <3>2. Wire(connected[p], listening[p], chatsUnacked[p], complete[p], "on", s, q \o <<Snapshot(db), ListenOk>>)
      BY <1>a, <1>w, <2>1, <3>1, WireAccept
    <3>3. Content(listening[p], chatsUnacked[p], "on", serverCache[p], putsToAck[p], q \o <<Snapshot(db), ListenOk>>,
                  db, refused)
      BY <1>a, <1>c, <1>w, <2>1, <3>1, ContentAccept
    <3>4. WireAt(p)'
      BY <2>1, <2>2, <3>2 DEF WireAt, q, s, TypeOK
    <3>5. ContentAt(p)'
      BY <2>1, <2>2, <3>3 DEF ContentAt, q, TypeOK
    <3>6. \A o \in Phone \ {p} : Linked(o)' = Linked(o)
      BY <2>1, <2>2 DEF Linked, TypeOK
    <3> QED
      BY <2>1, <3>4, <3>5, <3>6, ConnectionFrame
  <2>3. CASE /\ listener' = [listener EXCEPT ![p] = "none"]
             /\ toClient' = [toClient EXCEPT ![p] = Append(@, Denied)]
    <3>1. Denied \in ToClient /\ Denied.type = "denied"
      BY DEF ToClient, Denied
    <3>2. Wire(connected[p], listening[p], chatsUnacked[p], complete[p], "none", s, Append(q, Denied))
      <4>1. WireAfterSend(connected[p], listening[p], chatsUnacked[p], complete[p], listener[p], s, q, Denied)
        BY <1>a, <1>w, <3>1, WireSend
      <4> QED
        BY <2>1, <3>1, <4>1 DEF WireAfterSend
    <3>3. Content(listening[p], chatsUnacked[p], "none", serverCache[p], putsToAck[p], Append(q, Denied), db, refused)
      BY <1>a, <1>c, <1>w, <2>1, ContentDenied
    <3>4. WireAt(p)'
      BY <2>1, <2>3, <3>2 DEF WireAt, q, s, TypeOK
    <3>5. ContentAt(p)'
      BY <2>1, <2>3, <3>3 DEF ContentAt, q, TypeOK
    <3>6. \A o \in Phone \ {p} : Linked(o)' = Linked(o)
      BY <2>1, <2>3 DEF Linked, TypeOK
    <3> QED
      BY <2>1, <3>4, <3>5, <3>6, ConnectionFrame
  <2> QED
    BY <1>10, <2>2, <2>3 DEF answerListen
<1>11. CASE revokeListen(p)
  <2>1. /\ listener[p] = "on" /\ listener' = [listener EXCEPT ![p] = "none"]
        /\ toClient' = [toClient EXCEPT ![p] = Append(@, Revoked)]
        /\ UNCHANGED <<connected, listening, chatsUnacked, complete, toServer, serverCache, putsToAck, db, refused>>
    BY <1>11 DEF revokeListen, client
  <2>2. Revoked \in ToClient /\ Revoked.type = "revoked"
    BY DEF ToClient, Revoked
  <2>3. Wire(connected[p], listening[p], chatsUnacked[p], complete[p], "none", s, Append(q, Revoked))
    <3>1. WireAfterSend(connected[p], listening[p], chatsUnacked[p], complete[p], listener[p], s, q, Revoked)
      BY <1>a, <1>w, <2>2, WireSend
    <3> QED
      BY <2>1, <2>2, <3>1 DEF WireAfterSend
  <2>4. Content(listening[p], chatsUnacked[p], "none", serverCache[p], putsToAck[p], Append(q, Revoked), db, refused)
    BY <1>a, <1>c, <1>w, <2>1, ContentRevoked
  <2>5. WireAt(p)'
    BY <2>1, <2>3 DEF WireAt, q, s, TypeOK
  <2>6. ContentAt(p)'
    BY <2>1, <2>4 DEF ContentAt, q, TypeOK
  <2>7. \A o \in Phone \ {p} : Linked(o)' = Linked(o)
    BY <2>1 DEF Linked, TypeOK
  <2> QED
    BY <2>1, <2>5, <2>6, <2>7, ConnectionFrame
<1>12. CASE readLate(p)
  <2>1. /\ late[p] # <<>> /\ Store(Head(late[p]).key, {})
        /\ UNCHANGED <<connected, listening, chatsUnacked, complete, listener, toServer, serverCache, putsToAck>>
    BY <1>12 DEF readLate, client
  <2>2. Head(late[p]).key \in Key
    BY <2>1, ServerReadsLate
  <2>3. \A o \in Phone :
          Wire(connected[o], listening[o], chatsUnacked[o], complete[o], listener[o], toServer'[o], toClient[o])
    BY <2>1 DEF WireInv
  <2>4. {} \in SUBSET Phone /\ \A o \in {} : connected[o] /\ ~Asking(toServer'[o])
    OBVIOUS
  <2> QED
    BY <2>1, <2>2, <2>3, <2>4, StoreConnection
<1>13. CASE listenOther(p)
  BY <1>13 DEF listenOther, WireInv, ContentInv, network, backend
<1>14. CASE onOtherListen(p)
  <2>1. /\ UNCHANGED <<connected, listening, chatsUnacked, complete, listener, toServer, toClient, serverCache, db, refused>>
        /\ ackPuts(p)
    BY <1>14 DEF onOtherListen, network, backend
  <2>2. PICK g \in {{}, putsToAck[p]} :
          putsToAck' = [putsToAck EXCEPT ![p] = @ \ g] /\ putsToAck'[p] = putsToAck[p] \ g
    BY <2>1, Acked
  <2>3. WireAt(p)'
    BY <1>a, <2>1 DEF WireAt
  <2>4. Content(listening[p], chatsUnacked[p], listener[p], serverCache[p], putsToAck'[p], q, db, refused)
    BY <1>c, <2>2, ContentFewer
  <2>5. ContentAt(p)'
    BY <2>1, <2>4 DEF ContentAt, q
  <2>6. \A o \in Phone \ {p} : Linked(o)' = Linked(o)
    BY <2>1, <2>2 DEF Linked, TypeOK
  <2> QED
    BY <2>1, <2>3, <2>5, <2>6, ConnectionFrame
<1> QED
  BY <1>1, <1>2, <1>3, <1>4, <1>5, <1>6, <1>7, <1>8, <1>9, <1>10, <1>11, <1>12, <1>13, <1>14 DEF Serve

-----------------------------------------------------------------------------
(***************************************************************************)
(* What a sequence lists.                                                  *)
(***************************************************************************)
LEMMA ToSetTail ==
    ASSUME NEW S, NEW q \in Seq(S), q # <<>>
    PROVE  ToSet(q) = {Head(q)} \cup ToSet(Tail(q))
<1>1. /\ Head(q) = q[1] /\ 1 \in DOMAIN q /\ Len(q) \in Nat \ {0}
      /\ DOMAIN q = 1 .. Len(q) /\ DOMAIN Tail(q) = 1 .. Len(q) - 1
      /\ \A i \in DOMAIN Tail(q) : Tail(q)[i] = q[i + 1]
  BY TailOf
<1>2. ASSUME NEW i \in DOMAIN q, i # 1 PROVE q[i] \in ToSet(Tail(q))
  <2>1. i - 1 \in DOMAIN Tail(q) /\ Tail(q)[i - 1] = q[i]
    BY <1>1, <1>2
  <2> QED
    BY <2>1 DEF ToSet
<1>3. ASSUME NEW i \in DOMAIN Tail(q) PROVE Tail(q)[i] \in ToSet(q)
  <2>1. i + 1 \in DOMAIN q /\ Tail(q)[i] = q[i + 1]
    BY <1>1, <1>3
  <2> QED
    BY <2>1 DEF ToSet
<1>4. \A x : x \in ToSet(q) <=> \E i \in DOMAIN q : x = q[i]
  BY DEF ToSet
<1>5. \A x : x \in ToSet(Tail(q)) <=> \E i \in DOMAIN Tail(q) : x = Tail(q)[i]
  BY DEF ToSet
<1> QED
  BY <1>1, <1>2, <1>3, <1>4, <1>5

LEMMA ToSetConcat ==
    ASSUME NEW S, NEW q \in Seq(S), NEW t \in Seq(S)
    PROVE  ToSet(q \o t) = ToSet(q) \cup ToSet(t)
<1>1. /\ Len(q) \in Nat /\ Len(t) \in Nat
      /\ DOMAIN q = 1 .. Len(q) /\ DOMAIN t = 1 .. Len(t) /\ DOMAIN (q \o t) = 1 .. Len(q) + Len(t)
      /\ \A i \in DOMAIN q : (q \o t)[i] = q[i]
      /\ \A i \in DOMAIN t : (q \o t)[Len(q) + i] = t[i]
  BY ConcatOf
<1>2. ASSUME NEW i \in DOMAIN (q \o t) PROVE (q \o t)[i] \in ToSet(q) \cup ToSet(t)
  <2>1. CASE i \in DOMAIN q
    BY <1>1, <2>1 DEF ToSet
  <2>2. CASE i \notin DOMAIN q
    <3>1. i - Len(q) \in DOMAIN t /\ Len(q) + (i - Len(q)) = i
      BY <1>1, <2>2
    <3>2. (q \o t)[i] = t[i - Len(q)]
      BY <1>1, <3>1
    <3> QED
      BY <3>1, <3>2 DEF ToSet
  <2> QED
    BY <2>1, <2>2
<1>3. ASSUME NEW i \in DOMAIN q PROVE q[i] \in ToSet(q \o t)
  <2>1. i \in DOMAIN (q \o t)
    BY <1>1
  <2> QED
    BY <1>1, <2>1 DEF ToSet
<1>4. ASSUME NEW i \in DOMAIN t PROVE t[i] \in ToSet(q \o t)
  <2>1. Len(q) + i \in DOMAIN (q \o t)
    BY <1>1
  <2> QED
    BY <1>1, <2>1 DEF ToSet
<1>5. \A x : x \in ToSet(q \o t) <=> \E i \in DOMAIN (q \o t) : x = (q \o t)[i]
  BY DEF ToSet
<1>6. \A x : (x \in ToSet(q) <=> \E i \in DOMAIN q : x = q[i]) /\ (x \in ToSet(t) <=> \E i \in DOMAIN t : x = t[i])
  BY DEF ToSet
<1> QED
  BY <1>2, <1>3, <1>4, <1>5, <1>6

LEMMA ToSetAppend ==
    ASSUME NEW S, NEW q \in Seq(S), NEW m \in S
    PROVE  ToSet(Append(q, m)) = ToSet(q) \cup {m}
<1>1. Append(q, m) = q \o <<m>> /\ <<m>> \in Seq(S)
  BY ConcatOne
<1>2. ToSet(<<m>>) = {m}
  BY DEF ToSet
<1> DEFINE t == <<m>>
<1>3. t \in Seq(S) /\ Append(q, m) = q \o t /\ ToSet(t) = {m}
  BY <1>1, <1>2
<1> HIDE DEF t
<1>4. ToSet(q \o t) = ToSet(q) \cup ToSet(t)
  BY <1>3, ToSetConcat
<1> QED
  BY <1>3, <1>4

\* Nothing is taken from the connections to the phones, and the answer is on
\* that of the writer.
LEMMA StoreAnswers ==
    ASSUME TypeOK, NEW k \in Key, NEW A, Store(k, A), NEW o \in Phone
    PROVE  ToSet(toClient[o]) \subseteq ToSet(toClient'[o]) /\ (o \in A => Ack(k) \in ToSet(toClient'[o]))
<1> DEFINE q == toClient[o]
<1>0. q \in Seq(ToClient) /\ Ack(k) \in ToClient /\ Data(k) \in ToClient
  BY DEF TypeOK, ToClient
<1>1. /\ q \in Seq(ToClient) /\ Ack(k) \in ToClient
      /\ <<Data(k)>> \in Seq(ToClient) /\ <<Ack(k)>> \in Seq(ToClient) /\ <<>> \in Seq(ToClient)
  BY <1>0
<1>2. Ack(k) \in ToSet(<<Ack(k)>>)
  BY DEF ToSet
<1>3. CASE toClient' = [x \in Phone |->
                toClient[x]
                \o (IF listener[x] = "on" /\ k \notin db THEN <<Data(k)>> ELSE <<>>)
                \o (IF x \in A THEN <<Ack(k)>> ELSE <<>>)]
  <2> DEFINE a == IF listener[o] = "on" /\ k \notin db THEN <<Data(k)>> ELSE <<>>
             b == IF o \in A THEN <<Ack(k)>> ELSE <<>>
  <2>1. toClient'[o] = (q \o a) \o b
    BY <1>3
  <2>2. a \in Seq(ToClient) /\ b \in Seq(ToClient) /\ (o \in A => Ack(k) \in ToSet(b))
    BY <1>1, <1>2
  <2> HIDE DEF a, b, q
  <2>3. q \o a \in Seq(ToClient)
    BY <1>1, <2>2, ConcatOf
  <2>4. ToSet(q \o a) = ToSet(q) \cup ToSet(a)
    BY <1>1, <2>2, ToSetConcat
  <2>5. ToSet((q \o a) \o b) = ToSet(q \o a) \cup ToSet(b)
    <3>1. ASSUME NEW u \in Seq(ToClient) PROVE ToSet(u \o b) = ToSet(u) \cup ToSet(b)
      BY <2>2, ToSetConcat
    <3> QED
      BY <2>3, <3>1
  <2> QED
    BY <2>1, <2>2, <2>4, <2>5 DEF q
<1>4. CASE toClient' = [x \in Phone |-> IF x \in A THEN Append(toClient[x], Ack(k)) ELSE toClient[x]]
  <2>1. toClient'[o] = IF o \in A THEN Append(q, Ack(k)) ELSE q
    BY <1>4
  <2>2. ToSet(Append(q, Ack(k))) = ToSet(q) \cup {Ack(k)}
    BY <1>1, ToSetAppend
  <2> HIDE DEF q
  <2> QED
    BY <2>1, <2>2 DEF q
<1> QED
  BY <1>3, <1>4 DEF Store

-----------------------------------------------------------------------------
(***************************************************************************)
(* Every step keeps track of the writes.                                   *)
(***************************************************************************)
\* What the invariant of p's writes depends on, besides the connection to p.
Waits(p) == <<running[p], connected[p], listening[p], chatsUnacked[p], otherUnacked[p], outstanding[p], putsToAck[p], writes[p],
              toServer[p], late[p]>>

LEMMA PendingFrame ==
    ASSUME TypeOK, PendingInv, NEW p \in Phone,
           \A k \in Key : author[k] # Nobody => author'[k] = author[k],
           \A o \in Phone \ {p} : Waits(o)' = Waits(o) /\ ToSet(toClient[o]) \subseteq ToSet(toClient'[o]),
           Pending(p)', Sending(p)'
    PROVE  PendingInv'
<1>1. ASSUME NEW o \in Phone, o # p PROVE Pending(o)' /\ Sending(o)'
  <2>1. /\ running'[o] = running[o] /\ connected'[o] = connected[o] /\ listening'[o] = listening[o]
        /\ chatsUnacked'[o] = chatsUnacked[o] /\ otherUnacked'[o] = otherUnacked[o]
                  /\ outstanding'[o] = outstanding[o] /\ putsToAck'[o] = putsToAck[o]
        /\ writes'[o] = writes[o] /\ toServer'[o] = toServer[o] /\ late'[o] = late[o]
    <3>1. Waits(o)' = Waits(o)
      BY <1>1
    <3> QED
      BY <3>1 DEF Waits
  <2>2. ToSet(toClient[o]) \subseteq ToSet(toClient'[o])
    BY <1>1
  <2>3. Pending(o) /\ Sending(o) /\ o # Nobody /\ writes[o] \subseteq Key
    BY NobodyIsNoPhone DEF PendingInv, TypeOK
  <2>4. \A k \in Key : author[k] = o => author'[k] = o
    BY <2>3
  <2>5. Pending(o)'
    BY <2>1, <2>2, <2>3, <2>4 DEF Pending
  <2>6. Sending(o)'
    BY <2>1, <2>3, <2>4 DEF Sending, OwnPuts
  <2> QED
    BY <2>5, <2>6
<1> QED
  BY <1>1 DEF PendingInv

LEMMA OwnPutsTail ==
    ASSUME NEW p \in Phone, NEW s \in Seq(ToServer), s # <<>>, OwnPuts(p, s)
    PROVE  OwnPuts(p, Tail(s))
<1>1. /\ DOMAIN s = 1 .. Len(s) /\ DOMAIN Tail(s) = 1 .. Len(s) - 1 /\ Len(s) \in Nat \ {0}
      /\ \A i \in DOMAIN Tail(s) : Tail(s)[i] = s[i + 1]
  BY TailOf
<1>2. \A i \in DOMAIN Tail(s) : i + 1 \in DOMAIN s
  BY <1>1
<1> QED
  BY <1>1, <1>2 DEF OwnPuts

LEMMA OwnPutsConcat ==
    ASSUME NEW p \in Phone, NEW s \in Seq(ToServer), NEW t \in Seq(ToServer), OwnPuts(p, s), OwnPuts(p, t)
    PROVE  OwnPuts(p, s \o t)
<1>1. /\ Len(s) \in Nat /\ Len(t) \in Nat
      /\ DOMAIN s = 1 .. Len(s) /\ DOMAIN t = 1 .. Len(t) /\ DOMAIN (s \o t) = 1 .. Len(s) + Len(t)
      /\ \A i \in DOMAIN s : (s \o t)[i] = s[i]
      /\ \A i \in DOMAIN t : (s \o t)[Len(s) + i] = t[i]
  BY ConcatOf
<1>2. ASSUME NEW i \in DOMAIN (s \o t) PROVE \E k \in Key : (s \o t)[i] = Put(k) /\ author[k] = p
  <2>1. CASE i \in DOMAIN s
    BY <1>1, <2>1 DEF OwnPuts
  <2>2. CASE i \notin DOMAIN s
    <3>1. i - Len(s) \in DOMAIN t /\ Len(s) + (i - Len(s)) = i
      BY <1>1, <2>2
    <3>2. (s \o t)[i] = t[i - Len(s)]
      BY <1>1, <3>1
    <3> QED
      BY <3>1, <3>2 DEF OwnPuts
  <2> QED
    BY <2>1, <2>2
<1> QED
  BY <1>2 DEF OwnPuts

LEMMA SendingTail ==
    ASSUME TypeOK, NEW p \in Phone, Sending(p), toServer[p] # <<>>
    PROVE  OwnPuts(p, Tail(toServer[p]))
<1> DEFINE s == toServer[p]
<1>1. s \in Seq(ToServer)
  BY DEF TypeOK
<1>2. /\ DOMAIN s = 1 .. Len(s) /\ DOMAIN Tail(s) = 1 .. Len(s) - 1 /\ Len(s) \in Nat \ {0}
      /\ \A i \in DOMAIN Tail(s) : Tail(s)[i] = s[i + 1]
  BY <1>1, TailOf
<1>3. \A i \in DOMAIN Tail(s) : i + 1 \in DOMAIN s /\ i + 1 # 1
  BY <1>2
<1> QED
  BY <1>2, <1>3 DEF OwnPuts, Sending

\* What a phone sends on a new connection: all that is outstanding.
Restores(p, t) ==
    /\ \A k \in outstanding[p] : Put(k) \in ToSet(t)
    /\ \A i \in DOMAIN t : (i = 1 /\ t[i] = Listen) \/ (\E k \in Key : t[i] = Put(k) /\ author[k] = p)

LEMMA Restored ==
    ASSUME TypeOK, NEW p \in Phone, Pending(p), NEW x \in Sorted(outstanding[p], index), NEW t,
           t = (IF listening[p] THEN <<Listen>> ELSE <<>>) \o Puts(x)
    PROVE  Restores(p, t)
<1> DEFINE a == IF listening[p] THEN <<Listen>> ELSE <<>>
<1>1. /\ x \in Seq(Key) /\ ToSet(x) = outstanding[p] /\ DOMAIN x = 1 .. Len(x)
  BY SortedFacts, IndexRanks DEF TypeOK, InRankOrder
<1>2. /\ Puts(x) \in Seq(ToServer) /\ DOMAIN Puts(x) = DOMAIN x
      /\ \A i \in DOMAIN x : x[i] \in Key /\ Puts(x)[i] = Put(x[i])
  BY <1>1, PutsFacts
<1>3. a \in Seq(ToServer) /\ (\A i \in DOMAIN a : i = 1 /\ a[i] = Listen)
  <2>1. Listen \in ToServer
    BY DEF ToServer
  <2> QED
    BY <2>1
<1>4. \A k \in outstanding[p] : \E i \in DOMAIN x : x[i] = k
  BY <1>1 DEF ToSet
<1>5. \A k \in outstanding[p] : Put(k) \in ToSet(Puts(x))
  BY <1>2, <1>4 DEF ToSet
<1>6. \A i \in DOMAIN x : x[i] \in outstanding[p]
  BY <1>1 DEF ToSet
<1>7. \A i \in DOMAIN x : author[x[i]] = p
  BY <1>6 DEF Pending
<1>8. t = a \o Puts(x)
  OBVIOUS
<1> HIDE DEF a
<1>9. ToSet(t) = ToSet(a) \cup ToSet(Puts(x))
  <2>1. ASSUME NEW u \in Seq(ToServer) PROVE ToSet(a \o u) = ToSet(a) \cup ToSet(u)
    BY <1>3, ToSetConcat
  <2>2. Puts(x) \in Seq(ToServer)
    BY <1>2
  <2> QED
    BY <1>8, <2>1, <2>2
<1>10. ASSUME NEW i \in DOMAIN t
       PROVE  (i = 1 /\ t[i] = Listen) \/ (\E k \in Key : t[i] = Put(k) /\ author[k] = p)
  <2>1. /\ Len(a) \in Nat /\ Len(Puts(x)) \in Nat
        /\ DOMAIN a = 1 .. Len(a) /\ DOMAIN Puts(x) = 1 .. Len(Puts(x)) /\ DOMAIN t = 1 .. Len(a) + Len(Puts(x))
        /\ \A j \in DOMAIN a : t[j] = a[j]
        /\ \A j \in DOMAIN Puts(x) : t[Len(a) + j] = Puts(x)[j]
    BY <1>2, <1>3, <1>8, ConcatOf
  <2>2. CASE i \in DOMAIN a
    BY <1>3, <2>1, <2>2
  <2>3. CASE i \notin DOMAIN a
    <3>1. i - Len(a) \in DOMAIN Puts(x) /\ Len(a) + (i - Len(a)) = i
      BY <2>1, <2>3
    <3>2. t[i] = Puts(x)[i - Len(a)]
      BY <2>1, <3>1
    <3> QED
      BY <1>2, <1>7, <3>1, <3>2
  <2> QED
    BY <2>2, <2>3
<1> QED
  BY <1>5, <1>9, <1>10 DEF Restores

\* What the server may still read of a connection that breaks.
LEMMA BreakSending ==
    ASSUME TypeOK, NEW p \in Phone, Sending(p), Break(p), author' = author
    PROVE  Sending(p)'
<1>1. PICK n \in 0 .. Len(Unread(p)) : late' = [late EXCEPT ![p] = @ \o SubSeq(Unread(p), 1, n)]
  BY DEF Break
<1>2. /\ SubSeq(Unread(p), 1, n) \in Seq(ToServer) /\ late[p] \in Seq(ToServer)
      /\ OwnPuts(p, SubSeq(Unread(p), 1, n)) /\ OwnPuts(p, late[p])
  BY UnreadFacts DEF TypeOK, Sending
<1>3. OwnPuts(p, late[p] \o SubSeq(Unread(p), 1, n))
  BY <1>2, OwnPutsConcat
<1>4. late'[p] = late[p] \o SubSeq(Unread(p), 1, n) /\ toServer'[p] = <<>>
  BY <1>1 DEF Break, TypeOK
<1>5. OwnPuts(p, late[p])'
  <2> DEFINE t == late[p] \o SubSeq(Unread(p), 1, n)
  <2>1. OwnPuts(p, t) /\ late'[p] = t
    BY <1>3, <1>4
  <2> HIDE DEF t
  <2> QED
    BY <2>1 DEF OwnPuts
<1>6. DOMAIN toServer'[p] = {}
  BY <1>4
<1> QED
  BY <1>5, <1>6 DEF Sending


\* Passing on answers that were held back leaves the writes that wait.
LEMMA Released ==
    ASSUME NEW p \in Phone, NEW g \in {{}, putsToAck[p]}, Pending(p),
           UNCHANGED <<author, running, connected, outstanding>>,
           writes'[p] = writes[p] \ g, putsToAck'[p] = putsToAck[p] \ g,
           putsToAck'[p] # {} => unackedListensCount(p)' # 0,
           listening' = listening \/ ~listening'[p],
           \A k \in outstanding[p] : connected[p] =>
              Put(k) \in ToSet(toServer'[p]) \/ Ack(k) \in ToSet(toClient'[p])
    PROVE  Pending(p)'
<1>1. writes[p] = outstanding[p] \cup putsToAck[p] /\ outstanding[p] \cap putsToAck[p] = {}
  BY DEF Pending
<1>2. writes'[p] = outstanding'[p] \cup putsToAck'[p] /\ outstanding'[p] \cap putsToAck'[p] = {}
  BY <1>1
<1>3. \A k \in writes'[p] : author'[k] = p
  BY DEF Pending
<1>4. ~running'[p] => ~connected'[p] /\ ~listening'[p] /\ outstanding'[p] = {} /\ putsToAck'[p] = {}
  BY DEF Pending
<1> QED
  BY <1>2, <1>3, <1>4 DEF Pending

LEMMA ReadPending ==
    ASSUME TypeOK, WireInv, PendingInv, NEW p \in Phone, Receive(p)
    PROVE  PendingInv'
<1> DEFINE m == Head(toClient[p])
           Reads(type) ==
             /\ m.type = type /\ (type = "ack" => m.key \in Key)
             /\ UNCHANGED <<author, running, connected, toServer, late>> /\ Sending(p)'
             /\ \A k \in outstanding[p] : connected[p] =>
                   \/ Put(k) \in ToSet(toServer'[p]) \/ Ack(k) \in ToSet(toClient'[p])
                   \/ (type = "ack" /\ k = m.key)
             /\ \A o \in Phone \ {p} : toClient'[o] = toClient[o]
<1>1. ASSUME NEW type, onDataMessage(p, type) PROVE Reads(type)
  <2>1. /\ toClient[p] \in Seq(ToClient) /\ toClient[p] # <<>>
        /\ m \in ToClient /\ m.type = type
        /\ toClient' = [toClient EXCEPT ![p] = Tail(toClient[p])]
    BY <1>1, Reading
  <2>2. ToSet(toClient[p]) = {m} \cup ToSet(Tail(toClient[p]))
    BY <2>1, ToSetTail
  <2>3. UNCHANGED <<author, running, connected, toServer, late>>
    BY <1>1 DEF onDataMessage
  <2>4. Sending(p)'
    <3>1. Sending(p)
      BY DEF PendingInv
    <3> QED
      BY <2>3, <3>1 DEF Sending, OwnPuts
  <2>5. toClient'[p] = Tail(toClient[p]) /\ \A o \in Phone \ {p} : toClient'[o] = toClient[o]
    BY <2>1 DEF TypeOK
  <2>6. \A k : Ack(k).type = "ack" /\ Ack(k).key = k
    BY DEF Ack
  <2>7. type = "ack" => m.key \in Key
    BY <2>1, MessageFields
  <2>8. Pending(p)
    BY DEF PendingInv
  <2> HIDE DEF m
  <2>9. \A k \in outstanding[p] : connected[p] =>
                   \/ Put(k) \in ToSet(toServer'[p]) \/ Ack(k) \in ToSet(toClient'[p])
                   \/ (type = "ack" /\ k = m.key)
    BY <2>1, <2>2, <2>3, <2>5, <2>6, <2>8 DEF Pending
  <2> QED
    BY <2>1, <2>3, <2>4, <2>5, <2>7, <2>9
<1>2. /\ Pending(p) /\ author \in [Key -> Phone \cup {Nobody}]
      /\ chatsUnacked[p] \in 0 .. 1 /\ otherUnacked[p] \in Nat
  BY OthersBounded DEF PendingInv, TypeOK
<1> HIDE DEF Reads, m
<1>3. ASSUME NEW type, Reads(type), Pending(p)',
             UNCHANGED <<listening, chatsUnacked, otherUnacked, outstanding, putsToAck, writes>>
             \/ \A o \in Phone \ {p} :
                  /\ listening'[o] = listening[o] /\ chatsUnacked'[o] = chatsUnacked[o] /\ otherUnacked'[o] = otherUnacked[o]
                  /\ outstanding'[o] = outstanding[o]
                  /\ putsToAck'[o] = putsToAck[o] /\ writes'[o] = writes[o]
      PROVE  PendingInv'
  <2>1. \A k \in Key : author[k] # Nobody => author'[k] = author[k]
    BY <1>3 DEF Reads
  <2>2. \A o \in Phone \ {p} : Waits(o)' = Waits(o)
    BY <1>3 DEF Reads, Waits
  <2>3. \A o \in Phone \ {p} : ToSet(toClient[o]) \subseteq ToSet(toClient'[o])
    BY <1>3 DEF Reads
  <2>4. Sending(p)'
    BY <1>3 DEF Reads
  <2> QED
    BY <1>3, <2>1, <2>2, <2>3, <2>4, PendingFrame
<1>4. CASE onSnapshot(p)
  <2>1. Reads("snapshot") /\ UNCHANGED <<listening, chatsUnacked, otherUnacked, outstanding, putsToAck, writes>>
    BY <1>1, <1>4 DEF onSnapshot
  <2>2. Pending(p)'
    BY <1>2, <2>1 DEF Pending, Reads
  <2> QED
    BY <1>3, <2>1, <2>2
<1>5. CASE onDataUpdate(p)
  <2>1. Reads("data") /\ UNCHANGED <<listening, chatsUnacked, otherUnacked, outstanding, putsToAck, writes>>
    BY <1>1, <1>5 DEF onDataUpdate
  <2>2. Pending(p)'
    BY <1>2, <2>1 DEF Pending, Reads
  <2> QED
    BY <1>3, <2>1, <2>2
<1>6. CASE onPutResponse(p)
  <2>1. Reads("ack") /\ UNCHANGED <<listening, chatsUnacked, otherUnacked>>
    BY <1>1, <1>6 DEF onPutResponse
  <2>2. /\ outstanding' = [outstanding EXCEPT ![p] = @ \ {m.key}]
        /\ \/ m.key \in outstanding[p] /\ unackedListensCount(p) = 0 /\ writes' = [writes EXCEPT ![p] = @ \ {m.key}]
              /\ UNCHANGED putsToAck
           \/ m.key \in outstanding[p] /\ unackedListensCount(p) # 0 /\ putsToAck' = [putsToAck EXCEPT ![p] = @ \cup {m.key}]
              /\ UNCHANGED writes
           \/ m.key \notin outstanding[p] /\ UNCHANGED <<putsToAck, writes>>
    BY <1>6 DEF onPutResponse, m
  <2>3. /\ outstanding'[p] = outstanding[p] \ {m.key}
        /\ \/ m.key \in outstanding[p] /\ unackedListensCount(p) = 0 /\ writes'[p] = writes[p] \ {m.key}
              /\ putsToAck'[p] = putsToAck[p]
           \/ m.key \in outstanding[p] /\ unackedListensCount(p) # 0 /\ putsToAck'[p] = putsToAck[p] \cup {m.key}
              /\ writes'[p] = writes[p]
           \/ m.key \notin outstanding[p] /\ putsToAck'[p] = putsToAck[p] /\ writes'[p] = writes[p]
    BY <2>2 DEF TypeOK
  <2>4. \A o \in Phone \ {p} :
                  /\ listening'[o] = listening[o] /\ chatsUnacked'[o] = chatsUnacked[o] /\ otherUnacked'[o] = otherUnacked[o]
                  /\ outstanding'[o] = outstanding[o]
                  /\ putsToAck'[o] = putsToAck[o] /\ writes'[o] = writes[o]
    BY <2>1, <2>2 DEF TypeOK
  <2>5. Pending(p)'
    <3>1. /\ writes[p] = outstanding[p] \cup putsToAck[p] /\ outstanding[p] \cap putsToAck[p] = {}
          /\ \A x \in writes[p] : author[x] = p
          /\ putsToAck[p] # {} /\ connected[p] /\ listening[p] => unackedListensCount(p) # 0
          /\ ~running[p] => ~connected[p] /\ ~listening[p] /\ outstanding[p] = {} /\ putsToAck[p] = {}
      BY <1>2 DEF Pending
    <3>2. UNCHANGED <<author, running, connected, listening, chatsUnacked, otherUnacked>>
      BY <2>1 DEF Reads
    <3>3. writes'[p] = outstanding'[p] \cup putsToAck'[p] /\ outstanding'[p] \cap putsToAck'[p] = {}
      BY <2>3, <3>1
    <3>4. \A x \in writes'[p] : author'[x] = p
      BY <2>3, <3>1, <3>2
    <3>5. connected'[p] => \A x \in outstanding'[p] :
             Put(x) \in ToSet(toServer'[p]) \/ Ack(x) \in ToSet(toClient'[p])
      BY <2>1, <2>3, <3>2 DEF Reads
    <3>6. putsToAck'[p] # {} /\ connected'[p] /\ listening'[p] => unackedListensCount(p)' # 0
      BY <1>2, <2>3, <3>1, <3>2
    <3>7. ~running'[p] => ~connected'[p] /\ ~listening'[p] /\ outstanding'[p] = {} /\ putsToAck'[p] = {}
      BY <2>3, <3>1, <3>2
    <3> QED
      BY <3>3, <3>4, <3>5, <3>6, <3>7 DEF Pending
  <2> QED
    BY <1>3, <2>1, <2>4, <2>5
<1>7. CASE onListenOk(p)
  <2>1. /\ Reads("listenOk") /\ UNCHANGED <<listening, outstanding, otherUnacked>>
        /\ ackPuts(p) /\ chatsUnacked' = [chatsUnacked EXCEPT ![p] = @ - 1]
    BY <1>1, <1>7 DEF onListenOk
  <2>2. PICK g \in {{}, putsToAck[p]} :
          /\ writes' = [writes EXCEPT ![p] = @ \ g] /\ putsToAck' = [putsToAck EXCEPT ![p] = @ \ g]
          /\ writes'[p] = writes[p] \ g /\ putsToAck'[p] = putsToAck[p] \ g
          /\ putsToAck'[p] # {} => unackedListensCount(p)' # 0
    BY <2>1, Acked
  <2>4. Pending(p)'
    BY <1>2, <2>1, <2>2, Released DEF Reads
  <2>5. \A o \in Phone \ {p} :
                  /\ listening'[o] = listening[o] /\ chatsUnacked'[o] = chatsUnacked[o] /\ otherUnacked'[o] = otherUnacked[o]
                  /\ outstanding'[o] = outstanding[o]
                  /\ putsToAck'[o] = putsToAck[o] /\ writes'[o] = writes[o]
    BY <2>1, <2>2 DEF TypeOK
  <2> QED
    BY <1>3, <2>1, <2>4, <2>5
<1>8. CASE onListenDenied(p)
  <2>1. /\ Reads("denied") /\ UNCHANGED <<outstanding, otherUnacked>>
        /\ ackPuts(p) /\ chatsUnacked' = [chatsUnacked EXCEPT ![p] = @ - 1]
        /\ listening' = [listening EXCEPT ![p] = FALSE]
    BY <1>1, <1>8 DEF onListenDenied, removeListen
  <2>2. PICK g \in {{}, putsToAck[p]} :
          /\ writes' = [writes EXCEPT ![p] = @ \ g] /\ putsToAck' = [putsToAck EXCEPT ![p] = @ \ g]
          /\ writes'[p] = writes[p] \ g /\ putsToAck'[p] = putsToAck[p] \ g
          /\ putsToAck'[p] # {} => unackedListensCount(p)' # 0
    BY <2>1, Acked
  <2>3. ~listening'[p]
    BY <2>1 DEF TypeOK
  <2>4. Pending(p)'
    BY <1>2, <2>1, <2>2, <2>3, Released DEF Reads
  <2>5. \A o \in Phone \ {p} :
                  /\ listening'[o] = listening[o] /\ chatsUnacked'[o] = chatsUnacked[o] /\ otherUnacked'[o] = otherUnacked[o]
                  /\ outstanding'[o] = outstanding[o]
                  /\ putsToAck'[o] = putsToAck[o] /\ writes'[o] = writes[o]
    BY <2>1, <2>2 DEF TypeOK
  <2> QED
    BY <1>3, <2>1, <2>4, <2>5
<1>9. CASE onListenRevoked(p)
  <2>1. Reads("revoked") /\ UNCHANGED <<chatsUnacked, otherUnacked, outstanding, putsToAck, writes>>
    BY <1>1, <1>9 DEF onListenRevoked
  <2>2. listening' = [listening EXCEPT ![p] = FALSE]
    BY <1>9 DEF onListenRevoked, removeListen
  <2>3. ~listening'[p]
    BY <2>2 DEF TypeOK
  <2>4. Pending(p)'
    BY <1>2, <2>1, <2>3 DEF Pending, Reads
  <2>5. \A o \in Phone \ {p} :
                  /\ listening'[o] = listening[o] /\ chatsUnacked'[o] = chatsUnacked[o] /\ otherUnacked'[o] = otherUnacked[o]
                  /\ outstanding'[o] = outstanding[o]
                  /\ putsToAck'[o] = putsToAck[o] /\ writes'[o] = writes[o]
    BY <2>1, <2>2 DEF TypeOK
  <2> QED
    BY <1>3, <2>1, <2>4, <2>5
<1> QED
  BY <1>4, <1>5, <1>6, <1>7, <1>8, <1>9 DEF Receive


LEMMA PendingStep ==
    ASSUME TypeOK, WireInv, PendingInv, Next
    PROVE  PendingInv'
<1> PICK p \in Phone :
        \/ observeMessages(p) \/ childAdded(p) \/ listenOther(p)
        \/ \E k \in Key : handleSendMessage(p, k)
        \/ restoreState(p) \/ onDisconnect(p) \/ Kill(p)
        \/ Receive(p) \/ onOtherListen(p)
        \/ Serve(p) \/ answerListen(p) \/ revokeListen(p) \/ readLate(p)
  BY DEF Next
<1>a. /\ Pending(p) /\ Sending(p) /\ p # Nobody
      /\ toServer[p] \in Seq(ToServer) /\ toClient[p] \in Seq(ToClient)
      /\ outstanding[p] \subseteq Key /\ writes[p] \subseteq Key
  BY NobodyIsNoPhone DEF PendingInv, TypeOK
<1>1. CASE observeMessages(p)
  <2>1. /\ running' = [running EXCEPT ![p] = TRUE] /\ listening' = [listening EXCEPT ![p] = TRUE] /\ ~running[p]
        /\ UNCHANGED <<author, connected, chatsUnacked, otherUnacked, outstanding, putsToAck, writes, toServer, toClient, late>>
    BY <1>1 DEF observeMessages, network
  <2>2. running'[p] /\ putsToAck[p] = {}
    BY <1>a, <2>1 DEF Pending, TypeOK
  <2>3. Pending(p)'
    BY <1>a, <2>1, <2>2 DEF Pending
  <2>4. Sending(p)'
    BY <1>a, <2>1 DEF Sending, OwnPuts
  <2>5. \A o \in Phone \ {p} : Waits(o)' = Waits(o) /\ ToSet(toClient[o]) \subseteq ToSet(toClient'[o])
    BY <2>1 DEF Waits, TypeOK
  <2> QED
    BY <2>1, <2>3, <2>4, <2>5, PendingFrame
<1>2. CASE childAdded(p)
  <2>1. UNCHANGED <<running, author, connected, listening, chatsUnacked, otherUnacked, outstanding, putsToAck, writes,
                    toServer, toClient, late>>
    BY <1>2 DEF childAdded, network
  <2> QED
    BY <2>1 DEF PendingInv, Pending, Sending, OwnPuts
<1>3. ASSUME NEW k \in Key, handleSendMessage(p, k) PROVE PendingInv'
  <2>1. /\ running[p] /\ author[k] = Nobody
        /\ author' = [author EXCEPT ![k] = p] /\ writes' = [writes EXCEPT ![p] = @ \cup {k}]
        /\ outstanding' = [outstanding EXCEPT ![p] = @ \cup {k}]
        /\ toServer' = IF connected[p] THEN [toServer EXCEPT ![p] = Append(@, Put(k))] ELSE toServer
        /\ UNCHANGED <<running, connected, listening, chatsUnacked, otherUnacked, putsToAck, toClient, late>>
    BY <1>3, KeysOrdered DEF handleSendMessage, update, putInternal
  <2>2. /\ writes'[p] = writes[p] \cup {k} /\ outstanding'[p] = outstanding[p] \cup {k} /\ author'[k] = p
        /\ \A j \in Key : author[j] # Nobody => author'[j] = author[j]
        /\ toServer'[p] = IF connected[p] THEN Append(toServer[p], Put(k)) ELSE toServer[p]
    BY <2>1 DEF TypeOK
  <2>3. k \notin writes[p] /\ \A j \in Key : author[j] = p => author'[j] = p
    BY <1>a, <2>1, <2>2 DEF Pending
  <2>4. connected[p] => ToSet(toServer'[p]) = ToSet(toServer[p]) \cup {Put(k)}
    BY <1>a, <2>2, ToSetAppend, PutMessage
  <2>5. Pending(p)'
    <3>1. writes'[p] = outstanding'[p] \cup putsToAck'[p] /\ outstanding'[p] \cap putsToAck'[p] = {}
      BY <1>a, <2>1, <2>2, <2>3 DEF Pending
    <3>2. \A x \in writes'[p] : author'[x] = p
      BY <1>a, <2>2, <2>3 DEF Pending
    <3>3. connected'[p] => \A x \in outstanding'[p] :
             Put(x) \in ToSet(toServer'[p]) \/ Ack(x) \in ToSet(toClient'[p])
      BY <1>a, <2>1, <2>2, <2>4 DEF Pending
    <3>4. /\ putsToAck'[p] # {} /\ connected'[p] /\ listening'[p] => unackedListensCount(p)' # 0
          /\ running'[p]
      BY <1>a, <2>1 DEF Pending
    <3> QED
      BY <3>1, <3>2, <3>3, <3>4 DEF Pending
  <2>6. Sending(p)'
    <3>1. OwnPuts(p, late[p])'
      BY <1>a, <2>1, <2>3 DEF Sending, OwnPuts
    <3>2. ASSUME NEW i \in DOMAIN toServer'[p]
          PROVE  (i = 1 /\ toServer'[p][i] = Listen) \/ (\E j \in Key : toServer'[p][i] = Put(j) /\ author'[j] = p)
      <4>1. CASE i \in DOMAIN toServer[p] /\ toServer'[p][i] = toServer[p][i]
        BY <1>a, <2>3, <4>1 DEF Sending
      <4>2. CASE toServer'[p][i] = Put(k)
        BY <2>2, <4>2
      <4>3. (i \in DOMAIN toServer[p] /\ toServer'[p][i] = toServer[p][i]) \/ toServer'[p][i] = Put(k)
        <5>1. CASE connected[p]
          <6>1. toServer'[p] = Append(toServer[p], Put(k)) /\ Put(k) \in ToServer
            BY <2>2, <5>1, PutMessage
          <6>2. /\ DOMAIN toServer[p] = 1 .. Len(toServer[p]) /\ DOMAIN toServer'[p] = 1 .. Len(toServer[p]) + 1
                /\ Len(toServer[p]) \in Nat
                /\ \A j \in DOMAIN toServer[p] : toServer'[p][j] = toServer[p][j]
                /\ toServer'[p][Len(toServer[p]) + 1] = Put(k)
            BY <1>a, <6>1, AppendOf
          <6>3. i \in DOMAIN toServer[p] \/ i = Len(toServer[p]) + 1
            BY <3>2, <6>2
          <6> QED
            BY <6>2, <6>3
        <5>2. CASE ~connected[p]
          BY <2>2, <3>2, <5>2
        <5> QED
          BY <5>1, <5>2
      <4> QED
        BY <4>1, <4>2, <4>3
    <3> QED
      BY <3>1, <3>2 DEF Sending
  <2>7. \A o \in Phone \ {p} : Waits(o)' = Waits(o) /\ ToSet(toClient[o]) \subseteq ToSet(toClient'[o])
    <3>1. \A o \in Phone \ {p} : toServer'[o] = toServer[o]
      BY <2>1 DEF TypeOK
    <3> QED
      BY <2>1, <3>1 DEF Waits, TypeOK
  <2> QED
    BY <2>2, <2>5, <2>6, <2>7, PendingFrame
<1>4. CASE restoreState(p)
  <2>1. /\ running[p] /\ connected' = [connected EXCEPT ![p] = TRUE]
        /\ chatsUnacked' = [chatsUnacked EXCEPT ![p] = IF listening[p] THEN @ + 1 ELSE @]
        /\ \E n \in 0 .. MaxOthers : otherUnacked' = [otherUnacked EXCEPT ![p] = n]
        /\ UNCHANGED <<running, author, listening, outstanding, putsToAck, writes, toClient, late>>
    BY <1>4 DEF restoreState
  <2>2. PICK x \in Sorted(outstanding[p], index) :
          toServer' = [toServer EXCEPT ![p] = (IF listening[p] THEN <<Listen>> ELSE <<>>) \o Puts(x)]
    BY <1>4 DEF restoreState
  <2>3. chatsUnacked[p] = 0
    BY <1>4 DEF restoreState, WireInv, Wire
  <2>4. listening[p] => unackedListensCount(p)' # 0
    <3>1. otherUnacked'[p] \in Nat /\ (listening[p] => chatsUnacked'[p] = 1)
      BY <2>1, <2>3, OthersBounded DEF TypeOK
    <3> QED
      BY <3>1
  <2>5. toServer'[p] = (IF listening[p] THEN <<Listen>> ELSE <<>>) \o Puts(x)
    BY <2>2 DEF TypeOK
  <2>6. /\ \A k \in outstanding[p] : Put(k) \in ToSet(toServer'[p])
        /\ \A i \in DOMAIN toServer'[p] :
             (i = 1 /\ toServer'[p][i] = Listen) \/ (\E k \in Key : toServer'[p][i] = Put(k) /\ author[k] = p)
    <3> DEFINE t == toServer'[p]
    <3>1. t = (IF listening[p] THEN <<Listen>> ELSE <<>>) \o Puts(x)
      BY <2>5
    <3> HIDE DEF t
    <3>2. Restores(p, t)
      BY <1>a, <3>1, Restored
    <3> QED
      BY <3>2 DEF Restores, t
  <2>7. Pending(p)'
    BY <1>a, <2>1, <2>4, <2>6 DEF Pending
  <2>8. Sending(p)'
    BY <1>a, <2>1, <2>6 DEF Sending, OwnPuts
  <2>9. \A o \in Phone \ {p} : Waits(o)' = Waits(o) /\ ToSet(toClient[o]) \subseteq ToSet(toClient'[o])
    BY <2>1, <2>2 DEF Waits, TypeOK
  <2> QED
    BY <2>1, <2>7, <2>8, <2>9, PendingFrame
<1>5. ASSUME Break(p), author' = author, Pending(p)',
             \A o \in Phone \ {p} :
               /\ running'[o] = running[o] /\ listening'[o] = listening[o] /\ chatsUnacked'[o] = chatsUnacked[o] /\ otherUnacked'[o] = otherUnacked[o]
               /\ outstanding'[o] = outstanding[o] /\ putsToAck'[o] = putsToAck[o] /\ writes'[o] = writes[o]
      PROVE  PendingInv'
  <2>1. Sending(p)'
    BY <1>a, <1>5, BreakSending
  <2>2. \A o \in Phone \ {p} : /\ connected'[o] = connected[o] /\ toServer'[o] = toServer[o]
                               /\ toClient'[o] = toClient[o] /\ late'[o] = late[o]
    BY <1>5 DEF Break, TypeOK
  <2>3. \A o \in Phone \ {p} : Waits(o)' = Waits(o) /\ ToSet(toClient[o]) \subseteq ToSet(toClient'[o])
    BY <1>5, <2>2 DEF Waits
  <2> QED
    BY <1>5, <2>1, <2>3, PendingFrame
<1>6. CASE onDisconnect(p)
  <2>1. /\ Break(p) /\ chatsUnacked' = [chatsUnacked EXCEPT ![p] = 0] /\ otherUnacked' = [otherUnacked EXCEPT ![p] = 0]
        /\ UNCHANGED <<author, running, listening, outstanding, putsToAck, writes>>
    BY <1>6 DEF onDisconnect
  <2>2. ~connected'[p]
    BY <2>1 DEF Break, TypeOK
  <2>3. Pending(p)'
    BY <1>a, <2>1, <2>2 DEF Pending
  <2>4. \A o \in Phone \ {p} : chatsUnacked'[o] = chatsUnacked[o] /\ otherUnacked'[o] = otherUnacked[o]
    BY <2>1 DEF TypeOK
  <2> QED
    BY <1>5, <2>1, <2>3, <2>4
<1>7. CASE Kill(p)
  <2>1. /\ Break(p) /\ chatsUnacked' = [chatsUnacked EXCEPT ![p] = 0] /\ author' = author
        /\ otherUnacked' = [otherUnacked EXCEPT ![p] = 0]
        /\ running' = [running EXCEPT ![p] = FALSE] /\ listening' = [listening EXCEPT ![p] = FALSE]
        /\ outstanding' = [outstanding EXCEPT ![p] = {}] /\ putsToAck' = [putsToAck EXCEPT ![p] = {}]
        /\ writes' = [writes EXCEPT ![p] = {}]
    BY <1>7 DEF Kill
  <2>2. ~connected'[p] /\ ~listening'[p] /\ outstanding'[p] = {} /\ putsToAck'[p] = {} /\ writes'[p] = {}
    BY <2>1 DEF Break, TypeOK
  <2>3. Pending(p)'
    BY <1>a, <2>1, <2>2 DEF Pending
  <2>4. \A o \in Phone \ {p} :
               /\ running'[o] = running[o] /\ listening'[o] = listening[o] /\ chatsUnacked'[o] = chatsUnacked[o] /\ otherUnacked'[o] = otherUnacked[o]
               /\ outstanding'[o] = outstanding[o] /\ putsToAck'[o] = putsToAck[o] /\ writes'[o] = writes[o]
    BY <2>1 DEF TypeOK
  <2> QED
    BY <1>5, <2>1, <2>3, <2>4
<1>8. CASE Receive(p)
  BY <1>8, ReadPending
<1>9. ASSUME UNCHANGED client, late'[p] = late[p],
             \A o \in Phone : ToSet(toClient[o]) \subseteq ToSet(toClient'[o]),
             \A o \in Phone \ {p} : toServer'[o] = toServer[o] /\ late'[o] = late[o],
             \A k \in outstanding[p] : Put(k) \in ToSet(toServer[p]) =>
                Put(k) \in ToSet(toServer'[p]) \/ Ack(k) \in ToSet(toClient'[p]),
             toServer'[p] = toServer[p] \/ OwnPuts(p, toServer'[p])
      PROVE  PendingInv'
  <2>1. UNCHANGED <<author, running, connected, listening, chatsUnacked, otherUnacked, outstanding, putsToAck, writes>>
    BY <1>9 DEF client
  <2>2. Pending(p)'
    BY <1>a, <1>9, <2>1 DEF Pending
  <2>3. Sending(p)'
    BY <1>a, <1>9, <2>1 DEF Sending, OwnPuts
  <2>4. \A o \in Phone \ {p} : Waits(o)' = Waits(o) /\ ToSet(toClient[o]) \subseteq ToSet(toClient'[o])
    BY <1>9, <2>1 DEF Waits
  <2> QED
    BY <2>1, <2>2, <2>3, <2>4, PendingFrame
<1>10. CASE readListen(p)
  <2>1. /\ toServer[p] # <<>> /\ Head(toServer[p]) = Listen
        /\ toServer' = [toServer EXCEPT ![p] = Tail(toServer[p])] /\ UNCHANGED <<client, toClient, late>>
    BY <1>10 DEF readListen
  <2>2. ToSet(toServer[p]) = {Listen} \cup ToSet(Tail(toServer[p]))
    BY <1>a, <2>1, ToSetTail
  <2>3. toServer'[p] = Tail(toServer[p]) /\ \A o \in Phone \ {p} : toServer'[o] = toServer[o]
    BY <2>1 DEF TypeOK
  <2>4. OwnPuts(p, toServer'[p])
    BY <1>a, <2>1, <2>3, SendingTail
  <2>5. \A k \in outstanding[p] : Put(k) \in ToSet(toServer[p]) => Put(k) \in ToSet(toServer'[p])
    BY <1>a, <2>2, <2>3, PutMessage
  <2> QED
    BY <1>9, <2>1, <2>3, <2>4, <2>5
<1>11. CASE readPut(p)
  <2> DEFINE h == Head(toServer[p]).key
  <2>1. /\ toServer[p] # <<>> /\ Head(toServer[p]).type = "put" /\ Store(h, {p})
        /\ toServer' = [toServer EXCEPT ![p] = Tail(toServer[p])] /\ UNCHANGED <<client, late>>
    BY <1>11 DEF readPut
  <2>2. h \in Key /\ Head(toServer[p]) = Put(h)
    BY <2>1, ServerReads
  <2> HIDE DEF h
  <2>3. ToSet(toServer[p]) = {Put(h)} \cup ToSet(Tail(toServer[p]))
    BY <1>a, <2>1, <2>2, ToSetTail
  <2>4. toServer'[p] = Tail(toServer[p]) /\ \A o \in Phone \ {p} : toServer'[o] = toServer[o]
    BY <2>1 DEF TypeOK
  <2>5. OwnPuts(p, toServer'[p])
    BY <1>a, <2>1, <2>4, SendingTail
  <2>6. \A o \in Phone : ToSet(toClient[o]) \subseteq ToSet(toClient'[o]) /\ (o \in {p} => Ack(h) \in ToSet(toClient'[o]))
    BY <2>1, <2>2, StoreAnswers
  <2>7. \A k \in outstanding[p] : Put(k) \in ToSet(toServer[p]) =>
                Put(k) \in ToSet(toServer'[p]) \/ Ack(k) \in ToSet(toClient'[p])
    <3>1. \A k \in outstanding[p] : Put(k) = Put(h) => k = h
      BY <1>a, <2>2, PutMessage
    <3> QED
      BY <2>3, <2>4, <2>6, <3>1
  <2> QED
    BY <1>9, <2>1, <2>4, <2>5, <2>6, <2>7
<1>12. CASE answerListen(p)
  <2>1. UNCHANGED <<client, toServer, late>>
    BY <1>12 DEF answerListen
  <2>2. toClient' = [toClient EXCEPT ![p] = @ \o <<Snapshot(db), ListenOk>>] \/ toClient' = [toClient EXCEPT ![p] = Append(@, Denied)]
    BY <1>12 DEF answerListen
  <2>3. Snapshot(db) \in ToClient /\ ListenOk \in ToClient /\ Denied \in ToClient
    BY DEF TypeOK, ToClient
  <2>4. <<Snapshot(db), ListenOk>> \in Seq(ToClient)
    BY <2>3
  <2>5. /\ ToSet(toClient[p]) \subseteq ToSet(toClient[p] \o <<Snapshot(db), ListenOk>>)
        /\ ToSet(toClient[p]) \subseteq ToSet(Append(toClient[p], Denied))
    <3> DEFINE t == <<Snapshot(db), ListenOk>>
    <3>1. t \in Seq(ToClient)
      BY <2>4
    <3> HIDE DEF t
    <3>2. ToSet(toClient[p] \o t) = ToSet(toClient[p]) \cup ToSet(t)
      BY <1>a, <3>1, ToSetConcat
    <3>3. ToSet(Append(toClient[p], Denied)) = ToSet(toClient[p]) \cup {Denied}
      BY <1>a, <2>3, ToSetAppend
    <3> QED
      BY <3>2, <3>3 DEF t
  <2>6. ASSUME NEW o \in Phone PROVE ToSet(toClient[o]) \subseteq ToSet(toClient'[o])
    <3>1. CASE o # p
      BY <2>2, <3>1 DEF TypeOK
    <3>2. toClient'[p] = toClient[p] \o <<Snapshot(db), ListenOk>> \/ toClient'[p] = Append(toClient[p], Denied)
      BY <2>2 DEF TypeOK
    <3> QED
      BY <2>5, <3>1, <3>2
  <2> QED
    BY <1>9, <2>1, <2>6
<1>13. CASE revokeListen(p)
  <2>1. toClient' = [toClient EXCEPT ![p] = Append(@, Revoked)] /\ UNCHANGED <<client, toServer, late>>
    BY <1>13 DEF revokeListen
  <2>2. Revoked \in ToClient
    BY DEF ToClient
  <2>3. ToSet(Append(toClient[p], Revoked)) = ToSet(toClient[p]) \cup {Revoked}
    BY <1>a, <2>2, ToSetAppend
  <2>4. \A o \in Phone : ToSet(toClient[o]) \subseteq ToSet(toClient'[o])
    BY <2>1, <2>3 DEF TypeOK
  <2> QED
    BY <1>9, <2>1, <2>4
<1>14. CASE readLate(p)
  <2>1. /\ late[p] # <<>> /\ Store(Head(late[p]).key, {}) /\ late' = [late EXCEPT ![p] = Tail(@)]
        /\ UNCHANGED <<client, toServer>>
    BY <1>14 DEF readLate
  <2>2. Head(late[p]).key \in Key /\ late[p] \in Seq(ToServer)
    BY <2>1, ServerReadsLate DEF TypeOK
  <2>3. \A o \in Phone : ToSet(toClient[o]) \subseteq ToSet(toClient'[o])
    BY <2>1, <2>2, StoreAnswers
  <2>4. UNCHANGED <<author, running, connected, listening, chatsUnacked, otherUnacked, outstanding, putsToAck, writes>>
    BY <2>1 DEF client
  <2>5. late'[p] = Tail(late[p]) /\ \A o \in Phone \ {p} : late'[o] = late[o]
    BY <2>1 DEF TypeOK
  <2>6. OwnPuts(p, late'[p])
    BY <1>a, <2>1, <2>2, <2>5, OwnPutsTail DEF Sending
  <2>7. Pending(p)'
    BY <1>a, <2>1, <2>3, <2>4 DEF Pending
  <2>8. Sending(p)'
    BY <1>a, <2>1, <2>4, <2>6 DEF Sending, OwnPuts
  <2>9. \A o \in Phone \ {p} : Waits(o)' = Waits(o) /\ ToSet(toClient[o]) \subseteq ToSet(toClient'[o])
    BY <2>1, <2>3, <2>4, <2>5 DEF Waits
  <2> QED
    BY <2>4, <2>7, <2>8, <2>9, PendingFrame
<1>15. CASE listenOther(p)
  <2>1. /\ otherUnacked' = [otherUnacked EXCEPT ![p] = @ + 1]
        /\ UNCHANGED <<running, author, connected, listening, chatsUnacked, outstanding, putsToAck, writes,
                       toServer, toClient, late>>
    BY <1>15 DEF listenOther, network
  <2>2. otherUnacked'[p] = otherUnacked[p] + 1 /\ otherUnacked[p] \in Nat /\ chatsUnacked[p] \in 0 .. 1
    BY <2>1, OthersBounded DEF TypeOK
  <2>3. unackedListensCount(p)' # 0
    BY <2>1, <2>2
  <2>4. Pending(p)'
    BY <1>a, <2>1, <2>3 DEF Pending
  <2>5. Sending(p)'
    BY <1>a, <2>1 DEF Sending, OwnPuts
  <2>6. \A o \in Phone \ {p} : Waits(o)' = Waits(o) /\ ToSet(toClient[o]) \subseteq ToSet(toClient'[o])
    BY <2>1 DEF Waits, TypeOK
  <2> QED
    BY <2>1, <2>4, <2>5, <2>6, PendingFrame
<1>16. CASE onOtherListen(p)
  <2>1. /\ otherUnacked' = [otherUnacked EXCEPT ![p] = @ - 1] /\ ackPuts(p)
        /\ UNCHANGED <<running, author, connected, listening, chatsUnacked, outstanding, toServer, toClient, late>>
    BY <1>16 DEF onOtherListen, network
  <2>2. PICK g \in {{}, putsToAck[p]} :
          /\ writes' = [writes EXCEPT ![p] = @ \ g] /\ putsToAck' = [putsToAck EXCEPT ![p] = @ \ g]
          /\ writes'[p] = writes[p] \ g /\ putsToAck'[p] = putsToAck[p] \ g
          /\ putsToAck'[p] # {} => unackedListensCount(p)' # 0
    BY <2>1, Acked
  <2>3. \A k \in outstanding[p] : connected[p] =>
          Put(k) \in ToSet(toServer'[p]) \/ Ack(k) \in ToSet(toClient'[p])
    BY <1>a, <2>1 DEF Pending
  <2>4. Pending(p)'
    BY <1>a, <2>1, <2>2, <2>3, Released
  <2>5. Sending(p)'
    BY <1>a, <2>1 DEF Sending, OwnPuts
  <2>6. \A o \in Phone \ {p} : Waits(o)' = Waits(o) /\ ToSet(toClient[o]) \subseteq ToSet(toClient'[o])
    BY <2>1, <2>2 DEF Waits, TypeOK
  <2> QED
    BY <2>1, <2>4, <2>5, <2>6, PendingFrame
<1> QED
  BY <1>1, <1>2, <1>3, <1>4, <1>6, <1>7, <1>8, <1>10, <1>11, <1>12, <1>13, <1>14, <1>15, <1>16 DEF Serve
\* What Held says of a phone, and what another phone's step leaves of it.
Holds(p) == <<connected[p], listening[p], chatsUnacked[p], otherUnacked[p], putsToAck[p], serverCache[p]>>

LEMMA HeldFrame ==
    ASSUME HeldInv, NEW p \in Phone, refused \subseteq refused', Held(p)',
           \A o \in Phone \ {p} : Holds(o)' = Holds(o)
    PROVE  HeldInv'
<1> SUFFICES ASSUME NEW o \in Phone, o # p PROVE Held(o)'
  BY DEF HeldInv
<1>1. Held(o) /\ Holds(o)' = Holds(o)
  BY DEF HeldInv
<1> QED
  BY <1>1 DEF Held, Holds

LEMMA ReadHeld ==
    ASSUME TypeOK, WireInv, ContentInv, HeldInv, NEW p \in Phone, Receive(p)
    PROVE  HeldInv'
<1> DEFINE q == toClient[p]
<1> DEFINE Reads(type) ==
       /\ q # <<>> /\ q[1].type = type /\ Head(q) = q[1]
       /\ UNCHANGED <<connected, refused>>
<1>1. ASSUME NEW type, onDataMessage(p, type) PROVE Reads(type)
  BY <1>1, Reading DEF onDataMessage, backend
<1>2. WireAt(p) /\ ContentAt(p) /\ chatsUnacked[p] \in 0 .. 1 /\ listener[p] \in {"none", "asked", "on"}
      /\ q \in Seq(ToClient) /\ Held(p)
  BY AtPhone DEF HeldInv
<1>3. ASSUME q # <<>>
      PROVE  /\ WireAfterRead(connected[p], listening[p], chatsUnacked[p], complete[p], listener[p], toServer[p], q)
             /\ ContentAfterRead(listening[p], chatsUnacked[p], listener[p], serverCache[p], putsToAck[p], q, db, refused)
             /\ connected[p]
  <2>1. Wire(connected[p], listening[p], chatsUnacked[p], complete[p], listener[p], toServer[p], q)
    BY <1>2 DEF WireAt
  <2>2. Content(listening[p], chatsUnacked[p], listener[p], serverCache[p], putsToAck[p], q, db, refused)
    BY <1>2 DEF ContentAt
  <2>3. WireAfterRead(connected[p], listening[p], chatsUnacked[p], complete[p], listener[p], toServer[p], q)
    BY <1>2, <1>3, <2>1, WireRead
  <2>4. ContentAfterRead(listening[p], chatsUnacked[p], listener[p], serverCache[p], putsToAck[p], q, db, refused)
    BY <1>2, <1>3, <2>1, <2>2, ContentRead
  <2>5. connected[p]
    BY <1>3, <2>1 DEF Wire
  <2> QED
    BY <2>3, <2>4, <2>5
<1> HIDE DEF q, Reads
<1>4. CASE onSnapshot(p)
  <2>1. Reads("snapshot")
    BY <1>1, <1>4 DEF onSnapshot
  <2>2. /\ serverCache' = [serverCache EXCEPT ![p] = q[1].keys]
        /\ UNCHANGED <<listening, chatsUnacked, otherUnacked, putsToAck>>
    BY <1>4, <2>1 DEF onSnapshot, Reads, q
  <2>3. serverCache[p] \subseteq serverCache'[p]
    BY <1>3, <2>1, <2>2 DEF ContentAfterRead, Reads, TypeOK
  <2>4. Held(p)'
    BY <1>2, <1>3, <2>1, <2>2, <2>3 DEF Held, Reads
  <2>5. \A o \in Phone \ {p} : Holds(o)' = Holds(o)
    BY <2>1, <2>2 DEF Holds, Reads, TypeOK
  <2> QED
    BY <2>1, <2>4, <2>5, HeldFrame DEF Reads
<1>5. CASE onDataUpdate(p)
  <2>1. Reads("data")
    BY <1>1, <1>5 DEF onDataUpdate
  <2>2. /\ serverCache' = [serverCache EXCEPT ![p] = @ \cup {q[1].key}] \/ serverCache' = serverCache
        /\ UNCHANGED <<listening, chatsUnacked, otherUnacked, putsToAck>>
    BY <1>5, <2>1 DEF onDataUpdate, Reads, q
  <2>3. serverCache[p] \subseteq serverCache'[p] /\ \A o \in Phone \ {p} : serverCache'[o] = serverCache[o]
    BY <2>2 DEF TypeOK
  <2>4. Held(p)'
    BY <1>2, <1>3, <2>1, <2>2, <2>3 DEF Held, Reads
  <2>5. \A o \in Phone \ {p} : Holds(o)' = Holds(o)
    BY <2>1, <2>2, <2>3 DEF Holds, Reads
  <2> QED
    BY <2>1, <2>4, <2>5, HeldFrame DEF Reads
<1>6. CASE onPutResponse(p)
  <2>1. Reads("ack")
    BY <1>1, <1>6 DEF onPutResponse
  <2>2. /\ putsToAck' = putsToAck \/ putsToAck' = [putsToAck EXCEPT ![p] = @ \cup {q[1].key}]
        /\ UNCHANGED <<listening, chatsUnacked, otherUnacked, serverCache>>
    BY <1>6, <2>1 DEF onPutResponse, Reads, q
  <2>3. /\ putsToAck'[p] \subseteq putsToAck[p] \cup {q[1].key}
        /\ \A o \in Phone \ {p} : putsToAck'[o] = putsToAck[o]
    BY <2>2 DEF TypeOK
  <2>4. listening[p] /\ chatsUnacked[p] = 0 => q[1].key \in refused \cup serverCache[p]
    BY <1>3, <2>1 DEF ContentAfterRead, Reads
  <2>5. Held(p)'
    BY <1>2, <1>3, <2>1, <2>2, <2>3, <2>4 DEF Held, Reads
  <2>6. \A o \in Phone \ {p} : Holds(o)' = Holds(o)
    BY <2>1, <2>2, <2>3 DEF Holds, Reads
  <2> QED
    BY <2>1, <2>5, <2>6, HeldFrame DEF Reads
<1>7. CASE onListenOk(p)
  <2>1. /\ Reads("listenOk") /\ chatsUnacked' = [chatsUnacked EXCEPT ![p] = @ - 1]
        /\ UNCHANGED <<listening, otherUnacked, serverCache>> /\ ackPuts(p)
    BY <1>1, <1>7 DEF onListenOk
  <2>2. PICK g \in {{}, putsToAck[p]} :
          putsToAck' = [putsToAck EXCEPT ![p] = @ \ g] /\ putsToAck'[p] = putsToAck[p] \ g
    BY <2>1, Acked
  <2>3. putsToAck[p] \subseteq refused \cup serverCache[p]
    BY <1>3, <2>1 DEF ContentAfterRead, Reads
  <2>4. Held(p)'
    BY <1>2, <1>3, <2>1, <2>2, <2>3 DEF Held, Reads
  <2>5. \A o \in Phone \ {p} : Holds(o)' = Holds(o)
    BY <2>1, <2>2 DEF Holds, Reads, TypeOK
  <2> QED
    BY <2>1, <2>4, <2>5, HeldFrame DEF Reads
<1>8. CASE onListenDenied(p)
  <2>1. /\ Reads("denied") /\ chatsUnacked' = [chatsUnacked EXCEPT ![p] = @ - 1]
        /\ listening' = [listening EXCEPT ![p] = FALSE] /\ serverCache' = [serverCache EXCEPT ![p] = {}]
        /\ UNCHANGED otherUnacked /\ ackPuts(p)
    BY <1>1, <1>8 DEF onListenDenied, removeListen
  <2>2. PICK g \in {{}, putsToAck[p]} : putsToAck' = [putsToAck EXCEPT ![p] = @ \ g]
    BY <2>1, Acked
  <2>3. ~listening'[p]
    BY <2>1 DEF TypeOK
  <2>4. Held(p)'
    BY <1>2, <1>3, <2>1, <2>3 DEF Held, Reads
  <2>5. \A o \in Phone \ {p} : Holds(o)' = Holds(o)
    BY <2>1, <2>2 DEF Holds, Reads, TypeOK
  <2> QED
    BY <2>1, <2>4, <2>5, HeldFrame DEF Reads
<1>9. CASE onListenRevoked(p)
  <2>1. /\ Reads("revoked") /\ UNCHANGED <<chatsUnacked, otherUnacked, putsToAck>>
        /\ listening' = [listening EXCEPT ![p] = FALSE] /\ serverCache' = [serverCache EXCEPT ![p] = {}]
    BY <1>1, <1>9 DEF onListenRevoked, removeListen
  <2>2. ~listening'[p]
    BY <2>1 DEF TypeOK
  <2>3. Held(p)'
    BY <1>2, <1>3, <2>1, <2>2 DEF Held, Reads
  <2>4. \A o \in Phone \ {p} : Holds(o)' = Holds(o)
    BY <2>1 DEF Holds, Reads, TypeOK
  <2> QED
    BY <2>1, <2>3, <2>4, HeldFrame DEF Reads
<1> QED
  BY <1>4, <1>5, <1>6, <1>7, <1>8, <1>9 DEF Receive

LEMMA HeldStep ==
    ASSUME TypeOK, WireInv, ContentInv, PendingInv, HeldInv, Next
    PROVE  HeldInv'
<1> PICK p \in Phone :
        \/ observeMessages(p) \/ childAdded(p) \/ listenOther(p)
        \/ \E k \in Key : handleSendMessage(p, k)
        \/ restoreState(p) \/ onDisconnect(p) \/ Kill(p)
        \/ Receive(p) \/ onOtherListen(p)
        \/ Serve(p) \/ answerListen(p) \/ revokeListen(p) \/ readLate(p)
  BY DEF Next
<1>a. Held(p) /\ Pending(p)
  BY DEF HeldInv, PendingInv
<1>1. ASSUME UNCHANGED <<connected, listening, chatsUnacked, otherUnacked, putsToAck, serverCache>>, refused \subseteq refused'
      PROVE  HeldInv'
  BY <1>1 DEF HeldInv, Held
<1>2. CASE observeMessages(p)
  <2>1. /\ listening' = [listening EXCEPT ![p] = TRUE] /\ ~running[p]
        /\ UNCHANGED <<connected, chatsUnacked, otherUnacked, putsToAck, serverCache, refused>>
    BY <1>2 DEF observeMessages, backend
  <2>2. Held(p)'
    BY <1>a, <2>1 DEF Held, Pending
  <2>3. \A o \in Phone \ {p} : Holds(o)' = Holds(o)
    BY <2>1 DEF Holds, TypeOK
  <2> QED
    BY <2>1, <2>2, <2>3, HeldFrame
<1>3. CASE childAdded(p)
  BY <1>1, <1>3 DEF childAdded, backend
<1>4. CASE \E k \in Key : handleSendMessage(p, k)
  BY <1>1, <1>4 DEF handleSendMessage, update, backend
<1>5. CASE listenOther(p)
  <2>1. /\ connected[p] /\ otherUnacked' = [otherUnacked EXCEPT ![p] = @ + 1]
        /\ UNCHANGED <<connected, listening, chatsUnacked, putsToAck, serverCache, refused>>
    BY <1>5 DEF listenOther, backend
  <2>2. Held(p)'
    BY <1>a, <2>1 DEF Held
  <2>3. \A o \in Phone \ {p} : Holds(o)' = Holds(o)
    BY <2>1 DEF Holds, TypeOK
  <2> QED
    BY <2>1, <2>2, <2>3, HeldFrame
<1>6. CASE restoreState(p)
  <2>1. /\ connected' = [connected EXCEPT ![p] = TRUE]
        /\ chatsUnacked' = [chatsUnacked EXCEPT ![p] = IF listening[p] THEN @ + 1 ELSE @]
        /\ \E n \in 0 .. MaxOthers : otherUnacked' = [otherUnacked EXCEPT ![p] = n]
        /\ UNCHANGED <<listening, putsToAck, serverCache, refused>>
    BY <1>6 DEF restoreState, backend
  <2>2. connected'[p] /\ (listening[p] => chatsUnacked'[p] # 0)
    <3>1. chatsUnacked[p] \in 0 .. 1 /\ (listening[p] => chatsUnacked'[p] = chatsUnacked[p] + 1)
      BY <2>1 DEF TypeOK
    <3> QED
      BY <2>1, <3>1 DEF TypeOK
  <2>3. Held(p)'
    BY <2>1, <2>2 DEF Held
  <2>4. \A o \in Phone \ {p} : Holds(o)' = Holds(o)
    BY <2>1 DEF Holds, TypeOK
  <2> QED
    BY <2>1, <2>3, <2>4, HeldFrame
<1>7. CASE onDisconnect(p)
  <2>1. /\ connected' = [connected EXCEPT ![p] = FALSE] /\ chatsUnacked' = [chatsUnacked EXCEPT ![p] = 0]
        /\ otherUnacked' = [otherUnacked EXCEPT ![p] = 0]
        /\ UNCHANGED <<listening, putsToAck, serverCache, refused>>
    BY <1>7 DEF onDisconnect, Break
  <2>2. ~connected'[p] /\ otherUnacked'[p] = 0
    BY <2>1 DEF TypeOK
  <2>3. Held(p)'
    BY <2>2 DEF Held
  <2>4. \A o \in Phone \ {p} : Holds(o)' = Holds(o)
    BY <2>1 DEF Holds, TypeOK
  <2> QED
    BY <2>1, <2>3, <2>4, HeldFrame
<1>8. CASE Kill(p)
  <2>1. /\ connected' = [connected EXCEPT ![p] = FALSE] /\ chatsUnacked' = [chatsUnacked EXCEPT ![p] = 0]
        /\ otherUnacked' = [otherUnacked EXCEPT ![p] = 0] /\ listening' = [listening EXCEPT ![p] = FALSE]
        /\ putsToAck' = [putsToAck EXCEPT ![p] = {}] /\ serverCache' = [serverCache EXCEPT ![p] = {}]
        /\ UNCHANGED refused
    BY <1>8 DEF Kill, Break
  <2>2. ~connected'[p] /\ otherUnacked'[p] = 0
    BY <2>1 DEF TypeOK
  <2>3. Held(p)'
    BY <2>2 DEF Held
  <2>4. \A o \in Phone \ {p} : Holds(o)' = Holds(o)
    BY <2>1 DEF Holds, TypeOK
  <2> QED
    BY <2>1, <2>3, <2>4, HeldFrame
<1>9. CASE Receive(p)
  BY <1>9, ReadHeld
<1>10. CASE onOtherListen(p)
  <2>1. /\ otherUnacked[p] > 0 /\ otherUnacked' = [otherUnacked EXCEPT ![p] = @ - 1] /\ ackPuts(p)
        /\ UNCHANGED <<connected, listening, chatsUnacked, serverCache, refused>>
    BY <1>10 DEF onOtherListen, backend
  <2>2. PICK g \in {{}, putsToAck[p]} :
          putsToAck' = [putsToAck EXCEPT ![p] = @ \ g] /\ putsToAck'[p] = putsToAck[p] \ g
    BY <2>1, Acked
  <2>3. connected[p]
    BY <1>a, <2>1 DEF Held
  <2>4. Held(p)'
    BY <1>a, <2>1, <2>2, <2>3 DEF Held
  <2>5. \A o \in Phone \ {p} : Holds(o)' = Holds(o)
    BY <2>1, <2>2 DEF Holds, TypeOK
  <2> QED
    BY <2>1, <2>4, <2>5, HeldFrame
<1>11. CASE readListen(p) \/ answerListen(p) \/ revokeListen(p)
  BY <1>1, <1>11 DEF readListen, answerListen, revokeListen, client
<1>12. CASE readPut(p) \/ readLate(p)
  BY <1>1, <1>12 DEF readPut, readLate, Store, client
<1> QED
  BY <1>2, <1>3, <1>4, <1>5, <1>6, <1>7, <1>8, <1>9, <1>10, <1>11, <1>12 DEF Serve
=============================================================================
