----------------------------- MODULE ChatBoard ------------------------------
(***************************************************************************)
(* What the list of chats promises, with no connections, caches, repeats   *)
(* or queues: a board that only grows, and on every phone a list to which  *)
(* messages are only ever appended.                                        *)
(***************************************************************************)
EXTENDS Naturals, Sequences

CONSTANTS Phone, Key, Nobody

VARIABLES
    author,   \* who wrote a message
    board,    \* the messages stored
    refused,  \* the messages that the board would not take, at least once
    shown     \* the list of each phone

vars == <<author, board, refused, shown>>

Init ==
    /\ author = [k \in Key |-> Nobody]
    /\ board = {}
    /\ refused = {}
    /\ shown = [p \in Phone |-> <<>>]

Lists(s, k) == \E i \in DOMAIN s : s[i] = k

\* The list of p grows by messages that are on the board or p's own, none of
\* which it has already, except one that was refused in between.
Grow(p) ==
    LET old == shown[p]
        new == shown'[p]
    IN  /\ Len(old) <= Len(new)
        /\ SubSeq(new, 1, Len(old)) = old
        /\ \A i \in (Len(old) + 1)..Len(new) :
              /\ new[i] \in board \/ author'[new[i]] = p
              /\ Lists(SubSeq(new, 1, i - 1), new[i]) => new[i] \in refused
        /\ \A q \in Phone \ {p} : shown'[q] = shown[q]

\* p writes k and may see it at once.
Write(p, k) ==
    /\ author[k] = Nobody
    /\ author' = [author EXCEPT ![k] = p]
    /\ Grow(p)
    /\ UNCHANGED <<board, refused>>

Show(p) == Grow(p) /\ UNCHANGED <<author, board, refused>>

\* The app is restarted with an empty list.
Clear(p) ==
    /\ shown' = [shown EXCEPT ![p] = <<>>]
    /\ UNCHANGED <<author, board, refused>>

Post(k) ==
    /\ author[k] # Nobody
    /\ board' = board \cup {k}
    /\ UNCHANGED <<author, refused, shown>>

Refuse(k) ==
    /\ author[k] # Nobody
    /\ refused' = refused \cup {k}
    /\ UNCHANGED <<author, board, shown>>

Next ==
    \/ \E p \in Phone : Show(p) \/ Clear(p) \/ \E k \in Key : Write(p, k)
    \/ \E k \in Key : Post(k) \/ Refuse(k)

Spec == Init /\ [][Next]_vars
=============================================================================
