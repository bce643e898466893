------------------------------ MODULE RecentChats ------------------------------
(***************************************************************************)
(* The table of recent chats on Home: rows filled by cellForRowAt, whose     *)
(* lookup of the receiver's name writes into the cell when it is answered,   *)
(* whatever row the cell shows by then.  The table view gives its cells out  *)
(* again when rows scroll away and at every reloadData, and does not clear   *)
(* them.  A chat is its receiver.                                            *)
(***************************************************************************)
EXTENDS Integers, Sequences, SequencesExt

CONSTANTS Receivers,   \* values of chat.receiver
          TableCells,  \* RecentChatTableViewCell objects
          MaxChats,    \* bound: chats
          MaxLookups   \* bound: lookups without an answer

VARIABLES
    chats,     \* HomeViewController.chats
    table,     \* UITableView: rows at the last reload, the row of each cell (0: in the pool), reloads on the main queue
    username,  \* usernameLabel of each cell
    lookups,   \* observeSingleEvent without an answer, in the order of the calls
    last       \* history: for each cell, what has become of the lookup of the row it shows

tablevars == <<chats, table, username, lookups, last>>

None == "none"
Visible(c) == table.row[c] # 0

Init ==
    /\ chats = <<>>
    /\ table = [rows |-> 0, row |-> [c \in TableCells |-> 0], reloads |-> 0]
    /\ username = [c \in TableCells |-> None]
    /\ lookups = <<>>
    /\ last = [c \in TableCells |-> "open"]

\* the block of observeMessages
childAdded(receiver) ==
    /\ Len(chats) < MaxChats
    /\ chats' = Append(chats, receiver)
    /\ table' = [table EXCEPT !.reloads = @ + 1]
    /\ UNCHANGED <<username, lookups, last>>

reloadData ==
    /\ table.reloads > 0
    /\ table' = [rows |-> Len(chats), row |-> [c \in TableCells |-> 0], reloads |-> table.reloads - 1]
    /\ UNCHANGED <<chats, username, lookups, last>>

ScrollAway(c) ==
    /\ Visible(c)
    /\ table' = [table EXCEPT !.row[c] = 0]
    /\ UNCHANGED <<chats, username, lookups, last>>

\* Any cell of the pool, for any row that is not on the screen.
cellForRowAt(c, r) ==
    /\ ~Visible(c) /\ Len(lookups) < MaxLookups
    /\ \A d \in TableCells : table.row[d] # r
    /\ table' = [table EXCEPT !.row[c] = r]
    /\ lookups' = Append(lookups, [cell |-> c, user |-> chats[r]])
    /\ last' = [last EXCEPT ![c] = "open"]
    /\ UNCHANGED <<chats, username>>

OnlyIfBlank(c, name) == IF username[c] = None THEN name ELSE username[c]
\* cell.usernameLabel?.text = ..., without a question
Written(c, name) == name

\* Lookups of one user are answered in order, those of different users in any order.
Answerable(i) == \A j \in 1 .. i - 1 : lookups[j].user # lookups[i].user
LastOfCell(i) == \A j \in i + 1 .. Len(lookups) : lookups[j].cell # lookups[i].cell

\* found: there is a profile, and the rules let it be read
Answer(i, found) ==
    /\ Answerable(i)
    /\ LET l == lookups[i]
           own == LastOfCell(i) /\ last[l.cell] = "open"
       IN  /\ username' = IF found THEN [username EXCEPT ![l.cell] = Written(l.cell, l.user)] ELSE username
           /\ last' = [last EXCEPT ![l.cell] = IF own THEN (IF found THEN "written" ELSE "not found")
                                               ELSE IF @ = "written" /\ found THEN "overwritten" ELSE @]
    /\ lookups' = RemoveAt(lookups, i)
    /\ UNCHANGED <<chats, table>>

Next ==
    \/ \E receiver \in Receivers : childAdded(receiver)
    \/ reloadData
    \/ \E c \in TableCells : ScrollAway(c) \/ \E r \in 1 .. table.rows : cellForRowAt(c, r)
    \/ \E i \in 1 .. Len(lookups), found \in BOOLEAN : Answer(i, found)

Spec == Init /\ [][Next]_tablevars

-----------------------------------------------------------------------------
TypeOK ==
    /\ table.rows \in 0 .. Len(chats) /\ table.row \in [TableCells -> 0 .. table.rows]
    /\ username \in [TableCells -> Receivers \cup {None}]

(* A row shows the name of its own receiver from the answer of its lookup   *)
(* on, in cells used for any number of rows before, until an answer that an *)
(* earlier row of the cell was still waiting for comes later and puts       *)
(* another name there, which then stays (last is "overwritten"): the block  *)
(* does not ask which row the cell shows.                                   *)
NameRight ==
    \A c \in TableCells : Visible(c) /\ last[c] = "written" => username[c] = chats[table.row[c]]
=============================================================================
