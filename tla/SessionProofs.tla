--------------------------- MODULE SessionProofs ---------------------------
(***************************************************************************)
(* Proofs about Session for any number of accounts, passwords, objects and *)
(* requests in flight.                                                     *)
(***************************************************************************)
EXTENDS Session, TLAPS

-----------------------------------------------------------------------------
(***************************************************************************)
(* What presenting and dismissing do to the stacks that can occur.         *)
(***************************************************************************)

\* The objects of a stack of at most three screens.
LEMMA Objects0 == Objects(<<>>) = {}
BY DEF Objects

LEMMA Objects1 == ASSUME NEW x PROVE Objects(<<x>>) = {x}
BY DEF Objects

LEMMA Objects2 == ASSUME NEW x, NEW y PROVE Objects(<<x, y>>) = {x, y}
<1>1. DOMAIN <<x, y>> = {1, 2}
  OBVIOUS
<1> QED
  BY <1>1 DEF Objects

LEMMA Objects3 ==
    ASSUME NEW x, NEW y, NEW z PROVE Objects(<<x, y, z>>) = {x, y, z}
<1>1. DOMAIN <<x, y, z>> = {1, 2, 3}
  OBVIOUS
<1> QED
  BY <1>1 DEF Objects

\* The lower part of a stack of at most three screens.
LEMMA Below21 == ASSUME NEW x, NEW y PROVE SubSeq(<<x, y>>, 1, 1) = <<x>>
<1>1. SubSeq(<<x, y>>, 1, 1) = [i \in 1 .. 1 |-> <<x, y>>[i]]
  OBVIOUS
<1>2. @ = <<x>>
  OBVIOUS
<1> QED
  BY <1>1, <1>2

LEMMA Below31 ==
    ASSUME NEW x, NEW y, NEW z PROVE SubSeq(<<x, y, z>>, 1, 1) = <<x>>
<1>1. SubSeq(<<x, y, z>>, 1, 1) = [i \in 1 .. 1 |-> <<x, y, z>>[i]]
  OBVIOUS
<1>2. @ = <<x>>
  OBVIOUS
<1> QED
  BY <1>1, <1>2

LEMMA Below32 ==
    ASSUME NEW x, NEW y, NEW z PROVE SubSeq(<<x, y, z>>, 1, 2) = <<x, y>>
<1>1. SubSeq(<<x, y, z>>, 1, 2) = [i \in 1 .. 2 |-> <<x, y, z>>[i]]
  OBVIOUS
<1>2. @ = <<x, y>>
  OBVIOUS
<1> QED
  BY <1>1, <1>2

\* One more screen on a stack of one or two.
LEMMA Onto1 == ASSUME NEW x, NEW y PROVE Append(<<x>>, y) = <<x, y>>
<1>1. Append(<<x>>, y) = [i \in 1 .. 2 |-> IF i = 2 THEN y ELSE <<x>>[i]]
  OBVIOUS
<1>2. @ = <<x, y>>
  OBVIOUS
<1> QED
  BY <1>1, <1>2

LEMMA Onto2 ==
    ASSUME NEW x, NEW y, NEW z PROVE Append(<<x, y>>, z) = <<x, y, z>>
<1>1. Append(<<x, y>>, z) = [i \in 1 .. 3 |-> IF i = 3 THEN z ELSE <<x, y>>[i]]
  OBVIOUS
<1>2. @ = <<x, y, z>>
  OBVIOUS
<1> QED
  BY <1>1, <1>2

\* The kinds of screens are different from one another.
LEMMA LoginKind ==
    ASSUME NEW l \in LoginVC
    PROVE  /\ l \notin RegisterVC
           /\ l # "Home" /\ l # "Alert" /\ l # "Picker" /\ l # "NewMessage"
           /\ l # Nil
BY ObjectsDistinct DEF Screen

LEMMA RegisterKind ==
    ASSUME NEW r \in RegisterVC
    PROVE  /\ r \notin LoginVC
           /\ r # "Home" /\ r # "Alert" /\ r # "Picker" /\ r # "NewMessage"
           /\ r # Nil
BY ObjectsDistinct DEF Screen

\* The shapes of Nested as one disjunction to split on.
LEMMA Shapes ==
    ASSUME ScreensNest
    PROVE  \/ presented = <<>>
           \/ presented = <<"NewMessage">>
           \/ \E l \in LoginVC : presented = <<l>>
           \/ \E l \in LoginVC : presented = <<l, "Alert">>
           \/ \E l \in LoginVC, r \in RegisterVC : presented = <<l, r>>
           \/ \E l \in LoginVC, r \in RegisterVC : presented = <<l, r, "Picker">>
BY DEF ScreensNest, Nested

\* dismiss() by a Login: it takes away what lies above this Login, or, if
\* nothing does, the Login itself; an earlier Login changes nothing.
LEMMA DismissLogin ==
    ASSUME ScreensNest, NEW l \in LoginVC
    PROVE  \/ l \notin OnScreen /\ DismissFrom(l) = presented
           \/ presented = <<l>> /\ DismissFrom(l) = <<>>
           \/ l \in OnScreen /\ DismissFrom(l) = <<l>>
<1>a. l \notin RegisterVC /\ l # "Home" /\ l # "Alert" /\ l # "Picker" /\ l # "NewMessage"
  BY LoginKind
<1>1. CASE l \notin OnScreen
  BY <1>1 DEF DismissFrom
<1>2. CASE presented = <<l>>
  BY <1>2, Objects1 DEF DismissFrom, OnScreen, Top
<1>3. ASSUME NEW x, x # l, presented = <<l, x>>
      PROVE  l \in OnScreen /\ DismissFrom(l) = <<l>>
  <2>1. l # Top
    BY <1>3 DEF Top
  <2>2. OnScreen = {l, x}
    BY <1>3, Objects2 DEF OnScreen
  <2>3. (CHOOSE i \in DOMAIN presented : presented[i] = l) = 1
    BY <1>3
  <2> QED
    BY <1>3, <2>1, <2>2, <2>3, Below21 DEF DismissFrom
<1>4. ASSUME NEW x, NEW y, x # l, y # l, presented = <<l, x, y>>
      PROVE  l \in OnScreen /\ DismissFrom(l) = <<l>>
  <2>1. l # Top
    BY <1>4 DEF Top
  <2>2. OnScreen = {l, x, y}
    BY <1>4, Objects3 DEF OnScreen
  <2>3. (CHOOSE i \in DOMAIN presented : presented[i] = l) = 1
    BY <1>4
  <2> QED
    BY <1>4, <2>1, <2>2, <2>3, Below31 DEF DismissFrom
<1>5. CASE presented = <<>> \/ presented = <<"NewMessage">>
  BY <1>1, <1>5, <1>a, Objects0, Objects1 DEF OnScreen
<1>6. ASSUME NEW k \in LoginVC, presented = <<k>> \/ presented = <<k, "Alert">>
      PROVE  k = l \/ l \notin OnScreen
  BY <1>6, <1>a, Objects1, Objects2 DEF OnScreen
<1>7. ASSUME NEW k \in LoginVC, NEW r \in RegisterVC,
             presented = <<k, r>> \/ presented = <<k, r, "Picker">>
      PROVE  k = l \/ l \notin OnScreen
  BY <1>7, <1>a, Objects2, Objects3 DEF OnScreen
<1> QED
  BY <1>1, <1>2, <1>3, <1>4, <1>5, <1>6, <1>7, <1>a, Shapes

\* dismiss() by a Register: at most the picker or the Register itself goes,
\* never the Login below.
LEMMA DismissRegister ==
    ASSUME ScreensNest, NEW r \in RegisterVC
    PROVE  \/ r \notin OnScreen /\ DismissFrom(r) = presented
           \/ \E l \in LoginVC : presented = <<l, r>> /\ DismissFrom(r) = <<l>>
           \/ \E l \in LoginVC : /\ presented = <<l, r, "Picker">>
                                 /\ DismissFrom(r) = <<l, r>>
<1>a. r \notin LoginVC /\ r # "Home" /\ r # "Alert" /\ r # "Picker" /\ r # "NewMessage"
  BY RegisterKind
<1>1. CASE r \notin OnScreen
  BY <1>1 DEF DismissFrom
<1>2. ASSUME NEW l \in LoginVC, presented = <<l, r>> PROVE DismissFrom(r) = <<l>>
  BY <1>2, Objects2, Below21 DEF DismissFrom, OnScreen, Top
<1>3. ASSUME NEW l \in LoginVC, presented = <<l, r, "Picker">>
      PROVE  DismissFrom(r) = <<l, r>>
  <2>1. r # Top
    BY <1>3, <1>a DEF Top
  <2>2. OnScreen = {l, r, "Picker"}
    BY <1>3, Objects3 DEF OnScreen
  <2>3. (CHOOSE i \in DOMAIN presented : presented[i] = r) = 2
    BY <1>3, <1>a
  <2> QED
    BY <1>3, <2>1, <2>2, <2>3, Below32 DEF DismissFrom
<1>5. CASE presented = <<>> \/ presented = <<"NewMessage">>
  BY <1>1, <1>5, <1>a, Objects0, Objects1 DEF OnScreen
<1>6. ASSUME NEW k \in LoginVC, presented = <<k>> \/ presented = <<k, "Alert">>
      PROVE  r \notin OnScreen
  BY <1>6, <1>a, Objects1, Objects2 DEF OnScreen
<1>7. ASSUME NEW k \in LoginVC, NEW q \in RegisterVC,
             presented = <<k, q>> \/ presented = <<k, q, "Picker">>
      PROVE  q = r \/ r \notin OnScreen
  BY <1>7, <1>a, Objects2, Objects3 DEF OnScreen
<1> QED
  BY <1>1, <1>2, <1>3, <1>5, <1>6, <1>7, Shapes

\* The alert and the sheet of users are dismissed from on top.
LEMMA DismissAlert ==
    ASSUME ScreensNest, Top = "Alert"
    PROVE  \E l \in LoginVC : /\ presented = <<l, "Alert">>
                              /\ DismissFrom("Alert") = <<l>>
<1>1. \E l \in LoginVC : presented = <<l, "Alert">>
  BY Shapes, LoginKind, RegisterKind DEF Top
<1>2. ASSUME NEW l \in LoginVC, presented = <<l, "Alert">>
      PROVE  DismissFrom("Alert") = <<l>>
  BY <1>2, Objects2, Below21 DEF DismissFrom, OnScreen, Top
<1> QED
  BY <1>1, <1>2

LEMMA DismissSheet ==
    ASSUME ScreensNest, Top = "NewMessage"
    PROVE  presented = <<"NewMessage">> /\ DismissFrom("NewMessage") = <<>>
<1>1. presented = <<"NewMessage">>
  BY Shapes, LoginKind, RegisterKind DEF Top
<1> QED
  BY <1>1, Objects1 DEF DismissFrom, OnScreen, Top

\* What lies on top tells the whole stack.
LEMMA TopTells ==
    ASSUME ScreensNest
    PROVE  /\ Top = "Home" <=> presented = <<>>
           /\ \A l \in LoginVC : Top = l <=> presented = <<l>>
           /\ \A r \in RegisterVC :
                 Top = r => \E l \in LoginVC : presented = <<l, r>>
BY Shapes, LoginKind, RegisterKind DEF Top

\* There is at most one Login on screen.
LEMMA OneLogin ==
    ASSUME ScreensNest, NEW k \in LoginVC, NEW l \in LoginVC,
           k \in OnScreen, l \in OnScreen
    PROVE  k = l
<1>1. ASSUME NEW m \in LoginVC, presented = <<m>> \/ presented = <<m, "Alert">>
      PROVE  OnScreen \cap LoginVC = {m}
  BY <1>1, Objects1, Objects2, LoginKind DEF OnScreen
<1>2. ASSUME NEW m \in LoginVC, NEW r \in RegisterVC,
             presented = <<m, r>> \/ presented = <<m, r, "Picker">>
      PROVE  OnScreen \cap LoginVC = {m}
  BY <1>2, Objects2, Objects3, LoginKind, RegisterKind DEF OnScreen
<1>3. presented # <<>> /\ presented # <<"NewMessage">>
  BY Objects0, Objects1, LoginKind DEF OnScreen
<1> QED
  BY <1>1, <1>2, <1>3, Shapes

-----------------------------------------------------------------------------
(***************************************************************************)
(* The actions one by one: every case split below runs over this list.     *)
(***************************************************************************)
Step ==
    \/ Launch \/ Kill
    \/ \E l \in LoginVC, s \in Slot, a \in Account, p \in Password :
            loginButton(l, s, a, p)
    \/ \E l \in LoginVC, r \in RegisterVC : showRegister(l, r)
    \/ okayAction
    \/ \E r \in RegisterVC, s \in Slot, a \in Account, p \in Password :
          registerButtonPressed(r, s, a, p)
    \/ \E r \in RegisterVC : backButtonPressed(r)
    \/ \E r \in RegisterVC : handleSelectProfileImageView(r)
    \/ \E r \in RegisterVC : didFinishPicking(r)
    \/ \E r \in RegisterVC : imagePickerControllerDidCancel(r)
    \/ \E l \in LoginVC : logoutButtonPressed(l)
    \/ newMessageButtonPressed \/ dismissNewMessage
    \/ chatLogButtonPressed \/ popChatLog \/ handleSendMessage
    \/ \E s \in Slot : serveSignIn(s)
    \/ \E s \in Slot : serveCreate(s)
    \/ \E s \in Slot : serveUpload(s)
    \/ \E s \in Slot : serveUrl(s)
    \/ \E s \in Slot : serveWrite(s)
    \/ \E s \in Slot : serveFetch(s)
    \/ \E s \in Slot : Timeout(s)
    \/ \E s, d \in Slot : LateArrival(s, d)
    \/ \E a \in Account : Disable(a)
    \/ \E s \in Slot : receiveAuth(s)
    \/ \E s \in Slot : receiveOther(s)
    \/ signOutByForce
    \/ \E s \in Slot : authenticateDone(s)
    \/ \E s \in Slot : createUserDone(s)
    \/ \E s \in Slot : putDataDone(s)
    \/ \E s \in Slot : downloadURLDone(s)
    \/ \E s \in Slot : updateChildValuesDone(s)
    \/ \E s \in Slot : fetchUserDone(s)

LEMMA NextIsStep == Next => Step
BY DEF Next, Step, Login, Register, Home, Network, Serve, Receive, RunMain

\* Requests stay requests under the updates the actions make.
LEMMA RequestTypes ==
    ASSUME TypeOK, NEW s \in Slot
    PROVE  /\ Idle \in Request
           /\ \A op \in Op, vc \in LoginVC \cup RegisterVC \cup {"Home", Nil},
                 a \in Account \cup {Nil}, p \in Password \cup {Nil} :
                    Call(op, vc, a, p) \in Request
           /\ \A op \in Op : Continue(s, op) => req' \in [Slot -> Request]
           /\ Finish(s) => req' \in [Slot -> Request]
           /\ \A ok \in BOOLEAN : Reply(s, ok) => req' \in [Slot -> Request]
           /\ \A ok \in BOOLEAN : Enqueue(s, ok) =>
                 req' \in [Slot -> Request] /\ mainQueue' \in Seq(Slot)
           /\ \A op \in Op : RunNext(s, op) => mainQueue' \in Seq(Slot)
<1>0. req \in [Slot -> Request] /\ mainQueue \in Seq(Slot)
  BY DEF TypeOK
<1>1. Idle \in Request
  BY DEF Idle, Request, Op, HttpOp, AuthOp, Stage
<1>2. ASSUME NEW op \in Op, NEW vc \in LoginVC \cup RegisterVC \cup {"Home", Nil},
             NEW a \in Account \cup {Nil}, NEW p \in Password \cup {Nil}
      PROVE  Call(op, vc, a, p) \in Request
  BY DEF Call, Request, Stage
<1>3. ASSUME NEW op \in Op, Continue(s, op) PROVE req' \in [Slot -> Request]
  <2>1. [req[s] EXCEPT !.op = op, !.stage = "sent", !.ok = FALSE] \in Request
    BY <1>0 DEF Request, Stage
  <2> QED
    BY <1>0, <1>3, <2>1 DEF Continue
<1>4. ASSUME Finish(s) PROVE req' \in [Slot -> Request]
  BY <1>0, <1>1, <1>4 DEF Finish
<1>5. ASSUME NEW ok \in BOOLEAN, Reply(s, ok) PROVE req' \in [Slot -> Request]
  <2>1. [req[s] EXCEPT !.stage = "replied", !.ok = ok] \in Request
    BY <1>0 DEF Request, Stage
  <2> QED
    BY <1>0, <1>1, <1>5, <2>1 DEF Reply
<1>6. ASSUME NEW ok \in BOOLEAN, Enqueue(s, ok)
      PROVE  req' \in [Slot -> Request] /\ mainQueue' \in Seq(Slot)
  <2>1. [req[s] EXCEPT !.stage = "queued", !.ok = ok] \in Request
    BY <1>0 DEF Request, Stage
  <2> QED
    BY <1>0, <1>6, <2>1 DEF Enqueue
<1>7. ASSUME NEW op \in Op, RunNext(s, op) PROVE mainQueue' \in Seq(Slot)
  BY <1>0, <1>7 DEF RunNext
<1> QED
  BY <1>1, <1>2, <1>3, <1>4, <1>5, <1>6, <1>7

-----------------------------------------------------------------------------
(***************************************************************************)
(* Each part of SessionInv is preserved.                                   *)
(***************************************************************************)
\* A stack of screens is a sequence of screens.
LEMMA NestedTyped ==
    ASSUME NEW p, Nested(p)
    PROVE  p \in Seq(LoginVC \cup RegisterVC \cup (Screen \ {"Home"}))
<1> DEFINE S == LoginVC \cup RegisterVC \cup (Screen \ {"Home"})
<1>1. "NewMessage" \in S /\ "Alert" \in S /\ "Picker" \in S
  BY DEF Screen
<1>2. LoginVC \subseteq S /\ RegisterVC \subseteq S
  OBVIOUS
<1> HIDE DEF S
<1>3. /\ <<>> \in Seq(S)
      /\ \A x \in S : <<x>> \in Seq(S)
      /\ \A x, y \in S : <<x, y>> \in Seq(S)
      /\ \A x, y, z \in S : <<x, y, z>> \in Seq(S)
  OBVIOUS
<1>4. p \in Seq(S)
  BY <1>1, <1>2, <1>3 DEF Nested
<1> QED
  BY <1>4 DEF S

\* The oldest completion block on the main queue belongs to a request that
\* waits for it, and captures the object that made the request.
LEMMA HeadOwner ==
    ASSUME SessionInv, NEW s \in Slot, NEW op, RunNext(s, op)
    PROVE  /\ req[s].stage = "queued" /\ req[s].op = op
           /\ op = "signIn" => req[s].vc \in LoginVC
           /\ op \in {"create", "upload", "url", "write"} => req[s].vc \in RegisterVC
<1>0. TypeOK /\ OwnersFit /\ QueueSound
  BY DEF SessionInv
<1>1. /\ 1 \in DOMAIN mainQueue /\ s = mainQueue[1]
  BY <1>0 DEF RunNext, TypeOK
<1>2. req[s].stage = "queued"
  BY <1>0, <1>1 DEF QueueSound
<1>3. req[s].vc # Nil /\ req[s].vc \in LoginVC \cup RegisterVC \cup {"Home", Nil}
  BY <1>0, <1>2 DEF OwnersFit, Fits, TypeOK, Request
<1> QED
  BY <1>0, <1>2, <1>3 DEF OwnersFit, Fits, RunNext

LEMMA ScreenStep ==
    ASSUME SessionInv, Step
    PROVE  ScreensNest'
<1> USE DEF phone, server
<1>0. TypeOK /\ ScreensNest /\ OwnersFit /\ QueueSound /\ DeadIsQuiet
  BY DEF SessionInv
<1>a. running \in BOOLEAN /\ chatLog \in BOOLEAN
  BY <1>0 DEF TypeOK
<1>b. \A l \in LoginVC : Top = l => presented = <<l>>
  BY <1>0, TopTells
<1>c. \A r \in RegisterVC : Top = r => \E l \in LoginVC : presented = <<l, r>>
  BY <1>0, TopTells
<1>d. Top = "Home" => presented = <<>>
  BY <1>0, TopTells
<1>1. CASE Launch
  BY <1>0, <1>1 DEF Launch, ScreensNest, Nested
<1>2. CASE Kill
  BY <1>2 DEF Kill, ScreensNest, Nested
<1>3. CASE UNCHANGED <<running, presented, chatLog>>
  BY <1>0, <1>3 DEF ScreensNest
<1>4. ASSUME NEW l \in LoginVC, NEW r \in RegisterVC, showRegister(l, r)
      PROVE  ScreensNest'
  <2>1. presented' = <<l, r>> /\ presented = <<l>>
    BY <1>4, <1>b, Onto1 DEF showRegister, Present
  <2> QED
    BY <1>0, <1>4, <2>1 DEF showRegister, ScreensNest, Nested
<1>5. CASE okayAction
  BY <1>0, <1>5, DismissAlert DEF okayAction, ScreensNest, Nested
<1>6. ASSUME NEW r \in RegisterVC, presented' = DismissFrom(r),
             UNCHANGED <<running, chatLog>>
      PROVE  ScreensNest'
  BY <1>0, <1>6, DismissRegister DEF ScreensNest, Nested
<1>7. ASSUME NEW r \in RegisterVC, handleSelectProfileImageView(r)
      PROVE  ScreensNest'
  <2>1. PICK l \in LoginVC : presented = <<l, r>>
    BY <1>7, <1>c DEF handleSelectProfileImageView
  <2>2. presented' = <<l, r, "Picker">>
    BY <1>7, <2>1, Onto2 DEF handleSelectProfileImageView, Present
  <2> QED
    BY <1>0, <1>7, <2>1, <2>2 DEF handleSelectProfileImageView, ScreensNest, Nested
<1>8. ASSUME NEW l \in LoginVC, logoutButtonPressed(l) PROVE ScreensNest'
  BY <1>0, <1>8, <1>d DEF logoutButtonPressed, AtHome, Present, ScreensNest, Nested
<1>9. CASE newMessageButtonPressed
  BY <1>0, <1>9, <1>d DEF newMessageButtonPressed, AtHome, Present, ScreensNest, Nested
<1>10. CASE dismissNewMessage
  BY <1>0, <1>10, DismissSheet DEF dismissNewMessage, ScreensNest, Nested
<1>11. CASE chatLogButtonPressed \/ popChatLog
  BY <1>0, <1>11, <1>d, <1>a DEF chatLogButtonPressed, popChatLog, AtHome, ScreensNest, Nested
<1>12. ASSUME NEW s \in Slot, authenticateDone(s) PROVE ScreensNest'
  <2>1. PICK l \in LoginVC : req[s].vc = l
    BY <1>12, HeadOwner DEF authenticateDone
  <2>a. UNCHANGED <<running, chatLog>>
    BY <1>12 DEF authenticateDone
  <2>2. CASE presented' = DismissFrom(l)
    <3>1. presented' = presented \/ presented' = <<>> \/ presented' = <<l>>
      BY <1>0, <2>2, DismissLogin
    <3>2. presented' # <<>> => presented # <<>>
      <4>1. l \in OnScreen => presented # <<>>
        BY Objects0 DEF OnScreen
      <4>2. <<l>> # <<>>
        OBVIOUS
      <4> QED
        BY <1>0, <2>2, <4>1, <4>2, DismissLogin
    <3> QED
      BY <1>0, <2>a, <3>1, <3>2 DEF ScreensNest, Nested
  <2>3. CASE presented' = Present(l, "Alert")
    <3>1. presented' = presented \/ (presented' = <<l, "Alert">> /\ presented = <<l>>)
      <4>1. CASE Top = l
        <5>1. presented = <<l>>
          BY <4>1, <1>b
        <5>2. presented' = Append(presented, "Alert")
          BY <2>3, <4>1 DEF Present
        <5> QED
          BY <5>1, <5>2, Onto1
      <4>2. CASE Top # l
        <5>1. presented' = presented
          BY <2>3, <4>2 DEF Present
        <5> QED
          BY <5>1
      <4> QED
        BY <4>1, <4>2
    <3> QED
      BY <1>0, <2>a, <3>1 DEF ScreensNest, Nested
  <2> QED
    BY <1>12, <2>1, <2>2, <2>3 DEF authenticateDone
<1>13. ASSUME NEW s \in Slot, updateChildValuesDone(s) PROVE ScreensNest'
  <2>1. req[s].vc \in RegisterVC
    BY <1>13, HeadOwner DEF updateChildValuesDone
  <2> QED
    BY <1>3, <1>6, <1>13, <2>1 DEF updateChildValuesDone
<1>14. Step => \/ Launch \/ Kill \/ okayAction
               \/ UNCHANGED <<running, presented, chatLog>>
               \/ \E l \in LoginVC, r \in RegisterVC : showRegister(l, r)
               \/ \E r \in RegisterVC : /\ presented' = DismissFrom(r)
                                        /\ UNCHANGED <<running, chatLog>>
               \/ \E r \in RegisterVC : handleSelectProfileImageView(r)
               \/ \E l \in LoginVC : logoutButtonPressed(l)
               \/ newMessageButtonPressed \/ dismissNewMessage
               \/ chatLogButtonPressed \/ popChatLog
               \/ \E s \in Slot : authenticateDone(s)
               \/ \E s \in Slot : updateChildValuesDone(s)
  BY DEF Step, loginButton, registerButtonPressed, backButtonPressed,
         didFinishPicking, imagePickerControllerDidCancel, handleSendMessage,
         serveSignIn, serveCreate, serveUpload, serveUrl, serveWrite, serveFetch,
         Timeout, LateArrival, Disable, receiveAuth, receiveOther, signOutByForce,
         createUserDone, putDataDone, downloadURLDone, fetchUserDone
<1> QED
  BY <1>1, <1>2, <1>3, <1>4, <1>5, <1>6, <1>7, <1>8, <1>9, <1>10, <1>11, <1>12,
     <1>13, <1>14

LEMMA TypeStep ==
    ASSUME SessionInv, Step
    PROVE  TypeOK'
<1> USE DEF phone, server
<1>0. TypeOK /\ ScreensNest /\ OwnersFit
  BY DEF SessionInv
<1>a. presented' \in Seq(LoginVC \cup RegisterVC \cup (Screen \ {"Home"}))
  BY ScreenStep, NestedTyped DEF ScreensNest
<1>1. CASE Launch
  <2>1. ASSUME NEW s \in Slot, currentUser' # Nil,
               req' = [req EXCEPT ![s] = Call("fetch", "Home", currentUser', Nil)]
        PROVE  req' \in [Slot -> Request]
    <3>1. currentUser' \in Account
      BY <1>0, <1>1, <2>1, <1>a DEF Launch, TypeOK
    <3>2. Call("fetch", "Home", currentUser', Nil) \in Request
      BY <3>1 DEF Call, Request, Op, HttpOp, AuthOp, Stage
    <3> QED
      BY <1>0, <2>1, <3>2 DEF TypeOK
  <2> QED
    BY <1>0, <1>1, <2>1, <1>a DEF Launch, TypeOK
<1>2. CASE Kill
  <2>1. req' \in [Slot -> Request]
    <3>1. ASSUME NEW s \in Slot PROVE [req[s] EXCEPT !.vc = Nil] \in Request
      BY <1>0 DEF TypeOK, Request
    <3> QED
      BY <1>0, <1>2, <3>1, RequestTypes DEF Kill
  <2>2. <<>> \in Seq(Slot)
    OBVIOUS
  <2> QED
    BY <1>0, <1>2, <2>1, <2>2, <1>a DEF Kill, TypeOK
<1>3. ASSUME NEW l \in LoginVC, NEW s \in Slot, NEW a \in Account, NEW p \in Password,
             loginButton(l, s, a, p)
      PROVE  TypeOK'
  <2>1. Call("signIn", l, a, p) \in Request
    BY DEF Call, Request, Op, HttpOp, AuthOp, Stage
  <2> QED
    BY <1>0, <1>3, <2>1 DEF loginButton, TypeOK
<1>4. ASSUME NEW l \in LoginVC, NEW r \in RegisterVC, showRegister(l, r) PROVE TypeOK'
  BY <1>0, <1>4, <1>a DEF showRegister, TypeOK
<1>5. CASE okayAction
  BY <1>0, <1>5, <1>a DEF okayAction, TypeOK
<1>6. ASSUME NEW r \in RegisterVC, NEW s \in Slot, NEW a \in Account, NEW p \in Password,
             registerButtonPressed(r, s, a, p)
      PROVE  TypeOK'
  <2>1. Call("create", r, a, p) \in Request
    BY DEF Call, Request, Op, HttpOp, AuthOp, Stage
  <2> QED
    BY <1>0, <1>6, <2>1 DEF registerButtonPressed, TypeOK
<1>7. ASSUME NEW r \in RegisterVC, backButtonPressed(r) PROVE TypeOK'
  BY <1>0, <1>7, <1>a DEF backButtonPressed, TypeOK
<1>8. ASSUME NEW r \in RegisterVC, handleSelectProfileImageView(r) PROVE TypeOK'
  BY <1>0, <1>8, <1>a DEF handleSelectProfileImageView, TypeOK
<1>9. ASSUME NEW r \in RegisterVC, didFinishPicking(r) PROVE TypeOK'
  BY <1>0, <1>9, <1>a DEF didFinishPicking, TypeOK
<1>10. ASSUME NEW r \in RegisterVC, imagePickerControllerDidCancel(r) PROVE TypeOK'
  BY <1>0, <1>10, <1>a DEF imagePickerControllerDidCancel, TypeOK
<1>11. ASSUME NEW l \in LoginVC, logoutButtonPressed(l) PROVE TypeOK'
  BY <1>0, <1>11, <1>a DEF logoutButtonPressed, TypeOK
<1>12. CASE newMessageButtonPressed
  BY <1>0, <1>12, <1>a DEF newMessageButtonPressed, TypeOK
<1>13. CASE dismissNewMessage
  BY <1>0, <1>13, <1>a DEF dismissNewMessage, TypeOK
<1>14. CASE chatLogButtonPressed \/ popChatLog \/ handleSendMessage
  BY <1>0, <1>14 DEF chatLogButtonPressed, popChatLog, handleSendMessage, TypeOK
<1>15. ASSUME NEW s \in Slot,
              serveSignIn(s) \/ serveUpload(s) \/ serveUrl(s) \/ serveFetch(s) \/ Timeout(s)
       PROVE  TypeOK'
  <2>1. (\E ok \in BOOLEAN : Reply(s, ok)) \/ Finish(s)
    <3>1. CASE serveSignIn(s)
      <4> DEFINE ok == /\ accounts[req[s].email] = req[s].password
                       /\ req[s].email \notin disabled
      <4>1. ok \in BOOLEAN /\ Reply(s, ok)
        BY <3>1 DEF serveSignIn
      <4> HIDE DEF ok
      <4> QED
        BY <4>1
    <3>2. CASE serveUrl(s)
      <4> DEFINE ok == req[s].email \in images
      <4>1. ok \in BOOLEAN /\ Reply(s, ok)
        BY <3>2 DEF serveUrl
      <4> HIDE DEF ok
      <4> QED
        BY <4>1
    <3>3. CASE serveFetch(s)
      <4> DEFINE ok == profiles[req[s].email] # Nil
      <4>1. ok \in BOOLEAN /\ (Reply(s, ok) \/ Finish(s))
        BY <3>3 DEF serveFetch
      <4> HIDE DEF ok
      <4> QED
        BY <4>1
    <3>4. CASE serveUpload(s) \/ Timeout(s)
      BY <3>4 DEF serveUpload, Timeout
    <3> QED
      BY <1>15, <3>1, <3>2, <3>3, <3>4
  <2>2. req' \in [Slot -> Request]
    BY <1>0, <2>1, RequestTypes
  <2>3. images' \subseteq Account
    BY <1>0, <1>15
    DEF serveSignIn, serveUpload, serveUrl, serveFetch, Timeout, OwnersFit, Fits, Sent, TypeOK
  <2> QED
    BY <1>0, <1>15, <2>2, <2>3
    DEF serveSignIn, serveUpload, serveUrl, serveFetch, Timeout, TypeOK
<1>16. ASSUME NEW s \in Slot, serveCreate(s) \/ serveWrite(s) PROVE TypeOK'
  <2>1. req' \in [Slot -> Request]
    BY <1>0, <1>16, RequestTypes DEF serveCreate, serveWrite
  <2>2. req[s].password \in Password \cup {Nil}
    BY <1>0 DEF TypeOK, Request
  <2> QED
    BY <1>0, <1>16, <2>1, <2>2 DEF serveCreate, serveWrite, TypeOK
<1>17. ASSUME NEW s \in Slot, NEW d \in Slot, LateArrival(s, d) PROVE TypeOK'
  <2>1. /\ [req[s] EXCEPT !.stage = "replied"] \in Request
        /\ [req[s] EXCEPT !.vc = Nil] \in Request
    BY <1>0 DEF TypeOK, Request, Stage
  <2>2. req' \in [Slot -> Request]
    BY <1>0, <1>17, <2>1 DEF LateArrival, TypeOK
  <2> QED
    BY <1>0, <1>17, <2>2 DEF LateArrival, TypeOK
<1>18. ASSUME NEW a \in Account, Disable(a) PROVE TypeOK'
  BY <1>0, <1>18 DEF Disable, TypeOK
<1>19. ASSUME NEW s \in Slot, receiveAuth(s) \/ receiveOther(s) PROVE TypeOK'
  <2>1. req[s].ok \in BOOLEAN /\ req[s].email \in Account \cup {Nil}
    BY <1>0 DEF TypeOK, Request
  <2>2. req' \in [Slot -> Request] /\ mainQueue' \in Seq(Slot)
    BY <1>0, <1>19, <2>1, RequestTypes DEF receiveAuth, receiveOther
  <2> QED
    BY <1>0, <1>19, <2>1, <2>2 DEF receiveAuth, receiveOther, TypeOK
<1>20. CASE signOutByForce
  BY <1>0, <1>20 DEF signOutByForce, TypeOK
<1>21. ASSUME NEW s \in Slot,
              createUserDone(s) \/ putDataDone(s) \/ downloadURLDone(s)
       PROVE  TypeOK'
  <2>1. req' \in [Slot -> Request] /\ mainQueue' \in Seq(Slot)
    BY <1>0, <1>21, RequestTypes
    DEF createUserDone, putDataDone, downloadURLDone, Op, HttpOp, AuthOp
  <2> QED
    BY <1>0, <1>21, <2>1 DEF createUserDone, putDataDone, downloadURLDone, TypeOK
<1>22. ASSUME NEW s \in Slot,
              authenticateDone(s) \/ updateChildValuesDone(s) \/ fetchUserDone(s)
       PROVE  TypeOK'
  <2>1. req' \in [Slot -> Request] /\ mainQueue' \in Seq(Slot)
    BY <1>0, <1>22, RequestTypes
    DEF authenticateDone, updateChildValuesDone, fetchUserDone, Op, HttpOp, AuthOp
  <2>3. req[s].email \in Account \cup {Nil}
    BY <1>0 DEF TypeOK, Request
  <2> QED
    BY <1>0, <1>22, <2>1, <2>3, <1>a
    DEF authenticateDone, updateChildValuesDone, fetchUserDone, TypeOK
<1> QED
  BY <1>1, <1>2, <1>3, <1>4, <1>5, <1>6, <1>7, <1>8, <1>9, <1>10, <1>11, <1>12, <1>13,
     <1>14, <1>15, <1>16, <1>17, <1>18, <1>19, <1>20, <1>21, <1>22 DEF Step

LEMMA QueueStep ==
    ASSUME SessionInv, Step
    PROVE  QueueSound'
<1> USE DEF phone, server
<1>0. TypeOK /\ QueueSound
  BY DEF SessionInv
<1>a. req \in [Slot -> Request] /\ mainQueue \in Seq(Slot)
  BY <1>0 DEF TypeOK
<1>1. CASE UNCHANGED <<req, mainQueue>>
  BY <1>0, <1>1 DEF QueueSound
<1>2. CASE Kill
  BY <1>2 DEF Kill, QueueSound
<1>3. ASSUME mainQueue' = mainQueue,
             \A t \in Slot : req[t].stage = "queued" => req'[t] = req[t]
      PROVE  QueueSound'
  BY <1>0, <1>a, <1>3 DEF QueueSound
<1>4. ASSUME NEW s \in Slot, req[s].stage # "queued",
             \E q : req' = [req EXCEPT ![s] = q]
      PROVE  \A t \in Slot : req[t].stage = "queued" => req'[t] = req[t]
  BY <1>a, <1>4
<1>5. ASSUME NEW s \in Slot, Replied(s), NEW ok, Enqueue(s, ok)
      PROVE  QueueSound'
  <2>1. \A i \in DOMAIN mainQueue : mainQueue[i] # s
    BY <1>0, <1>5 DEF QueueSound, Replied
  <2>2. /\ DOMAIN mainQueue' = 1 .. Len(mainQueue) + 1
        /\ \A i \in 1 .. Len(mainQueue) : mainQueue'[i] = mainQueue[i]
        /\ mainQueue'[Len(mainQueue) + 1] = s
        /\ Len(mainQueue) \in Nat /\ DOMAIN mainQueue = 1 .. Len(mainQueue)
    BY <1>a, <1>5 DEF Enqueue
  <2>3. req'[s].stage = "queued" /\ \A t \in Slot : t # s => req'[t] = req[t]
    BY <1>a, <1>5 DEF Enqueue, Request
  <2>4. \A i \in DOMAIN mainQueue' : req'[mainQueue'[i]].stage = "queued"
    BY <1>0, <1>a, <2>1, <2>2, <2>3 DEF QueueSound
  <2>5. \A i, j \in DOMAIN mainQueue' : mainQueue'[i] = mainQueue'[j] => i = j
    BY <1>0, <1>a, <2>1, <2>2 DEF QueueSound
  <2> QED
    BY <2>4, <2>5 DEF QueueSound
<1>6. ASSUME NEW s \in Slot, NEW op, RunNext(s, op), \E q : req' = [req EXCEPT ![s] = q]
      PROVE  QueueSound'
  <2>1. /\ mainQueue # <<>> /\ s = mainQueue[1]
        /\ Len(mainQueue) \in Nat \ {0} /\ DOMAIN mainQueue = 1 .. Len(mainQueue)
    BY <1>a, <1>6 DEF RunNext
  <2>2. /\ DOMAIN mainQueue' = 1 .. Len(mainQueue) - 1
        /\ \A i \in 1 .. Len(mainQueue) - 1 : mainQueue'[i] = mainQueue[i + 1]
    BY <1>a, <1>6, <2>1 DEF RunNext
  <2>3. \A i \in DOMAIN mainQueue' : mainQueue'[i] \in Slot /\ mainQueue'[i] # s
    BY <1>0, <1>a, <2>1, <2>2 DEF QueueSound
  <2>4. \A t \in Slot : t # s => req'[t] = req[t]
    BY <1>a, <1>6
  <2>5. \A i \in DOMAIN mainQueue' : req'[mainQueue'[i]].stage = "queued"
    BY <1>0, <2>1, <2>2, <2>3, <2>4 DEF QueueSound
  <2>6. \A i, j \in DOMAIN mainQueue' : mainQueue'[i] = mainQueue'[j] => i = j
    <3> SUFFICES ASSUME NEW i \in DOMAIN mainQueue', NEW j \in DOMAIN mainQueue',
                        mainQueue'[i] = mainQueue'[j]
                 PROVE  i = j
      OBVIOUS
    <3>1. mainQueue[i + 1] = mainQueue[j + 1]
      BY <2>2
    <3>2. i + 1 \in DOMAIN mainQueue /\ j + 1 \in DOMAIN mainQueue
      BY <2>1, <2>2
    <3>3. i + 1 = j + 1
      BY <1>0, <3>1, <3>2 DEF QueueSound
    <3> QED
      BY <2>2, <3>3, <2>1
  <2> QED
    BY <2>5, <2>6 DEF QueueSound
<1>7. CASE Launch
  <2>1. CASE UNCHANGED req
    BY <1>1, <1>7, <2>1 DEF Launch
  <2>2. ASSUME NEW s \in Slot, IsIdle(s),
               req' = [req EXCEPT ![s] = Call("fetch", "Home", currentUser', Nil)]
        PROVE  QueueSound'
    BY <1>3, <1>4, <1>7, <2>2 DEF Launch, IsIdle
  <2> QED
    BY <1>7, <2>1, <2>2 DEF Launch
<1>8. ASSUME NEW l \in LoginVC, NEW s \in Slot, NEW a \in Account, NEW p \in Password,
             loginButton(l, s, a, p)
      PROVE  QueueSound'
  BY <1>3, <1>4, <1>8 DEF loginButton, IsIdle
<1>9. ASSUME NEW r \in RegisterVC, NEW s \in Slot, NEW a \in Account, NEW p \in Password,
             registerButtonPressed(r, s, a, p)
      PROVE  QueueSound'
  BY <1>3, <1>4, <1>9 DEF registerButtonPressed, IsIdle
<1>10. ASSUME NEW s \in Slot, req[s].stage # "queued", mainQueue' = mainQueue,
              Finish(s) \/ \E ok : Reply(s, ok)
       PROVE  QueueSound'
  <2>1. \E q : req' = [req EXCEPT ![s] = q]
    BY <1>10 DEF Finish, Reply
  <2> QED
    BY <1>3, <1>4, <1>10, <2>1
<1>11. ASSUME NEW s \in Slot,
              \/ serveSignIn(s) \/ serveCreate(s) \/ serveUpload(s)
              \/ serveUrl(s) \/ serveWrite(s) \/ serveFetch(s) \/ Timeout(s)
       PROVE  QueueSound'
  <2>1. req[s].stage # "queued" /\ mainQueue' = mainQueue
    BY <1>11 DEF serveSignIn, serveCreate, serveUpload, serveUrl, serveWrite, serveFetch,
                 Timeout, Sent
  <2>2. Finish(s) \/ \E ok : Reply(s, ok)
    BY <1>11 DEF serveSignIn, serveCreate, serveUpload, serveUrl, serveWrite, serveFetch,
                 Timeout
  <2> QED
    BY <1>10, <2>1, <2>2
<1>12. ASSUME NEW s \in Slot, NEW d \in Slot, LateArrival(s, d) PROVE QueueSound'
  <2>1. \A t \in Slot : req[t].stage = "queued" => req'[t] = req[t]
    BY <1>a, <1>12 DEF LateArrival, IsIdle
  <2> QED
    BY <1>3, <1>12, <2>1 DEF LateArrival
<1>13. ASSUME NEW s \in Slot, receiveAuth(s) \/ receiveOther(s) PROVE QueueSound'
  BY <1>5, <1>13 DEF receiveAuth, receiveOther
<1>14. ASSUME NEW s \in Slot,
              \/ authenticateDone(s) \/ createUserDone(s) \/ putDataDone(s)
              \/ downloadURLDone(s) \/ updateChildValuesDone(s) \/ fetchUserDone(s)
       PROVE  QueueSound'
  <2>1. \E q : req' = [req EXCEPT ![s] = q]
    BY <1>14 DEF authenticateDone, createUserDone, putDataDone, downloadURLDone,
                 updateChildValuesDone, fetchUserDone, Finish, Continue
  <2> QED
    BY <1>6, <1>14, <2>1
    DEF authenticateDone, createUserDone, putDataDone, downloadURLDone,
        updateChildValuesDone, fetchUserDone
<1> QED
  BY <1>1, <1>2, <1>7, <1>8, <1>9, <1>11, <1>12, <1>13, <1>14
  DEF Step, showRegister, okayAction, backButtonPressed, handleSelectProfileImageView,
      didFinishPicking, imagePickerControllerDidCancel, logoutButtonPressed,
      newMessageButtonPressed, dismissNewMessage, chatLogButtonPressed, popChatLog,
      handleSendMessage, Disable, signOutByForce

\* The records that requests turn into fit their owners.
LEMMA FitsIdle == Fits(Idle)
BY ObjectsDistinct DEF Fits, Idle, Screen

LEMMA FitsSignIn ==
    ASSUME NEW l \in LoginVC, NEW a \in Account, NEW p
    PROVE  Fits(Call("signIn", l, a, p))
BY LoginKind DEF Fits, Call

LEMMA FitsCreate ==
    ASSUME NEW r \in RegisterVC, NEW a \in Account, NEW p
    PROVE  Fits(Call("create", r, a, p))
BY RegisterKind DEF Fits, Call

LEMMA FitsFetch ==
    ASSUME NEW a \in Account PROVE Fits(Call("fetch", "Home", a, Nil))
BY ObjectsDistinct DEF Fits, Call, Screen

LEMMA FitsDetached ==
    ASSUME NEW q \in Request, Fits(q), q.stage = "sent"
    PROVE  Fits([q EXCEPT !.vc = Nil])
BY ObjectsDistinct DEF Fits, Request, Screen

LEMMA FitsReplied ==
    ASSUME NEW q \in Request, NEW ok, Fits(q),
           q.stage \in {"sent", "replied"}, q.vc # Nil
    PROVE  Fits([q EXCEPT !.stage = "replied", !.ok = ok])
BY DEF Fits, Request

LEMMA FitsQueued ==
    ASSUME NEW q \in Request, NEW ok, Fits(q), q.stage = "replied"
    PROVE  Fits([q EXCEPT !.stage = "queued", !.ok = ok])
BY DEF Fits, Request

LEMMA OwnerStep ==
    ASSUME SessionInv, Step
    PROVE  OwnersFit'
<1> USE DEF phone, server
<1>0. TypeOK /\ OwnersFit
  BY DEF SessionInv
<1>a. req \in [Slot -> Request]
  BY <1>0 DEF TypeOK
<1>b. \A s \in Slot : req[s] \in Request /\ Fits(req[s])
  BY <1>0, <1>a DEF OwnersFit
<1>1. CASE UNCHANGED req
  BY <1>0, <1>1 DEF OwnersFit
<1>2. ASSUME NEW s \in Slot, NEW q, Fits(q), req' = [req EXCEPT ![s] = q]
      PROVE  OwnersFit'
  <2>1. \A t \in Slot : req'[t] = q \/ req'[t] = req[t]
    BY <1>a, <1>2
  <2> QED
    BY <1>0, <1>2, <2>1 DEF OwnersFit
<1>3. CASE Kill
  <2>1. ASSUME NEW t \in Slot PROVE Fits(req'[t])
    <3>1. CASE req[t].stage = "sent" /\ req[t].op # "fetch"
      BY <1>3, <1>b, <3>1, FitsDetached DEF Kill
    <3>2. CASE ~(req[t].stage = "sent" /\ req[t].op # "fetch")
      BY <1>3, <3>2, FitsIdle DEF Kill
    <3> QED
      BY <3>1, <3>2
  <2> QED
    BY <2>1 DEF OwnersFit
<1>4. CASE Launch
  <2>1. currentUser' # Nil => currentUser' \in Account
    BY <1>0, <1>4 DEF Launch, TypeOK
  <2>2. ASSUME NEW s \in Slot, currentUser' # Nil,
               req' = [req EXCEPT ![s] = Call("fetch", "Home", currentUser', Nil)]
        PROVE  OwnersFit'
    <3>1. Fits(Call("fetch", "Home", currentUser', Nil))
      BY <2>1, <2>2, FitsFetch
    <3> QED
      BY <1>2, <2>2, <3>1
  <2> QED
    BY <1>1, <1>4, <2>2 DEF Launch
<1>5. ASSUME NEW l \in LoginVC, NEW s \in Slot, NEW a \in Account, NEW p \in Password,
             loginButton(l, s, a, p)
      PROVE  OwnersFit'
  BY <1>2, <1>5, FitsSignIn DEF loginButton
<1>6. ASSUME NEW r \in RegisterVC, NEW s \in Slot, NEW a \in Account, NEW p \in Password,
             registerButtonPressed(r, s, a, p)
      PROVE  OwnersFit'
  BY <1>2, <1>6, FitsCreate DEF registerButtonPressed
<1>7. ASSUME NEW s \in Slot, Finish(s) PROVE OwnersFit'
  BY <1>2, <1>7, FitsIdle DEF Finish
<1>8. ASSUME NEW s \in Slot, req[s].stage \in {"sent", "replied"}, NEW ok, Reply(s, ok)
      PROVE  OwnersFit'
  <2>1. CASE req[s].vc = Nil
    BY <1>7, <1>8, <2>1 DEF Reply, Finish
  <2>2. CASE req[s].vc # Nil
    <3>1. Fits([req[s] EXCEPT !.stage = "replied", !.ok = ok])
      BY <1>8, <1>b, <2>2, FitsReplied
    <3> QED
      BY <1>2, <1>8, <2>2, <3>1 DEF Reply
  <2> QED
    BY <2>1, <2>2
<1>9. ASSUME NEW s \in Slot,
             \/ serveSignIn(s) \/ serveCreate(s) \/ serveUpload(s)
             \/ serveUrl(s) \/ serveWrite(s) \/ serveFetch(s) \/ Timeout(s)
      PROVE  OwnersFit'
  <2>1. req[s].stage \in {"sent", "replied"}
    BY <1>9 DEF serveSignIn, serveCreate, serveUpload, serveUrl, serveWrite, serveFetch,
                Timeout, Sent
  <2>2. Finish(s) \/ \E ok : Reply(s, ok)
    BY <1>9 DEF serveSignIn, serveCreate, serveUpload, serveUrl, serveWrite, serveFetch,
                Timeout
  <2> QED
    BY <1>7, <1>8, <2>1, <2>2
<1>10. ASSUME NEW s \in Slot, NEW d \in Slot, LateArrival(s, d) PROVE OwnersFit'
  <2>1. Fits([req[s] EXCEPT !.stage = "replied"])
    BY <1>0, <1>a, <1>10 DEF LateArrival, OwnersFit, Fits, Request
  <2>2. Fits([req[s] EXCEPT !.vc = Nil])
    BY <1>10, <1>b, FitsDetached DEF LateArrival
  <2>3. \A t \in Slot : \/ req'[t] = req[t]
                        \/ req'[t] = [req[s] EXCEPT !.stage = "replied"]
                        \/ req'[t] = [req[s] EXCEPT !.vc = Nil]
    BY <1>a, <1>10 DEF LateArrival
  <2> QED
    BY <1>0, <2>1, <2>2, <2>3 DEF OwnersFit
<1>11. ASSUME NEW s \in Slot, receiveAuth(s) \/ receiveOther(s) PROVE OwnersFit'
  <2>1. PICK ok : Enqueue(s, ok)
    BY <1>11 DEF receiveAuth, receiveOther
  <2>2. req[s].stage = "replied"
    BY <1>11 DEF receiveAuth, receiveOther, Replied
  <2>3. Fits([req[s] EXCEPT !.stage = "queued", !.ok = ok])
    BY <1>b, <2>2, FitsQueued
  <2> QED
    BY <1>2, <2>1, <2>3 DEF Enqueue
<1>12. ASSUME NEW s \in Slot, NEW op, NEW next \in {"upload", "url", "write"},
              op \in {"create", "upload", "url"}, RunNext(s, op), Continue(s, next)
       PROVE  OwnersFit'
  <2>1. req[s].vc \in RegisterVC /\ req[s].email \in Account
    BY <1>0, <1>12, HeadOwner DEF OwnersFit, Fits
  <2>2. Fits([req[s] EXCEPT !.op = next, !.stage = "sent", !.ok = FALSE])
    BY <1>a, <1>12, <2>1, RegisterKind DEF Fits, Request
  <2> QED
    BY <1>2, <1>12, <2>2 DEF Continue
<1>13. ASSUME NEW s \in Slot,
              \/ authenticateDone(s) \/ createUserDone(s) \/ putDataDone(s)
              \/ downloadURLDone(s) \/ updateChildValuesDone(s) \/ fetchUserDone(s)
       PROVE  OwnersFit'
  BY <1>7, <1>12, <1>13
  DEF authenticateDone, createUserDone, putDataDone, downloadURLDone,
      updateChildValuesDone, fetchUserDone
<1> QED
  BY <1>1, <1>3, <1>4, <1>5, <1>6, <1>9, <1>10, <1>11, <1>13
  DEF Step, showRegister, okayAction, backButtonPressed, handleSelectProfileImageView,
      didFinishPicking, imagePickerControllerDidCancel, logoutButtonPressed,
      newMessageButtonPressed, dismissNewMessage, chatLogButtonPressed, popChatLog,
      handleSendMessage, Disable, signOutByForce

LEMMA DeadStep ==
    ASSUME SessionInv, Step
    PROVE  DeadIsQuiet'
<1> USE DEF phone, server
<1>0. TypeOK /\ ScreensNest /\ OwnersFit /\ DeadIsQuiet
  BY DEF SessionInv
<1>a. running \in BOOLEAN /\ req \in [Slot -> Request]
  BY <1>0 DEF TypeOK
<1>1. CASE Launch
  BY <1>1 DEF Launch, DeadIsQuiet
<1>5. CASE Kill
  <2>1. \A s \in Slot : req'[s].vc = Nil
    <3> SUFFICES ASSUME NEW s \in Slot PROVE req'[s].vc = Nil
      OBVIOUS
    <3>1. req'[s] = Idle \/ req'[s] = [req[s] EXCEPT !.vc = Nil]
      BY <1>5 DEF Kill
    <3>2. [req[s] EXCEPT !.vc = Nil].vc = Nil /\ Idle.vc = Nil
      BY <1>a DEF Idle, Request
    <3> QED
      BY <3>1, <3>2
  <2> QED
    BY <1>5, <2>1 DEF Kill, DeadIsQuiet
<1>2. ASSUME running, running' = running PROVE DeadIsQuiet'
  BY <1>2 DEF DeadIsQuiet
<1>3. ASSUME ~running, ~Launch, ~Kill PROVE DeadIsQuiet'
  <2>1. /\ currentUser = Nil /\ mainQueue = <<>>
        /\ \A s \in Slot : req[s].vc = Nil
        /\ presented = <<>> /\ ~chatLog
    BY <1>0, <1>3 DEF DeadIsQuiet, ScreensNest
  <2>2. Top = "Home"
    BY <2>1 DEF Top
  <2>3. \A s \in Slot : req[s].stage \notin {"replied", "queued"}
    BY <1>0, <2>1 DEF OwnersFit, Fits
  <2>4. ASSUME UNCHANGED <<running, currentUser, mainQueue>>,
               NEW s \in Slot, req' = [req EXCEPT ![s] = Idle]
        PROVE  DeadIsQuiet'
    BY <1>a, <2>1, <2>4 DEF DeadIsQuiet, Idle
  <2>5. ASSUME UNCHANGED <<running, mainQueue, req>>, currentUser' = Nil
        PROVE  DeadIsQuiet'
    BY <2>1, <2>5 DEF DeadIsQuiet
  <2>6. ASSUME NEW s \in Slot,
               \/ serveSignIn(s) \/ serveCreate(s) \/ serveUpload(s)
               \/ serveUrl(s) \/ serveWrite(s) \/ serveFetch(s) \/ Timeout(s)
        PROVE  DeadIsQuiet'
    <3>1. Finish(s) \/ \E ok : Reply(s, ok)
      BY <2>6 DEF serveSignIn, serveCreate, serveUpload, serveUrl, serveWrite, serveFetch,
                  Timeout
    <3>2. req' = [req EXCEPT ![s] = Idle]
      BY <2>1, <3>1 DEF Finish, Reply
    <3>3. UNCHANGED <<running, currentUser, mainQueue>>
      BY <2>6 DEF serveSignIn, serveCreate, serveUpload, serveUrl, serveWrite, serveFetch,
                  Timeout
    <3> QED
      BY <2>4, <3>2, <3>3
  <2>7. CASE signOutByForce \/ \E a \in Account : Disable(a)
    BY <2>1, <2>5, <2>7 DEF signOutByForce, Disable
  <2>8. ~ \E s \in Slot : \/ authenticateDone(s) \/ createUserDone(s) \/ putDataDone(s)
                          \/ downloadURLDone(s) \/ updateChildValuesDone(s)
                          \/ fetchUserDone(s)
    BY <2>1 DEF authenticateDone, createUserDone, putDataDone, downloadURLDone,
                updateChildValuesDone, fetchUserDone, RunNext
  <2>9. ~ \E s \in Slot : receiveAuth(s) \/ receiveOther(s)
    BY <2>3 DEF receiveAuth, receiveOther, Replied
  <2>10. ~ \E s, d \in Slot : LateArrival(s, d)
    BY <2>1 DEF LateArrival
  <2>11. /\ \A l \in LoginVC : Top # l
         /\ \A q \in RegisterVC : Top # q
    BY <2>2, LoginKind, RegisterKind
  <2> QED
    BY <1>3, <2>1, <2>2, <2>6, <2>7, <2>8, <2>9, <2>10, <2>11
    DEF Step, loginButton, showRegister, okayAction, registerButtonPressed,
        backButtonPressed, handleSelectProfileImageView, didFinishPicking,
        imagePickerControllerDidCancel, PickerOf, logoutButtonPressed,
        newMessageButtonPressed, dismissNewMessage, chatLogButtonPressed, popChatLog,
        handleSendMessage, AtHome
<1>4. ASSUME ~Launch, ~Kill PROVE running' = running
  BY <1>4 DEF Step, loginButton, showRegister, okayAction, registerButtonPressed,
        backButtonPressed, handleSelectProfileImageView, didFinishPicking,
        imagePickerControllerDidCancel, logoutButtonPressed,
        newMessageButtonPressed, dismissNewMessage, chatLogButtonPressed, popChatLog,
        handleSendMessage, serveSignIn, serveCreate, serveUpload, serveUrl, serveWrite,
        serveFetch, Timeout, LateArrival, Disable, receiveAuth, receiveOther,
        signOutByForce, authenticateDone, createUserDone, putDataDone, downloadURLDone,
        updateChildValuesDone, fetchUserDone
<1> QED
  BY <1>1, <1>2, <1>3, <1>4, <1>5, <1>a

\* Which Logins are on screen changes only when the app starts or ends, at a
\* sign-out, and when a Login that nothing covers is told of its success.
LEMMA LoginsOnScreen ==
    ASSUME SessionInv, Step
    PROVE  \/ OnScreen' \cap LoginVC = OnScreen \cap LoginVC
           \/ Launch \/ Kill
           \/ \E l \in LoginVC : logoutButtonPressed(l) /\ presented' = <<l>>
           \/ \E s \in Slot : /\ authenticateDone(s) /\ req[s].ok
                              /\ req[s].vc \in LoginVC
                              /\ presented = <<req[s].vc>> /\ presented' = <<>>
<1> USE DEF phone, server
<1>0. TypeOK /\ ScreensNest
  BY DEF SessionInv
<1>b. \A l \in LoginVC : Top = l => presented = <<l>>
  BY <1>0, TopTells
<1>c. \A r \in RegisterVC : Top = r => \E l \in LoginVC : presented = <<l, r>>
  BY <1>0, TopTells
<1>d. Top = "Home" => presented = <<>>
  BY <1>0, TopTells
<1>1. ASSUME UNCHANGED presented
      PROVE  OnScreen' \cap LoginVC = OnScreen \cap LoginVC
  BY <1>1 DEF OnScreen
<1>2. ASSUME NEW l \in LoginVC, NEW r \in RegisterVC, showRegister(l, r)
      PROVE  OnScreen' \cap LoginVC = OnScreen \cap LoginVC
  <2>1. presented = <<l>> /\ presented' = <<l, r>>
    BY <1>2, <1>b, Onto1 DEF showRegister, Present
  <2> QED
    BY <2>1, Objects1, Objects2, RegisterKind DEF OnScreen
<1>3. CASE okayAction
  <2>1. PICK l \in LoginVC : presented = <<l, "Alert">> /\ presented' = <<l>>
    BY <1>0, <1>3, DismissAlert DEF okayAction
  <2> QED
    BY <2>1, Objects1, Objects2, LoginKind DEF OnScreen
<1>4. ASSUME NEW r \in RegisterVC, presented' = DismissFrom(r)
      PROVE  OnScreen' \cap LoginVC = OnScreen \cap LoginVC
  <2>1. ASSUME NEW l \in LoginVC, presented = <<l, r>>, presented' = <<l>>
        PROVE  OnScreen' \cap LoginVC = OnScreen \cap LoginVC
    BY <2>1, Objects1, Objects2, RegisterKind DEF OnScreen
  <2>2. ASSUME NEW l \in LoginVC, presented = <<l, r, "Picker">>, presented' = <<l, r>>
        PROVE  OnScreen' \cap LoginVC = OnScreen \cap LoginVC
    BY <2>2, Objects2, Objects3, LoginKind DEF OnScreen
  <2> QED
    BY <1>0, <1>1, <1>4, <2>1, <2>2, DismissRegister
<1>5. ASSUME NEW r \in RegisterVC, handleSelectProfileImageView(r)
      PROVE  OnScreen' \cap LoginVC = OnScreen \cap LoginVC
  <2>1. PICK l \in LoginVC : presented = <<l, r>>
    BY <1>5, <1>c DEF handleSelectProfileImageView
  <2>2. presented' = <<l, r, "Picker">>
    BY <1>5, <2>1, Onto2 DEF handleSelectProfileImageView, Present
  <2> QED
    BY <2>1, <2>2, Objects2, Objects3, LoginKind DEF OnScreen
<1>6. ASSUME NEW l \in LoginVC, logoutButtonPressed(l) PROVE presented' = <<l>>
  BY <1>6, <1>d DEF logoutButtonPressed, AtHome, Present
<1>7. CASE newMessageButtonPressed
  <2>1. presented = <<>> /\ presented' = <<"NewMessage">>
    BY <1>7, <1>d DEF newMessageButtonPressed, AtHome, Present
  <2> QED
    BY <2>1, Objects0, Objects1, LoginKind DEF OnScreen
<1>8. CASE dismissNewMessage
  <2>1. presented = <<"NewMessage">> /\ presented' = <<>>
    BY <1>0, <1>8, DismissSheet DEF dismissNewMessage
  <2> QED
    BY <2>1, Objects0, Objects1, LoginKind DEF OnScreen
<1>9. ASSUME NEW s \in Slot, updateChildValuesDone(s)
      PROVE  OnScreen' \cap LoginVC = OnScreen \cap LoginVC
  <2>1. req[s].vc \in RegisterVC
    BY <1>9, HeadOwner DEF updateChildValuesDone
  <2> QED
    BY <1>1, <1>4, <1>9, <2>1 DEF updateChildValuesDone
<1>10. ASSUME NEW s \in Slot, authenticateDone(s)
       PROVE  \/ OnScreen' \cap LoginVC = OnScreen \cap LoginVC
              \/ /\ req[s].ok /\ req[s].vc \in LoginVC
                 /\ presented = <<req[s].vc>> /\ presented' = <<>>
  <2>1. PICK l \in LoginVC : req[s].vc = l
    BY <1>10, HeadOwner DEF authenticateDone
  <2>2. CASE req[s].ok
    <3>1. presented' = DismissFrom(l)
      BY <1>10, <2>1, <2>2 DEF authenticateDone
    <3>2. CASE l \in OnScreen /\ presented' = <<l>>
      <4>1. OnScreen' \cap LoginVC = {l}
        BY <3>2, Objects1 DEF OnScreen
      <4>2. \A k \in LoginVC : k \in OnScreen => k = l
        BY <1>0, <3>2, OneLogin
      <4> QED
        BY <3>2, <4>1, <4>2
    <3> QED
      BY <1>0, <1>1, <2>1, <2>2, <3>1, <3>2, DismissLogin
  <2>3. CASE ~req[s].ok
    <3>1. presented' = Present(l, "Alert")
      BY <1>10, <2>1, <2>3 DEF authenticateDone
    <3>2. CASE Top = l
      <4>1. presented = <<l>>
        BY <3>2, <1>b
      <4>2. presented' = <<l, "Alert">>
        BY <3>1, <3>2, <4>1, Onto1 DEF Present
      <4> QED
        BY <4>1, <4>2, Objects1, Objects2, LoginKind DEF OnScreen
    <3>3. CASE Top # l
      BY <1>1, <3>1, <3>3 DEF Present
    <3> QED
      BY <3>2, <3>3
  <2> QED
    BY <2>2, <2>3
<1> QED
  BY <1>1, <1>2, <1>3, <1>4, <1>5, <1>6, <1>7, <1>8, <1>9, <1>10
  DEF Step, loginButton, registerButtonPressed, backButtonPressed,
      didFinishPicking, imagePickerControllerDidCancel, chatLogButtonPressed, popChatLog,
      handleSendMessage, serveSignIn, serveCreate, serveUpload, serveUrl, serveWrite,
      serveFetch, Timeout, LateArrival, Disable, receiveAuth, receiveOther,
      signOutByForce, createUserDone, putDataDone, downloadURLDone, fetchUserDone

\* Who can sign somebody out, and that nothing re-enables an account.
LEMMA UserStep ==
    ASSUME SessionInv, Step
    PROVE  /\ disabled \subseteq disabled'
           /\ \/ Launch \/ Kill \/ signOutByForce
              \/ \E l \in LoginVC : logoutButtonPressed(l)
              \/ running' = running /\ (currentUser # Nil => currentUser' # Nil)
<1> USE DEF phone, server
<1>1. ASSUME NEW s \in Slot, receiveAuth(s)
      PROVE  running' = running /\ (currentUser # Nil => currentUser' # Nil)
  <2>1. req[s].email \in Account
    BY <1>1 DEF SessionInv, OwnersFit, Fits, receiveAuth, Replied
  <2>2. currentUser' = req[s].email \/ currentUser' = currentUser
    BY <1>1 DEF receiveAuth
  <2> QED
    BY <1>1, <2>1, <2>2, NilIsNoValue DEF receiveAuth
<1>2. disabled \subseteq disabled'
  BY DEF Step, Launch, Kill, loginButton, showRegister, okayAction,
        registerButtonPressed, backButtonPressed, handleSelectProfileImageView,
        didFinishPicking, imagePickerControllerDidCancel, logoutButtonPressed,
        newMessageButtonPressed, dismissNewMessage, chatLogButtonPressed, popChatLog,
        handleSendMessage, serveSignIn, serveCreate, serveUpload, serveUrl, serveWrite,
        serveFetch, Timeout, LateArrival, Disable, receiveAuth, receiveOther,
        signOutByForce, authenticateDone, createUserDone, putDataDone, downloadURLDone,
        updateChildValuesDone, fetchUserDone
<1> QED
  BY <1>1, <1>2
  DEF Step, loginButton, showRegister, okayAction,
        registerButtonPressed, backButtonPressed, handleSelectProfileImageView,
        didFinishPicking, imagePickerControllerDidCancel,
        newMessageButtonPressed, dismissNewMessage, chatLogButtonPressed, popChatLog,
        handleSendMessage, serveSignIn, serveCreate, serveUpload, serveUrl, serveWrite,
        serveFetch, Timeout, LateArrival, Disable, receiveOther,
        authenticateDone, createUserDone, putDataDone, downloadURLDone,
        updateChildValuesDone, fetchUserDone

\* A completion block comes to the main queue only by the two ways of Receive.
LEMMA QueuedStep ==
    ASSUME SessionInv, Step, NEW t \in Slot, req'[t].stage = "queued"
    PROVE  req'[t] = req[t] \/ receiveAuth(t) \/ receiveOther(t)
<1> USE DEF phone, server
<1>a. req \in [Slot -> Request]
  BY DEF SessionInv, TypeOK
<1>0. /\ Idle.stage = "idle"
      /\ \A op, vc, a, p : Call(op, vc, a, p).stage = "sent"
  BY DEF Idle, Call
<1>1. CASE Launch
  <2>1. ASSUME NEW s \in Slot,
               req' = [req EXCEPT ![s] = Call("fetch", "Home", currentUser', Nil)]
        PROVE  req'[t] = req[t]
    <3>1. Call("fetch", "Home", currentUser', Nil).stage = "sent"
      BY DEF Call
    <3> QED
      BY <1>a, <2>1, <3>1
  <2> QED
    BY <1>1, <2>1 DEF Launch
<1>2. CASE Kill
  <2>1. req'[t] = Idle \/ (req[t].stage = "sent" /\ req'[t] = [req[t] EXCEPT !.vc = Nil])
    BY <1>2 DEF Kill
  <2>2. [req[t] EXCEPT !.vc = Nil].stage = req[t].stage
    BY <1>a DEF Request
  <2> QED
    BY <1>0, <2>1, <2>2
<1>3. ASSUME NEW s \in Slot, Finish(s) \/ \E ok : Reply(s, ok)
      PROVE  req'[t] = req[t]
  <2>1. \A ok : [req[s] EXCEPT !.stage = "replied", !.ok = ok].stage = "replied"
    BY <1>a DEF Request
  <2> QED
    BY <1>a, <1>0, <1>3, <2>1 DEF Finish, Reply
<1>4. ASSUME NEW s \in Slot, NEW op, Continue(s, op) PROVE req'[t] = req[t]
  <2>1. [req[s] EXCEPT !.op = op, !.stage = "sent", !.ok = FALSE].stage = "sent"
    BY <1>a DEF Request
  <2> QED
    BY <1>a, <1>4, <2>1 DEF Continue
<1>5. ASSUME NEW l \in LoginVC, NEW s \in Slot, NEW a \in Account, NEW p \in Password,
             loginButton(l, s, a, p)
      PROVE  req'[t] = req[t]
  BY <1>a, <1>0, <1>5 DEF loginButton
<1>6. ASSUME NEW r \in RegisterVC, NEW s \in Slot, NEW a \in Account, NEW p \in Password,
             registerButtonPressed(r, s, a, p)
      PROVE  req'[t] = req[t]
  BY <1>a, <1>0, <1>6 DEF registerButtonPressed
<1>7. ASSUME NEW s \in Slot, NEW d \in Slot, LateArrival(s, d) PROVE req'[t] = req[t]
  <2>1. /\ [req[s] EXCEPT !.stage = "replied"].stage = "replied"
        /\ [req[s] EXCEPT !.vc = Nil].stage = "sent"
    BY <1>a, <1>7 DEF Request, LateArrival
  <2>2. \/ req'[t] = req[t]
        \/ req'[t] = [req[s] EXCEPT !.stage = "replied"]
        \/ req'[t] = [req[s] EXCEPT !.vc = Nil]
    BY <1>a, <1>7 DEF LateArrival
  <2> QED
    BY <2>1, <2>2
<1>8. ASSUME NEW s \in Slot, receiveAuth(s) \/ receiveOther(s)
      PROVE  req'[t] = req[t] \/ receiveAuth(t) \/ receiveOther(t)
  <2>1. CASE s = t
    BY <1>8, <2>1
  <2>2. CASE s # t
    BY <1>a, <1>8, <2>2 DEF receiveAuth, receiveOther, Enqueue
  <2> QED
    BY <2>1, <2>2
<1>9. ASSUME NEW s \in Slot,
             \/ serveSignIn(s) \/ serveCreate(s) \/ serveUpload(s)
             \/ serveUrl(s) \/ serveWrite(s) \/ serveFetch(s) \/ Timeout(s)
      PROVE  req'[t] = req[t]
  BY <1>3, <1>9 DEF serveSignIn, serveCreate, serveUpload, serveUrl, serveWrite,
                    serveFetch, Timeout
<1>10. ASSUME NEW s \in Slot,
              \/ authenticateDone(s) \/ createUserDone(s) \/ putDataDone(s)
              \/ downloadURLDone(s) \/ updateChildValuesDone(s) \/ fetchUserDone(s)
       PROVE  req'[t] = req[t]
  BY <1>3, <1>4, <1>10
  DEF authenticateDone, createUserDone, putDataDone, downloadURLDone,
      updateChildValuesDone, fetchUserDone
<1> QED
  BY <1>1, <1>2, <1>5, <1>6, <1>7, <1>8, <1>9, <1>10
  DEF Step, showRegister, okayAction, backButtonPressed, handleSelectProfileImageView,
      didFinishPicking, imagePickerControllerDidCancel, logoutButtonPressed,
      newMessageButtonPressed, dismissNewMessage, chatLogButtonPressed, popChatLog,
      handleSendMessage, Disable, signOutByForce

LEMMA SuccessStep ==
    ASSUME SessionInv, Step
    PROVE  SuccessIsSignedIn'
<1>0. TypeOK /\ ScreensNest /\ OwnersFit /\ DeadIsQuiet /\ SuccessIsSignedIn
  BY DEF SessionInv
<1> SUFFICES ASSUME NEW t \in Slot, req'[t].op = "signIn", req'[t].stage = "queued",
                    req'[t].ok, req'[t].vc \in OnScreen'
             PROVE  currentUser' # Nil \/ disabled' # {}
  BY DEF SuccessIsSignedIn
<1>a. req \in [Slot -> Request]
  BY <1>0 DEF TypeOK
<1>1. CASE receiveAuth(t)
  <2>1. req[t].email \in Account
    BY <1>0, <1>1 DEF OwnersFit, Fits, receiveAuth, Replied
  <2>2. ASSUME Enqueue(t, FALSE) PROVE FALSE
    BY <1>a, <2>2 DEF Enqueue, Request
  <2> QED
    BY <1>1, <2>1, <2>2, NilIsNoValue DEF receiveAuth
<1>2. CASE receiveOther(t)
  BY <1>a, <1>2 DEF receiveOther, Enqueue, AuthOp, Request
<1>3. CASE req'[t] = req[t]
  <2>1. req[t].vc \in LoginVC /\ req[t].vc # Nil
    <3>1. req[t] \in Request /\ Fits(req[t])
      BY <1>0, <1>a DEF OwnersFit
    <3> QED
      BY <1>3, <3>1, ObjectsDistinct DEF Fits, Request, Screen
  <2>2. ~Launch
    BY <1>0, <2>1 DEF Launch, DeadIsQuiet
  <2>3. ~Kill
    BY Objects0 DEF Kill, OnScreen
  <2>4. ASSUME NEW l \in LoginVC, logoutButtonPressed(l), presented' = <<l>> PROVE FALSE
    BY <1>3, <2>4, Objects1 DEF OnScreen, logoutButtonPressed, Fresh
  <2>5. ASSUME presented' = <<>> PROVE FALSE
    BY <2>5, Objects0 DEF OnScreen
  <2>6. OnScreen' \cap LoginVC = OnScreen \cap LoginVC
    BY <2>2, <2>3, <2>4, <2>5, LoginsOnScreen
  <2>7. currentUser # Nil \/ disabled # {}
    BY <1>0, <1>3, <2>1, <2>6 DEF SuccessIsSignedIn
  <2>8. ~ \E l \in LoginVC : logoutButtonPressed(l)
    <3> SUFFICES ASSUME NEW l \in LoginVC, logoutButtonPressed(l) PROVE FALSE
      OBVIOUS
    <3>1. presented = <<>>
      BY <1>0, TopTells DEF logoutButtonPressed, AtHome
    <3> QED
      BY <1>3, <2>1, <2>6, <3>1, Objects0 DEF OnScreen
  <2>9. CASE signOutByForce
    BY <2>9 DEF signOutByForce, server
  <2> QED
    BY <2>2, <2>3, <2>7, <2>8, <2>9, UserStep
<1> QED
  BY <1>1, <1>2, <1>3, QueuedStep

LEMMA HomeStep ==
    ASSUME SessionInv, Step
    PROVE  HomeSignedIn'
<1>0. TypeOK /\ ScreensNest /\ SuccessIsSignedIn /\ HomeSignedIn
  BY DEF SessionInv
<1> SUFFICES ASSUME running', ~AtLogin' PROVE currentUser' # Nil \/ disabled' # {}
  BY DEF HomeSignedIn
<1>1. CASE Launch
  BY <1>1, Objects1 DEF Launch, AtLogin, OnScreen
<1>2. ~Kill
  BY DEF Kill
<1>3. ASSUME NEW l \in LoginVC, logoutButtonPressed(l) PROVE FALSE
  <2>1. presented = <<>>
    BY <1>0, <1>3, TopTells DEF logoutButtonPressed, AtHome
  <2>2. presented' = <<l>>
    BY <1>3, <2>1 DEF logoutButtonPressed, AtHome, Present
  <2> QED
    BY <2>2, Objects1 DEF AtLogin, OnScreen
<1>4. CASE signOutByForce
  BY <1>4 DEF signOutByForce, server
<1>5. ASSUME NEW s \in Slot, authenticateDone(s), req[s].ok, req[s].vc \in LoginVC,
             presented = <<req[s].vc>>
      PROVE  currentUser # Nil \/ disabled # {}
  <2>1. req[s].stage = "queued" /\ req[s].op = "signIn"
    BY <1>5, HeadOwner DEF authenticateDone
  <2>2. req[s].vc \in OnScreen
    BY <1>5, Objects1 DEF OnScreen
  <2> QED
    BY <1>0, <1>5, <2>1, <2>2 DEF SuccessIsSignedIn
<1>6. ASSUME OnScreen' \cap LoginVC = OnScreen \cap LoginVC, running
      PROVE  currentUser # Nil \/ disabled # {}
  BY <1>0, <1>6 DEF HomeSignedIn, AtLogin
<1>7. CASE running' = running /\ (currentUser # Nil => currentUser' # Nil)
  BY <1>1, <1>2, <1>3, <1>5, <1>6, <1>7, LoginsOnScreen, UserStep
<1> QED
  BY <1>1, <1>2, <1>3, <1>4, <1>7, UserStep

-----------------------------------------------------------------------------
(***************************************************************************)
(* The theorems.                                                           *)
(***************************************************************************)
LEMMA InitInv == Init => SessionInv
<1> SUFFICES ASSUME Init PROVE SessionInv
  OBVIOUS
<1>1. Idle \in Request /\ Idle.vc = Nil
  BY DEF Idle, Request, Op, HttpOp, AuthOp, Stage
<1>2. Nested(<<>>) /\ <<>> \in Seq(Slot)
  BY DEF Nested
<1>3. TypeOK
  BY <1>1, <1>2, NestedTyped DEF Init, TypeOK
<1>4. ScreensNest /\ QueueSound /\ DeadIsQuiet /\ HomeSignedIn
  BY <1>1, <1>2 DEF Init, ScreensNest, QueueSound, DeadIsQuiet, HomeSignedIn
<1>5. OwnersFit
  BY FitsIdle DEF Init, OwnersFit
<1>6. SuccessIsSignedIn
  BY Objects0 DEF Init, SuccessIsSignedIn, OnScreen
<1> QED
  BY <1>3, <1>4, <1>5, <1>6 DEF SessionInv

LEMMA NextInv == SessionInv /\ [Next]_vars => SessionInv'
<1> SUFFICES ASSUME SessionInv, [Next]_vars PROVE SessionInv'
  OBVIOUS
<1>1. CASE Next
  BY <1>1, NextIsStep, TypeStep, ScreenStep, QueueStep, OwnerStep, DeadStep,
     SuccessStep, HomeStep DEF SessionInv
<1>2. CASE UNCHANGED vars
  BY <1>2 DEF vars, phone, server, SessionInv, TypeOK, ScreensNest, QueueSound,
     OwnersFit, DeadIsQuiet, SuccessIsSignedIn, HomeSignedIn, OnScreen, AtLogin
<1> QED
  BY <1>1, <1>2

\* The inductive invariant holds of every behaviour.
THEOREM Invariance == Spec => []SessionInv
BY InitInv, NextInv, PTL DEF Spec

\* The variables keep their types.
THEOREM TypeCorrect == Spec => []TypeOK
<1>1. SessionInv => TypeOK
  BY DEF SessionInv
<1> QED
  BY <1>1, Invariance, PTL

\* The screens above Home are always one of six stacks (dismiss and present
\* of LoginViewController, RegisterViewController and HomeViewController).
THEOREM ScreensAlwaysNest == Spec => []ScreensNest
<1>1. SessionInv => ScreensNest
  BY DEF SessionInv
<1> QED
  BY <1>1, Invariance, PTL

\* Home is never usable signed out unless an account was disabled.
THEOREM HomeIsGuarded == Spec => []HomeSignedIn
<1>1. SessionInv => HomeSignedIn
  BY DEF SessionInv
<1> QED
  BY <1>1, Invariance, PTL

\* A Login goes away only with the process or by the success of its own
\* sign-in (authenticate's completion block).
THEOREM LoginLeavesOnlySignedIn == Spec => LoginLeaves
<1>1. ASSUME SessionInv, [Next]_vars, NEW l \in LoginVC,
             l \in OnScreen, l \notin OnScreen'
      PROVE  ~running' \/ \E s \in Slot : SignsIn(s, l)
  <2>0. ScreensNest
    BY <1>1 DEF SessionInv
  <2>1. Step
    BY <1>1, NextIsStep DEF vars, phone, OnScreen
  <2>2. presented # <<>>
    BY <1>1, Objects0 DEF OnScreen
  <2>3. ~Launch
    BY <2>0, <2>2 DEF Launch, ScreensNest
  <2>4. CASE Kill
    BY <2>4 DEF Kill
  <2>5. ~ \E k \in LoginVC : logoutButtonPressed(k)
    BY <2>0, <2>2, TopTells DEF logoutButtonPressed, AtHome
  <2>6. ASSUME NEW s \in Slot, authenticateDone(s), req[s].ok,
               presented = <<req[s].vc>>
        PROVE  SignsIn(s, l)
    <3>1. req[s].vc = l
      BY <1>1, <2>6, Objects1 DEF OnScreen
    <3> QED
      BY <2>6, <3>1 DEF authenticateDone, RunNext, SignsIn
  <2> QED
    BY <1>1, <2>1, <2>3, <2>4, <2>5, <2>6, LoginsOnScreen
<1>2. SessionInv /\ [Next]_vars =>
          [\A l \in LoginVC :
              l \in OnScreen /\ l \notin OnScreen' =>
                  ~running' \/ \E s \in Slot : SignsIn(s, l)]_vars
  BY <1>1
<1> QED
  BY <1>2, Invariance, PTL DEF Spec, LoginLeaves

\* Whoever is signed in is in the keychain (updateCurrentUser and signOut of
\* Auth), so a restart signs in nobody else.  Inductive as it stands.
THEOREM KeychainAlwaysAgrees == Spec => []KeychainAgrees
<1>1. Init => KeychainAgrees
  BY DEF Init, KeychainAgrees
<1>2. ASSUME KeychainAgrees, Step
      PROVE  KeychainAgrees'
  <2> USE <1>2 DEF KeychainAgrees, phone, server
  <2>1. CASE Launch \/ Kill \/ signOutByForce
    BY <2>1 DEF Launch, Kill, signOutByForce
  <2>2. CASE \E l \in LoginVC : logoutButtonPressed(l)
    BY <2>2 DEF logoutButtonPressed
  <2>3. CASE \E s \in Slot : receiveAuth(s)
    BY <2>3 DEF receiveAuth
  <2>4. CASE currentUser' = currentUser /\ keychain' = keychain
    BY <2>4
  <2> QED
    BY <2>1, <2>2, <2>3, <2>4
    DEF Step, loginButton, showRegister, okayAction,
        registerButtonPressed, backButtonPressed, handleSelectProfileImageView,
        didFinishPicking, imagePickerControllerDidCancel,
        newMessageButtonPressed, dismissNewMessage, chatLogButtonPressed, popChatLog,
        handleSendMessage, serveSignIn, serveCreate, serveUpload, serveUrl, serveWrite,
        serveFetch, Timeout, LateArrival, Disable, receiveOther,
        authenticateDone, createUserDone, putDataDone, downloadURLDone,
        updateChildValuesDone, fetchUserDone
<1>3. KeychainAgrees /\ [Next]_vars => KeychainAgrees'
  BY <1>2, NextIsStep DEF vars, phone, KeychainAgrees
<1> QED
  BY <1>1, <1>3, PTL DEF Spec

-----------------------------------------------------------------------------
(***************************************************************************)
(* Proofs about what a registration leaves on the server, for any number   *)
(* of accounts, objects and requests in flight: no profile is incomplete,  *)
(* no message has an unknown sender, and a registration that has broken    *)
(* off is never made good.                                                 *)
(***************************************************************************)

\* What the server has already done for a request q that has come this far,
\* acc being the accounts and img the images: a sign-in or creation that was
\* granted has its account; a registration past createUser has the account it
\* made; past putData it has its image too.
Backed(q, acc, img) ==
    q.stage # "idle" =>
        /\ q.op # "fetch" => q.password \in Password
        /\ q.op \in AuthOp /\ q.ok => acc[q.email] = q.password
        /\ q.op \in {"upload", "url", "write"} => acc[q.email] = q.password
        /\ q.op \in {"url", "write"} \/ (q.op = "upload" /\ q.ok) => q.email \in img

AllBacked == \A s \in Slot : Backed(req[s], accounts, images)

\* Whoever is signed in, or would be after a restart, has an account.
UsersKnown == \A u \in {currentUser, keychain} \ {Nil} : accounts[u] # Nil

\* SenderKnown and ProfileConsistent are not inductive alone: the sender is
\* read from Auth, and a profile is written from what the request still holds
\* three calls after createUser.
RegistrationInv == AllBacked /\ UsersKnown /\ SenderKnown /\ ProfileConsistent

-----------------------------------------------------------------------------
(***************************************************************************)
(* The server forgets no account and no image.                             *)
(***************************************************************************)
Grows ==
    /\ \A a \in Account : accounts[a] # Nil => accounts'[a] = accounts[a]
    /\ images \subseteq images'

LEMMA ServerGrows ==
    ASSUME TypeOK, Step PROVE Grows
<1>1. ASSUME NEW s \in Slot, serveCreate(s) PROVE Grows
  BY <1>1 DEF serveCreate, TypeOK, Grows
<1>2. ASSUME NEW s \in Slot, serveUpload(s) PROVE Grows
  BY <1>2 DEF serveUpload, Grows
<1>3. CASE UNCHANGED <<accounts, images>>
  BY <1>3 DEF Grows
<1> QED
  BY <1>1, <1>2, <1>3
  DEF Step, server, Launch, Kill, loginButton, showRegister, okayAction,
      registerButtonPressed, backButtonPressed, handleSelectProfileImageView,
      didFinishPicking, imagePickerControllerDidCancel, logoutButtonPressed,
      newMessageButtonPressed, dismissNewMessage, chatLogButtonPressed, popChatLog,
      handleSendMessage, serveSignIn, serveUrl, serveWrite, serveFetch, Timeout,
      LateArrival, Disable, receiveAuth, receiveOther, signOutByForce,
      authenticateDone, createUserDone, putDataDone, downloadURLDone,
      updateChildValuesDone, fetchUserDone

\* What backs a request backs it for ever.
LEMMA BackedGrows ==
    ASSUME Grows, NEW q \in Request, q.stage # "idle" => q.email \in Account,
           Backed(q, accounts, images)
    PROVE  Backed(q, accounts', images')
<1>1. ASSUME q.stage # "idle", q.op # "fetch", accounts[q.email] = q.password
      PROVE  accounts'[q.email] = q.password
  <2>1. q.password # Nil
    BY <1>1, NilIsNoValue DEF Backed
  <2> QED
    BY <1>1, <2>1 DEF Grows
<1>2. q.op \in AuthOp \cup {"upload", "url", "write"} => q.op # "fetch"
  BY DEF AuthOp
<1> QED
  BY <1>1, <1>2 DEF Backed, Grows

\* One request changes to q, which is backed.
LEMMA OneRequest ==
    ASSUME TypeOK, OwnersFit, Grows, AllBacked, NEW s \in Slot, NEW q,
           req' = [req EXCEPT ![s] = q], Backed(q, accounts', images')
    PROVE  AllBacked'
<1> SUFFICES ASSUME NEW t \in Slot PROVE Backed(req'[t], accounts', images')
  BY DEF AllBacked
<1>1. req[t] \in Request /\ (req[t].stage # "idle" => req[t].email \in Account)
  BY DEF TypeOK, OwnersFit, Fits
<1>2. Backed(req[t], accounts', images')
  BY <1>1, BackedGrows DEF AllBacked
<1>3. req'[t] = IF t = s THEN q ELSE req[t]
  BY DEF TypeOK
<1> QED
  BY <1>2, <1>3

LEMMA IdleBacked == ASSUME NEW acc, NEW img PROVE Backed(Idle, acc, img)
BY DEF Idle, Backed

\* The answers, the completion blocks and the calls they make.
LEMMA ReplyBacked ==
    ASSUME TypeOK, OwnersFit, Grows, AllBacked, NEW s \in Slot, NEW ok \in BOOLEAN,
           req[s].stage \in {"sent", "replied"}, Reply(s, ok),
           req[s].op \in AuthOp /\ ok => accounts'[req[s].email] = req[s].password,
           req[s].op = "upload" /\ ok => req[s].email \in images'
    PROVE  AllBacked'
<1> DEFINE q == IF req[s].vc = Nil THEN Idle ELSE [req[s] EXCEPT !.stage = "replied", !.ok = ok]
<1>1. req[s] \in Request /\ req[s].email \in Account
  BY DEF TypeOK, OwnersFit, Fits
<1>2. Backed(req[s], accounts', images')
  BY <1>1, BackedGrows DEF AllBacked
<1>3. Backed([req[s] EXCEPT !.stage = "replied", !.ok = ok], accounts', images')
  BY <1>1, <1>2 DEF Backed, Request, AuthOp
<1>4. Backed(q, accounts', images')
  BY <1>3, IdleBacked
<1>5. req' = [req EXCEPT ![s] = q]
  BY DEF Reply
<1> HIDE DEF q
<1> QED
  BY <1>4, <1>5, OneRequest

LEMMA EnqueueBacked ==
    ASSUME TypeOK, OwnersFit, Grows, AllBacked, NEW s \in Slot, NEW ok \in BOOLEAN,
           req[s].stage = "replied", Enqueue(s, ok), ok => req[s].ok
    PROVE  AllBacked'
<1>1. req[s] \in Request /\ req[s].email \in Account
  BY DEF TypeOK, OwnersFit, Fits
<1>2. Backed(req[s], accounts', images')
  BY <1>1, BackedGrows DEF AllBacked
<1>3. Backed([req[s] EXCEPT !.stage = "queued", !.ok = ok], accounts', images')
  BY <1>1, <1>2 DEF Backed, Request, AuthOp
<1> QED
  BY <1>3, OneRequest DEF Enqueue

LEMMA FinishBacked ==
    ASSUME TypeOK, OwnersFit, Grows, AllBacked, NEW s \in Slot, Finish(s)
    PROVE  AllBacked'
BY IdleBacked, OneRequest DEF Finish

\* The block of a call that succeeded makes the next call.
LEMMA ContinueBacked ==
    ASSUME TypeOK, OwnersFit, Grows, AllBacked, NEW s \in Slot, NEW op,
           req[s].stage = "queued", req[s].ok, Continue(s, op),
           <<req[s].op, op>> \in {<<"create", "upload">>, <<"upload", "url">>, <<"url", "write">>}
    PROVE  AllBacked'
<1>1. req[s] \in Request /\ req[s].email \in Account
  BY DEF TypeOK, OwnersFit, Fits
<1>2. Backed(req[s], accounts', images')
  BY <1>1, BackedGrows DEF AllBacked
<1>3. Backed([req[s] EXCEPT !.op = op, !.stage = "sent", !.ok = FALSE], accounts', images')
  BY <1>1, <1>2 DEF Backed, Request, AuthOp
<1> QED
  BY <1>3, OneRequest DEF Continue

\* A new call is not granted yet.
LEMMA CallBacked ==
    ASSUME NEW op \in AuthOp \cup {"fetch"}, NEW vc, NEW a, NEW p,
           op # "fetch" => p \in Password, NEW acc, NEW img
    PROVE  Backed(Call(op, vc, a, p), acc, img)
BY DEF Backed, Call, AuthOp

\* Every action keeps the requests backed.
LEMMA BackedStep ==
    ASSUME SessionInv, AllBacked, Step
    PROVE  AllBacked'
<1>0. TypeOK /\ OwnersFit /\ Grows
  BY ServerGrows DEF SessionInv
<1>q. ASSUME NEW s \in Slot, NEW op, RunNext(s, op)
      PROVE  req[s].stage = "queued" /\ req[s].op = op
  BY <1>q, HeadOwner DEF RunNext
<1>1. CASE Launch
  <2>1. CASE UNCHANGED req
    BY <1>0, <2>1, <1>1 DEF Launch, AllBacked, server
  <2>2. CASE \E s \in Slot : req' = [req EXCEPT ![s] = Call("fetch", "Home", currentUser', Nil)]
    BY <1>0, <2>2, OneRequest, CallBacked
  <2> QED
    BY <1>1, <2>1, <2>2 DEF Launch
<1>2. CASE Kill
  <2>1. ASSUME NEW s \in Slot PROVE Backed(req'[s], accounts', images')
    <3>1. req[s] \in Request /\ Backed(req[s], accounts, images)
      BY <1>0 DEF TypeOK, AllBacked
    <3>2. Backed([req[s] EXCEPT !.vc = Nil], accounts, images)
      BY <3>1 DEF Backed, Request
    <3> QED
      BY <1>2, <3>2, IdleBacked DEF Kill, server
  <2> QED
    BY <2>1 DEF AllBacked
<1>3. ASSUME NEW l \in LoginVC, NEW s \in Slot, NEW a \in Account, NEW p \in Password,
             loginButton(l, s, a, p)
      PROVE  AllBacked'
  BY <1>0, <1>3, OneRequest, CallBacked DEF loginButton, AuthOp
<1>4. ASSUME NEW r \in RegisterVC, NEW s \in Slot, NEW a \in Account, NEW p \in Password,
             registerButtonPressed(r, s, a, p)
      PROVE  AllBacked'
  BY <1>0, <1>4, OneRequest, CallBacked DEF registerButtonPressed, AuthOp
<1>5. ASSUME NEW s \in Slot, serveSignIn(s) PROVE AllBacked'
  BY <1>0, <1>5, ReplyBacked DEF serveSignIn, Sent, server
<1>6. ASSUME NEW s \in Slot, serveCreate(s) PROVE AllBacked'
  <2>1. req[s].email \in Account /\ accounts \in [Account -> Password \cup {Nil}]
    BY <1>0, <1>6 DEF serveCreate, Sent, OwnersFit, Fits, TypeOK
  <2> QED
    BY <1>0, <1>6, <2>1, ReplyBacked DEF serveCreate, Sent
<1>7. ASSUME NEW s \in Slot, serveUpload(s) PROVE AllBacked'
  BY <1>0, <1>7, ReplyBacked DEF serveUpload, Sent, AuthOp
<1>8. ASSUME NEW s \in Slot, serveUrl(s) PROVE AllBacked'
  <2>1. CASE req[s].email \in images
    <3>1. Reply(s, TRUE)
      <4>1. (req[s].email \in images) = TRUE
        BY <2>1
      <4> QED
        BY <1>8, <4>1, Zenon DEF serveUrl
    <3> QED
      BY <1>0, <1>8, <3>1, ReplyBacked DEF serveUrl, Sent, AuthOp
  <2>2. CASE req[s].email \notin images
    <3>1. Reply(s, FALSE)
      <4>1. (req[s].email \in images) = FALSE
        BY <2>2
      <4> QED
        BY <1>8, <4>1, Zenon DEF serveUrl
    <3> QED
      BY <1>0, <1>8, <3>1, ReplyBacked DEF serveUrl, Sent, AuthOp
  <2> QED
    BY <2>1, <2>2
<1>9. ASSUME NEW s \in Slot, serveWrite(s) PROVE AllBacked'
  BY <1>0, <1>9, ReplyBacked DEF serveWrite, Sent, AuthOp
<1>10. ASSUME NEW s \in Slot, serveFetch(s) PROVE AllBacked'
  BY <1>0, <1>10, ReplyBacked, FinishBacked DEF serveFetch, Sent, AuthOp
<1>11. ASSUME NEW s \in Slot, Timeout(s) PROVE AllBacked'
  BY <1>0, <1>11, ReplyBacked DEF Timeout
<1>12. ASSUME NEW s \in Slot, NEW d \in Slot, LateArrival(s, d) PROVE AllBacked'
  <2>1. ASSUME NEW t \in Slot PROVE Backed(req'[t], accounts', images')
    <3>1. /\ req[s] \in Request /\ Backed(req[s], accounts, images)
          /\ Backed(req[t], accounts, images)
      BY <1>0 DEF TypeOK, AllBacked
    <3>2. Backed([req[s] EXCEPT !.vc = Nil], accounts, images)
      BY <3>1 DEF Backed, Request
    <3>3. Backed([req[s] EXCEPT !.stage = "replied"], accounts, images)
      BY <3>1, <1>12 DEF Backed, Request, LateArrival
    <3>4. s # d
      BY <1>12 DEF LateArrival, IsIdle
    <3>5. req'[t] \in {req[t], [req[s] EXCEPT !.vc = Nil], [req[s] EXCEPT !.stage = "replied"]}
      BY <1>0, <1>12, <3>4 DEF LateArrival, TypeOK
    <3> QED
      BY <1>12, <3>1, <3>2, <3>3, <3>5 DEF LateArrival, server
  <2> QED
    BY <2>1 DEF AllBacked
<1>13. ASSUME NEW s \in Slot, receiveAuth(s) PROVE AllBacked'
  BY <1>0, <1>13, EnqueueBacked DEF receiveAuth, Replied
<1>14. ASSUME NEW s \in Slot, receiveOther(s) PROVE AllBacked'
  <2>1. req[s].ok \in BOOLEAN
    BY <1>0 DEF TypeOK, Request
  <2> QED
    BY <1>0, <1>14, <2>1, EnqueueBacked DEF receiveOther, Replied
<1>15. ASSUME NEW s \in Slot, authenticateDone(s) \/ updateChildValuesDone(s) \/ fetchUserDone(s)
       PROVE  AllBacked'
  BY <1>0, <1>15, FinishBacked DEF authenticateDone, updateChildValuesDone, fetchUserDone
<1>16. ASSUME NEW s \in Slot, createUserDone(s) PROVE AllBacked'
  BY <1>0, <1>16, <1>q, FinishBacked, ContinueBacked DEF createUserDone
<1>17. ASSUME NEW s \in Slot, putDataDone(s) PROVE AllBacked'
  BY <1>0, <1>17, <1>q, FinishBacked, ContinueBacked DEF putDataDone
<1>18. ASSUME NEW s \in Slot, downloadURLDone(s) PROVE AllBacked'
  BY <1>0, <1>18, <1>q, FinishBacked, ContinueBacked DEF downloadURLDone
<1>19. CASE UNCHANGED <<req, accounts, images>>
  BY <1>19 DEF AllBacked
<1> QED
  BY <1>1, <1>2, <1>3, <1>4, <1>5, <1>6, <1>7, <1>8, <1>9, <1>10, <1>11, <1>12, <1>13,
     <1>14, <1>15, <1>16, <1>17, <1>18, <1>19
  DEF Step, server, phone, showRegister, okayAction, backButtonPressed,
      handleSelectProfileImageView, didFinishPicking, imagePickerControllerDidCancel,
      logoutButtonPressed, newMessageButtonPressed, dismissNewMessage,
      chatLogButtonPressed, popChatLog, handleSendMessage, Disable, signOutByForce

-----------------------------------------------------------------------------
(***************************************************************************)
(* The other parts of RegistrationInv.                                     *)
(***************************************************************************)
\* Auth sets the current user from the answer to a request that was granted.
LEMMA UsersStep ==
    ASSUME SessionInv, RegistrationInv, Step
    PROVE  UsersKnown'
<1>0. TypeOK /\ OwnersFit /\ Grows /\ AllBacked /\ UsersKnown
  BY ServerGrows DEF SessionInv, RegistrationInv
<1>1. ASSUME {currentUser', keychain'} \subseteq {currentUser, keychain, Nil} PROVE UsersKnown'
  BY <1>0, <1>1 DEF UsersKnown, Grows, TypeOK
<1>2. ASSUME NEW s \in Slot, receiveAuth(s) PROVE UsersKnown'
  <2>1. CASE UNCHANGED <<currentUser, keychain>>
    BY <1>1, <2>1
  <2>2. CASE req[s].ok /\ currentUser' = req[s].email /\ keychain' = req[s].email
    <3>1. req[s].password \in Password /\ accounts[req[s].email] = req[s].password
      BY <1>0, <1>2, <2>2 DEF receiveAuth, Replied, AllBacked, Backed, AuthOp
    <3>2. UNCHANGED accounts
      BY <1>2 DEF receiveAuth, server
    <3> QED
      BY <2>2, <3>1, <3>2, NilIsNoValue DEF UsersKnown
  <2> QED
    BY <1>2, <2>1, <2>2 DEF receiveAuth
<1>3. CASE Launch \/ Kill \/ signOutByForce \/ \E l \in LoginVC : logoutButtonPressed(l)
  BY <1>1, <1>3 DEF Launch, Kill, signOutByForce, logoutButtonPressed
<1>4. CASE UNCHANGED <<currentUser, keychain>>
  BY <1>1, <1>4
<1> QED
  BY <1>2, <1>3, <1>4
  DEF Step, phone, loginButton, showRegister, okayAction,
      registerButtonPressed, backButtonPressed, handleSelectProfileImageView,
      didFinishPicking, imagePickerControllerDidCancel,
      newMessageButtonPressed, dismissNewMessage, chatLogButtonPressed, popChatLog,
      handleSendMessage, serveSignIn, serveCreate, serveUpload, serveUrl, serveWrite,
      serveFetch, Timeout, LateArrival, Disable, receiveOther,
      authenticateDone, createUserDone, putDataDone, downloadURLDone,
      updateChildValuesDone, fetchUserDone

\* Only handleSendMessage writes a sender, from a ChatLog that no Login covers.
LEMMA SenderStep ==
    ASSUME SessionInv, RegistrationInv, Step
    PROVE  SenderKnown'
<1>0. TypeOK /\ ScreensNest /\ HomeSignedIn /\ Grows /\ UsersKnown /\ SenderKnown
  BY ServerGrows DEF SessionInv, RegistrationInv
<1>1. ASSUME senders' = senders, disabled \subseteq disabled' PROVE SenderKnown'
  BY <1>0, <1>1 DEF SenderKnown, Grows, TypeOK
<1>2. CASE handleSendMessage
  <2>1. running /\ presented = <<>>
    BY <1>0, <1>2 DEF handleSendMessage, ScreensNest
  <2>2. currentUser # Nil \/ disabled # {}
    BY <1>0, <2>1, Objects0 DEF HomeSignedIn, AtLogin, OnScreen
  <2>3. currentUser # Nil => accounts[currentUser] # Nil
    BY <1>0 DEF UsersKnown
  <2> QED
    BY <1>0, <1>2, <2>2, <2>3 DEF handleSendMessage, SenderKnown, TypeOK
<1>3. ASSUME NEW a \in Account, Disable(a) PROVE SenderKnown'
  BY <1>1, <1>3 DEF Disable
<1> QED
  BY <1>1, <1>2, <1>3
  DEF Step, server, Launch, Kill, loginButton, showRegister, okayAction,
      registerButtonPressed, backButtonPressed, handleSelectProfileImageView,
      didFinishPicking, imagePickerControllerDidCancel, logoutButtonPressed,
      newMessageButtonPressed, dismissNewMessage, chatLogButtonPressed, popChatLog,
      serveSignIn, serveCreate, serveUpload, serveUrl, serveWrite,
      serveFetch, Timeout, LateArrival, receiveAuth, receiveOther, signOutByForce,
      authenticateDone, createUserDone, putDataDone, downloadURLDone,
      updateChildValuesDone, fetchUserDone

\* Only a write that is backed by an account and an image makes a profile.
LEMMA ProfileStep ==
    ASSUME SessionInv, RegistrationInv, Step
    PROVE  ProfileConsistent'
<1>0. TypeOK /\ OwnersFit /\ Grows /\ AllBacked /\ ProfileConsistent
  BY ServerGrows DEF SessionInv, RegistrationInv
<1>1. ASSUME UNCHANGED profiles PROVE ProfileConsistent'
  BY <1>0, <1>1 DEF ProfileConsistent, Grows, TypeOK
<1>2. ASSUME NEW s \in Slot, serveWrite(s),
             profiles' = [profiles EXCEPT ![req[s].email] = req[s].password]
      PROVE  ProfileConsistent'
  <2>1. /\ req[s].email \in images /\ accounts[req[s].email] = req[s].password
    BY <1>0, <1>2 DEF serveWrite, Sent, AllBacked, Backed
  <2>2. UNCHANGED <<accounts, images>>
    BY <1>2 DEF serveWrite
  <2> QED
    BY <1>0, <1>2, <2>1, <2>2 DEF ProfileConsistent, TypeOK
<1> QED
  BY <1>1, <1>2
  DEF Step, server, Launch, Kill, loginButton, showRegister, okayAction,
      registerButtonPressed, backButtonPressed, handleSelectProfileImageView,
      didFinishPicking, imagePickerControllerDidCancel, logoutButtonPressed,
      newMessageButtonPressed, dismissNewMessage, chatLogButtonPressed, popChatLog,
      handleSendMessage, serveSignIn, serveCreate, serveUpload, serveUrl, serveWrite,
      serveFetch, Timeout, LateArrival, Disable, receiveAuth, receiveOther, signOutByForce,
      authenticateDone, createUserDone, putDataDone, downloadURLDone,
      updateChildValuesDone, fetchUserDone

-----------------------------------------------------------------------------
(***************************************************************************)
(* Orphans.  An account whose registration has broken off has no request   *)
(* left that could write its profile, and gets no new one: the answer to   *)
(* another createUser for it is a refusal.                                 *)
(***************************************************************************)
\* A request for a that cannot end in a profile of a.
Harmless(q, a) ==
    q.stage # "idle" /\ q.email = a =>
        q.op \in {"signIn", "fetch"} \/ (q.op = "create" /\ ~q.ok)

LEMMA HarmlessNew ==
    ASSUME NEW a \in Account,
           NEW op \in AuthOp \cup {"fetch"}, NEW vc, NEW e, NEW p
    PROVE  Harmless(Call(op, vc, e, p), a) /\ Harmless(Idle, a)
BY DEF Harmless, Call, Idle, AuthOp

\* One request changes to q, which is harmless.
LEMMA OneHarmless ==
    ASSUME TypeOK, NEW a \in Account, \A t \in Slot : Harmless(req[t], a),
           NEW s \in Slot, NEW q, req' = [req EXCEPT ![s] = q], Harmless(q, a)
    PROVE  \A t \in Slot : Harmless(req'[t], a)
BY DEF TypeOK

\* An answer that grants no creation.
LEMMA HarmlessReply ==
    ASSUME TypeOK, NEW a \in Account, \A t \in Slot : Harmless(req[t], a),
           NEW s \in Slot, NEW ok \in BOOLEAN, req[s].stage # "idle", Reply(s, ok),
           req[s].email = a /\ req[s].op = "create" => ~ok
    PROVE  \A t \in Slot : Harmless(req'[t], a)
<1> DEFINE q == IF req[s].vc = Nil THEN Idle ELSE [req[s] EXCEPT !.stage = "replied", !.ok = ok]
<1>1. req[s] \in Request /\ Harmless(req[s], a)
  BY DEF TypeOK
<1>2. Harmless([req[s] EXCEPT !.stage = "replied", !.ok = ok], a)
  BY <1>1 DEF Harmless, Request
<1>3. Harmless(q, a)
  BY <1>2 DEF Harmless, Idle
<1>4. req' = [req EXCEPT ![s] = q]
  BY DEF Reply
<1> HIDE DEF q
<1> QED
  BY <1>3, <1>4, OneHarmless

\* An answer that is received is the one that was given, or a failure.
LEMMA HarmlessEnqueue ==
    ASSUME TypeOK, NEW a \in Account, \A t \in Slot : Harmless(req[t], a),
           NEW s \in Slot, NEW ok \in BOOLEAN, req[s].stage # "idle", Enqueue(s, ok),
           ok => req[s].ok
    PROVE  \A t \in Slot : Harmless(req'[t], a)
<1>1. req[s] \in Request /\ Harmless(req[s], a)
  BY DEF TypeOK
<1>2. Harmless([req[s] EXCEPT !.stage = "queued", !.ok = ok], a)
  BY <1>1 DEF Harmless, Request
<1> QED
  BY <1>2, OneHarmless DEF Enqueue

\* A block goes on only if its call was granted, so never for an orphan.
LEMMA HarmlessContinue ==
    ASSUME TypeOK, NEW a \in Account, \A t \in Slot : Harmless(req[t], a),
           NEW s \in Slot, NEW op, req[s].stage # "idle", req[s].ok,
           req[s].op \in {"create", "upload", "url"}, Continue(s, op)
    PROVE  \A t \in Slot : Harmless(req'[t], a)
<1>1. req[s] \in Request /\ Harmless(req[s], a)
  BY DEF TypeOK
<1>2. Harmless([req[s] EXCEPT !.op = op, !.stage = "sent", !.ok = FALSE], a)
  BY <1>1 DEF Harmless, Request
<1> QED
  BY <1>2, OneHarmless DEF Continue

LEMMA OrphanStep ==
    ASSUME SessionInv, Step, NEW a \in Account, Orphan(a)
    PROVE  Orphan(a)'
<1>0. TypeOK /\ OwnersFit /\ Grows /\ accounts[a] # Nil /\ profiles[a] = Nil
  BY ServerGrows DEF SessionInv, Orphan
<1>1. \A t \in Slot : Harmless(req[t], a)
  BY DEF Orphan, Harmless
<1>a. accounts'[a] # Nil
  BY <1>0 DEF Grows
<1>q. ASSUME NEW s \in Slot, NEW op, RunNext(s, op)
      PROVE  req[s].stage = "queued" /\ req[s].op = op
  BY <1>q, HeadOwner DEF RunNext, SessionInv
<1>2. profiles'[a] = Nil
  <2>1. ASSUME NEW s \in Slot, serveWrite(s) PROVE profiles'[a] = Nil
    <3>1. req[s].email # a
      BY <1>1, <2>1 DEF serveWrite, Sent, Harmless
    <3> QED
      BY <1>0, <2>1, <3>1 DEF serveWrite, TypeOK
  <2>2. CASE UNCHANGED profiles
    BY <1>0, <2>2
  <2> QED
    BY <2>1, <2>2
    DEF Step, server, Launch, Kill, loginButton, showRegister, okayAction,
        registerButtonPressed, backButtonPressed, handleSelectProfileImageView,
        didFinishPicking, imagePickerControllerDidCancel, logoutButtonPressed,
        newMessageButtonPressed, dismissNewMessage, chatLogButtonPressed, popChatLog,
        handleSendMessage, serveSignIn, serveCreate, serveUpload, serveUrl,
        serveFetch, Timeout, LateArrival, Disable, receiveAuth, receiveOther, signOutByForce,
        authenticateDone, createUserDone, putDataDone, downloadURLDone,
        updateChildValuesDone, fetchUserDone
<1>3. \A t \in Slot : Harmless(req'[t], a)
  <2>1. CASE UNCHANGED req
    BY <1>1, <2>1
  <2>2. CASE Launch
    BY <1>0, <1>1, <2>2, OneHarmless, HarmlessNew DEF Launch
  <2>3. CASE Kill
    <3>1. ASSUME NEW t \in Slot PROVE Harmless(req'[t], a)
      <4>1. Harmless([req[t] EXCEPT !.vc = Nil], a)
        BY <1>0, <1>1 DEF TypeOK, Request, Harmless
      <4> QED
        BY <2>3, <4>1 DEF Kill, Harmless, Idle
    <3> QED
      BY <3>1
  <2>4. ASSUME NEW l \in LoginVC, NEW s \in Slot, NEW e \in Account, NEW p \in Password,
               loginButton(l, s, e, p)
        PROVE  \A t \in Slot : Harmless(req'[t], a)
    BY <1>0, <1>1, <2>4, OneHarmless, HarmlessNew DEF loginButton, AuthOp
  <2>5. ASSUME NEW r \in RegisterVC, NEW s \in Slot, NEW e \in Account, NEW p \in Password,
               registerButtonPressed(r, s, e, p)
        PROVE  \A t \in Slot : Harmless(req'[t], a)
    BY <1>0, <1>1, <2>5, OneHarmless, HarmlessNew DEF registerButtonPressed, AuthOp
  <2>6. ASSUME NEW s \in Slot, serveCreate(s) PROVE \A t \in Slot : Harmless(req'[t], a)
    BY <1>0, <1>1, <2>6, HarmlessReply DEF serveCreate, Sent
  <2>7. ASSUME NEW s \in Slot, NEW ok, NEW op \in Op \ {"create"}, Sent(s, op), Reply(s, ok)
        PROVE  \A t \in Slot : Harmless(req'[t], a)
    <3>1. req[s] \in Request /\ Harmless(req[s], a)
      BY <1>0, <1>1 DEF TypeOK
    <3>2. Harmless([req[s] EXCEPT !.stage = "replied", !.ok = ok], a)
      BY <2>7, <3>1 DEF Harmless, Request, Sent
    <3> DEFINE q == IF req[s].vc = Nil THEN Idle
                    ELSE [req[s] EXCEPT !.stage = "replied", !.ok = ok]
    <3>3. Harmless(q, a) /\ req' = [req EXCEPT ![s] = q]
      BY <2>7, <3>2 DEF Harmless, Idle, Reply
    <3> HIDE DEF q
    <3> QED
      BY <1>0, <1>1, <3>3, OneHarmless
  <2>8. ASSUME NEW s \in Slot,
               serveSignIn(s) \/ serveUpload(s) \/ serveUrl(s) \/ serveWrite(s) \/ serveFetch(s)
        PROVE  \A t \in Slot : Harmless(req'[t], a)
    <3>1. {"signIn", "upload", "url", "write", "fetch"} \subseteq Op \ {"create"}
      BY DEF Op, HttpOp, AuthOp
    <3>2. CASE Finish(s)
      BY <1>0, <1>1, <3>2, OneHarmless, HarmlessNew DEF Finish, AuthOp
    <3>3. CASE serveSignIn(s)
      BY <3>1, <3>3, <2>7, Zenon DEF serveSignIn
    <3>4. CASE serveUpload(s)
      BY <3>1, <3>4, <2>7 DEF serveUpload
    <3>5. CASE serveUrl(s)
      BY <3>1, <3>5, <2>7, Zenon DEF serveUrl
    <3>6. CASE serveWrite(s)
      BY <3>1, <3>6, <2>7 DEF serveWrite
    <3>7. CASE serveFetch(s)
      BY <3>1, <3>2, <3>7, <2>7, Zenon DEF serveFetch
    <3> QED
      BY <2>8, <3>3, <3>4, <3>5, <3>6, <3>7
  <2>9. ASSUME NEW s \in Slot, Timeout(s) PROVE \A t \in Slot : Harmless(req'[t], a)
    BY <1>0, <1>1, <2>9, HarmlessReply DEF Timeout
  <2>10. ASSUME NEW s \in Slot, NEW d \in Slot, LateArrival(s, d)
         PROVE  \A t \in Slot : Harmless(req'[t], a)
    <3>1. ASSUME NEW t \in Slot PROVE Harmless(req'[t], a)
      <4>1. req[s] \in Request /\ Harmless(req[s], a) /\ Harmless(req[t], a)
        BY <1>0, <1>1 DEF TypeOK
      <4>2. /\ Harmless([req[s] EXCEPT !.vc = Nil], a)
            /\ Harmless([req[s] EXCEPT !.stage = "replied"], a)
        BY <2>10, <4>1 DEF Harmless, Request, LateArrival
      <4>3. s # d
        BY <2>10 DEF LateArrival, IsIdle
      <4>4. req'[t] \in {req[t], [req[s] EXCEPT !.vc = Nil], [req[s] EXCEPT !.stage = "replied"]}
        BY <1>0, <2>10, <4>3 DEF LateArrival, TypeOK
      <4> QED
        BY <4>1, <4>2, <4>4
    <3> QED
      BY <3>1
  <2>11. ASSUME NEW s \in Slot, receiveAuth(s) \/ receiveOther(s)
         PROVE  \A t \in Slot : Harmless(req'[t], a)
    <3>1. req[s].ok \in BOOLEAN
      BY <1>0 DEF TypeOK, Request
    <3> QED
      BY <1>0, <1>1, <2>11, <3>1, HarmlessEnqueue DEF receiveAuth, receiveOther, Replied
  <2>12. ASSUME NEW s \in Slot, Finish(s) PROVE \A t \in Slot : Harmless(req'[t], a)
    BY <1>0, <1>1, <2>12, OneHarmless, HarmlessNew DEF Finish, AuthOp
  <2>13. ASSUME NEW s \in Slot, createUserDone(s) \/ putDataDone(s) \/ downloadURLDone(s)
         PROVE  \A t \in Slot : Harmless(req'[t], a)
    BY <1>0, <1>1, <1>q, <2>12, <2>13, HarmlessContinue
    DEF createUserDone, putDataDone, downloadURLDone
  <2> QED
    BY <2>1, <2>2, <2>3, <2>4, <2>5, <2>6, <2>8, <2>9, <2>10, <2>11, <2>12, <2>13
    DEF Step, phone, showRegister, okayAction, backButtonPressed,
        handleSelectProfileImageView, didFinishPicking, imagePickerControllerDidCancel,
        logoutButtonPressed, newMessageButtonPressed, dismissNewMessage,
        chatLogButtonPressed, popChatLog, handleSendMessage, Disable, signOutByForce,
        authenticateDone, updateChildValuesDone, fetchUserDone
<1> QED
  BY <1>a, <1>2, <1>3 DEF Orphan, Harmless

-----------------------------------------------------------------------------
(***************************************************************************)
(* The theorems.                                                           *)
(***************************************************************************)
LEMMA RegistrationInit == Init => RegistrationInv
BY IdleBacked DEF Init, RegistrationInv, AllBacked, UsersKnown, SenderKnown, ProfileConsistent

LEMMA RegistrationNext ==
    SessionInv /\ RegistrationInv /\ [Next]_vars => RegistrationInv'
<1> SUFFICES ASSUME SessionInv, RegistrationInv, [Next]_vars PROVE RegistrationInv'
  OBVIOUS
<1>1. CASE Next
  BY <1>1, NextIsStep, BackedStep, UsersStep, SenderStep, ProfileStep DEF RegistrationInv
<1>2. CASE UNCHANGED vars
  BY <1>2 DEF vars, phone, server, RegistrationInv, AllBacked, UsersKnown, SenderKnown,
     ProfileConsistent
<1> QED
  BY <1>1, <1>2

\* The invariant of registrations holds of every behaviour.
THEOREM RegistrationInvariance == Spec => []RegistrationInv
BY RegistrationInit, RegistrationNext, Invariance, PTL DEF Spec

\* Every sender in /chats is the uid of an account, or nil after a forced
\* sign-out (handleSendMessage of ChatLogViewController).
THEOREM SendersAlwaysKnown == Spec => []SenderKnown
<1>1. RegistrationInv => SenderKnown
  BY DEF RegistrationInv
<1> QED
  BY <1>1, RegistrationInvariance, PTL

\* A profile under /users repeats the password of its account and has its
\* image, however late RegisterViewController's blocks run.
THEOREM ProfilesAlwaysConsistent == Spec => []ProfileConsistent
<1>1. RegistrationInv => ProfileConsistent
  BY DEF RegistrationInv
<1> QED
  BY <1>1, RegistrationInvariance, PTL

\* A registration that breaks off after createUser leaves an account that
\* never gets a profile: RegisterViewController cannot resume it.
THEOREM OrphansStay == Spec => OrphanForever
<1>1. SessionInv /\ [Next]_vars => [\A a \in Account : Orphan(a) => Orphan(a)']_vars
  BY NextIsStep, OrphanStep
<1> QED
  BY <1>1, Invariance, PTL DEF Spec, OrphanForever

=============================================================================
