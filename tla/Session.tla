------------------------------ MODULE Session ------------------------------
(***************************************************************************)
(* One phone running the chat app, and the part of the Firebase backend    *)
(* that it talks to when somebody signs in, registers, signs out or is     *)
(* signed out: Auth (accounts), Storage (profile images) and /users of the *)
(* realtime database (profiles).                                           *)
(*                                                                         *)
(* On the phone there are three threads of control.  The main thread runs  *)
(* the view controllers: a tap and a completion block each run to their    *)
(* end, and completion blocks run in the order of the main dispatch queue. *)
(* The Auth work queue updates the current user and the keychain when an   *)
(* answer arrives, before it queues the completion block.  The network     *)
(* carries any number of requests at once, answers them in any order, and  *)
(* may lose a request or its answer.                                       *)
(*                                                                         *)
(* A view controller is an object: presentLoginView makes a new one each   *)
(* time, and a request in flight keeps the one that issued it alive, since *)
(* the completion block captures self.  Objects are therefore identities,  *)
(* reused only when neither the screen nor a request holds them.           *)
(***************************************************************************)
EXTENDS Naturals, Sequences, FiniteSets

CONSTANTS
    Account,     \* what signs in: e-mail addresses, one uid each
    Password,    \* what may be typed as a password
    LoginVC,     \* LoginViewController objects
    RegisterVC,  \* RegisterViewController objects
    Slot,        \* bound on requests in flight at once
    Nil          \* Swift's nil: no user, no password, nobody waiting

\* The remaining screens need no identity: there is at most one of each.
Screen == {"Home", "Alert", "Picker", "NewMessage"}

ASSUME ObjectsDistinct ==
    /\ LoginVC \cap RegisterVC = {}
    /\ (LoginVC \cup RegisterVC) \cap Screen = {}
    /\ Nil \notin LoginVC \cup RegisterVC \cup Screen

ASSUME NilIsNoValue == Nil \notin Account \cup Password

VARIABLES
    running,      \* the process is alive
    currentUser,  \* Auth.auth().currentUser
    keychain,     \* the user saved in the keychain; survives the process
    presented,    \* modal screens above the navigation controller, bottom up
    chatLog,      \* a ChatLogViewController is pushed on top of Home
    title,        \* whose profile the navigation bar of Home shows
    photo,        \* the RegisterVCs whose imageView shows a picked photo
    req,          \* requests in flight
    mainQueue,    \* completion blocks on the main queue, oldest first
    accounts,     \* Auth: the password of each account
    disabled,     \* Auth: accounts disabled or deleted in the console
    images,       \* Storage: accounts whose profile image is stored
    profiles,     \* /users: the password field of each profile
    senders       \* the sender fields written to /chats

phone  == <<running, currentUser, keychain, presented, chatLog, title, photo>>
server == <<accounts, disabled, images, profiles, senders>>
vars   == <<phone, req, mainQueue, server>>

-----------------------------------------------------------------------------
(***************************************************************************)
(* Requests.  "signIn" and "create" go through Auth, "upload" and "url"    *)
(* through Storage, "write" and "fetch" through the realtime database.  A  *)
(* registration is one request that goes through create, upload, url and   *)
(* write, since each completion block starts the next call.                *)
(***************************************************************************)
AuthOp == {"signIn", "create"}
HttpOp == AuthOp \cup {"upload", "url"}
Op     == HttpOp \cup {"write", "fetch"}

\* "sent": with the network or the server; "replied": the outcome is known;
\* "queued": the completion block is on the main queue.
Stage == {"idle", "sent", "replied", "queued"}

Request == [op : Op, stage : Stage,
            vc : LoginVC \cup RegisterVC \cup {"Home", Nil},
            email : Account \cup {Nil}, password : Password \cup {Nil},
            ok : BOOLEAN]

Idle == [op |-> "fetch", stage |-> "idle", vc |-> Nil, email |-> Nil,
         password |-> Nil, ok |-> FALSE]

\* The call of an SDK method by vc.
Call(op, vc, email, password) ==
    [op |-> op, stage |-> "sent", vc |-> vc, email |-> email,
     password |-> password, ok |-> FALSE]

IsIdle(s) == req[s].stage = "idle"

\* The next call of a registration, made by the completion block of the last.
Continue(s, op) ==
    req' = [req EXCEPT ![s] = [@ EXCEPT !.op = op, !.stage = "sent", !.ok = FALSE]]

Finish(s) == req' = [req EXCEPT ![s] = Idle]

-----------------------------------------------------------------------------
(***************************************************************************)
(* UIKit's modal presentation, as the view controllers use it.             *)
(***************************************************************************)
Objects(p) == {p[i] : i \in DOMAIN p}
OnScreen == Objects(presented)

Top == IF presented = <<>> THEN "Home" ELSE presented[Len(presented)]

\* present(vc) by a controller that is off screen, or that presents something
\* already, only logs a warning.
Present(by, vc) == IF Top = by THEN Append(presented, vc) ELSE presented

\* dismiss() takes away whatever the controller presents; a controller that
\* presents nothing is taken away itself; one that is off screen stays so.
DismissFrom(vc) ==
    IF vc \notin OnScreen THEN presented
    ELSE IF vc = Top THEN SubSeq(presented, 1, Len(presented) - 1)
    ELSE SubSeq(presented, 1, CHOOSE i \in DOMAIN presented : presented[i] = vc)

\* Objects that neither the screen nor a completion block holds.
Fresh(V) == {v \in V : v \notin OnScreen /\ \A s \in Slot : req[s].vc # v}

AtLogin == OnScreen \cap LoginVC # {}

-----------------------------------------------------------------------------
Init ==
    /\ running = FALSE
    /\ currentUser = Nil
    /\ keychain = Nil
    /\ presented = <<>>
    /\ chatLog = FALSE
    /\ title = Nil
    /\ photo = {}
    /\ req = [s \in Slot |-> Idle]
    /\ mainQueue = <<>>
    /\ accounts = [a \in Account |-> Nil]
    /\ disabled = {}
    /\ images = {}
    /\ profiles = [a \in Account |-> Nil]
    /\ senders = {}

-----------------------------------------------------------------------------
(***************************************************************************)
(* The process.                                                            *)
(***************************************************************************)
\* Auth loads the user from the keychain, or fails to; HomeViewController's
\* viewDidLoad then runs checkIfUserIsLoggedIn, which either presents Login
\* or asks for the profile to show in the navigation bar.
Launch ==
    /\ ~running
    /\ running' = TRUE
    /\ currentUser' \in {keychain, Nil}
    /\ \/ /\ currentUser' = Nil
          /\ \E l \in LoginVC : presented' = <<l>>
          /\ UNCHANGED req
       \/ /\ currentUser' # Nil
          /\ \E s \in Slot :
                /\ IsIdle(s)
                /\ req' = [req EXCEPT ![s] =
                              Call("fetch", "Home", currentUser', Nil)]
          /\ UNCHANGED presented
    /\ UNCHANGED <<keychain, chatLog, title, photo, mainQueue, server>>

\* The process ends.  Completion blocks die with it; a request that is on the
\* network may still reach the server, with nobody waiting for the answer.
Kill ==
    /\ running
    /\ running' = FALSE
    /\ currentUser' = Nil
    /\ presented' = <<>>
    /\ chatLog' = FALSE
    /\ title' = Nil
    /\ photo' = {}
    /\ req' = [s \in Slot |-> IF req[s].stage = "sent" /\ req[s].op # "fetch"
                              THEN [req[s] EXCEPT !.vc = Nil] ELSE Idle]
    /\ mainQueue' = <<>>
    /\ UNCHANGED <<keychain, server>>

-----------------------------------------------------------------------------
(***************************************************************************)
(* LoginViewController.                                                    *)
(***************************************************************************)
\* Inputs of four characters or fewer return early and change nothing.
loginButton(l, s, email, password) ==
    /\ Top = l
    /\ IsIdle(s)
    /\ req' = [req EXCEPT ![s] = Call("signIn", l, email, password)]
    /\ UNCHANGED <<phone, mainQueue, server>>

\* "Okay" of the alert that reports a failed sign-in.
okayAction ==
    /\ Top = "Alert"
    /\ presented' = DismissFrom("Alert")
    /\ UNCHANGED <<running, currentUser, keychain, chatLog, title, photo,
                   req, mainQueue, server>>

\* The storyboard segue of "Create New Account".
showRegister(l, r) ==
    /\ Top = l
    /\ r \in Fresh(RegisterVC)
    /\ presented' = Present(l, r)
    /\ photo' = photo \ {r}
    /\ UNCHANGED <<running, currentUser, keychain, chatLog, title,
                   req, mainQueue, server>>

-----------------------------------------------------------------------------
(***************************************************************************)
(* RegisterViewController.                                                 *)
(***************************************************************************)
\* confirmPassword is read and not looked at; nothing is validated.
registerButtonPressed(r, s, email, password) ==
    /\ Top = r
    /\ IsIdle(s)
    /\ req' = [req EXCEPT ![s] = Call("create", r, email, password)]
    /\ UNCHANGED <<phone, mainQueue, server>>

backButtonPressed(r) ==
    /\ Top = r
    /\ presented' = DismissFrom(r)
    /\ UNCHANGED <<running, currentUser, keychain, chatLog, title, photo,
                   req, mainQueue, server>>

handleSelectProfileImageView(r) ==
    /\ Top = r
    /\ presented' = Present(r, "Picker")
    /\ UNCHANGED <<running, currentUser, keychain, chatLog, title, photo,
                   req, mainQueue, server>>

\* The picker's delegate is the RegisterVC that presents it.
PickerOf(r) ==
    Top = "Picker" /\ Len(presented) > 1 /\ presented[Len(presented) - 1] = r

\* info holds an edited or original image, or neither.
didFinishPicking(r) ==
    /\ PickerOf(r)
    /\ photo' \in {photo, photo \cup {r}}
    /\ presented' = DismissFrom(r)
    /\ UNCHANGED <<running, currentUser, keychain, chatLog, title,
                   req, mainQueue, server>>

imagePickerControllerDidCancel(r) ==
    /\ PickerOf(r)
    /\ presented' = DismissFrom(r)
    /\ UNCHANGED <<running, currentUser, keychain, chatLog, title, photo,
                   req, mainQueue, server>>

-----------------------------------------------------------------------------
(***************************************************************************)
(* HomeViewController, and the screens opened from it.                     *)
(***************************************************************************)
AtHome == running /\ Top = "Home" /\ ~chatLog

\* Mutant of logoutButtonPressed: presentLoginView is forgotten.
logoutStaysHome(l) ==
    /\ AtHome
    /\ l \in Fresh(LoginVC)
    /\ currentUser' = Nil
    /\ keychain' = Nil
    /\ UNCHANGED <<running, presented, chatLog, title, photo, req, mainQueue, server>>

\* signOut does nothing for nil, and leaves everything as it is when the
\* keychain item cannot be removed; the error is printed and Login presented
\* all the same.
logoutButtonPressed(l) ==
    /\ AtHome
    /\ l \in Fresh(LoginVC)
    /\ \/ UNCHANGED <<currentUser, keychain>>
       \/ /\ currentUser # Nil
          /\ currentUser' = Nil
          /\ keychain' = Nil
    /\ presented' = Present("Home", l)
    /\ UNCHANGED <<running, chatLog, title, photo, req, mainQueue, server>>

newMessageButtonPressed ==
    /\ AtHome
    /\ presented' = Present("Home", "NewMessage")
    /\ UNCHANGED <<running, currentUser, keychain, chatLog, title, photo,
                   req, mainQueue, server>>

\* A row is selected, or the sheet is pulled down.
dismissNewMessage ==
    /\ Top = "NewMessage"
    /\ presented' = DismissFrom("NewMessage")
    /\ UNCHANGED <<running, currentUser, keychain, chatLog, title, photo,
                   req, mainQueue, server>>

chatLogButtonPressed ==
    /\ AtHome
    /\ chatLog' = TRUE
    /\ UNCHANGED <<running, currentUser, keychain, presented, title, photo,
                   req, mainQueue, server>>

popChatLog ==
    /\ Top = "Home" /\ chatLog
    /\ chatLog' = FALSE
    /\ UNCHANGED <<running, currentUser, keychain, presented, title, photo,
                   req, mainQueue, server>>

\* The message and its way to /chats are the business of ChatFeed; here only
\* the sender field counts, read from Auth when the message is sent.
handleSendMessage ==
    /\ Top = "Home" /\ chatLog
    /\ senders' = senders \cup {currentUser}
    /\ UNCHANGED <<phone, req, mainQueue, accounts, disabled, images, profiles>>

-----------------------------------------------------------------------------
(***************************************************************************)
(* The backend answers a request.                                          *)
(***************************************************************************)
\* The outcome reaches the phone, unless the process that asked is gone.
Reply(s, ok) ==
    req' = [req EXCEPT ![s] = IF @.vc = Nil THEN Idle
                              ELSE [@ EXCEPT !.stage = "replied", !.ok = ok]]

Sent(s, op) == req[s].stage = "sent" /\ req[s].op = op

serveSignIn(s) ==
    /\ Sent(s, "signIn")
    /\ Reply(s, /\ accounts[req[s].email] = req[s].password
                /\ req[s].email \notin disabled)
    /\ UNCHANGED <<phone, mainQueue, server>>

serveCreate(s) ==
    /\ Sent(s, "create")
    /\ LET free == accounts[req[s].email] = Nil
       IN  /\ accounts' = IF free
                          THEN [accounts EXCEPT ![req[s].email] = req[s].password]
                          ELSE accounts
           /\ Reply(s, free)
    /\ UNCHANGED <<phone, mainQueue, disabled, images, profiles, senders>>

serveUpload(s) ==
    /\ Sent(s, "upload")
    /\ images' = images \cup {req[s].email}
    /\ Reply(s, TRUE)
    /\ UNCHANGED <<phone, mainQueue, accounts, disabled, profiles, senders>>

serveUrl(s) ==
    /\ Sent(s, "url")
    /\ Reply(s, req[s].email \in images)
    /\ UNCHANGED <<phone, mainQueue, server>>

\* The security rules accept the write or reject it.
serveWrite(s) ==
    /\ Sent(s, "write")
    /\ \/ /\ profiles' = [profiles EXCEPT ![req[s].email] = req[s].password]
          /\ Reply(s, TRUE)
       \/ /\ UNCHANGED profiles
          /\ Reply(s, FALSE)
    /\ UNCHANGED <<phone, mainQueue, accounts, disabled, images, senders>>

\* observeSingleEvent has no cancel block: a denied read never calls back.
serveFetch(s) ==
    /\ Sent(s, "fetch")
    /\ \/ Reply(s, profiles[req[s].email] # Nil)
       \/ Finish(s)
    /\ UNCHANGED <<phone, mainQueue, server>>

Serve(s) ==
    \/ serveSignIn(s) \/ serveCreate(s) \/ serveUpload(s)
    \/ serveUrl(s) \/ serveWrite(s) \/ serveFetch(s)

\* An HTTP request fails: it never reached the server, or its answer was
\* lost, or the server refused it.
Timeout(s) ==
    /\ req[s].op \in HttpOp /\ req[s].stage \in {"sent", "replied"}
    /\ Reply(s, FALSE)
    /\ UNCHANGED <<phone, mainQueue, server>>

\* The phone gives up while the request is still on its way: the server will
\* act on it (d) after the phone has been told that it failed (s).
LateArrival(s, d) ==
    /\ req[s].op \in HttpOp /\ req[s].stage = "sent" /\ req[s].vc # Nil
    /\ IsIdle(d)
    /\ req' = [req EXCEPT ![s] = [@ EXCEPT !.stage = "replied"],
                          ![d] = [req[s] EXCEPT !.vc = Nil]]
    /\ UNCHANGED <<phone, mainQueue, server>>

Disable(a) ==
    /\ accounts[a] # Nil
    /\ disabled' = disabled \cup {a}
    /\ UNCHANGED <<phone, req, mainQueue, accounts, images, profiles, senders>>

-----------------------------------------------------------------------------
(***************************************************************************)
(* The SDK on the phone receives an outcome and queues the completion      *)
(* block on the main queue.                                                *)
(***************************************************************************)
Enqueue(s, ok) ==
    /\ req' = [req EXCEPT ![s] = [@ EXCEPT !.stage = "queued", !.ok = ok]]
    /\ mainQueue' = Append(mainQueue, s)

Replied(s) == req[s].stage = "replied"

\* Mutant of receiveAuth: the current user changes although it was not saved.
receiveAuthUnsaved(s) ==
    /\ Replied(s) /\ req[s].op \in AuthOp
    /\ \/ /\ req[s].ok
          /\ currentUser' = req[s].email
          /\ keychain' \in {keychain, req[s].email}
          /\ Enqueue(s, TRUE)
       \/ /\ UNCHANGED <<currentUser, keychain>>
          /\ Enqueue(s, FALSE)
    /\ UNCHANGED <<running, presented, chatLog, title, photo, server>>

\* On the Auth work queue: the user becomes the current one if it could be
\* saved in the keychain; if not the block gets the error.
receiveAuth(s) ==
    /\ Replied(s) /\ req[s].op \in AuthOp
    /\ \/ /\ req[s].ok
          /\ currentUser' = req[s].email
          /\ keychain' = req[s].email
          /\ Enqueue(s, TRUE)
       \/ /\ UNCHANGED <<currentUser, keychain>>
          /\ Enqueue(s, FALSE)
    /\ UNCHANGED <<running, presented, chatLog, title, photo, server>>

receiveOther(s) ==
    /\ Replied(s) /\ req[s].op \notin AuthOp
    /\ Enqueue(s, req[s].ok)
    /\ UNCHANGED <<phone, server>>

Receive(s) == receiveAuth(s) \/ receiveOther(s)

\* A token refresh finds the account disabled or deleted: Auth signs the user
\* out by force, whether or not the keychain item can be removed.  The app
\* listens for no such change.
signOutByForce ==
    /\ currentUser \in disabled
    /\ currentUser' = Nil
    /\ keychain' \in {Nil, keychain}
    /\ UNCHANGED <<running, presented, chatLog, title, photo,
                   req, mainQueue, server>>

-----------------------------------------------------------------------------
(***************************************************************************)
(* Completion blocks, run one at a time by the main thread.                *)
(***************************************************************************)
RunNext(s, op) ==
    /\ mainQueue # <<>>
    /\ s = Head(mainQueue)
    /\ req[s].op = op
    /\ mainQueue' = Tail(mainQueue)

\* Mutant of authenticateDone: the error branch does not return.
authenticateFallsThrough(s) ==
    /\ RunNext(s, "signIn")
    /\ presented' = DismissFrom(req[s].vc)
    /\ Finish(s)
    /\ UNCHANGED <<running, currentUser, keychain, chatLog, title, photo, server>>

\* Mutant of authenticateDone: the alert is presented on the root, whatever
\* the screen shows by then.
authenticateAlertsRoot(s) ==
    /\ RunNext(s, "signIn")
    /\ presented' = IF req[s].ok THEN DismissFrom(req[s].vc)
                                 ELSE Append(presented, "Alert")
    /\ Finish(s)
    /\ UNCHANGED <<running, currentUser, keychain, chatLog, title, photo, server>>

\* homeViewController is nil, so fetchUserAndSetupNavBarTitle is not called.
authenticateDone(s) ==
    /\ RunNext(s, "signIn")
    /\ presented' = IF req[s].ok THEN DismissFrom(req[s].vc)
                                 ELSE Present(req[s].vc, "Alert")
    /\ Finish(s)
    /\ UNCHANGED <<running, currentUser, keychain, chatLog, title, photo, server>>

\* Mutant of createUserDone: it waits for a photo to be picked.
createUserWaits(s) ==
    /\ RunNext(s, "create")
    /\ IF req[s].ok THEN req[s].vc \in photo /\ Continue(s, "upload")
                    ELSE Finish(s)
    /\ UNCHANGED <<phone, server>>

\* Mutant of createUserDone: the error is not looked at.
createUserUnchecked(s) ==
    /\ RunNext(s, "create")
    /\ Continue(s, "upload")
    /\ UNCHANGED <<phone, server>>

\* imageView.image is read now, not when the button was pressed.  Without a
\* photo it is the "plus" symbol, which may have no JPEG form: then the
\* registration ends here without a word.
createUserDone(s) ==
    /\ RunNext(s, "create")
    /\ \/ /\ req[s].ok
          /\ Continue(s, "upload")
       \/ /\ req[s].ok => req[s].vc \notin photo
          /\ Finish(s)
    /\ UNCHANGED <<phone, server>>

\* Mutant of putDataDone: the error of the upload is not looked at.
putDataUnchecked(s) ==
    /\ RunNext(s, "upload")
    /\ Continue(s, "write")
    /\ UNCHANGED <<phone, server>>

putDataDone(s) ==
    /\ RunNext(s, "upload")
    /\ IF req[s].ok THEN Continue(s, "url") ELSE Finish(s)
    /\ UNCHANGED <<phone, server>>

downloadURLDone(s) ==
    /\ RunNext(s, "url")
    /\ IF req[s].ok THEN Continue(s, "write") ELSE Finish(s)
    /\ UNCHANGED <<phone, server>>

\* Mutant of updateChildValuesDone: a registration goes straight to Home.
updateChildValuesGoesHome(s) ==
    /\ RunNext(s, "write")
    /\ presented' = IF req[s].ok THEN <<>> ELSE presented
    /\ Finish(s)
    /\ UNCHANGED <<running, currentUser, keychain, chatLog, title, photo, server>>

updateChildValuesDone(s) ==
    /\ RunNext(s, "write")
    /\ presented' = IF req[s].ok THEN DismissFrom(req[s].vc) ELSE presented
    /\ Finish(s)
    /\ UNCHANGED <<running, currentUser, keychain, chatLog, title, photo, server>>

\* Mutant of fetchUserDone: the wrong field of the profile is shown.
fetchUserWrongField(s) ==
    /\ RunNext(s, "fetch")
    /\ title' = IF req[s].ok THEN profiles[req[s].email] ELSE title
    /\ Finish(s)
    /\ UNCHANGED <<running, currentUser, keychain, presented, chatLog, photo, server>>

fetchUserDone(s) ==
    /\ RunNext(s, "fetch")
    /\ title' = IF req[s].ok THEN req[s].email ELSE title
    /\ Finish(s)
    /\ UNCHANGED <<running, currentUser, keychain, presented, chatLog, photo, server>>

RunMain(s) ==
    \/ authenticateDone(s) \/ createUserDone(s) \/ putDataDone(s)
    \/ downloadURLDone(s) \/ updateChildValuesDone(s) \/ fetchUserDone(s)

-----------------------------------------------------------------------------
Login ==
    \/ \E l \in LoginVC, s \in Slot, a \in Account, p \in Password :
            loginButton(l, s, a, p)
    \/ \E l \in LoginVC, r \in RegisterVC : showRegister(l, r)
    \/ okayAction

Register ==
    \E r \in RegisterVC :
        \/ \E s \in Slot, a \in Account, p \in Password : registerButtonPressed(r, s, a, p)
        \/ backButtonPressed(r)
        \/ handleSelectProfileImageView(r)
        \/ didFinishPicking(r)
        \/ imagePickerControllerDidCancel(r)

Home ==
    \/ \E l \in LoginVC : logoutButtonPressed(l)
    \/ newMessageButtonPressed
    \/ dismissNewMessage
    \/ chatLogButtonPressed
    \/ popChatLog
    \/ handleSendMessage

Network ==
    \/ \E s \in Slot : Serve(s) \/ Timeout(s) \/ Receive(s)
    \/ \E s, d \in Slot : LateArrival(s, d)

Next ==
    \/ Launch \/ Kill
    \/ Login \/ Register \/ Home
    \/ Network
    \/ \E s \in Slot : RunMain(s)
    \/ \E a \in Account : Disable(a)
    \/ signOutByForce

Spec == Init /\ [][Next]_vars

\* The network and the backend answer in the end, the work queues and the
\* main thread run what is queued.  What people do, kills and failures are
\* not fair.
Fairness ==
    \A s \in Slot : /\ WF_vars(Serve(s))
                    /\ WF_vars(Receive(s))
                    /\ WF_vars(RunMain(s))

FairSpec == Spec /\ Fairness

-----------------------------------------------------------------------------
(***************************************************************************)
(* Properties.                                                             *)
(***************************************************************************)
\* Every variable has the type the code gives it.
TypeOK ==
    /\ running \in BOOLEAN
    /\ currentUser \in Account \cup {Nil}
    /\ keychain \in Account \cup {Nil}
    /\ presented \in Seq(LoginVC \cup RegisterVC \cup (Screen \ {"Home"}))
    /\ chatLog \in BOOLEAN
    /\ title \in Account \cup {Nil}
    /\ photo \subseteq RegisterVC
    /\ req \in [Slot -> Request]
    /\ mainQueue \in Seq(Slot)
    /\ accounts \in [Account -> Password \cup {Nil}]
    /\ disabled \subseteq Account
    /\ images \subseteq Account
    /\ profiles \in [Account -> Password \cup {Nil}]
    /\ senders \subseteq Account \cup {Nil}

\* The six stacks of screens above Home.
Nested(p) ==
    \/ p \in {<<>>, <<"NewMessage">>}
    \/ \E l \in LoginVC : p \in {<<l>>, <<l, "Alert">>}
    \/ \E l \in LoginVC, r \in RegisterVC : p \in {<<l, r>>, <<l, r, "Picker">>}

\* However late completion blocks run and whatever they dismiss, Login lies
\* directly on Home, Register and the alert on a Login, the picker on a
\* Register; and nothing ever covers a pushed ChatLog or outlives the process.
ScreensNest ==
    /\ Nested(presented)
    /\ chatLog => presented = <<>>
    /\ presented # <<>> \/ chatLog => running

\* Home cannot be used signed out: without a Login above it somebody is signed
\* in, unless the backend has disabled an account (signOutByForce tells the
\* app nothing).  Late and repeated sign-ins, failed sign-outs, dismissals of
\* the wrong screen and restarts do not open it.
HomeSignedIn == running /\ ~AtLogin => currentUser # Nil \/ disabled # {}

\* A message carries the uid of an existing account as its sender: the nil
\* that handleSendMessage would write needs a forced sign-out.
SenderKnown ==
    \A u \in senders : IF u = Nil THEN disabled # {} ELSE accounts[u] # Nil

\* Whoever is signed in would be signed in again after a restart: the current
\* user and the keychain never disagree, whichever save or removal fails.
KeychainAgrees == currentUser # Nil => keychain = currentUser

\* A profile under /users is complete: it belongs to an account, repeats the
\* password that account was made with, and its image is in Storage, although
\* it is written three calls after createUser and by a screen that may be gone.
ProfileConsistent ==
    \A a \in Account :
        profiles[a] # Nil => profiles[a] = accounts[a] /\ a \in images

\* What makes HomeSignedIn inductive.  Every completion block on the main
\* queue belongs to a request that waits for it, and is there once; requests
\* are for an account and held by the kind of object that issues them; nothing
\* of a process outlives it; and when the success of a sign-in is about to take
\* Login away, the work queue has already set the current user.
QueueSound ==
    /\ \A i \in DOMAIN mainQueue : req[mainQueue[i]].stage = "queued"
    /\ \A i, j \in DOMAIN mainQueue : mainQueue[i] = mainQueue[j] => i = j

Fits(q) ==
    /\ q.stage # "idle" => q.email \in Account
    /\ q.stage \in {"replied", "queued"} => q.vc # Nil
    /\ q.vc \in LoginVC => q.op = "signIn"
    /\ q.vc \in RegisterVC => q.op \in {"create", "upload", "url", "write"}
    /\ q.vc = "Home" => q.op = "fetch"

OwnersFit == \A s \in Slot : Fits(req[s])

DeadIsQuiet ==
    ~running => /\ currentUser = Nil
                /\ mainQueue = <<>>
                /\ \A s \in Slot : req[s].vc = Nil

SuccessIsSignedIn ==
    \A s \in Slot :
        /\ req[s].op = "signIn" /\ req[s].stage = "queued" /\ req[s].ok
        /\ req[s].vc \in OnScreen
        => currentUser # Nil \/ disabled # {}

SessionInv ==
    /\ TypeOK /\ ScreensNest
    /\ QueueSound /\ OwnersFit /\ DeadIsQuiet
    /\ SuccessIsSignedIn /\ HomeSignedIn

\* The completion block of a sign-in that s stands for, run in this step.
SignsIn(s, l) ==
    /\ mainQueue # <<>> /\ s = Head(mainQueue) /\ mainQueue' = Tail(mainQueue)
    /\ req[s].op = "signIn" /\ req[s].ok /\ req[s].vc = l

\* A Login goes away only with the process or by the success of a sign-in
\* that this very Login asked for: not by a registration that completes, not
\* by a sign-in of an earlier Login, not by Back or Okay.
LoginLeaves ==
    [][\A l \in LoginVC :
          l \in OnScreen /\ l \notin OnScreen' =>
              ~running' \/ \E s \in Slot : SignsIn(s, l)]_vars

\* a was created but its registration has broken off before the profile.
Orphan(a) ==
    /\ accounts[a] # Nil /\ profiles[a] = Nil
    /\ \A s \in Slot :
          req[s].stage # "idle" /\ req[s].email = a =>
              \/ req[s].op \in {"signIn", "fetch"}
              \/ req[s].op = "create" /\ ~req[s].ok

\* A registration that breaks off after createUser is never made good:
\* registering again is refused, and nothing else writes the profile.
OrphanForever == [][\A a \in Account : Orphan(a) => Orphan(a)']_vars

\* Every request comes to its end: answered, its chain of completion blocks
\* run through, or dropped with the process.  No completion block waits for
\* ever behind others on the main queue.
RequestsSettle == \A s \in Slot : ~IsIdle(s) ~> IsIdle(s)

\* "self.homeViewController?.fetchUserAndSetupNavBarTitle() // FIXME: tak read"
\* of LoginViewController: after a sign-in the navigation bar shows the user's
\* profile.  Stated where it should have happened: Home is on top, nothing is
\* in flight, the profile exists, and the title shows it.
TitleFollowsLogin ==
    /\ AtHome /\ \A s \in Slot : IsIdle(s)
    /\ currentUser # Nil /\ profiles[currentUser] # Nil
    => title = currentUser
=============================================================================
