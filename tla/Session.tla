------------------------------- MODULE Session -------------------------------
(***************************************************************************)
(* Who is signed in, whose profile Home shows, and the onboarding:         *)
(* HomeViewController with the Service calls for signing in by e-mail,     *)
(* signing in with Google, registering, fetching the profile and recording *)
(* that the onboarding was seen, and logging out.                          *)
(*                                                                         *)
(* A sign-in is a chain of asynchronous calls, one closure calling the     *)
(* next.  Firebase Auth changes the current user on a queue of its own,    *)
(* before the closure that learns of it runs on the main thread.           *)
(* Firestore keeps one persistent queue of writes per user, sends the      *)
(* queue of the current one, and overlays it on what getDocument reads.  A *)
(* write gets there by a task of Firestore's worker queue: a kill before   *)
(* the task has run loses it.  getDocument is a task behind those of the   *)
(* earlier writes.  (WritePipeline and GetDocument model how; docs are the *)
(* documents under the acknowledged writes.)                               *)
(* Screens are the modal view controllers of Home; the screens of the      *)
(* login navigation stack, their forms and the loader are left out.        *)
(***************************************************************************)
EXTENDS Naturals, Sequences, FiniteSets

CONSTANTS Users,     \* uids
          Flows,     \* attempts to sign in; also the pictures they upload
          Photo,     \* the picture of a Google account
          Nil,
          MaxKills,  \* bound: how often the process is killed
          Failures,  \* do the services answer with errors?
          Patient    \* does the user wait for one thing to end before the next?

ASSUME NilAssumption == Nil \notin Users \cup Flows \cup {Photo}
ASSUME PhotoAssumption == Photo \notin Flows
ASSUME BoundsAssumption == MaxKills \in Nat
ASSUME SwitchesAssumption == Failures \in BOOLEAN /\ Patient \in BOOLEAN

VARIABLES cur,       \* Auth.auth().currentUser
          accounts,  \* the users that Firebase Auth knows
          docs,      \* the documents users/<uid> in Firestore
          stored,    \* the pictures in Cloud Storage
          writes,    \* the writes handed to Firestore for each user,
          queued,    \* of which so many are in its persistent queue; the tasks
                     \* of the others have yet to run
          mainQ,     \* closures posted to the main queue
          fetching,  \* the calls of fetchUserWithFirestore under way
          flow,      \* the state of each attempt to sign in
          homeUser,  \* HomeViewController.user
          modal,     \* the view controller Home presents
          closing,   \* and whether its dismissal is still animated
          kills, tapped, kept  \* history

history == <<tapped, kept>>
vars == <<cur, accounts, docs, stored, writes, queued, mainQ, fetching, flow, homeUser,
          modal, closing, kills, history>>

Queues == Users \cup {Nil}

Images == Flows \cup {Photo}
Profile == [hasSeenOnboarding : BOOLEAN, profileImageUrl : Images]
User == [uid : Users, hasSeenOnboarding : BOOLEAN]

Callback == [kind : {"presentLogin", "signedIn", "signInFailed", "checked", "created",
                     "createFailed", "profileWritten", "fetched", "seenWritten"},
             flow : Flows \cup {Nil}, ok : BOOLEAN, user : User \cup {Nil}]

ASSUME NilRecordAssumption == Nil \notin Profile \cup User \cup Callback

Post(kind, f, ok) == [kind |-> kind, flow |-> f, ok |-> ok, user |-> Nil]

Write == [op : {"create", "seen"}, uid : Users, image : Images \cup {Nil},
          done : Callback \cup {Nil}]

\* The tasks in the worker queue that a call of getDocument is behind: so many
\* writes of each user.
Tasks == [Queues -> Nat]
NoTasks == [q \in Queues |-> 0]

\* A fetchUserWithFirestore.
Fetch == [uid : Users, behind : Tasks]

\* A flow is one of the three chains and the call of it that is under way.
FlowState == [chain  : {"none", "email", "google", "register"},
              stage  : {"idle", "putting", "locating", "authenticating", "waiting",
                        "checking", "writing", "done", "trapped"},
              uid    : Users \cup {Nil},
              behind : Tasks]

Finished(f) == flow[f].stage \in {"idle", "done", "trapped"}

TypeOK ==
    /\ cur \in Users \cup {Nil}
    /\ accounts \subseteq Users
    /\ docs \in [Users -> Profile \cup {Nil}]
    /\ stored \subseteq Flows
    /\ writes \in [Queues -> Seq(Write)]
    /\ queued \in [Queues -> Nat] /\ \A q \in Queues : queued[q] <= Len(writes[q])
    /\ mainQ \in Seq(Callback)
    /\ fetching \in Seq(Fetch)
    /\ flow \in [Flows -> FlowState]
    /\ homeUser \in User \cup {Nil}
    /\ modal \in {"none", "login", "sheet", "onboarding"}
    /\ closing \in BOOLEAN
    /\ kills \in Nat
    /\ tapped \subseteq Users /\ kept \subseteq tapped

\* authenticateUSer, called by viewDidLoad at every launch.
AuthenticateUser(user, queue, fetches) ==
    IF user = Nil THEN queue = <<Post("presentLogin", Nil, TRUE)>> /\ fetches = <<>>
                  ELSE queue = <<>> /\ fetches = <<[uid |-> user, behind |-> NoTasks]>>

Init ==
    /\ accounts \in SUBSET Users
    /\ cur \in accounts \cup {Nil}
    /\ docs \in [Users -> [hasSeenOnboarding : BOOLEAN, profileImageUrl : {Photo}] \cup {Nil}]
    /\ \A u \in Users : docs[u] # Nil <=> u \in accounts
    /\ tapped = {u \in accounts : docs[u].hasSeenOnboarding} /\ kept = tapped
    /\ stored = {}
    /\ writes = [q \in Queues |-> <<>>] /\ queued = NoTasks
    /\ AuthenticateUser(cur, mainQ, fetching)
    /\ flow = [f \in Flows |-> [chain |-> "none", stage |-> "idle", uid |-> Nil,
                               behind |-> NoTasks]]
    /\ homeUser = Nil
    /\ modal = "none"
    /\ closing = FALSE
    /\ kills = 0

-----------------------------------------------------------------------------
(* Helpers                                                                 *)

\* present(_:animated:) does nothing while something is presented, be it on
\* its way out; dismiss(animated:) does nothing while something is leaving.
Present(screen) == modal' = IF modal = "none" THEN screen ELSE modal
Dismiss == closing' = (modal # "none")

Stage(f, stage) == flow' = [flow EXCEPT ![f].stage = stage]

\* The call of setData or updateData: a write for the current user's queue.
Enqueue(op, u, image, done) ==
    writes' = [writes EXCEPT ![cur] =
                 Append(@, [op |-> op, uid |-> u, image |-> image, done |-> done])]

\* The tasks that a getDocument called now is behind.
Unstored == [q \in Queues |-> Len(writes[q]) - queued[q]]

\* MUTANT of Reached: getDocument reads at once, past the tasks before its own.
ReachedEarly(behind) == behind \in Tasks

\* They have run: its own may.
Reached(behind) == behind = NoTasks

\* The call of getDocument in signInWitnGoogleFirestore.
Check(f) == flow' = [flow EXCEPT ![f].stage = "checking", ![f].behind = Unstored]

\* What getDocument reads: the server's document of u under the writes to it
\* in the current user's persistent queue.
Pending(u, op) == {i \in 1..queued[cur] : writes[cur][i].uid = u /\ writes[cur][i].op = op}

LocalExists(u) == docs[u] # Nil \/ Pending(u, "create") # {}

LocalSeen(u) ==
    \/ \E i \in Pending(u, "seen") : \A j \in Pending(u, "create") : j < i
    \/ Pending(u, "create") = {} /\ docs[u] # Nil /\ docs[u].hasSeenOnboarding

\* MUTANT of CheckExists: the existence check asks the server's document.
ServerExists(u) == docs[u] # Nil

\* The existence check of signInWitnGoogleFirestore.
CheckExists(u) == LocalExists(u)

\* MUTANT of AuthenticationComplete: Home keeps the user it has.
AuthenticationCompleteNoFetch == Dismiss /\ UNCHANGED fetching

\* authenticationComplete: Home dismisses what it presents and fetches the
\* profile of the current user, if there is one.
AuthenticationComplete ==
    /\ Dismiss
    /\ fetching' = IF cur = Nil THEN fetching
                   ELSE Append(fetching, [uid |-> cur, behind |-> Unstored])

PresentOnboardingIfNecessary(u) ==
    IF u # Nil /\ ~u.hasSeenOnboarding THEN Present("onboarding") ELSE UNCHANGED modal

\* The didSet of HomeViewController.user, as far as screens are concerned.
SetHomeUser(u) == homeUser' = u /\ PresentOnboardingIfNecessary(u)

\* The users whose mark the process takes with it when it dies.
LostMarks == {u \in Users : \E q \in Queues : \E i \in DOMAIN writes[q] :
                /\ i > queued[q]
                /\ writes[q][i].op = "seen" /\ writes[q][i].uid = u}

\* The process dies and is launched again.  Of the writes it finds those that
\* were stored, with no closures.
Restart ==
    /\ writes' = [q \in Queues |->
                    [i \in 1..queued[q] |-> [writes[q][i] EXCEPT !.done = Nil]]]
    /\ kept' = kept \ LostMarks
    /\ AuthenticateUser(cur, mainQ', fetching')
    /\ \E arrived \in SUBSET {f \in Flows : flow[f].stage = "putting"} :
          stored' = stored \cup arrived
    /\ homeUser' = Nil
    /\ modal' = "none"
    /\ closing' = FALSE
    /\ UNCHANGED <<cur, accounts, docs, queued, tapped>>

Abandoned == [f \in Flows |-> IF Finished(f) THEN flow[f]
                              ELSE [flow[f] EXCEPT !.stage = "done", !.behind = NoTasks]]

-----------------------------------------------------------------------------
(* The user                                                                *)

StartFlow(f, chain, u, stage) ==
    /\ modal = "login" /\ ~closing
    /\ flow[f].stage = "idle"
    /\ Patient => \A g \in Flows : Finished(g)
    /\ flow' = [flow EXCEPT ![f] = [chain |-> chain, stage |-> stage, uid |-> u,
                                    behind |-> NoTasks]]
    /\ UNCHANGED <<cur, accounts, docs, stored, writes, queued, mainQ, fetching,
                   homeUser, modal, closing, kills, history>>

\* handleLogin, handleGoogleLogin and handleSignUp up to their first call.
HandleLogin(f, u) == StartFlow(f, "email", u, "authenticating")
HandleGoogleLogin(f, u) == StartFlow(f, "google", u, "authenticating")
HandleSignUp(f, u) == StartFlow(f, "register", u, "putting")

Posted(kind) == \E i \in DOMAIN mainQ : mainQ[i].kind = kind

\* handleLogout asks in an action sheet.  No touch comes before the closure
\* that viewDidLoad posts to present the login screen.
HandleLogout ==
    /\ modal = "none"
    /\ ~Posted("presentLogin")
    /\ Patient => fetching = <<>> /\ ~Posted("fetched")
    /\ modal' = "sheet"
    /\ UNCHANGED <<cur, accounts, docs, stored, writes, queued, mainQ, fetching,
                   flow, homeUser, closing, kills, history>>

\* MUTANT of Logout: the login screen is not presented.
LogoutOnly ==
    /\ modal = "sheet" /\ ~closing
    /\ cur' = Nil
    /\ modal' = "none"
    /\ UNCHANGED <<accounts, docs, stored, writes, queued, mainQ, fetching, flow,
                   homeUser, closing, kills, history>>

\* The sheet is gone when its action runs; logout presents the login screen.
Logout ==
    /\ modal = "sheet" /\ ~closing
    /\ cur' = Nil
    /\ modal' = "login"
    /\ UNCHANGED <<accounts, docs, stored, writes, queued, mainQ, fetching, flow,
                   homeUser, closing, kills, history>>

CancelLogout ==
    /\ modal = "sheet" /\ ~closing
    /\ modal' = "none"
    /\ UNCHANGED <<cur, accounts, docs, stored, writes, queued, mainQ, fetching,
                   flow, homeUser, closing, kills, history>>

\* dismissOnboarding: controllerWantsToDismiss closes the onboarding and
\* records it in the document of the CURRENT user.
DismissOnboarding ==
    /\ modal = "onboarding" /\ ~closing
    /\ Dismiss
    /\ IF cur = Nil THEN UNCHANGED writes
                    ELSE Enqueue("seen", cur, Nil, Post("seenWritten", Nil, TRUE))
    /\ tapped' = tapped \cup {homeUser.uid}
    /\ kept' = kept \cup {homeUser.uid}
    /\ UNCHANGED <<cur, accounts, docs, stored, queued, mainQ, fetching, flow,
                   homeUser, modal, kills>>

Kill ==
    /\ kills < MaxKills
    /\ Restart
    /\ flow' = Abandoned
    /\ kills' = kills + 1

-----------------------------------------------------------------------------
(* The services                                                            *)

\* A task of a queue has run, if there was one.
Passed(behind, q) == [behind EXCEPT ![q] = IF @ = 0 THEN 0 ELSE @ - 1]

\* The task of a user's next write runs on the worker queue (LocalStore's part
\* of setData and updateData).  The tasks of two users may run in any order
\* here; in the program it is the order of the calls.
StoreWrite(q) ==
    /\ queued[q] < Len(writes[q])
    /\ queued' = [queued EXCEPT ![q] = @ + 1]
    /\ fetching' = [i \in DOMAIN fetching |-> [fetching[i] EXCEPT !.behind = Passed(@, q)]]
    /\ flow' = [f \in Flows |-> [flow[f] EXCEPT !.behind = Passed(@, q)]]
    /\ UNCHANGED <<cur, accounts, docs, stored, writes, mainQ, homeUser, modal,
                   closing, kills, history>>

\* UIKit ends the animation of a dismissal.
DismissFinished ==
    /\ closing
    /\ modal' = "none"
    /\ closing' = FALSE
    /\ UNCHANGED <<cur, accounts, docs, stored, writes, queued, mainQ, fetching,
                   flow, homeUser, kills, history>>

\* putData answers; its error is ignored.
PutDataReply(f) ==
    /\ flow[f].stage = "putting"
    /\ stored' \in {stored \cup {f}} \cup IF Failures THEN {stored} ELSE {}
    /\ Stage(f, "locating")
    /\ UNCHANGED <<cur, accounts, docs, writes, queued, mainQ, fetching, homeUser,
                   modal, closing, kills, history>>

\* MUTANT of DownloadURLReply: the URL is assumed to exist after putData.
DownloadURLReplyUnchecked(f) ==
    /\ flow[f].stage = "locating"
    /\ Stage(f, "authenticating")
    /\ UNCHANGED <<cur, accounts, docs, stored, writes, queued, mainQ, fetching,
                   homeUser, modal, closing, kills, history>>

\* downloadURL answers; registerUserWithFirestore calls createUser, or the
\* chain ends in silence.
DownloadURLReply(f) ==
    /\ flow[f].stage = "locating"
    /\ \/ f \in stored /\ Stage(f, "authenticating")
       \/ (Failures \/ f \notin stored) /\ Stage(f, "done")
    /\ UNCHANGED <<cur, accounts, docs, stored, writes, queued, mainQ, fetching,
                   homeUser, modal, closing, kills, history>>

\* Firebase Auth answers signIn or createUser: the current user changes now,
\* the closure runs later.
AuthReply(f) ==
    LET u == flow[f].uid IN
    /\ flow[f].stage = "authenticating"
    /\ flow[f].chain = "email" => u \in accounts
    /\ flow[f].chain = "register" => u \notin accounts
    /\ cur' = u
    /\ accounts' = accounts \cup {u}
    /\ Stage(f, "waiting")
    /\ mainQ' = Append(mainQ, Post(IF flow[f].chain = "register" THEN "created" ELSE "signedIn",
                                   f, TRUE))
    /\ UNCHANGED <<docs, stored, writes, queued, fetching, homeUser, modal, closing,
                   kills, history>>

\* Wrong password, unknown or taken e-mail, no network.
AuthError(f) ==
    /\ flow[f].stage = "authenticating"
    /\ \/ Failures
       \/ flow[f].chain = "email" /\ flow[f].uid \notin accounts
       \/ flow[f].chain = "register" /\ flow[f].uid \in accounts
    /\ Stage(f, "waiting")
    /\ mainQ' = Append(mainQ, Post(IF flow[f].chain = "register" THEN "createFailed"
                                                                 ELSE "signInFailed", f, FALSE))
    /\ UNCHANGED <<cur, accounts, docs, stored, writes, queued, fetching, homeUser,
                   modal, closing, kills, history>>

\* The getDocument of signInWitnGoogleFirestore answers.
CheckReply(f) ==
    /\ flow[f].stage = "checking" /\ Reached(flow[f].behind)
    /\ Stage(f, "waiting")
    /\ mainQ' = Append(mainQ, Post("checked", f, CheckExists(flow[f].uid)))
    /\ UNCHANGED <<cur, accounts, docs, stored, writes, queued, fetching, homeUser,
                   modal, closing, kills, history>>

\* It fails: snapshot is nil, and snapshot! traps.
CheckError(f) ==
    /\ Failures
    /\ flow[f].stage = "checking" /\ Reached(flow[f].behind)
    /\ Restart
    /\ flow' = [Abandoned EXCEPT ![f].stage = "trapped"]
    /\ UNCHANGED kills

\* The getDocument of fetchUserWithFirestore answers, in order for each
\* document.  No document, no call of the completion.
FetchReply(i) ==
    LET u == fetching[i].uid IN
    /\ Reached(fetching[i].behind)
    /\ \A j \in 1..(i - 1) : fetching[j].uid # u
    /\ fetching' = SubSeq(fetching, 1, i - 1) \o SubSeq(fetching, i + 1, Len(fetching))
    /\ \/ /\ LocalExists(u)
          /\ mainQ' = Append(mainQ, [kind |-> "fetched", flow |-> Nil, ok |-> TRUE,
                                     user |-> [uid |-> u, hasSeenOnboarding |-> LocalSeen(u)]])
       \/ ~LocalExists(u) /\ UNCHANGED mainQ
       \/ Failures /\ UNCHANGED mainQ
    /\ UNCHANGED <<cur, accounts, docs, stored, writes, queued, flow, homeUser,
                   modal, closing, kills, history>>

\* MUTANT of Applied: a new profile is created with the mark set.
AppliedAlreadySeen(w) ==
    [hasSeenOnboarding |-> TRUE,
     profileImageUrl |-> IF w.op = "create" THEN w.image ELSE docs[w.uid].profileImageUrl]

\* The server's document after a write: setData replaces it, updateData
\* requires it.
Applied(w) ==
    IF w.op = "create" THEN [hasSeenOnboarding |-> FALSE, profileImageUrl |-> w.image]
                       ELSE [docs[w.uid] EXCEPT !.hasSeenOnboarding = TRUE]

\* The security rules let users write their own document only.
Accepts(w) == w.uid = cur /\ (w.op = "seen" => docs[w.uid] # Nil)

\* The server answers the first stored write of the current user; the
\* closure of the write, if the process still has it, is posted.
WriteReply(ok) ==
    /\ queued[cur] > 0
    /\ LET w == Head(writes[cur]) IN
       /\ IF ok THEN Accepts(w) ELSE ~Accepts(w) \/ Failures
       /\ docs' = IF ok THEN [docs EXCEPT ![w.uid] = Applied(w)] ELSE docs
       /\ mainQ' = IF w.done = Nil THEN mainQ ELSE Append(mainQ, [w.done EXCEPT !.ok = ok])
    /\ writes' = [writes EXCEPT ![cur] = Tail(@)]
    /\ queued' = [queued EXCEPT ![cur] = @ - 1]
    /\ UNCHANGED <<cur, accounts, stored, fetching, flow, homeUser, modal, closing,
                   kills, history>>

-----------------------------------------------------------------------------
(* The main queue                                                          *)

Run(kind) == mainQ # <<>> /\ Head(mainQ).kind = kind /\ mainQ' = Tail(mainQ)

RunPresentLogin ==
    /\ Run("presentLogin")
    /\ Present("login")
    /\ UNCHANGED <<cur, accounts, docs, stored, writes, queued, fetching, flow,
                   homeUser, closing, kills, history>>

\* MUTANT of RunSignedIn: the login screen is not told.
RunSignedInQuietly ==
    /\ Run("signedIn")
    /\ Stage(Head(mainQ).flow, IF flow[Head(mainQ).flow].chain = "google" THEN "checking"
                                                                          ELSE "done")
    /\ UNCHANGED <<cur, accounts, docs, stored, writes, queued, fetching, homeUser,
                   modal, closing, kills, history>>

\* handleLogin is done; signInWitnGoogleFirestore looks for the profile.
RunSignedIn ==
    /\ Run("signedIn")
    /\ LET f == Head(mainQ).flow IN
       IF flow[f].chain = "google"
       THEN /\ Check(f)
            /\ UNCHANGED <<fetching, closing>>
       ELSE Stage(f, "done") /\ AuthenticationComplete
    /\ UNCHANGED <<cur, accounts, docs, stored, writes, queued, homeUser, modal,
                   kills, history>>

\* The chains end with a message, or for Google in silence.
RunAuthFailed ==
    /\ Run("signInFailed") \/ Run("createFailed")
    /\ Stage(Head(mainQ).flow, "done")
    /\ UNCHANGED <<cur, accounts, docs, stored, writes, queued, fetching, homeUser,
                   modal, closing, kills, history>>

\* MUTANT of RunChecked: the guard for the photo is gone.
RunCheckedNoPhoto ==
    /\ Run("checked")
    /\ LET f == Head(mainQ).flow IN
       IF Head(mainQ).ok
       THEN /\ Stage(f, "done")
            /\ AuthenticationComplete
            /\ UNCHANGED writes
       ELSE /\ Stage(f, "writing")
            /\ Enqueue("create", flow[f].uid, Nil, Post("profileWritten", f, TRUE))
            /\ UNCHANGED <<fetching, closing>>
    /\ UNCHANGED <<cur, accounts, docs, stored, queued, homeUser, modal, kills,
                   history>>

\* Google sign-in knows whether the profile exists.  It is created from the
\* account; one that lacks an e-mail, a name or a photo ends the chain, which
\* is among the failures.
RunChecked ==
    /\ Run("checked")
    /\ LET f == Head(mainQ).flow IN
       \/ /\ Head(mainQ).ok
          /\ Stage(f, "done")
          /\ AuthenticationComplete
          /\ UNCHANGED writes
       \/ /\ ~Head(mainQ).ok
          /\ Stage(f, "writing")
          /\ Enqueue("create", flow[f].uid, Photo, Post("profileWritten", f, TRUE))
          /\ UNCHANGED <<fetching, closing>>
       \/ /\ ~Head(mainQ).ok /\ Failures
          /\ Stage(f, "done")
          /\ UNCHANGED <<writes, fetching, closing>>
    /\ UNCHANGED <<cur, accounts, docs, stored, queued, homeUser, modal, kills,
                   history>>

\* createUser succeeded: registerUserWithFirestore writes the profile.
RunCreated ==
    /\ Run("created")
    /\ LET f == Head(mainQ).flow IN
       /\ Stage(f, "writing")
       /\ Enqueue("create", flow[f].uid, f, Post("profileWritten", f, TRUE))
    /\ UNCHANGED <<cur, accounts, docs, stored, queued, fetching, homeUser, modal,
                   closing, kills, history>>

\* setData is answered.  The Google chain ignores an error, registration
\* shows it.
RunProfileWritten ==
    /\ Run("profileWritten")
    /\ LET f == Head(mainQ).flow IN
       /\ Stage(f, "done")
       /\ IF Head(mainQ).ok \/ flow[f].chain = "google"
          THEN AuthenticationComplete
          ELSE UNCHANGED <<fetching, closing>>
    /\ UNCHANGED <<cur, accounts, docs, stored, writes, queued, homeUser, modal,
                   kills, history>>

\* Home's completion of fetchUserWithFirestore.
RunFetched ==
    /\ Run("fetched")
    /\ SetHomeUser(Head(mainQ).user)
    /\ UNCHANGED <<cur, accounts, docs, stored, writes, queued, fetching, flow,
                   closing, kills, history>>

\* The completion of updateUserHasSeenOnboardingFirestore; its error is
\* ignored.
RunSeenWritten ==
    /\ Run("seenWritten")
    /\ SetHomeUser(IF homeUser = Nil THEN Nil
                   ELSE [homeUser EXCEPT !.hasSeenOnboarding = TRUE])
    /\ UNCHANGED <<cur, accounts, docs, stored, writes, queued, fetching, flow,
                   closing, kills, history>>

-----------------------------------------------------------------------------
SignIn == \E f \in Flows, u \in Users :
             HandleLogin(f, u) \/ HandleGoogleLogin(f, u) \/ HandleSignUp(f, u)

Answer(f) == \/ PutDataReply(f) \/ DownloadURLReply(f)
             \/ AuthReply(f) \/ AuthError(f)
             \/ CheckReply(f) \/ CheckError(f)

Fetching == \E i \in DOMAIN fetching : FetchReply(i)

Storing == \E q \in Queues : StoreWrite(q)

Writing == \E ok \in BOOLEAN : WriteReply(ok)

RunMainQueue == \/ RunPresentLogin \/ RunSignedIn \/ RunAuthFailed \/ RunChecked
                \/ RunCreated \/ RunProfileWritten \/ RunFetched \/ RunSeenWritten

Next == \/ SignIn \/ HandleLogout \/ Logout \/ CancelLogout \/ DismissOnboarding
        \/ Kill
        \/ DismissFinished
        \/ \E f \in Flows : Answer(f)
        \/ Fetching
        \/ Storing
        \/ Writing
        \/ RunMainQueue

Spec == Init /\ [][Next]_vars

\* The services answer, the main queue and the worker queue run and animations
\* end; the user may stop at any point.
FairSpec == /\ Spec
            /\ \A f \in Flows : WF_vars(Answer(f))
            /\ WF_vars(Fetching)
            /\ WF_vars(Storing)
            /\ WF_vars(Writing)
            /\ WF_vars(RunMainQueue)
            /\ WF_vars(DismissFinished)

-----------------------------------------------------------------------------
(* Properties                                                              *)

\* The picture of a profile is in Cloud Storage (or is Google's), in the
\* document and in every queued write, although handleSignUp ignores
\* putData's error, flows overlap and the process may die within the chain.
ProfileImageStored ==
    /\ \A u \in Users : docs[u] # Nil => docs[u].profileImageUrl \in stored \cup {Photo}
    /\ \A q \in DOMAIN writes : \A i \in DOMAIN writes[q] :
          writes[q][i].op = "create" => writes[q][i].image \in stored \cup {Photo}

\* A profile never loses the mark that its user has seen the onboarding: the
\* check-then-create of signInWitnGoogleFirestore (Service.swift:102-115)
\* does not overwrite a profile created by an earlier sign-in whose write is
\* still in the queue, also not after a restart.
SeenNeverReverts ==
    [][\A u \in Users : docs[u] # Nil /\ docs[u].hasSeenOnboarding
                          => docs'[u] # Nil /\ docs'[u].hasSeenOnboarding]_vars

\* Only the user who was shown the onboarding is marked as having seen it.
\* updateUserHasSeenOnboardingFirestore marks Auth's current user while the
\* screen is that of Home's user: the two are read at different times.
SeenOnlyAfterGetStarted ==
    \A u \in Users : docs[u] # Nil /\ docs[u].hasSeenOnboarding => u \in tapped

\* A user who left the onboarding with Get Started is not shown it again, by
\* no fetch that was under way or that is called while the mark waits in the
\* worker queue, by no new sign-in, and by no restart once the mark was stored,
\* sent or not.  A kill that comes before takes the mark with it, and only it.
OnboardingNotRepeated ==
    (modal = "onboarding" /\ ~closing) => homeUser.uid \notin kept

\* When everything has settled, Home shows the profile of the user who is
\* signed in and not one left from an earlier session (logout does not clear
\* HomeViewController.user), provided that this user has a profile.
HomeShowsSignedInUser ==
    (/\ cur # Nil /\ docs[cur] # Nil /\ homeUser # Nil
     /\ modal \in {"none", "onboarding"} /\ ~closing
     /\ mainQ = <<>> /\ fetching = <<>>)
        => homeUser.uid = cur

\* Without a user there is the login screen, or the closure that presents it
\* is posted: nobody uses Home signed out.
SignedOutSeesLogin ==
    cur = Nil => \/ modal = "login" /\ ~closing
                 \/ Posted("presentLogin")

\* Who is signed in does not stay on the login screen: every chain that makes
\* Auth sign a user in gets to authenticationComplete, however the chains
\* overlap (checked where the services do not fail and Google accounts have an
\* e-mail, a name and a photo).
SignInLeavesLogin ==
    (cur # Nil /\ modal = "login") ~> (cur = Nil \/ modal # "login")
=============================================================================
