----------------------------- MODULE EditProfile -----------------------------
(***************************************************************************)
(* Editing the profile of the signed-in user: HomeViewController, the      *)
(* EditProfileViewController instances it presents one after the other,    *)
(* and the Service calls they make (fetchUserWithFirestore,                *)
(* updateUserData, updateProfileImage).                                    *)
(*                                                                         *)
(* All view-controller code runs on the main thread, so a handler or a     *)
(* completion closure is one atomic step.  What interleaves with these     *)
(* steps is the user, the two services and the process's death:            *)
(*   - a write handed to Firestore is a task of its worker queue, which    *)
(*     stores it in the persistent queue of writes when it runs.  The      *)
(*     queue is sent in order, and the completion of a write is posted to  *)
(*     the main queue when the server has answered.  When the process dies *)
(*     the completions are lost, and the writes whose task had not run;    *)
(*     the stored writes are not;                                          *)
(*   - getDocument is a task of the same worker queue, behind the writes   *)
(*     handed over before it; it answers with the server's document        *)
(*     overlaid with the stored writes;                                    *)
(*   - Cloud Storage answers putData and downloadURL in any order.         *)
(* The user is past the onboarding (see Session for that).                 *)
(* How the Firestore client keeps these promises is modelled in            *)
(* WritePipeline and GetDocument.  server is the document under the writes *)
(* that were acknowledged; on a resend after a broken stream the real one  *)
(* may go through older values again before it gets there.                 *)
(***************************************************************************)
EXTENDS Naturals, Sequences, FiniteSets

CONSTANTS Names,       \* full names
          OldName,     \* the one in the profile at the start
          Uploads,     \* the pictures the user may upload; also their URLs
          OldImage,    \* the URL of the picture in the profile at the start
          Sessions,    \* EditProfileViewController instances
          Home,        \* the HomeViewController
          Nil,
          MaxPending,  \* bound: Save is not tapped with this many writes and
                       \* callbacks outstanding
          MaxKills,    \* bound: how often the process is killed
          Rejects      \* does the server refuse writes?

ASSUME OldAssumption == OldName \in Names /\ OldImage \notin Uploads
ASSUME NilAssumption == Nil \notin Names \cup Uploads \cup {OldImage} \cup Sessions \cup {Home}
ASSUME HomeAssumption == Home \notin Sessions
ASSUME BoundsAssumption == MaxPending \in Nat /\ MaxKills \in Nat
ASSUME RejectsAssumption == Rejects \in BOOLEAN

VARIABLES server,     \* users/<uid> in Firestore
          storage,    \* the objects in Cloud Storage
          writes,     \* the writes handed to Firestore and not yet answered,
          stored,     \* of which the first stored ones are in its persistent
                      \* queue; the task of each other one has yet to run
          mainQ,      \* completions posted to the main queue
          fetching,   \* the calls of getDocument under way
          upload,     \* the run of updateProfileImage for each picture
          homeUser,   \* HomeViewController.user
          edit,       \* the state of each EditProfileViewController
          presented,  \* the edit screen Home presents, if any
          pickerOpen, \* that screen presents its image picker
          hud,        \* UIViewController.hud
          kills, lastSaved, lastStored, rejected  \* history

history == <<lastSaved, lastStored, rejected>>
vars == <<server, storage, writes, stored, mainQ, fetching, upload, homeUser, edit,
          presented, pickerOpen, hud, kills, history>>

Views == Sessions \cup {Home}
Urls == Uploads \cup {OldImage}

INSTANCE JGProgressHUD WITH NoView <- Nil

User == [fullname : Names, profileImageUrl : Urls]

\* viewModel.fullname and viewModel.profileImageUrl are the two optionals of
\* UpdateUserDataViewModel.  fullnameChanged is set exactly when
\* viewModel.fullname is, so it is fullname # Nil here.
Editor == [life         : {"new", "alive", "gone"},
           user         : User \cup {Nil},
           fullname     : Names \cup {Nil},
           profileImageUrl : Urls \cup {Nil},
           imageChanged : BOOLEAN,
           saveEnabled  : BOOLEAN]

BlankEditor(life) ==
    [life |-> life, user |-> Nil, fullname |-> Nil, profileImageUrl |-> Nil,
     imageChanged |-> FALSE, saveEnabled |-> FALSE]

\* A closure waiting for the main queue, with what it has captured.
Callback == [kind : {"fetched", "saved", "imageWritten"}, to : Views,
             user : User \cup {Nil}, url : Urls \cup {Nil}]

ASSUME NilRecordAssumption == Nil \notin User \cup Callback

Fetched(o, u)        == [kind |-> "fetched", to |-> o, user |-> u, url |-> Nil]
Saved(e, u)          == [kind |-> "saved", to |-> e, user |-> u, url |-> Nil]
ImageWritten(e, url) == [kind |-> "imageWritten", to |-> e, user |-> Nil, url |-> url]

\* updateData of one field, with the completion to call.
Write == [field : {"fullname"}, value : Names, done : Callback \cup {Nil}]
           \cup [field : {"profileImageUrl"}, value : Urls, done : Callback \cup {Nil}]

\* getDocument for a screen.  Ahead of its task in the worker queue are the
\* tasks of behind writes.  fresh is history: the name saved last when it was
\* called and those saved since.
Fetch == [view : Views, behind : Nat, fresh : SUBSET Names]

GetDocument(v, behind, name) == [view |-> v, behind |-> behind, fresh |-> {name}]

\* updateProfileImage: which of its three calls is under way, and for whom.
Running == {"putting", "locating", "writing"}
Upload == [stage : Running, owner : Sessions]
            \cup [stage : {"free", "done", "lost"}, owner : Sessions \cup {Nil}]

TypeOK ==
    /\ server \in User
    /\ storage \subseteq Urls
    /\ writes \in Seq(Write)
    /\ stored \in 0..Len(writes)
    /\ mainQ \in Seq(Callback)
    /\ fetching \in Seq(Fetch)
    /\ upload \in [Uploads -> Upload]
    /\ homeUser \in User \cup {Nil}
    /\ edit \in [Sessions -> Editor]
    /\ presented \in Sessions \cup {Nil}
    /\ pickerOpen \in BOOLEAN
    /\ hud \in HUD
    /\ kills \in Nat
    /\ lastSaved \in Names /\ lastStored \in Names
    /\ rejected \in BOOLEAN

\* HomeViewController.viewDidLoad with a signed-in user fetches the profile.
Init ==
    /\ server = [fullname |-> OldName, profileImageUrl |-> OldImage]
    /\ storage = {OldImage}
    /\ writes = <<>>
    /\ stored = 0
    /\ mainQ = <<>>
    /\ fetching = <<GetDocument(Home, 0, OldName)>>
    /\ upload = [u \in Uploads |-> [stage |-> "free", owner |-> Nil]]
    /\ homeUser = Nil
    /\ edit = [e \in Sessions |-> BlankEditor("new")]
    /\ presented = Nil
    /\ pickerOpen = FALSE
    /\ hud = IdleHUD
    /\ kills = 0
    /\ lastSaved = OldName /\ lastStored = OldName
    /\ rejected = FALSE

-----------------------------------------------------------------------------
(* Helpers                                                                 *)

\* Touches reach the edit screen: nothing is in front of it and the HUD does
\* not cover it.  The navigation bar is outside the view the HUD covers.
OnScreen(e) == presented = e /\ ~pickerOpen
CanTouch(e) == OnScreen(e) /\ ~BlocksTouches(hud, e)

\* HomeViewController.configureProfileImage shows and hides the loader.  Its
\* guard returns between the two when profileImageUrl is no URL; those the app
\* writes come from downloadURL or the Google account.
ConfigureProfileImage(h) == DismissAnimated(ShowInView(h, Home))

\* dismiss(animated:) on an edit controller closes what it presents, else
\* itself; on one that is no longer presented it does nothing.
DismissController(e) ==
    /\ pickerOpen' = (pickerOpen /\ presented # e)
    /\ presented' = IF OnScreen(e) THEN Nil ELSE presented

\* controller(_:wantsToUpdate:).  The picture is configured twice, by the
\* didSet of user and once more at the end.
WantsToUpdate(e, u) ==
    /\ DismissController(e)
    /\ homeUser' = u
    /\ hud' = ConfigureProfileImage(ConfigureProfileImage(hud))

\* The value of a field in the server's document overlaid with the first k
\* writes.  What getDocument reads is the overlay with the stored ones.
ValueAfter(k, field, value) ==
    \/ \E i \in 1..k :
          /\ writes[i].field = field
          /\ writes[i].value = value
          /\ \A j \in (i + 1)..k : writes[j].field # field
    \/ /\ \A i \in 1..k : writes[i].field # field
       /\ value = server[field]

LocalValue(field, value) == ValueAfter(stored, field, value)

\* MUTANT of Relaunched: the queue of writes does not survive either.
RelaunchedEmpty ==
    /\ writes' = <<>>
    /\ stored' = 0

\* Of the writes, the next process finds the stored ones, with no closures.
Relaunched ==
    /\ writes' = [i \in 1..stored |-> [writes[i] EXCEPT !.done = Nil]]
    /\ UNCHANGED stored

\* The process dies - killed, or by a trap - and is launched again.  The
\* server may or may not have received a picture that was being sent.
Restart ==
    /\ Relaunched
    /\ mainQ' = <<>>
    /\ fetching' = <<GetDocument(Home, 0, lastStored)>>
    /\ \E arrived \in SUBSET {u \in Uploads : upload[u].stage = "putting"} :
          storage' = storage \cup arrived
    /\ upload' = [u \in Uploads |->
                    IF upload[u].stage \in Running
                    THEN [stage |-> "done", owner |-> Nil]
                    ELSE [upload[u] EXCEPT !.owner = Nil]]
    /\ homeUser' = Nil
    /\ edit' = [e \in Sessions |->
                  IF edit[e].life = "alive" THEN BlankEditor("gone") ELSE edit[e]]
    /\ presented' = Nil
    /\ pickerOpen' = FALSE
    /\ hud' = IdleHUD
    /\ lastSaved' = lastStored
    /\ UNCHANGED <<server, lastStored, rejected>>

-----------------------------------------------------------------------------
(* The user                                                                *)

\* handleEditProfile; the new controller's viewDidLoad fetches the profile.
HandleEditProfile(e) ==
    /\ presented = Nil
    /\ edit[e].life = "new"
    /\ edit' = [edit EXCEPT ![e].life = "alive"]
    /\ presented' = e
    /\ fetching' = Append(fetching, GetDocument(e, Len(writes) - stored, lastSaved))
    /\ UNCHANGED <<server, storage, writes, stored, mainQ, upload, homeUser, pickerOpen,
                   hud, kills, history>>

\* updateForm enables the button whatever the form holds: the Bool it tests
\* is never nil.
UpdateForm(editor) == [editor EXCEPT !.saveEnabled = TRUE]

\* The didSet of user builds the form: the photo button, the name field and
\* the Save button exist once the profile is fetched.
FormShown(e) == edit[e].user # Nil

\* handleUpdateUserFullname
HandleUpdateUserFullname(e, name) ==
    /\ CanTouch(e)
    /\ FormShown(e)
    /\ edit' = [edit EXCEPT ![e] = UpdateForm([edit[e] EXCEPT !.fullname = name])]
    /\ UNCHANGED <<server, storage, writes, stored, mainQ, fetching, upload, homeUser,
                   presented, pickerOpen, hud, kills, history>>

\* handleChangeProfilePhoto
HandleChangeProfilePhoto(e) ==
    /\ CanTouch(e)
    /\ FormShown(e)
    /\ pickerOpen' = TRUE
    /\ UNCHANGED <<server, storage, writes, stored, mainQ, fetching, upload, homeUser,
                   edit, presented, hud, kills, history>>

\* The picker closes itself when the user cancels it.
PickerDidCancel ==
    /\ pickerOpen
    /\ pickerOpen' = FALSE
    /\ UNCHANGED <<server, storage, writes, stored, mainQ, fetching, upload, homeUser,
                   edit, presented, hud, kills, history>>

\* imagePickerController(_:didFinishPickingMediaWithInfo:) up to putData.
DidFinishPicking(e, u) ==
    /\ pickerOpen /\ presented = e
    /\ upload[u].stage = "free"
    /\ edit' = [edit EXCEPT ![e].imageChanged = TRUE]
    /\ hud' = ShowInView(hud, e)
    /\ upload' = [upload EXCEPT ![u] = [stage |-> "putting", owner |-> e]]
    /\ pickerOpen' = FALSE
    /\ UNCHANGED <<server, storage, writes, stored, mainQ, fetching, homeUser, presented,
                   kills, history>>

\* handleCancel, in the navigation bar.
HandleCancel(e) ==
    /\ OnScreen(e)
    /\ DismissController(e)
    /\ UNCHANGED <<server, storage, writes, stored, mainQ, fetching, upload, homeUser, edit,
                   hud, kills, history>>

\* The user as updateUserData leaves it.  Its closures capture the variable,
\* so both see the final value.
EditedUser(e) ==
    [fullname |-> IF edit[e].fullname # Nil THEN edit[e].fullname
                                           ELSE edit[e].user.fullname,
     profileImageUrl |-> IF edit[e].imageChanged THEN edit[e].profileImageUrl
                                                 ELSE edit[e].user.profileImageUrl]

\* The calls of Service.updateUserData: one when the name was edited, and a
\* second one when the picture was changed as well.
FullnameWrites(e) ==
    LET write == [field |-> "fullname", value |-> EditedUser(e).fullname,
                  done |-> Saved(e, EditedUser(e))] IN
    CASE edit[e].fullname = Nil                             -> <<>>
      [] edit[e].fullname # Nil /\ ~edit[e].imageChanged    -> <<write>>
      [] edit[e].fullname # Nil /\ edit[e].imageChanged     -> <<write, write>>

\* The Save button is there and enabled; then updateUserData has its user.
CanSave(e) == /\ CanTouch(e)
              /\ FormShown(e)
              /\ edit[e].saveEnabled

\* MUTANT of UnwrapsNil: the optional is passed on instead of unwrapped.
NeverUnwraps(e) == FALSE

\* The force-unwraps of viewModel.profileImageUrl in updateUserData trap.
UnwrapsNil(e) == edit[e].imageChanged /\ edit[e].profileImageUrl = Nil

\* handleDone: updateUserData.  A changed picture goes to Home at once.
HandleDone(e) ==
    /\ CanSave(e)
    /\ ~UnwrapsNil(e)
    /\ Len(writes) + Len(mainQ) < MaxPending
    /\ writes' = writes \o FullnameWrites(e)
    /\ IF edit[e].imageChanged
       THEN WantsToUpdate(e, [edit[e].user EXCEPT
                                !.profileImageUrl = edit[e].profileImageUrl])
       ELSE UNCHANGED <<presented, pickerOpen, homeUser, hud>>
    /\ IF edit[e].fullname # Nil
       THEN /\ lastSaved' = edit[e].fullname
            /\ fetching' = [i \in DOMAIN fetching |->
                              [fetching[i] EXCEPT !.fresh = @ \cup {edit[e].fullname}]]
       ELSE UNCHANGED <<lastSaved, fetching>>
    /\ UNCHANGED <<server, storage, stored, mainQ, upload, edit, kills, lastStored,
                   rejected>>

HandleDoneTraps(e) ==
    /\ CanSave(e)
    /\ UnwrapsNil(e)
    /\ Restart
    /\ UNCHANGED kills

Kill ==
    /\ kills < MaxKills
    /\ Restart
    /\ kills' = kills + 1

-----------------------------------------------------------------------------
(* The services                                                            *)

\* The task of the next write runs on the worker queue (SyncEngine's and
\* LocalStore's part of updateData).
StoreWrite ==
    /\ stored < Len(writes)
    /\ stored' = stored + 1
    /\ lastStored' = IF writes[stored'].field = "fullname" THEN writes[stored'].value
                                                         ELSE lastStored
    /\ fetching' = [i \in DOMAIN fetching |->
                      [fetching[i] EXCEPT !.behind = IF @ = 0 THEN 0 ELSE @ - 1]]
    /\ UNCHANGED <<server, storage, writes, mainQ, upload, homeUser, edit, presented,
                   pickerOpen, hud, kills, lastSaved, rejected>>

\* MUTANT of ListenerRan: a fetch does not wait for the writes before it.
ListenerRanEarly(i) == TRUE

\* The task of a getDocument has run.
ListenerRan(i) == fetching[i].behind = 0

\* getDocument answers.  The listeners of one document are served in order.
FetchReply ==
    /\ fetching # <<>> /\ ListenerRan(1)
    /\ \E u \in User :
          /\ \A field \in {"fullname", "profileImageUrl"} : LocalValue(field, u[field])
          /\ mainQ' = Append(mainQ, Fetched(Head(fetching).view, u))
    /\ fetching' = Tail(fetching)
    /\ UNCHANGED <<server, storage, writes, stored, upload, homeUser, edit, presented,
                   pickerOpen, hud, kills, history>>

\* getDocument fails: the closure returns without a word.
FetchError ==
    /\ fetching # <<>> /\ ListenerRan(1)
    /\ fetching' = Tail(fetching)
    /\ UNCHANGED <<server, storage, writes, stored, mainQ, upload, homeUser, edit, presented,
                   pickerOpen, hud, kills, history>>

\* putData answers.  Its closure ignores the error and asks for the URL.
PutDataReply(u) ==
    /\ upload[u].stage = "putting"
    /\ storage' \in {storage, storage \cup {u}}
    /\ upload' = [upload EXCEPT ![u].stage = "locating"]
    /\ UNCHANGED <<server, writes, stored, mainQ, fetching, homeUser, edit, presented,
                   pickerOpen, hud, kills, history>>

\* MUTANT of DownloadURLReply: the closure trusts that putData succeeded.
DownloadURLReplyUnchecked(u) ==
    /\ upload[u].stage = "locating"
    /\ writes' = Append(writes, [field |-> "profileImageUrl", value |-> u,
                                 done |-> ImageWritten(upload[u].owner, u)])
    /\ upload' = [upload EXCEPT ![u].stage = "writing"]
    /\ UNCHANGED <<server, storage, stored, mainQ, fetching, homeUser, edit, presented,
                   pickerOpen, hud, kills, history>>

\* downloadURL answers with a URL, which is written to the profile.
DownloadURLReply(u) ==
    /\ upload[u].stage = "locating"
    /\ u \in storage
    /\ writes' = Append(writes, [field |-> "profileImageUrl", value |-> u,
                                 done |-> ImageWritten(upload[u].owner, u)])
    /\ upload' = [upload EXCEPT ![u].stage = "writing"]
    /\ UNCHANGED <<server, storage, stored, mainQ, fetching, homeUser, edit, presented,
                   pickerOpen, hud, kills, history>>

\* downloadURL fails, as it does for an object that was never stored: the
\* closure returns, and nobody hides the loader.
DownloadURLError(u) ==
    /\ upload[u].stage = "locating"
    /\ upload' = [upload EXCEPT ![u].stage = "lost"]
    /\ UNCHANGED <<server, storage, writes, stored, mainQ, fetching, homeUser, edit, presented,
                   pickerOpen, hud, kills, history>>

\* A stored write leaves the queue and its completion, if it still has one, is
\* posted to the main queue.
Dequeue ==
    /\ stored > 0
    /\ stored' = stored - 1
    /\ writes' = Tail(writes)
    /\ mainQ' = IF Head(writes).done = Nil THEN mainQ
                                           ELSE Append(mainQ, Head(writes).done)
    /\ UNCHANGED <<storage, fetching, upload, homeUser, edit, presented, pickerOpen,
                   hud, kills, lastSaved, lastStored>>

WriteAck ==
    /\ Dequeue
    /\ server' = [server EXCEPT ![Head(writes).field] = Head(writes).value]
    /\ UNCHANGED rejected

\* The server refuses the write.  The app's completions ignore the error.
WriteReject ==
    /\ Rejects
    /\ Dequeue
    /\ rejected' = TRUE
    /\ UNCHANGED server

-----------------------------------------------------------------------------
(* The main queue runs the completion at its head                          *)

NextCallback(kind) == mainQ # <<>> /\ Head(mainQ).kind = kind /\ mainQ' = Tail(mainQ)

\* Home's or an edit screen's completion of fetchUserWithFirestore.
UserFetched ==
    /\ NextCallback("fetched")
    /\ LET o == Head(mainQ).to
           u == Head(mainQ).user IN
       IF o = Home
       THEN /\ homeUser' = u
            /\ hud' = ConfigureProfileImage(hud)
            /\ UNCHANGED edit
       ELSE /\ edit' = [edit EXCEPT ![o].user = u]
            /\ UNCHANGED <<homeUser, hud>>
    /\ UNCHANGED <<server, storage, writes, stored, fetching, upload, presented, pickerOpen,
                   kills, history>>

\* MUTANT of UserDataUpdated: the completion only closes the screen.
UserDataUpdatedQuietly ==
    /\ NextCallback("saved")
    /\ DismissController(Head(mainQ).to)
    /\ UNCHANGED <<server, storage, writes, stored, fetching, upload, edit, homeUser, hud,
                   kills, history>>

\* The completion of Service.updateUserData.
UserDataUpdated ==
    /\ NextCallback("saved")
    /\ WantsToUpdate(Head(mainQ).to, Head(mainQ).user)
    /\ UNCHANGED <<server, storage, writes, stored, fetching, upload, edit, kills, history>>

\* MUTANT of ProfileImageUpdated: the loader is not hidden.
ProfileImageUpdatedQuietly ==
    /\ NextCallback("imageWritten")
    /\ LET e   == Head(mainQ).to
           url == Head(mainQ).url IN
       /\ edit' = [edit EXCEPT ![e] = UpdateForm([edit[e] EXCEPT !.profileImageUrl = url])]
       /\ upload' = [upload EXCEPT ![url].stage = "done"]
    /\ UNCHANGED <<server, storage, writes, stored, fetching, homeUser, presented, pickerOpen,
                   hud, kills, history>>

\* The completion of Service.updateProfileImage.
ProfileImageUpdated ==
    /\ NextCallback("imageWritten")
    /\ LET e   == Head(mainQ).to
           url == Head(mainQ).url IN
       /\ edit' = [edit EXCEPT ![e] = UpdateForm([edit[e] EXCEPT !.profileImageUrl = url])]
       /\ upload' = [upload EXCEPT ![url].stage = "done"]
    /\ hud' = DismissAnimated(hud)
    /\ UNCHANGED <<server, storage, writes, stored, fetching, homeUser, presented, pickerOpen,
                   kills, history>>

\* A fade of the HUD ends.
AnimationFinished ==
    /\ hud.transition # "none"
    /\ hud' = TransitionFinished(hud)
    /\ UNCHANGED <<server, storage, writes, stored, mainQ, fetching, upload, homeUser, edit,
                   presented, pickerOpen, kills, history>>

\* Some closure that is still to run captures the edit controller.
Retained(e) ==
    \/ presented = e
    \/ \E i \in DOMAIN fetching : fetching[i].view = e
    \/ \E u \in Uploads : upload[u].owner = e /\ upload[u].stage \in Running
    \/ \E i \in DOMAIN writes : writes[i].done # Nil /\ writes[i].done.to = e
    \/ \E i \in DOMAIN mainQ : mainQ[i].to = e

\* ARC frees the controller and its view; the HUD's weak reference is nil.
Deallocate(e) ==
    /\ edit[e].life = "alive"
    /\ ~Retained(e)
    /\ edit' = [edit EXCEPT ![e] = BlankEditor("gone")]
    /\ hud' = ViewReleased(hud, e)
    /\ UNCHANGED <<server, storage, writes, stored, mainQ, fetching, upload, homeUser,
                   presented, pickerOpen, kills, history>>

-----------------------------------------------------------------------------
Tap(e) == \/ HandleEditProfile(e)
          \/ \E name \in Names : HandleUpdateUserFullname(e, name)
          \/ HandleChangeProfilePhoto(e)
          \/ \E u \in Uploads : DidFinishPicking(e, u)
          \/ HandleCancel(e)
          \/ HandleDone(e)
          \/ HandleDoneTraps(e)

Fetching == FetchReply \/ FetchError

Storing == \E u \in Uploads :
              PutDataReply(u) \/ DownloadURLReply(u) \/ DownloadURLError(u)

Writing == WriteAck \/ WriteReject

RunMainQueue == UserFetched \/ UserDataUpdated \/ ProfileImageUpdated

Next == \/ \E e \in Sessions : Tap(e) \/ Deallocate(e)
        \/ PickerDidCancel
        \/ Kill
        \/ Fetching
        \/ Storing
        \/ StoreWrite
        \/ Writing
        \/ RunMainQueue
        \/ AnimationFinished

Spec == Init /\ [][Next]_vars

\* The services answer every request, with a result or with an error, the
\* main queue and the worker queue run, fades end and unreferenced controllers
\* are freed.  The user and the process's death are under no obligation.
FairSpec == /\ Spec
            /\ WF_vars(Fetching)
            /\ WF_vars(Storing)
            /\ WF_vars(StoreWrite)
            /\ WF_vars(Writing)
            /\ WF_vars(RunMainQueue)
            /\ WF_vars(AnimationFinished)
            /\ \A e \in Sessions : WF_vars(Deallocate(e))

-----------------------------------------------------------------------------
(* Properties                                                              *)

\* The pictures that a value of each kind refers to.
UrlOf(user) == IF user = Nil THEN {} ELSE {user.profileImageUrl}
UrlsOfCallback(c) == UrlOf(c.user) \cup ({c.url} \ {Nil})
UrlsOfWrite(w) == (IF w.done = Nil THEN {} ELSE UrlsOfCallback(w.done))
                    \cup (IF w.field = "profileImageUrl" THEN {w.value} ELSE {})

ServerImageStored == server.profileImageUrl \in storage
QueuedImagesStored == \A i \in DOMAIN writes : UrlsOfWrite(writes[i]) \subseteq storage
PostedImagesStored == \A i \in DOMAIN mainQ : UrlsOfCallback(mainQ[i]) \subseteq storage
HomeImageStored == UrlOf(homeUser) \subseteq storage
EditImagesStored == \A e \in Sessions :
                       UrlOf(edit[e].user) \cup ({edit[e].profileImageUrl} \ {Nil}) \subseteq storage

\* No profile ever points at a picture that is not in Cloud Storage - not the
\* document, not a write in the queue, not a copy of the user that a view
\* controller or a pending completion holds - although putData's error is
\* ignored (Service.swift updateProfileImage) and the process may die at any
\* point between putData, downloadURL and updateData.
NoDanglingImage ==
    /\ ServerImageStored
    /\ QueuedImagesStored
    /\ PostedImagesStored
    /\ HomeImageStored
    /\ EditImagesStored

\* Once the queue and the callbacks have drained, the name Home shows is the
\* name in the profile, unless the server refused a write.  It takes the
\* order of completions, the overlay in getDocument and the copies of the
\* user that several edit screens pass to controller(_:wantsToUpdate:).
NameConverges ==
    (writes = <<>> /\ mainQ = <<>> /\ fetching = <<>> /\ homeUser # Nil /\ ~rejected)
        => homeUser.fullname = server.fullname

\* A name the user saved is not lost and not overwritten by an older one, also
\* when the process dies before the write was sent: once the queue is empty
\* the profile holds the name saved last.  What a kill takes with it is the
\* saves whose task had not run, and nothing else.
SavedNameDurable ==
    (writes = <<>> /\ ~rejected) => server.fullname = lastSaved

\* Whatever else is under way, a fetch reads the name saved last when it was
\* called, or one saved since: its task runs behind those of the writes
\* handed over before it, so the next edit screen never starts from an older
\* name, be the newest still in the queue or queued before the process died.
FetchReadsSavedName ==
    ~rejected => \A i \in DOMAIN fetching : ListenerRan(i) =>
                    \A n \in Names : LocalValue("fullname", n) => n \in fetching[i].fresh

\* The loader of an edit screen does not outlive the screen: when it has been
\* closed, by Cancel during an upload or by a save, the HUD leaves it, also
\* when the upload fails and nobody hides the loader.
LoaderLeavesClosedScreen ==
    \A e \in Sessions :
        (hud.target = e /\ presented # e) ~> (hud.target # e)

\* The use of the HUD here implements the contract of Loader: an upload is an
\* operation that works on its edit screen until its completion has run.
LoaderContract == INSTANCE Loader WITH
    NoView <- Nil,
    Ops    <- Uploads,
    work   <- [u \in Uploads |-> IF upload[u].stage \in Running
                                 THEN upload[u].owner ELSE Nil],
    leaked <- {e \in Sessions : /\ edit[e].life = "alive"
                                /\ \E u \in Uploads : /\ upload[u].stage = "lost"
                                                      /\ upload[u].owner = e}

ImplementsLoader == LoaderContract!Spec

\* The force-unwraps in updateUserData assert that the URL is there whenever
\* a picture was picked (EditProfileViewController.swift:93): the user is
\* never able to tap Save while it is not.
UnwrapsSucceed == \A e \in Sessions : CanSave(e) => ~UnwrapsNil(e)
=============================================================================
