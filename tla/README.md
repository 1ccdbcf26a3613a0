# A TLA+ verification of AggroApp

AggroApp (`src/AggroAppV3/AggroAppV3/`, about 1850 lines of Swift) is an iOS
app: a user signs in by e-mail, with Google or by registering, sees an
onboarding once, sees the own profile on a home screen and edits it. Firebase
Auth, Firestore and Cloud Storage are the backend. The repository holds no
tests and an empty README; everything else in it is vendored (`Pods/`). Of the
vendored code, the project models what the app's correctness rests on: the HUD
and the part of the Firestore client behind `setData`, `updateData` and
`getDocument`.

All code of the app runs on the main thread, but nearly every handler starts an
asynchronous call and goes on in its closure. The hard part is therefore the
order of closures, of touches and of the services' answers, and what is left of
a chain of closures when a call fails or the process is killed.

## Inventory

| component | state | operations | interacts by |
|---|---|---|---|
| Loader: `Extensions.swift` `showLoader`, JGProgressHUD | one static HUD: the view it covers, the fade that runs, a remembered dismissal | `showLoader(true/false)`, end of a fade, deallocation of the view | every screen shows and hides the same HUD |
| Edit profile: `EditProfileViewController.swift` | `user`, view model, `imageChanged`, `fullnameChanged`, Save enabled | open, type, pick a picture, cancel, save | `Service` calls, delegate `HomeViewController` |
| Home: `HomeViewController.swift` | `user`, the modal screen presented | `authenticateUSer`, `logout`, `presentOnboarding...`, delegate methods | presents Login, Onboarding, Edit profile |
| Sign-in: `LoginViewController`, `RegistrationViewController`, `ResetPasswordViewController`, `AuthenticationViewModel` | form fields, buttons, navigation stack | `handleLogin`, `handleGoogleLogin`, `handleSignUp`, `handleResetPassword` | `Service`, delegate method `authenticationComplete` |
| Onboarding: `OnboardingViewController.swift` | page, `getStarted` button | paging, `dismissOnboarding` | delegate method `controllerWantsToDismiss` |
| Service: `Service.swift` | none | chains of Auth, Storage and Firestore calls | closures |
| Firestore client, write path: `SyncEngine`, `LocalStore`, `LevelDbMutationQueue`, `RemoteStore`, `WriteStream`, credentials provider | a persistent queue of writes per user, batch ids, callbacks; the write pipeline; the stream's state, handshake, timers; current user and token counter | `WriteMutations`, `HandleCredentialChange`, `FillWritePipeline`, replies, errors, back-off and idle timers, restart | a worker queue; FIRAuth's notifications and tokens on the main queue; gRPC |
| Firestore client, `getDocument`: `DocumentReference`, `EventManager`, `QueryListener`, `View`, `LocalStore`, `RemoteStore`, `WatchChangeAggregator`, `OnlineStateTracker` | listeners; the view; the cached document; the listened target, responses due, pending changes; Unknown/Online/Offline and its timer | `GetDocument`, add and remove a listener, watch messages, snapshots, write acknowledgements, timers, restart | the worker queue; events posted to the main queue; gRPC |
| FIRAuth, Firestore server, Cloud Storage (external) | current user, accounts; documents; objects | sign-in, tokens; commit, watch; put, download URL | closures, streams |

What is hard about it, component by component, with the property that says it
works:

- *Loader.* `show(in:)` is ignored during a fade and while some view is
  covered; `dismiss()` during a fade is only remembered. Operations of several
  screens overlap. A loader that stays must belong to somebody, and a request to
  hide it must not be lost.
- *Edit profile.* A save passes through a form, a queue of writes, a callback
  and Home, while fetches and uploads of this or an earlier edit screen are
  under way, and the process may die. A saved name that Firestore has stored must
  neither be lost nor be overwritten by an older one, the next fetch must read it,
  and no profile may point to a missing picture.
- *Session.* Auth's current user, Home's user and the user of a closure are read
  at different times. A profile is created once, is not reset by a later
  sign-in, and the onboarding is recorded for the user who saw it.

- *Firestore, writes.* Replies carry no id, batch ids are used again, streams
  break and everything unanswered is sent again, and the user may change between
  the request for a token and the stream it opens. To the app it must look like
  one durable queue per user, answered in order.
- *Firestore, reads.* `getDocument` is a listener that is removed after its
  first event, while the view goes on; target ids are reused, watch lags behind
  acknowledged writes, and "offline" is a guess with a timeout. An answer must
  show what the app wrote and saw, be fresh if it claims to be, and come once.

`PROJECT.json` lists the hazards line by line.

## Modules

| module | models | uses |
|---|---|---|
| `JGProgressHUD` | the methods of the HUD as operators on a record | |
| `Loader` | the abstract contract of `showLoader` | EXTENDS `JGProgressHUD` |
| `Loader_proof` | theorems about `Loader` | |
| `EditProfile` | Home and edit screens, Firestore's queue, Storage | INSTANCE `JGProgressHUD`; INSTANCE `Loader` with a refinement mapping |
| `EditProfile_proof` | theorems about `EditProfile` | |
| `Session` | sign-in chains, Home, onboarding, logout | |
| `Session_proof` | theorems about `Session` | |
| `AuthScreens` | the login, registration and reset screens, their stack, buttons, alerts and loader | INSTANCE `JGProgressHUD`; INSTANCE `Loader` with a refinement mapping |
| `AuthScreens_proof` | theorems about `AuthScreens` | |
| `Stream` | `stream.cc`, the state machine under both streams, as operators on a record | |
| `WriteQueue` | the abstract promise of `setData` and `updateData`: a durable queue per user, answered in order | |
| `WritePipeline` | the write path of the Firestore client | INSTANCE `Stream`; INSTANCE `WriteQueue` with a refinement mapping |
| `WritePipeline_proof` | theorems about `WritePipeline`: types, pipeline and wire, the stream's assertions, users and credentials | |
| `WritePipelineAnswers_proof` | theorems: callbacks, answers, documents, the refinement of `WriteQueue` | EXTENDS `WritePipeline_proof` |
| `GetDocument` | `getDocument` in the Firestore client | INSTANCE `Stream` |
| `GetDocument_proof` | theorems about `GetDocument`: types, assertions, one answer per get | |
| `GetDocumentReads_proof` | theorems: what an answer contains | EXTENDS `GetDocument_proof` |
| `MCEditProfile`, `MCSession`, `MCAuthScreens` | symmetry sets for TLC | |

Correspondence to the code, common to the modules:

- An action is a handler, a closure on the main queue, or an answer of a
  service; each is one step because the main thread runs it to its end. An
  action and a definition have the name of the Swift method they model;
  `...Reply` and `...Error` are answers of a service, `Run...` of `Session` and
  `UserFetched`, `UserDataUpdated`, `ProfileImageUpdated` of `EditProfile` are
  closures that the main queue runs. In `AuthScreens` an answer and its closure
  are one step (`LoggedIn`, `Registered`, `GoogleSignedIn`, `ResetAnswered`).
- `mainQ` is the main dispatch queue. Firestore posts completions in the order
  of its worker queue; answers to reads of one document keep their order.
- `writes` are the writes handed to Firestore and not yet answered. The call only
  enqueues a task on Firestore's worker queue (`firestore_client.cc:472`); when it runs
  (`StoreWrite`) the write is in the persistent queue, which is the first `stored`
  (in `Session`, `queued`) of `writes`. A kill keeps these, without the closures
  (`done`), and loses the others. Only stored writes are sent, and read by
  `getDocument` (`LocalValue`, `LocalExists`, `LocalSeen`: the server's document under
  them). `getDocument` is a task of the same queue: its `behind` counts the write tasks
  ahead of it, and it answers when there are none. Firestore has one persistent queue
  per user (`Session`); `EditProfile` has one user. The documents these two modules
  update were fetched before, so that the precondition of `updateData` holds in the
  cache; `GetDocument` has the case where it does not.
- Names, pictures and users are model values; a picture's URL is the picture.
- In `configureProfileImage` the guard that returns between `showLoader(true)` and
  `showLoader(false)` (`HomeViewController.swift:121`) is left out: it needs a profile
  whose picture is no URL, and the app writes none.
- Pages, colours, text and layout are left out. The e-mail cannot be edited and
  is left out.

`EditProfile` keeps a set `Sessions` of edit screens, each used at most once
(each `handleEditProfile` creates a new controller); `upload[u]` is a run of
`updateProfileImage`: "putting", "locating" and "writing" are its three calls,
"lost" is the silent return at `Service.swift:184`. A `Restart` loses memory and
relaunches; a picture in flight may or may not have arrived. A force-unwrap of
nil (`HandleDoneTraps`) is a restart as well.

`Session` keeps a set `Flows` of sign-in attempts, each one of the three
chains; `stage` is the call under way. `cur` changes when Auth answers
(`AuthReply`), before the closure runs. `modal` is what Home presents; an
animated dismissal takes time (`closing`), and UIKit ignores `present` in the
meantime. `tapped` and `kept` are history variables: the users who left the onboarding
with Get Started, and those of them whose mark no kill has found unstored. The
worker tasks of two users may run in either order there, which is more than the
code allows. `RunChecked` has the guard for a Google account without e-mail, name or
photo (`Service.swift:105`) among the failures: it ends the chain in silence.

`AuthScreens` keeps the navigation stack `nav` that Home presents (the login
screen and at most one screen pushed on it), what is presented over it, and the
submitted forms `op`. The closure of a form keeps its screen alive and acts on
the stack as it finds it. It is orthogonal to `Session`: there the accounts and
documents, here the screens. Screens are used once, because each push creates a
new controller. There is no kill, because nothing in the module outlives the
process.

`WritePipeline` has three threads: the main thread (`WriteMutations`, and on the
`main` queue FIRAuth's notifications and token callbacks), FIRAuth's work queue
(`UpdateCurrentUser`, `tokens`) and Firestore's `worker` queue. A step of the
worker is one operation on that queue, with everything it calls. `remote` is
`RemoteStore`: the pipeline, the stream, the requests on the wire without an
answer and how many of them the server has handled. A document is the number of
the last write applied. The refinement mapping hides everything but the user,
the rows of the queue and the cached document.

`GetDocument` keeps the client in one record, because one worker operation runs
through `RemoteStore`, `LocalStore`, `SyncEngine`, `View` and `EventManager`; their
methods are operators from record to record, composed as the calls are. Writes
set fields of their own, so that a document is a set of writes and "older" is a
subset; the document exists from the start or another client creates it. The app's
writes are `updateData`, with the precondition that the document exists: the server
refuses one where it does not, or for any reason (`Refusal` in `applied`); the client
applies one only to a document it has found (`LocalView`), and its acknowledgement turns
a document it has not found into an unknown one, of which it knows the version and no
field (`AcknowledgeBatch`). `must`, `mine`, `seen`, `refused`, a snapshot's `settled` and
a view's `since` are history.

Assumptions about code outside the repository: Firestore's rules let users write
their own document (`Accepts`); the user does not touch Home between a launch
and the main-queue turn that presents Login; the HUD covers a controller's
view but not its navigation bar (which the login screens hide), nor the swipe
back of a navigation controller; an alert is dropped when its screen is not in
the window or something is presented already; deallocation happens once no closure retains
the controller. In `EditProfile` and `AuthScreens` presentations, pushes and
dismissals are atomic.

Assumptions about the Firestore server and gRPC: the server handles the
requests of a stream in order, and those it received of a broken stream before
the next stream's; it refuses a write each time it gets it or never; it does
not end a write stream without an error; a stream's replies arrive before its
closing status. In `GetDocument` the server either denies the document (`refusing`)
or serves it, answers watch requests in order, sends snapshots with
non-decreasing versions and a resume token, and does not answer the unwatch of a
target it refused. There the document is never deleted, as in the app.

Definitions marked MUTANT are wrong variants of a neighbouring definition and no
action uses them: replacing the definition by its mutant has to violate the
property it is listed with, which shows that the property depends on the code.

## Runs

| run | instance | distinct states | result |
|---|---|---|---|
| `loader` | 3 views, 3 operations | 9 592 | `TypeOK`, `SteadyLoaderHasOwner`, `DismissTakesEffect` hold |
| `edit_safety` | 2 names, 1 picture, 2 edit screens, 1 kill, up to 2 outstanding writes | 1 050 084 | `NoDanglingImage`, `NameConverges`, `SavedNameDurable`, `FetchReadsSavedName` hold |
| `edit_loader` | 1 picture, 1 name, 2 screens, 1 kill, rejected writes, fairness | 111 738 | `EditProfile` implements `Loader`; `LoaderLeavesClosedScreen` holds |
| `edit_unwrap` | as `edit_safety` | | `UnwrapsSucceed` violated, see Findings |
| `auth_patient` | 2 login, 1 registration, 2 reset screens, 3 forms, failing storage, user not hasty | 423 522 | `ResetPopsItself`, `EndIsReported` hold |
| `auth_loader` | 2 login, 1 registration screen, 2 forms, failing storage, hasty user, fairness | 163 062 | `AuthScreens` implements `Loader`; `LoaderLeaves` holds |
| `session_faulty` | 2 users, 3 sign-ins, 1 kill, failures, patient user | 698 374 | `SeenOnlyAfterGetStarted`, `SignedOutSeesLogin`, `ProfileImageStored`, `SeenNeverReverts` hold |
| `session_settled` | 2 users, 3 sign-ins, 2 kills, no failures, patient user | 278 571 | `OnboardingNotRepeated`, `HomeShowsSignedInUser` hold |
| `session_leaves` | 2 users, 2 sign-ins, fairness, impatient user | 789 646 | `ProfileImageStored`, `SignInLeavesLogin` hold |
| `pipeline` | 2 users, 3 writes (one refused), pipeline of 2, 1 change of user or network, 1 break, 1 kill, fairness | 231 080 | `WritePipeline` implements `WriteQueue`; `PipelineIsHeadOfQueue`, `RepliesMatchPipeline`, `AssertionsHold`, `CallbacksMatchQueue`, `AnswersTruthful`, `LastWriteWins`, `OwnCredentials`, `AnsweredNotReapplied` hold |
| `get` | 2 gets, 1 write, 1 event (foreign write, break, network change or kill), fairness | 810 849 | `SessionReads`, `FreshAnswer`, `AnsweredOnce`, `AssertionsHold`, `GetsAnswered` hold |
| `get_timeout` | 2 gets, fairness, attempts may hang | | `TimeoutEndsWaiting` violated, see Findings |

Bounds. Two names tell an old from a new value. Two edit screens let everything
of a closed screen (fetch, upload, callback) overlap with everything of its
successor; a third would only repeat this. One kill puts a restart at every
point; the second of `session_settled` also allows one between a relaunch and
what follows it. Two login screens are a logout and a return; a second reset
screen is one opened while the answer for the first is under way. `auth_loader`
has no reset screen: for the loader a reset is a log-in that fails or not.
Three sign-ins are user A, user B and A again. `MaxPending` is
a bound on taps on Save only; with 2, a save with name and picture (two writes)
can meet another one. `edit_safety` has one picture, so that its uploads do not
overlap; its invariants were also checked once with two pictures and `MaxPending = 1`
(2 257 961 states), and `NoDanglingImage` is proved for any number.
`session_faulty` has a patient user; chains that overlap meet `ProfileImageStored` in
`session_leaves`, without failures, and in its proof, with them. `session_leaves` has no
failures, hence not the silent end of `RunChecked`, which leaves a signed-in user on
the login screen. `CHECK_DEADLOCK FALSE` is set where the sets of screens
and of sign-ins are used up in the end and the user may stop.

A pipeline of 2 under 3 writes fills, overflows into the database and drains;
the code's capacity of 10 adds nothing but length. One change, one break and one
kill, in any order and at any point, cover each pair of them. In `get` the second
call can join the first one's view, follow on the same stream, on a new one, or
in a new process; the document is there at the start or is not, in which case it may be
created in the one event. Safety was also checked once on larger instances:
`WritePipeline` with two changes, one break and one kill (4.6 million states), and
`GetDocument` with two writes and no event, where a refused write meets a queued one.

Switches. `Rejects` (EditProfile) and `Failures` (Session) let the services
refuse writes and answer with errors. With rejected writes the name properties
speak only of histories without one (`rejected`): the code ignores the error.
`Patient` (Session) is a user who waits: for the fetch to end before logging
out, and for one attempt to end before the next. Some properties
hold only then; see the next section.

`Hasty` (AuthScreens) is a user who taps during fades and swipes back during
operations; one who is not also waits for Home's fetch before logging out and
for Google's sign-in, which shows no loader, before submitting another form.
`StorageFails` lets uploads fail.

Fairness. Core Animation ends fades (`AnimationFinished`, `DismissFinished`);
the main queue runs; a service call is answered, with a result or an error (the
SDKs call back on success, failure and timeout). Nothing is assumed of the
user. In `WritePipeline` the worker queue, the main queue and FIRAuth's work queue
run, timers fire and the server answers; the idle timer need not fire, and breaks,
changes and kills are bounded, not fair. In `GetDocument` the queues run, an armed
timer fires or is cancelled, and an open stream makes progress (`HangSpec`);
`FairSpec` adds that an attempt to open the stream ends, perhaps always with a
failure. Writes need not be acknowledged. Liveness of the screens other than the
edit screens is checked without kills.

## What the checks found

Two violation runs and one trap that needs no run:

1. `EditProfileViewController.swift:93`, `viewModel.profileImageUrl!`. The URL is
   set when the upload's closure runs, `imageChanged` already when the picture is
   picked. Only the HUD keeps the user from tapping Save in between, and
   `showLoader(true)` is ignored if the HUD is still fading on Home
   (`configureProfileImage` shows and hides it in one step) or is bound to an
   edit screen closed during its upload.
2. `online_state_tracker.cc:47` promises that a client which can neither connect
   nor fail goes offline after a timeout "rather than waiting indefinitely". The
   timer is armed where the stream is started. After a first `getDocument` was
   answered by the timeout, `StopListening` sets the state back to Unknown while the
   attempt hangs on (`remote_store.cc:187`); a second `getDocument` finds the stream
   started, arms nothing and waits for as long as the attempt hangs
   (`get_timeout`). With attempts that end, `GetsAnswered` holds.
3. `Service.swift:103`, `snapshot!.exists`, traps on every error of `getDocument`,
   which Firestore gives when it is offline and has no document cached
   (`document_reference.cc:147`). `Session` models the trap (`CheckError`).

Interleavings the code does not exclude, which is why the properties
are checked under the conditions named (each was seen as a TLC counterexample
with the condition removed):

- `SignedOutSeesLogin`, impatient user: two sign-ins overlap; the first
  completes, the user logs out, then the `authenticationComplete` of the second
  closes the new login screen (`HomeViewController.swift:190`).
- `HomeShowsSignedInUser`, impatient user: the previous user's fetch is under
  way at logout and is delivered after that of the new user. With failures: the
  new user's fetch fails, and the previous user, never cleared by `logout`,
  stays.
- A kill between the tap on Save or Get Started and the worker task that stores the
  write (`firestore_client.cc:472`, `sync_engine.cc:204`) loses it: the old name comes
  back, the onboarding is shown again. `SavedNameDurable`, `FetchReadsSavedName`
  and `OnboardingNotRepeated` therefore say what is true: nothing that was stored is
  lost, and nothing but what was not.
- `OnboardingNotRepeated`, `SeenOnlyAfterGetStarted`, impatient user: the same
  stale fetch presents the previous user's onboarding, and Get Started marks
  the document of the new one. `OnboardingNotRepeated` with failures: the mark
  was refused.
- A kill between `createUser` and `setData` (`Service.swift:38`) leaves an account
  without a profile; a fetch that is answered while the login screen is still
  animated away loses the onboarding until the next launch
  (`HomeViewController.swift:147`).
- The picture Home shows need not be that of the document: Cancel after an
  upload, or a late callback of an older edit screen. Only the name converges
  (`NameConverges`).
- `ResetPopsItself` and `EndIsReported`, hasty user: a swipe back during the
  request for a reset link; the answer then pops a registration opened in the
  meantime (`LoginViewController.swift:210`), and an error is told by an alert that
  is never shown. Without the swipe the loader prevents both, unless its
  `show(in:)` was ignored.
- All submit buttons stay enabled once something was typed, whatever the form
  holds: `updateForm` compares a `Bool` with nil (`LoginViewController.swift:196`).
- A failed `downloadURL` leaves the loader on the open screen
  (`Service.swift:184`, `RegistrationViewController.swift:94`); it goes when the
  screen is closed (`LoaderLeavesClosedScreen`). On the registration screen the
  loader also covers the way back; `LoaderLeaves` makes an exception for it.

About the Firestore client:

- The document on the server may go back for a while: after a break the whole
  pipeline is sent again. `EditProfile` and `Session` have the document under the
  acknowledged writes, which does not (`WriteQueue`). `Session!SeenNeverReverts` is
  therefore about what a client can rely on, not about what a third party may
  see for a moment.
- For the write stream the close count and the token counter guard against the
  same thing: with one of the two checks taken out, `OwnCredentials` still holds
  on the instance of `pipeline`.
- `updateData` of a document the client has not cached shows nothing, and once it is
  acknowledged the cache has what `mutable_document.h:62` calls an existing document
  whose data is unknown. While watch lags behind, `getDocument` tells the app that the
  document is missing, although the app's own write to it was acknowledged.
  `SessionReads` demands the document of an app that was shown it before; the app
  under verification updates only documents it was shown.
- `FreshAnswer` leaves out views with an acknowledged write that watch has not
  delivered: such a view waits for the newer document, and shows the own write
  over a foreign one it has not seen.

## Proofs

All proofs hold for every value of the constants that satisfies the named
assumptions: distinct model values (`NoViewAssumption`, `NilAssumption`,
`HomeAssumption`, `OldAssumption`, `PhotoAssumption`; `NilRecordAssumption` says that nil is
none of the records it stands beside), bounds in `Nat` (`BoundsAssumption`,
`RefusedAssumption`), a pipeline of at least one write (`CapacityAssumption`) and
switches that are Booleans. Each inductive invariant below was checked by TLC on
the instance of its run before it was proved.

- `Loader_proof!TypeCorrect`, `OwnerCorrect`. `SteadyLoaderHasOwner` is not
  inductive alone: the inductive step needs the type of the HUD, and the case of
  `EndWork` that a dismissal either starts to hide the HUD or is remembered, so
  that a steady HUD after it is impossible. `ReleaseView` needs that the view
  it removes from `leaked` is also removed from the HUD.
- `EditProfile_proof!TypeCorrect`. The interesting case is `HandleDone`: the user
  it builds is a user because `UnwrapsNil` excludes a nil picture.
- `NoDanglingImageCorrect`. `NoDanglingImage` speaks of the document, the queue,
  the posted closures and every copy of the user in a controller, because
  pictures flow in a circle through all of them; in this form it is
  inductive together with `TypeOK`. Lemma `LocalImageStored` carries it through
  the overlay read by a fetch.
- `FetchReadsSavedNameCorrect`, with `SavesInv`. The overlay of all the writes reads
  the name saved last, that of the stored ones the name stored last: a save
  changes the first, a run of a worker task the second, an acknowledgement moves the
  head of the queue to the server and leaves both alone, a restart makes the first the
  second. The fetch is the hard case, because writes are stored and acknowledged while it
  waits: `NamesRead` says that each overlay it may still meet, of the stored writes and
  those ahead of it up to all of them, reads a name it accepts. A fetch must not wait
  for more tasks than there are (`WaitsForTasks`), and a write has its closure
  until it is stored (`ClosuresKept`).
  `SavedNameDurableCorrect` is its case of no writes.
- `NameConvergesCorrect`, with `NameInv`. A saved name reaches Home by a completion the
  write queue owes, then by a posted callback. The invariant says that the last
  thing on this way, or what Home has when nothing is on it, carries the name saved
  last; that the screen shown starts from this name until it is edited, and has
  no fetch under way that may read another one (`OtherFetches`);
  and that a screen never opened has no fetch pending.
- `LoaderRefined`: `Spec => ImplementsLoader`. Picking a picture is the abstract `BeginWork`, the
  news of its upload `EndWork`, a missing download URL `AbortWork`, Home's
  picture `FlashLoader`, a deallocation `ReleaseView`, a restart `Relaunch`; the rest
  stutters. `LivesInv` (a screen lives while it is shown or uploads) keeps a dismissed
  loader's view alive; `NewsInv` (an upload that writes has at most one completion to
  come, any other has none) keeps a second piece of news from ending work twice.

`WritePipeline`. The invariants build on each other; each layer is inductive
given the ones before it.

1. `PipelineInv` (`TypeCorrect`, `PipelineCorrect`, `RepliesCorrect`). `FillWritePipeline`
   looks for the first row above the last id it took, so that "the pipeline is
   the head of the queue" is inductive only with the order of the ids and with
   "every id is below `next_batch_id`". `RepliesMatchPipeline` needs the state of the
   stream as well: no handshake and nothing on the wire unless it is open, no
   idle timer while the pipeline holds a write.
2. `RequestsInv` (`AssertionsCorrect`). A start of the stream asks for a token; the
   request lies with FIRAuth, then on the main queue, then on the worker queue.
   At most one request of the current close count exists, in one of the three
   places, and while it does the stream is Starting without an RPC. This is what
   the `HARD_ASSERT` behind the close count relies on.
3. `AuthInv`, `UsersInv` (`CredentialsCorrect`). A token of the current counter belongs to
   the provider's user or stands behind the notification of a change. On the
   worker queue, `InEffect` is the user for whom a task will run: that of the last
   change before it. A write and a token are run for their own user, and an open
   stream has the credentials of the current one.
4. `CallbacksInv` (`CallbacksCorrect`). Batch ids are unique within the queue of a user,
   which layer 1 provides, so that an answer takes the callback of its own row.
5. `AnswersInv` (`AnswersCorrect`). The requests that the server has handled are the
   oldest rows of the queue; the answer to the first is therefore the answer to
   the row that is removed.
6. `OrderInv`, `DocumentsInv` (`LastWriteCorrect`, `NotReappliedCorrect`). A queue is ordered by
   the time of its writes, those on the worker queue follow. The server's
   document is the cached one or a write still queued: resending moves it
   back only to a row that will be followed by the newer ones.
7. `QueueRefined`: `Spec => Queue!Spec`. Under the mapping of `ImplementsWriteQueue`, a run of
   a write task is the abstract enqueue, an answer the abstract answer, a change
   of user the abstract one, and everything else stutters.

`Session`. `Patient` and `Failures` are constants, and the theorems have them as
hypotheses, because the properties fail without them (see above).

1. `FormInv` (`TypeCorrect`, `ImagesCorrect`), for every user and any failure. A picture is
   referred to by the flow that uploads it, by posted closures and by queued
   writes; the invariant says of each that its picture is stored by the time it is
   used, also for flows that overlap and over a kill.
2. `ControlInv` (`LoginCorrect`), for a patient user: attempts come one after the other, one
   closure of the attempt is under way, it is about the current user, and the
   login screen is presented, or posted, exactly when it has to be. The kill is the
   hard case: it relaunches in the middle of any of these.
3. `DataInv` (`SeenCorrect`, `MarkCorrect`), for a patient user: a queue holds writes of
   its user to the own document, and a profile is created only when there is
   neither a document nor a creation in the queue. The check and the creation are
   two steps, hence the invariant also speaks of the closures in between. The check
   reads only stored writes: `WaitsInv` says that it is behind every creation which
   is not.
4. `SettledInv` (`OnboardingCorrect`, `HomeCorrect`), for a patient user and services that do
   not fail: a user in `kept` is marked in the document or by a write, stored or not, that
   will find a profile; there is at most one fetch, it is behind the task of
   that write, and its result is not older than the tap; a Home that shows another user waits for a fetch.

`AuthScreens`. `Hasty` is a constant as well.

1. `TypeCorrect` and `LoaderRefined` (`Spec => ImplementsLoader`), for every user. `KindsInv` says which
   kind of screen sends which form and `LivesInv` that a form's screen lives
   until its answer, so that the answer ends work the abstract loader knows of.
2. `DelegateInv`, `PatientInv` (`ResetPopsCorrect`, `EndReportedCorrect`), for a user who is not hasty, because
   the properties fail for one who is: Home's fetch has ended before the screens
   are presented; there is one form at a time, its screen is on top under a steady
   loader that nobody hides; a dismissal is remembered only during a fade. Hence the
   reset screen pops itself and no other, and every end of work is seen.

`GetDocument`. `GetsInvariant` (`Spec => []IInv`) has one lemma per method on the client's
record (what it leaves alone, what it may post) and one per action. `AssertionsHold` is
part of `IInv`, and every other part is needed by another:

1. `WireInv` (`TypeCorrect`): a stream that is not open carries nothing, and on an open one
   the requests under way plus the "added" and "removed" replies are at most the
   aggregator's outstanding responses. The aggregator decrements this count at each
   reply, whoever listens by then; this is why it never goes below zero. If
   the server denies the document there is only a refusal on the wire, never a reply.
2. `InStep` (`AssertionsCorrect`): the view and the listeners' snapshot are there together
   and show the same document. The tracker raises the stored snapshot, the view computes
   a new one, and a joining listener gets the stored one.
3. `GetsInv`: a get is registered once, then listens, and only then is told anything.
4. `AnsweredInv` (`AnsweredOnceCorrect`): an error is the last event for its gets, because
   their listeners are gone with it; after its answer a get is muted, or nothing is left
   that could tell it more. A muted get swallows the later snapshots and errors.
5. `SinceInv`: no view, snapshot or event claims more than watch has.

What an answer contains (`SessionReadsCorrect`, `FreshAnswerCorrect`) rests on a second
invariant, `ReadsInv`, kept by every step given `IInv` before and after it. `Known` is what
the client knows, or the app was told had failed: the writes the cached document stands
for (of an unknown one, the app's own up to its version), the queued ones and `refused`.

1. `CacheInv`: the cached document is a version of the server's. After an acknowledgement it
   may lack writes of others (`committed`), and is then older than every write the
   server applied and has not answered. So an acknowledged write that moves from the
   queue into the cache stays shown, whichever of the two documents is newer, and an
   update of watch that wins in `PopulateDocumentChanges` contains what it replaces.
2. `DeliveryInv`: snapshots come with non-decreasing versions, none older than the last
   one taken, and between a document and its snapshot there is at most the news that the
   target is current. A document that the aggregator holds is therefore the one of
   the snapshot that comes next.
3. `WatchInv`: a resume token stands for a version that the cache has and the target lists;
   a snapshot that will find the target active (`Live`: every reply due comes before it) is
   no older than the view's `since` and brings the document, unless the cache has it. This is where
   the count of outstanding responses matters: messages for a former listen of the same
   target id promise nothing, and are not taken for the new one.
4. `KnownInv`: what the app has seen is in `Known`; what it wrote is there or waits on the
   worker queue, before each get that has to show it; view and events show what is
   known, but for what failed, or are of a missing document, and then only own
   writes were asked for (`Shows`). A view equals the cached document under the
   queued writes unless it waits for an acknowledged one (`ViewShows`). `Known` never
   shrinks: a refused write moves from the queue to `refused`, an acknowledged one on
   a document not found becomes a version.
5. `FreshInv`: a view is current only if `since` is at most the cached version (or the missing
   document's), hence a snapshot that claims to be the server's has the content of `since`.

Model-checked only: liveness (`DismissTakesEffect`, `LoaderLeavesClosedScreen`,
`LoaderLeaves`, `SignInLeavesLogin`, `GetsAnswered`, the fairness in
`ImplementsWriteQueue`), which the prover does not reach. Every invariant and every
action property that a passing run checks is proved.

## Not modelled

The Realtime Database variants in `Service.swift` (no caller); layout and views;
paging through the onboarding, which only fades a button in. Of the Firestore
client: transactions, `waitForPendingWrites`, `DisableNetwork`, queries over
collections, deletions, other sources than the default one, which the app does not
use; limbo resolution, existence filters and target resets; garbage
collection; stream tokens and the Healthy state of a stream, which no modelled
decision reads; credentials of the watch stream. The rest of `Pods/` (gRPC,
BoringSSL, abseil, LevelDB, sign-in and storage SDKs) is third-party code behind
interfaces, and most of the repository's lines.

## Plan

1. A composition of `Session` and `EditProfile` on the points where they meet:
   a switch of users while an edit screen's closures are pending.

The order followed so far was the loader's contract, the edit screen (the most
state and the most overlap), the session, the login screens, and then the
Firestore client below them; each proof
followed the runs that check its invariant.
