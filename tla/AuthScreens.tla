----------------------------- MODULE AuthScreens -----------------------------
(***************************************************************************)
(* The screens a signed-out user moves through: LoginViewController and    *)
(* the RegistrationViewController or ResetPasswordViewController pushed on *)
(* top of it, their submit buttons, their alerts, and the loader they      *)
(* share with each other and with Home.                                    *)
(*                                                                         *)
(* What a submitted form does at the services is the subject of Session;   *)
(* here an operation is under way until its closure runs, and the closure  *)
(* is told success or failure.  The closures keep their screen alive after *)
(* it was left, and they act on whatever is on screen by then.  Nothing    *)
(* here survives the process, so kills are left to Session, too.           *)
(***************************************************************************)
EXTENDS Naturals, Sequences, FiniteSets

CONSTANTS Logins,         \* LoginViewController instances
          Registrations,  \* RegistrationViewController instances
          Resets,         \* ResetPasswordViewController instances
          Home,           \* the HomeViewController
          Ops,            \* submitted forms
          Nil,
          StorageFails,   \* does Cloud Storage answer with errors?
          Hasty           \* does the user tap during fades and swipe back?

Pushed == Registrations \cup Resets
Screens == Logins \cup Pushed
Views == Screens \cup {Home}

ASSUME ScreensAssumption == /\ Logins \cap Pushed = {}
                            /\ Registrations \cap Resets = {}
                            /\ Home \notin Screens
ASSUME NilAssumption == Nil \notin Views
ASSUME SwitchesAssumption == StorageFails \in BOOLEAN /\ Hasty \in BOOLEAN

VARIABLES nav,      \* the navigation stack that Home presents, <<>> if none
          over,     \* what is presented over that stack
          life,     \* the lifetime of each view controller
          enabled,  \* the screens whose submit button is enabled
          picked,   \* the registrations that have a profileImage
          delegate, \* the login screen that pushed each ResetPassword screen
          op,       \* the submitted forms
          fetches,  \* how many fetches of Home are under way
          hud       \* UIViewController.hud

vars == <<nav, over, life, enabled, picked, delegate, op, fetches, hud>>

INSTANCE JGProgressHUD WITH NoView <- Nil

\* handleLogin, handleGoogleLogin and handleResetPassword make one call of a
\* service, or a chain of them, before they show a result; handleSignUp
\* stores the picture first.  "lost" is a chain that returned in silence with
\* the loader still shown.
Running == {"storing", "calling"}
Op == [kind : {"login", "google", "signUp", "reset"}, screen : Screens,
       stage : Running \cup {"asking", "done", "lost"}]

ASSUME NilRecordAssumption == Nil \notin Op

TypeOK ==
    /\ nav \in {<<>>} \cup {<<l>> : l \in Logins}
                      \cup {<<l, s>> : l \in Logins, s \in Pushed}
    /\ over \in {"none", "alert", "picker", "google"}
    /\ life \in [Screens -> {"new", "alive", "gone"}]
    /\ enabled \subseteq Screens
    /\ picked \subseteq Registrations
    /\ delegate \in [Resets -> Logins \cup {Nil}]
    /\ op \in [Ops -> Op \cup {Nil}]
    /\ fetches \in Nat
    /\ hud \in HUD

\* Home was launched with or without a signed-in user.
Init ==
    /\ nav = <<>>
    /\ over = "none"
    /\ life = [s \in Screens |-> "new"]
    /\ enabled = {}
    /\ picked = {}
    /\ delegate = [r \in Resets |-> Nil]
    /\ op = [o \in Ops |-> Nil]
    /\ fetches \in {0, 1}
    /\ hud = IdleHUD

-----------------------------------------------------------------------------
(* Helpers                                                                 *)

OnTop(s) == nav # <<>> /\ nav[Len(nav)] = s

\* Nothing is in front of the screen; the navigation bar is hidden, so the
\* HUD covers all of it.
CanTouch(s) == OnTop(s) /\ over = "none" /\ ~BlocksTouches(hud, s)

InState(o, stages) == op[o] # Nil /\ op[o].stage \in stages

\* A user who is not hasty lets fades end and waits for Google's sign-in,
\* which has no loader.
Unhurried == /\ hud.transition = "none"
             /\ \A o \in Ops : InState(o, Running) => op[o].kind # "google"

CanSubmit(s) == CanTouch(s) /\ s \in enabled /\ (Hasty \/ Unhurried)

\* updateForm enables the button whatever the form holds, for the Bool it
\* compares with nil is never nil.
UpdateForm(s) == enabled' = enabled \cup {s}

\* loadEmail of a new ResetPassword screen: the text of a field is never nil.
LoadEmail(r) == UpdateForm(r)

Start(o, kind, s, stage) ==
    /\ op[o] = Nil
    /\ op' = [op EXCEPT ![o] = [kind |-> kind, screen |-> s, stage |-> stage]]

\* popViewController pops what is on top, but never the root.
Popped == SubSeq(nav, 1, 1)

\* showMessage presents an alert, which UIKit ignores when the presenting
\* screen is not in the window or something is presented already.
ShowMessage(s, stack) ==
    over' = IF stack # <<>> /\ stack[Len(stack)] = s /\ over = "none" THEN "alert" ELSE over

\* Home's authenticationComplete: dismiss closes the stack and what is over
\* it, Google's screen included; then Home fetches the profile.
AuthenticationComplete(o) ==
    /\ nav' = <<>>
    /\ over' = "none"
    /\ op' = [p \in Ops |-> IF p = o \/ InState(p, {"asking"})
                            THEN [op[p] EXCEPT !.stage = "done"] ELSE op[p]]
    /\ fetches' = fetches + 1

\* A closure is told of an error and shows it on its screen.
Failed(o) ==
    /\ op' = [op EXCEPT ![o].stage = "done"]
    /\ ShowMessage(op[o].screen, nav)
    /\ UNCHANGED <<nav, fetches>>

-----------------------------------------------------------------------------
(* The user                                                                *)

\* presentLoginController, at launch or by logout.
PresentLogin(l) ==
    /\ nav = <<>>
    /\ Hasty \/ (fetches = 0 /\ Unhurried)
    /\ life[l] = "new"
    /\ life' = [life EXCEPT ![l] = "alive"]
    /\ nav' = <<l>>
    /\ UNCHANGED <<over, enabled, picked, delegate, op, fetches, hud>>

\* textDidChange of the three forms.
TextDidChange(s) ==
    /\ CanTouch(s)
    /\ UpdateForm(s)
    /\ UNCHANGED <<nav, over, life, picked, delegate, op, fetches, hud>>

HandleLogin(o, l) ==
    /\ CanSubmit(l)
    /\ Start(o, "login", l, "calling")
    /\ hud' = ShowInView(hud, l)
    /\ UNCHANGED <<nav, over, life, enabled, picked, delegate, fetches>>

\* The Google SDK presents its own screen; no loader.
HandleGoogleLogin(o, l) ==
    /\ CanTouch(l)
    /\ Hasty \/ Unhurried
    /\ Start(o, "google", l, "asking")
    /\ over' = "google"
    /\ UNCHANGED <<nav, life, enabled, picked, delegate, fetches, hud>>

\* Google's screen closes: signInWitnGoogleFirestore goes on, or the closure
\* returns in silence.
GoogleAnswers(o) ==
    /\ InState(o, {"asking"})
    /\ over' = "none"
    /\ op' \in {[op EXCEPT ![o].stage = stage] : stage \in {"calling", "done"}}
    /\ UNCHANGED <<nav, life, enabled, picked, delegate, fetches, hud>>

\* The pushed screen takes over the e-mail; its delegate is the login screen.
ShowForgotPassword(l, r) ==
    /\ CanTouch(l)
    /\ life[r] = "new"
    /\ life' = [life EXCEPT ![r] = "alive"]
    /\ nav' = Append(nav, r)
    /\ LoadEmail(r)
    /\ delegate' = [delegate EXCEPT ![r] = l]
    /\ UNCHANGED <<over, picked, op, fetches, hud>>

\* MUTANT of ShowRegistrationViewController: it can be reached from any screen.
ShowRegistrationAnywhere(l, g) ==
    /\ nav # <<>> /\ over = "none"
    /\ life[g] = "new"
    /\ life' = [life EXCEPT ![g] = "alive"]
    /\ nav' = Append(nav, g)
    /\ UNCHANGED <<over, enabled, picked, delegate, op, fetches, hud>>

ShowRegistrationViewController(l, g) ==
    /\ CanTouch(l)
    /\ life[g] = "new"
    /\ life' = [life EXCEPT ![g] = "alive"]
    /\ nav' = Append(nav, g)
    /\ UNCHANGED <<over, enabled, picked, delegate, op, fetches, hud>>

\* Registration's way back to the login screen.
ShowLoginViewController(g) ==
    /\ CanTouch(g)
    /\ nav' = Popped
    /\ UNCHANGED <<over, life, enabled, picked, delegate, op, fetches, hud>>

\* The back button of ResetPassword.
HandleDismissal(r) ==
    /\ CanTouch(r)
    /\ nav' = Popped
    /\ UNCHANGED <<over, life, enabled, picked, delegate, op, fetches, hud>>

\* The gesture belongs to the navigation controller, out of the HUD's reach.
SwipeBack(s) ==
    /\ Hasty
    /\ OnTop(s) /\ over = "none"
    /\ nav' = Popped
    /\ UNCHANGED <<over, life, enabled, picked, delegate, op, fetches, hud>>

HandleAddProfilePhoto(g) ==
    /\ CanTouch(g)
    /\ over' = "picker"
    /\ UNCHANGED <<nav, life, enabled, picked, delegate, op, fetches, hud>>

\* imagePickerController(_:didFinishPickingMediaWithInfo:), or cancel.
PickerCloses(g) ==
    /\ OnTop(g) /\ over = "picker"
    /\ over' = "none"
    /\ picked' \in {picked, picked \cup {g}}
    /\ UNCHANGED <<nav, life, enabled, delegate, op, fetches, hud>>

\* MUTANT of HandleSignUp: the loader is shown before the picture is checked.
HandleSignUpLoaderFirst(o, g) ==
    /\ CanSubmit(g)
    /\ hud' = ShowInView(hud, g)
    /\ IF g \in picked
       THEN Start(o, "signUp", g, "storing") /\ UNCHANGED over
       ELSE ShowMessage(g, nav) /\ UNCHANGED op
    /\ UNCHANGED <<nav, life, enabled, picked, delegate, fetches>>

\* Without a picture there is only a message.
HandleSignUp(o, g) ==
    /\ CanSubmit(g)
    /\ IF g \in picked
       THEN /\ Start(o, "signUp", g, "storing")
            /\ hud' = ShowInView(hud, g)
            /\ UNCHANGED over
       ELSE /\ ShowMessage(g, nav)
            /\ UNCHANGED <<op, hud>>
    /\ UNCHANGED <<nav, life, enabled, picked, delegate, fetches>>

\* MUTANT of HandleResetPassword: it runs without a loader.
HandleResetPasswordUncovered(o, r) ==
    /\ CanSubmit(r)
    /\ Start(o, "reset", r, "calling")
    /\ UNCHANGED <<nav, over, life, enabled, picked, delegate, fetches, hud>>

HandleResetPassword(o, r) ==
    /\ CanSubmit(r)
    /\ Start(o, "reset", r, "calling")
    /\ hud' = ShowInView(hud, r)
    /\ UNCHANGED <<nav, over, life, enabled, picked, delegate, fetches>>

AlertOk ==
    /\ over = "alert"
    /\ over' = "none"
    /\ UNCHANGED <<nav, life, enabled, picked, delegate, op, fetches, hud>>

-----------------------------------------------------------------------------
(* The closures of the services                                            *)

\* putData and downloadURL of handleSignUp; without a URL it returns.
PictureStored(o) ==
    /\ InState(o, {"storing"})
    /\ op' \in {[op EXCEPT ![o].stage = stage] :
                   stage \in {"calling"} \cup IF StorageFails THEN {"lost"} ELSE {}}
    /\ UNCHANGED <<nav, over, life, enabled, picked, delegate, fetches, hud>>

\* The closure of logUserIn.
LoggedIn(o) ==
    /\ InState(o, {"calling"}) /\ op[o].kind = "login"
    /\ hud' = DismissAnimated(hud)
    /\ AuthenticationComplete(o) \/ Failed(o)
    /\ UNCHANGED <<life, enabled, picked, delegate>>

\* MUTANT of Registered: the loader is hidden only after success.
RegisteredHidingLate(o) ==
    /\ InState(o, {"calling"}) /\ op[o].kind = "signUp"
    /\ \/ AuthenticationComplete(o) /\ hud' = DismissAnimated(hud)
       \/ Failed(o) /\ UNCHANGED hud
    /\ UNCHANGED <<life, enabled, picked, delegate>>

\* The closure of registerUserWithFirestore.
Registered(o) ==
    /\ InState(o, {"calling"}) /\ op[o].kind = "signUp"
    /\ hud' = DismissAnimated(hud)
    /\ AuthenticationComplete(o) \/ Failed(o)
    /\ UNCHANGED <<life, enabled, picked, delegate>>

\* The closure of signInWitnGoogleFirestore, which an error in the chain
\* leaves uncalled.
GoogleSignedIn(o) ==
    /\ InState(o, {"calling"}) /\ op[o].kind = "google"
    /\ \/ AuthenticationComplete(o)
       \/ /\ op' = [op EXCEPT ![o].stage = "done"]
          /\ UNCHANGED <<nav, over, fetches>>
    /\ UNCHANGED <<life, enabled, picked, delegate, hud>>

\* MUTANT of DidSendResetPasswordLink: the message comes before the pop.
DidSendResetPasswordLinkSwapped(l) ==
    /\ ShowMessage(l, nav)
    /\ nav' = Popped

\* didSendResetPasswordLink of the login screen below: pop, then a message.
DidSendResetPasswordLink(l) ==
    /\ nav' = Popped
    /\ ShowMessage(l, Popped)

\* The closure of resetPassword.  The delegate is weak, and a login screen
\* that is not in the presented stack changes nothing on screen.
ResetAnswered(o) ==
    /\ InState(o, {"calling"}) /\ op[o].kind = "reset"
    /\ hud' = DismissAnimated(hud)
    /\ LET l == delegate[op[o].screen] IN
       \/ Failed(o)
       \/ /\ op' = [op EXCEPT ![o].stage = "done"]
          /\ IF nav # <<>> /\ nav[1] = l
             THEN DidSendResetPasswordLink(l)
             ELSE UNCHANGED <<nav, over>>
          /\ UNCHANGED fetches
    /\ UNCHANGED <<life, enabled, picked, delegate>>

\* Home's fetch is answered; with a profile, the didSet of user shows and
\* hides the loader.
HomeFetched ==
    /\ fetches > 0
    /\ fetches' = fetches - 1
    /\ hud' \in {hud, DismissAnimated(ShowInView(hud, Home))}
    /\ UNCHANGED <<nav, over, life, enabled, picked, delegate, op>>

AnimationFinished ==
    /\ hud.transition # "none"
    /\ hud' = TransitionFinished(hud)
    /\ UNCHANGED <<nav, over, life, enabled, picked, delegate, op, fetches>>

\* ARC frees a screen that is in no stack and in no closure still to run.
Deallocate(s) ==
    /\ life[s] = "alive"
    /\ \A i \in DOMAIN nav : nav[i] # s
    /\ \A o \in Ops : InState(o, Running \cup {"asking"}) => op[o].screen # s
    /\ life' = [life EXCEPT ![s] = "gone"]
    /\ hud' = ViewReleased(hud, s)
    /\ UNCHANGED <<nav, over, enabled, picked, delegate, op, fetches>>

-----------------------------------------------------------------------------
Navigate == \/ \E l \in Logins : PresentLogin(l)
            \/ \E l \in Logins, r \in Resets : ShowForgotPassword(l, r)
            \/ \E l \in Logins, g \in Registrations : ShowRegistrationViewController(l, g)
            \/ \E g \in Registrations : ShowLoginViewController(g)
            \/ \E r \in Resets : HandleDismissal(r)
            \/ \E s \in Pushed : SwipeBack(s)
            \/ \E g \in Registrations : HandleAddProfilePhoto(g) \/ PickerCloses(g)
            \/ AlertOk

Submit(o) == \/ \E l \in Logins : HandleLogin(o, l) \/ HandleGoogleLogin(o, l)
             \/ \E g \in Registrations : HandleSignUp(o, g)
             \/ \E r \in Resets : HandleResetPassword(o, r)

Answer(o) == \/ PictureStored(o)
             \/ LoggedIn(o) \/ Registered(o) \/ GoogleSignedIn(o) \/ ResetAnswered(o)

Next == \/ Navigate
        \/ \E s \in Screens : TextDidChange(s) \/ Deallocate(s)
        \/ \E o \in Ops : Submit(o) \/ GoogleAnswers(o) \/ Answer(o)
        \/ HomeFetched
        \/ AnimationFinished

Spec == Init /\ [][Next]_vars

\* The services answer, fades end and ARC frees what nothing refers to.  The
\* user may stop at any point, also in front of Google's screen.
FairSpec == /\ Spec
            /\ \A o \in Ops : WF_vars(Answer(o))
            /\ WF_vars(HomeFetched)
            /\ WF_vars(AnimationFinished)
            /\ \A s \in Screens : WF_vars(Deallocate(s))

-----------------------------------------------------------------------------
(* Properties                                                              *)

HasLoader(o) == op[o] # Nil /\ op[o].kind # "google"

\* The closure of operation o runs in this step.
Ends(o) == InState(o, Running) /\ op'[o].stage = "done"

\* The answer to a password reset closes the screen it was asked on and no
\* other one.  popViewController (LoginViewController.swift:210) pops what is
\* on top; only the loader keeps the user from having left by then.
ResetPopsItself ==
    [][\A o \in Ops : (Ends(o) /\ op[o].kind = "reset" /\ Len(nav) = 2 /\ Len(nav') = 1)
                          => OnTop(op[o].screen)]_vars

\* Every log-in, sign-up and reset that calls back is reported: with an
\* alert, which UIKit drops when the screen is not in the window or something
\* is presented over it, or by the login screens going away.
EndIsReported ==
    [][\A o \in Ops : (HasLoader(o) /\ Ends(o)) => (over' = "alert" \/ nav' = <<>>)]_vars

\* A sign-up on screen v returned in silence.
Lost(v) == \E o \in Ops : InState(o, {"lost"}) /\ op[o].screen = v

\* The loader does not stay on any screen: whatever operations overlap, on
\* screens open or left, and however they end, the HUD is free again after a
\* while.  The one exception is handleSignUp's guard on the URL
\* (RegistrationViewController.swift:94), and that only on its own screen.
LoaderLeaves == \A v \in Views : (hud.target = v) ~> (hud.target # v \/ Lost(v))

\* The use of the HUD here implements the contract of Loader.
LoaderContract == INSTANCE Loader WITH
    NoView <- Nil,
    work   <- [o \in Ops |-> IF HasLoader(o) /\ InState(o, Running)
                             THEN op[o].screen ELSE Nil],
    leaked <- {s \in Screens : life[s] = "alive" /\ Lost(s)}

ImplementsLoader == LoaderContract!Spec
=============================================================================
