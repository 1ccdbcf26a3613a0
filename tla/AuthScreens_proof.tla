--------------------------- MODULE AuthScreens_proof ---------------------------
(***************************************************************************)
(* The login screens, for any number of screens and of submitted forms:    *)
(* type correctness, the contract of the loader for every user, and, for   *)
(* a user who is not hasty, that an answer finds the screen it belongs to. *)
(***************************************************************************)
EXTENDS AuthScreens, SequenceTheorems, TLAPS

\* SubSeq(s, 1, 1) is the first element.
LEMMA First ==
    ASSUME NEW S, NEW s \in Seq(S), Len(s) \in {1, 2}
    PROVE  SubSeq(s, 1, 1) = <<s[1]>>
<1> DEFINE first == SubSeq(s, 1, 1)
<1>1. \A i \in 1..1 : s[i] \in S
  OBVIOUS
<1>2. first \in Seq(S) /\ Len(first) = 1 /\ first[1] = s[1]
  BY <1>1, SubSeqProperties
<1> HIDE DEF first
<1>3. first = <<s[1]>>
  BY <1>2
<1> QED
  BY <1>3 DEF first

\* Appending to a sequence of one element makes a pair.
LEMMA Pair ==
    ASSUME NEW S, NEW s \in Seq(S), Len(s) = 1, NEW b \in S
    PROVE  Append(s, b) = <<s[1], b>>
<1> DEFINE more == Append(s, b)
           n == Len(s) + 1
<1>1. /\ more \in Seq(S) /\ Len(more) = n /\ more[n] = b
      /\ \A i \in DOMAIN s : more[i] = s[i]
  OBVIOUS
<1>2. n = 2 /\ 1 \in DOMAIN s
  OBVIOUS
<1> HIDE DEF more, n
<1>3. more \in Seq(S) /\ Len(more) = 2 /\ more[1] = s[1] /\ more[2] = b
  BY <1>1, <1>2
<1>4. more = <<s[1], b>>
  BY <1>3
<1> QED
  BY <1>4 DEF more

\* The stack is empty, or a login screen with at most one screen on it.
LEMMA Stack ==
    ASSUME TypeOK
    PROVE  /\ nav # <<>> => nav[1] \in Logins /\ Popped = <<nav[1]>>
           /\ \A l \in Logins : OnTop(l) => nav = <<l>>
           /\ \A s \in Pushed : OnTop(s) => nav = <<nav[1], s>> /\ nav[1] \in Logins
           /\ \A i \in DOMAIN nav : nav[i] \in Screens
           /\ nav # <<>> => Len(nav) \in DOMAIN nav /\ Len(nav) \in {1, 2}
<1>1. CASE nav = <<>>
  <2>1. DOMAIN nav = {}
    BY <1>1
  <2> QED
    BY <1>1, <2>1 DEF OnTop
<1>2. ASSUME NEW l \in Logins, nav = <<l>> PROVE
           /\ nav # <<>> /\ Len(nav) = 1 /\ DOMAIN nav = {1} /\ nav[1] = l
           /\ Popped = <<l>>
  <2>1. nav # <<>> /\ Len(nav) = 1 /\ DOMAIN nav = {1} /\ nav[1] = l /\ nav \in Seq(Logins)
    BY <1>2
  <2> QED
    BY <2>1, First DEF Popped
<1>3. ASSUME NEW l \in Logins, NEW s \in Pushed, nav = <<l, s>> PROVE
           /\ nav # <<>> /\ Len(nav) = 2 /\ DOMAIN nav = {1, 2} /\ nav[1] = l /\ nav[2] = s
           /\ Popped = <<l>>
  <2>1. /\ nav # <<>> /\ Len(nav) = 2 /\ DOMAIN nav = {1, 2} /\ nav[1] = l /\ nav[2] = s
        /\ nav \in Seq(Screens)
    BY <1>3 DEF Screens
  <2> QED
    BY <2>1, First DEF Popped
<1>4. ASSUME NEW l \in Logins, nav = <<l>> PROVE
           /\ \A k \in Logins : OnTop(k) => nav = <<k>>
           /\ \A s \in Pushed : ~OnTop(s)
  BY <1>2, <1>4, ScreensAssumption DEF OnTop
<1>5. ASSUME NEW l \in Logins, NEW s \in Pushed, nav = <<l, s>> PROVE
           /\ \A k \in Logins : ~OnTop(k)
           /\ \A t \in Pushed : OnTop(t) => nav = <<nav[1], t>>
  BY <1>3, <1>5, ScreensAssumption DEF OnTop
<1>6. nav = <<>> \/ (\E l \in Logins : nav = <<l>>)
        \/ (\E l \in Logins, s \in Pushed : nav = <<l, s>>)
  BY DEF TypeOK
<1> QED
  BY <1>1, <1>2, <1>3, <1>4, <1>5, <1>6 DEF Screens

\* The methods of JGProgressHUD map HUDs to HUDs.
LEMMA HUDOperators ==
    ASSUME NEW h \in HUD, NEW v \in Views
    PROVE  /\ ShowInView(h, v) \in HUD
           /\ DismissAnimated(h) \in HUD
           /\ TransitionFinished(h) \in HUD
           /\ ViewReleased(h, v) \in HUD
<1>1. ShowInView(h, v) \in HUD
  BY DEF ShowInView, HUD
<1>2. DismissAnimated(h) \in HUD
  BY DEF DismissAnimated, HUD
<1>3. IdleHUD \in HUD
  BY DEF IdleHUD, HUD
<1>4. CleanUpAfterPresentation(h) \in HUD
  BY DEF CleanUpAfterPresentation, DismissAnimated, HUD
<1>5. TransitionFinished(h) \in HUD
  BY <1>3, <1>4 DEF TransitionFinished, CleanUpAfterDismissal
<1>6. ViewReleased(h, v) \in HUD
  BY DEF ViewReleased, HUD
<1> QED
  BY <1>1, <1>2, <1>5, <1>6

Stages == Running \cup {"asking", "done", "lost"}

\* One form changes its stage.
LEMMA StageType ==
    ASSUME op \in [Ops -> Op \cup {Nil}], NEW o \in Ops, op[o] # Nil, NEW stage \in Stages
    PROVE  /\ [op EXCEPT ![o].stage = stage] \in [Ops -> Op \cup {Nil}]
           /\ [op EXCEPT ![o].stage = stage][o].stage = stage
           /\ [op EXCEPT ![o].stage = stage][o].kind = op[o].kind
           /\ [op EXCEPT ![o].stage = stage][o].screen = op[o].screen
           /\ [op EXCEPT ![o].stage = stage][o] # Nil
           /\ \A p \in Ops : p # o => [op EXCEPT ![o].stage = stage][p] = op[p]
<1>1. op[o] \in Op
  OBVIOUS
<1>2. [op[o] EXCEPT !.stage = stage] \in Op
  BY <1>1 DEF Op, Stages
<1>3. /\ [op[o] EXCEPT !.stage = stage].stage = stage
      /\ [op[o] EXCEPT !.stage = stage].kind = op[o].kind
      /\ [op[o] EXCEPT !.stage = stage].screen = op[o].screen
  BY <1>1 DEF Op
<1> QED
  BY <1>2, <1>3, NilRecordAssumption

\* A form is submitted.
LEMMA StartType ==
    ASSUME op \in [Ops -> Op \cup {Nil}], NEW o \in Ops, NEW s \in Screens,
           NEW kind \in {"login", "google", "signUp", "reset"}, NEW stage \in Stages,
           Start(o, kind, s, stage)
    PROVE  /\ op' \in [Ops -> Op \cup {Nil}]
           /\ op[o] = Nil /\ op'[o] # Nil
           /\ op'[o].kind = kind /\ op'[o].screen = s /\ op'[o].stage = stage
           /\ \A p \in Ops : p # o => op'[p] = op[p]
<1> DEFINE new == [kind |-> kind, screen |-> s, stage |-> stage]
<1>1. new \in Op /\ new.kind = kind /\ new.screen = s /\ new.stage = stage
  BY DEF Op, Stages
<1> HIDE DEF new
<1>2. op' = [op EXCEPT ![o] = new] /\ op[o] = Nil
  BY DEF Start, new
<1> QED
  BY <1>1, <1>2, NilRecordAssumption

\* authenticationComplete ends the form and those that ask Google.
LEMMA CompleteType ==
    ASSUME op \in [Ops -> Op \cup {Nil}], NEW o \in Ops, op[o] # Nil, AuthenticationComplete(o)
    PROVE  /\ op' \in [Ops -> Op \cup {Nil}]
           /\ \A p \in Ops :
                IF p = o \/ InState(p, {"asking"})
                THEN /\ op'[p] # Nil /\ op'[p].stage = "done"
                     /\ op'[p].kind = op[p].kind /\ op'[p].screen = op[p].screen
                ELSE op'[p] = op[p]
<1>1. op' = [p \in Ops |-> IF p = o \/ InState(p, {"asking"})
                           THEN [op[p] EXCEPT !.stage = "done"] ELSE op[p]]
  BY DEF AuthenticationComplete
<1>2. ASSUME NEW p \in Ops, p = o \/ InState(p, {"asking"})
      PROVE  /\ op'[p] \in Op /\ op'[p].stage = "done"
             /\ op'[p].kind = op[p].kind /\ op'[p].screen = op[p].screen
  <2>1. op[p] \in Op
    BY <1>2 DEF InState
  <2>2. op'[p] = [op[p] EXCEPT !.stage = "done"]
    BY <1>1, <1>2
  <2> QED
    BY <2>1, <2>2 DEF Op
<1>3. ASSUME NEW p \in Ops, ~(p = o \/ InState(p, {"asking"})) PROVE op'[p] = op[p]
  BY <1>1, <1>3
<1>4. ASSUME NEW p \in Ops PROVE op'[p] \in Op \cup {Nil}
  BY <1>2, <1>3
<1> QED
  BY <1>1, <1>2, <1>3, <1>4, NilRecordAssumption

-----------------------------------------------------------------------------
LEMMA InitTypeOK == Init => TypeOK
<1> SUFFICES ASSUME Init PROVE TypeOK
  OBVIOUS
<1>1. hud \in HUD
  BY DEF Init, IdleHUD, HUD
<1> QED
  BY <1>1 DEF Init, TypeOK

\* The stack after it changed.
LEMMA StackType ==
    ASSUME TypeOK,
           \/ nav' \in {nav, <<>>}
           \/ nav # <<>> /\ nav' = Popped
           \/ \E l \in Logins : nav' = <<l>>
           \/ \E l \in Logins, s \in Pushed : OnTop(l) /\ nav' = Append(nav, s)
    PROVE  nav' \in {<<>>} \cup {<<l>> : l \in Logins}
                           \cup {<<l, s>> : l \in Logins, s \in Pushed}
<1>1. CASE nav' \in {nav, <<>>}
  BY <1>1 DEF TypeOK
<1>2. CASE nav # <<>> /\ nav' = Popped
  BY <1>2, Stack
<1>3. ASSUME NEW l \in Logins, NEW s \in Pushed, OnTop(l), nav' = Append(nav, s)
      PROVE  nav' = <<l, s>>
  <2>1. nav = <<l>>
    BY <1>3, Stack
  <2>2. nav \in Seq(Screens) /\ Len(nav) = 1 /\ nav[1] = l /\ s \in Screens
    BY <2>1 DEF Screens
  <2> QED
    BY <1>3, <2>2, Pair
<1> QED
  BY <1>1, <1>2, <1>3

\* What moves the user from screen to screen.
LEMMA NavigateType ==
    ASSUME TypeOK, Navigate \/ \E s \in Screens : TextDidChange(s) \/ Deallocate(s)
    PROVE  TypeOK'
<1> USE DEF TypeOK
<1>1. ASSUME NEW l \in Logins, PresentLogin(l) PROVE TypeOK'
  <2>1. life' \in [Screens -> {"new", "alive", "gone"}]
    BY <1>1 DEF PresentLogin, Screens
  <2>2. nav' = <<l>> /\ UNCHANGED <<over, enabled, picked, delegate, op, fetches, hud>>
    BY <1>1 DEF PresentLogin
  <2> QED
    BY <2>1, <2>2, StackType
<1>2. ASSUME NEW l \in Logins, NEW r \in Resets, ShowForgotPassword(l, r) PROVE TypeOK'
  <2>1. /\ OnTop(l) /\ r \in Pushed /\ nav' = Append(nav, r) /\ r \in Screens
        /\ UNCHANGED <<over, picked, op, fetches, hud>>
    BY <1>2 DEF ShowForgotPassword, CanTouch, Pushed, Screens
  <2>2. /\ life' \in [Screens -> {"new", "alive", "gone"}] /\ enabled' \subseteq Screens
        /\ delegate' \in [Resets -> Logins \cup {Nil}]
    BY <1>2, <2>1 DEF ShowForgotPassword, LoadEmail, UpdateForm
  <2> QED
    BY <2>1, <2>2, StackType
<1>3. ASSUME NEW l \in Logins, NEW g \in Registrations, ShowRegistrationViewController(l, g)
      PROVE  TypeOK'
  <2>1. /\ OnTop(l) /\ g \in Pushed /\ nav' = Append(nav, g) /\ g \in Screens
        /\ UNCHANGED <<over, enabled, picked, delegate, op, fetches, hud>>
    BY <1>3 DEF ShowRegistrationViewController, CanTouch, Pushed, Screens
  <2>2. life' \in [Screens -> {"new", "alive", "gone"}]
    BY <1>3, <2>1 DEF ShowRegistrationViewController
  <2> QED
    BY <2>1, <2>2, StackType
<1>4. ASSUME NEW s \in Pushed, \/ ShowLoginViewController(s) \/ HandleDismissal(s) \/ SwipeBack(s)
      PROVE  TypeOK'
  <2>1. nav # <<>> /\ nav' = Popped
    BY <1>4 DEF ShowLoginViewController, HandleDismissal, SwipeBack, CanTouch, OnTop
  <2>2. UNCHANGED <<over, life, enabled, picked, delegate, op, fetches, hud>>
    BY <1>4 DEF ShowLoginViewController, HandleDismissal, SwipeBack
  <2> QED
    BY <2>1, <2>2, StackType
<1>5. ASSUME NEW g \in Registrations, HandleAddProfilePhoto(g) \/ PickerCloses(g) PROVE TypeOK'
  BY <1>5 DEF HandleAddProfilePhoto, PickerCloses
<1>6. CASE AlertOk
  BY <1>6 DEF AlertOk
<1>7. ASSUME NEW s \in Screens, TextDidChange(s) PROVE TypeOK'
  BY <1>7 DEF TextDidChange, UpdateForm
<1>8. ASSUME NEW s \in Screens, Deallocate(s) PROVE TypeOK'
  <2>1. hud' \in HUD
    BY <1>8, HUDOperators DEF Deallocate, Views
  <2> QED
    BY <1>8, <2>1 DEF Deallocate
<1> QED
  BY <1>1, <1>2, <1>3, <1>4, <1>5, <1>6, <1>7, <1>8 DEF Navigate, Pushed

\* A form is submitted.
LEMMA SubmitType ==
    ASSUME TypeOK, NEW o \in Ops, Submit(o)
    PROVE  TypeOK'
<1> USE DEF TypeOK
<1>1. UNCHANGED <<nav, life, enabled, picked, delegate, fetches>>
  BY DEF Submit, HandleLogin, HandleGoogleLogin, HandleSignUp, HandleResetPassword
<1>2. ASSUME NEW s \in Screens, NEW kind \in {"login", "google", "signUp", "reset"},
             NEW stage \in Stages, Start(o, kind, s, stage), over' \in {over, "google"},
             hud' \in {hud, ShowInView(hud, s)}
      PROVE  TypeOK'
  <2>1. op' \in [Ops -> Op \cup {Nil}]
    BY <1>2, StartType
  <2>2. ShowInView(hud, s) \in HUD
    <3>1. s \in Views /\ hud \in HUD
      BY DEF Views
    <3> QED
      BY <3>1, HUDOperators
  <2> QED
    BY <1>1, <1>2, <2>1, <2>2
<1>3. ASSUME NEW l \in Logins, HandleLogin(o, l) \/ HandleGoogleLogin(o, l) PROVE TypeOK'
  BY <1>2, <1>3 DEF HandleLogin, HandleGoogleLogin, Screens, Stages, Running
<1>4. ASSUME NEW r \in Resets, HandleResetPassword(o, r) PROVE TypeOK'
  BY <1>2, <1>4 DEF HandleResetPassword, Screens, Pushed, Stages, Running
<1>5. ASSUME NEW g \in Registrations, HandleSignUp(o, g) PROVE TypeOK'
  <2>1. CASE g \in picked
    BY <1>2, <1>5, <2>1 DEF HandleSignUp, Screens, Pushed, Stages, Running
  <2>2. CASE g \notin picked
    BY <1>1, <1>5, <2>2 DEF HandleSignUp, ShowMessage
  <2> QED
    BY <2>1, <2>2
<1> QED
  BY <1>3, <1>4, <1>5 DEF Submit

\* A closure runs.
LEMMA AnswerType ==
    ASSUME TypeOK, NEW o \in Ops, GoogleAnswers(o) \/ Answer(o)
    PROVE  TypeOK'
<1> USE DEF TypeOK
<1>1. UNCHANGED <<life, enabled, picked, delegate>> /\ op[o] # Nil
  BY DEF GoogleAnswers, Answer, PictureStored, LoggedIn, Registered, GoogleSignedIn,
         ResetAnswered, InState
<1>2. hud' \in {hud, DismissAnimated(hud)}
  BY DEF GoogleAnswers, Answer, PictureStored, LoggedIn, Registered, GoogleSignedIn, ResetAnswered
<1>3. hud' \in HUD
  BY <1>2, HUDOperators DEF Views
<1>4. CASE AuthenticationComplete(o)
  <2>1. op' \in [Ops -> Op \cup {Nil}]
    BY <1>1, <1>4, CompleteType
  <2> QED
    BY <1>1, <1>3, <1>4, <2>1 DEF AuthenticationComplete
<1>5. ASSUME NEW stage \in Stages, op' = [op EXCEPT ![o].stage = stage],
             over' \in {over, "none", "alert"}, nav' = nav \/ (nav # <<>> /\ nav' = Popped),
             fetches' = fetches
      PROVE  TypeOK'
  <2>1. op' \in [Ops -> Op \cup {Nil}]
    BY <1>1, <1>5, StageType
  <2> QED
    BY <1>1, <1>3, <1>5, <2>1, StackType
<1> HIDE DEF TypeOK
<1>6. CASE Failed(o)
  BY <1>5, <1>6 DEF Failed, ShowMessage, Stages
<1>7. CASE GoogleAnswers(o) \/ PictureStored(o)
  <2>1. \E stage \in Stages : op' = [op EXCEPT ![o].stage = stage]
    BY <1>7 DEF GoogleAnswers, PictureStored, Stages, Running
  <2>2. over' \in {over, "none"} /\ UNCHANGED <<nav, fetches>>
    BY <1>7 DEF GoogleAnswers, PictureStored
  <2> QED
    BY <1>5, <2>1, <2>2
<1>8. CASE GoogleSignedIn(o) \/ LoggedIn(o) \/ Registered(o)
  BY <1>4, <1>5, <1>6, <1>8 DEF GoogleSignedIn, LoggedIn, Registered, Stages
<1>9. CASE ResetAnswered(o)
  BY <1>5, <1>6, <1>9 DEF ResetAnswered, DidSendResetPasswordLink, ShowMessage, Stages
<1> QED
  BY <1>7, <1>8, <1>9 DEF Answer

LEMMA NextTypeOK == TypeOK /\ [Next]_vars => TypeOK'
<1> SUFFICES ASSUME TypeOK, [Next]_vars PROVE TypeOK'
  OBVIOUS
<1>1. CASE HomeFetched
  <2>1. Home \in Views /\ hud \in HUD
    BY DEF Views, TypeOK
  <2>2. ShowInView(hud, Home) \in HUD
    BY <2>1, HUDOperators
  <2>3. hud' \in HUD
    BY <1>1, <2>1, <2>2, HUDOperators DEF HomeFetched
  <2> QED
    BY <1>1, <2>3 DEF HomeFetched, TypeOK
<1>2. CASE AnimationFinished
  <2>1. hud' \in HUD
    BY <1>2, HUDOperators DEF AnimationFinished, Views, TypeOK
  <2> QED
    BY <1>2, <2>1 DEF AnimationFinished, TypeOK
<1>3. CASE UNCHANGED vars
  BY <1>3 DEF vars, TypeOK
<1> QED
  BY <1>1, <1>2, <1>3, NavigateType, SubmitType, AnswerType DEF Next

\* Every variable keeps its type, for every user, hasty or not: among other
\* things at most one screen is pushed on a login screen, and popViewController
\* never empties the stack.
THEOREM TypeCorrect == Spec => []TypeOK
  BY InitTypeOK, NextTypeOK, PTL DEF Spec

-----------------------------------------------------------------------------
(* Which forms have the loader, and which screens live.                     *)

Active == Running \cup {"asking"}

\* Google's screen is asked for Google's sign-in, pictures are stored for
\* sign-ups, and resets are asked for on their screens.
KindsInv ==
    \A o \in Ops :
        /\ InState(o, {"asking"}) => op[o].kind = "google"
        /\ InState(o, {"storing", "lost"}) => op[o].kind = "signUp"
        /\ op[o] # Nil /\ op[o].kind = "reset" => op[o].screen \in Resets

\* A screen lives while it is in the stack and while a form on it runs.
LivesInv ==
    /\ \A i \in DOMAIN nav : life[nav[i]] = "alive"
    /\ \A o \in Ops : /\ op[o] # Nil => life[op[o].screen] # "new"
                      /\ InState(o, Active) => life[op[o].screen] = "alive"

\* The delegate of a ResetPassword screen on top is the login screen below.
DelegateInv == \A r \in Resets : OnTop(r) => delegate[r] = nav[1]

\* For a user who is not hasty.  Home's fetch has ended before the stack is
\* presented; forms run one at a time; the screen of the one that runs is on
\* top, under a loader that nobody hides, and so is that of a lost one.
Covered(o) ==
    /\ OnTop(op[o].screen) /\ over = "none"
    /\ hud.target = op[o].screen /\ Steady(hud)

PatientInv ==
    /\ nav # <<>> => fetches = 0
    /\ \A o, p \in Ops : InState(o, Active) /\ InState(p, Active) => o = p
    /\ \A o \in Ops : HasLoader(o) /\ InState(o, Running) => Covered(o)
    /\ \A o \in Ops : InState(o, {"asking"}) => over = "google"
    /\ hud.dismissAfter => hud.transition # "none"
    /\ Steady(hud) => /\ OnTop(hud.target) /\ over = "none"
                      /\ \A o \in Ops : InState(o, Active) => HasLoader(o)

\* The life of a form: it is submitted on the screen on top, asks Google or
\* stores its picture if it has to, calls its service and ends.
Submitted(o) ==
    /\ op[o] = Nil /\ op'[o] # Nil
    /\ op'[o].stage \in Active /\ OnTop(op'[o].screen) /\ nav' = nav
    /\ op'[o].stage = "asking" <=> op'[o].kind = "google"
    /\ op'[o].stage = "storing" <=> op'[o].kind = "signUp"
    /\ op'[o].kind = "reset" => op'[o].screen \in Resets

Advanced(o) ==
    /\ InState(o, Active) /\ op'[o] # Nil
    /\ op'[o].kind = op[o].kind /\ op'[o].screen = op[o].screen
    /\ \/ op'[o].stage = "done"
       \/ op[o].stage = "asking" /\ op'[o].stage = "calling"
       \/ op[o].stage = "storing" /\ op'[o].stage \in {"calling", "lost"}

LEMMA SubmitStep ==
    ASSUME TypeOK, NEW o \in Ops, Submit(o)
    PROVE  \A p \in Ops : op'[p] = op[p] \/ Submitted(p)
<1>1. op \in [Ops -> Op \cup {Nil}]
  BY DEF TypeOK
<1>2. ASSUME NEW s \in Screens, OnTop(s), nav' = nav,
             NEW kind \in {"login", "google", "signUp", "reset"}, NEW stage \in Active,
             stage = "asking" <=> kind = "google", stage = "storing" <=> kind = "signUp",
             kind = "reset" => s \in Resets, Start(o, kind, s, stage)
      PROVE  \A p \in Ops : op'[p] = op[p] \/ Submitted(p)
  <2>1. /\ op[o] = Nil /\ op'[o] # Nil
        /\ op'[o].kind = kind /\ op'[o].screen = s /\ op'[o].stage = stage
        /\ \A p \in Ops : p # o => op'[p] = op[p]
    <3>1. stage \in Stages
      BY <1>2 DEF Active, Stages
    <3> QED
      BY <1>1, <1>2, <3>1, StartType
  <2> QED
    BY <1>2, <2>1 DEF Submitted
<1>3. ASSUME NEW l \in Logins, HandleLogin(o, l)
      PROVE  \A p \in Ops : op'[p] = op[p] \/ Submitted(p)
  BY <1>2, <1>3 DEF HandleLogin, CanSubmit, CanTouch, Screens, Active, Running
<1>4. ASSUME NEW l \in Logins, HandleGoogleLogin(o, l)
      PROVE  \A p \in Ops : op'[p] = op[p] \/ Submitted(p)
  BY <1>2, <1>4 DEF HandleGoogleLogin, CanTouch, Screens, Active
<1>5. ASSUME NEW g \in Registrations, HandleSignUp(o, g)
      PROVE  \A p \in Ops : op'[p] = op[p] \/ Submitted(p)
  BY <1>2, <1>5 DEF HandleSignUp, CanSubmit, CanTouch, Screens, Pushed, Active, Running
<1>6. ASSUME NEW r \in Resets, HandleResetPassword(o, r)
      PROVE  \A p \in Ops : op'[p] = op[p] \/ Submitted(p)
  BY <1>2, <1>6 DEF HandleResetPassword, CanSubmit, CanTouch, Screens, Pushed, Active, Running
<1> QED
  BY <1>3, <1>4, <1>5, <1>6 DEF Submit

LEMMA AnswerStep ==
    ASSUME TypeOK, NEW o \in Ops, GoogleAnswers(o) \/ Answer(o)
    PROVE  \A p \in Ops : op'[p] = op[p] \/ Advanced(p)
<1>1. op \in [Ops -> Op \cup {Nil}]
  BY DEF TypeOK
<1>2. ASSUME NEW stage \in Stages, op' = [op EXCEPT ![o].stage = stage], InState(o, Active),
             \/ stage = "done"
             \/ op[o].stage = "asking" /\ stage = "calling"
             \/ op[o].stage = "storing" /\ stage \in {"calling", "lost"}
      PROVE  \A p \in Ops : op'[p] = op[p] \/ Advanced(p)
  <2>1. /\ op'[o] # Nil /\ op'[o].kind = op[o].kind /\ op'[o].screen = op[o].screen
        /\ op'[o].stage = stage
        /\ \A p \in Ops : p # o => op'[p] = op[p]
    BY <1>1, <1>2, StageType DEF InState
  <2> QED
    BY <1>2, <2>1 DEF Advanced
<1>3. ASSUME InState(o, Active), AuthenticationComplete(o)
      PROVE  \A p \in Ops : op'[p] = op[p] \/ Advanced(p)
  <2>1. \A p \in Ops : IF p = o \/ InState(p, {"asking"})
                       THEN /\ op'[p] # Nil /\ op'[p].stage = "done"
                            /\ op'[p].kind = op[p].kind /\ op'[p].screen = op[p].screen
                       ELSE op'[p] = op[p]
    BY <1>1, <1>3, CompleteType DEF InState
  <2>2. \A p \in Ops : p = o \/ InState(p, {"asking"}) => InState(p, Active)
    BY <1>3 DEF InState, Active
  <2> QED
    BY <2>1, <2>2 DEF Advanced
<1>4. InState(o, Active)
  BY DEF GoogleAnswers, Answer, PictureStored, LoggedIn, Registered, GoogleSignedIn,
         ResetAnswered, InState, Active, Running
<1>5. CASE GoogleAnswers(o)
  <2>1. /\ op[o].stage = "asking"
        /\ \E stage \in {"calling", "done"} : op' = [op EXCEPT ![o].stage = stage]
    BY <1>5 DEF GoogleAnswers, InState
  <2> QED
    BY <1>2, <1>4, <2>1 DEF Stages, Running
<1>6. CASE PictureStored(o)
  <2>1. /\ op[o].stage = "storing"
        /\ \E stage \in {"calling", "lost"} : op' = [op EXCEPT ![o].stage = stage]
    BY <1>6 DEF PictureStored, InState
  <2> QED
    BY <1>2, <1>4, <2>1 DEF Stages, Running
<1>7. CASE AuthenticationComplete(o)
  BY <1>3, <1>4, <1>7
<1>8. CASE op' = [op EXCEPT ![o].stage = "done"]
  BY <1>2, <1>4, <1>8 DEF Stages
<1> QED
  BY <1>5, <1>6, <1>7, <1>8
     DEF Answer, LoggedIn, Registered, GoogleSignedIn, ResetAnswered, Failed

LEMMA FormStep ==
    ASSUME TypeOK, [Next]_vars
    PROVE  \A o \in Ops : op'[o] = op[o] \/ Submitted(o) \/ Advanced(o)
<1>1. CASE op' = op
  BY <1>1
<1>2. CASE Navigate \/ (\E s \in Screens : TextDidChange(s) \/ Deallocate(s))
             \/ HomeFetched \/ AnimationFinished \/ UNCHANGED vars
  BY <1>1, <1>2 DEF Navigate, PresentLogin, ShowForgotPassword, ShowRegistrationViewController,
     ShowLoginViewController, HandleDismissal, SwipeBack, HandleAddProfilePhoto, PickerCloses,
     AlertOk, TextDidChange, Deallocate, HomeFetched, AnimationFinished, vars
<1> QED
  BY <1>2, SubmitStep, AnswerStep DEF Next

LEMMA KindsNext == TypeOK /\ KindsInv /\ [Next]_vars => KindsInv'
<1> SUFFICES ASSUME TypeOK, KindsInv, [Next]_vars, NEW o \in Ops
             PROVE  /\ InState(o, {"asking"})' => op'[o].kind = "google"
                    /\ InState(o, {"storing", "lost"})' => op'[o].kind = "signUp"
                    /\ op'[o] # Nil /\ op'[o].kind = "reset" => op'[o].screen \in Resets
  BY DEF KindsInv
<1>1. op'[o] = op[o] \/ Submitted(o) \/ Advanced(o)
  BY FormStep
<1> QED
  BY <1>1 DEF KindsInv, InState, Submitted, Advanced, Active, Running

\* Screens are opened one at a time, and freed when nothing refers to them.
LEMMA LivesNext == TypeOK /\ LivesInv /\ [Next]_vars => LivesInv'
<1> SUFFICES ASSUME TypeOK, LivesInv, [Next]_vars PROVE LivesInv'
  OBVIOUS
<1>1. /\ life \in [Screens -> {"new", "alive", "gone"}] /\ op \in [Ops -> Op \cup {Nil}]
      /\ \A i \in DOMAIN nav : nav[i] \in Screens
      /\ \A o \in Ops : op[o] # Nil => op[o].screen \in Screens
  BY Stack DEF TypeOK, Op
<1>2. \A o \in Ops : op'[o] = op[o] \/ Submitted(o) \/ Advanced(o)
  BY FormStep
<1>3. \A s \in Screens : OnTop(s) => life[s] = "alive"
  BY Stack DEF OnTop, LivesInv
<1>4. ASSUME NEW s \in Screens, life[s] = "new", life' = [life EXCEPT ![s] = "alive"], op' = op,
             \A i \in DOMAIN nav' : nav'[i] = s \/ \E j \in DOMAIN nav : nav'[i] = nav[j]
      PROVE  LivesInv'
  BY <1>1, <1>4 DEF LivesInv, InState
<1>5. ASSUME NEW l \in Logins, PresentLogin(l) PROVE LivesInv'
  <2>1. nav' = <<l>>
    BY <1>5 DEF PresentLogin
  <2>2. \A i \in DOMAIN nav' : nav'[i] = l
    BY <2>1
  <2> QED
    BY <1>4, <1>5, <2>2 DEF PresentLogin, Screens
<1>6. ASSUME NEW l \in Logins, NEW s \in Pushed,
             ShowForgotPassword(l, s) \/ ShowRegistrationViewController(l, s)
      PROVE  LivesInv'
  <2>1. nav' = Append(nav, s) /\ OnTop(l) /\ life[s] = "new" /\ op' = op
        /\ life' = [life EXCEPT ![s] = "alive"]
    BY <1>6 DEF ShowForgotPassword, ShowRegistrationViewController, CanTouch
  <2>2. nav \in Seq(Screens)
    <3>1. nav = <<l>> /\ l \in Screens
      BY <2>1, Stack DEF Screens
    <3> QED
      BY <3>1
  <2>3. s \in Screens
    BY DEF Screens
  <2>4. \A i \in DOMAIN nav' : nav'[i] = s \/ \E j \in DOMAIN nav : nav'[i] = nav[j]
    BY <2>1, <2>2, <2>3
  <2> QED
    BY <1>4, <2>1, <2>3, <2>4
<1>7. ASSUME NEW s \in Screens, Deallocate(s) PROVE LivesInv'
  <2>1. /\ nav' = nav /\ op' = op /\ life' = [life EXCEPT ![s] = "gone"] /\ life[s] = "alive"
        /\ \A i \in DOMAIN nav : nav[i] # s
        /\ \A o \in Ops : InState(o, Active) => op[o].screen # s
    BY <1>7 DEF Deallocate, Active
  <2> QED
    BY <1>1, <2>1 DEF LivesInv, InState
<1>8. ASSUME life' = life, \A i \in DOMAIN nav' : \E j \in DOMAIN nav : nav'[i] = nav[j]
      PROVE  LivesInv'
  <2>1. \A i \in DOMAIN nav' : life'[nav'[i]] = "alive"
    BY <1>8 DEF LivesInv
  <2>2. ASSUME NEW o \in Ops, op'[o] # Nil
        PROVE  /\ life'[op'[o].screen] # "new"
               /\ InState(o, Active)' => life'[op'[o].screen] = "alive"
    <3>1. CASE op'[o] = op[o]
      BY <1>8, <2>2, <3>1 DEF LivesInv, InState
    <3>2. CASE Advanced(o)
      BY <1>8, <3>2 DEF LivesInv, Advanced
    <3>3. CASE Submitted(o)
      <4>1. op'[o].screen \in Screens
        BY <2>2, NextTypeOK DEF TypeOK, Op
      <4> QED
        BY <1>3, <1>8, <3>3, <4>1 DEF Submitted
    <3> QED
      BY <1>2, <3>1, <3>2, <3>3
  <2> QED
    BY <2>1, <2>2 DEF LivesInv, InState
<1>9. ASSUME nav # <<>>, nav' = Popped
      PROVE  \A i \in DOMAIN nav' : \E j \in DOMAIN nav : nav'[i] = nav[j]
  <2>1. nav' = <<nav[1]>> /\ 1 \in DOMAIN nav
    BY <1>9, Stack
  <2> QED
    BY <2>1
<1>10. CASE life' = life /\ (nav' \in {nav, <<>>} \/ (nav # <<>> /\ nav' = Popped))
  BY <1>8, <1>9, <1>10
<1>11. CASE Navigate \/ \E s \in Screens : TextDidChange(s) \/ Deallocate(s)
  BY <1>5, <1>6, <1>7, <1>10, <1>11
     DEF Navigate, ShowLoginViewController, HandleDismissal, SwipeBack, HandleAddProfilePhoto,
         PickerCloses, AlertOk, TextDidChange, CanTouch, OnTop, Pushed
<1>12. ASSUME NEW o \in Ops, Submit(o) PROVE LivesInv'
  BY <1>10, <1>12 DEF Submit, HandleLogin, HandleGoogleLogin, HandleSignUp, HandleResetPassword
<1>13. ASSUME NEW o \in Ops, GoogleAnswers(o) \/ Answer(o) PROVE LivesInv'
  BY <1>10, <1>13 DEF GoogleAnswers, Answer, PictureStored, LoggedIn, Registered, GoogleSignedIn,
     ResetAnswered, AuthenticationComplete, Failed, DidSendResetPasswordLink
<1>14. CASE HomeFetched \/ AnimationFinished \/ UNCHANGED vars
  BY <1>10, <1>14 DEF HomeFetched, AnimationFinished, vars
<1> QED
  BY <1>11, <1>12, <1>13, <1>14 DEF Next

LEMMA DelegateNext == TypeOK /\ DelegateInv /\ [Next]_vars => DelegateInv'
<1> SUFFICES ASSUME TypeOK, DelegateInv, [Next]_vars PROVE DelegateInv'
  OBVIOUS
<1>1. \A l \in Logins : l \notin Resets
  BY ScreensAssumption DEF Pushed
<1>2. CASE UNCHANGED <<nav, delegate>>
  BY <1>2 DEF DelegateInv, OnTop
<1>3. CASE nav' = <<>>
  BY <1>3 DEF DelegateInv, OnTop
<1>4. ASSUME NEW l \in Logins, nav' = <<l>> PROVE DelegateInv'
  <2>1. nav'[Len(nav')] = l
    BY <1>4
  <2> QED
    BY <1>1, <2>1 DEF DelegateInv, OnTop
<1>5. CASE nav # <<>> /\ nav' = Popped
  BY <1>4, <1>5, Stack
<1>6. ASSUME NEW l \in Logins, NEW s \in Pushed, OnTop(l), nav' = Append(nav, s)
      PROVE  nav' = <<l, s>> /\ nav'[Len(nav')] = s /\ nav'[1] = l
  <2>1. nav = <<l>>
    BY <1>6, Stack
  <2>2. nav \in Seq(Screens) /\ Len(nav) = 1 /\ nav[1] = l /\ s \in Screens
    BY <2>1 DEF Screens
  <2>3. nav' = <<l, s>>
    BY <1>6, <2>2, Pair
  <2> QED
    BY <2>3
<1>7. ASSUME NEW l \in Logins, NEW g \in Registrations, ShowRegistrationViewController(l, g)
      PROVE  DelegateInv'
  <2>1. nav'[Len(nav')] = g /\ g \notin Resets
    BY <1>6, <1>7, ScreensAssumption DEF ShowRegistrationViewController, CanTouch, Pushed
  <2> QED
    BY <2>1 DEF DelegateInv, OnTop
<1>8. ASSUME NEW l \in Logins, NEW r \in Resets, ShowForgotPassword(l, r) PROVE DelegateInv'
  <2>1. nav'[Len(nav')] = r /\ nav'[1] = l
    BY <1>6, <1>8 DEF ShowForgotPassword, CanTouch, Pushed
  <2>2. delegate'[r] = l
    BY <1>8 DEF ShowForgotPassword, TypeOK
  <2> QED
    BY <2>1, <2>2 DEF DelegateInv, OnTop
<1>9. CASE Navigate \/ \E s \in Screens : TextDidChange(s) \/ Deallocate(s)
  BY <1>2, <1>4, <1>5, <1>7, <1>8, <1>9
     DEF Navigate, PresentLogin, ShowLoginViewController, HandleDismissal, SwipeBack,
         HandleAddProfilePhoto, PickerCloses, AlertOk, TextDidChange, Deallocate, CanTouch, OnTop
<1>10. ASSUME NEW o \in Ops, Submit(o) PROVE DelegateInv'
  BY <1>2, <1>10 DEF Submit, HandleLogin, HandleGoogleLogin, HandleSignUp, HandleResetPassword
<1>11. ASSUME NEW o \in Ops, GoogleAnswers(o) \/ Answer(o) PROVE DelegateInv'
  BY <1>2, <1>3, <1>5, <1>11
     DEF GoogleAnswers, Answer, PictureStored, LoggedIn, Registered, GoogleSignedIn,
         ResetAnswered, AuthenticationComplete, Failed, DidSendResetPasswordLink
<1>12. CASE HomeFetched \/ AnimationFinished \/ UNCHANGED vars
  BY <1>2, <1>12 DEF HomeFetched, AnimationFinished, vars
<1> QED
  BY <1>9, <1>10, <1>11, <1>12 DEF Next

LEMMA LivesInit == Init => KindsInv /\ LivesInv /\ DelegateInv
<1> SUFFICES ASSUME Init PROVE KindsInv /\ LivesInv /\ DelegateInv
  OBVIOUS
<1>1. nav = <<>> /\ DOMAIN nav = {} /\ \A o \in Ops : op[o] = Nil
  BY DEF Init
<1> QED
  BY <1>1 DEF KindsInv, LivesInv, DelegateInv, InState, OnTop

-----------------------------------------------------------------------------
(* The forms use the loader as its contract says.                           *)

\* The refinement mapping: the operations of Loader and the views they left.
Loading(form) == form # Nil /\ form.kind # "google"
At(form, stages) == form # Nil /\ form.stage \in stages
Work(forms) == [o \in Ops |-> IF Loading(forms[o]) /\ At(forms[o], Running)
                              THEN forms[o].screen ELSE Nil]
Left(lives, forms) == {s \in Screens : /\ lives[s] = "alive"
                                       /\ \E o \in Ops : /\ At(forms[o], {"lost"})
                                                         /\ forms[o].screen = s}

\* Both specifications use the HUD of JGProgressHUD.
LEMMA SameHUD ==
    /\ LoaderContract!IdleHUD = IdleHUD
    /\ \A h, v : LoaderContract!ShowInView(h, v) = ShowInView(h, v)
    /\ \A h : LoaderContract!DismissAnimated(h) = DismissAnimated(h)
    /\ \A h : LoaderContract!TransitionFinished(h) = TransitionFinished(h)
    /\ \A h, v : LoaderContract!ViewReleased(h, v) = ViewReleased(h, v)
<1>1. LoaderContract!IdleHUD = IdleHUD
  BY DEF LoaderContract!IdleHUD, IdleHUD
<1>2. \A h, v : LoaderContract!ShowInView(h, v) = ShowInView(h, v)
  BY DEF LoaderContract!ShowInView, ShowInView
<1>3. \A h : LoaderContract!DismissAnimated(h) = DismissAnimated(h)
  BY DEF LoaderContract!DismissAnimated, DismissAnimated
<1>4. \A h : LoaderContract!TransitionFinished(h) = TransitionFinished(h)
  BY <1>1, <1>3 DEF LoaderContract!TransitionFinished, TransitionFinished,
                    LoaderContract!CleanUpAfterPresentation, CleanUpAfterPresentation,
                    LoaderContract!CleanUpAfterDismissal, CleanUpAfterDismissal
<1>5. \A h, v : LoaderContract!ViewReleased(h, v) = ViewReleased(h, v)
  BY DEF LoaderContract!ViewReleased, ViewReleased
<1> QED
  BY <1>1, <1>2, <1>3, <1>4, <1>5

\* The actions of Loader in terms of the mapping.
LEMMA LoaderActions ==
    /\ \A o \in Ops, v \in Views :
          /\ Work(op)[o] = Nil /\ Work(op') = [Work(op) EXCEPT ![o] = v]
          /\ hud' = ShowInView(hud, v) /\ Left(life', op') = Left(life, op)
          => LoaderContract!Next
    /\ \A o \in Ops :
          /\ Work(op)[o] # Nil /\ Work(op') = [Work(op) EXCEPT ![o] = Nil]
          /\ \/ hud' = DismissAnimated(hud) /\ Left(life', op') = Left(life, op)
             \/ hud' = hud /\ Left(life', op') = Left(life, op) \cup {Work(op)[o]}
          => LoaderContract!Next
    /\ \A v \in Views :
          /\ \A o \in Ops : Work(op)[o] # v
          /\ hud' = ViewReleased(hud, v) /\ Work(op') = Work(op)
          /\ Left(life', op') = Left(life, op) \ {v}
          => LoaderContract!Next
    /\ /\ Work(op') = Work(op) /\ Left(life', op') = Left(life, op)
       /\ \/ hud' = DismissAnimated(ShowInView(hud, Home))
          \/ hud.transition # "none" /\ hud' = TransitionFinished(hud)
       => LoaderContract!Next
    /\ /\ Work(op') = Work(op) /\ Left(life', op') = Left(life, op) /\ hud' = hud
       => UNCHANGED LoaderContract!vars
<1> USE SameHUD DEF Work, Left, HasLoader, InState, Lost, Loading, At
<1>1. ASSUME NEW o \in Ops, NEW v \in Views,
             Work(op)[o] = Nil, Work(op') = [Work(op) EXCEPT ![o] = v],
             hud' = ShowInView(hud, v), Left(life', op') = Left(life, op)
      PROVE  LoaderContract!BeginWork(o, v)
  BY <1>1 DEF LoaderContract!BeginWork
<1>2. ASSUME NEW o \in Ops, Work(op)[o] # Nil, Work(op') = [Work(op) EXCEPT ![o] = Nil],
             hud' = DismissAnimated(hud), Left(life', op') = Left(life, op)
      PROVE  LoaderContract!EndWork(o)
  BY <1>2 DEF LoaderContract!EndWork
<1>3. ASSUME NEW o \in Ops, Work(op)[o] # Nil, Work(op') = [Work(op) EXCEPT ![o] = Nil],
             hud' = hud, Left(life', op') = Left(life, op) \cup {Work(op)[o]}
      PROVE  LoaderContract!AbortWork(o)
  BY <1>3 DEF LoaderContract!AbortWork
<1>4. ASSUME NEW v \in Views, \A o \in Ops : Work(op)[o] # v,
             hud' = ViewReleased(hud, v), Work(op') = Work(op),
             Left(life', op') = Left(life, op) \ {v}
      PROVE  LoaderContract!ReleaseView(v)
  BY <1>4 DEF LoaderContract!ReleaseView
<1>5. ASSUME Work(op') = Work(op), Left(life', op') = Left(life, op),
             hud' = DismissAnimated(ShowInView(hud, Home))
      PROVE  LoaderContract!FlashLoader(Home)
  BY <1>5 DEF LoaderContract!FlashLoader, LoaderContract!ConfigureProfileImage
<1>6. ASSUME Work(op') = Work(op), Left(life', op') = Left(life, op),
             hud.transition # "none", hud' = TransitionFinished(hud)
      PROVE  LoaderContract!AnimationFinished
  BY <1>6 DEF LoaderContract!AnimationFinished
<1>7. ASSUME Work(op') = Work(op), Left(life', op') = Left(life, op), hud' = hud
      PROVE  UNCHANGED LoaderContract!vars
  BY <1>7 DEF LoaderContract!vars
<1>8. Home \in Views
  BY DEF Views
<1> HIDE DEF Work, Left, Loading, At
<1> QED
  BY ONLY <1>1, <1>2, <1>3, <1>4, <1>5, <1>6, <1>7, <1>8 DEF LoaderContract!Next

\* Steps that begin or end no work with the loader.
LEMMA LoaderSame ==
    ASSUME LivesInv,
           \A s \in Screens : life'[s] = life[s] \/ life[s] = "new",
           \A o \in Ops : \/ op'[o] = op[o]
                          \/ op'[o] # Nil /\ op'[o].kind = "google" /\ op'[o].stage # "lost"
                               /\ (op[o] = Nil \/ (op[o].kind = "google" /\ op[o].stage # "lost"))
    PROVE  Work(op') = Work(op) /\ Left(life', op') = Left(life, op)
<1>1. ASSUME NEW o \in Ops PROVE Work(op')[o] = Work(op)[o]
  BY DEF Work, Loading, At
<1>2. Work(op') = Work(op)
  BY <1>1 DEF Work, Loading, At
<1>3. ASSUME NEW s \in Screens PROVE s \in Left(life', op') <=> s \in Left(life, op)
  <2>1. \A o \in Ops : op'[o] # Nil /\ op'[o].stage = "lost" /\ op'[o].screen = s
                        <=> op[o] # Nil /\ op[o].stage = "lost" /\ op[o].screen = s
    OBVIOUS
  <2>2. CASE life'[s] = life[s]
    BY <2>1, <2>2 DEF Left, At
  <2>3. CASE life[s] = "new"
    BY <2>1, <2>3 DEF Left, At, LivesInv
  <2> QED
    BY <2>2, <2>3
<1> QED
  BY <1>2, <1>3 DEF Left, At

\* A form with a loader is submitted.
LEMMA LoaderBegins ==
    ASSUME TypeOK, life' = life, NEW o \in Ops, NEW s \in Screens,
           NEW kind \in {"login", "signUp", "reset"}, NEW stage \in Running,
           Start(o, kind, s, stage), hud' = ShowInView(hud, s)
    PROVE  LoaderContract!Next
<1>1. op \in [Ops -> Op \cup {Nil}] /\ stage \in Stages
  BY DEF TypeOK, Stages
<1>2. /\ op[o] = Nil /\ op'[o] # Nil
      /\ op'[o].kind = kind /\ op'[o].screen = s /\ op'[o].stage = stage
      /\ \A p \in Ops : p # o => op'[p] = op[p]
  BY <1>1, StartType
<1>3. Work(op)[o] = Nil /\ Work(op') = [Work(op) EXCEPT ![o] = s]
  BY <1>2 DEF Work, Loading, At
<1>4. Left(life', op') = Left(life, op)
  BY <1>2 DEF Left, At, Running
<1>5. s \in Views
  BY DEF Views
<1> QED
  BY <1>3, <1>4, <1>5, LoaderActions

\* A form with a loader ends, or is lost, on a screen that lives.
LEMMA LoaderEnds ==
    ASSUME TypeOK, KindsInv, LivesInv, life' = life, NEW o \in Ops,
           HasLoader(o), InState(o, Running), op'[o] # Nil, op'[o].screen = op[o].screen,
           \/ hud' = DismissAnimated(hud) /\ op'[o].stage = "done"
           \/ hud' = hud /\ op'[o].stage = "lost",
           \A p \in Ops : p # o =>
              \/ op'[p] = op[p]
              \/ InState(p, {"asking"}) /\ op'[p] # Nil /\ op'[p].stage = "done"
    PROVE  LoaderContract!Next
<1>1. op[o].screen \in Screens /\ op[o].screen # Nil
  BY NilAssumption DEF TypeOK, InState, Op, Views
<1>2. Work(op)[o] = op[o].screen
  BY DEF Work, Loading, At, HasLoader, InState
<1>3. Work(op')[o] = Nil /\ \A p \in Ops : p # o => Work(op')[p] = Work(op)[p]
  BY DEF Work, Loading, At, InState, Running
<1>4. Work(op') = [Work(op) EXCEPT ![o] = Nil]
  BY <1>3 DEF Work, Loading, At
<1>5. \A p \in Ops : p # o => /\ op'[p] # Nil <=> op[p] # Nil
                              /\ op'[p].stage = "lost" <=> op[p].stage = "lost"
                              /\ op'[p].stage = "lost" => op'[p] = op[p]
  BY DEF InState
<1>6. op[o] # Nil /\ op[o].stage # "lost"
  BY DEF InState, Running
<1>7. CASE op'[o].stage = "done"
  <2>1. Left(life', op') = Left(life, op)
    BY <1>5, <1>6, <1>7 DEF Left, At
  <2> QED
    BY <1>1, <1>2, <1>4, <1>7, <2>1, LoaderActions
<1>8. CASE op'[o].stage = "lost"
  <2>1. life[op[o].screen] = "alive"
    BY DEF LivesInv, InState, Active
  <2>2. Left(life', op') = Left(life, op) \cup {op[o].screen}
    BY <1>1, <1>5, <1>6, <1>8, <2>1 DEF Left, At
  <2> QED
    BY <1>1, <1>2, <1>4, <1>8, <2>2, LoaderActions
<1> QED
  BY <1>7, <1>8

\* A screen is freed: no form works on it.
LEMMA LoaderReleases ==
    ASSUME TypeOK, NEW s \in Screens, Deallocate(s)
    PROVE  LoaderContract!Next
<1>1. /\ op' = op /\ hud' = ViewReleased(hud, s) /\ life' = [life EXCEPT ![s] = "gone"]
      /\ life \in [Screens -> {"new", "alive", "gone"}]
      /\ \A o \in Ops : InState(o, Active) => op[o].screen # s
  BY DEF TypeOK, Deallocate, Active, InState
<1>2. s \in Views /\ s # Nil
  BY NilAssumption DEF Views
<1>3. \A o \in Ops : Work(op)[o] # s
  BY <1>1, <1>2 DEF Work, Loading, At, InState, Active
<1>4. Left(life', op') = Left(life, op) \ {s}
  BY <1>1 DEF Left, At
<1> QED
  BY <1>1, <1>2, <1>3, <1>4, LoaderActions

\* The closure of a form that has a loader runs.
LEMMA LoaderAnswers ==
    ASSUME TypeOK, KindsInv, LivesInv, NEW o \in Ops,
           LoggedIn(o) \/ Registered(o) \/ ResetAnswered(o)
    PROVE  LoaderContract!Next
<1>1. /\ op \in [Ops -> Op \cup {Nil}] /\ life' = life /\ hud' = DismissAnimated(hud)
      /\ HasLoader(o) /\ InState(o, Running) /\ op[o] # Nil
  BY DEF TypeOK, LoggedIn, Registered, ResetAnswered, HasLoader, InState, Running
<1>2. CASE AuthenticationComplete(o)
  <2>1. \A p \in Ops : IF p = o \/ InState(p, {"asking"})
                       THEN /\ op'[p] # Nil /\ op'[p].stage = "done"
                            /\ op'[p].kind = op[p].kind /\ op'[p].screen = op[p].screen
                       ELSE op'[p] = op[p]
    BY <1>1, <1>2, CompleteType
  <2> QED
    BY <1>1, <2>1, LoaderEnds
<1>3. CASE op' = [op EXCEPT ![o].stage = "done"]
  <2>1. /\ op'[o] # Nil /\ op'[o].stage = "done" /\ op'[o].screen = op[o].screen
        /\ \A p \in Ops : p # o => op'[p] = op[p]
    BY <1>1, <1>3, StageType DEF Stages
  <2> QED
    BY <1>1, <2>1, LoaderEnds
<1> QED
  BY <1>2, <1>3 DEF LoggedIn, Registered, ResetAnswered, Failed

\* The picture of a sign-up is stored, or it is not and the form is lost.
LEMMA LoaderStores ==
    ASSUME TypeOK, KindsInv, LivesInv, NEW o \in Ops, PictureStored(o)
    PROVE  [LoaderContract!Next]_(LoaderContract!vars)
<1>1. /\ op \in [Ops -> Op \cup {Nil}] /\ life' = life /\ hud' = hud
      /\ InState(o, {"storing"}) /\ op[o] # Nil
      /\ \E stage \in {"calling", "lost"} : op' = [op EXCEPT ![o].stage = stage]
  BY DEF TypeOK, PictureStored, InState
<1>2. /\ op'[o] # Nil /\ op'[o].kind = op[o].kind /\ op'[o].screen = op[o].screen
      /\ op'[o].stage \in {"calling", "lost"}
      /\ \A p \in Ops : p # o => op'[p] = op[p]
  <2>1. PICK stage \in {"calling", "lost"} : op' = [op EXCEPT ![o].stage = stage]
    BY <1>1
  <2>2. stage \in Stages
    BY DEF Stages, Running
  <2> QED
    BY <1>1, <2>1, <2>2, StageType
<1>3. HasLoader(o) /\ InState(o, Running)
  BY <1>1 DEF KindsInv, InState, HasLoader, Running
<1>4. CASE op'[o].stage = "lost"
  BY <1>1, <1>2, <1>3, <1>4, LoaderEnds
<1>5. CASE op'[o].stage = "calling"
  <2>1. Work(op') = Work(op)
    BY <1>1, <1>2, <1>5 DEF Work, Loading, At, InState, Running
  <2>2. Left(life', op') = Left(life, op)
    BY <1>1, <1>2, <1>5 DEF Left, At, InState
  <2> QED
    BY <1>1, <2>1, <2>2, LoaderActions
<1> QED
  BY <1>2, <1>4, <1>5

\* Google's sign-in has no loader.
LEMMA LoaderGoogle ==
    ASSUME TypeOK, KindsInv, LivesInv, NEW o \in Ops, GoogleAnswers(o) \/ GoogleSignedIn(o)
    PROVE  [LoaderContract!Next]_(LoaderContract!vars)
<1>1. /\ op \in [Ops -> Op \cup {Nil}] /\ life' = life /\ hud' = hud /\ op[o] # Nil
      /\ op[o].kind = "google" /\ op[o].stage # "lost"
  BY DEF TypeOK, GoogleAnswers, GoogleSignedIn, InState, KindsInv
<1>2. CASE AuthenticationComplete(o)
  <2>1. \A p \in Ops : IF p = o \/ InState(p, {"asking"})
                       THEN /\ op'[p] # Nil /\ op'[p].stage = "done"
                            /\ op'[p].kind = op[p].kind /\ op'[p].screen = op[p].screen
                       ELSE op'[p] = op[p]
    BY <1>1, <1>2, CompleteType
  <2>2. \A p \in Ops : InState(p, {"asking"}) => op[p].kind = "google" /\ op[p].stage # "lost"
    BY DEF KindsInv, InState
  <2>3. Work(op') = Work(op) /\ Left(life', op') = Left(life, op)
    BY <1>1, <2>1, <2>2, LoaderSame
  <2> QED
    BY <1>1, <2>3, LoaderActions
<1>3. CASE \E stage \in {"calling", "done"} : op' = [op EXCEPT ![o].stage = stage]
  <2>1. /\ op'[o] # Nil /\ op'[o].kind = op[o].kind /\ op'[o].stage # "lost"
        /\ \A p \in Ops : p # o => op'[p] = op[p]
    <3>1. PICK stage \in {"calling", "done"} : op' = [op EXCEPT ![o].stage = stage]
      BY <1>3
    <3>2. stage \in Stages
      BY DEF Stages, Running
    <3> QED
      BY <1>1, <3>1, <3>2, StageType
  <2>2. Work(op') = Work(op) /\ Left(life', op') = Left(life, op)
    BY <1>1, <2>1, LoaderSame
  <2> QED
    BY <1>1, <2>2, LoaderActions
<1> QED
  BY <1>2, <1>3 DEF GoogleAnswers, GoogleSignedIn

\* A form is submitted, or refused for the lack of a picture.
LEMMA LoaderSubmits ==
    ASSUME TypeOK, KindsInv, LivesInv, NEW o \in Ops, Submit(o)
    PROVE  [LoaderContract!Next]_(LoaderContract!vars)
<1>1. life' = life
  BY DEF Submit, HandleLogin, HandleGoogleLogin, HandleSignUp, HandleResetPassword
<1>2. ASSUME NEW l \in Logins, HandleLogin(o, l) PROVE LoaderContract!Next
  BY <1>1, <1>2, LoaderBegins DEF HandleLogin, Screens, Running
<1>3. ASSUME NEW r \in Resets, HandleResetPassword(o, r) PROVE LoaderContract!Next
  BY <1>1, <1>3, LoaderBegins DEF HandleResetPassword, Screens, Pushed, Running
<1>4. ASSUME NEW g \in Registrations, HandleSignUp(o, g), g \in picked PROVE LoaderContract!Next
  BY <1>1, <1>4, LoaderBegins DEF HandleSignUp, Screens, Pushed, Running
<1>5. ASSUME NEW g \in Registrations, HandleSignUp(o, g), g \notin picked
      PROVE  UNCHANGED LoaderContract!vars
  <2>1. op' = op /\ hud' = hud
    BY <1>5 DEF HandleSignUp
  <2>2. Work(op') = Work(op) /\ Left(life', op') = Left(life, op)
    BY <1>1, <2>1
  <2> QED
    BY <2>1, <2>2, LoaderActions
<1>6. ASSUME NEW l \in Logins, HandleGoogleLogin(o, l) PROVE UNCHANGED LoaderContract!vars
  <2>1. hud' = hud /\ Start(o, "google", l, "asking") /\ op \in [Ops -> Op \cup {Nil}]
        /\ l \in Screens /\ "asking" \in Stages
    BY <1>6 DEF HandleGoogleLogin, TypeOK, Screens, Stages
  <2>2. /\ op[o] = Nil /\ op'[o] # Nil /\ op'[o].kind = "google" /\ op'[o].stage = "asking"
        /\ \A p \in Ops : p # o => op'[p] = op[p]
    BY <2>1, StartType
  <2>3. Work(op') = Work(op) /\ Left(life', op') = Left(life, op)
    BY <1>1, <2>2, LoaderSame
  <2> QED
    BY <2>1, <2>3, LoaderActions
<1> QED
  BY <1>2, <1>3, <1>4, <1>5, <1>6 DEF Submit

LEMMA LoaderStep ==
    ASSUME TypeOK, KindsInv, LivesInv, [Next]_vars
    PROVE  [LoaderContract!Next]_(LoaderContract!vars)
<1>1. ASSUME op' = op, \A s \in Screens : life'[s] = life[s] \/ life[s] = "new"
      PROVE  Work(op') = Work(op) /\ Left(life', op') = Left(life, op)
  BY <1>1, LoaderSame
<1>2. CASE Navigate \/ (\E s \in Screens : TextDidChange(s)) \/ UNCHANGED vars
  <2>1. op' = op /\ hud' = hud
    BY <1>2 DEF Navigate, PresentLogin, ShowForgotPassword, ShowRegistrationViewController,
       ShowLoginViewController, HandleDismissal, SwipeBack, HandleAddProfilePhoto, PickerCloses,
       AlertOk, TextDidChange, vars
  <2>2. life' = life \/ \E s \in Screens : life[s] = "new" /\ life' = [life EXCEPT ![s] = "alive"]
    BY <1>2 DEF Navigate, PresentLogin, ShowForgotPassword, ShowRegistrationViewController,
       ShowLoginViewController, HandleDismissal, SwipeBack, HandleAddProfilePhoto, PickerCloses,
       AlertOk, TextDidChange, vars, Screens, Pushed
  <2>3. \A s \in Screens : life'[s] = life[s] \/ life[s] = "new"
    BY <2>2 DEF TypeOK
  <2> QED
    BY <1>1, <2>1, <2>3, LoaderActions
<1>3. CASE HomeFetched \/ AnimationFinished
  <2>1. op' = op /\ life' = life
    BY <1>3 DEF HomeFetched, AnimationFinished
  <2>2. \/ hud' = hud \/ hud' = DismissAnimated(ShowInView(hud, Home))
        \/ hud.transition # "none" /\ hud' = TransitionFinished(hud)
    BY <1>3 DEF HomeFetched, AnimationFinished
  <2> QED
    BY <1>1, <2>1, <2>2, LoaderActions
<1> QED
  BY <1>2, <1>3, LoaderReleases, LoaderSubmits, LoaderAnswers, LoaderStores, LoaderGoogle
     DEF Next, Answer

\* Log-ins, sign-ups and resets that overlap, on screens open or left, and
\* Home use the shared HUD as the contract of Loader says, for every user: a
\* form works on one screen, which lives until its closure has hidden the
\* loader or has returned without it (Extensions.swift showLoader).
THEOREM LoaderRefined == Spec => ImplementsLoader
<1>1. Init => LoaderContract!Init
  <2> SUFFICES ASSUME Init PROVE LoaderContract!Init
    OBVIOUS
  <2>1. hud = IdleHUD /\ \A o \in Ops : op[o] = Nil
    BY DEF Init
  <2> QED
    BY <2>1, SameHUD DEF LoaderContract!Init, HasLoader, InState, Lost
<1>2. TypeOK /\ KindsInv /\ LivesInv /\ [Next]_vars => [LoaderContract!Next]_(LoaderContract!vars)
  BY LoaderStep
<1> QED
  BY <1>1, <1>2, TypeCorrect, LivesInit, KindsNext, LivesNext, PTL
     DEF Spec, ImplementsLoader, LoaderContract!Spec

-----------------------------------------------------------------------------
(* A user who is not hasty.                                                 *)

\* What the methods of the HUD do to a loader that stays.
LEMMA SteadyHUD ==
    ASSUME NEW h \in HUD, h.dismissAfter => h.transition # "none", NEW v \in Views
    PROVE  /\ DismissAnimated(h).dismissAfter => DismissAnimated(h).transition # "none"
           /\ ~Steady(DismissAnimated(h))
           /\ ShowInView(h, v).dismissAfter => ShowInView(h, v).transition # "none"
           /\ h.transition = "none" /\ h.target = Nil =>
                 ShowInView(h, v).target = v /\ Steady(ShowInView(h, v))
           /\ TransitionFinished(h).dismissAfter => TransitionFinished(h).transition # "none"
           /\ h.transition # "none" /\ Steady(h) =>
                 TransitionFinished(h).target = h.target /\ Steady(TransitionFinished(h))
           /\ ~Steady(h) => ~Steady(TransitionFinished(h)) /\ ~Steady(ViewReleased(h, v))
           /\ ViewReleased(h, v).dismissAfter => ViewReleased(h, v).transition # "none"
           /\ h.target # v => ViewReleased(h, v) = h
<1>1. /\ DismissAnimated(h).dismissAfter => DismissAnimated(h).transition # "none"
      /\ ~Steady(DismissAnimated(h))
  BY DEF DismissAnimated, Steady, HUD
<1>2. /\ ShowInView(h, v).dismissAfter => ShowInView(h, v).transition # "none"
      /\ h.transition = "none" /\ h.target = Nil =>
            ShowInView(h, v).target = v /\ Steady(ShowInView(h, v))
  BY NilAssumption DEF ShowInView, Steady, HUD
<1>3. CASE h.transition # "showing"
  <2>1. TransitionFinished(h) = IdleHUD
    BY <1>3 DEF TransitionFinished, CleanUpAfterDismissal
  <2> QED
    BY <1>1, <1>2, <1>3, <2>1 DEF IdleHUD, ViewReleased, Steady, HUD
<1>4. CASE h.transition = "showing"
  <2> DEFINE shown == [h EXCEPT !.transition = "none"]
  <2>1. /\ shown \in HUD /\ shown.transition = "none" /\ shown.target = h.target
        /\ shown.dismissAfter = h.dismissAfter
    BY DEF HUD
  <2>2. TransitionFinished(h) = IF h.dismissAfter
                                THEN [DismissAnimated(shown) EXCEPT !.dismissAfter = FALSE]
                                ELSE shown
    BY <1>4 DEF TransitionFinished, CleanUpAfterPresentation
  <2> HIDE DEF shown
  <2>3. CASE h.dismissAfter
    <3>1. DismissAnimated(shown) \in HUD
      BY <2>1, HUDOperators
    <3>2. /\ DismissAnimated(shown).target = Nil \/ DismissAnimated(shown).transition = "hiding"
      BY <2>1 DEF DismissAnimated, HUD
    <3>3. /\ ~Steady(TransitionFinished(h)) /\ ~TransitionFinished(h).dismissAfter
      BY <2>2, <2>3, <3>1, <3>2 DEF Steady, HUD
    <3> QED
      BY <1>1, <1>2, <2>3, <3>3 DEF Steady, ViewReleased, HUD
  <2>4. CASE ~h.dismissAfter
    BY <1>1, <1>2, <1>4, <2>1, <2>2, <2>4 DEF Steady, ViewReleased, HUD
  <2> QED
    BY <2>3, <2>4
<1> QED
  BY <1>3, <1>4 DEF HUD

\* A screen that can be touched has no loader, and only Google's sign-in may
\* be under way; a form that can be submitted is the only one, and the HUD is
\* free for it.
LEMMA Touched ==
    ASSUME TypeOK, PatientInv, NEW s, CanTouch(s)
    PROVE  /\ ~Steady(hud) /\ nav # <<>> /\ fetches = 0
           /\ \A o \in Ops : /\ ~InState(o, {"asking"})
                             /\ ~(HasLoader(o) /\ InState(o, Running))
           /\ Unhurried => /\ hud.target = Nil /\ hud.transition = "none"
                           /\ \A o \in Ops : ~InState(o, Active)
<1>1. nav # <<>> /\ over = "none" /\ nav[Len(nav)] = s /\ ~BlocksTouches(hud, s)
  BY DEF CanTouch, OnTop
<1>2. ~Steady(hud)
  BY <1>1 DEF PatientInv, OnTop, Steady, BlocksTouches
<1>3. \A o \in Ops : ~InState(o, {"asking"}) /\ ~(HasLoader(o) /\ InState(o, Running))
  BY <1>1, <1>2 DEF PatientInv, Covered
<1>4. ASSUME Unhurried, NEW o \in Ops PROVE ~InState(o, Active)
  BY <1>3, <1>4 DEF Unhurried, HasLoader, InState, Active
<1>5. Unhurried => hud.target = Nil /\ hud.transition = "none"
  <2>1. Unhurried => hud.transition = "none" /\ ~hud.dismissAfter
    BY DEF Unhurried, PatientInv
  <2> QED
    BY <1>2, <2>1 DEF Steady
<1> QED
  BY <1>1, <1>2, <1>3, <1>4, <1>5 DEF PatientInv

\* Steps after which no form has the loader and the HUD does not stay.
LEMMA PatientFree ==
    ASSUME ~Steady(hud'), hud'.dismissAfter => hud'.transition # "none",
           nav' # <<>> => fetches' = 0,
           \A o \in Ops : /\ ~(HasLoader(o)' /\ InState(o, Running)')
                          /\ InState(o, {"asking"})' => over' = "google",
           \A o, p \in Ops : InState(o, Active)' /\ InState(p, Active)' => o = p
    PROVE  PatientInv'
  BY DEF PatientInv

\* The user moves on a stack that the loader does not cover.
LEMMA PatientMoves ==
    ASSUME TypeOK, PatientInv, UNCHANGED <<op, hud, fetches>>, ~Steady(hud),
           nav' # <<>> => fetches = 0,
           over' = over \/ over # "google"
    PROVE  PatientInv'
<1>1. \A o \in Ops : ~(HasLoader(o) /\ InState(o, Running))
  BY DEF PatientInv, Covered
<1>2. /\ \A o \in Ops : InState(o, {"asking"}) => over = "google"
      /\ \A o, p \in Ops : InState(o, Active) /\ InState(p, Active) => o = p
      /\ hud.dismissAfter => hud.transition # "none"
  BY DEF PatientInv
<1>3. \A o \in Ops : /\ HasLoader(o)' = HasLoader(o)
                     /\ \A stages : InState(o, stages)' = InState(o, stages)
  BY DEF HasLoader, InState
<1> QED
  BY <1>1, <1>2, <1>3, PatientFree

LEMMA PatientNavigates ==
    ASSUME TypeOK, PatientInv, ~Hasty, Navigate \/ \E s \in Screens : TextDidChange(s)
    PROVE  PatientInv'
<1>1. ASSUME NEW l \in Logins, PresentLogin(l) PROVE PatientInv'
  <2>1. nav = <<>> /\ fetches = 0 /\ UNCHANGED <<op, hud, fetches, over>>
    BY <1>1 DEF PresentLogin
  <2>2. ~Steady(hud)
    BY <2>1 DEF PatientInv, OnTop
  <2> QED
    BY <2>1, <2>2, PatientMoves
<1>2. ASSUME NEW s, CanTouch(s), UNCHANGED <<op, hud, fetches>> PROVE PatientInv'
  BY <1>2, Touched, PatientMoves DEF CanTouch
<1>3. CASE AlertOk \/ \E g \in Registrations : PickerCloses(g)
  <2>1. over \in {"alert", "picker"} /\ UNCHANGED <<op, hud, fetches, nav>>
    BY <1>3 DEF AlertOk, PickerCloses
  <2>2. ~Steady(hud) /\ (nav' # <<>> => fetches = 0)
    BY <2>1 DEF PatientInv
  <2> QED
    BY <2>1, <2>2, PatientMoves
<1> QED
  BY <1>1, <1>2, <1>3 DEF Navigate, ShowForgotPassword, ShowRegistrationViewController,
     ShowLoginViewController, HandleDismissal, SwipeBack, HandleAddProfilePhoto, TextDidChange

\* A form is submitted: it is the only one, and it gets the loader.
LEMMA PatientSubmits ==
    ASSUME TypeOK, PatientInv, ~Hasty, NEW o \in Ops, Submit(o)
    PROVE  PatientInv'
<1>1. op \in [Ops -> Op \cup {Nil}] /\ hud \in HUD
  BY DEF TypeOK
<1>2. ASSUME NEW s \in Screens, CanSubmit(s), NEW kind \in {"login", "signUp", "reset"},
             NEW stage \in Running, Start(o, kind, s, stage), hud' = ShowInView(hud, s),
             UNCHANGED <<nav, over, fetches>>
      PROVE  PatientInv'
  <2>1. CanTouch(s) /\ Unhurried
    BY <1>2 DEF CanSubmit
  <2>2. /\ OnTop(s) /\ over = "none" /\ fetches = 0 /\ hud.target = Nil
        /\ hud.transition = "none" /\ \A p \in Ops : ~InState(p, Active)
    BY <2>1, Touched DEF CanTouch
  <2>3. stage \in Stages
    BY DEF Stages
  <2>4. /\ op'[o] # Nil /\ op'[o].kind = kind /\ op'[o].screen = s /\ op'[o].stage = stage
        /\ \A p \in Ops : p # o => op'[p] = op[p]
    BY <1>1, <1>2, <2>3, StartType
  <2>5. \A p \in Ops : InState(p, Active)' => p = o
    BY <2>2, <2>4 DEF InState
  <2>6. \A p \in Ops : InState(p, Running)' \/ InState(p, {"asking"})' => InState(p, Active)'
    BY DEF InState, Active
  <2>7. ~InState(o, {"asking"})' /\ HasLoader(o)'
    BY <2>4 DEF InState, Running, HasLoader
  <2>8. s \in Views /\ (hud.dismissAfter => hud.transition # "none")
    BY DEF Views, PatientInv
  <2>9. /\ hud'.target = s /\ Steady(hud')
        /\ hud'.dismissAfter => hud'.transition # "none"
    BY <1>1, <1>2, <2>2, <2>8, SteadyHUD
  <2>10. OnTop(s)' /\ over' = "none" /\ fetches' = 0 /\ nav' = nav
    BY <1>2, <2>2 DEF OnTop
  <2>11. \A p \in Ops : HasLoader(p)' /\ InState(p, Running)' => Covered(p)'
    BY <2>4, <2>5, <2>6, <2>9, <2>10 DEF Covered, OnTop
  <2>12. /\ \A p, q \in Ops : InState(p, Active)' /\ InState(q, Active)' => p = q
         /\ \A p \in Ops : InState(p, {"asking"})' => over' = "google"
         /\ \A p \in Ops : InState(p, Active)' => HasLoader(p)'
    BY <2>5, <2>6, <2>7
  <2>13. OnTop(hud.target)'
    BY <2>9, <2>10 DEF OnTop
  <2> QED
    BY <2>9, <2>10, <2>11, <2>12, <2>13 DEF PatientInv
<1>3. ASSUME NEW l \in Logins, HandleLogin(o, l) PROVE PatientInv'
  BY <1>2, <1>3 DEF HandleLogin, Screens, Running
<1>4. ASSUME NEW l \in Logins, HandleGoogleLogin(o, l) PROVE PatientInv'
  <2>1. /\ CanTouch(l) /\ Unhurried /\ Start(o, "google", l, "asking") /\ over' = "google"
        /\ UNCHANGED <<nav, fetches, hud>> /\ l \in Screens /\ "asking" \in Stages
    BY <1>4 DEF HandleGoogleLogin, Screens, Stages
  <2>2. ~Steady(hud) /\ fetches = 0 /\ \A p \in Ops : ~InState(p, Active)
    BY <2>1, Touched
  <2>3. /\ op'[o] # Nil /\ op'[o].kind = "google" /\ op'[o].stage = "asking"
        /\ \A p \in Ops : p # o => op'[p] = op[p]
    BY <1>1, <2>1, StartType
  <2>4. /\ \A p \in Ops : InState(p, Active)' => p = o
        /\ \A p \in Ops : InState(p, Running)' => InState(p, Active)'
        /\ ~HasLoader(o)'
    BY <2>2, <2>3 DEF InState, Active, HasLoader
  <2>5. ~Steady(hud') /\ (hud'.dismissAfter => hud'.transition # "none")
    BY <2>1, <2>2 DEF PatientInv
  <2> QED
    BY <2>1, <2>2, <2>4, <2>5, PatientFree
<1>5. ASSUME NEW g \in Registrations, HandleSignUp(o, g) PROVE PatientInv'
  <2>1. CASE g \in picked
    BY <1>2, <1>5, <2>1 DEF HandleSignUp, Screens, Pushed, Running
  <2>2. CASE g \notin picked
    <3>1. CanTouch(g) /\ UNCHANGED <<op, hud, fetches, nav>>
      BY <1>5, <2>2 DEF HandleSignUp, CanSubmit
    <3>2. ~Steady(hud) /\ fetches = 0 /\ over = "none"
      BY <3>1, Touched DEF CanTouch
    <3> QED
      BY <3>1, <3>2, PatientMoves
  <2> QED
    BY <2>1, <2>2
<1>6. ASSUME NEW r \in Resets, HandleResetPassword(o, r) PROVE PatientInv'
  BY <1>2, <1>6 DEF HandleResetPassword, Screens, Pushed, Running
<1> QED
  BY <1>3, <1>4, <1>5, <1>6 DEF Submit

\* The closure of Google's sign-in runs: it is the only form, without a loader.
LEMMA PatientGoogle ==
    ASSUME TypeOK, KindsInv, PatientInv, NEW o \in Ops, GoogleAnswers(o) \/ GoogleSignedIn(o)
    PROVE  PatientInv'
<1>1. /\ InState(o, Active) /\ op[o].kind = "google" /\ ~HasLoader(o) /\ hud' = hud
  BY DEF GoogleAnswers, GoogleSignedIn, KindsInv, InState, Active, Running, HasLoader
<1>2. ~Steady(hud) /\ \A p \in Ops : InState(p, Active) => p = o
  BY <1>1 DEF PatientInv
<1>3. \A p \in Ops : op'[p] = op[p] \/ Advanced(p)
  BY AnswerStep DEF Answer
<1>4. \A p \in Ops : InState(p, Active)' => p = o
  BY <1>2, <1>3 DEF Advanced, InState
<1>5. ~HasLoader(o)' /\ ~InState(o, {"asking"})'
  <2>1. op \in [Ops -> Op \cup {Nil}] /\ op[o] # Nil
    BY <1>1 DEF TypeOK, InState
  <2>2. CASE AuthenticationComplete(o)
    BY <1>1, <2>1, <2>2, CompleteType DEF HasLoader, InState
  <2>3. ASSUME NEW stage \in {"calling", "done"}, op' = [op EXCEPT ![o].stage = stage]
        PROVE  op'[o].kind = "google" /\ op'[o].stage = stage
    <3>1. stage \in Stages
      BY DEF Stages, Running
    <3> QED
      BY <1>1, <2>1, <2>3, <3>1, StageType
  <2>4. \/ AuthenticationComplete(o)
        \/ \E stage \in {"calling", "done"} : op' = [op EXCEPT ![o].stage = stage]
    BY DEF GoogleAnswers, GoogleSignedIn
  <2> QED
    BY <2>2, <2>3, <2>4 DEF HasLoader, InState
<1>6. \A p \in Ops : InState(p, Running)' \/ InState(p, {"asking"})' => InState(p, Active)'
  BY DEF InState, Active
<1>7. nav' # <<>> => fetches' = 0
  BY DEF GoogleAnswers, GoogleSignedIn, AuthenticationComplete, PatientInv
<1>8. hud'.dismissAfter => hud'.transition # "none"
  BY <1>1 DEF PatientInv
<1> QED
  BY <1>1, <1>2, <1>4, <1>5, <1>6, <1>7, <1>8, PatientFree

\* The picture is stored, or not: the loader stays either way.
LEMMA PatientStores ==
    ASSUME TypeOK, KindsInv, PatientInv, NEW o \in Ops, PictureStored(o)
    PROVE  PatientInv'
<1>1. /\ InState(o, Active) /\ InState(o, Running) /\ HasLoader(o)
      /\ UNCHANGED <<nav, over, fetches, hud>>
  BY DEF PictureStored, KindsInv, InState, Active, Running, HasLoader
<1>2. Covered(o) /\ \A p \in Ops : InState(p, Active) => p = o
  BY <1>1 DEF PatientInv
<1>3. \A p \in Ops : op'[p] = op[p] \/ Advanced(p)
  BY AnswerStep DEF Answer
<1>4. \A p \in Ops : InState(p, Active)' => p = o
  BY <1>2, <1>3 DEF Advanced, InState
<1>5. HasLoader(o)' /\ op'[o].screen = op[o].screen /\ ~InState(o, {"asking"})'
  BY <1>1, <1>3 DEF HasLoader, Advanced, InState, Running
<1>6. Covered(o)'
  BY <1>1, <1>2, <1>5 DEF Covered, OnTop
<1>7. \A p \in Ops : InState(p, Running)' \/ InState(p, {"asking"})' => InState(p, Active)'
  BY DEF InState, Active
<1>8. /\ nav' # <<>> => fetches' = 0
      /\ hud'.dismissAfter => hud'.transition # "none"
  BY <1>1 DEF PatientInv
<1>9. OnTop(hud.target)' /\ over' = "none"
  BY <1>6 DEF Covered, OnTop
<1> QED
  BY <1>4, <1>5, <1>6, <1>7, <1>8, <1>9 DEF PatientInv

\* The closure of the form that has the loader runs and hides it.
LEMMA PatientAnswers ==
    ASSUME TypeOK, PatientInv, NEW o \in Ops, LoggedIn(o) \/ Registered(o) \/ ResetAnswered(o)
    PROVE  PatientInv'
<1>1. /\ InState(o, Active) /\ hud' = DismissAnimated(hud)
      /\ op \in [Ops -> Op \cup {Nil}] /\ op[o] # Nil
  BY DEF LoggedIn, Registered, ResetAnswered, InState, Active, Running, TypeOK
<1>2. \A p \in Ops : InState(p, Active) => p = o
  BY <1>1 DEF PatientInv
<1>3. \A p \in Ops : op'[p] = op[p] \/ Advanced(p)
  BY AnswerStep DEF Answer
<1>4. \A p \in Ops : InState(p, Active)' => p = o
  BY <1>2, <1>3 DEF Advanced, InState
<1>5. op'[o].stage = "done"
  <2>1. CASE AuthenticationComplete(o)
    BY <1>1, <2>1, CompleteType
  <2>2. CASE op' = [op EXCEPT ![o].stage = "done"]
    BY <1>1, <2>2, StageType DEF Stages
  <2> QED
    BY <2>1, <2>2 DEF LoggedIn, Registered, ResetAnswered, Failed
<1>6. \A p \in Ops : /\ ~InState(p, Active)'
                     /\ InState(p, Running)' \/ InState(p, {"asking"})' => InState(p, Active)'
  BY <1>4, <1>5 DEF InState, Active, Running
<1>7. nav' # <<>> => fetches' = 0
  BY DEF LoggedIn, Registered, ResetAnswered, AuthenticationComplete, Failed,
         DidSendResetPasswordLink, PatientInv
<1>8. ~Steady(hud') /\ (hud'.dismissAfter => hud'.transition # "none")
  <2>1. hud \in HUD /\ Home \in Views /\ (hud.dismissAfter => hud.transition # "none")
    BY DEF TypeOK, Views, PatientInv
  <2> QED
    BY <1>1, <2>1, SteadyHUD
<1> QED
  BY <1>6, <1>7, <1>8, PatientFree

\* Only the HUD changes.
LEMMA PatientHUD ==
    ASSUME TypeOK, PatientInv, UNCHANGED <<nav, over, op>>, nav # <<>> => fetches' = fetches,
           hud'.dismissAfter => hud'.transition # "none",
           Steady(hud) => hud'.target = hud.target /\ Steady(hud'),
           ~Steady(hud) => ~Steady(hud')
    PROVE  PatientInv'
<1>1. \A o \in Ops : /\ HasLoader(o)' = HasLoader(o)
                     /\ \A stages : InState(o, stages)' = InState(o, stages)
  BY DEF HasLoader, InState
<1>2. \A o \in Ops : Covered(o) => Covered(o)'
  BY DEF Covered, OnTop
<1>3. Steady(hud) /\ OnTop(hud.target) => OnTop(hud.target)'
  BY DEF OnTop
<1> QED
  BY <1>1, <1>2, <1>3 DEF PatientInv

LEMMA PatientNext ==
    ASSUME TypeOK, KindsInv, PatientInv, ~Hasty, [Next]_vars
    PROVE  PatientInv'
<1>1. hud \in HUD /\ Home \in Views /\ (hud.dismissAfter => hud.transition # "none")
  BY DEF TypeOK, Views, PatientInv
<1>2. CASE HomeFetched
  <2>1. /\ UNCHANGED <<nav, over, op>> /\ fetches > 0
        /\ hud' \in {hud, DismissAnimated(ShowInView(hud, Home))}
    BY <1>2 DEF HomeFetched
  <2>2. nav = <<>>
    BY <2>1 DEF PatientInv
  <2>3. ~Steady(hud)
    BY <2>2 DEF PatientInv, OnTop
  <2>4. /\ ShowInView(hud, Home) \in HUD
        /\ ShowInView(hud, Home).dismissAfter => ShowInView(hud, Home).transition # "none"
    BY <1>1, HUDOperators, SteadyHUD
  <2>5. ~Steady(hud') /\ (hud'.dismissAfter => hud'.transition # "none")
    BY <1>1, <2>1, <2>3, <2>4, SteadyHUD
  <2> QED
    BY <2>1, <2>2, <2>3, <2>5, PatientHUD
<1>3. CASE AnimationFinished
  <2>1. /\ UNCHANGED <<nav, over, op, fetches>> /\ hud.transition # "none"
        /\ hud' = TransitionFinished(hud)
    BY <1>3 DEF AnimationFinished
  <2>2. /\ hud'.dismissAfter => hud'.transition # "none"
        /\ Steady(hud) => hud'.target = hud.target /\ Steady(hud')
        /\ ~Steady(hud) => ~Steady(hud')
    BY <1>1, <2>1, SteadyHUD
  <2> QED
    BY <2>1, <2>2, PatientHUD
<1>4. ASSUME NEW s \in Screens, Deallocate(s) PROVE PatientInv'
  <2>1. /\ UNCHANGED <<nav, over, op, fetches>> /\ hud' = ViewReleased(hud, s)
        /\ \A i \in DOMAIN nav : nav[i] # s
    BY <1>4 DEF Deallocate
  <2>2. Steady(hud) => hud.target # s
    BY <2>1, Stack DEF PatientInv, OnTop
  <2>3. s \in Views
    BY DEF Views
  <2>4. /\ hud'.dismissAfter => hud'.transition # "none"
        /\ Steady(hud) => hud' = hud
        /\ ~Steady(hud) => ~Steady(hud')
    BY <1>1, <2>1, <2>2, <2>3, SteadyHUD
  <2> QED
    BY <2>1, <2>4, PatientHUD
<1>5. CASE UNCHANGED vars
  BY <1>1, <1>5, PatientHUD DEF vars
<1> QED
  BY <1>2, <1>3, <1>4, <1>5, PatientNavigates, PatientSubmits, PatientGoogle, PatientStores,
     PatientAnswers DEF Next, Answer

LEMMA PatientInit == Init => PatientInv
<1> SUFFICES ASSUME Init PROVE PatientInv
  OBVIOUS
<1>1. nav = <<>> /\ hud = IdleHUD /\ \A o \in Ops : op[o] = Nil
  BY DEF Init
<1>2. ~Steady(hud) /\ ~hud.dismissAfter
  BY <1>1 DEF IdleHUD, Steady
<1> QED
  BY <1>1, <1>2 DEF PatientInv, InState

\* The invariants together, for a user who is not hasty.
LEMMA PatientInvariant ==
    ~Hasty => (Spec => [](TypeOK /\ KindsInv /\ DelegateInv /\ PatientInv))
<1> SUFFICES ASSUME ~Hasty PROVE Spec => [](TypeOK /\ KindsInv /\ DelegateInv /\ PatientInv)
  OBVIOUS
<1>1. TypeOK /\ KindsInv /\ PatientInv /\ [Next]_vars => PatientInv'
  BY PatientNext
<1>2. Init => KindsInv /\ DelegateInv
  BY LivesInit
<1> QED
  BY <1>1, <1>2, PatientInit, TypeCorrect, KindsNext, DelegateNext, PTL DEF Spec

\* The answer to a password reset closes the screen it was asked on and no
\* other one, for a user who is not hasty: popViewController pops what is on
\* top (LoginViewController.swift:210), and the loader keeps it there.
THEOREM ResetPopsCorrect == ~Hasty => (Spec => ResetPopsItself)
<1> SUFFICES ASSUME ~Hasty PROVE Spec => ResetPopsItself
  OBVIOUS
<1>1. ASSUME PatientInv, NEW o \in Ops, Ends(o), op[o].kind = "reset" PROVE OnTop(op[o].screen)
  BY <1>1 DEF Ends, PatientInv, HasLoader, InState, Covered
<1>2. PatientInv =>
         (\A o \in Ops : (Ends(o) /\ op[o].kind = "reset" /\ Len(nav) = 2 /\ Len(nav') = 1)
                            => OnTop(op[o].screen))
  BY <1>1
<1>3. Spec => []PatientInv
  BY PatientInvariant, PTL
<1> QED
  BY <1>2, <1>3, PTL DEF ResetPopsItself, Spec

\* The closure that ends a form with a loader reports it.
LEMMA Reported ==
    ASSUME TypeOK, KindsInv, DelegateInv, PatientInv, [Next]_vars,
           NEW o \in Ops, HasLoader(o), Ends(o)
    PROVE  over' = "alert" \/ nav' = <<>>
<1>1. /\ InState(o, Running) /\ InState(o, Active) /\ Covered(o)
      /\ \A p \in Ops : InState(p, Active) => p = o
      /\ op[o].kind # "google" /\ op'[o] # op[o] /\ ~Submitted(o) /\ op'[o].stage = "done"
  BY DEF Ends, PatientInv, InState, Running, Active, HasLoader, Submitted
<1>2. nav # <<>> /\ nav[Len(nav)] = op[o].screen /\ over = "none"
  BY <1>1 DEF Covered, OnTop
<1>3. CASE Failed(o)
  BY <1>2, <1>3 DEF Failed, ShowMessage
<1>4. CASE AuthenticationComplete(o)
  BY <1>4 DEF AuthenticationComplete
<1>5. CASE ResetAnswered(o) /\ ~Failed(o)
  <2>1. op[o].screen \in Resets /\ nav[1] = delegate[op[o].screen]
    BY <1>1, <1>5 DEF ResetAnswered, KindsInv, DelegateInv, Covered, InState
  <2>2. ShowMessage(nav[1], Popped)
    BY <1>2, <1>5, <2>1 DEF ResetAnswered, DidSendResetPasswordLink
  <2>3. Popped = <<nav[1]>>
    BY <1>2, Stack
  <2>4. Popped # <<>> /\ Popped[Len(Popped)] = nav[1]
    BY <2>3
  <2> QED
    BY <1>2, <2>2, <2>4 DEF ShowMessage
<1>6. ASSUME NEW p \in Ops, GoogleAnswers(p) \/ GoogleSignedIn(p) PROVE FALSE
  <2>1. InState(p, Active) /\ op[p].kind = "google"
    BY <1>6 DEF GoogleAnswers, GoogleSignedIn, KindsInv, InState, Active, Running
  <2> QED
    BY <1>1, <2>1
<1>7. ASSUME NEW p \in Ops, PictureStored(p) PROVE FALSE
  <2>1. op \in [Ops -> Op \cup {Nil}] /\ op[p] # Nil /\ InState(p, Active)
    BY <1>7 DEF TypeOK, PictureStored, InState, Active, Running
  <2>2. PICK stage \in {"calling", "lost"} : op' = [op EXCEPT ![p].stage = stage]
    BY <1>7 DEF PictureStored
  <2>3. stage \in Stages
    BY DEF Stages, Running
  <2>4. op'[p].stage = stage
    BY <2>1, <2>2, <2>3, StageType
  <2> QED
    BY <1>1, <2>1, <2>4
<1>8. ASSUME NEW p \in Ops, LoggedIn(p) \/ Registered(p) \/ ResetAnswered(p)
      PROVE  over' = "alert" \/ nav' = <<>>
  <2>1. p = o
    BY <1>1, <1>8 DEF LoggedIn, Registered, ResetAnswered, InState, Active, Running
  <2> QED
    BY <1>3, <1>4, <1>5, <1>8, <2>1 DEF LoggedIn, Registered
<1>9. ASSUME NEW p \in Ops, Submit(p) PROVE FALSE
  BY <1>1, <1>9, SubmitStep
<1>10. op' # op
  BY <1>1
<1>11. ~Navigate /\ ~HomeFetched /\ ~AnimationFinished /\ ~UNCHANGED vars
         /\ \A s \in Screens : ~TextDidChange(s) /\ ~Deallocate(s)
  BY <1>10 DEF Navigate, PresentLogin, ShowForgotPassword, ShowRegistrationViewController,
     ShowLoginViewController, HandleDismissal, SwipeBack, HandleAddProfilePhoto, PickerCloses,
     AlertOk, TextDidChange, Deallocate, HomeFetched, AnimationFinished, vars
<1> QED
  BY <1>6, <1>7, <1>8, <1>9, <1>11 DEF Next, Answer

\* Every log-in, sign-up and reset that calls back is reported to a user who
\* is not hasty: the alert finds its screen on top with nothing over it, or
\* the login screens go away (UIKit drops an alert otherwise).
THEOREM EndReportedCorrect == ~Hasty => (Spec => EndIsReported)
<1> SUFFICES ASSUME ~Hasty PROVE Spec => EndIsReported
  OBVIOUS
<1>1. TypeOK /\ KindsInv /\ DelegateInv /\ PatientInv /\ [Next]_vars =>
         (\A o \in Ops : (HasLoader(o) /\ Ends(o)) => (over' = "alert" \/ nav' = <<>>))
  BY Reported
<1>2. Spec => [](TypeOK /\ KindsInv /\ DelegateInv /\ PatientInv)
  BY PatientInvariant
<1> QED
  BY <1>1, <1>2, PTL DEF EndIsReported, Spec
=============================================================================
