------------------------------- MODULE Loader -------------------------------
(***************************************************************************)
(* What UIViewController.showLoader(_:) promises to the screens that use   *)
(* it.  An asynchronous operation (a sign-in, an upload, a password reset) *)
(* calls showLoader(true) on its screen before it starts and               *)
(* showLoader(false) in its completion handler.  All operations share one  *)
(* HUD, which ignores some of these calls, so the loader a user sees need  *)
(* not be the one of the operation that ended.  Three things complicate    *)
(* the picture further: a completion chain that returns without calling    *)
(* back never hides the loader; HomeViewController shows and hides it in   *)
(* the same step; and views are deallocated while the HUD covers them.     *)
(*                                                                         *)
(* The specifications EditProfile and AuthScreens implement this one.      *)
(***************************************************************************)
EXTENDS JGProgressHUD

CONSTANTS Ops    \* the asynchronous operations

VARIABLES hud,     \* the static UIViewController.hud
          work,    \* work[o]: the view that operation o showed the loader on
          leaked   \* views left by an operation that never called back

vars == <<hud, work, leaked>>

TypeOK == /\ hud \in HUD
          /\ work \in [Ops -> Views \cup {NoView}]
          /\ leaked \subseteq Views

Init == /\ hud = IdleHUD
        /\ work = [o \in Ops |-> NoView]
        /\ leaked = {}

\* self.showLoader(true), then the call that will complete asynchronously.
BeginWork(o, v) ==
    /\ work[o] = NoView
    /\ work' = [work EXCEPT ![o] = v]
    /\ hud' = ShowInView(hud, v)
    /\ UNCHANGED leaked

\* The completion handler runs and calls self.showLoader(false).
EndWork(o) ==
    /\ work[o] # NoView
    /\ work' = [work EXCEPT ![o] = NoView]
    /\ hud' = DismissAnimated(hud)
    /\ UNCHANGED leaked

\* MUTANT of AbortWork: a chain that has ended can end once more.
AbortWorkAgain(o) ==
    /\ work' = [work EXCEPT ![o] = NoView]
    /\ leaked' = leaked \cup {work[o]}
    /\ UNCHANGED hud

\* A "guard ... else { return }" ends the completion chain in silence.
AbortWork(o) ==
    /\ work[o] # NoView
    /\ work' = [work EXCEPT ![o] = NoView]
    /\ leaked' = leaked \cup {work[o]}
    /\ UNCHANGED hud

\* configureProfileImage: showLoader(true) and showLoader(false) in one step.
ConfigureProfileImage(h, v) == DismissAnimated(ShowInView(h, v))

\* The profile changed: configureProfileImage runs, once or twice in a row.
FlashLoader(v) ==
    LET once == ConfigureProfileImage(hud, v) IN
    /\ hud' \in {once, ConfigureProfileImage(once, v)}
    /\ UNCHANGED <<work, leaked>>

AnimationFinished ==
    /\ hud.transition # "none"
    /\ hud' = TransitionFinished(hud)
    /\ UNCHANGED <<work, leaked>>

\* A view is deallocated.  The closure of a running operation retains its
\* view controller, so this happens only to views nobody works on.
ReleaseView(v) ==
    /\ \A o \in Ops : work[o] # v
    /\ hud' = ViewReleased(hud, v)
    /\ leaked' = leaked \ {v}
    /\ UNCHANGED work

\* The process dies and is launched again: everything here is in memory.
Relaunch ==
    /\ hud' = IdleHUD
    /\ work' = [o \in Ops |-> NoView]
    /\ leaked' = {}

Next == \/ \E o \in Ops, v \in Views : BeginWork(o, v)
        \/ \E o \in Ops : EndWork(o) \/ AbortWork(o)
        \/ \E v \in Views : FlashLoader(v) \/ ReleaseView(v)
        \/ AnimationFinished
        \/ Relaunch

Spec == Init /\ [][Next]_vars

\* Core Animation runs every fade to its end.
FairSpec == Spec /\ WF_vars(AnimationFinished)

-----------------------------------------------------------------------------
\* A loader that stays on screen has an owner: an operation that is still
\* running on that very view, or one that returned on it without calling
\* back.  In particular no order in which overlapping operations show and
\* hide the shared HUD (Extensions.swift showLoader) leaves it covering a
\* screen whose operations have all completed.
SteadyLoaderHasOwner ==
    Steady(hud) => hud.target \in {work[o] : o \in Ops} \cup leaked

\* Every request to hide the loader takes effect, also the one that arrives
\* while the loader is still fading in and is only remembered: the screen is
\* uncovered eventually.
DismissTakesEffect ==
    (hud.transition = "hiding" \/ hud.dismissAfter) ~> (hud.target = NoView)
=============================================================================
