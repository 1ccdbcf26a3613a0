--------------------------- MODULE JGProgressHUD ---------------------------
(***************************************************************************)
(* The progress HUD the app shows while it waits for the network.  The     *)
(* app owns ONE instance, the static UIViewController.hud, and every view  *)
(* controller shows and dismisses it.  This module is the part of          *)
(* JGProgressHUD.m that those calls depend on: a HUD is a value, and each  *)
(* method is an operator from the HUD before the call to the HUD after.    *)
(*                                                                         *)
(*   target       - targetView, a weak reference to the view covered       *)
(*   transition   - _transitioning, and which of the two fades is running  *)
(*   dismissAfter - _dismissAfterTransitionFinished                        *)
(***************************************************************************)
CONSTANTS Views,    \* the views of the view controllers that show the HUD
          NoView    \* nil

ASSUME NoViewAssumption == NoView \notin Views

HUD == [target       : Views \cup {NoView},
        transition   : {"none", "showing", "hiding"},
        dismissAfter : BOOLEAN]

IdleHUD == [target |-> NoView, transition |-> "none", dismissAfter |-> FALSE]

\* show(in:) - ignored during a fade and while the HUD covers some view.
ShowInView(h, v) ==
    IF h.transition # "none" \/ h.target # NoView
    THEN h
    ELSE [h EXCEPT !.target = v, !.transition = "showing"]

\* MUTANT of DismissAnimated: a dismissal during a fade is dropped.
DismissUnlessTransitioning(h) ==
    IF h.transition # "none" \/ h.target = NoView
    THEN h
    ELSE [h EXCEPT !.transition = "hiding"]

\* dismiss() - during a fade the request is only remembered.
DismissAnimated(h) ==
    CASE h.transition # "none"                       -> [h EXCEPT !.dismissAfter = TRUE]
      [] h.transition = "none" /\ h.target = NoView  -> h
      [] h.transition = "none" /\ h.target # NoView  -> [h EXCEPT !.transition = "hiding"]

\* MUTANT of CleanUpAfterPresentation: the remembered dismissal is forgotten.
CleanUpForgetting(h) == [h EXCEPT !.transition = "none", !.dismissAfter = FALSE]

\* The fade-in ends; a remembered dismissal starts the fade-out.
CleanUpAfterPresentation(h) ==
    LET shown == [h EXCEPT !.transition = "none"] IN
    IF h.dismissAfter
    THEN [DismissAnimated(shown) EXCEPT !.dismissAfter = FALSE]
    ELSE shown

\* The fade-out ends: the HUD leaves its view and is as good as new.
CleanUpAfterDismissal(h) == IdleHUD

TransitionFinished(h) ==
    IF h.transition = "showing" THEN CleanUpAfterPresentation(h)
                                ELSE CleanUpAfterDismissal(h)

\* MUTANT of ViewReleased: the HUD holds its view with a strong reference.
ViewStaysReferenced(h, v) == h

\* View v is deallocated: the weak targetView reads nil from now on.
ViewReleased(h, v) ==
    IF h.target = v THEN [h EXCEPT !.target = NoView] ELSE h

\* The HUD swallows the touches of the view it covers.  A fade-out sets the
\* alpha to 0 at once, which takes the HUD out of hit testing.
BlocksTouches(h, v) == h.target = v /\ h.transition # "hiding"

\* The HUD covers a view and nothing is under way that will remove it.
Steady(h) == h.target # NoView /\ h.transition # "hiding" /\ ~h.dismissAfter
=============================================================================
