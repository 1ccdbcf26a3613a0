---------------------------- MODULE Loader_proof ----------------------------
(***************************************************************************)
(* The loader contract for any number of screens and operations: types,    *)
(* and no loader without an owner.                                         *)
(***************************************************************************)
EXTENDS Loader, TLAPS

USE NoViewAssumption

\* The methods of JGProgressHUD map HUDs to HUDs.
LEMMA HUDOperators ==
    ASSUME NEW h \in HUD, NEW v \in Views
    PROVE  /\ IdleHUD \in HUD
           /\ ShowInView(h, v) \in HUD
           /\ DismissAnimated(h) \in HUD
           /\ TransitionFinished(h) \in HUD
           /\ ViewReleased(h, v) \in HUD
<1>1. IdleHUD \in HUD
  BY DEF IdleHUD, HUD
<1>2. ShowInView(h, v) \in HUD
  BY DEF ShowInView, HUD
<1>3. DismissAnimated(h) \in HUD
  BY DEF DismissAnimated, HUD
<1>4. CleanUpAfterPresentation(h) \in HUD
  BY DEF CleanUpAfterPresentation, DismissAnimated, HUD
<1>5. TransitionFinished(h) \in HUD
  BY <1>1, <1>4 DEF TransitionFinished, CleanUpAfterDismissal
<1>6. ViewReleased(h, v) \in HUD
  BY DEF ViewReleased, HUD
<1> QED
  BY <1>1, <1>2, <1>3, <1>5, <1>6

\* What each method does to a loader that stays: dismiss never leaves one,
\* show creates one only on the view it is given, and neither the end of a
\* fade nor the release of a view creates one.
LEMMA HUDSteadiness ==
    ASSUME NEW h \in HUD, NEW v \in Views
    PROVE  /\ ~Steady(IdleHUD)
           /\ ~Steady(DismissAnimated(h))
           /\ Steady(ShowInView(h, v))
                => \/ Steady(h) /\ ShowInView(h, v).target = h.target
                   \/ ShowInView(h, v).target = v
           /\ Steady(TransitionFinished(h)) /\ h.transition # "none"
                => Steady(h) /\ TransitionFinished(h).target = h.target
           /\ Steady(ViewReleased(h, v))
                => Steady(h) /\ ViewReleased(h, v).target = h.target /\ h.target # v
<1>1. ~Steady(IdleHUD)
  BY DEF IdleHUD, Steady
<1>2. ~Steady(DismissAnimated(h))
  BY DEF DismissAnimated, Steady, HUD
<1>3. Steady(ShowInView(h, v))
        => \/ Steady(h) /\ ShowInView(h, v).target = h.target
           \/ ShowInView(h, v).target = v
  BY DEF ShowInView, Steady, HUD
<1>4. Steady(TransitionFinished(h)) /\ h.transition # "none"
        => Steady(h) /\ TransitionFinished(h).target = h.target
  <2>1. CASE h.transition = "showing" /\ h.dismissAfter
    BY <2>1 DEF TransitionFinished, CleanUpAfterPresentation, DismissAnimated, Steady, HUD
  <2>2. CASE h.transition = "showing" /\ ~h.dismissAfter
    BY <2>2 DEF TransitionFinished, CleanUpAfterPresentation, Steady, HUD
  <2>3. CASE h.transition = "hiding"
    BY <1>1, <2>3 DEF TransitionFinished, CleanUpAfterDismissal
  <2> QED
    BY <2>1, <2>2, <2>3 DEF HUD
<1>5. Steady(ViewReleased(h, v))
        => Steady(h) /\ ViewReleased(h, v).target = h.target /\ h.target # v
  BY DEF ViewReleased, Steady, HUD
<1> QED
  BY <1>1, <1>2, <1>3, <1>4, <1>5

-----------------------------------------------------------------------------
\* Every variable keeps its type: the HUD reached through any sequence of
\* showLoader calls is one JGProgressHUD can be in.
THEOREM TypeCorrect == Spec => []TypeOK
<1>1. Init => TypeOK
  BY HUDOperators DEF Init, TypeOK, IdleHUD, HUD
<1>2. TypeOK /\ [Next]_vars => TypeOK'
  <2> SUFFICES ASSUME TypeOK, [Next]_vars PROVE TypeOK'
    OBVIOUS
  <2> USE DEF TypeOK
  <2>1. ASSUME NEW o \in Ops, NEW v \in Views, BeginWork(o, v) PROVE TypeOK'
    BY <2>1, HUDOperators DEF BeginWork
  <2>2. ASSUME NEW o \in Ops, EndWork(o) PROVE TypeOK'
    <3>1. hud' \in HUD
      BY <2>2 DEF EndWork, DismissAnimated, HUD
    <3> QED
      BY <2>2, <3>1 DEF EndWork
  <2>3. ASSUME NEW o \in Ops, AbortWork(o) PROVE TypeOK'
    BY <2>3 DEF AbortWork
  <2>4. ASSUME NEW v \in Views, FlashLoader(v) PROVE TypeOK'
    <3>1. \A h \in HUD : ConfigureProfileImage(h, v) \in HUD
      BY HUDOperators DEF ConfigureProfileImage
    <3>2. hud' \in HUD
      BY <2>4, <3>1 DEF FlashLoader
    <3> QED
      BY <2>4, <3>2 DEF FlashLoader
  <2>5. ASSUME NEW v \in Views, ReleaseView(v) PROVE TypeOK'
    BY <2>5, HUDOperators DEF ReleaseView
  <2>6. CASE AnimationFinished
    <3>1. hud' \in HUD
      BY <2>6 DEF AnimationFinished, TransitionFinished, CleanUpAfterPresentation,
                  CleanUpAfterDismissal, IdleHUD, DismissAnimated, HUD
    <3> QED
      BY <2>6, <3>1 DEF AnimationFinished
  <2>7. CASE Relaunch
    BY <2>7 DEF Relaunch, IdleHUD, HUD
  <2>8. CASE UNCHANGED vars
    BY <2>8 DEF vars
  <2> QED
    BY <2>1, <2>2, <2>3, <2>4, <2>5, <2>6, <2>7, <2>8 DEF Next
<1> QED
  BY <1>1, <1>2, PTL DEF Spec

\* A loader that stays on screen belongs to an operation that is running on
\* that view or returned on it in silence, whatever the number of screens
\* and of overlapping operations that share the HUD.
THEOREM OwnerCorrect == Spec => []SteadyLoaderHasOwner
<1>1. Init => SteadyLoaderHasOwner
  BY DEF Init, SteadyLoaderHasOwner, Steady, IdleHUD
<1>2. TypeOK /\ SteadyLoaderHasOwner /\ [Next]_vars => SteadyLoaderHasOwner'
  <2> SUFFICES ASSUME TypeOK, SteadyLoaderHasOwner, [Next]_vars, Steady(hud')
               PROVE  hud'.target \in {work'[o] : o \in Ops} \cup leaked'
    BY DEF SteadyLoaderHasOwner, Steady
  <2> USE DEF TypeOK
  <2>0. hud \in HUD
    OBVIOUS
  <2>1. ASSUME NEW o \in Ops, NEW v \in Views, BeginWork(o, v)
        PROVE  hud'.target \in {work'[p] : p \in Ops} \cup leaked'
    <3>1. work'[o] = v /\ \A p \in Ops : work[p] # NoView => work'[p] = work[p]
      BY <2>1 DEF BeginWork
    <3>2. CASE hud'.target = v
      BY <3>1, <3>2
    <3>3. CASE Steady(hud) /\ hud'.target = hud.target
      BY <2>1, <3>1, <3>3 DEF BeginWork, SteadyLoaderHasOwner, Steady
    <3> QED
      BY <2>0, <2>1, <3>2, <3>3, HUDSteadiness DEF BeginWork
  <2>2. ASSUME NEW o \in Ops, EndWork(o)
        PROVE  hud'.target \in {work'[p] : p \in Ops} \cup leaked'
    <3>1. work[o] \in Views
      BY <2>2 DEF EndWork
    <3>2. ~Steady(hud')
      BY <2>0, <2>2, <3>1, HUDSteadiness DEF EndWork
    <3> QED
      BY <3>2
  <2>3. ASSUME NEW o \in Ops, AbortWork(o)
        PROVE  hud'.target \in {work'[p] : p \in Ops} \cup leaked'
    <3>1. \A p \in Ops : work'[p] = work[p] \/ work[p] \in leaked'
      BY <2>3 DEF AbortWork
    <3> QED
      BY <2>3, <3>1 DEF AbortWork, SteadyLoaderHasOwner
  <2>4. ASSUME NEW v \in Views, FlashLoader(v)
        PROVE  hud'.target \in {work'[p] : p \in Ops} \cup leaked'
    <3>1. \A h \in HUD : ConfigureProfileImage(h, v) \in HUD
      BY HUDOperators DEF ConfigureProfileImage
    <3>2. \A h \in HUD : ~Steady(ConfigureProfileImage(h, v))
      BY HUDOperators, HUDSteadiness DEF ConfigureProfileImage
    <3>3. ~Steady(hud')
      BY <2>0, <2>4, <3>1, <3>2 DEF FlashLoader
    <3> QED
      BY <3>3
  <2>5. ASSUME NEW v \in Views, ReleaseView(v)
        PROVE  hud'.target \in {work'[p] : p \in Ops} \cup leaked'
    <3>1. Steady(hud) /\ hud'.target = hud.target /\ hud.target # v
      BY <2>0, <2>5, HUDSteadiness DEF ReleaseView
    <3> QED
      BY <2>5, <3>1 DEF ReleaseView, SteadyLoaderHasOwner
  <2>6. ASSUME AnimationFinished
        PROVE  hud'.target \in {work'[p] : p \in Ops} \cup leaked'
    <3>1. CASE \E v \in Views : TRUE
      <4>1. Steady(hud) /\ hud'.target = hud.target
        BY <2>0, <2>6, <3>1, HUDSteadiness DEF AnimationFinished
      <4> QED
        BY <2>6, <4>1 DEF AnimationFinished, SteadyLoaderHasOwner
    <3>2. CASE Views = {}
      <4>1. hud'.target = NoView
        BY <2>6, <3>2 DEF AnimationFinished, TransitionFinished, CleanUpAfterPresentation,
                          CleanUpAfterDismissal, DismissAnimated, IdleHUD, HUD
      <4> QED
        BY <4>1 DEF Steady
    <3> QED
      BY <3>1, <3>2
  <2>7. CASE Relaunch
    BY <2>7 DEF Relaunch, IdleHUD, Steady
  <2>8. CASE UNCHANGED vars
    BY <2>8 DEF vars, SteadyLoaderHasOwner
  <2> QED
    BY <2>1, <2>2, <2>3, <2>4, <2>5, <2>6, <2>7, <2>8 DEF Next
<1> QED
  BY <1>1, <1>2, TypeCorrect, PTL DEF Spec
=============================================================================
