-------------------------- MODULE EditProfile_proof --------------------------
(***************************************************************************)
(* Editing a profile, for any number of names, pictures and edit screens,  *)
(* any number of pending writes and any number of kills: type correctness, *)
(* pictures that exist, saved names that last and reach Home, and uploads  *)
(* that use the loader as its contract says.                               *)
(***************************************************************************)
EXTENDS EditProfile, SequenceTheorems, TLAPS

\* history only groups variables that most steps leave alone.
USE DEF history

\* The methods of JGProgressHUD map HUDs to HUDs.
LEMMA HUDOperators ==
    ASSUME NEW h \in HUD, NEW v \in Views
    PROVE  /\ ShowInView(h, v) \in HUD
           /\ DismissAnimated(h) \in HUD
           /\ TransitionFinished(h) \in HUD
           /\ ViewReleased(h, v) \in HUD
           /\ ConfigureProfileImage(h) \in HUD
<1>1. ASSUME NEW g \in HUD, NEW w \in Views PROVE ShowInView(g, w) \in HUD
  BY DEF ShowInView, HUD
<1>2. ASSUME NEW g \in HUD PROVE DismissAnimated(g) \in HUD
  BY DEF DismissAnimated, HUD
<1>3. IdleHUD \in HUD
  BY DEF IdleHUD, HUD
<1>4. CleanUpAfterPresentation(h) \in HUD
  BY DEF CleanUpAfterPresentation, DismissAnimated, HUD
<1>5. TransitionFinished(h) \in HUD
  BY <1>3, <1>4 DEF TransitionFinished, CleanUpAfterDismissal
<1>6. ViewReleased(h, v) \in HUD
  BY DEF ViewReleased, HUD
<1>7. ConfigureProfileImage(h) \in HUD
  BY <1>1, <1>2 DEF ConfigureProfileImage, Views
<1> QED
  BY <1>1, <1>2, <1>5, <1>6, <1>7

\* The constructors of closures and editors.
LEMMA Constructors ==
    /\ \A v \in Views, u \in User : Fetched(v, u) \in Callback
    /\ \A e \in Sessions, u \in User : Saved(e, u) \in Callback
    /\ \A e \in Sessions, url \in Urls : ImageWritten(e, url) \in Callback
    /\ \A life \in {"new", "alive", "gone"} : BlankEditor(life) \in Editor
    /\ \A editor \in Editor : UpdateForm(editor) \in Editor
    /\ \A v \in Views, n \in Names, b \in Nat : GetDocument(v, b, n) \in Fetch
<1>1. \A v \in Views, u \in User : Fetched(v, u) \in Callback
  BY DEF Fetched, Callback
<1>2. \A e \in Sessions, u \in User : Saved(e, u) \in Callback
  BY DEF Saved, Callback, Views
<1>3. \A e \in Sessions, url \in Urls : ImageWritten(e, url) \in Callback
  BY DEF ImageWritten, Callback, Views
<1>4. \A life \in {"new", "alive", "gone"} : BlankEditor(life) \in Editor
  BY DEF BlankEditor, Editor
<1>5. \A editor \in Editor : UpdateForm(editor) \in Editor
  BY DEF UpdateForm, Editor
<1>6. \A v \in Views, n \in Names, b \in Nat : GetDocument(v, b, n) \in Fetch
  BY DEF GetDocument, Fetch
<1> QED
  BY <1>1, <1>2, <1>3, <1>4, <1>5, <1>6

\* What happens to the fetches under way when a name is saved and when a
\* write is stored.
Refreshed(name) == [i \in DOMAIN fetching |-> [fetching[i] EXCEPT !.fresh = @ \cup {name}]]
Advanced == [i \in DOMAIN fetching |->
               [fetching[i] EXCEPT !.behind = IF @ = 0 THEN 0 ELSE @ - 1]]

LEMMA Fetches ==
    ASSUME fetching \in Seq(Fetch)
    PROVE  /\ \A name \in Names :
                 /\ Refreshed(name) \in Seq(Fetch) /\ DOMAIN Refreshed(name) = DOMAIN fetching
                 /\ \A i \in DOMAIN fetching :
                       /\ Refreshed(name)[i].view = fetching[i].view
                       /\ Refreshed(name)[i].behind = fetching[i].behind
                       /\ Refreshed(name)[i].fresh = fetching[i].fresh \cup {name}
           /\ Advanced \in Seq(Fetch) /\ DOMAIN Advanced = DOMAIN fetching
           /\ \A i \in DOMAIN fetching :
                 /\ Advanced[i].view = fetching[i].view
                 /\ Advanced[i].behind = IF fetching[i].behind = 0 THEN 0
                                                                 ELSE fetching[i].behind - 1
                 /\ Advanced[i].fresh = fetching[i].fresh
<1>1. \A i \in DOMAIN fetching : fetching[i] \in Fetch
  OBVIOUS
<1>2. DOMAIN fetching = 1..Len(fetching) /\ Len(fetching) \in Nat
  OBVIOUS
<1>3. ASSUME NEW f \in Fetch, NEW name \in Names
      PROVE  /\ [f EXCEPT !.fresh = @ \cup {name}] \in Fetch
             /\ [f EXCEPT !.fresh = @ \cup {name}].view = f.view
             /\ [f EXCEPT !.fresh = @ \cup {name}].behind = f.behind
             /\ [f EXCEPT !.fresh = @ \cup {name}].fresh = f.fresh \cup {name}
  BY <1>3 DEF Fetch
<1>4. ASSUME NEW f \in Fetch
      PROVE  /\ [f EXCEPT !.behind = IF @ = 0 THEN 0 ELSE @ - 1] \in Fetch
             /\ [f EXCEPT !.behind = IF @ = 0 THEN 0 ELSE @ - 1].view = f.view
             /\ [f EXCEPT !.behind = IF @ = 0 THEN 0 ELSE @ - 1].behind
                    = IF f.behind = 0 THEN 0 ELSE f.behind - 1
             /\ [f EXCEPT !.behind = IF @ = 0 THEN 0 ELSE @ - 1].fresh = f.fresh
  <2>1. f.behind \in Nat /\ (f.behind = 0 \/ f.behind - 1 \in Nat)
    BY <1>4 DEF Fetch
  <2> QED
    BY <1>4, <2>1 DEF Fetch
<1>5. ASSUME NEW name \in Names
      PROVE  /\ Refreshed(name) \in Seq(Fetch) /\ DOMAIN Refreshed(name) = DOMAIN fetching
             /\ \A i \in DOMAIN fetching :
                   /\ Refreshed(name)[i].view = fetching[i].view
                   /\ Refreshed(name)[i].behind = fetching[i].behind
                   /\ Refreshed(name)[i].fresh = fetching[i].fresh \cup {name}
  <2>1. Refreshed(name) \in [1..Len(fetching) -> Fetch]
    BY <1>1, <1>2, <1>3 DEF Refreshed
  <2>2. Refreshed(name) \in Seq(Fetch)
    BY <1>2, <2>1, IsASeq
  <2> QED
    BY <1>1, <1>3, <2>2 DEF Refreshed
<1>6. Advanced \in Seq(Fetch)
  <2>1. Advanced \in [1..Len(fetching) -> Fetch]
    BY <1>1, <1>2, <1>4 DEF Advanced
  <2> QED
    BY <1>2, <2>1, IsASeq
<1>7. \A i \in DOMAIN fetching :
         /\ Advanced[i].view = fetching[i].view
         /\ Advanced[i].behind = IF fetching[i].behind = 0 THEN 0 ELSE fetching[i].behind - 1
         /\ Advanced[i].fresh = fetching[i].fresh
  BY <1>1, <1>4 DEF Advanced
<1> QED
  BY <1>5, <1>6, <1>7 DEF Advanced

\* The queue of writes changes at its ends.
LEMMA Queues ==
    ASSUME TypeOK
    PROVE  /\ writes \in Seq(Write) /\ Len(writes) \in Nat /\ DOMAIN writes = 1..Len(writes)
           /\ stored \in Nat /\ stored <= Len(writes)
           /\ stored > 0 => writes # <<>> /\ stored - 1 \in 0..Len(Tail(writes))
  BY DEF TypeOK

LEMMA FetchFacts ==
    ASSUME TypeOK
    PROVE  /\ \A i \in DOMAIN fetching : /\ fetching[i] \in Fetch
                                         /\ fetching[i].view \in Views
                                         /\ fetching[i].behind \in Nat
                                         /\ fetching[i].fresh \subseteq Names
           /\ DOMAIN fetching = 1..Len(fetching) /\ Len(fetching) \in Nat
<1>1. fetching \in Seq(Fetch)
  BY DEF TypeOK
<1>2. \A i \in DOMAIN fetching : fetching[i] \in Fetch
  BY <1>1
<1>3. \A f \in Fetch : f.view \in Views /\ f.behind \in Nat /\ f.fresh \subseteq Names
  BY DEF Fetch
<1> QED
  BY <1>1, <1>2, <1>3

\* updateUserData builds a user, unless a force-unwrap traps, and the writes
\* it makes are writes of its name.
LEMMA Edited ==
    ASSUME TypeOK, NEW e \in Sessions, CanSave(e), ~UnwrapsNil(e)
    PROVE  /\ EditedUser(e) \in User
           /\ [edit[e].user EXCEPT !.profileImageUrl = edit[e].profileImageUrl] \in User
                \/ ~edit[e].imageChanged
           /\ FullnameWrites(e) \in Seq(Write)
<1>0. edit[e] \in Editor
  BY DEF TypeOK
<1>1. edit[e].user \in User /\ edit[e].fullname \in Names \cup {Nil}
  BY <1>0 DEF CanSave, FormShown, Editor
<1>2. edit[e].imageChanged => edit[e].profileImageUrl \in Urls
  BY <1>0 DEF UnwrapsNil, Editor
<1>3. EditedUser(e) \in User
  BY <1>1, <1>2 DEF EditedUser, User
<1>4. [edit[e].user EXCEPT !.profileImageUrl = edit[e].profileImageUrl] \in User
        \/ ~edit[e].imageChanged
  BY <1>1, <1>2 DEF User
<1>5. FullnameWrites(e) \in Seq(Write)
  <2> DEFINE w == [field |-> "fullname", value |-> EditedUser(e).fullname,
                   done |-> Saved(e, EditedUser(e))]
  <2>1. w \in Write
    BY <1>3, Constructors DEF Write, User
  <2>2. <<>> \in Seq(Write) /\ <<w>> \in Seq(Write) /\ <<w, w>> \in Seq(Write)
    BY <2>1
  <2>3. edit[e].imageChanged \in BOOLEAN
    BY <1>0 DEF Editor
  <2> HIDE DEF w
  <2>4. FullnameWrites(e) \in {<<>>, <<w>>, <<w, w>>}
    BY <2>3 DEF FullnameWrites, w
  <2> QED
    BY <2>2, <2>4
<1> QED
  BY <1>3, <1>4, <1>5

LEMMA InitTypeOK == Init => TypeOK
<1> SUFFICES ASSUME Init PROVE TypeOK
  OBVIOUS
<1> USE OldAssumption DEF Init
<1>1. server \in User /\ storage \subseteq Urls
  BY DEF User, Urls
<1>2. writes \in Seq(Write) /\ mainQ \in Seq(Callback) /\ stored \in 0..Len(writes)
  OBVIOUS
<1>6. fetching \in Seq(Fetch)
  BY Constructors DEF Views
<1>3. upload \in [Uploads -> Upload]
  BY DEF Upload
<1>4. edit \in [Sessions -> Editor]
  BY Constructors
<1>5. hud \in HUD
  BY DEF IdleHUD, HUD
<1> QED
  BY <1>1, <1>2, <1>3, <1>4, <1>5, <1>6 DEF TypeOK

\* A restart keeps the types of everything but the bound on kills.
LEMMA RestartTypeOK ==
    ASSUME TypeOK, Restart, kills' \in Nat
    PROVE  TypeOK'
<1> USE DEF TypeOK, Restart
<1>1. /\ writes' \in Seq(Write) /\ stored' \in 0..Len(writes')
  <2>1. \A w \in Write : [w EXCEPT !.done = Nil] \in Write
    BY DEF Write
  <2>2. \A i \in 1..stored : writes[i] \in Write
    BY Queues
  <2>3. writes' \in [1..stored -> Write]
    BY <2>1, <2>2 DEF Relaunched
  <2>4. writes' \in Seq(Write) /\ Len(writes') = stored
    <3>1. stored \in Nat
      BY Queues
    <3> QED
      BY ONLY <2>3, <3>1
  <2> QED
    BY <2>4, Queues DEF Relaunched
<1>2. fetching' \in Seq(Fetch)
  <2>1. GetDocument(Home, 0, lastStored) \in Fetch
    BY Constructors DEF Views
  <2> QED
    BY <2>1
<1>3. storage' \subseteq Urls
  BY DEF Urls
<1>4. upload' \in [Uploads -> Upload]
  <2>1. [stage |-> "done", owner |-> Nil] \in Upload
    BY DEF Upload
  <2>2. \A p \in Upload : p.stage \notin Running => [p EXCEPT !.owner = Nil] \in Upload
    BY DEF Upload
  <2> QED
    BY <2>1, <2>2
<1>5. edit' \in [Sessions -> Editor]
  BY Constructors
<1>6. hud' \in HUD
  BY DEF IdleHUD, HUD
<1>7. mainQ' \in Seq(Callback) /\ homeUser' \in User \cup {Nil}
  OBVIOUS
<1>8. presented' \in Sessions \cup {Nil} /\ pickerOpen' \in BOOLEAN
  OBVIOUS
<1>9. server' \in User /\ lastSaved' \in Names /\ lastStored' \in Names /\ rejected' \in BOOLEAN
  OBVIOUS
<1> QED
  BY <1>1, <1>2, <1>3, <1>4, <1>5, <1>6, <1>7, <1>8, <1>9

\* controller(_:wantsToUpdate:) keeps the types of what it changes.
LEMMA WantsToUpdateTypeOK ==
    ASSUME TypeOK, NEW e, NEW u \in User \cup {Nil}, WantsToUpdate(e, u)
    PROVE  /\ presented' \in Sessions \cup {Nil}
           /\ pickerOpen' \in BOOLEAN
           /\ homeUser' \in User \cup {Nil}
           /\ hud' \in HUD
<1>1. Home \in Views
  BY DEF Views
<1>2. hud' \in HUD
  BY <1>1, HUDOperators DEF TypeOK, WantsToUpdate
<1> QED
  BY <1>2 DEF TypeOK, WantsToUpdate, DismissController

LEMMA NextTypeOK == TypeOK /\ [Next]_vars => TypeOK'
<1> SUFFICES ASSUME TypeOK, [Next]_vars PROVE TypeOK'
  OBVIOUS
<1> USE DEF TypeOK
<1>1. ASSUME NEW e \in Sessions, HandleEditProfile(e) PROVE TypeOK'
  <2>1. \A editor \in Editor : [editor EXCEPT !.life = "alive"] \in Editor
    BY DEF Editor
  <2>2. edit' \in [Sessions -> Editor]
    BY <1>1, <2>1 DEF HandleEditProfile
  <2>3. fetching' \in Seq(Fetch)
    <3>1. Len(writes) - stored \in Nat /\ e \in Views
      BY Queues DEF Views
    <3>2. GetDocument(e, Len(writes) - stored, lastSaved) \in Fetch
      BY <3>1, Constructors
    <3> QED
      BY <1>1, <3>2 DEF HandleEditProfile
  <2> QED
    BY <1>1, <2>2, <2>3 DEF HandleEditProfile
<1>2. ASSUME NEW e \in Sessions, NEW name \in Names, HandleUpdateUserFullname(e, name)
      PROVE  TypeOK'
  <2>1. \A editor \in Editor : [editor EXCEPT !.fullname = name] \in Editor
    BY DEF Editor
  <2> QED
    BY <1>2, <2>1, Constructors DEF HandleUpdateUserFullname
<1>3. ASSUME NEW e \in Sessions, HandleChangeProfilePhoto(e) PROVE TypeOK'
  BY <1>3 DEF HandleChangeProfilePhoto
<1>4. ASSUME NEW e \in Sessions, NEW u \in Uploads, DidFinishPicking(e, u) PROVE TypeOK'
  <2>1. \A editor \in Editor : [editor EXCEPT !.imageChanged = TRUE] \in Editor
    BY DEF Editor
  <2>2. edit' \in [Sessions -> Editor]
    BY <1>4, <2>1 DEF DidFinishPicking
  <2>3. upload' \in [Uploads -> Upload]
    BY <1>4 DEF DidFinishPicking, Upload, Running
  <2>4. hud' \in HUD
    BY <1>4, HUDOperators DEF DidFinishPicking, Views
  <2> QED
    BY <1>4, <2>2, <2>3, <2>4 DEF DidFinishPicking
<1>5. ASSUME NEW e \in Sessions, HandleCancel(e) PROVE TypeOK'
  BY <1>5 DEF HandleCancel, DismissController
<1>6. ASSUME NEW e \in Sessions, HandleDone(e) PROVE TypeOK'
  <2>1. writes' \in Seq(Write) /\ stored' \in 0..Len(writes')
    <3>1. FullnameWrites(e) \in Seq(Write) /\ writes' = writes \o FullnameWrites(e)
      BY <1>6, Edited DEF HandleDone
    <3>2. Len(FullnameWrites(e)) \in Nat /\ stored' = stored
      BY <1>6, <3>1 DEF HandleDone
    <3>3. writes' \in Seq(Write) /\ Len(writes') = Len(writes) + Len(FullnameWrites(e))
      BY <3>1
    <3> QED
      BY <3>2, <3>3, Queues
  <2>2. lastSaved' \in Names /\ fetching' \in Seq(Fetch)
    <3>1. edit[e].fullname = Nil \/ edit[e].fullname \in Names
      BY DEF Editor
    <3>2. CASE edit[e].fullname = Nil
      BY <1>6, <3>2 DEF HandleDone
    <3>3. CASE edit[e].fullname # Nil
      BY <1>6, <3>1, <3>3, Fetches DEF HandleDone, Refreshed
    <3> QED
      BY <3>2, <3>3
  <2>3. CASE edit[e].imageChanged
    <3>1. [edit[e].user EXCEPT !.profileImageUrl = edit[e].profileImageUrl] \in User
      BY <1>6, <2>3, Edited DEF HandleDone
    <3>2. /\ presented' \in Sessions \cup {Nil} /\ pickerOpen' \in BOOLEAN
          /\ homeUser' \in User \cup {Nil} /\ hud' \in HUD
      BY <1>6, <2>3, <3>1, WantsToUpdateTypeOK DEF HandleDone
    <3> QED
      BY <1>6, <2>1, <2>2, <3>2 DEF HandleDone
  <2>4. CASE ~edit[e].imageChanged
    BY <1>6, <2>1, <2>2, <2>4 DEF HandleDone
  <2> QED
    BY <2>3, <2>4
<1>7. ASSUME NEW e \in Sessions, HandleDoneTraps(e) PROVE TypeOK'
  BY <1>7, RestartTypeOK DEF HandleDoneTraps
<1>8. ASSUME NEW e \in Sessions, Deallocate(e) PROVE TypeOK'
  <2>1. hud' \in HUD
    BY <1>8, HUDOperators DEF Deallocate, Views
  <2> QED
    BY <1>8, <2>1, Constructors DEF Deallocate
<1>9. CASE PickerDidCancel
  BY <1>9 DEF PickerDidCancel
<1>10. CASE Kill
  <2>1. kills' \in Nat
    BY <1>10 DEF Kill
  <2> QED
    BY <1>10, <2>1, RestartTypeOK DEF Kill
<1>11. CASE FetchReply
  <2>1. Head(fetching).view \in Views
    <3>1. Head(fetching) \in Fetch
      BY <1>11 DEF FetchReply
    <3> QED
      BY <3>1 DEF Fetch
  <2>2. mainQ' \in Seq(Callback)
    BY <1>11, <2>1, Constructors DEF FetchReply
  <2> QED
    BY <1>11, <2>2 DEF FetchReply
<1>12. CASE FetchError
  BY <1>12 DEF FetchError
<1>13. ASSUME NEW u \in Uploads, PutDataReply(u) PROVE TypeOK'
  <2>1. \A p \in Upload : p.stage \in Running => [p EXCEPT !.stage = "locating"] \in Upload
    BY DEF Upload, Running
  <2>2. upload' \in [Uploads -> Upload]
    BY <1>13, <2>1 DEF PutDataReply, Running
  <2>3. storage' \subseteq Urls
    BY <1>13 DEF PutDataReply, Urls
  <2> QED
    BY <1>13, <2>2, <2>3 DEF PutDataReply
<1>14. ASSUME NEW u \in Uploads, DownloadURLReply(u) PROVE TypeOK'
  <2>1. \A p \in Upload : p.stage \in Running => [p EXCEPT !.stage = "writing"] \in Upload
    BY DEF Upload, Running
  <2>2. upload' \in [Uploads -> Upload]
    BY <1>14, <2>1 DEF DownloadURLReply, Running
  <2>3. upload[u].owner \in Sessions
    BY <1>14 DEF DownloadURLReply, Upload, Running
  <2>4. [field |-> "profileImageUrl", value |-> u,
         done |-> ImageWritten(upload[u].owner, u)] \in Write
    BY <2>3, Constructors DEF Write, Urls
  <2>5. writes' \in Seq(Write) /\ stored' \in 0..Len(writes')
    BY <1>14, <2>4, Queues DEF DownloadURLReply
  <2> QED
    BY <1>14, <2>2, <2>5 DEF DownloadURLReply
<1>15. ASSUME NEW u \in Uploads, DownloadURLError(u) PROVE TypeOK'
  <2>1. \A p \in Upload : [p EXCEPT !.stage = "lost"] \in Upload
    BY DEF Upload
  <2> QED
    BY <1>15, <2>1 DEF DownloadURLError
<1>16. CASE Writing
  <2>1. Dequeue
    BY <1>16 DEF Writing, WriteAck, WriteReject
  <2>2. Head(writes) \in Write
    BY <2>1, Queues DEF Dequeue
  <2>3. writes' \in Seq(Write) /\ stored' \in 0..Len(writes')
    BY <2>1, Queues DEF Dequeue
  <2>4. mainQ' \in Seq(Callback)
    BY <2>1, <2>2 DEF Dequeue, Write
  <2>5. server' \in User /\ rejected' \in BOOLEAN
    BY <1>16, <2>2 DEF Writing, WriteAck, WriteReject, User, Write
  <2> QED
    BY <2>1, <2>3, <2>4, <2>5 DEF Dequeue
<1>17. CASE RunMainQueue
  <2>1. mainQ # <<>> /\ mainQ' = Tail(mainQ)
    BY <1>17 DEF RunMainQueue, UserFetched, UserDataUpdated, ProfileImageUpdated, NextCallback
  <2>2. mainQ' \in Seq(Callback)
    BY <2>1
  <2>3. Head(mainQ) \in Callback
    BY <2>1
  <2>4. Head(mainQ).user \in User \cup {Nil} /\ Head(mainQ).url \in Urls \cup {Nil}
    BY <2>3 DEF Callback
  <2>5. CASE UserFetched
    <3>1. \A editor \in Editor : [editor EXCEPT !.user = Head(mainQ).user] \in Editor
      BY <2>4 DEF Editor
    <3>2. homeUser' \in User \cup {Nil}
      BY <2>4, <2>5 DEF UserFetched
    <3>3. edit' \in [Sessions -> Editor]
      BY <2>5, <3>1 DEF UserFetched
    <3>4. hud' \in HUD
      BY <2>5, HUDOperators DEF UserFetched, Views
    <3> QED
      BY <2>2, <2>5, <3>2, <3>3, <3>4 DEF UserFetched
  <2>6. CASE UserDataUpdated
    <3>1. /\ presented' \in Sessions \cup {Nil} /\ pickerOpen' \in BOOLEAN
          /\ homeUser' \in User \cup {Nil} /\ hud' \in HUD
      BY <2>4, <2>6, WantsToUpdateTypeOK DEF UserDataUpdated
    <3> QED
      BY <2>2, <2>6, <3>1 DEF UserDataUpdated
  <2>7. CASE ProfileImageUpdated
    <3>1. \A editor \in Editor : [editor EXCEPT !.profileImageUrl = Head(mainQ).url] \in Editor
      BY <2>4 DEF Editor
    <3>2. edit' \in [Sessions -> Editor]
      BY <2>7, <3>1, Constructors DEF ProfileImageUpdated
    <3>3. \A p \in Upload : [p EXCEPT !.stage = "done"] \in Upload
      BY DEF Upload
    <3>4. upload' \in [Uploads -> Upload]
      BY <2>7, <3>3 DEF ProfileImageUpdated
    <3>5. hud' \in HUD
      BY <2>7, HUDOperators DEF ProfileImageUpdated, Views
    <3> QED
      BY <2>2, <2>7, <3>2, <3>4, <3>5 DEF ProfileImageUpdated
  <2> QED
    BY <1>17, <2>5, <2>6, <2>7 DEF RunMainQueue
<1>18. CASE AnimationFinished
  <2>1. hud' \in HUD
    BY <1>18, HUDOperators DEF AnimationFinished, Views
  <2> QED
    BY <1>18, <2>1 DEF AnimationFinished
<1>19. CASE UNCHANGED vars
  BY <1>19 DEF vars
<1>20. CASE StoreWrite
  <2>1. stored' = stored + 1 /\ stored' \in 1..Len(writes)
    BY <1>20, Queues DEF StoreWrite
  <2>2. writes[stored'] \in Write
    BY <2>1, Queues
  <2>3. lastStored' \in Names
    BY <1>20, <2>2 DEF StoreWrite, Write
  <2>4. fetching' \in Seq(Fetch)
    BY <1>20, Fetches DEF StoreWrite, Advanced
  <2> QED
    BY <1>20, <2>1, <2>3, <2>4 DEF StoreWrite
<1> QED
  BY <1>1, <1>2, <1>3, <1>4, <1>5, <1>6, <1>7, <1>8, <1>9, <1>10, <1>11, <1>12, <1>13,
     <1>14, <1>15, <1>16, <1>17, <1>18, <1>19, <1>20 DEF Next, Tap, Fetching, Storing

\* Every variable keeps its type, for every value of the constants: among
\* other things no completion runs for a screen that does not exist, and
\* updateData writes names into the name and URLs into the picture.
THEOREM TypeCorrect == Spec => []TypeOK
  BY InitTypeOK, NextTypeOK, PTL DEF Spec

-----------------------------------------------------------------------------
\* Steps that touch no reference to a picture, and perhaps add pictures.
LEMMA QuietStep ==
    ASSUME NoDanglingImage, storage \subseteq storage',
           UNCHANGED <<server, writes, mainQ, homeUser>>,
           \A e \in Sessions : /\ edit'[e].user = edit[e].user
                              /\ edit'[e].profileImageUrl = edit[e].profileImageUrl
    PROVE  NoDanglingImage'
<1> USE DEF NoDanglingImage
<1>1. ServerImageStored'
  BY DEF ServerImageStored
<1>2. QueuedImagesStored'
  BY DEF QueuedImagesStored
<1>3. PostedImagesStored'
  BY DEF PostedImagesStored
<1>4. HomeImageStored'
  BY DEF HomeImageStored
<1>5. EditImagesStored'
  BY DEF EditImagesStored
<1> QED
  BY <1>1, <1>2, <1>3, <1>4, <1>5

\* A restart forgets references and keeps the ones in the queue.
LEMMA RestartNoDangling ==
    ASSUME TypeOK, NoDanglingImage, Restart
    PROVE  NoDanglingImage'
<1> USE DEF NoDanglingImage, Restart
<1>0. storage \subseteq storage'
  OBVIOUS
<1>1. ServerImageStored'
  BY <1>0 DEF ServerImageStored
<1>2. QueuedImagesStored'
  <2>1. \A w \in Write : UrlsOfWrite([w EXCEPT !.done = Nil]) \subseteq UrlsOfWrite(w)
    BY DEF UrlsOfWrite, UrlsOfCallback, Write
  <2>2. /\ DOMAIN writes' \subseteq DOMAIN writes
        /\ \A i \in DOMAIN writes' : writes'[i] = [writes[i] EXCEPT !.done = Nil]
    BY Queues DEF Relaunched
  <2>3. \A i \in DOMAIN writes : writes[i] \in Write
    BY DEF TypeOK
  <2> QED
    BY <1>0, <2>1, <2>2, <2>3 DEF QueuedImagesStored
<1>3. PostedImagesStored'
  BY DEF PostedImagesStored
<1>4. HomeImageStored'
  BY DEF HomeImageStored, UrlOf
<1>5. EditImagesStored'
  <2>1. \A life : BlankEditor(life).user = Nil /\ BlankEditor(life).profileImageUrl = Nil
    BY DEF BlankEditor
  <2> QED
    BY <1>0, <2>1 DEF EditImagesStored, UrlOf
<1> QED
  BY <1>1, <1>2, <1>3, <1>4, <1>5

\* What getDocument reads is a picture that exists.
LEMMA LocalImageStored ==
    ASSUME TypeOK, NoDanglingImage, NEW url, LocalValue("profileImageUrl", url)
    PROVE  url \in storage
<1>1. CASE \E i \in DOMAIN writes : writes[i].field = "profileImageUrl" /\ writes[i].value = url
  BY <1>1 DEF NoDanglingImage, QueuedImagesStored, UrlsOfWrite
<1>2. CASE url = server["profileImageUrl"]
  BY <1>2 DEF NoDanglingImage, ServerImageStored, TypeOK, User
<1> QED
  BY <1>1, <1>2, Queues DEF LocalValue, ValueAfter

\* updateUserData passes on pictures that exist.
LEMMA EditedImageStored ==
    ASSUME TypeOK, NoDanglingImage, NEW e \in Sessions, CanSave(e), ~UnwrapsNil(e)
    PROVE  /\ EditedUser(e).profileImageUrl \in storage
           /\ edit[e].imageChanged => edit[e].profileImageUrl \in storage
           /\ \A i \in DOMAIN FullnameWrites(e) :
                 UrlsOfWrite(FullnameWrites(e)[i]) \subseteq storage
<1>0. edit[e] \in Editor
  BY DEF TypeOK
<1>1. edit[e].user # Nil => edit[e].user.profileImageUrl \in storage
  BY DEF NoDanglingImage, EditImagesStored, UrlOf
<1>2. edit[e].imageChanged => edit[e].profileImageUrl \in storage
  BY DEF NoDanglingImage, EditImagesStored, UnwrapsNil
<1>3. EditedUser(e).profileImageUrl \in storage
  BY <1>1, <1>2 DEF EditedUser, CanSave, FormShown
<1>4. ASSUME NEW i \in DOMAIN FullnameWrites(e)
      PROVE  UrlsOfWrite(FullnameWrites(e)[i]) \subseteq storage
  <2> DEFINE w == [field |-> "fullname", value |-> EditedUser(e).fullname,
                   done |-> Saved(e, EditedUser(e))]
  <2>1. UrlsOfWrite(w) \subseteq storage
    BY <1>3 DEF UrlsOfWrite, UrlsOfCallback, UrlOf, Saved
  <2>2. edit[e].imageChanged \in BOOLEAN
    BY <1>0 DEF Editor
  <2> HIDE DEF w
  <2>3. FullnameWrites(e) \in {<<>>, <<w>>, <<w, w>>}
    BY <2>2 DEF FullnameWrites, w
  <2>4. FullnameWrites(e)[i] = w
    BY <2>3
  <2> QED
    BY <2>1, <2>4
<1> QED
  BY <1>2, <1>3, <1>4

LEMMA InitNoDangling == Init => NoDanglingImage
  BY DEF Init, NoDanglingImage, ServerImageStored, QueuedImagesStored, PostedImagesStored,
         HomeImageStored, EditImagesStored, UrlOf, BlankEditor

LEMMA NextNoDangling == TypeOK /\ NoDanglingImage /\ [Next]_vars => NoDanglingImage'
<1> SUFFICES ASSUME TypeOK, NoDanglingImage, [Next]_vars PROVE NoDanglingImage'
  OBVIOUS
<1>0. edit \in [Sessions -> Editor]
  BY DEF TypeOK
<1>1. ASSUME NEW e \in Sessions, HandleEditProfile(e) PROVE NoDanglingImage'
  BY <1>0, <1>1, QuietStep DEF HandleEditProfile, Editor
<1>2. ASSUME NEW e \in Sessions, NEW name \in Names, HandleUpdateUserFullname(e, name)
      PROVE  NoDanglingImage'
  BY <1>0, <1>2, QuietStep DEF HandleUpdateUserFullname, UpdateForm, Editor
<1>3. ASSUME NEW e \in Sessions, HandleChangeProfilePhoto(e) PROVE NoDanglingImage'
  BY <1>3, QuietStep DEF HandleChangeProfilePhoto
<1>4. ASSUME NEW e \in Sessions, NEW u \in Uploads, DidFinishPicking(e, u)
      PROVE  NoDanglingImage'
  BY <1>0, <1>4, QuietStep DEF DidFinishPicking, Editor
<1>5. ASSUME NEW e \in Sessions, HandleCancel(e) PROVE NoDanglingImage'
  BY <1>5, QuietStep DEF HandleCancel
<1>6. ASSUME NEW e \in Sessions, HandleDone(e) PROVE NoDanglingImage'
  <2>1. CanSave(e) /\ ~UnwrapsNil(e) /\ UNCHANGED <<server, storage, mainQ, edit>>
    BY <1>6 DEF HandleDone
  <2>2. HomeImageStored'
    <3>1. CASE edit[e].imageChanged
      <4>1. homeUser' = [edit[e].user EXCEPT !.profileImageUrl = edit[e].profileImageUrl]
        BY <1>6, <3>1 DEF HandleDone, WantsToUpdate
      <4>2. edit[e].user \in User
        BY <1>0, <2>1 DEF CanSave, FormShown, Editor
      <4>3. homeUser'.profileImageUrl = edit[e].profileImageUrl
        BY <4>1, <4>2 DEF User
      <4> QED
        BY <2>1, <3>1, <4>3, EditedImageStored DEF HomeImageStored, UrlOf
    <3>2. CASE ~edit[e].imageChanged
      BY <1>6, <2>1, <3>2 DEF HandleDone, NoDanglingImage, HomeImageStored
    <3> QED
      BY <3>1, <3>2
  <2>3. QueuedImagesStored'
    <3>1. writes \in Seq(Write) /\ FullnameWrites(e) \in Seq(Write)
      BY <2>1, Edited DEF TypeOK
    <3>2. writes' = writes \o FullnameWrites(e)
      BY <1>6 DEF HandleDone
    <3>3. ASSUME NEW i \in DOMAIN writes'
          PROVE  \/ \E j \in DOMAIN writes : writes'[i] = writes[j]
                 \/ \E j \in DOMAIN FullnameWrites(e) : writes'[i] = FullnameWrites(e)[j]
      <4>1. CASE i <= Len(writes)
        BY <3>1, <3>2, <3>3, <4>1
      <4>2. CASE i > Len(writes)
        <5>1. i - Len(writes) \in DOMAIN FullnameWrites(e)
          BY <3>1, <3>2, <3>3, <4>2
        <5>2. writes'[i] = FullnameWrites(e)[i - Len(writes)]
          BY <3>1, <3>2, <3>3, <4>2
        <5> QED
          BY <5>1, <5>2
      <4> QED
        BY <3>1, <3>2, <3>3, <4>1, <4>2
    <3> QED
      BY <2>1, <3>3, EditedImageStored DEF QueuedImagesStored, NoDanglingImage
  <2> QED
    BY <2>1, <2>2, <2>3
       DEF NoDanglingImage, ServerImageStored, PostedImagesStored, EditImagesStored
<1>7. ASSUME NEW e \in Sessions, HandleDoneTraps(e) PROVE NoDanglingImage'
  BY <1>7, RestartNoDangling DEF HandleDoneTraps
<1>8. ASSUME NEW e \in Sessions, Deallocate(e) PROVE NoDanglingImage'
  <2>1. EditImagesStored'
    <3>1. edit' = [edit EXCEPT ![e] = BlankEditor("gone")] /\ UNCHANGED storage
      BY <1>8 DEF Deallocate
    <3>2. BlankEditor("gone").user = Nil /\ BlankEditor("gone").profileImageUrl = Nil
      BY DEF BlankEditor
    <3> QED
      BY <1>0, <3>1, <3>2 DEF NoDanglingImage, EditImagesStored, UrlOf
  <2> QED
    BY <1>8, <2>1 DEF Deallocate, NoDanglingImage, ServerImageStored, QueuedImagesStored,
                      PostedImagesStored, HomeImageStored
<1>9. CASE PickerDidCancel
  BY <1>9, QuietStep DEF PickerDidCancel
<1>10. CASE Kill
  BY <1>10, RestartNoDangling DEF Kill
<1>11. CASE FetchReply
  <2>1. PICK u \in User : /\ LocalValue("profileImageUrl", u["profileImageUrl"])
                          /\ mainQ' = Append(mainQ, Fetched(Head(fetching).view, u))
    BY <1>11 DEF FetchReply
  <2>2. UrlsOfCallback(Fetched(Head(fetching).view, u)) \subseteq storage
    BY <2>1, LocalImageStored DEF UrlsOfCallback, UrlOf, Fetched, User
  <2>3. mainQ \in Seq(Callback)
    BY DEF TypeOK
  <2>4. PostedImagesStored'
    BY <1>11, <2>1, <2>2, <2>3 DEF FetchReply, NoDanglingImage, PostedImagesStored
  <2> QED
    BY <1>11, <2>4 DEF FetchReply, NoDanglingImage, ServerImageStored, QueuedImagesStored,
                       HomeImageStored, EditImagesStored
<1>12. CASE FetchError
  BY <1>12, QuietStep DEF FetchError
<1>13. ASSUME NEW u \in Uploads, PutDataReply(u) PROVE NoDanglingImage'
  BY <1>13, QuietStep DEF PutDataReply
<1>14. ASSUME NEW u \in Uploads, DownloadURLReply(u) PROVE NoDanglingImage'
  <2> DEFINE w == [field |-> "profileImageUrl", value |-> u,
                   done |-> ImageWritten(upload[u].owner, u)]
  <2>1. UrlsOfWrite(w) \subseteq storage
    BY <1>14 DEF DownloadURLReply, UrlsOfWrite, UrlsOfCallback, UrlOf, ImageWritten
  <2>2. writes \in Seq(Write) /\ writes' = Append(writes, w)
    BY <1>14 DEF DownloadURLReply, TypeOK
  <2> HIDE DEF w
  <2>3. QueuedImagesStored'
    BY <1>14, <2>1, <2>2 DEF DownloadURLReply, NoDanglingImage, QueuedImagesStored
  <2> QED
    BY <1>14, <2>3 DEF DownloadURLReply, NoDanglingImage, ServerImageStored,
                       PostedImagesStored, HomeImageStored, EditImagesStored
<1>15. ASSUME NEW u \in Uploads, DownloadURLError(u) PROVE NoDanglingImage'
  BY <1>15, QuietStep DEF DownloadURLError
<1>16. CASE Writing
  <2>1. Dequeue
    BY <1>16 DEF Writing, WriteAck, WriteReject
  <2>2. writes \in Seq(Write) /\ mainQ \in Seq(Callback) /\ writes # <<>>
    BY <2>1, Queues DEF TypeOK, Dequeue
  <2>3. Head(writes) = writes[1] /\ 1 \in DOMAIN writes
    BY <2>2
  <2>4. UrlsOfWrite(Head(writes)) \subseteq storage
    BY <2>3 DEF NoDanglingImage, QueuedImagesStored
  <2>5. Head(writes).done # Nil => UrlsOfCallback(Head(writes).done) \subseteq storage
    BY <2>4 DEF UrlsOfWrite
  <2>6. QueuedImagesStored'
    BY <2>1, <2>2 DEF Dequeue, NoDanglingImage, QueuedImagesStored
  <2>7. PostedImagesStored'
    BY <2>1, <2>2, <2>5 DEF Dequeue, NoDanglingImage, PostedImagesStored
  <2>8. ServerImageStored'
    <3>1. CASE WriteAck
      <4>1. Head(writes) \in Write
        BY <2>2
      <4>2. CASE Head(writes).field = "profileImageUrl"
        <5>1. Head(writes).value \in storage
          BY <2>4, <4>2 DEF UrlsOfWrite
        <5> QED
          BY <2>1, <3>1, <4>2, <5>1 DEF WriteAck, Dequeue, TypeOK, User, ServerImageStored
      <4>3. CASE Head(writes).field = "fullname"
        BY <2>1, <3>1, <4>3
           DEF WriteAck, Dequeue, TypeOK, User, ServerImageStored, NoDanglingImage
      <4> QED
        BY <4>1, <4>2, <4>3 DEF Write
    <3>2. CASE WriteReject
      BY <2>1, <3>2 DEF WriteReject, Dequeue, ServerImageStored, NoDanglingImage
    <3> QED
      BY <1>16, <3>1, <3>2 DEF Writing
  <2> QED
    BY <2>1, <2>6, <2>7, <2>8 DEF Dequeue, NoDanglingImage, HomeImageStored, EditImagesStored
<1>17. CASE RunMainQueue
  <2>1. mainQ # <<>> /\ mainQ' = Tail(mainQ) /\ UNCHANGED <<server, storage, writes>>
    BY <1>17 DEF RunMainQueue, UserFetched, UserDataUpdated, ProfileImageUpdated, NextCallback
  <2>2. mainQ \in Seq(Callback)
    BY DEF TypeOK
  <2>3. Head(mainQ) = mainQ[1] /\ 1 \in DOMAIN mainQ /\ Head(mainQ) \in Callback
    BY <2>1, <2>2
  <2>4. UrlOf(Head(mainQ).user) \cup ({Head(mainQ).url} \ {Nil}) \subseteq storage
    BY <2>3 DEF NoDanglingImage, PostedImagesStored, UrlsOfCallback
  <2>5. PostedImagesStored'
    BY <2>1, <2>2 DEF NoDanglingImage, PostedImagesStored
  <2>6. HomeImageStored' /\ EditImagesStored'
    <3>1. CASE UserFetched
      <4>1. HomeImageStored'
        BY <2>1, <2>4, <3>1 DEF UserFetched, HomeImageStored, NoDanglingImage
      <4>2. EditImagesStored'
        <5>1. \A e \in Sessions :
                 /\ edit'[e].user \in {edit[e].user, Head(mainQ).user}
                 /\ edit'[e].profileImageUrl = edit[e].profileImageUrl
          BY <1>0, <3>1 DEF UserFetched, Editor
        <5> QED
          BY <2>1, <2>4, <5>1 DEF EditImagesStored, NoDanglingImage
      <4> QED
        BY <4>1, <4>2
    <3>2. CASE UserDataUpdated
      BY <2>1, <2>4, <3>2
         DEF UserDataUpdated, WantsToUpdate, HomeImageStored, EditImagesStored, NoDanglingImage
    <3>3. CASE ProfileImageUpdated
      <4>1. HomeImageStored'
        BY <2>1, <3>3 DEF ProfileImageUpdated, HomeImageStored, NoDanglingImage
      <4>2. EditImagesStored'
        <5>1. \A e \in Sessions :
                 /\ edit'[e].user = edit[e].user
                 /\ edit'[e].profileImageUrl \in {edit[e].profileImageUrl, Head(mainQ).url}
          BY <1>0, <3>3 DEF ProfileImageUpdated, UpdateForm, Editor
        <5> QED
          BY <2>1, <2>4, <5>1 DEF EditImagesStored, NoDanglingImage
      <4> QED
        BY <4>1, <4>2
    <3> QED
      BY <1>17, <3>1, <3>2, <3>3 DEF RunMainQueue
  <2> QED
    BY <2>1, <2>5, <2>6 DEF NoDanglingImage, ServerImageStored, QueuedImagesStored
<1>18. CASE AnimationFinished
  BY <1>18, QuietStep DEF AnimationFinished
<1>19. CASE UNCHANGED vars
  BY <1>19, QuietStep DEF vars
<1>20. CASE StoreWrite
  BY <1>20, QuietStep DEF StoreWrite
<1> QED
  BY <1>1, <1>2, <1>3, <1>4, <1>5, <1>6, <1>7, <1>8, <1>9, <1>10, <1>11, <1>12, <1>13,
     <1>14, <1>15, <1>16, <1>17, <1>18, <1>19, <1>20 DEF Next, Tap, Fetching, Storing

\* No copy of the profile anywhere points at a picture that Cloud Storage
\* does not have, for every number of edit screens, pictures, queued writes
\* and kills.
THEOREM NoDanglingImageCorrect == Spec => []NoDanglingImage
  BY InitNoDangling, NextNoDangling, TypeCorrect, PTL DEF Spec

-----------------------------------------------------------------------------
(* What the next fetch reads.                                               *)

\* The name after k of the writes, on top of the name base.
NameIn(ws, base, k, n) ==
    \/ \E i \in 1..k : /\ ws[i].field = "fullname" /\ ws[i].value = n
                       /\ \A j \in (i + 1)..k : ws[j].field # "fullname"
    \/ (\A i \in 1..k : ws[i].field # "fullname") /\ n = base

\* A write has its closure until it is stored, and a fetch waits for writes
\* that are yet to be stored.  All writes together make the name saved last,
\* the stored ones the name stored last; and a fetch accepts each name that it
\* may read once the writes ahead of it are stored.
ClosuresKept == \A i \in DOMAIN writes : i > stored => writes[i].done # Nil
WaitsForTasks == \A i \in DOMAIN fetching : fetching[i].behind <= Len(writes) - stored
NamesRead ==
    \A i \in DOMAIN fetching : \A k \in (stored + fetching[i].behind)..Len(writes) :
       \A n : NameIn(writes, server.fullname, k, n) => n \in fetching[i].fresh

SavesInv ==
    /\ ClosuresKept
    /\ WaitsForTasks
    /\ ~rejected => /\ NameIn(writes, server.fullname, Len(writes), lastSaved)
                    /\ NameIn(writes, server.fullname, stored, lastStored)
                    /\ NamesRead

\* Only the first k writes count.
LEMMA NameSame ==
    ASSUME NEW ws, NEW vs, NEW base, NEW k \in Nat, NEW n,
           \A i \in 1..k : vs[i].field = ws[i].field /\ vs[i].value = ws[i].value
    PROVE  NameIn(vs, base, k, n) <=> NameIn(ws, base, k, n)
<1>1. \A i \in 1..k : \A j \in (i + 1)..k : j \in 1..k
  OBVIOUS
<1> QED
  BY <1>1 DEF NameIn

\* One more write.
LEMMA NameMore ==
    ASSUME NEW ws, NEW base, NEW k \in Nat, NEW n
    PROVE  /\ ws[k + 1].field = "fullname" =>
                 (NameIn(ws, base, k + 1, n) <=> n = ws[k + 1].value)
           /\ ws[k + 1].field # "fullname" =>
                 (NameIn(ws, base, k + 1, n) <=> NameIn(ws, base, k, n))
<1>1. 1..(k + 1) = (1..k) \cup {k + 1} /\ k + 1 \notin 1..k
  OBVIOUS
<1>2. /\ \A i \in 1..k : (i + 1)..(k + 1) = ((i + 1)..k) \cup {k + 1}
      /\ (k + 1 + 1)..(k + 1) = {}
  OBVIOUS
<1>3. CASE ws[k + 1].field = "fullname"
  <2>1. NameIn(ws, base, k + 1, n) => n = ws[k + 1].value
    BY <1>1, <1>2, <1>3 DEF NameIn
  <2>2. n = ws[k + 1].value => NameIn(ws, base, k + 1, n)
    BY <1>1, <1>2, <1>3 DEF NameIn
  <2> QED
    BY <1>3, <2>1, <2>2
<1>4. CASE ws[k + 1].field # "fullname"
  <2>1. NameIn(ws, base, k + 1, n) => NameIn(ws, base, k, n)
    BY <1>1, <1>2, <1>4 DEF NameIn
  <2>2. NameIn(ws, base, k, n) => NameIn(ws, base, k + 1, n)
    BY <1>1, <1>2, <1>4 DEF NameIn
  <2> QED
    BY <1>4, <2>1, <2>2
<1> QED
  BY <1>3, <1>4

\* The first write moves into the base.
LEMMA NameShift ==
    ASSUME NEW ws, NEW vs, NEW base, NEW k \in Nat, NEW n,
           \A i \in 1..k : vs[i] = ws[i + 1]
    PROVE  NameIn(vs, IF ws[1].field = "fullname" THEN ws[1].value ELSE base, k, n)
              <=> NameIn(ws, base, k + 1, n)
<1> DEFINE c == IF ws[1].field = "fullname" THEN ws[1].value ELSE base
<1>1. /\ \A i \in 1..k : i + 1 \in 1..(k + 1) /\ i + 1 # 1 /\ i \in Nat
      /\ \A i \in 1..k : \A j \in (i + 1)..k : j \in 1..k /\ j + 1 \in (i + 1 + 1)..(k + 1)
      /\ \A i \in 1..(k + 1) : i # 1 => i - 1 \in 1..k /\ i - 1 + 1 = i
      /\ \A i \in 1..(k + 1) : \A j \in (i + 1)..(k + 1) :
            /\ j - 1 \in 1..k /\ j - 1 + 1 = j
            /\ i # 1 => j - 1 \in (i - 1 + 1)..k
      /\ 1 \in 1..(k + 1)
      /\ \A j \in 1..k : j + 1 \in (1 + 1)..(k + 1)
  OBVIOUS
<1> HIDE DEF c
<1>2. ASSUME NameIn(vs, c, k, n) PROVE NameIn(ws, base, k + 1, n)
  <2>1. ASSUME NEW i \in 1..k, vs[i].field = "fullname", vs[i].value = n,
               \A j \in (i + 1)..k : vs[j].field # "fullname"
        PROVE  NameIn(ws, base, k + 1, n)
    <3>1. i + 1 \in 1..(k + 1) /\ ws[i + 1].field = "fullname" /\ ws[i + 1].value = n
      BY <1>1, <2>1
    <3>2. \A j \in (i + 1 + 1)..(k + 1) : ws[j].field # "fullname"
      <4> SUFFICES ASSUME NEW j \in (i + 1 + 1)..(k + 1) PROVE ws[j].field # "fullname"
        OBVIOUS
      <4>1. j - 1 \in (i + 1)..k /\ j - 1 \in 1..k /\ j - 1 + 1 = j
        BY <2>1
      <4>2. vs[j - 1] = ws[j]
        BY <4>1
      <4> QED
        BY <2>1, <4>1, <4>2
    <3> QED
      BY <3>1, <3>2 DEF NameIn
  <2>2. ASSUME \A i \in 1..k : vs[i].field # "fullname", n = c
        PROVE  NameIn(ws, base, k + 1, n)
    <3>1. \A i \in 1..(k + 1) : i # 1 => ws[i].field # "fullname"
      <4> SUFFICES ASSUME NEW i \in 1..(k + 1), i # 1 PROVE ws[i].field # "fullname"
        OBVIOUS
      <4>1. i - 1 \in 1..k /\ i - 1 + 1 = i
        BY <1>1
      <4>2. vs[i - 1] = ws[i]
        BY <4>1
      <4> QED
        BY <2>2, <4>1, <4>2
    <3>2. CASE ws[1].field = "fullname"
      <4>1. ws[1].value = n
        BY <2>2, <3>2 DEF c
      <4>2. \A j \in (1 + 1)..(k + 1) : j \in 1..(k + 1) /\ j # 1
        OBVIOUS
      <4> QED
        BY <1>1, <3>1, <3>2, <4>1, <4>2 DEF NameIn
    <3>3. CASE ws[1].field # "fullname"
      BY <2>2, <3>1, <3>3 DEF NameIn, c
    <3> QED
      BY <3>2, <3>3
  <2> QED
    BY <1>2, <2>1, <2>2 DEF NameIn
<1>3. ASSUME NameIn(ws, base, k + 1, n) PROVE NameIn(vs, c, k, n)
  <2>1. ASSUME NEW i \in 1..(k + 1), ws[i].field = "fullname", ws[i].value = n,
               \A j \in (i + 1)..(k + 1) : ws[j].field # "fullname"
        PROVE  NameIn(vs, c, k, n)
    <3>1. CASE i = 1
      <4>1. n = c
        BY <2>1, <3>1 DEF c
      <4>2. \A j \in 1..k : vs[j].field # "fullname"
        BY <1>1, <2>1, <3>1
      <4> QED
        BY <4>1, <4>2 DEF NameIn
    <3>2. CASE i # 1
      <4>1. i - 1 \in 1..k /\ vs[i - 1] = ws[i]
        <5>1. i - 1 \in 1..k /\ i - 1 + 1 = i
          BY <1>1, <3>2
        <5> QED
          BY <5>1
      <4>2. \A j \in (i - 1 + 1)..k : vs[j].field # "fullname"
        <5> SUFFICES ASSUME NEW j \in (i - 1 + 1)..k PROVE vs[j].field # "fullname"
          OBVIOUS
        <5>1. j \in 1..k /\ j + 1 \in (i + 1)..(k + 1)
          OBVIOUS
        <5> QED
          BY <2>1, <5>1
      <4> QED
        BY <2>1, <4>1, <4>2 DEF NameIn
    <3> QED
      BY <3>1, <3>2
  <2>2. ASSUME \A i \in 1..(k + 1) : ws[i].field # "fullname", n = base
        PROVE  NameIn(vs, c, k, n)
    BY <1>1, <2>2 DEF NameIn, c
  <2> QED
    BY <1>3, <2>1, <2>2 DEF NameIn
<1> QED
  BY <1>2, <1>3 DEF c

\* There is one such name.
LEMMA NameOnly ==
    ASSUME NEW ws, NEW base, NEW k \in Nat, NEW m, NEW n,
           NameIn(ws, base, k, m), NameIn(ws, base, k, n)
    PROVE  m = n
<1>1. \A i, j \in 1..k : i = j \/ j \in (i + 1)..k \/ i \in (j + 1)..k
  OBVIOUS
<1> QED
  BY <1>1 DEF NameIn

LEMMA SavesInit == Init => SavesInv
<1> SUFFICES ASSUME Init PROVE SavesInv
  OBVIOUS
<1>1. /\ writes = <<>> /\ stored = 0 /\ Len(writes) = 0 /\ DOMAIN writes = {}
      /\ server.fullname = OldName /\ lastSaved = OldName /\ lastStored = OldName
      /\ fetching = <<GetDocument(Home, 0, OldName)>>
  BY DEF Init
<1>2. \A n : NameIn(writes, OldName, 0, n) <=> n = OldName
  BY DEF NameIn
<1>3. /\ DOMAIN fetching = {1}
      /\ fetching[1].behind = 0 /\ fetching[1].fresh = {OldName}
  BY <1>1 DEF GetDocument
<1>4. ClosuresKept /\ WaitsForTasks
  BY <1>1, <1>3 DEF ClosuresKept, WaitsForTasks
<1>5. NamesRead
  <2>1. \A k \in (0 + 0)..0 : k = 0
    OBVIOUS
  <2> QED
    BY <1>1, <1>2, <1>3, <2>1 DEF NamesRead
<1> QED
  BY <1>1, <1>2, <1>4, <1>5 DEF SavesInv

\* Steps that at most end fetches.
LEMMA SavesSame ==
    ASSUME SavesInv, UNCHANGED <<writes, stored, server, lastSaved, lastStored, rejected>>,
           \A i \in DOMAIN fetching' : \E j \in DOMAIN fetching : fetching'[i] = fetching[j]
    PROVE  SavesInv'
<1>1. ClosuresKept' /\ WaitsForTasks'
  BY DEF SavesInv, ClosuresKept, WaitsForTasks
<1>2. NamesRead => NamesRead'
  BY DEF NamesRead
<1> QED
  BY <1>1, <1>2 DEF SavesInv

\* A screen is opened: its fetch waits for every write there is.
LEMMA SavesOpen ==
    ASSUME TypeOK, SavesInv, NEW e \in Sessions, HandleEditProfile(e)
    PROVE  SavesInv'
<1> DEFINE f == GetDocument(e, Len(writes) - stored, lastSaved)
           n == Len(fetching) + 1
<1>1. /\ UNCHANGED <<writes, stored, server, lastSaved, lastStored, rejected>>
      /\ fetching' = Append(fetching, f) /\ fetching \in Seq(Fetch)
  BY DEF TypeOK, HandleEditProfile
<1>2. f.behind = Len(writes) - stored /\ f.fresh = {lastSaved}
  BY DEF GetDocument
<1> HIDE DEF f
<1>3. /\ DOMAIN fetching' = DOMAIN fetching \cup {n} /\ fetching'[n] = f
      /\ \A i \in DOMAIN fetching : fetching'[i] = fetching[i]
  BY <1>1
<1> HIDE DEF n
<1>4. Len(writes) \in Nat /\ stored \in Nat /\ Len(writes) - stored <= Len(writes) - stored
  BY Queues
<1>5. ClosuresKept' /\ WaitsForTasks'
  BY <1>1, <1>2, <1>3, <1>4 DEF SavesInv, ClosuresKept, WaitsForTasks
<1>6. ASSUME ~rejected PROVE NamesRead'
  <2>1. \A k \in (stored + f.behind)..Len(writes) : k = Len(writes)
    BY <1>2, <1>4
  <2>2. \A m : NameIn(writes, server.fullname, Len(writes), m) => m = lastSaved
    BY <1>4, <1>6, NameOnly DEF SavesInv
  <2>3. \A k \in (stored + f.behind)..Len(writes) :
           \A m : NameIn(writes, server.fullname, k, m) => m \in f.fresh
    BY <1>2, <2>1, <2>2
  <2> QED
    BY <1>1, <1>3, <1>6, <2>3 DEF SavesInv, NamesRead
<1> QED
  BY <1>1, <1>5, <1>6 DEF SavesInv

\* A write with a closure joins the queue: the picture's changes no name, the
\* name's becomes the one saved last.
LEMMA SavesAppend ==
    ASSUME TypeOK, ClosuresKept, WaitsForTasks, NEW w \in Write, w.done # Nil,
           NEW saved, NEW fs, NEW ws,
           ws = Append(writes, w), DOMAIN fs = DOMAIN fetching,
           \A i \in DOMAIN fs : fs[i].behind = fetching[i].behind
    PROVE  /\ ws \in Seq(Write) /\ Len(ws) = Len(writes) + 1
           /\ \A i \in DOMAIN ws : i > stored => ws[i].done # Nil
           /\ \A i \in DOMAIN fs : fs[i].behind <= Len(ws) - stored
           /\ \A n : \A k \in 0..Len(writes) :
                 NameIn(ws, server.fullname, k, n) <=> NameIn(writes, server.fullname, k, n)
           /\ \A n : w.field = "fullname" =>
                 (NameIn(ws, server.fullname, Len(ws), n) <=> n = w.value)
           /\ \A n : w.field # "fullname" =>
                 (NameIn(ws, server.fullname, Len(ws), n)
                    <=> NameIn(writes, server.fullname, Len(writes), n))
<1>1. /\ writes \in Seq(Write) /\ Len(writes) \in Nat /\ DOMAIN writes = 1..Len(writes)
      /\ stored \in Nat /\ fetching \in Seq(Fetch)
  BY Queues DEF TypeOK
<1>2. /\ ws \in Seq(Write) /\ Len(ws) = Len(writes) + 1 /\ ws[Len(writes) + 1] = w
      /\ DOMAIN ws = DOMAIN writes \cup {Len(writes) + 1}
      /\ \A i \in 1..Len(writes) : ws[i] = writes[i]
  BY <1>1
<1>3. \A i \in DOMAIN ws : i > stored => ws[i].done # Nil
  BY <1>1, <1>2 DEF ClosuresKept
<1>4. \A i \in DOMAIN fs : fs[i].behind <= Len(ws) - stored
  <2> SUFFICES ASSUME NEW i \in DOMAIN fetching PROVE fetching[i].behind <= Len(ws) - stored
    OBVIOUS
  <2>1. fetching[i].behind \in Nat /\ fetching[i].behind <= Len(writes) - stored
    BY FetchFacts DEF WaitsForTasks
  <2> QED
    BY <1>1, <1>2, <2>1
<1>5. ASSUME NEW n, NEW k \in 0..Len(writes)
      PROVE  NameIn(ws, server.fullname, k, n) <=> NameIn(writes, server.fullname, k, n)
  <2>1. k \in Nat /\ \A i \in 1..k : ws[i] = writes[i]
    BY <1>1, <1>2
  <2> QED
    BY <2>1, NameSame
<1>6. Len(writes) \in 0..Len(writes)
  BY <1>1
<1>7. ASSUME NEW n
      PROVE  /\ w.field = "fullname" => (NameIn(ws, server.fullname, Len(ws), n) <=> n = w.value)
             /\ w.field # "fullname" =>
                 (NameIn(ws, server.fullname, Len(ws), n)
                    <=> NameIn(ws, server.fullname, Len(writes), n))
  <2>1. ws[Len(writes) + 1] = w /\ Len(ws) = Len(writes) + 1 /\ Len(writes) \in Nat
    BY <1>1, <1>2
  <2> QED
    BY ONLY <2>1, NameMore
<1> QED
  BY <1>2, <1>3, <1>4, <1>5, <1>6, <1>7

\* The fetches accept a name that joins them.
LEMMA SavesSave ==
    ASSUME TypeOK, SavesInv, NEW e \in Sessions, HandleDone(e)
    PROVE  SavesInv'
<1> DEFINE w == [field |-> "fullname", value |-> EditedUser(e).fullname,
                 done |-> Saved(e, EditedUser(e))]
           one == Append(writes, w)
           two == Append(one, w)
<1>1. /\ UNCHANGED <<server, stored, lastStored, rejected>> /\ writes \in Seq(Write)
      /\ writes' = writes \o FullnameWrites(e) /\ edit[e] \in Editor
      /\ fetching \in Seq(Fetch) /\ stored \in Nat /\ Len(writes) \in Nat
      /\ stored <= Len(writes) /\ ~UnwrapsNil(e) /\ CanSave(e)
  BY Queues DEF TypeOK, HandleDone
<1>2. CASE edit[e].fullname = Nil
  <2>1. UNCHANGED <<writes, fetching, lastSaved>>
    BY <1>1, <1>2 DEF HandleDone, FullnameWrites
  <2> QED
    BY <1>1, <2>1, SavesSame
<1>3. CASE edit[e].fullname # Nil
  <2>1. /\ edit[e].fullname \in Names /\ lastSaved' = edit[e].fullname
        /\ fetching' = Refreshed(edit[e].fullname)
    BY <1>1, <1>3 DEF HandleDone, Editor, Refreshed
  <2>2. /\ DOMAIN fetching' = DOMAIN fetching
        /\ \A i \in DOMAIN fetching : /\ fetching'[i].behind = fetching[i].behind
                                      /\ fetching'[i].fresh = fetching[i].fresh \cup {lastSaved'}
    BY <1>1, <2>1, Fetches
  <2>3. /\ w \in Write /\ w.done # Nil /\ w.field = "fullname" /\ w.value = lastSaved'
    <3>1. EditedUser(e) \in User /\ Saved(e, EditedUser(e)) \in Callback
      BY <1>1, Edited, Constructors
    <3> QED
      BY <1>3, <2>1, <3>1, NilRecordAssumption DEF Write, User, EditedUser
  <2> HIDE DEF w
  <2>4. writes' = one \/ writes' = two
    <3>1. edit[e].imageChanged \in BOOLEAN
      BY <1>1 DEF Editor
    <3>2. FullnameWrites(e) \in {<<w>>, <<w, w>>}
      BY <1>3, <3>1 DEF FullnameWrites, w
    <3>3. writes \o <<w>> = one
      BY <1>1, <2>3, AppendIsConcat
    <3>4. writes \o <<w, w>> = two
      <4>1. <<w, w>> = <<w>> \o <<w>> /\ <<w>> \in Seq(Write)
        BY <2>3
      <4>2. one \in Seq(Write)
        BY <1>1, <2>3
      <4> QED
        BY <1>1, <2>3, <3>3, <4>1, <4>2, ConcatAssociative, AppendIsConcat
    <3> QED
      BY <1>1, <3>2, <3>3, <3>4
  <2>5. /\ writes' \in Seq(Write) /\ Len(writes') >= Len(writes) /\ Len(writes') \in Nat
        /\ \A i \in DOMAIN writes : writes'[i] = writes[i]
        /\ \A i \in DOMAIN writes' : i \notin DOMAIN writes => writes'[i] = w
        /\ DOMAIN writes' = 1..Len(writes') /\ Len(writes') > Len(writes)
        /\ DOMAIN writes = 1..Len(writes)
    <3>1. one \in Seq(Write) /\ two \in Seq(Write)
      BY <1>1, <2>3
    <3>2. CASE writes' = one
      BY <1>1, <2>3, <3>1, <3>2
    <3>3. CASE writes' = two
      BY <1>1, <2>3, <3>1, <3>3
    <3> QED
      BY <2>4, <3>2, <3>3
  <2> HIDE DEF one, two
  <2>6. ClosuresKept'
    <3> SUFFICES ASSUME NEW i \in DOMAIN writes', i > stored PROVE writes'[i].done # Nil
      BY <1>1 DEF ClosuresKept
    <3>1. CASE i \in DOMAIN writes
      BY <2>5, <3>1 DEF SavesInv, ClosuresKept
    <3> QED
      BY <2>3, <2>5, <3>1
  <2>7. WaitsForTasks'
    <3> SUFFICES ASSUME NEW i \in DOMAIN fetching
                 PROVE  fetching[i].behind <= Len(writes') - stored
      BY <1>1, <2>2 DEF WaitsForTasks
    <3>1. fetching[i].behind \in Nat /\ fetching[i].behind <= Len(writes) - stored
      BY FetchFacts DEF SavesInv, WaitsForTasks
    <3> QED
      BY <1>1, <2>5, <3>1
  <2>8. ASSUME NEW k \in 0..Len(writes), NEW n
        PROVE  NameIn(writes', server.fullname, k, n) <=> NameIn(writes, server.fullname, k, n)
    <3>1. k \in Nat /\ \A i \in 1..k : writes'[i] = writes[i]
      BY <1>1, <2>5
    <3> QED
      BY <3>1, NameSame
  <2>9. ASSUME NEW k \in (Len(writes) + 1)..Len(writes'), NEW n
        PROVE  NameIn(writes', server.fullname, k, n) <=> n = lastSaved'
    <3>1. k - 1 \in Nat /\ k - 1 + 1 = k /\ k \in DOMAIN writes' /\ k \notin DOMAIN writes
      BY <1>1, <2>5
    <3>2. writes'[k] = w
      BY <2>5, <3>1
    <3>3. writes'[k - 1 + 1].field = "fullname" /\ writes'[k - 1 + 1].value = lastSaved'
      BY <2>3, <3>1, <3>2
    <3> QED
      BY <3>1, <3>3, NameMore
  <2>10. ASSUME ~rejected PROVE NamesRead'
    <3> SUFFICES ASSUME NEW i \in DOMAIN fetching,
                        NEW k \in (stored + fetching[i].behind)..Len(writes'), NEW n,
                        NameIn(writes', server.fullname, k, n)
                 PROVE  n \in fetching'[i].fresh
      BY <1>1, <2>2 DEF NamesRead
    <3>1. fetching[i].behind \in Nat /\ k \in Nat /\ k <= Len(writes')
      <4>1. fetching[i].behind \in Nat
        BY FetchFacts
      <4> QED
        BY <1>1, <2>5, <4>1
    <3>2. CASE k <= Len(writes)
      <4>1. k \in 0..Len(writes) /\ k \in (stored + fetching[i].behind)..Len(writes)
        BY <1>1, <3>1, <3>2
      <4>2. NameIn(writes, server.fullname, k, n)
        BY <2>8, <4>1
      <4>3. n \in fetching[i].fresh
        BY <2>10, <4>1, <4>2 DEF SavesInv, NamesRead
      <4> QED
        BY <2>2, <4>3
    <3>3. CASE k > Len(writes)
      <4>1. k \in (Len(writes) + 1)..Len(writes')
        BY <1>1, <3>1, <3>3
      <4>2. n = lastSaved'
        BY <2>9, <4>1
      <4> QED
        BY <2>2, <4>2
    <3> QED
      BY <1>1, <3>1, <3>2, <3>3
  <2>11. Len(writes') \in (Len(writes) + 1)..Len(writes') /\ stored \in 0..Len(writes)
    BY <1>1, <2>5
  <2>12. ~rejected => /\ NameIn(writes', server.fullname, Len(writes'), lastSaved')
                      /\ NameIn(writes', server.fullname, stored, lastStored)
    BY <2>8, <2>9, <2>11 DEF SavesInv
  <2> QED
    BY <1>1, <2>6, <2>7, <2>10, <2>12 DEF SavesInv
<1> QED
  BY <1>2, <1>3

\* The URL of a picture joins the queue.
LEMMA SavesUpload ==
    ASSUME TypeOK, SavesInv, NEW u \in Uploads, DownloadURLReply(u)
    PROVE  SavesInv'
<1> DEFINE w == [field |-> "profileImageUrl", value |-> u,
                 done |-> ImageWritten(upload[u].owner, u)]
<1>1. /\ UNCHANGED <<server, stored, lastSaved, lastStored, rejected, fetching>>
      /\ writes' = Append(writes, w) /\ upload[u] \in Upload /\ upload[u].stage = "locating"
  BY DEF TypeOK, DownloadURLReply
<1>2. upload[u].owner \in Sessions
  BY <1>1 DEF Upload, Running
<1>3. w \in Write /\ w.done # Nil /\ w.field # "fullname"
  BY <1>2, Constructors, NilRecordAssumption DEF Write, Urls
<1> HIDE DEF w
<1>4. /\ Len(writes') = Len(writes) + 1
      /\ \A i \in DOMAIN writes' : i > stored => writes'[i].done # Nil
      /\ \A i \in DOMAIN fetching : fetching[i].behind <= Len(writes') - stored
      /\ \A n : \A k \in 0..Len(writes) :
            NameIn(writes', server.fullname, k, n) <=> NameIn(writes, server.fullname, k, n)
      /\ \A n : NameIn(writes', server.fullname, Len(writes'), n)
                   <=> NameIn(writes, server.fullname, Len(writes), n)
  <2>1. ClosuresKept /\ WaitsForTasks
    BY DEF SavesInv
  <2> QED
    BY <1>1, <1>3, <2>1, SavesAppend
<1>5. Len(writes) \in Nat /\ stored \in Nat /\ stored \in 0..Len(writes) /\ fetching \in Seq(Fetch)
  BY Queues DEF TypeOK
<1>6. ClosuresKept' /\ WaitsForTasks'
  BY <1>1, <1>4 DEF ClosuresKept, WaitsForTasks
<1>7. ASSUME ~rejected PROVE NamesRead'
  <2> SUFFICES ASSUME NEW i \in DOMAIN fetching,
                      NEW k \in (stored + fetching[i].behind)..Len(writes'), NEW n,
                      NameIn(writes', server.fullname, k, n)
               PROVE  n \in fetching[i].fresh
    BY <1>1 DEF NamesRead
  <2>1. fetching[i].behind \in Nat /\ fetching[i].behind <= Len(writes) - stored
    BY FetchFacts DEF SavesInv, WaitsForTasks
  <2>2. CASE k <= Len(writes)
    <3>1. k \in 0..Len(writes) /\ k \in (stored + fetching[i].behind)..Len(writes)
      BY <1>5, <2>1, <2>2
    <3>2. NameIn(writes, server.fullname, k, n)
      BY <1>4, <3>1
    <3> QED
      BY <1>7, <3>1, <3>2 DEF SavesInv, NamesRead
  <2>3. CASE k > Len(writes)
    <3>1. k = Len(writes')
      BY <1>4, <1>5, <2>1, <2>3
    <3>2. Len(writes) \in (stored + fetching[i].behind)..Len(writes)
      BY <1>5, <2>1
    <3>3. NameIn(writes, server.fullname, Len(writes), n)
      BY <1>4, <3>1
    <3> QED
      BY <1>7, <3>2, <3>3 DEF SavesInv, NamesRead
  <2>4. k <= Len(writes) \/ k > Len(writes)
    BY <1>5, <2>1
  <2> QED
    BY <2>2, <2>3, <2>4
<1>8. ~rejected => /\ NameIn(writes', server.fullname, Len(writes'), lastSaved)
                   /\ NameIn(writes', server.fullname, stored, lastStored)
  BY <1>4, <1>5 DEF SavesInv
<1> QED
  BY <1>1, <1>6, <1>7, <1>8 DEF SavesInv

\* A task of the worker queue runs: fetches wait for one write less.
LEMMA SavesStore ==
    ASSUME TypeOK, SavesInv, StoreWrite
    PROVE  SavesInv'
<1>1. /\ UNCHANGED <<writes, server, lastSaved, rejected>> /\ stored' = stored + 1
      /\ stored < Len(writes) /\ stored \in Nat /\ Len(writes) \in Nat
      /\ lastStored' = IF writes[stored + 1].field = "fullname" THEN writes[stored + 1].value
                                                               ELSE lastStored
      /\ fetching' = Advanced /\ fetching \in Seq(Fetch)
  BY Queues DEF TypeOK, StoreWrite, Advanced
<1>2. /\ DOMAIN fetching' = DOMAIN fetching
      /\ \A i \in DOMAIN fetching :
            /\ fetching'[i].behind = IF fetching[i].behind = 0 THEN 0 ELSE fetching[i].behind - 1
            /\ fetching'[i].fresh = fetching[i].fresh
            /\ fetching[i].behind \in Nat
            /\ fetching[i].behind <= Len(writes) - stored
  BY <1>1, Fetches, FetchFacts DEF SavesInv, WaitsForTasks
<1>3. ASSUME NEW i \in DOMAIN fetching
      PROVE  /\ fetching'[i].behind <= Len(writes) - (stored + 1)
             /\ stored + fetching[i].behind <= stored + 1 + fetching'[i].behind
  <2>1. fetching[i].behind \in Nat /\ fetching[i].behind <= Len(writes) - stored
    BY <1>2
  <2>2. CASE fetching[i].behind = 0
    <3>1. fetching'[i].behind = 0
      BY <1>2, <2>2
    <3> QED
      BY <1>1, <2>2, <3>1
  <2>3. CASE fetching[i].behind # 0
    <3>1. fetching'[i].behind = fetching[i].behind - 1
      BY <1>2, <2>3
    <3> QED
      BY <1>1, <2>1, <3>1
  <2> QED
    BY <2>2, <2>3
<1>4. ClosuresKept' /\ WaitsForTasks'
  <2>1. ClosuresKept'
    <3>1. \A i \in DOMAIN writes : i > stored + 1 => i > stored
      BY <1>1 DEF TypeOK
    <3> QED
      BY <1>1, <3>1 DEF SavesInv, ClosuresKept
  <2> QED
    BY <1>1, <1>2, <1>3, <2>1 DEF WaitsForTasks
<1>5. NamesRead => NamesRead'
  <2> SUFFICES ASSUME NamesRead, NEW i \in DOMAIN fetching,
                      NEW k \in (stored + 1 + fetching'[i].behind)..Len(writes), NEW n,
                      NameIn(writes, server.fullname, k, n)
               PROVE  n \in fetching[i].fresh
    BY <1>1, <1>2 DEF NamesRead
  <2>1. stored + fetching[i].behind \in Nat /\ stored + 1 + fetching'[i].behind \in Nat
    <3>1. fetching[i].behind \in Nat
      BY <1>2
    <3>2. CASE fetching[i].behind = 0
      <4>1. fetching'[i].behind = 0
        BY <1>2, <3>2
      <4> QED
        BY <1>1, <3>2, <4>1
    <3>3. CASE fetching[i].behind # 0
      <4>1. fetching'[i].behind = fetching[i].behind - 1
        BY <1>2, <3>3
      <4> QED
        BY <1>1, <3>1, <3>3, <4>1
    <3> QED
      BY <3>2, <3>3
  <2>2. k \in (stored + fetching[i].behind)..Len(writes)
    BY <1>1, <1>3, <2>1
  <2> QED
    BY <2>2 DEF NamesRead
<1>6. \A n : /\ writes[stored + 1].field = "fullname" =>
                  (NameIn(writes, server.fullname, stored + 1, n) <=> n = writes[stored + 1].value)
             /\ writes[stored + 1].field # "fullname" =>
                  (NameIn(writes, server.fullname, stored + 1, n)
                      <=> NameIn(writes, server.fullname, stored, n))
  BY <1>1, NameMore
<1>7. ~rejected => NameIn(writes, server.fullname, stored + 1, lastStored')
  BY <1>1, <1>6 DEF SavesInv
<1> QED
  BY <1>1, <1>4, <1>5, <1>7 DEF SavesInv

\* The server answers a write.
LEMMA SavesWrite ==
    ASSUME TypeOK, SavesInv, WriteAck \/ WriteReject
    PROVE  SavesInv'
<1> DEFINE base == IF writes[1].field = "fullname" THEN writes[1].value ELSE server.fullname
<1>1. /\ UNCHANGED <<lastSaved, lastStored, fetching>> /\ writes' = Tail(writes)
      /\ stored > 0 /\ stored' = stored - 1 /\ (~rejected' => WriteAck /\ ~rejected)
      /\ writes \in Seq(Write) /\ writes # <<>> /\ Len(writes) \in Nat /\ stored \in Nat
      /\ stored <= Len(writes) /\ fetching \in Seq(Fetch)
  BY Queues DEF TypeOK, WriteAck, WriteReject, Dequeue
<1>2. /\ Len(writes') = Len(writes) - 1 /\ DOMAIN writes' = 1..(Len(writes) - 1)
      /\ \A i \in 1..(Len(writes) - 1) : writes'[i] = writes[i + 1] /\ i + 1 \in DOMAIN writes
      /\ 1 \in DOMAIN writes /\ Head(writes) = writes[1] /\ writes[1] \in Write
  BY <1>1
<1>3. WriteAck => server'.fullname = base
  <2> SUFFICES ASSUME WriteAck PROVE server'.fullname = base
    OBVIOUS
  <2>1. server' = [server EXCEPT ![writes[1].field] = writes[1].value] /\ server \in User
    BY <1>2 DEF WriteAck, TypeOK
  <2> QED
    BY <1>2, <2>1 DEF Write, User
<1> HIDE DEF base
<1>4. ASSUME NEW k \in 0..(Len(writes) - 1), NEW n
      PROVE  NameIn(writes', base, k, n) <=> NameIn(writes, server.fullname, k + 1, n)
  <2>1. k \in Nat /\ \A i \in 1..k : writes'[i] = writes[i + 1]
    BY <1>1, <1>2
  <2> QED
    BY <2>1, NameShift DEF base
<1>5. ClosuresKept'
  <2> SUFFICES ASSUME NEW i \in 1..(Len(writes) - 1), i > stored - 1
               PROVE  writes'[i].done # Nil
    BY <1>1, <1>2 DEF ClosuresKept
  <2>1. i + 1 > stored /\ i + 1 \in DOMAIN writes /\ writes'[i] = writes[i + 1]
    BY <1>1, <1>2
  <2> QED
    BY <2>1 DEF SavesInv, ClosuresKept
<1>6. WaitsForTasks'
  <2>1. Len(writes') - stored' = Len(writes) - stored
    BY <1>1, <1>2
  <2> QED
    BY <1>1, <2>1 DEF SavesInv, WaitsForTasks
<1>7. ASSUME ~rejected' PROVE NamesRead'
  <2> SUFFICES ASSUME NEW i \in DOMAIN fetching,
                      NEW k \in (stored - 1 + fetching[i].behind)..(Len(writes) - 1), NEW n,
                      NameIn(writes', base, k, n)
               PROVE  n \in fetching[i].fresh
    BY <1>1, <1>2, <1>3, <1>7 DEF NamesRead
  <2>1. fetching[i].behind \in Nat
    BY FetchFacts
  <2>2. /\ k \in 0..(Len(writes) - 1)
        /\ k + 1 \in (stored + fetching[i].behind)..Len(writes)
    BY <1>1, <2>1
  <2>3. NameIn(writes, server.fullname, k + 1, n)
    BY <1>4, <2>2
  <2> QED
    BY <1>1, <1>7, <2>2, <2>3 DEF SavesInv, NamesRead
<1>8. ASSUME ~rejected'
      PROVE  /\ NameIn(writes', base, Len(writes) - 1, lastSaved)
             /\ NameIn(writes', base, stored - 1, lastStored)
  <2>1. /\ Len(writes) - 1 \in 0..(Len(writes) - 1) /\ stored - 1 \in 0..(Len(writes) - 1)
        /\ Len(writes) - 1 + 1 = Len(writes) /\ stored - 1 + 1 = stored
    BY <1>1
  <2> QED
    BY <1>1, <1>4, <1>8, <2>1 DEF SavesInv
<1> QED
  BY <1>1, <1>2, <1>3, <1>5, <1>6, <1>7, <1>8 DEF SavesInv

\* The process is launched again: what was saved last is what was stored last.
LEMMA SavesRestart ==
    ASSUME TypeOK, SavesInv, Restart
    PROVE  SavesInv'
<1>1. /\ UNCHANGED <<server, stored, rejected, lastStored>> /\ lastSaved' = lastStored
      /\ writes' = [i \in 1..stored |-> [writes[i] EXCEPT !.done = Nil]]
      /\ fetching' = <<GetDocument(Home, 0, lastStored)>>
      /\ stored \in Nat /\ \A i \in 1..stored : writes[i] \in Write
  BY Queues DEF Restart, Relaunched
<1>2. Len(writes') = stored /\ DOMAIN writes' = 1..stored
  BY <1>1
<1>3. \A i \in 1..stored : writes'[i].field = writes[i].field /\ writes'[i].value = writes[i].value
  BY <1>1 DEF Write
<1>4. \A n : NameIn(writes', server.fullname, stored, n)
                <=> NameIn(writes, server.fullname, stored, n)
  BY <1>1, <1>3, NameSame
<1>5. DOMAIN fetching' = {1} /\ fetching'[1].behind = 0 /\ fetching'[1].fresh = {lastStored}
  BY <1>1 DEF GetDocument
<1>6. ClosuresKept' /\ WaitsForTasks'
  BY <1>1, <1>2, <1>5 DEF ClosuresKept, WaitsForTasks
<1>7. ~rejected => NameIn(writes', server.fullname, stored, lastStored)
  BY <1>4 DEF SavesInv
<1>8. ASSUME ~rejected PROVE NamesRead'
  <2>1. \A k \in (stored + 0)..stored : k = stored
    BY <1>1
  <2>2. \A n : NameIn(writes', server.fullname, stored, n) => n = lastStored
    BY <1>1, <1>7, <1>8, NameOnly
  <2> QED
    BY <1>1, <1>2, <1>5, <2>1, <2>2 DEF NamesRead
<1> QED
  BY <1>1, <1>2, <1>6, <1>7, <1>8 DEF SavesInv

LEMMA SavesNext == TypeOK /\ SavesInv /\ [Next]_vars => SavesInv'
<1> SUFFICES ASSUME TypeOK, SavesInv, [Next]_vars PROVE SavesInv'
  OBVIOUS
<1>1. CASE UNCHANGED <<writes, stored, server, lastSaved, lastStored, rejected, fetching>>
  BY <1>1, SavesSame
<1>2. ASSUME FetchReply \/ FetchError PROVE SavesInv'
  <2>1. /\ UNCHANGED <<writes, stored, server, lastSaved, lastStored, rejected>>
        /\ fetching \in Seq(Fetch) /\ fetching # <<>> /\ fetching' = Tail(fetching)
    BY <1>2 DEF TypeOK, FetchReply, FetchError
  <2>2. \A i \in DOMAIN fetching' : i + 1 \in DOMAIN fetching /\ fetching'[i] = fetching[i + 1]
    BY <2>1
  <2> QED
    BY <2>1, <2>2, SavesSame
<1>3. CASE RunMainQueue
  BY <1>1, <1>3 DEF RunMainQueue, UserFetched, UserDataUpdated, ProfileImageUpdated
<1>4. ASSUME NEW e \in Sessions, Tap(e) \/ Deallocate(e) PROVE SavesInv'
  BY <1>1, <1>4, SavesOpen, SavesSave, SavesRestart
     DEF Tap, HandleUpdateUserFullname, HandleChangeProfilePhoto, DidFinishPicking,
         HandleCancel, HandleDoneTraps, Deallocate
<1>5. CASE PickerDidCancel \/ AnimationFinished \/ Kill
  BY <1>1, <1>5, SavesRestart DEF PickerDidCancel, AnimationFinished, Kill
<1>6. CASE Storing
  BY <1>1, <1>6, SavesUpload DEF Storing, PutDataReply, DownloadURLError
<1>7. CASE UNCHANGED vars
  BY <1>1, <1>7 DEF vars
<1> QED
  BY <1>2, <1>3, <1>4, <1>5, <1>6, <1>7, SavesStore, SavesWrite DEF Next, Fetching, Writing

LEMMA SavesRead == TypeOK /\ SavesInv => FetchReadsSavedName
<1> SUFFICES ASSUME TypeOK, SavesInv, ~rejected,
                    NEW i \in DOMAIN fetching, fetching[i].behind = 0,
                    NEW n \in Names, LocalValue("fullname", n)
             PROVE  n \in fetching[i].fresh
  BY DEF FetchReadsSavedName, ListenerRan
<1>1. NameIn(writes, server.fullname, stored, n)
  BY DEF LocalValue, ValueAfter, NameIn
<1>2. stored \in (stored + fetching[i].behind)..Len(writes)
  BY Queues
<1> QED
  BY <1>1, <1>2 DEF SavesInv, NamesRead

\* Every fetch reads the name saved last when it was called or a later one,
\* also when it was called while writes wait for their task
\* (firestore_client.cc:472), and in every interleaving with the tasks, the
\* answers of the server, further saves and kills.
THEOREM FetchReadsSavedNameCorrect == Spec => []FetchReadsSavedName
<1> QED
  BY SavesRead, SavesInit, SavesNext, TypeCorrect, PTL DEF Spec

\* Once the queue is empty, the profile on the server holds the name saved
\* last, where a kill undoes the saves whose task had not run and no others:
\* a write that LocalStore has stored survives any number of restarts.
THEOREM SavedNameDurableCorrect == Spec => []SavedNameDurable
<1>1. TypeOK /\ SavesInv => SavedNameDurable
  <2> SUFFICES ASSUME TypeOK, SavesInv, writes = <<>>, ~rejected
               PROVE  server.fullname = lastSaved
    BY DEF SavedNameDurable
  <2>1. NameIn(writes, server.fullname, 0, lastSaved)
    BY DEF SavesInv
  <2> QED
    BY <2>1 DEF NameIn
<1> QED
  BY <1>1, SavesInit, SavesNext, TypeCorrect, PTL DEF Spec

-----------------------------------------------------------------------------
(* Home shows the name saved last once everything has drained.              *)

\* Entries of a queue: none is in S; and the last one in S is in T.
None(seq, S) == \A i \in DOMAIN seq : seq[i] \notin S
Latest(seq, S, T) ==
    \E i \in DOMAIN seq : seq[i] \in T /\ \A j \in DOMAIN seq : j > i => seq[j] \notin S

\* The first entry leaves.
LEMMA QueueTail ==
    ASSUME NEW U, NEW seq \in Seq(U), seq # <<>>, NEW S, NEW T
    PROVE  /\ Head(seq) \in U /\ Tail(seq) \in Seq(U)
           /\ None(seq, S) => Head(seq) \notin S /\ None(Tail(seq), S)
           /\ Latest(seq, S, T) =>
                 Latest(Tail(seq), S, T) \/ (Head(seq) \in T /\ None(Tail(seq), S))
<1> DEFINE rest == Tail(seq)
<1>1. /\ 1 \in DOMAIN seq /\ Head(seq) = seq[1] /\ Head(seq) \in U /\ rest \in Seq(U)
      /\ \A i \in DOMAIN rest : /\ i + 1 \in DOMAIN seq /\ rest[i] = seq[i + 1]
                                /\ i \in Nat /\ i >= 1
      /\ \A i \in DOMAIN seq : i \in Nat /\
            (i # 1 => i - 1 \in DOMAIN rest /\ rest[i - 1] = seq[i])
  OBVIOUS
<1> HIDE DEF rest
<1>2. None(seq, S) => Head(seq) \notin S /\ None(rest, S)
  BY <1>1 DEF None
<1>3. ASSUME Latest(seq, S, T) PROVE Latest(rest, S, T) \/ (Head(seq) \in T /\ None(rest, S))
  <2>1. PICK i \in DOMAIN seq : /\ seq[i] \in T
                                /\ \A j \in DOMAIN seq : j > i => seq[j] \notin S
    BY <1>3 DEF Latest
  <2>2. CASE i = 1
    <3>1. ASSUME NEW j \in DOMAIN rest PROVE rest[j] \notin S
      <4>1. j + 1 > i /\ j + 1 \in DOMAIN seq /\ rest[j] = seq[j + 1]
        BY <1>1, <2>2
      <4> QED
        BY <2>1, <4>1
    <3> QED
      BY <1>1, <2>1, <2>2, <3>1 DEF None
  <2>3. CASE i # 1
    <3>1. i - 1 \in DOMAIN rest /\ rest[i - 1] \in T
      BY <1>1, <2>1, <2>3
    <3>2. ASSUME NEW j \in DOMAIN rest, j > i - 1 PROVE rest[j] \notin S
      <4>1. j \in Nat /\ i \in Nat /\ j + 1 \in DOMAIN seq /\ rest[j] = seq[j + 1]
        BY <1>1
      <4>2. j + 1 > i
        BY <3>2, <4>1
      <4> QED
        BY <2>1, <4>1, <4>2
    <3> QED
      BY <3>1, <3>2 DEF Latest
  <2> QED
    BY <2>2, <2>3
<1> QED
  BY <1>1, <1>2, <1>3 DEF rest

\* A new entry.
LEMMA QueueAppend ==
    ASSUME NEW U, NEW seq \in Seq(U), NEW x \in U, NEW S, NEW T
    PROVE  /\ Append(seq, x) \in Seq(U)
           /\ None(seq, S) /\ x \notin S => None(Append(seq, x), S)
           /\ Latest(seq, S, T) /\ x \notin S => Latest(Append(seq, x), S, T)
           /\ x \in T => Latest(Append(seq, x), S, T)
<1> DEFINE more == Append(seq, x)
           n == Len(seq) + 1
<1>1. /\ more \in Seq(U) /\ DOMAIN more = DOMAIN seq \cup {n} /\ more[n] = x
      /\ \A i \in DOMAIN seq : more[i] = seq[i]
      /\ \A i \in DOMAIN more : ~(i > n)
  OBVIOUS
<1> HIDE DEF more, n
<1>2. None(seq, S) /\ x \notin S => None(more, S)
  BY <1>1 DEF None
<1>3. ASSUME Latest(seq, S, T), x \notin S PROVE Latest(more, S, T)
  <2>1. PICK i \in DOMAIN seq : /\ seq[i] \in T
                                /\ \A j \in DOMAIN seq : j > i => seq[j] \notin S
    BY <1>3 DEF Latest
  <2>2. i \in DOMAIN more /\ more[i] \in T
    BY <1>1, <2>1
  <2>3. ASSUME NEW j \in DOMAIN more, j > i PROVE more[j] \notin S
    <3>1. CASE j = n
      BY <1>1, <1>3, <3>1
    <3>2. CASE j \in DOMAIN seq
      BY <1>1, <2>1, <2>3, <3>2
    <3> QED
      BY <1>1, <3>1, <3>2
  <2> QED
    BY <2>2, <2>3 DEF Latest
<1>4. x \in T => Latest(more, S, T)
  BY <1>1 DEF Latest
<1> QED
  BY <1>1, <1>2, <1>3, <1>4 DEF more

NameWrites == {w \in Write : w.field = "fullname"}
OwedWrites == {w \in NameWrites : w.done # Nil}

\* Writes whose completion does not tell what was written.
FalseWrites ==
    {w \in Write : w.done # Nil /\
        ~ (IF w.field = "fullname"
           THEN w.done.kind = "saved" /\ w.done.user.fullname = w.value
           ELSE w.done.kind = "imageWritten")}

\* The answers to the fetch of a screen, what gives Home a name, and the
\* callbacks with the name n.
NewsFor(v) == {c \in Callback : c.kind = "fetched" /\ c.to = v}
HomeNews == {c \in Callback : c.kind = "saved"} \cup NewsFor(Home)
Naming(n) == {c \in Callback : c.user.fullname = n}

\* The fetches of a screen, and those that may read another name than n.
FetchesOf(e) == {f \in Fetch : f.view = e}
OtherFetches(e, n) == {f \in FetchesOf(e) : ~(f.fresh \subseteq {n})}

\* A screen that was not opened has neither a user nor a fetch.
NewScreens ==
    \A e \in Sessions : edit[e].life = "new" =>
       /\ edit[e].user = Nil
       /\ None(fetching, FetchesOf(e))
       /\ None(mainQ, NewsFor(e))

\* The screen shown starts from the name saved last until the user edits it.
ScreenName ==
    \A e \in Sessions : presented = e /\ edit[e].fullname = Nil =>
       /\ edit[e].user = Nil \/ edit[e].user.fullname = lastSaved
       /\ None(mainQ, NewsFor(e) \ Naming(lastSaved))
       /\ None(fetching, OtherFetches(e, lastSaved))

\* What comes last to Home brings the name saved last: the completion of a
\* write in the queue, a callback posted, or what Home has already.
HomeName ==
    \/ Latest(writes, NameWrites, OwedWrites)
    \/ /\ None(writes, OwedWrites)
       /\ \/ Latest(mainQ, HomeNews, HomeNews \cap Naming(lastSaved))
          \/ /\ None(mainQ, HomeNews)
             /\ homeUser = Nil \/ homeUser.fullname = lastSaved

NameInv == /\ None(writes, FalseWrites)
           /\ NewScreens
           /\ ~rejected => ScreenName /\ HomeName

LEMMA NameInvMeaning ==
    ASSUME SavedNameDurable, NameInv
    PROVE  NameConverges
<1> SUFFICES ASSUME writes = <<>>, mainQ = <<>>, homeUser # Nil, ~rejected
             PROVE  homeUser.fullname = server.fullname
  BY DEF NameConverges
<1>1. DOMAIN writes = {} /\ DOMAIN mainQ = {}
  OBVIOUS
<1>2. homeUser.fullname = lastSaved
  BY <1>1 DEF NameInv, HomeName, Latest
<1> QED
  BY <1>2 DEF SavedNameDurable

LEMMA NamesInit == Init => NameInv
<1> SUFFICES ASSUME Init PROVE NameInv
  OBVIOUS
<1>1. DOMAIN writes = {} /\ DOMAIN mainQ = {} /\ homeUser = Nil /\ presented = Nil
  BY DEF Init
<1>2. /\ \A e \in Sessions : edit[e].user = Nil
      /\ \A i \in DOMAIN fetching : fetching[i].view = Home
  BY DEF Init, BlankEditor, GetDocument
<1>3. NewScreens
  BY <1>1, <1>2, HomeAssumption DEF NewScreens, None, FetchesOf
<1>4. ScreenName
  BY <1>1, NilAssumption DEF ScreenName
<1> QED
  BY <1>1, <1>3, <1>4 DEF NameInv, HomeName, None

\* A step that passes no name on.
LEMMA NamesSame ==
    ASSUME NameInv, UNCHANGED <<writes, mainQ, homeUser, lastSaved, rejected>>,
           \A e \in Sessions :
              /\ None(fetching, FetchesOf(e)) => None(fetching', FetchesOf(e))
              /\ None(fetching, OtherFetches(e, lastSaved))
                   => None(fetching', OtherFetches(e, lastSaved)),
           \A e \in Sessions : edit'[e].life = "new" =>
              edit[e].life = "new" /\ edit'[e].user = edit[e].user,
           \A e \in Sessions : presented' = e /\ edit'[e].fullname = Nil =>
              presented = e /\ edit[e].fullname = Nil /\ edit'[e].user = edit[e].user
    PROVE  NameInv'
<1>1. NewScreens'
  BY DEF NameInv, NewScreens
<1>2. ScreenName => ScreenName'
  BY DEF ScreenName
<1> QED
  BY <1>1, <1>2 DEF NameInv, HomeName

\* Touches and answers that pass no name on.
LEMMA NamesQuiet ==
    ASSUME TypeOK, NameInv,
           \/ \E e \in Sessions :
                 \/ \E name \in Names : HandleUpdateUserFullname(e, name)
                 \/ HandleChangeProfilePhoto(e) \/ HandleCancel(e) \/ Deallocate(e)
                 \/ \E u \in Uploads : DidFinishPicking(e, u)
           \/ PickerDidCancel \/ AnimationFinished \/ FetchError \/ StoreWrite
           \/ UNCHANGED vars
           \/ \E u \in Uploads : PutDataReply(u) \/ DownloadURLError(u)
    PROVE  NameInv'
<1>1. edit \in [Sessions -> Editor] /\ fetching \in Seq(Fetch)
  BY DEF TypeOK
<1>2. ASSUME NEW e \in Sessions, NEW name \in Names, HandleUpdateUserFullname(e, name)
      PROVE  NameInv'
  <2>1. edit[e] \in Editor
    BY <1>1
  <2>2. /\ UNCHANGED <<writes, mainQ, homeUser, lastSaved, rejected, fetching, presented>>
        /\ \A d \in Sessions : d # e => edit'[d] = edit[d]
    BY <1>1, <1>2 DEF HandleUpdateUserFullname
  <2>3. edit'[e] = [[edit[e] EXCEPT !.fullname = name] EXCEPT !.saveEnabled = TRUE]
    BY <1>1, <1>2 DEF HandleUpdateUserFullname, UpdateForm
  <2>4. edit'[e].life = edit[e].life /\ edit'[e].user = edit[e].user /\ edit'[e].fullname = name
    BY <2>1, <2>3 DEF Editor
  <2> QED
    BY <2>2, <2>4, NilAssumption, NamesSame
<1>3. ASSUME NEW e \in Sessions, Deallocate(e) PROVE NameInv'
  <2>1. /\ UNCHANGED <<writes, mainQ, homeUser, lastSaved, rejected, fetching, presented>>
        /\ \A d \in Sessions : d # e => edit'[d] = edit[d]
        /\ presented # e /\ edit'[e].life = "gone"
    BY <1>1, <1>3 DEF Deallocate, Retained, BlankEditor
  <2> QED
    BY <2>1, NamesSame
<1>4. ASSUME NEW e \in Sessions, NEW u \in Uploads, DidFinishPicking(e, u) PROVE NameInv'
  <2>1. /\ UNCHANGED <<writes, mainQ, homeUser, lastSaved, rejected, fetching, presented>>
        /\ \A d \in Sessions : d # e => edit'[d] = edit[d]
        /\ edit'[e] = [edit[e] EXCEPT !.imageChanged = TRUE]
    BY <1>1, <1>4 DEF DidFinishPicking
  <2>2. edit[e] \in Editor
    BY <1>1
  <2>3. edit'[e].life = edit[e].life /\ edit'[e].user = edit[e].user
        /\ edit'[e].fullname = edit[e].fullname
    BY <2>1, <2>2 DEF Editor
  <2> QED
    BY <2>1, <2>3, NamesSame
<1>5. ASSUME NEW e \in Sessions, HandleCancel(e) PROVE NameInv'
  <2>1. /\ UNCHANGED <<writes, mainQ, homeUser, lastSaved, rejected, fetching, edit>>
        /\ presented' = Nil
    BY <1>5 DEF HandleCancel, DismissController
  <2> QED
    BY <2>1, NilAssumption, NamesSame
<1>6. CASE FetchError
  <2>1. /\ UNCHANGED <<writes, mainQ, homeUser, lastSaved, rejected, edit, presented>>
        /\ fetching # <<>> /\ fetching' = Tail(fetching)
    BY <1>6 DEF FetchError
  <2>2. \A S : None(fetching, S) => None(fetching', S)
    BY <1>1, <2>1, QueueTail
  <2> QED
    BY <2>1, <2>2, NamesSame
<1>7. CASE \/ \E e \in Sessions : HandleChangeProfilePhoto(e)
           \/ PickerDidCancel \/ AnimationFinished \/ UNCHANGED vars
           \/ \E u \in Uploads : PutDataReply(u) \/ DownloadURLError(u)
  <2>1. UNCHANGED <<writes, mainQ, homeUser, lastSaved, rejected, edit, presented, fetching>>
    BY <1>7 DEF HandleChangeProfilePhoto, PickerDidCancel, AnimationFinished, PutDataReply,
                DownloadURLError, vars
  <2> QED
    BY <2>1, NamesSame
<1>8. CASE StoreWrite
  <2>1. /\ UNCHANGED <<writes, mainQ, homeUser, lastSaved, rejected, edit, presented>>
        /\ fetching' = Advanced
    BY <1>8 DEF StoreWrite, Advanced
  <2>2. ASSUME NEW e, None(fetching, FetchesOf(e)) PROVE None(Advanced, FetchesOf(e))
    BY <1>1, <2>2, Fetches, FetchFacts DEF None, FetchesOf
  <2>3. ASSUME NEW e, None(fetching, OtherFetches(e, lastSaved))
        PROVE  None(Advanced, OtherFetches(e, lastSaved))
    BY <1>1, <2>3, Fetches, FetchFacts DEF None, FetchesOf, OtherFetches
  <2> QED
    BY <2>1, <2>2, <2>3, NamesSame
<1> QED
  BY <1>2, <1>3, <1>4, <1>5, <1>6, <1>7, <1>8

\* A screen is opened: nothing of an earlier life waits for it.
LEMMA NamesOpen ==
    ASSUME TypeOK, NameInv, NEW e \in Sessions, HandleEditProfile(e)
    PROVE  NameInv'
<1> DEFINE f == GetDocument(e, Len(writes) - stored, lastSaved)
<1>1. /\ edit \in [Sessions -> Editor] /\ fetching \in Seq(Fetch)
      /\ f \in Fetch /\ f.view = e /\ f.fresh = {lastSaved}
  <2>1. Len(writes) - stored \in Nat
    BY Queues
  <2> QED
    BY <2>1 DEF TypeOK, Views, GetDocument, Fetch
<1> HIDE DEF f
<1>2. /\ UNCHANGED <<writes, mainQ, homeUser, lastSaved, rejected>>
      /\ \A d \in Sessions : d # e => edit'[d] = edit[d]
      /\ edit[e].life = "new" /\ edit'[e] = [edit[e] EXCEPT !.life = "alive"]
      /\ presented' = e /\ fetching' = Append(fetching, f)
  BY <1>1 DEF HandleEditProfile, f
<1>3. edit'[e].life = "alive" /\ edit'[e].user = edit[e].user
  <2>1. edit[e] \in Editor
    BY <1>1
  <2> QED
    BY <1>2, <2>1 DEF Editor
<1>4. edit[e].user = Nil /\ None(mainQ, NewsFor(e)) /\ None(fetching, FetchesOf(e))
  BY <1>2 DEF NameInv, NewScreens
<1>5. ASSUME NEW d \in Sessions, d # e, None(fetching, FetchesOf(d))
      PROVE  None(fetching', FetchesOf(d))
  <2>1. f \notin FetchesOf(d)
    BY <1>1, <1>5 DEF FetchesOf
  <2> QED
    BY <1>1, <1>2, <1>5, <2>1, QueueAppend
<1>6. NewScreens'
  BY <1>2, <1>3, <1>5 DEF NameInv, NewScreens
<1>7. ScreenName'
  <2>1. None(mainQ', NewsFor(e) \ Naming(lastSaved'))
    BY <1>2, <1>4 DEF None
  <2>2. None(fetching, OtherFetches(e, lastSaved)) /\ f \notin OtherFetches(e, lastSaved)
    BY <1>1, <1>4 DEF None, OtherFetches
  <2>3. None(fetching', OtherFetches(e, lastSaved))
    BY <1>1, <1>2, <2>2, QueueAppend
  <2> QED
    BY <1>2, <1>3, <1>4, <2>1, <2>3 DEF ScreenName
<1> QED
  BY <1>2, <1>6, <1>7 DEF NameInv, HomeName

\* The process is launched again: Home has no name, and a fetch is under way.
LEMMA NamesRestart ==
    ASSUME TypeOK, NameInv, Restart
    PROVE  NameInv'
<1>1. /\ DOMAIN writes' = 1..stored
      /\ \A i \in 1..stored : writes[i] \in Write /\ writes'[i] = [writes[i] EXCEPT !.done = Nil]
  BY Queues DEF Restart, Relaunched
<1>2. \A i \in DOMAIN writes' : writes'[i].done = Nil
  BY <1>1 DEF Write
<1>3. None(writes', FalseWrites) /\ None(writes', OwedWrites)
  BY <1>2 DEF None, FalseWrites, OwedWrites
<1>4. /\ mainQ' = <<>> /\ homeUser' = Nil /\ presented' = Nil
      /\ fetching' = <<GetDocument(Home, 0, lastStored)>>
      /\ edit' = [e \in Sessions |-> IF edit[e].life = "alive" THEN BlankEditor("gone") ELSE edit[e]]
  BY DEF Restart
<1>5. \A S : None(mainQ', S)
  BY <1>4 DEF None
<1>6. NewScreens'
  <2> SUFFICES ASSUME NEW e \in Sessions, edit'[e].life = "new"
               PROVE  edit'[e].user = Nil /\ None(fetching', FetchesOf(e))
    BY <1>5 DEF NewScreens
  <2>1. edit'[e] = edit[e]
    BY <1>4 DEF BlankEditor
  <2>2. edit'[e].user = Nil
    BY <2>1 DEF NameInv, NewScreens
  <2>3. \A i \in DOMAIN fetching' : fetching'[i].view = Home
    BY <1>4 DEF GetDocument
  <2> QED
    BY <2>2, <2>3, HomeAssumption DEF None, FetchesOf
<1>7. ScreenName'
  BY <1>4, NilAssumption DEF ScreenName
<1>8. HomeName'
  BY <1>3, <1>4, <1>5 DEF HomeName
<1> QED
  BY <1>3, <1>6, <1>7, <1>8 DEF NameInv

\* When no completion is owed for a name, the stored writes give the name
\* saved last: the writes whose task has yet to run have their completions.
LEMMA StoredName ==
    ASSUME TypeOK, SavesInv, ~rejected, None(writes, OwedWrites),
           NEW n, NameIn(writes, server.fullname, stored, n)
    PROVE  n = lastSaved
<1>1. /\ Len(writes) \in Nat /\ stored \in Nat /\ stored <= Len(writes)
      /\ DOMAIN writes = 1..Len(writes) /\ writes \in Seq(Write)
  BY Queues
<1>2. \A i \in 1..Len(writes) : i > stored => writes[i].field # "fullname"
  <2>1. \A i \in 1..Len(writes) : writes[i] \in Write
    BY <1>1
  <2> QED
    BY <1>1, <2>1 DEF SavesInv, ClosuresKept, None, OwedWrites, NameWrites
<1>3. /\ \A i \in 1..stored : i \in 1..Len(writes)
      /\ \A i \in 1..Len(writes) : i \in 1..stored \/ i > stored
      /\ \A i \in 1..stored : \A j \in (i + 1)..Len(writes) :
            j \in 1..Len(writes) /\ (j \in (i + 1)..stored \/ j > stored)
  BY <1>1
<1>4. NameIn(writes, server.fullname, Len(writes), n)
  BY <1>2, <1>3 DEF NameIn
<1> QED
  BY <1>1, <1>4, NameOnly DEF SavesInv

\* A fetch is answered: it brings the name saved last.
LEMMA NamesFetch ==
    ASSUME TypeOK, TypeOK', SavesInv, NameInv, FetchReply
    PROVE  NameInv'
<1> DEFINE f == Head(fetching)
<1>1. mainQ \in Seq(Callback) /\ fetching \in Seq(Fetch)
  BY DEF TypeOK
<1>2. /\ UNCHANGED <<writes, homeUser, lastSaved, rejected, edit, presented>>
      /\ fetching # <<>> /\ fetching' = Tail(fetching)
  BY DEF FetchReply
<1>3. PICK u \in User : /\ LocalValue("fullname", u.fullname)
                        /\ mainQ' = Append(mainQ, Fetched(f.view, u))
  BY DEF FetchReply
<1> DEFINE c == Fetched(f.view, u)
<1>4. /\ c \in Callback /\ c.kind = "fetched" /\ c.to = f.view /\ c.user = u
      /\ f \in Fetch /\ f.view \in Views /\ f = fetching[1] /\ 1 \in DOMAIN fetching
  <2>1. f = fetching[1] /\ 1 \in DOMAIN fetching
    BY <1>1, <1>2
  <2>2. f \in Fetch /\ f.view \in Views
    BY <2>1, FetchFacts
  <2> QED
    BY <2>1, <2>2, Constructors DEF Fetched
<1>5. NameIn(writes, server.fullname, stored, u.fullname)
  BY <1>3 DEF LocalValue, ValueAfter, NameIn
<1>10. ~rejected => u.fullname \in f.fresh
  <2>1. ListenerRan(1)
    BY DEF FetchReply
  <2>2. u.fullname \in Names
    BY DEF User
  <2> QED
    BY <1>3, <1>4, <2>1, <2>2, SavesRead DEF FetchReadsSavedName
<1> HIDE DEF c, f
<1>6. mainQ' = Append(mainQ, c)
  BY <1>3 DEF c
<1>7. NewScreens'
  <2> SUFFICES ASSUME NEW e \in Sessions, edit[e].life = "new"
               PROVE  None(fetching', FetchesOf(e)) /\ None(mainQ', NewsFor(e))
    BY <1>2 DEF NameInv, NewScreens
  <2>1. None(fetching, FetchesOf(e)) /\ None(mainQ, NewsFor(e))
    BY DEF NameInv, NewScreens
  <2>2. f.view # e /\ None(fetching', FetchesOf(e))
    <3>1. f \notin FetchesOf(e) /\ None(fetching', FetchesOf(e))
      BY <1>1, <1>2, <2>1, QueueTail DEF f
    <3> QED
      BY <1>4, <3>1 DEF FetchesOf
  <2>3. c \notin NewsFor(e)
    BY <1>4, <2>2 DEF NewsFor
  <2> QED
    BY <1>1, <1>4, <1>6, <2>1, <2>2, <2>3, QueueAppend
<1>8. ASSUME ~rejected PROVE ScreenName'
  <2> SUFFICES ASSUME NEW e \in Sessions, presented = e, edit[e].fullname = Nil
               PROVE  /\ None(mainQ', NewsFor(e) \ Naming(lastSaved))
                      /\ None(fetching', OtherFetches(e, lastSaved))
    BY <1>2, <1>8 DEF NameInv, ScreenName
  <2>1. /\ None(mainQ, NewsFor(e) \ Naming(lastSaved))
        /\ None(fetching, OtherFetches(e, lastSaved))
    BY <1>8 DEF NameInv, ScreenName
  <2>2. f \notin OtherFetches(e, lastSaved) /\ None(fetching', OtherFetches(e, lastSaved))
    BY <1>1, <1>2, <2>1, QueueTail DEF f
  <2>3. c \notin NewsFor(e) \ Naming(lastSaved)
    <3>1. c \in NewsFor(e) => f.fresh \subseteq {lastSaved}
      BY <1>4, <2>2 DEF NewsFor, FetchesOf, OtherFetches
    <3> QED
      BY <1>4, <1>10, <1>8, <3>1 DEF Naming
  <2> QED
    BY <1>1, <1>4, <1>6, <2>1, <2>2, <2>3, QueueAppend
<1>9. ASSUME ~rejected PROVE HomeName'
  <2> DEFINE T == HomeNews \cap Naming(lastSaved)
  <2> SUFFICES ASSUME None(writes, OwedWrites) PROVE HomeName'
    BY <1>2, <1>9 DEF NameInv, HomeName
  <2>1. c \in T \/ c \notin HomeNews
    <3>1. u.fullname = lastSaved
      BY <1>5, <1>9, StoredName
    <3> QED
      BY <1>4, <3>1 DEF Naming
  <2>2. /\ Latest(mainQ, HomeNews, T) => Latest(mainQ', HomeNews, T)
        /\ None(mainQ, HomeNews) => Latest(mainQ', HomeNews, T) \/ None(mainQ', HomeNews)
    <3> HIDE DEF T
    <3> QED
      BY <1>1, <1>4, <1>6, <2>1, QueueAppend
  <2> QED
    BY <1>2, <1>9, <2>2 DEF NameInv, HomeName
<1> QED
  BY <1>2, <1>7, <1>8, <1>9 DEF NameInv

\* The write of a picture joins the queue: it brings no name.
LEMMA NamesUpload ==
    ASSUME TypeOK, TypeOK', NameInv, NEW u \in Uploads, DownloadURLReply(u)
    PROVE  NameInv'
<1> DEFINE w == [field |-> "profileImageUrl", value |-> u,
                 done |-> ImageWritten(upload[u].owner, u)]
<1>1. /\ UNCHANGED <<mainQ, homeUser, lastSaved, rejected, edit, presented, fetching>>
      /\ writes \in Seq(Write) /\ writes' \in Seq(Write) /\ writes' = Append(writes, w)
  BY DEF TypeOK, DownloadURLReply
<1>2. w \in Write
  <2>1. Len(writes) + 1 \in DOMAIN writes' /\ writes'[Len(writes) + 1] = w
    BY <1>1
  <2> QED
    BY <1>1, <2>1, ElementOfSeq
<1>3. w \notin NameWrites /\ w \notin OwedWrites /\ w \notin FalseWrites
  BY DEF NameWrites, OwedWrites, FalseWrites, ImageWritten
<1> HIDE DEF w
<1>4. /\ None(writes, FalseWrites) => None(writes', FalseWrites)
      /\ None(writes, OwedWrites) => None(writes', OwedWrites)
      /\ Latest(writes, NameWrites, OwedWrites) => Latest(writes', NameWrites, OwedWrites)
  BY <1>1, <1>2, <1>3, QueueAppend
<1>5. NewScreens' /\ (ScreenName => ScreenName')
  BY <1>1 DEF NameInv, NewScreens, ScreenName
<1>6. HomeName => HomeName'
  BY <1>1, <1>4 DEF HomeName
<1> QED
  BY <1>1, <1>4, <1>5, <1>6 DEF NameInv

\* A write is acknowledged or refused: the completion of the last write of a
\* name brings the name saved last.
LEMMA NamesWrite ==
    ASSUME TypeOK, TypeOK', SavesInv, NameInv, WriteAck \/ WriteReject
    PROVE  NameInv'
<1> DEFINE w == Head(writes)
           T == HomeNews \cap Naming(lastSaved)
<1>1. /\ UNCHANGED <<homeUser, lastSaved, edit, presented, fetching>>
      /\ writes # <<>> /\ writes' = Tail(writes)
      /\ mainQ' = IF w.done = Nil THEN mainQ ELSE Append(mainQ, w.done)
      /\ ~rejected' => ~rejected
  BY Queues DEF WriteAck, WriteReject, Dequeue
<1>2. writes \in Seq(Write) /\ mainQ \in Seq(Callback)
  BY DEF TypeOK
<1>3. w \in Write /\ w \notin FalseWrites /\ None(writes', FalseWrites)
  BY <1>1, <1>2, QueueTail DEF NameInv
<1>4. w.done # Nil => /\ w.done \in Callback
                      /\ w.field = "fullname" => w.done.kind = "saved" /\ w.done.user.fullname = w.value
                      /\ w.field # "fullname" => w.done.kind = "imageWritten"
  BY <1>3 DEF FalseWrites, Write
<1>5. ASSUME Latest(writes, NameWrites, OwedWrites)
      PROVE  Latest(writes', NameWrites, OwedWrites)
                \/ (w \in OwedWrites /\ None(writes', NameWrites))
  BY <1>1, <1>2, <1>5, QueueTail
<1>6. ASSUME ~rejected, w \in NameWrites, None(writes', NameWrites) PROVE w.value = lastSaved
  <2>1. /\ w = writes[1] /\ 1 \in DOMAIN writes
        /\ \A i \in DOMAIN writes : i # 1 => i - 1 \in DOMAIN writes' /\ writes'[i - 1] = writes[i]
        /\ \A i \in DOMAIN writes : writes[i] \in Write
    BY <1>1, <1>2
  <2>2. \A i \in DOMAIN writes : i # 1 => writes[i].field # "fullname"
    BY <1>6, <2>1 DEF None, NameWrites
  <2> HIDE DEF w
  <2>3. NameIn(writes, server.fullname, Len(writes), lastSaved) /\ DOMAIN writes = 1..Len(writes)
    BY <1>6, Queues DEF SavesInv
  <2>4. w.field = "fullname"
    BY <1>6 DEF NameWrites
  <2> QED
    BY <2>1, <2>2, <2>3, <2>4 DEF NameIn
<1> HIDE DEF w
<1>7. ASSUME NEW S, None(mainQ, S), w.done # Nil => w.done \notin S PROVE None(mainQ', S)
  BY <1>1, <1>2, <1>4, <1>7, QueueAppend
<1>8. NewScreens'
  <2>1. \A e \in Sessions : None(mainQ, NewsFor(e)) => None(mainQ', NewsFor(e))
    BY <1>4, <1>7 DEF NewsFor
  <2> QED
    BY <1>1, <2>1 DEF NameInv, NewScreens
<1>9. ASSUME ~rejected PROVE ScreenName'
  <2>1. \A e \in Sessions : None(mainQ, NewsFor(e) \ Naming(lastSaved))
                              => None(mainQ', NewsFor(e) \ Naming(lastSaved))
    BY <1>4, <1>7 DEF NewsFor
  <2> QED
    BY <1>1, <1>9, <2>1 DEF NameInv, ScreenName
<1>10. ASSUME ~rejected PROVE HomeName'
  <2>1. CASE Latest(writes', NameWrites, OwedWrites)
    BY <2>1 DEF HomeName
  <2>2. CASE w \in OwedWrites /\ None(writes', NameWrites)
    <3>1. w.done # Nil /\ w \in NameWrites /\ w.field = "fullname"
      BY <2>2 DEF OwedWrites, NameWrites
    <3>2. w.done \in T
      BY <1>4, <1>6, <1>10, <2>2, <3>1 DEF HomeNews, Naming
    <3>3. Latest(mainQ', HomeNews, T)
      <4> HIDE DEF T
      <4> QED
        BY <1>1, <1>2, <1>4, <3>1, <3>2, QueueAppend
    <3>4. None(writes', OwedWrites)
      BY <2>2 DEF None, OwedWrites
    <3> QED
      BY <1>1, <3>3, <3>4 DEF HomeName
  <2>3. CASE ~ Latest(writes, NameWrites, OwedWrites)
    <3>1. /\ None(writes, OwedWrites)
          /\ \/ Latest(mainQ, HomeNews, T)
             \/ None(mainQ, HomeNews) /\ (homeUser = Nil \/ homeUser.fullname = lastSaved)
      BY <1>10, <2>3 DEF NameInv, HomeName
    <3>2. w \notin OwedWrites /\ None(writes', OwedWrites)
      BY <1>1, <1>2, <3>1, QueueTail DEF w
    <3>3. w.done # Nil => w.done \notin HomeNews
      BY <1>3, <1>4, <3>2 DEF HomeNews, NewsFor, OwedWrites, NameWrites
    <3>4. Latest(mainQ, HomeNews, T) => Latest(mainQ', HomeNews, T)
      <4> HIDE DEF T
      <4> QED
        BY <1>1, <1>2, <1>4, <3>3, QueueAppend
    <3>5. None(mainQ, HomeNews) => None(mainQ', HomeNews)
      BY <1>7, <3>3
    <3> QED
      BY <1>1, <3>1, <3>2, <3>4, <3>5 DEF HomeName
  <2> QED
    BY <1>5, <2>1, <2>2, <2>3
<1> QED
  BY <1>1, <1>3, <1>8, <1>9, <1>10 DEF NameInv

\* The main queue runs a closure: Home takes the name of what is for it, an
\* edit screen that of its fetch.
LEMMA NamesRun ==
    ASSUME TypeOK, TypeOK', NameInv, RunMainQueue
    PROVE  NameInv'
<1> DEFINE c == Head(mainQ)
           T == HomeNews \cap Naming(lastSaved)
<1>1. /\ mainQ \in Seq(Callback) /\ edit \in [Sessions -> Editor]
      /\ mainQ # <<>> /\ mainQ' = Tail(mainQ)
      /\ UNCHANGED <<writes, lastSaved, rejected, fetching>>
  BY DEF TypeOK, RunMainQueue, UserFetched, UserDataUpdated, ProfileImageUpdated, NextCallback
<1>2. /\ c \in Callback
      /\ \A S : None(mainQ, S) => c \notin S /\ None(mainQ', S)
  BY <1>1, QueueTail
<1>3. /\ c \in HomeNews => homeUser' = c.user
      /\ c \notin HomeNews => homeUser' = homeUser
      /\ presented' \in {presented, Nil}
      /\ \A e \in Sessions :
            /\ edit'[e].life = edit[e].life /\ edit'[e].fullname = edit[e].fullname
            /\ edit'[e].user = edit[e].user \/ (c \in NewsFor(e) /\ edit'[e].user = c.user)
  <2>1. CASE UserFetched
    <3>1. /\ c.kind = "fetched" /\ c.to \in Views /\ presented' = presented
          /\ c.to = Home => homeUser' = c.user /\ edit' = edit
          /\ c.to # Home => homeUser' = homeUser /\ edit' = [edit EXCEPT ![c.to].user = c.user]
      BY <1>2, <2>1 DEF UserFetched, NextCallback, Callback
    <3>2. (c \in HomeNews <=> c.to = Home) /\ \A e \in Sessions : c.to = e => c \in NewsFor(e)
      BY <1>2, <3>1 DEF HomeNews, NewsFor
    <3> HIDE DEF c
    <3>3. \A e \in Sessions : edit[e] \in Editor
      BY <1>1
    <3>4. CASE c.to = Home
      BY <3>1, <3>2, <3>4
    <3>5. CASE c.to # Home
      <4>1. c.to \in Sessions /\ \A e \in Sessions : e # c.to => edit'[e] = edit[e]
        BY <1>1, <3>1, <3>5 DEF Views
      <4>2. /\ edit'[c.to].life = edit[c.to].life /\ edit'[c.to].fullname = edit[c.to].fullname
            /\ edit'[c.to].user = c.user
        BY <1>1, <3>1, <3>3, <3>5, <4>1 DEF Editor
      <4> QED
        BY <3>1, <3>2, <3>5, <4>1, <4>2
    <3> QED
      BY <3>4, <3>5
  <2>2. CASE UserDataUpdated
    <3>1. /\ c.kind = "saved" /\ homeUser' = c.user /\ edit' = edit
          /\ presented' \in {presented, Nil}
      BY <2>2 DEF UserDataUpdated, NextCallback, WantsToUpdate, DismissController
    <3>2. c \in HomeNews
      BY <1>2, <3>1 DEF HomeNews
    <3> QED
      BY <3>1, <3>2
  <2>3. CASE ProfileImageUpdated
    <3>1. /\ c.kind = "imageWritten" /\ homeUser' = homeUser /\ presented' = presented
          /\ edit' = [edit EXCEPT ![c.to] = [[edit[c.to] EXCEPT !.profileImageUrl = c.url]
                                                EXCEPT !.saveEnabled = TRUE]]
      BY <2>3 DEF ProfileImageUpdated, NextCallback, UpdateForm
    <3>2. c \notin HomeNews
      BY <3>1 DEF HomeNews, NewsFor
    <3> HIDE DEF c
    <3>3. ASSUME NEW e \in Sessions
          PROVE  /\ edit'[e].life = edit[e].life /\ edit'[e].fullname = edit[e].fullname
                 /\ edit'[e].user = edit[e].user
      <4>1. edit[e] \in Editor
        BY <1>1
      <4> QED
        BY <1>1, <3>1, <4>1 DEF Editor
    <3> QED
      BY <3>1, <3>2, <3>3
  <2> QED
    BY <2>1, <2>2, <2>3 DEF RunMainQueue
<1>4. Latest(mainQ, HomeNews, T) =>
         Latest(mainQ', HomeNews, T) \/ (c \in T /\ None(mainQ', HomeNews))
  <2> HIDE DEF T
  <2> QED
    BY <1>1, QueueTail
<1> HIDE DEF c
<1>5. NewScreens'
  BY <1>1, <1>2, <1>3 DEF NameInv, NewScreens
<1>6. ASSUME ~rejected PROVE ScreenName'
  <2> SUFFICES ASSUME NEW e \in Sessions, presented' = e, edit'[e].fullname = Nil
               PROVE  /\ edit'[e].user = Nil \/ edit'[e].user.fullname = lastSaved
                      /\ None(mainQ', NewsFor(e) \ Naming(lastSaved))
                      /\ None(fetching, OtherFetches(e, lastSaved))
    BY <1>1 DEF ScreenName
  <2>1. presented = e /\ edit[e].fullname = Nil
    BY <1>3, NilAssumption
  <2>2. /\ edit[e].user = Nil \/ edit[e].user.fullname = lastSaved
        /\ None(mainQ, NewsFor(e) \ Naming(lastSaved))
        /\ None(fetching, OtherFetches(e, lastSaved))
    BY <1>6, <2>1 DEF NameInv, ScreenName
  <2>3. c \in NewsFor(e) => c.user.fullname = lastSaved
    BY <1>2, <2>2 DEF Naming
  <2> QED
    BY <1>2, <1>3, <2>2, <2>3
<1>7. ASSUME ~rejected PROVE HomeName'
  <2>1. CASE Latest(writes, NameWrites, OwedWrites)
    BY <1>1, <2>1 DEF HomeName
  <2>2. CASE None(writes, OwedWrites) /\ Latest(mainQ, HomeNews, T)
    <3>1. c \in T => homeUser' = c.user /\ c.user.fullname = lastSaved
      BY <1>3 DEF Naming
    <3> QED
      BY <1>1, <1>4, <2>2, <3>1 DEF HomeName
  <2>3. CASE /\ None(writes, OwedWrites) /\ None(mainQ, HomeNews)
             /\ homeUser = Nil \/ homeUser.fullname = lastSaved
    BY <1>1, <1>2, <1>3, <2>3 DEF HomeName
  <2> QED
    BY <1>7, <2>1, <2>2, <2>3 DEF NameInv, HomeName
<1> QED
  BY <1>1, <1>5, <1>6, <1>7 DEF NameInv

\* Save: a new name is on its way to Home; without one Home keeps the name.
LEMMA NamesSave ==
    ASSUME TypeOK, TypeOK', NameInv, NEW e \in Sessions, HandleDone(e)
    PROVE  NameInv'
<1> DEFINE w == [field |-> "fullname", value |-> EditedUser(e).fullname,
                 done |-> Saved(e, EditedUser(e))]
<1>1. /\ UNCHANGED <<mainQ, edit, rejected>> /\ writes \in Seq(Write)
      /\ writes' = writes \o FullnameWrites(e) /\ presented = e
      /\ edit[e] \in Editor /\ edit[e].user \in User
  BY DEF TypeOK, HandleDone, CanSave, CanTouch, OnScreen, FormShown, Editor
<1>2. /\ presented' \in {presented, Nil}
      /\ homeUser' = homeUser \/ homeUser' = [edit[e].user EXCEPT
                                                !.profileImageUrl = edit[e].profileImageUrl]
  BY DEF HandleDone, WantsToUpdate, DismissController
<1>3. homeUser' = homeUser \/ homeUser'.fullname = edit[e].user.fullname
  BY <1>1, <1>2 DEF User
<1>4. CASE edit[e].fullname = Nil
  <2>1. lastSaved' = lastSaved /\ writes' = writes /\ fetching' = fetching
    BY <1>1, <1>4 DEF HandleDone, FullnameWrites
  <2>2. ~rejected => edit[e].user.fullname = lastSaved
    BY <1>1, <1>4, NilRecordAssumption DEF NameInv, ScreenName
  <2>3. NewScreens' /\ (ScreenName => ScreenName')
    BY <1>1, <1>2, <2>1, NilAssumption DEF NameInv, NewScreens, ScreenName
  <2>4. ~rejected /\ HomeName => HomeName'
    BY <1>1, <1>3, <2>1, <2>2 DEF HomeName
  <2> QED
    BY <1>1, <2>1, <2>3, <2>4 DEF NameInv
<1>5. CASE edit[e].fullname # Nil
  <2>1. EditedUser(e) \in User
    BY Edited DEF HandleDone
  <2>2. Saved(e, EditedUser(e)) \in Callback
    BY <2>1, Constructors
  <2>3. /\ w \in Write /\ w.field = "fullname" /\ w.done # Nil
        /\ w.done.kind = "saved" /\ w.done.user.fullname = w.value
    BY <2>1, <2>2, NilRecordAssumption DEF Write, User, Saved
  <2>4. edit[e].imageChanged \in BOOLEAN
    BY <1>1 DEF Editor
  <2> HIDE DEF w
  <2>5. FullnameWrites(e) \in {<<w>>, <<w, w>>}
    BY <1>5, <2>4 DEF FullnameWrites, w
  <2>6. writes' = Append(writes, w) \/ writes' = Append(Append(writes, w), w)
    <3>1. \A s \in Seq(Write) : s \o <<w>> = Append(s, w)
      BY <2>3, AppendIsConcat
    <3>2. writes \o <<w, w>> = (writes \o <<w>>) \o <<w>>
      <4>1. <<w, w>> = <<w>> \o <<w>> /\ <<w>> \in Seq(Write)
        BY <2>3
      <4> QED
        BY <1>1, <4>1, ConcatAssociative
    <3>3. Append(writes, w) \in Seq(Write)
      BY <1>1, <2>3
    <3> QED
      BY <1>1, <2>5, <3>1, <3>2, <3>3
  <2>7. w \in OwedWrites /\ w \notin FalseWrites
    BY <2>3 DEF OwedWrites, NameWrites, FalseWrites
  <2>8. /\ Append(writes, w) \in Seq(Write)
        /\ None(Append(writes, w), FalseWrites)
        /\ Latest(Append(writes, w), NameWrites, OwedWrites)
    BY <1>1, <2>3, <2>7, QueueAppend DEF NameInv
  <2>9. None(writes', FalseWrites) /\ Latest(writes', NameWrites, OwedWrites)
    <3>1. CASE writes' = Append(writes, w)
      BY <2>8, <3>1
    <3>2. CASE writes' = Append(Append(writes, w), w)
      BY <2>3, <2>7, <2>8, <3>2, QueueAppend
    <3> QED
      BY <2>6, <3>1, <3>2
  <2>10. NewScreens'
    <3>1. edit[e].fullname \in Names /\ fetching' = Refreshed(edit[e].fullname)
      BY <1>1, <1>5 DEF HandleDone, Editor, Refreshed
    <3>2. /\ DOMAIN fetching' = DOMAIN fetching
          /\ \A i \in DOMAIN fetching : fetching'[i].view = fetching[i].view
      BY <3>1, Fetches DEF TypeOK
    <3>3. \A d \in Sessions : None(fetching, FetchesOf(d)) => None(fetching', FetchesOf(d))
      BY <3>2, FetchFacts DEF None, FetchesOf
    <3> QED
      BY <1>1, <3>3 DEF NameInv, NewScreens
  <2>11. ScreenName'
    BY <1>1, <1>2, <1>5, NilAssumption DEF ScreenName
  <2> QED
    BY <2>9, <2>10, <2>11 DEF NameInv, HomeName
<1> QED
  BY <1>4, <1>5

LEMMA NamesNext ==
    TypeOK /\ TypeOK' /\ SavesInv /\ NameInv /\ [Next]_vars => NameInv'
<1> SUFFICES ASSUME TypeOK, TypeOK', SavesInv, NameInv, [Next]_vars PROVE NameInv'
  OBVIOUS
<1>1. ASSUME NEW e \in Sessions, Tap(e) \/ Deallocate(e) PROVE NameInv'
  BY <1>1, NamesQuiet, NamesOpen, NamesSave, NamesRestart DEF Tap, HandleDoneTraps
<1>2. CASE PickerDidCancel \/ Kill \/ StoreWrite \/ AnimationFinished \/ UNCHANGED vars
  BY <1>2, NamesQuiet, NamesRestart DEF Kill
<1>3. CASE Fetching \/ Storing
  BY <1>3, NamesQuiet, NamesFetch, NamesUpload DEF Fetching, Storing
<1>4. CASE Writing \/ RunMainQueue
  BY <1>4, NamesWrite, NamesRun DEF Writing
<1> QED
  BY <1>1, <1>2, <1>3, <1>4 DEF Next

\* Once the queue and the callbacks have drained, Home shows the name in the
\* profile, whatever the order of completions of several edit screens and
\* wherever the process was killed, if the server refused no write
\* (EditProfileViewController.swift:98 passes a copy of the user on).
THEOREM NameConvergesCorrect == Spec => []NameConverges
<1>1. SavedNameDurable /\ NameInv => NameConverges
  BY NameInvMeaning
<1> QED
  BY <1>1, NamesInit, NamesNext, TypeCorrect, SavesInit, SavesNext,
     SavedNameDurableCorrect, PTL DEF Spec

-----------------------------------------------------------------------------
(* The uploads use the loader as its contract says.                         *)

AtMostOne(seq, S) == \A i, j \in DOMAIN seq : seq[i] \in S /\ seq[j] \in S => i = j

\* How a queue with at most one entry in S changes.
LEMMA QueueOnce ==
    ASSUME NEW U, NEW seq \in Seq(U), NEW S, AtMostOne(seq, S)
    PROVE  /\ \A x \in U : x \notin S \/ None(seq, S) => AtMostOne(Append(seq, x), S)
           /\ seq # <<>> => /\ AtMostOne(Tail(seq), S)
                            /\ Head(seq) \in S => None(Tail(seq), S)
<1>1. ASSUME NEW x \in U, x \notin S \/ None(seq, S) PROVE AtMostOne(Append(seq, x), S)
  <2> DEFINE more == Append(seq, x)
             n == Len(seq) + 1
  <2>1. /\ DOMAIN more = DOMAIN seq \cup {n} /\ more[n] = x
        /\ \A i \in DOMAIN seq : more[i] = seq[i]
    OBVIOUS
  <2> HIDE DEF more, n
  <2>2. AtMostOne(more, S)
    BY <1>1, <2>1 DEF AtMostOne, None
  <2> QED
    BY <2>2 DEF more
<1>2. ASSUME seq # <<>> PROVE AtMostOne(Tail(seq), S) /\ (Head(seq) \in S => None(Tail(seq), S))
  <2> DEFINE rest == Tail(seq)
  <2>1. /\ 1 \in DOMAIN seq /\ Head(seq) = seq[1]
        /\ \A i \in DOMAIN rest : i + 1 \in DOMAIN seq /\ rest[i] = seq[i + 1]
                                    /\ i \in Nat /\ i + 1 # 1
    BY <1>2
  <2> HIDE DEF rest
  <2>2. Head(seq) \in S => None(rest, S)
    BY <2>1 DEF AtMostOne, None
  <2>3. ASSUME NEW i \in DOMAIN rest, NEW j \in DOMAIN rest, rest[i] \in S, rest[j] \in S
        PROVE  i = j
    <3>1. i + 1 = j + 1 /\ i \in Nat /\ j \in Nat
      BY <2>1, <2>3 DEF AtMostOne
    <3> QED
      BY <3>1
  <2> QED
    BY <2>2, <2>3 DEF AtMostOne, rest
<1> QED
  BY <1>1, <1>2

\* The completions of updateProfileImage for the picture u, posted or to come.
ImageNews(u) == {c \in Callback : c.kind = "imageWritten" /\ c.url = u}
ImageWrites(u) == {w \in Write : w.done # Nil /\ w.done \in ImageNews(u)}
Silent(u) == None(writes, ImageWrites(u)) /\ None(mainQ, ImageNews(u))

\* A screen lives while it is shown and while it uploads.
LivesInv ==
    /\ \A e \in Sessions : presented = e => edit[e].life = "alive"
    /\ \A u \in Uploads : \A e \in Sessions : upload[u].owner = e =>
          /\ edit[e].life # "new"
          /\ upload[u].stage \in Running => edit[e].life = "alive"

\* An upload that writes its URL has one completion to come; no other has.
NewsInv ==
    /\ \A url \in (Urls \cup {Nil}) \ Uploads : Silent(url)
    /\ \A u \in Uploads :
          /\ AtMostOne(writes, ImageWrites(u)) /\ AtMostOne(mainQ, ImageNews(u))
          /\ None(writes, ImageWrites(u)) \/ None(mainQ, ImageNews(u))
          /\ upload[u].stage = "writing" \/ Silent(u)

LEMMA UploadsInit == Init => LivesInv /\ NewsInv
<1> SUFFICES ASSUME Init PROVE LivesInv /\ NewsInv
  OBVIOUS
<1>1. LivesInv
  BY NilAssumption DEF Init, LivesInv
<1>2. DOMAIN writes = {} /\ DOMAIN mainQ = {}
  BY DEF Init
<1>3. NewsInv
  BY <1>2 DEF NewsInv, Silent, None, AtMostOne
<1> QED
  BY <1>1, <1>3

\* Steps that start no upload and end no screen.
LEMMA LivesKept ==
    ASSUME LivesInv, presented' \in {presented, Nil},
           \A e \in Sessions : edit'[e].life = edit[e].life,
           \A u \in Uploads : /\ upload'[u].owner = upload[u].owner
                              /\ upload'[u].stage \in Running => upload[u].stage \in Running
    PROVE  LivesInv'
  BY NilAssumption DEF LivesInv

\* The life of a screen changes when it is opened and when it is freed.
LEMMA LifeKept ==
    ASSUME TypeOK, [Next]_vars, ~Restart,
           \A e \in Sessions : ~HandleEditProfile(e) /\ ~Deallocate(e)
    PROVE  \A e \in Sessions : edit'[e].life = edit[e].life
<1>1. edit \in [Sessions -> Editor] /\ \A e \in Sessions : edit[e] \in Editor
  BY DEF TypeOK
<1>2. ASSUME NEW d \in Sessions, NEW name \in Names, HandleUpdateUserFullname(d, name),
             NEW e \in Sessions
      PROVE  edit'[e].life = edit[e].life
  BY <1>1, <1>2 DEF HandleUpdateUserFullname, UpdateForm, Editor
<1>3. ASSUME NEW d \in Sessions, NEW u \in Uploads, DidFinishPicking(d, u), NEW e \in Sessions
      PROVE  edit'[e].life = edit[e].life
  BY <1>1, <1>3 DEF DidFinishPicking, Editor
<1>4. ASSUME UserFetched, NEW e \in Sessions PROVE edit'[e].life = edit[e].life
  <2>1. edit' = edit \/ edit' = [edit EXCEPT ![Head(mainQ).to].user = Head(mainQ).user]
    BY <1>4 DEF UserFetched
  <2> QED
    BY <1>1, <2>1 DEF Editor
<1>5. ASSUME ProfileImageUpdated, NEW e \in Sessions PROVE edit'[e].life = edit[e].life
  <2>1. edit' = [edit EXCEPT ![Head(mainQ).to] =
                   UpdateForm([edit[Head(mainQ).to] EXCEPT !.profileImageUrl = Head(mainQ).url])]
    BY <1>5 DEF ProfileImageUpdated
  <2> QED
    BY <1>1, <2>1 DEF UpdateForm, Editor
<1>6. ASSUME edit' = edit, NEW e \in Sessions PROVE edit'[e].life = edit[e].life
  BY <1>6
<1>7. ASSUME NEW d \in Sessions, Tap(d), NEW e \in Sessions PROVE edit'[e].life = edit[e].life
  BY <1>2, <1>3, <1>6, <1>7
     DEF Tap, HandleChangeProfilePhoto, HandleCancel, HandleDone, HandleDoneTraps
<1>8. CASE \/ PickerDidCancel \/ Kill \/ Fetching \/ Storing \/ StoreWrite
           \/ Writing \/ AnimationFinished \/ UNCHANGED vars
  BY <1>6, <1>8 DEF PickerDidCancel, Kill, Fetching, FetchReply, FetchError, Storing,
                    PutDataReply, DownloadURLReply, DownloadURLError, StoreWrite, Writing,
                    WriteAck, WriteReject, Dequeue, AnimationFinished, vars
<1>9. CASE RunMainQueue
  BY <1>4, <1>5, <1>6, <1>9 DEF RunMainQueue, UserDataUpdated
<1> QED
  BY <1>7, <1>8, <1>9 DEF Next

LEMMA LivesNext == TypeOK /\ LivesInv /\ [Next]_vars => LivesInv'
<1> SUFFICES ASSUME TypeOK, LivesInv, [Next]_vars PROVE LivesInv'
  OBVIOUS
<1>1. /\ edit \in [Sessions -> Editor] /\ upload \in [Uploads -> Upload]
      /\ \A u \in Uploads : upload[u] \in Upload
  BY DEF TypeOK
<1>2. CASE Restart
  <2>1. /\ presented' = Nil
        /\ upload' = [u \in Uploads |-> IF upload[u].stage \in Running
                                        THEN [stage |-> "done", owner |-> Nil]
                                        ELSE [upload[u] EXCEPT !.owner = Nil]]
    BY <1>2 DEF Restart
  <2>2. \A u \in Uploads : upload'[u].owner = Nil
    BY <1>1, <2>1 DEF Upload
  <2> QED
    BY <2>1, <2>2, NilAssumption DEF LivesInv
<1>3. ASSUME NEW e \in Sessions, HandleEditProfile(e) PROVE LivesInv'
  <2>1. /\ presented' = e /\ upload' = upload
        /\ \A d \in Sessions : d # e => edit'[d] = edit[d]
        /\ edit'[e] = [edit[e] EXCEPT !.life = "alive"]
    BY <1>1, <1>3 DEF HandleEditProfile
  <2>2. edit'[e].life = "alive"
    BY <1>1, <2>1 DEF Editor
  <2> QED
    BY <2>1, <2>2 DEF LivesInv
<1>4. ASSUME NEW e \in Sessions, Deallocate(e) PROVE LivesInv'
  <2>1. /\ presented' = presented /\ presented # e /\ upload' = upload
        /\ \A d \in Sessions : d # e => edit'[d] = edit[d]
        /\ edit'[e].life = "gone"
        /\ \A u \in Uploads : ~(upload[u].owner = e /\ upload[u].stage \in Running)
    BY <1>1, <1>4 DEF Deallocate, Retained, BlankEditor
  <2> QED
    BY <2>1 DEF LivesInv
<1>5. CASE ~Restart /\ \A e \in Sessions : ~HandleEditProfile(e) /\ ~Deallocate(e)
  <2>1. \A e \in Sessions : edit'[e].life = edit[e].life
    BY <1>5, LifeKept
  <2>2. ASSUME NEW e \in Sessions, NEW u \in Uploads, DidFinishPicking(e, u) PROVE LivesInv'
    <3>1. /\ presented' = presented /\ presented = e
          /\ \A v \in Uploads : v # u => upload'[v] = upload[v]
          /\ upload'[u] = [stage |-> "putting", owner |-> e]
      BY <1>1, <2>2 DEF DidFinishPicking
    <3>2. \A d \in Sessions : upload'[u].owner = d => edit[d].life = "alive"
      BY <3>1 DEF LivesInv
    <3> QED
      BY <2>1, <3>1, <3>2 DEF LivesInv
  <2>3. ASSUME NEW u \in Uploads, PutDataReply(u) \/ DownloadURLReply(u) \/ DownloadURLError(u)
        PROVE  LivesInv'
    <3>1. /\ presented' = presented /\ upload[u].stage \in Running
          /\ \E s \in Running \cup {"lost"} : upload' = [upload EXCEPT ![u].stage = s]
      BY <2>3 DEF PutDataReply, DownloadURLReply, DownloadURLError, Running
    <3>2. /\ \A v \in Uploads : v # u => upload'[v] = upload[v]
          /\ upload'[u].owner = upload[u].owner
      BY <1>1, <3>1 DEF Upload
    <3> QED
      BY <2>1, <3>1, <3>2, LivesKept
  <2>4. CASE ProfileImageUpdated
    <3>1. presented' = presented /\ upload' = [upload EXCEPT ![Head(mainQ).url].stage = "done"]
      BY <2>4 DEF ProfileImageUpdated
    <3>2. \A u \in Uploads : /\ upload'[u].owner = upload[u].owner
                             /\ upload'[u].stage \in Running => upload[u].stage \in Running
      BY <1>1, <3>1 DEF Upload, Running
    <3> QED
      BY <2>1, <3>1, <3>2, LivesKept
  <2>5. CASE upload' = upload /\ presented' \in {presented, Nil}
    BY <2>1, <2>5, LivesKept
  <2>6. ASSUME NEW e \in Sessions, Tap(e) PROVE LivesInv'
    BY <1>5, <2>2, <2>5, <2>6
       DEF Tap, HandleUpdateUserFullname, HandleChangeProfilePhoto, HandleCancel, HandleDone,
           HandleDoneTraps, WantsToUpdate, DismissController
  <2>7. CASE \/ PickerDidCancel \/ Kill \/ Fetching \/ StoreWrite \/ Writing
             \/ AnimationFinished \/ UNCHANGED vars
    BY <1>5, <2>5, <2>7 DEF PickerDidCancel, Kill, Fetching, FetchReply, FetchError, StoreWrite,
                            Writing, WriteAck, WriteReject, Dequeue, AnimationFinished, vars
  <2>8. CASE RunMainQueue
    BY <2>4, <2>5, <2>8
       DEF RunMainQueue, UserFetched, UserDataUpdated, WantsToUpdate, DismissController
  <2> QED
    BY <1>5, <2>3, <2>6, <2>7, <2>8 DEF Next, Storing
<1> QED
  BY <1>2, <1>3, <1>4, <1>5

\* Steps that leave both queues alone.
LEMMA NewsKept ==
    ASSUME NewsInv, UNCHANGED <<writes, mainQ>>,
           \A u \in Uploads : upload[u].stage = "writing" => upload'[u].stage = "writing"
    PROVE  NewsInv'
  BY DEF NewsInv, Silent

\* An entry that is no completion of an upload joins one of the queues.
LEMMA NewsOther ==
    ASSUME TypeOK, NewsInv, upload' = upload,
           \/ /\ mainQ' = mainQ
              /\ \E w \in Write : /\ w.done = Nil \/ w.done.kind # "imageWritten"
                                  /\ writes' = Append(writes, w)
           \/ /\ writes' = writes
              /\ \E c \in Callback : c.kind # "imageWritten" /\ mainQ' = Append(mainQ, c)
    PROVE  NewsInv'
<1>1. writes \in Seq(Write) /\ mainQ \in Seq(Callback)
  BY DEF TypeOK
<1>2. ASSUME NEW u, None(writes, ImageWrites(u)) PROVE None(writes', ImageWrites(u))
  <2>1. CASE writes' = writes
    BY <1>2, <2>1
  <2>2. ASSUME NEW w \in Write, w.done = Nil \/ w.done.kind # "imageWritten",
               writes' = Append(writes, w)
        PROVE  None(writes', ImageWrites(u))
    <3>1. w \notin ImageWrites(u)
      BY <2>2 DEF ImageWrites, ImageNews
    <3> QED
      BY <1>1, <1>2, <2>2, <3>1, QueueAppend
  <2> QED
    BY <2>1, <2>2
<1>3. ASSUME NEW u, None(mainQ, ImageNews(u)) PROVE None(mainQ', ImageNews(u))
  <2>1. CASE mainQ' = mainQ
    BY <1>3, <2>1
  <2>2. ASSUME NEW c \in Callback, c.kind # "imageWritten", mainQ' = Append(mainQ, c)
        PROVE  None(mainQ', ImageNews(u))
    <3>1. c \notin ImageNews(u)
      BY <2>2 DEF ImageNews
    <3> QED
      BY <1>1, <1>3, <2>2, <3>1, QueueAppend
  <2> QED
    BY <2>1, <2>2
<1>4. ASSUME NEW u, AtMostOne(writes, ImageWrites(u)) PROVE AtMostOne(writes', ImageWrites(u))
  <2>1. CASE writes' = writes
    BY <1>4, <2>1
  <2>2. ASSUME NEW w \in Write, w.done = Nil \/ w.done.kind # "imageWritten",
               writes' = Append(writes, w)
        PROVE  AtMostOne(writes', ImageWrites(u))
    <3>1. w \notin ImageWrites(u)
      BY <2>2 DEF ImageWrites, ImageNews
    <3> QED
      BY <1>1, <1>4, <2>2, <3>1, QueueOnce
  <2> QED
    BY <2>1, <2>2
<1>5. ASSUME NEW u, AtMostOne(mainQ, ImageNews(u)) PROVE AtMostOne(mainQ', ImageNews(u))
  <2>1. CASE mainQ' = mainQ
    BY <1>5, <2>1
  <2>2. ASSUME NEW c \in Callback, c.kind # "imageWritten", mainQ' = Append(mainQ, c)
        PROVE  AtMostOne(mainQ', ImageNews(u))
    <3>1. c \notin ImageNews(u)
      BY <2>2 DEF ImageNews
    <3> QED
      BY <1>1, <1>5, <2>2, <3>1, QueueOnce
  <2> QED
    BY <2>1, <2>2
<1> QED
  BY <1>2, <1>3, <1>4, <1>5 DEF NewsInv, Silent

\* Save queues writes of the name.
LEMMA NewsSave ==
    ASSUME TypeOK, NewsInv, NEW e \in Sessions, HandleDone(e)
    PROVE  NewsInv'
<1> DEFINE w == [field |-> "fullname", value |-> EditedUser(e).fullname,
                 done |-> Saved(e, EditedUser(e))]
<1>1. /\ UNCHANGED <<mainQ, upload>> /\ writes \in Seq(Write) /\ mainQ \in Seq(Callback)
      /\ writes' = writes \o FullnameWrites(e) /\ edit[e] \in Editor
  BY DEF TypeOK, HandleDone
<1>2. CASE edit[e].fullname = Nil
  <2>1. writes' = writes
    BY <1>1, <1>2 DEF FullnameWrites
  <2> QED
    BY <1>1, <2>1, NewsKept
<1>3. CASE edit[e].fullname # Nil
  <2>1. EditedUser(e) \in User
    BY Edited DEF HandleDone
  <2>2. Saved(e, EditedUser(e)) \in Callback
    BY <2>1, Constructors
  <2>3. w \in Write /\ w.done.kind = "saved"
    BY <2>1, <2>2 DEF Write, User, Saved
  <2>4. edit[e].imageChanged \in BOOLEAN
    BY <1>1 DEF Editor
  <2> HIDE DEF w
  <2>5. FullnameWrites(e) \in {<<w>>, <<w, w>>}
    BY <1>3, <2>4 DEF FullnameWrites, w
  <2>6. writes' = Append(writes, w) \/ writes' = Append(Append(writes, w), w)
    <3>1. \A s \in Seq(Write) : s \o <<w>> = Append(s, w)
      BY <2>3, AppendIsConcat
    <3>2. writes \o <<w, w>> = (writes \o <<w>>) \o <<w>>
      <4>1. <<w, w>> = <<w>> \o <<w>> /\ <<w>> \in Seq(Write)
        BY <2>3
      <4> QED
        BY <1>1, <4>1, ConcatAssociative
    <3>3. Append(writes, w) \in Seq(Write)
      BY <1>1, <2>3
    <3> QED
      BY <1>1, <2>5, <3>1, <3>2, <3>3
  <2>7. \A u : w \notin ImageWrites(u)
    BY <2>3 DEF ImageWrites, ImageNews
  <2>8. Append(writes, w) \in Seq(Write)
    BY <1>1, <2>3
  <2>9. ASSUME NEW u, None(writes, ImageWrites(u)) PROVE None(writes', ImageWrites(u))
    <3>1. None(Append(writes, w), ImageWrites(u))
      BY <1>1, <2>3, <2>7, <2>9, QueueAppend
    <3>2. None(Append(Append(writes, w), w), ImageWrites(u))
      BY <2>3, <2>7, <2>8, <3>1, QueueAppend
    <3> QED
      BY <2>6, <3>1, <3>2
  <2>10. ASSUME NEW u, AtMostOne(writes, ImageWrites(u)) PROVE AtMostOne(writes', ImageWrites(u))
    <3>1. AtMostOne(Append(writes, w), ImageWrites(u))
      BY <1>1, <2>3, <2>7, <2>10, QueueOnce
    <3>2. AtMostOne(Append(Append(writes, w), w), ImageWrites(u))
      BY <2>3, <2>7, <2>8, <3>1, QueueOnce
    <3> QED
      BY <2>6, <3>1, <3>2
  <2> QED
    BY <1>1, <2>9, <2>10 DEF NewsInv, Silent
<1> QED
  BY <1>2, <1>3

\* The URL of a picture is written: its completion is the only one.
LEMMA NewsLocated ==
    ASSUME TypeOK, NewsInv, NEW u \in Uploads, DownloadURLReply(u)
    PROVE  NewsInv'
<1> DEFINE w == [field |-> "profileImageUrl", value |-> u,
                 done |-> ImageWritten(upload[u].owner, u)]
<1>1. /\ writes \in Seq(Write) /\ mainQ' = mainQ /\ writes' = Append(writes, w)
      /\ upload \in [Uploads -> Upload] /\ upload[u].stage = "locating"
      /\ upload' = [upload EXCEPT ![u].stage = "writing"]
  BY DEF TypeOK, DownloadURLReply
<1>2. /\ upload'[u].stage = "writing"
      /\ \A v \in Uploads : v # u => upload'[v] = upload[v]
  BY <1>1 DEF Upload
<1>3. upload[u].owner \in Sessions
  BY <1>1 DEF Upload, Running
<1>4. ImageWritten(upload[u].owner, u) \in Callback
  BY <1>3, Constructors DEF Urls
<1>5. w \in Write /\ w.done.url = u
  BY <1>4 DEF Write, Urls, ImageWritten
<1> HIDE DEF w
<1>6. \A v : v # u => w \notin ImageWrites(v)
  BY <1>5 DEF ImageWrites, ImageNews
<1>7. Silent(u)
  BY <1>1 DEF NewsInv
<1>8. AtMostOne(writes', ImageWrites(u))
  BY <1>1, <1>5, <1>7, QueueOnce DEF NewsInv, Silent
<1>9. ASSUME NEW v, v # u, None(writes, ImageWrites(v)) PROVE None(writes', ImageWrites(v))
  BY <1>1, <1>5, <1>6, <1>9, QueueAppend
<1>10. ASSUME NEW v, v # u, AtMostOne(writes, ImageWrites(v))
       PROVE  AtMostOne(writes', ImageWrites(v))
  BY <1>1, <1>5, <1>6, <1>10, QueueOnce
<1> QED
  BY <1>1, <1>2, <1>7, <1>8, <1>9, <1>10 DEF NewsInv, Silent

\* A completion moves from the queue of writes to the main queue.
LEMMA NewsWritten ==
    ASSUME TypeOK, NewsInv, Dequeue
    PROVE  NewsInv'
<1> DEFINE w == Head(writes)
<1>1. /\ writes \in Seq(Write) /\ mainQ \in Seq(Callback) /\ writes # <<>> /\ upload' = upload
      /\ writes' = Tail(writes)
      /\ mainQ' = IF w.done = Nil THEN mainQ ELSE Append(mainQ, w.done)
  BY Queues DEF TypeOK, Dequeue
<1>2. w \in Write
  BY <1>1
<1>3. w.done \in Callback \cup {Nil}
  BY <1>2 DEF Write
<1> HIDE DEF w
<1>4. \A u : w \in ImageWrites(u) <=> w.done # Nil /\ w.done \in ImageNews(u)
  BY <1>2 DEF ImageWrites
<1>5. ASSUME NEW u, None(writes, ImageWrites(u))
      PROVE  None(writes', ImageWrites(u)) /\ w \notin ImageWrites(u)
  BY <1>1, <1>5, QueueTail DEF w
<1>6. ASSUME NEW u, AtMostOne(writes, ImageWrites(u))
      PROVE  /\ AtMostOne(writes', ImageWrites(u))
             /\ w \in ImageWrites(u) => None(writes', ImageWrites(u))
  BY <1>1, <1>6, QueueOnce DEF w
<1>7. ASSUME NEW u, None(mainQ, ImageNews(u)), w \notin ImageWrites(u)
      PROVE  None(mainQ', ImageNews(u))
  <2>1. CASE w.done = Nil
    BY <1>1, <1>7, <2>1
  <2>2. CASE w.done # Nil
    BY <1>1, <1>3, <1>4, <1>7, <2>2, QueueAppend
  <2> QED
    BY <2>1, <2>2
<1>8. ASSUME NEW u, AtMostOne(mainQ, ImageNews(u)),
             w \notin ImageWrites(u) \/ None(mainQ, ImageNews(u))
      PROVE  AtMostOne(mainQ', ImageNews(u))
  <2>1. CASE w.done = Nil
    BY <1>1, <1>8, <2>1
  <2>2. CASE w.done # Nil
    BY <1>1, <1>3, <1>4, <1>8, <2>2, QueueOnce
  <2> QED
    BY <2>1, <2>2
<1>9. ASSUME NEW u, Silent(u) PROVE Silent(u)'
  BY <1>5, <1>7, <1>9 DEF Silent
<1>10. ASSUME NEW u \in Uploads
       PROVE  /\ AtMostOne(writes', ImageWrites(u)) /\ AtMostOne(mainQ', ImageNews(u))
              /\ None(writes', ImageWrites(u)) \/ None(mainQ', ImageNews(u))
  <2>1. /\ AtMostOne(writes, ImageWrites(u)) /\ AtMostOne(mainQ, ImageNews(u))
        /\ None(writes, ImageWrites(u)) \/ None(mainQ, ImageNews(u))
    BY DEF NewsInv
  <2>2. CASE w \in ImageWrites(u)
    BY <1>5, <1>6, <1>8, <2>1, <2>2
  <2>3. CASE w \notin ImageWrites(u)
    BY <1>5, <1>6, <1>7, <1>8, <2>1, <2>3
  <2> QED
    BY <2>2, <2>3
<1> QED
  BY <1>1, <1>9, <1>10 DEF NewsInv

\* A completion runs: it is the one of an upload that is writing.
LEMMA NewsRun ==
    ASSUME TypeOK, NewsInv, RunMainQueue
    PROVE  NewsInv'
<1> DEFINE c == Head(mainQ)
<1>1. /\ mainQ \in Seq(Callback) /\ mainQ # <<>> /\ mainQ' = Tail(mainQ) /\ writes' = writes
      /\ upload \in [Uploads -> Upload]
  BY DEF TypeOK, RunMainQueue, UserFetched, UserDataUpdated, ProfileImageUpdated, NextCallback
<1>2. c \in Callback
  BY <1>1
<1> HIDE DEF c
<1>3. ASSUME NEW u, None(mainQ, ImageNews(u))
      PROVE  None(mainQ', ImageNews(u)) /\ c \notin ImageNews(u)
  BY <1>1, <1>3, QueueTail DEF c
<1>4. ASSUME NEW u, AtMostOne(mainQ, ImageNews(u))
      PROVE  /\ AtMostOne(mainQ', ImageNews(u))
             /\ c \in ImageNews(u) => None(mainQ', ImageNews(u))
  BY <1>1, <1>4, QueueOnce DEF c
<1>5. CASE upload' = upload
  BY <1>1, <1>3, <1>4, <1>5 DEF NewsInv, Silent
<1>6. CASE ProfileImageUpdated
  <2>1. c.kind = "imageWritten" /\ upload' = [upload EXCEPT ![c.url].stage = "done"]
    BY <1>6 DEF ProfileImageUpdated, NextCallback, c
  <2>2. c \in ImageNews(c.url) /\ c.url \in Urls \cup {Nil}
    BY <1>2, <2>1 DEF ImageNews, Callback
  <2>3. ~None(mainQ, ImageNews(c.url))
    BY <1>3, <2>2
  <2>4. None(writes', ImageWrites(c.url)) /\ None(mainQ', ImageNews(c.url))
    BY <1>1, <1>4, <2>2, <2>3 DEF NewsInv, Silent
  <2>5. \A u \in Uploads : u # c.url => upload'[u] = upload[u]
    BY <1>1, <2>1
  <2> QED
    BY <1>1, <1>3, <1>4, <2>4, <2>5 DEF NewsInv, Silent
<1> QED
  BY <1>5, <1>6 DEF RunMainQueue, UserFetched, UserDataUpdated

\* What the dead process knew of is forgotten.
LEMMA NewsRestart ==
    ASSUME TypeOK, Restart
    PROVE  NewsInv'
<1>1. /\ \A i \in 1..stored : writes[i] \in Write
      /\ mainQ' = <<>> /\ writes' = [i \in 1..stored |-> [writes[i] EXCEPT !.done = Nil]]
  BY Queues DEF Restart, Relaunched
<1>2. \A i \in DOMAIN writes' : writes'[i].done = Nil
  BY <1>1 DEF Write
<1>3. \A u : None(writes', ImageWrites(u)) /\ None(mainQ', ImageNews(u))
  BY <1>1, <1>2 DEF None, ImageWrites
<1> QED
  BY <1>3 DEF NewsInv, Silent, AtMostOne, None

LEMMA NewsNext == TypeOK /\ NewsInv /\ [Next]_vars => NewsInv'
<1> SUFFICES ASSUME TypeOK, NewsInv, [Next]_vars PROVE NewsInv'
  OBVIOUS
<1>1. upload \in [Uploads -> Upload]
  BY DEF TypeOK
<1>2. CASE UNCHANGED <<writes, mainQ, upload>>
  BY <1>2, NewsKept
<1>3. ASSUME NEW e \in Sessions, NEW u \in Uploads, DidFinishPicking(e, u) PROVE NewsInv'
  <2>1. /\ UNCHANGED <<writes, mainQ>> /\ upload[u].stage = "free"
        /\ \A v \in Uploads : v # u => upload'[v] = upload[v]
    BY <1>1, <1>3 DEF DidFinishPicking
  <2> QED
    BY <2>1, NewsKept
<1>4. ASSUME NEW u \in Uploads, PutDataReply(u) \/ DownloadURLError(u) PROVE NewsInv'
  <2>1. /\ UNCHANGED <<writes, mainQ>> /\ upload[u].stage \in {"putting", "locating"}
        /\ \A v \in Uploads : v # u => upload'[v] = upload[v]
    BY <1>1, <1>4 DEF PutDataReply, DownloadURLError
  <2> QED
    BY <2>1, NewsKept
<1>5. CASE FetchReply
  <2>1. Head(fetching).view \in Views
    <3>1. fetching \in Seq(Fetch) /\ fetching # <<>>
      BY <1>5 DEF TypeOK, FetchReply
    <3>2. 1 \in DOMAIN fetching /\ Head(fetching) = fetching[1]
      BY <3>1
    <3> QED
      BY <3>2, FetchFacts
  <2>2. PICK u \in User : mainQ' = Append(mainQ, Fetched(Head(fetching).view, u))
    BY <1>5 DEF FetchReply
  <2>3. /\ Fetched(Head(fetching).view, u) \in Callback
        /\ Fetched(Head(fetching).view, u).kind # "imageWritten"
    BY <2>1, Constructors DEF Fetched
  <2>4. UNCHANGED <<writes, upload>>
    BY <1>5 DEF FetchReply
  <2> QED
    BY <2>2, <2>3, <2>4, NewsOther
<1>6. ASSUME NEW e \in Sessions, Tap(e) \/ Deallocate(e) PROVE NewsInv'
  BY <1>2, <1>3, <1>6, NewsSave, NewsRestart
     DEF Tap, Deallocate, HandleEditProfile, HandleUpdateUserFullname, HandleChangeProfilePhoto,
         HandleCancel, HandleDoneTraps
<1>7. CASE PickerDidCancel \/ Kill \/ StoreWrite \/ AnimationFinished \/ UNCHANGED vars
  BY <1>2, <1>7, NewsRestart DEF PickerDidCancel, Kill, StoreWrite, AnimationFinished, vars
<1>8. CASE Fetching \/ Storing \/ Writing
  BY <1>2, <1>4, <1>5, <1>8, NewsLocated, NewsWritten
     DEF Fetching, FetchError, Storing, Writing, WriteAck, WriteReject
<1> QED
  BY <1>6, <1>7, <1>8, NewsRun DEF Next

\* The refinement mapping: the operations of Loader and the views they left.
Work(up) == [u \in Uploads |-> IF up[u].stage \in Running THEN up[u].owner ELSE Nil]
Left(ed, up) == {e \in Sessions : /\ ed[e].life = "alive"
                                  /\ \E u \in Uploads : up[u].stage = "lost" /\ up[u].owner = e}

\* Both specifications use the HUD of JGProgressHUD.
LEMMA SameHUD ==
    /\ LoaderContract!IdleHUD = IdleHUD
    /\ \A h, v : LoaderContract!ShowInView(h, v) = ShowInView(h, v)
    /\ \A h : LoaderContract!DismissAnimated(h) = DismissAnimated(h)
    /\ \A h : LoaderContract!TransitionFinished(h) = TransitionFinished(h)
    /\ \A h, v : LoaderContract!ViewReleased(h, v) = ViewReleased(h, v)
    /\ \A h : LoaderContract!ConfigureProfileImage(h, Home) = ConfigureProfileImage(h)
<1>1. LoaderContract!IdleHUD = IdleHUD
  BY DEF LoaderContract!IdleHUD, IdleHUD
<1>2. \A h, v : LoaderContract!ShowInView(h, v) = ShowInView(h, v)
  BY DEF LoaderContract!ShowInView, ShowInView
<1>3. \A h : LoaderContract!DismissAnimated(h) = DismissAnimated(h)
  BY DEF LoaderContract!DismissAnimated, DismissAnimated
<1>4. \A h : LoaderContract!TransitionFinished(h) = TransitionFinished(h)
  BY <1>1, <1>3 DEF LoaderContract!TransitionFinished, TransitionFinished,
                    LoaderContract!CleanUpAfterPresentation, CleanUpAfterPresentation,
                    LoaderContract!CleanUpAfterDismissal, CleanUpAfterDismissal
<1>5. \A h, v : LoaderContract!ViewReleased(h, v) = ViewReleased(h, v)
  BY DEF LoaderContract!ViewReleased, ViewReleased
<1>6. \A h : LoaderContract!ConfigureProfileImage(h, Home) = ConfigureProfileImage(h)
  BY <1>2, <1>3 DEF LoaderContract!ConfigureProfileImage, ConfigureProfileImage
<1> QED
  BY <1>1, <1>2, <1>3, <1>4, <1>5, <1>6

\* The actions of Loader in terms of the mapping.
LEMMA LoaderActions ==
    /\ \A o \in Uploads, v \in Views :
          /\ Work(upload)[o] = Nil /\ Work(upload') = [Work(upload) EXCEPT ![o] = v]
          /\ hud' = ShowInView(hud, v) /\ Left(edit', upload') = Left(edit, upload)
          => LoaderContract!Next
    /\ \A o \in Uploads :
          /\ Work(upload)[o] # Nil /\ Work(upload') = [Work(upload) EXCEPT ![o] = Nil]
          /\ \/ hud' = DismissAnimated(hud) /\ Left(edit', upload') = Left(edit, upload)
             \/ hud' = hud /\ Left(edit', upload') = Left(edit, upload) \cup {Work(upload)[o]}
          => LoaderContract!Next
    /\ \A v \in Views :
          /\ \A o \in Uploads : Work(upload)[o] # v
          /\ hud' = ViewReleased(hud, v) /\ Work(upload') = Work(upload)
          /\ Left(edit', upload') = Left(edit, upload) \ {v}
          => LoaderContract!Next
    /\ /\ Work(upload') = Work(upload) /\ Left(edit', upload') = Left(edit, upload)
       /\ hud' \in {ConfigureProfileImage(hud), ConfigureProfileImage(ConfigureProfileImage(hud))}
       => LoaderContract!Next
    /\ /\ Work(upload') = Work(upload) /\ Left(edit', upload') = Left(edit, upload)
       /\ hud.transition # "none" /\ hud' = TransitionFinished(hud)
       => LoaderContract!Next
    /\ /\ hud' = IdleHUD /\ Work(upload') = [o \in Uploads |-> Nil] /\ Left(edit', upload') = {}
       => LoaderContract!Next
    /\ /\ Work(upload') = Work(upload) /\ Left(edit', upload') = Left(edit, upload) /\ hud' = hud
       => UNCHANGED LoaderContract!vars
<1> USE SameHUD DEF LoaderContract!Next, Work, Left
<1>1. ASSUME NEW o \in Uploads, NEW v \in Views,
             Work(upload)[o] = Nil, Work(upload') = [Work(upload) EXCEPT ![o] = v],
             hud' = ShowInView(hud, v), Left(edit', upload') = Left(edit, upload)
      PROVE  LoaderContract!BeginWork(o, v)
  BY <1>1 DEF LoaderContract!BeginWork
<1>2. ASSUME NEW o \in Uploads, Work(upload)[o] # Nil,
             Work(upload') = [Work(upload) EXCEPT ![o] = Nil],
             hud' = DismissAnimated(hud), Left(edit', upload') = Left(edit, upload)
      PROVE  LoaderContract!EndWork(o)
  BY <1>2 DEF LoaderContract!EndWork
<1>3. ASSUME NEW o \in Uploads, Work(upload)[o] # Nil,
             Work(upload') = [Work(upload) EXCEPT ![o] = Nil],
             hud' = hud, Left(edit', upload') = Left(edit, upload) \cup {Work(upload)[o]}
      PROVE  LoaderContract!AbortWork(o)
  BY <1>3 DEF LoaderContract!AbortWork
<1>4. ASSUME NEW v \in Views, \A o \in Uploads : Work(upload)[o] # v,
             hud' = ViewReleased(hud, v), Work(upload') = Work(upload),
             Left(edit', upload') = Left(edit, upload) \ {v}
      PROVE  LoaderContract!ReleaseView(v)
  BY <1>4 DEF LoaderContract!ReleaseView
<1>5. ASSUME Work(upload') = Work(upload), Left(edit', upload') = Left(edit, upload),
             hud' \in {ConfigureProfileImage(hud),
                       ConfigureProfileImage(ConfigureProfileImage(hud))}
      PROVE  LoaderContract!FlashLoader(Home)
  BY <1>5 DEF LoaderContract!FlashLoader
<1>6. ASSUME Work(upload') = Work(upload), Left(edit', upload') = Left(edit, upload),
             hud.transition # "none", hud' = TransitionFinished(hud)
      PROVE  LoaderContract!AnimationFinished
  BY <1>6 DEF LoaderContract!AnimationFinished
<1>7. ASSUME hud' = IdleHUD, Work(upload') = [o \in Uploads |-> Nil], Left(edit', upload') = {}
      PROVE  LoaderContract!Relaunch
  BY <1>7 DEF LoaderContract!Relaunch
<1>8. ASSUME Work(upload') = Work(upload), Left(edit', upload') = Left(edit, upload), hud' = hud
      PROVE  UNCHANGED LoaderContract!vars
  BY <1>8 DEF LoaderContract!vars
<1>9. Home \in Views
  BY DEF Views
<1> HIDE DEF Work, Left
<1> QED
  BY ONLY <1>1, <1>2, <1>3, <1>4, <1>5, <1>6, <1>7, <1>8, <1>9 DEF LoaderContract!Next

\* Steps that begin, end or abort no upload and free no screen.
LEMMA LoaderSame ==
    ASSUME LivesInv,
           \A e \in Sessions : edit'[e].life = edit[e].life \/ HandleEditProfile(e),
           \A u \in Uploads : /\ upload'[u].owner = upload[u].owner
                              /\ upload'[u].stage \in Running <=> upload[u].stage \in Running
                              /\ upload'[u].stage = "lost" <=> upload[u].stage = "lost"
    PROVE  Work(upload') = Work(upload) /\ Left(edit', upload') = Left(edit, upload)
<1>1. Work(upload') = Work(upload)
  BY DEF Work
<1>2. ASSUME NEW e \in Sessions PROVE e \in Left(edit', upload') <=> e \in Left(edit, upload)
  <2>1. CASE edit'[e].life = edit[e].life
    BY <2>1 DEF Left
  <2>2. CASE HandleEditProfile(e)
    <3>1. \A u \in Uploads : upload[u].owner # e
      BY <2>2 DEF HandleEditProfile, LivesInv
    <3> QED
      BY <3>1 DEF Left
  <2> QED
    BY <2>1, <2>2
<1> QED
  BY <1>1, <1>2 DEF Left

\* A picture is picked: the upload begins its work on the screen.
LEMMA LoaderBegins ==
    ASSUME TypeOK, NEW e \in Sessions, NEW u \in Uploads, DidFinishPicking(e, u)
    PROVE  LoaderContract!Next
<1>1. /\ upload \in [Uploads -> Upload] /\ upload[u].stage = "free" /\ hud' = ShowInView(hud, e)
      /\ upload' = [upload EXCEPT ![u] = [stage |-> "putting", owner |-> e]]
      /\ edit \in [Sessions -> Editor] /\ edit' = [edit EXCEPT ![e].imageChanged = TRUE]
  BY DEF TypeOK, DidFinishPicking
<1>2. \A d \in Sessions : edit'[d].life = edit[d].life
  BY <1>1 DEF Editor
<1>3. /\ \A v \in Uploads : v # u => upload'[v] = upload[v]
      /\ upload'[u].stage = "putting" /\ upload'[u].owner = e
  BY <1>1
<1>4. Work(upload)[u] = Nil /\ Work(upload') = [Work(upload) EXCEPT ![u] = e]
  BY <1>1, <1>3 DEF Work, Running
<1>5. Left(edit', upload') = Left(edit, upload)
  BY <1>1, <1>2, <1>3 DEF Left
<1>6. e \in Views
  BY DEF Views
<1> QED
  BY <1>1, <1>4, <1>5, <1>6, LoaderActions

\* downloadURL fails: the upload leaves the loader on a screen that lives.
LEMMA LoaderAborts ==
    ASSUME TypeOK, LivesInv, NEW u \in Uploads, DownloadURLError(u)
    PROVE  LoaderContract!Next
<1>1. /\ upload \in [Uploads -> Upload] /\ upload[u] \in Upload /\ upload[u].stage = "locating"
      /\ upload' = [upload EXCEPT ![u].stage = "lost"] /\ edit' = edit /\ hud' = hud
  BY DEF TypeOK, DownloadURLError
<1>2. /\ \A v \in Uploads : v # u => upload'[v] = upload[v]
      /\ upload'[u].stage = "lost" /\ upload'[u].owner = upload[u].owner
  BY <1>1 DEF Upload
<1>3. upload[u].owner \in Sessions
  BY <1>1 DEF Upload, Running
<1>4. edit[upload[u].owner].life = "alive"
  BY <1>1, <1>3 DEF LivesInv, Running
<1>5. /\ Work(upload)[u] = upload[u].owner /\ Work(upload)[u] # Nil
      /\ Work(upload') = [Work(upload) EXCEPT ![u] = Nil]
  BY <1>1, <1>2, <1>3, NilAssumption DEF Work, Running
<1>6. Left(edit', upload') = Left(edit, upload) \cup {Work(upload)[u]}
  BY <1>1, <1>2, <1>3, <1>4, <1>5 DEF Left
<1> QED
  BY <1>1, <1>5, <1>6, LoaderActions

\* The completion of updateProfileImage ends the work of its upload.
LEMMA LoaderEnds ==
    ASSUME TypeOK, NewsInv, ProfileImageUpdated,
           \A e \in Sessions : edit'[e].life = edit[e].life
    PROVE  LoaderContract!Next
<1> DEFINE u == Head(mainQ).url
<1>1. /\ mainQ \in Seq(Callback) /\ mainQ # <<>> /\ Head(mainQ).kind = "imageWritten"
      /\ upload \in [Uploads -> Upload] /\ upload' = [upload EXCEPT ![u].stage = "done"]
      /\ hud' = DismissAnimated(hud)
  BY DEF TypeOK, ProfileImageUpdated, NextCallback
<1>2. Head(mainQ) \in Callback
  BY <1>1
<1>3. Head(mainQ) \in ImageNews(u) /\ u \in Urls \cup {Nil}
  BY <1>1, <1>2 DEF ImageNews, Callback
<1> HIDE DEF u
<1>4. ~None(mainQ, ImageNews(u))
  BY <1>1, <1>3, QueueTail
<1>5. u \in Uploads /\ upload[u].stage = "writing"
  BY <1>3, <1>4 DEF NewsInv, Silent
<1>6. /\ \A v \in Uploads : v # u => upload'[v] = upload[v]
      /\ upload'[u].stage = "done" /\ upload[u].owner \in Sessions
  BY <1>1, <1>5 DEF Upload, Running
<1>7. Work(upload)[u] # Nil /\ Work(upload') = [Work(upload) EXCEPT ![u] = Nil]
  BY <1>5, <1>6, NilAssumption DEF Work, Running
<1>8. Left(edit', upload') = Left(edit, upload)
  BY <1>5, <1>6 DEF Left
<1> QED
  BY <1>1, <1>5, <1>7, <1>8, LoaderActions

\* A screen is freed: no upload works on it.
LEMMA LoaderReleases ==
    ASSUME TypeOK, NEW e \in Sessions, Deallocate(e)
    PROVE  LoaderContract!Next
<1>1. /\ upload' = upload /\ hud' = ViewReleased(hud, e) /\ edit \in [Sessions -> Editor]
      /\ edit' = [edit EXCEPT ![e] = BlankEditor("gone")]
      /\ \A u \in Uploads : ~(upload[u].owner = e /\ upload[u].stage \in Running)
  BY DEF TypeOK, Deallocate, Retained
<1>2. \A u \in Uploads : Work(upload)[u] # e
  BY <1>1, NilAssumption DEF Work
<1>3. edit'[e].life = "gone" /\ \A d \in Sessions : d # e => edit'[d] = edit[d]
  BY <1>1 DEF BlankEditor
<1>4. Left(edit', upload') = Left(edit, upload) \ {e}
  BY <1>1, <1>3 DEF Left
<1>5. e \in Views
  BY DEF Views
<1> QED
  BY <1>1, <1>2, <1>4, <1>5, LoaderActions

\* The process dies.
LEMMA LoaderRelaunched ==
    ASSUME TypeOK, Restart
    PROVE  LoaderContract!Next
<1>1. /\ hud' = IdleHUD /\ upload \in [Uploads -> Upload]
      /\ upload' = [u \in Uploads |-> IF upload[u].stage \in Running
                                      THEN [stage |-> "done", owner |-> Nil]
                                      ELSE [upload[u] EXCEPT !.owner = Nil]]
  BY DEF TypeOK, Restart
<1>2. \A u \in Uploads : upload'[u].stage \notin Running /\ upload'[u].owner = Nil
  BY <1>1 DEF Upload, Running
<1>3. Work(upload') = [u \in Uploads |-> Nil] /\ Left(edit', upload') = {}
  BY <1>2, NilAssumption DEF Work, Left
<1> QED
  BY <1>1, <1>3, LoaderActions

LEMMA LoaderStep ==
    ASSUME TypeOK, LivesInv, NewsInv, [Next]_vars
    PROVE  [LoaderContract!Next]_(LoaderContract!vars)
<1> DEFINE Flashed == \/ hud' = ConfigureProfileImage(hud)
                      \/ hud' = ConfigureProfileImage(ConfigureProfileImage(hud))
<1>1. upload \in [Uploads -> Upload] /\ edit \in [Sessions -> Editor]
  BY DEF TypeOK
<1>2. CASE Restart \/ \E e \in Sessions : Deallocate(e)
  BY <1>2, LoaderRelaunched, LoaderReleases
<1>3. ASSUME NEW e \in Sessions, HandleEditProfile(e) PROVE UNCHANGED LoaderContract!vars
  <2>1. /\ UNCHANGED <<upload, hud>> /\ \A d \in Sessions : d # e => edit'[d] = edit[d]
    BY <1>1, <1>3 DEF HandleEditProfile
  <2>2. Work(upload') = Work(upload) /\ Left(edit', upload') = Left(edit, upload)
    BY <1>3, <2>1, LoaderSame
  <2> QED
    BY <2>1, <2>2, LoaderActions
<1>4. CASE ~Restart /\ \A e \in Sessions : ~HandleEditProfile(e) /\ ~Deallocate(e)
  <2>1. \A e \in Sessions : edit'[e].life = edit[e].life
    BY <1>4, LifeKept
  <2>2. CASE upload' = upload /\ (hud' = hud \/ Flashed)
    <3>1. Work(upload') = Work(upload) /\ Left(edit', upload') = Left(edit, upload)
      BY <2>1, <2>2, LoaderSame
    <3> QED
      BY <2>2, <3>1, LoaderActions
  <2>3. CASE AnimationFinished
    <3>1. upload' = upload /\ hud.transition # "none" /\ hud' = TransitionFinished(hud)
      BY <2>3 DEF AnimationFinished
    <3>2. Work(upload') = Work(upload) /\ Left(edit', upload') = Left(edit, upload)
      BY <2>1, <3>1, LoaderSame
    <3> QED
      BY <3>1, <3>2, LoaderActions
  <2>4. ASSUME NEW u \in Uploads, PutDataReply(u) \/ DownloadURLReply(u)
        PROVE  UNCHANGED LoaderContract!vars
    <3>1. /\ hud' = hud /\ upload[u].stage \in Running
          /\ \E s \in Running : upload' = [upload EXCEPT ![u].stage = s]
      BY <2>4 DEF PutDataReply, DownloadURLReply, Running
    <3>2. /\ \A v \in Uploads : v # u => upload'[v] = upload[v]
          /\ upload'[u].owner = upload[u].owner /\ upload'[u].stage \in Running
      BY <1>1, <3>1 DEF Upload
    <3>3. Work(upload') = Work(upload) /\ Left(edit', upload') = Left(edit, upload)
      BY <2>1, <3>1, <3>2, LoaderSame DEF Running
    <3> QED
      BY <3>1, <3>3, LoaderActions
  <2>5. ASSUME NEW e \in Sessions, Tap(e) PROVE [LoaderContract!Next]_(LoaderContract!vars)
    BY <1>4, <2>2, <2>5, LoaderBegins
       DEF Tap, HandleUpdateUserFullname, HandleChangeProfilePhoto, HandleCancel, HandleDone,
           HandleDoneTraps, WantsToUpdate
  <2>6. CASE PickerDidCancel \/ Kill \/ Fetching \/ StoreWrite \/ Writing \/ UNCHANGED vars
    BY <1>4, <2>2, <2>6 DEF PickerDidCancel, Kill, Fetching, FetchReply, FetchError, StoreWrite,
                            Writing, WriteAck, WriteReject, Dequeue, vars
  <2>7. CASE RunMainQueue
    BY <2>1, <2>2, <2>7, LoaderEnds DEF RunMainQueue, UserFetched, UserDataUpdated, WantsToUpdate
  <2> QED
    BY <1>4, <2>3, <2>4, <2>5, <2>6, <2>7, LoaderAborts DEF Next, Storing
<1> QED
  BY <1>2, <1>3, <1>4

\* The uploads, the pictures Home configures and the screens that come and go
\* use the shared HUD as the contract of Loader says, for every number of
\* screens and pictures: an upload works on one screen, which lives until the
\* upload's only completion has hidden the loader or a failure has left it
\* there (Service.swift updateProfileImage, Extensions.swift showLoader).
THEOREM LoaderRefined == Spec => ImplementsLoader
<1>1. Init => LoaderContract!Init
  <2> SUFFICES ASSUME Init PROVE LoaderContract!Init
    OBVIOUS
  <2>1. Work(upload) = [u \in Uploads |-> Nil] /\ Left(edit, upload) = {} /\ hud = IdleHUD
    BY DEF Init, Work, Left, Running
  <2> QED
    BY <2>1, SameHUD DEF LoaderContract!Init, Work, Left
<1>2. TypeOK /\ LivesInv /\ NewsInv /\ [Next]_vars => [LoaderContract!Next]_(LoaderContract!vars)
  BY LoaderStep
<1> QED
  BY <1>1, <1>2, TypeCorrect, UploadsInit, LivesNext, NewsNext, PTL
     DEF Spec, ImplementsLoader, LoaderContract!Spec
=============================================================================
