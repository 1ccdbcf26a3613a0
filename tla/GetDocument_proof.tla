-------------------------- MODULE GetDocument_proof --------------------------
(***************************************************************************)
(* getDocument, for any number of gets, writes of this and of other        *)
(* clients, failures and kills.                                            *)
(***************************************************************************)
EXTENDS GetDocument, FiniteSetTheorems, SequenceTheorems, TLAPS

-----------------------------------------------------------------------------
(* The client's methods, as operators on its record.                        *)

\* Events for gets of L with snapshots of S; a client that has posted no
\* others and has no others to post.
Batches(L, S) == [gets : SUBSET L, snapshot : S]

Tells(c, L, S) ==
    /\ c \in Clients
    /\ c.posts \in Seq(Batches(L, S))
    /\ c.listeners \subseteq L
    /\ c.snapshot \in S \cup {Nil}

\* What methods of the view and of the tracker leave alone.
SameStore(c, d) ==
    /\ d.queue = c.queue /\ d.cache = c.cache
    /\ d.remote_keys = c.remote_keys /\ d.resume_token = c.resume_token
    /\ d.last_remote_snapshot = c.last_remote_snapshot

SameRemote(c, d) ==
    /\ d.stream = c.stream /\ d.listening = c.listening
    /\ d.target = c.target /\ d.update = c.update /\ d.requests = c.requests

SameTracker(c, d) ==
    /\ d.state = c.state /\ d.failures = c.failures /\ d.timer = c.timer

LEMMA PostFacts ==
    ASSUME NEW c, NEW L, NEW S, Tells(c, L, S), S \subseteq Snapshots, L \subseteq Gets,
           NEW gets \in SUBSET L, NEW s \in S
    PROVE  /\ Tells(Post(c, gets, s), L, S)
           /\ \E p \in Seq(Batches(L, S)) : Post(c, gets, s) = [c EXCEPT !.posts = p]
<1> DEFINE batch == [gets |-> gets, snapshot |-> s]
<1> DEFINE p == IF gets = {} THEN c.posts ELSE Append(c.posts, batch)
<1>1. batch \in Batches(L, S) /\ batch \in Events
  BY DEF Batches, Events
<1> HIDE DEF batch
<1>2. p \in Seq(Batches(L, S)) /\ p \in Seq(Events)
  BY <1>1 DEF Tells, Clients
<1>3. Post(c, gets, s) = [c EXCEPT !.posts = p]
  BY DEF Post, batch
<1> HIDE DEF p
<1>4. [c EXCEPT !.posts = p] \in Clients
  BY <1>2 DEF Tells, Clients
<1>5. c \in Clients
  BY DEF Tells
<1>6. /\ [c EXCEPT !.posts = p].posts = p
      /\ [c EXCEPT !.posts = p].listeners = c.listeners
      /\ [c EXCEPT !.posts = p].snapshot = c.snapshot
  BY <1>5 DEF Clients
<1> QED
  BY <1>2, <1>3, <1>4, <1>6 DEF Tells

LEMMA RaiseFacts ==
    ASSUME NEW c, NEW L, NEW S, Tells(c, L, S), S \subseteq Snapshots, L \subseteq Gets,
           NEW s \in S, NEW d, d = OnViewSnapshots(c, s)
    PROVE  /\ Tells(d, L, S)
           /\ SameStore(c, d) /\ SameRemote(c, d) /\ SameTracker(c, d)
           /\ d.view = c.view /\ d.listeners = c.listeners /\ d.online_state = c.online_state
           /\ d.snapshot = s
           /\ d.raised \subseteq c.raised \cup c.listeners
<1> DEFINE gets == {g \in c.listeners : g \in c.raised \/ ShouldRaiseInitialEvent(c, s)}
<1>1. gets \in SUBSET L /\ gets \subseteq c.listeners
  BY DEF Tells
<1>2. d = [Post(c, gets, s) EXCEPT !.snapshot = s, !.raised = @ \cup gets]
  BY DEF OnViewSnapshots
<1> HIDE DEF gets
<1>3. PICK p \in Seq(Batches(L, S)) : Post(c, gets, s) = [c EXCEPT !.posts = p]
  BY <1>1, PostFacts, SMTT(30)
<1>4. Tells(Post(c, gets, s), L, S)
  BY <1>1, PostFacts
<1>5. c \in Clients
  BY DEF Tells
<1>6. p \in Seq(Events)
  BY <1>3, <1>4, <1>5 DEF Tells, Clients
<1>7. d = [c EXCEPT !.posts = p, !.snapshot = s, !.raised = @ \cup gets]
  BY <1>2, <1>3, <1>5 DEF Clients
<1>8. d \in Clients
  BY <1>1, <1>5, <1>6, <1>7, ZenonT(60) DEF Clients
<1>9. /\ d.posts = p /\ d.snapshot = s /\ d.raised = c.raised \cup gets
      /\ d.view = c.view /\ d.listeners = c.listeners /\ d.online_state = c.online_state
  BY <1>5, <1>7 DEF Clients
<1>10. SameStore(c, d) /\ SameRemote(c, d) /\ SameTracker(c, d)
  BY <1>5, <1>7 DEF Clients, SameStore, SameRemote, SameTracker
<1> QED
  BY <1>1, <1>3, <1>8, <1>9, <1>10 DEF Tells

\* The view shows the changed document, or what it showed before: an
\* acknowledged write is shown until watch has it.
ShowsOrWaits(c, d, doc) ==
    \/ d.view.has = doc.has
    \/ /\ d.view.has = c.view.has /\ c.view.has # {} /\ doc.has # {}
       /\ doc.committed /\ ~ doc.local

\* What EmitNewSnapshots makes of a view.
LEMMA EmitView ==
    ASSUME NEW c \in Clients, c.view # Nil,
           NEW doc \in LocalDocuments \cup {Nil}, NEW change \in TargetChanges \cup {Nil},
           NEW d, d = EmitNewSnapshots(c, doc, change)
    PROVE  /\ d.view \in Views /\ d.view # Nil /\ d.view.since = c.view.since
           /\ doc = Nil => d.view.has = c.view.has
           /\ doc # Nil /\ (doc.has = c.view.has \/ doc.local \/ ~ doc.committed \/ ~ c.view.local)
                 => d.view.has = doc.has
           /\ doc # Nil => ShowsOrWaits(c, d, doc)
           /\ d.view.synced <=> c.view.synced \/ (change # Nil /\ change.change = "added")
           /\ d.view.current <=> IF change = Nil THEN c.view.current ELSE change.current
<1> DEFINE view    == c.view
           changes == doc # Nil /\ DocumentChanges(view, doc)
           shown   == IF changes THEN doc ELSE view
           synced  == view.synced \/ (change # Nil /\ change.change = "added")
           current == IF change = Nil THEN view.current ELSE change.current
           limbo   == IF current THEN ShouldBeInLimbo(synced, shown) ELSE view.limbo
           state   == IF current /\ ~ limbo THEN "Synced" ELSE "Local"
           view1   == [has |-> shown.has, local |-> shown.local,
                       synced |-> synced, current |-> current,
                       limbo |-> limbo, state |-> state, since |-> view.since]
           c1      == [c EXCEPT !.view = view1]
           snap    == [has |-> shown.has, from_cache |-> state = "Local",
                       settled |-> c.queue = <<>> /\ ~ c.cache.committed, since |-> view.since]
<1>1. c \in Clients /\ view \in Views
  BY DEF Clients
<1>2. d = IF changes \/ state # view.state THEN OnViewSnapshots(c1, snap) ELSE c1
  BY <1>1 DEF EmitNewSnapshots, Clients
<1>3. /\ shown.has \in SUBSET Writes /\ shown.local \in BOOLEAN /\ view.since \in Nat
      /\ view.synced \in BOOLEAN /\ view.current \in BOOLEAN /\ view.limbo \in BOOLEAN
  BY <1>1 DEF Views, LocalDocuments
<1>4. synced \in BOOLEAN /\ current \in BOOLEAN
  BY <1>3 DEF TargetChanges
<1>5. limbo \in BOOLEAN /\ state \in {"Local", "Synced"} /\ (state = "Synced" => current)
  BY <1>3, <1>4 DEF ShouldBeInLimbo
<1>6. /\ doc = Nil => shown.has = view.has
      /\ ~ changes => shown.has = view.has
      /\ doc # Nil /\ (doc.has = view.has \/ doc.local \/ ~ doc.committed \/ ~ view.local)
            => shown.has = doc.has
      /\ doc # Nil => \/ shown.has = doc.has
                      \/ /\ shown.has = view.has /\ view.has # {} /\ doc.has # {}
                         /\ doc.committed /\ ~ doc.local
  BY <1>1 DEF DocumentChanges, LocalDocuments, Views
<1> HIDE DEF changes, shown, synced, current, limbo, state
<1>7. view1 \in Views
  BY <1>3, <1>4, <1>5 DEF Views
<1>8. /\ view1.has = shown.has /\ view1.since = view.since /\ view1.current = current
      /\ view1.synced = synced
  OBVIOUS
<1> HIDE DEF view1, snap
<1>9. c1 \in Clients /\ c1.view = view1
  BY <1>1, <1>7 DEF Clients
<1> HIDE DEF c1, view
<1>10. d.view = view1
  <2>1. CASE changes \/ state # view.state
    BY <2>1, <1>2, <1>9 DEF OnViewSnapshots, Post, Clients
  <2>2. CASE ~ (changes \/ state # view.state)
    BY <2>2, <1>2, <1>9
  <2> QED
    BY <2>1, <2>2
<1> QED
  BY <1>6, <1>7, <1>8, <1>10, NilRecordAssumption DEF synced, current, view, ShowsOrWaits

\* What EmitNewSnapshots makes of a view; the snapshot it raises, if any,
\* shows that view.
LEMMA EmitFacts ==
    ASSUME NEW c, NEW L, NEW S, Tells(c, L, S), S \subseteq Snapshots, L \subseteq Gets,
           NEW doc \in LocalDocuments \cup {Nil}, NEW change \in TargetChanges \cup {Nil},
           NEW d, d = EmitNewSnapshots(c, doc, change), c.view # Nil,
           \A s \in Snapshots :
               /\ s.has = d.view.has /\ s.since = c.view.since
               /\ s.from_cache \/ d.view.current
               /\ s.settled <=> c.queue = <<>> /\ ~ c.cache.committed
               => s \in S
    PROVE  /\ Tells(d, L, S)
           /\ SameStore(c, d) /\ SameRemote(c, d) /\ SameTracker(c, d)
           /\ d.listeners = c.listeners /\ d.online_state = c.online_state
           /\ d.raised \subseteq c.raised \cup c.listeners
           /\ d.view \in Views /\ d.view.since = c.view.since
           /\ doc = Nil => d.view.has = c.view.has
           /\ doc # Nil /\ (doc.has = c.view.has \/ doc.local \/ ~ doc.committed \/ ~ c.view.local)
                 => d.view.has = doc.has
           /\ d.view.synced <=> c.view.synced \/ (change # Nil /\ change.change = "added")
           /\ d.view.current <=> IF change = Nil THEN c.view.current ELSE change.current
           /\ d.view.state = "Synced" => d.view.current
           /\ \/ d.snapshot = c.snapshot /\ d.view.has = c.view.has /\ c.view.state # "None"
              \/ d.snapshot # Nil /\ d.snapshot.has = d.view.has
<1> DEFINE view    == c.view
           changes == doc # Nil /\ DocumentChanges(view, doc)
           shown   == IF changes THEN doc ELSE view
           synced  == view.synced \/ (change # Nil /\ change.change = "added")
           current == IF change = Nil THEN view.current ELSE change.current
           limbo   == IF current THEN ShouldBeInLimbo(synced, shown) ELSE view.limbo
           state   == IF current /\ ~ limbo THEN "Synced" ELSE "Local"
           view1   == [has |-> shown.has, local |-> shown.local,
                       synced |-> synced, current |-> current,
                       limbo |-> limbo, state |-> state, since |-> view.since]
           c1      == [c EXCEPT !.view = view1]
           snap    == [has |-> shown.has, from_cache |-> state = "Local",
                       settled |-> c.queue = <<>> /\ ~ c.cache.committed, since |-> view.since]
<1>1. c \in Clients /\ view \in Views
  BY DEF Tells, Clients
<1>2. d = IF changes \/ state # view.state THEN OnViewSnapshots(c1, snap) ELSE c1
  BY <1>1 DEF EmitNewSnapshots, Clients
<1>3. /\ shown.has \in SUBSET Writes /\ shown.local \in BOOLEAN /\ view.since \in Nat
      /\ view.synced \in BOOLEAN /\ view.current \in BOOLEAN /\ view.limbo \in BOOLEAN
  BY <1>1 DEF Views, LocalDocuments
<1>4. synced \in BOOLEAN /\ current \in BOOLEAN
  BY <1>3 DEF TargetChanges
<1>5. limbo \in BOOLEAN /\ state \in {"Local", "Synced"} /\ (state = "Synced" => current)
  BY <1>3, <1>4 DEF ShouldBeInLimbo
<1>6. /\ doc = Nil => shown.has = view.has
      /\ ~ changes => shown.has = view.has
      /\ doc # Nil /\ (doc.has = view.has \/ doc.local \/ ~ doc.committed \/ ~ view.local)
            => shown.has = doc.has
  BY <1>1 DEF DocumentChanges, LocalDocuments, Views
<1> HIDE DEF changes, shown, synced, current, limbo, state
<1>7. view1 \in Views
  BY <1>3, <1>4, <1>5 DEF Views
<1>8. snap \in Snapshots
  BY <1>1, <1>3 DEF Snapshots, Clients
<1>9. /\ view1.has = shown.has /\ view1.since = view.since /\ view1.current = current
      /\ view1.synced = synced /\ view1.state = state
      /\ snap.has = shown.has /\ snap.since = view.since /\ (snap.from_cache \/ current)
      /\ snap.settled <=> c.queue = <<>> /\ ~ c.cache.committed
  BY <1>5
<1> HIDE DEF view1, snap
<1>10. c1 \in Clients
  BY <1>1, <1>7 DEF Clients
<1>11. /\ c1.view = view1 /\ c1.posts = c.posts /\ c1.listeners = c.listeners
       /\ c1.snapshot = c.snapshot /\ c1.online_state = c.online_state /\ c1.raised = c.raised
  BY <1>1 DEF Clients
<1>12. SameStore(c, c1) /\ SameRemote(c, c1) /\ SameTracker(c, c1)
  BY <1>1 DEF SameStore, SameRemote, SameTracker, Clients
<1>13. Tells(c1, L, S)
  BY <1>10, <1>11 DEF Tells
<1> HIDE DEF c1, view
<1>14. d.view = view1
  <2>1. CASE changes \/ state # view.state
    BY <2>1, <1>2, <1>10, <1>11 DEF OnViewSnapshots, Post, Clients
  <2>2. CASE ~ (changes \/ state # view.state)
    BY <2>2, <1>2, <1>11
  <2> QED
    BY <2>1, <2>2
<1>15. snap \in S
  BY <1>8, <1>9, <1>14 DEF view
<1>16. CASE changes \/ state # view.state
  <2>1. d = OnViewSnapshots(c1, snap)
    BY <1>16, <1>2
  <2>2. /\ Tells(d, L, S) /\ SameStore(c1, d) /\ SameRemote(c1, d) /\ SameTracker(c1, d)
        /\ d.listeners = c1.listeners /\ d.online_state = c1.online_state
        /\ d.snapshot = snap /\ d.raised \subseteq c1.raised \cup c1.listeners
    BY <2>1, <1>13, <1>15, RaiseFacts
  <2>3. snap # Nil
    BY <1>8, NilRecordAssumption
  <2>4. SameStore(c, d) /\ SameRemote(c, d) /\ SameTracker(c, d)
    BY <2>2, <1>12 DEF SameStore, SameRemote, SameTracker
  <2> QED
    BY <2>2, <2>3, <2>4, <1>5, <1>6, <1>7, <1>9, <1>11, <1>14 DEF synced, current, view
<1>17. CASE ~ (changes \/ state # view.state)
  BY <1>17, <1>2, <1>5, <1>6, <1>7, <1>9, <1>11, <1>12, <1>13, <1>14 DEF synced, current, view
<1> QED
  BY <1>16, <1>17

\* A cached snapshot of the view is in S.
CachedIn(c, S) ==
    c.view # Nil => \A s \in Snapshots :
        s.has = c.view.has /\ s.since = c.view.since /\ s.from_cache => s \in S

\* The view and its snapshot show the same, or neither is there.
InStep(c) == /\ c.view = Nil <=> c.snapshot = Nil
             /\ c.view # Nil => c.snapshot.has = c.view.has

\* What the tracker leaves of the view: it can only lose currency.
Keeps(c, d) ==
    /\ SameStore(c, d)
    /\ d.listeners = c.listeners /\ d.raised \subseteq c.raised \cup c.listeners
    /\ d.view = Nil <=> c.view = Nil
    /\ c.view # Nil => /\ d.view.has = c.view.has /\ d.view.since = c.view.since
                       /\ d.view.synced = c.view.synced
                       /\ d.view.current => c.view.current

LEMMA OnlineStateFacts ==
    ASSUME NEW c, NEW L, NEW S, Tells(c, L, S), S \subseteq Snapshots, L \subseteq Gets,
           CachedIn(c, S), NEW st \in OnlineStates,
           NEW d, d = HandleOnlineStateChange(c, st)
    PROVE  /\ Tells(d, L, S) /\ Keeps(c, d) /\ SameRemote(c, d) /\ SameTracker(c, d) /\ CachedIn(d, S)
           /\ d.online_state = st
           /\ InStep(c) => InStep(d)
           /\ c.view = Nil => d.snapshot = c.snapshot
<1> DEFINE c0 == [c EXCEPT !.view.current = FALSE]
           c1 == IF st = "Offline" /\ c.view # Nil /\ c.view.current
                 THEN EmitNewSnapshots(c0, Nil, Nil) ELSE c
           c2 == [c1 EXCEPT !.online_state = st]
           gets == c2.listeners \ c2.raised
<1>1. c \in Clients
  BY DEF Tells
<1>2. /\ Tells(c1, L, S) /\ Keeps(c, c1) /\ SameRemote(c, c1) /\ SameTracker(c, c1)
      /\ InStep(c) => InStep(c1)
      /\ c.view = Nil => c1.snapshot = c.snapshot
  <2>1. CASE st = "Offline" /\ c.view # Nil /\ c.view.current
    <3>1. c.view \in Views
      BY <1>1, <2>1 DEF Clients
    <3>2. c0 = [c EXCEPT !.view = [c.view EXCEPT !.current = FALSE]]
      BY <1>1 DEF Clients
    <3>3. [c.view EXCEPT !.current = FALSE] \in Views
      BY <3>1 DEF Views
    <3>4. c0 \in Clients /\ c0.view = [c.view EXCEPT !.current = FALSE]
      BY <1>1, <3>2, <3>3 DEF Clients
    <3>5. c0.view # Nil
      BY <3>3, <3>4, NilRecordAssumption
    <3>6. /\ c0.view.has = c.view.has /\ c0.view.since = c.view.since
          /\ c0.view.synced = c.view.synced /\ c0.view.current = FALSE
      BY <3>1, <3>4 DEF Views
    <3>7. /\ c0.posts = c.posts /\ c0.listeners = c.listeners /\ c0.snapshot = c.snapshot
          /\ c0.raised = c.raised
          /\ SameStore(c, c0) /\ SameRemote(c, c0) /\ SameTracker(c, c0)
      BY <1>1 DEF Clients, SameStore, SameRemote, SameTracker
    <3>8. Tells(c0, L, S)
      BY <3>4, <3>7 DEF Tells
    <3>9. c1 = EmitNewSnapshots(c0, Nil, Nil)
      BY <2>1
    <3> HIDE DEF c0, c1
    <3>10. c1.view.has = c0.view.has /\ (c1.view.current <=> c0.view.current)
      BY <3>4, <3>5, <3>9, SMTT(60) DEF EmitNewSnapshots, OnViewSnapshots, Post, Clients
    <3>11. \A s \in Snapshots :
               /\ s.has = c1.view.has /\ s.since = c0.view.since
               /\ s.from_cache \/ c1.view.current
               /\ s.settled <=> c0.queue = <<>> /\ ~ c0.cache.committed
               => s \in S
      BY <2>1, <3>6, <3>10 DEF CachedIn
    <3>12. /\ Tells(c1, L, S)
           /\ SameStore(c0, c1) /\ SameRemote(c0, c1) /\ SameTracker(c0, c1)
           /\ c1.listeners = c0.listeners
           /\ c1.raised \subseteq c0.raised \cup c0.listeners
           /\ c1.view \in Views /\ c1.view.since = c0.view.since
           /\ c1.view.synced <=> c0.view.synced
           /\ \/ c1.snapshot = c0.snapshot /\ c1.view.has = c0.view.has
              \/ c1.snapshot # Nil /\ c1.snapshot.has = c1.view.has
      BY <3>5, <3>8, <3>9, <3>11, EmitFacts
    <3>13. c1.view # Nil
      BY <3>12, NilRecordAssumption
    <3>14. c1.view.synced = c.view.synced
      BY <3>1, <3>6, <3>12 DEF Views
    <3>15. SameStore(c, c1) /\ SameRemote(c, c1) /\ SameTracker(c, c1)
      BY <3>7, <3>12 DEF SameStore, SameRemote, SameTracker
    <3>16. Keeps(c, c1)
      BY <2>1, <3>6, <3>7, <3>10, <3>12, <3>13, <3>14, <3>15 DEF Keeps
    <3>17. InStep(c) => InStep(c1)
      BY <2>1, <3>6, <3>7, <3>12, <3>13 DEF InStep
    <3> QED
      BY <2>1, <3>12, <3>15, <3>16, <3>17
  <2>2. CASE ~ (st = "Offline" /\ c.view # Nil /\ c.view.current)
    BY <2>2 DEF Keeps, SameStore, SameRemote, SameTracker
  <2> QED
    BY <2>1, <2>2
<1> HIDE DEF c1
<1>3. c1 \in Clients
  BY <1>2 DEF Tells
<1>4. /\ c2 \in Clients /\ c2.posts = c1.posts /\ c2.listeners = c1.listeners
      /\ c2.snapshot = c1.snapshot /\ c2.view = c1.view /\ c2.raised = c1.raised
      /\ c2.online_state = st
      /\ SameStore(c1, c2) /\ SameRemote(c1, c2) /\ SameTracker(c1, c2)
  BY <1>3 DEF Clients, SameStore, SameRemote, SameTracker
<1>5. Tells(c2, L, S)
  BY <1>2, <1>4 DEF Tells
<1>6. /\ Keeps(c, c2) /\ SameRemote(c, c2) /\ SameTracker(c, c2)
      /\ InStep(c) => InStep(c2)
      /\ c.view = Nil => c2.snapshot = c.snapshot
  BY <1>2, <1>4 DEF Keeps, SameStore, SameRemote, SameTracker, InStep
<1>7. d = IF c2.snapshot # Nil /\ ShouldRaiseInitialEvent(c2, c2.snapshot)
          THEN [Post(c2, gets, c2.snapshot) EXCEPT !.raised = @ \cup gets] ELSE c2
  BY DEF HandleOnlineStateChange, c1
<1> HIDE DEF c2
<1>8. /\ Tells(d, L, S) /\ Keeps(c2, d) /\ SameRemote(c2, d) /\ SameTracker(c2, d)
      /\ d.online_state = st /\ d.snapshot = c2.snapshot /\ d.view = c2.view
  <2>1. CASE c2.snapshot # Nil /\ ShouldRaiseInitialEvent(c2, c2.snapshot)
    <3> DEFINE snap == c2.snapshot
    <3>1. snap \in S /\ gets \in SUBSET L /\ gets \subseteq c2.listeners
      BY <2>1, <1>5 DEF Tells
    <3>a. d = [Post(c2, gets, snap) EXCEPT !.raised = @ \cup gets]
      BY <2>1, <1>7
    <3> HIDE DEF gets, snap
    <3>2. PICK p \in Seq(Batches(L, S)) : Post(c2, gets, snap) = [c2 EXCEPT !.posts = p]
      BY <3>1, <1>5, PostFacts, SMTT(30)
    <3>3. Tells(Post(c2, gets, snap), L, S)
      BY <3>1, <1>5, PostFacts
    <3>4. p \in Seq(Events)
      BY <3>2, <3>3, <1>4 DEF Tells, Clients
    <3>5. d = [c2 EXCEPT !.posts = p, !.raised = @ \cup gets]
      BY <3>a, <1>4, <3>2 DEF Clients
    <3>6. d \in Clients
      BY <1>4, <3>1, <3>4, <3>5, ZenonT(60) DEF Clients
    <3>7. /\ d.posts = p /\ d.snapshot = c2.snapshot /\ d.raised = c2.raised \cup gets
          /\ d.view = c2.view /\ d.listeners = c2.listeners /\ d.online_state = c2.online_state
      BY <1>4, <3>5 DEF Clients
    <3>8. SameStore(c2, d) /\ SameRemote(c2, d) /\ SameTracker(c2, d)
      BY <1>4, <3>5 DEF Clients, SameStore, SameRemote, SameTracker
    <3> QED
      BY <1>4, <1>5, <3>1, <3>2, <3>6, <3>7, <3>8 DEF Tells, Keeps
  <2>2. CASE ~ (c2.snapshot # Nil /\ ShouldRaiseInitialEvent(c2, c2.snapshot))
    BY <2>2, <1>4, <1>5, <1>7 DEF Keeps, SameStore, SameRemote, SameTracker
  <2> QED
    BY <2>1, <2>2
<1>9. Keeps(c, d) /\ SameRemote(c, d) /\ SameTracker(c, d) /\ (InStep(c) => InStep(d))
  <2>1. SameStore(c, d) /\ SameRemote(c, d) /\ SameTracker(c, d)
    BY <1>6, <1>8 DEF Keeps, SameStore, SameRemote, SameTracker
  <2>2. InStep(c) => InStep(d)
    BY <1>6, <1>8 DEF InStep
  <2> QED
    BY <1>6, <1>8, <2>1, <2>2 DEF Keeps
<1>10. CachedIn(d, S)
  BY <1>9 DEF CachedIn, Keeps
<1> QED
  BY <1>6, <1>8, <1>9, <1>10

\* The hypotheses of these lemmas, and what all of the tracker's methods do.
Sound(c, L, S) ==
    Tells(c, L, S) /\ CachedIn(c, S) /\ S \subseteq Snapshots /\ L \subseteq Gets

Tracks(c, d) ==
    /\ Keeps(c, d)
    /\ InStep(c) => InStep(d)
    /\ c.view = Nil => d.snapshot = c.snapshot
    /\ c.online_state = c.state => d.online_state = d.state

LEMMA TracksTransitive ==
    ASSUME NEW c, NEW d, NEW e, Tracks(c, d), Tracks(d, e)
    PROVE  Tracks(c, e)
<1>1. SameStore(c, e)
  BY DEF Tracks, Keeps, SameStore
<1>2. Keeps(c, e)
  BY <1>1 DEF Tracks, Keeps
<1> QED
  BY <1>2 DEF Tracks, Keeps

LEMMA SetAndBroadcastFacts ==
    ASSUME NEW c, NEW L, NEW S, Sound(c, L, S), NEW st \in OnlineStates,
           NEW d, d = SetAndBroadcast(c, st)
    PROVE  /\ Sound(d, L, S) /\ Tracks(c, d) /\ SameRemote(c, d)
           /\ d.state = st /\ d.failures = c.failures /\ d.timer = c.timer
<1>1. c \in Clients
  BY DEF Sound, Tells
<1>2. CASE st = c.state
  BY <1>2 DEF SetAndBroadcast, Tracks, Keeps, SameStore, SameRemote
<1>3. CASE st # c.state
  <2> DEFINE c1 == [c EXCEPT !.state = st]
  <2>1. /\ c1 \in Clients /\ c1.posts = c.posts /\ c1.listeners = c.listeners
        /\ c1.snapshot = c.snapshot /\ c1.view = c.view /\ c1.raised = c.raised
        /\ c1.state = st /\ c1.failures = c.failures /\ c1.timer = c.timer
        /\ SameStore(c, c1) /\ SameRemote(c, c1)
    BY <1>1 DEF Clients, SameStore, SameRemote
  <2>2. d = HandleOnlineStateChange(c1, st)
    BY <1>3 DEF SetAndBroadcast
  <2> HIDE DEF c1
  <2>3. Tells(c1, L, S) /\ CachedIn(c1, S)
    BY <2>1 DEF Sound, Tells, CachedIn
  <2>4. /\ Tells(d, L, S) /\ Keeps(c1, d) /\ SameRemote(c1, d) /\ SameTracker(c1, d) /\ CachedIn(d, S)
        /\ d.online_state = st
        /\ InStep(c1) => InStep(d)
        /\ c1.view = Nil => d.snapshot = c1.snapshot
    BY <2>2, <2>3, OnlineStateFacts DEF Sound
  <2>5. SameStore(c, d) /\ SameRemote(c, d)
    BY <2>1, <2>4 DEF Keeps, SameStore, SameRemote
  <2>6. Keeps(c, d) /\ (InStep(c) => InStep(d))
    BY <2>1, <2>4, <2>5 DEF Keeps, InStep
  <2> QED
    BY <2>1, <2>4, <2>5, <2>6 DEF Sound, Tracks, SameTracker
<1> QED
  BY <1>2, <1>3

\* Changes of the tracker's own fields do not disturb the rest.
OnlyTracker(c, d) ==
    /\ d \in Clients /\ SameStore(c, d) /\ SameRemote(c, d)
    /\ d.view = c.view /\ d.listeners = c.listeners /\ d.raised = c.raised
    /\ d.snapshot = c.snapshot /\ d.posts = c.posts
    /\ d.state = c.state /\ d.online_state = c.online_state

LEMMA TrackerFields ==
    ASSUME NEW c, NEW d, NEW L, NEW S, Sound(c, L, S), OnlyTracker(c, d)
    PROVE  Sound(d, L, S) /\ Tracks(c, d) /\ SameRemote(c, d)
BY DEF OnlyTracker, Sound, Tells, CachedIn, Tracks, Keeps, InStep

LEMMA UpdateStateFacts ==
    ASSUME NEW c, NEW L, NEW S, Sound(c, L, S), NEW st \in OnlineStates,
           NEW d, d = UpdateState(c, st)
    PROVE  /\ Sound(d, L, S) /\ Tracks(c, d) /\ SameRemote(c, d)
           /\ d.state = st /\ d.failures = 0 /\ d.timer = FALSE
<1> DEFINE c1 == [c EXCEPT !.timer = FALSE, !.failures = 0]
<1>1. d = SetAndBroadcast(c1, st)
  BY DEF UpdateState
<1>0. OnlyTracker(c, c1) /\ c1.failures = 0 /\ c1.timer = FALSE
  <2>1. c \in Clients
    BY DEF Sound, Tells
  <2>2. c1 \in Clients
    <3> DEFINE f == 0
    <3>1. f \in 0..1 /\ c1 = [c EXCEPT !.timer = FALSE, !.failures = f]
      OBVIOUS
    <3> HIDE DEF f, c1
    <3> QED
      BY <2>1, <3>1 DEF Clients
  <2>3. SameStore(c, c1) /\ SameRemote(c, c1)
    BY <2>1 DEF Clients, SameStore, SameRemote
  <2>4. /\ c1.view = c.view /\ c1.listeners = c.listeners /\ c1.raised = c.raised
        /\ c1.snapshot = c.snapshot /\ c1.posts = c.posts
        /\ c1.state = c.state /\ c1.online_state = c.online_state
        /\ c1.failures = 0 /\ c1.timer = FALSE
    BY <2>1 DEF Clients
  <2> QED
    BY <2>2, <2>3, <2>4 DEF OnlyTracker
<1> HIDE DEF c1
<1>2. Sound(c1, L, S) /\ Tracks(c, c1) /\ SameRemote(c, c1)
  BY <1>0, TrackerFields
<1>3. /\ Sound(d, L, S) /\ Tracks(c1, d) /\ SameRemote(c1, d)
      /\ d.state = st /\ d.failures = c1.failures /\ d.timer = c1.timer
  BY <1>1, <1>2, SetAndBroadcastFacts
<1> QED
  BY <1>0, <1>2, <1>3, TracksTransitive DEF SameRemote

LEMMA StreamStartFacts ==
    ASSUME NEW c, NEW L, NEW S, Sound(c, L, S), NEW d, d = HandleWatchStreamStart(c)
    PROVE  /\ Sound(d, L, S) /\ Tracks(c, d) /\ SameRemote(c, d)
           /\ d.failures = c.failures
           /\ c.failures # 0 => d.state = c.state /\ d.timer = c.timer
           /\ c.failures = 0 => d.state = "Unknown" /\ d.timer
<1>1. CASE c.failures # 0
  BY <1>1 DEF HandleWatchStreamStart, Tracks, Keeps, SameStore, SameRemote
<1>2. CASE c.failures = 0
  <2> DEFINE c1 == SetAndBroadcast(c, "Unknown")
  <2>1. d = [c1 EXCEPT !.timer = TRUE]
    BY <1>2 DEF HandleWatchStreamStart
  <2>2. /\ Sound(c1, L, S) /\ Tracks(c, c1) /\ SameRemote(c, c1)
        /\ c1.state = "Unknown" /\ c1.failures = c.failures
    BY SetAndBroadcastFacts DEF OnlineStates
  <2> HIDE DEF c1
  <2>3. /\ OnlyTracker(c1, d)
        /\ d.state = c1.state /\ d.failures = c1.failures /\ d.timer = TRUE
    BY <2>1, <2>2 DEF OnlyTracker, Sound, Tells, Clients, SameStore, SameRemote
  <2>5. Sound(d, L, S) /\ Tracks(c1, d) /\ SameRemote(c1, d)
    BY <2>2, <2>3, TrackerFields
  <2> QED
    BY <1>2, <2>2, <2>3, <2>5, TracksTransitive DEF SameRemote
<1> QED
  BY <1>1, <1>2

LEMMA StreamFailureFacts ==
    ASSUME NEW c, NEW L, NEW S, Sound(c, L, S), NEW d, d = HandleWatchStreamFailure(c)
    PROVE  /\ Sound(d, L, S) /\ Tracks(c, d) /\ SameRemote(c, d)
           /\ c.state = "Online" => d.state = "Unknown" /\ d.failures = c.failures /\ d.timer = c.timer
           /\ c.state # "Online" => d.state = "Offline" /\ d.failures = 1 /\ d.timer = FALSE
<1>1. CASE c.state = "Online"
  BY <1>1, SetAndBroadcastFacts DEF HandleWatchStreamFailure, OnlineStates
<1>2. CASE c.state # "Online"
  <2> DEFINE c1 == [c EXCEPT !.timer = FALSE, !.failures = 1]
  <2>1. d = SetAndBroadcast(c1, "Offline")
    BY <1>2 DEF HandleWatchStreamFailure
  <2>0. OnlyTracker(c, c1) /\ c1.failures = 1 /\ c1.timer = FALSE
    <3>1. c \in Clients
      BY DEF Sound, Tells
    <3>2. c1 \in Clients
      <4> DEFINE f == 1
      <4>1. f \in 0..1 /\ c1 = [c EXCEPT !.timer = FALSE, !.failures = f]
        OBVIOUS
      <4> HIDE DEF f, c1
      <4> QED
        BY <3>1, <4>1 DEF Clients
    <3>3. SameStore(c, c1) /\ SameRemote(c, c1)
      BY <3>1 DEF Clients, SameStore, SameRemote
    <3>4. /\ c1.view = c.view /\ c1.listeners = c.listeners /\ c1.raised = c.raised
          /\ c1.snapshot = c.snapshot /\ c1.posts = c.posts
          /\ c1.state = c.state /\ c1.online_state = c.online_state
          /\ c1.failures = 1 /\ c1.timer = FALSE
      BY <3>1 DEF Clients
    <3> QED
      BY <3>2, <3>3, <3>4 DEF OnlyTracker
  <2> HIDE DEF c1
  <2>2. Sound(c1, L, S) /\ Tracks(c, c1) /\ SameRemote(c, c1)
    BY <2>0, TrackerFields
  <2>3. /\ Sound(d, L, S) /\ Tracks(c1, d) /\ SameRemote(c1, d)
        /\ d.state = "Offline" /\ d.failures = c1.failures /\ d.timer = c1.timer
    BY <2>1, <2>2, SetAndBroadcastFacts DEF OnlineStates
  <2> QED
    BY <1>2, <2>0, <2>2, <2>3, TracksTransitive DEF SameRemote
<1> QED
  BY <1>1, <1>2

\* Changes of the stream and of the aggregator.
SameViews(c, d) ==
    /\ d.view = c.view /\ d.listeners = c.listeners /\ d.raised = c.raised
    /\ d.snapshot = c.snapshot /\ d.posts = c.posts /\ d.online_state = c.online_state

OnlyRemote(c, d) ==
    d \in Clients /\ SameStore(c, d) /\ SameTracker(c, d) /\ SameViews(c, d)

LEMMA RemoteFields ==
    ASSUME NEW c, NEW d, NEW L, NEW S, Sound(c, L, S), OnlyRemote(c, d)
    PROVE  Sound(d, L, S) /\ Tracks(c, d)
BY DEF OnlyRemote, SameViews, SameTracker, Sound, Tells, CachedIn, Tracks, Keeps, InStep

LEMMA StreamMethods ==
    ASSUME NEW s \in Streams
    PROVE  /\ Start(s) \in Streams /\ OnStreamStart(s) \in Streams
           /\ InhibitBackoff(s) \in Streams /\ CancelIdleCheck(s) \in Streams
           /\ MarkIdle(s) \in Streams /\ Stop(s) \in Streams /\ OnStreamFinish(s) \in Streams
           /\ BackoffElapsed(s) \in Streams
<1>1. ASSUME NEW t \in Streams PROVE Start(t) \in Streams
  BY DEF Start, Streams, States
<1>2. [s EXCEPT !.state = "Initial"] \in Streams
  BY DEF Streams, States
<1>3. OnStreamStart(s) \in Streams /\ InhibitBackoff(s) \in Streams
  BY DEF OnStreamStart, InhibitBackoff, Streams, States
<1>4. CancelIdleCheck(s) \in Streams /\ MarkIdle(s) \in Streams
  BY DEF CancelIdleCheck, MarkIdle, IsOpen, Streams
<1>5. Stop(s) \in Streams /\ OnStreamFinish(s) \in Streams
  BY DEF Stop, OnStreamFinish, Close, Streams, States
<1> QED
  BY <1>1, <1>2, <1>3, <1>4, <1>5 DEF BackoffElapsed

LEMMA NewTarget == NewTargetState \in TargetStates
BY DEF NewTargetState, TargetStates

LEMMA StartFacts ==
    ASSUME NEW c, NEW L, NEW S, Sound(c, L, S), NEW d, d = StartWatchStream(c)
    PROVE  /\ Sound(d, L, S) /\ Tracks(c, d)
           /\ d.stream = Start(c.stream) /\ d.target = NewTargetState /\ d.update = Nil
           /\ d.listening = c.listening /\ d.requests = c.requests
           /\ d.failures = c.failures
           /\ c.failures # 0 => d.state = c.state /\ d.timer = c.timer
           /\ c.failures = 0 => d.state = "Unknown" /\ d.timer
<1> DEFINE s == Start(c.stream)
<1> DEFINE c1 == [c EXCEPT !.target = NewTargetState, !.update = Nil, !.stream = s]
<1>1. c \in Clients
  BY DEF Sound, Tells
<1>2. s \in Streams
  BY <1>1, StreamMethods DEF Clients
<1>3. d = HandleWatchStreamStart(c1)
  BY <1>1 DEF StartWatchStream, Clients
<1> HIDE DEF s
<1>4. OnlyRemote(c, c1)
  <2>1. c1 \in Clients
    BY <1>1, <1>2, NewTarget DEF Clients
  <2>2. SameStore(c, c1) /\ SameTracker(c, c1)
    BY <1>1 DEF SameStore, SameTracker, Clients
  <2>3. SameViews(c, c1)
    BY <1>1 DEF SameViews, Clients
  <2> QED
    BY <2>1, <2>2, <2>3 DEF OnlyRemote
<1>5. /\ c1.stream = s /\ c1.target = NewTargetState /\ c1.update = Nil
      /\ c1.listening = c.listening /\ c1.requests = c.requests
  BY <1>1 DEF Clients
<1> HIDE DEF c1
<1>6. Sound(c1, L, S) /\ Tracks(c, c1)
  BY <1>4, RemoteFields
<1>7. /\ Sound(d, L, S) /\ Tracks(c1, d) /\ SameRemote(c1, d)
      /\ d.failures = c1.failures
      /\ c1.failures # 0 => d.state = c1.state /\ d.timer = c1.timer
      /\ c1.failures = 0 => d.state = "Unknown" /\ d.timer
  BY <1>3, <1>6, StreamStartFacts
<1>8. Tracks(c, d)
  BY <1>6, <1>7, TracksTransitive
<1> QED
  BY <1>4, <1>5, <1>7, <1>8 DEF OnlyRemote, SameTracker, SameRemote, s

LEMMA SendFacts ==
    ASSUME NEW c \in Clients, NEW request \in Requests, NEW d, d = SendRequest(c, request)
    PROVE  /\ OnlyRemote(c, d)
           /\ d.listening = c.listening /\ d.update = c.update
           /\ d.requests = Append(c.requests, request)
           /\ d.stream.state = c.stream.state /\ d.stream.idle = FALSE
           /\ d.target.outstanding_responses = c.target.outstanding_responses + 1
           /\ d.target.current = c.target.current /\ d.target.change = c.target.change
<1> DEFINE q == Append(c.requests, request)
           s == CancelIdleCheck(c.stream)
           t == [c.target EXCEPT !.outstanding_responses = @ + 1]
<1>1. q \in Seq(Requests)
  BY DEF Clients
<1>2. s \in Streams /\ s.state = c.stream.state /\ s.idle = FALSE
  BY StreamMethods DEF Clients, CancelIdleCheck, Streams
<1>3. /\ t \in TargetStates
      /\ t.outstanding_responses = c.target.outstanding_responses + 1
      /\ t.current = c.target.current /\ t.change = c.target.change
  BY SMTT(30) DEF Clients, TargetStates
<1>4. d = [c EXCEPT !.requests = q, !.stream = s, !.target = t]
  BY DEF SendRequest, Clients
<1> HIDE DEF q, s, t
<1>5. d \in Clients
  BY <1>1, <1>2, <1>3, <1>4 DEF Clients
<1>6. SameStore(c, d) /\ SameTracker(c, d) /\ SameViews(c, d)
  BY <1>4 DEF SameStore, SameTracker, SameViews, Clients
<1>7. /\ d.listening = c.listening /\ d.update = c.update
      /\ d.requests = q /\ d.stream = s /\ d.target = t
  BY <1>4 DEF Clients
<1> QED
  BY <1>2, <1>3, <1>5, <1>6, <1>7 DEF OnlyRemote, q

LEMMA DisconnectedFacts ==
    ASSUME NEW c \in Clients, NEW stream \in Streams, NEW d, d = Disconnected(c, stream)
    PROVE  /\ OnlyRemote(c, d)
           /\ d.listening = c.listening /\ d.update = Nil /\ d.requests = <<>>
           /\ d.target = NewTargetState
           /\ d.stream.state = stream.state /\ d.stream.idle = stream.idle
<1> DEFINE s == [stream EXCEPT !.close_count = 0]
           q == <<>>
<1>1. s \in Streams /\ s.state = stream.state /\ s.idle = stream.idle
  BY DEF Streams
<1>2. d = [c EXCEPT !.stream = s, !.requests = q, !.target = NewTargetState, !.update = Nil]
  BY DEF Disconnected
<1>3. q \in Seq(Requests)
  OBVIOUS
<1> HIDE DEF s, q
<1>4. d \in Clients
  BY <1>1, <1>2, <1>3, NewTarget, ZenonT(60) DEF Clients
<1>5. SameStore(c, d) /\ SameTracker(c, d) /\ SameViews(c, d)
  BY <1>2 DEF SameStore, SameTracker, SameViews, Clients
<1>6. /\ d.listening = c.listening /\ d.update = Nil /\ d.requests = q
      /\ d.target = NewTargetState /\ d.stream = s
  BY <1>2 DEF Clients
<1> QED
  BY <1>1, <1>4, <1>5, <1>6 DEF OnlyRemote, q

LEMMA StoppedFacts ==
    ASSUME NEW c, NEW L, NEW S, Sound(c, L, S), NEW d, d = OnWatchStreamStopped(c)
    PROVE  /\ Sound(d, L, S) /\ Tracks(c, d)
           /\ d.listening = c.listening /\ d.update = Nil /\ d.requests = <<>>
           /\ d.target = NewTargetState
           /\ d.stream.state = Stop(c.stream).state /\ d.stream.idle = Stop(c.stream).idle
           /\ d.state = "Unknown" /\ d.failures = 0 /\ d.timer = FALSE
<1> DEFINE s == Stop(c.stream)
           c1 == Disconnected(c, s)
<1>1. c \in Clients /\ s \in Streams
  BY StreamMethods DEF Sound, Tells, Clients
<1>2. d = UpdateState(c1, "Unknown")
  BY DEF OnWatchStreamStopped
<1>3. /\ OnlyRemote(c, c1)
      /\ c1.listening = c.listening /\ c1.update = Nil /\ c1.requests = <<>>
      /\ c1.target = NewTargetState
      /\ c1.stream.state = s.state /\ c1.stream.idle = s.idle
  <2> HIDE DEF s
  <2> QED
    BY <1>1, DisconnectedFacts
<1> HIDE DEF c1, s
<1>4. Sound(c1, L, S) /\ Tracks(c, c1)
  BY <1>3, RemoteFields
<1>5. /\ Sound(d, L, S) /\ Tracks(c1, d) /\ SameRemote(c1, d)
      /\ d.state = "Unknown" /\ d.failures = 0 /\ d.timer = FALSE
  BY <1>2, <1>4, UpdateStateFacts DEF OnlineStates
<1>6. Tracks(c, d)
  BY <1>4, <1>5, TracksTransitive
<1> QED
  BY <1>3, <1>5, <1>6 DEF SameRemote, s

\* Listening starts a stream that is not started, sends a request on an open
\* one, and leaves it to StreamOpen otherwise.
Listens(c, d) ==
    \/ /\ ~ IsStarted(c.stream)
       /\ d.stream = Start(c.stream) /\ d.target = NewTargetState /\ d.update = Nil
       /\ d.requests = c.requests /\ d.failures = c.failures
       /\ c.failures # 0 => d.state = c.state /\ d.timer = c.timer
       /\ c.failures = 0 => d.state = "Unknown" /\ d.timer
    \/ /\ IsOpen(c.stream) /\ SameTracker(c, d) /\ d.update = c.update
       /\ d.requests = Append(c.requests, WatchRequest(c))
       /\ d.stream.state = c.stream.state /\ d.stream.idle = FALSE
       /\ d.target.outstanding_responses = c.target.outstanding_responses + 1
    \/ /\ IsStarted(c.stream) /\ ~ IsOpen(c.stream) /\ SameTracker(c, d)
       /\ d.stream = c.stream /\ d.target = c.target /\ d.update = c.update
       /\ d.requests = c.requests

LEMMA ListenFacts ==
    ASSUME NEW c, NEW L, NEW S, Sound(c, L, S), NEW d, d = RemoteListen(c)
    PROVE  Sound(d, L, S) /\ Tracks(c, d) /\ d.listening /\ Listens(c, d)
<1> DEFINE c1 == [c EXCEPT !.listening = TRUE]
<1>1. c \in Clients
  BY DEF Sound, Tells
<1>2. OnlyRemote(c, c1)
  <2>1. c1 \in Clients
    BY <1>1 DEF Clients
  <2>2. SameStore(c, c1) /\ SameTracker(c, c1)
    BY <1>1 DEF SameStore, SameTracker, Clients
  <2>3. SameViews(c, c1)
    BY <1>1 DEF SameViews, Clients
  <2> QED
    BY <2>1, <2>2, <2>3 DEF OnlyRemote
<1>3. /\ c1.stream = c.stream /\ c1.target = c.target /\ c1.update = c.update
      /\ c1.listening = TRUE /\ c1.requests = c.requests
  BY <1>1 DEF Clients
<1>4. d = IF ShouldStartWatchStream(c1) THEN StartWatchStream(c1)
          ELSE IF IsOpen(c1.stream) THEN SendRequest(c1, WatchRequest(c1)) ELSE c1
  BY DEF RemoteListen
<1> HIDE DEF c1
<1>5. Sound(c1, L, S) /\ Tracks(c, c1)
  BY <1>2, RemoteFields
<1>6. CASE ~ IsStarted(c.stream)
  <2>1. d = StartWatchStream(c1)
    BY <1>3, <1>4, <1>6 DEF ShouldStartWatchStream
  <2>2. /\ Sound(d, L, S) /\ Tracks(c1, d)
        /\ d.stream = Start(c1.stream) /\ d.target = NewTargetState /\ d.update = Nil
        /\ d.listening = c1.listening /\ d.requests = c1.requests
        /\ d.failures = c1.failures
        /\ c1.failures # 0 => d.state = c1.state /\ d.timer = c1.timer
        /\ c1.failures = 0 => d.state = "Unknown" /\ d.timer
    BY <2>1, <1>5, StartFacts
  <2>3. Tracks(c, d)
    BY <1>5, <2>2, TracksTransitive
  <2> QED
    BY <1>2, <1>3, <1>6, <2>2, <2>3 DEF OnlyRemote, SameTracker, Listens
<1>7. CASE IsOpen(c.stream)
  <2>1. d = SendRequest(c1, WatchRequest(c1))
    BY <1>3, <1>4, <1>7 DEF ShouldStartWatchStream, IsStarted, IsOpen
  <2>2. c1 \in Clients /\ WatchRequest(c1) \in Requests /\ WatchRequest(c1) = WatchRequest(c)
    BY <1>2 DEF OnlyRemote, WatchRequest, Requests, Clients, SameStore
  <2>3. /\ OnlyRemote(c1, d)
        /\ d.listening = c1.listening /\ d.update = c1.update
        /\ d.requests = Append(c1.requests, WatchRequest(c1))
        /\ d.stream.state = c1.stream.state /\ d.stream.idle = FALSE
        /\ d.target.outstanding_responses = c1.target.outstanding_responses + 1
        /\ d.target.current = c1.target.current /\ d.target.change = c1.target.change
    BY <2>1, <2>2, SendFacts
  <2>4. Sound(d, L, S) /\ Tracks(c1, d)
    BY <1>5, <2>3, RemoteFields
  <2>5. Tracks(c, d)
    BY <1>5, <2>4, TracksTransitive
  <2>6. SameTracker(c, d)
    BY <1>2, <2>3 DEF OnlyRemote, SameTracker
  <2> QED
    BY <1>3, <1>7, <2>2, <2>3, <2>4, <2>5, <2>6 DEF Listens
<1>8. CASE IsStarted(c.stream) /\ ~ IsOpen(c.stream)
  BY <1>2, <1>3, <1>4, <1>5, <1>8 DEF ShouldStartWatchStream, OnlyRemote, Listens
<1> QED
  BY <1>6, <1>7, <1>8

\* With the last listener goes the view, and the target is unwatched.
StopsListening(c, d) ==
    /\ d.view = Nil /\ d.snapshot = Nil /\ ~ d.listening /\ d.update = c.update
    /\ \/ /\ IsOpen(c.stream) /\ SameTracker(c, d)
          /\ d.requests = Append(c.requests, [type |-> "unwatch"])
          /\ d.stream.state = c.stream.state
          /\ d.target.outstanding_responses = c.target.outstanding_responses + 1
       \/ /\ ~ IsOpen(c.stream) /\ d.stream = c.stream
          /\ d.target = c.target /\ d.requests = c.requests
          /\ d.state = "Unknown" /\ d.failures = 0 /\ d.timer = FALSE

Removes(c, d) ==
    \/ /\ c.listeners = {} \/ d.listeners # {}
       /\ SameRemote(c, d) /\ SameTracker(c, d)
       /\ d.view = c.view /\ d.snapshot = c.snapshot
    \/ c.listeners # {} /\ d.listeners = {} /\ StopsListening(c, d)

LEMMA RemoveFacts ==
    ASSUME NEW c, NEW L, NEW S, Sound(c, L, S), NEW g, NEW d, d = RemoveListener(c, g)
    PROVE  /\ Tells(d, L, S) /\ SameStore(c, d)
           /\ d.listeners = c.listeners \ {g} /\ d.raised \subseteq c.raised \ {g}
           /\ c.online_state = c.state => d.online_state = d.state
           /\ Removes(c, d)
<1> DEFINE others == c.listeners \ {g}
           waiting == c.raised \ {g}
           c1 == [c EXCEPT !.listeners = others, !.raised = waiting]
           c2 == [c1 EXCEPT !.view = Nil]
           e == RemoteStopListening(c2)
<1>1. c \in Clients
  BY DEF Sound, Tells
<1>2. d = IF c.listeners = {} \/ others # {} THEN c1 ELSE [e EXCEPT !.snapshot = Nil]
  BY <1>1 DEF RemoveListener, Clients
<1>3. others \in SUBSET Gets /\ waiting \in SUBSET Gets /\ others \subseteq L
  BY <1>1 DEF Clients, Sound, Tells
<1>4. /\ SameStore(c, c1) /\ SameRemote(c, c1) /\ SameTracker(c, c1)
      /\ c1.view = c.view /\ c1.snapshot = c.snapshot /\ c1.online_state = c.online_state
      /\ c1.posts = c.posts /\ c1.listeners = others /\ c1.raised = waiting
  <2> HIDE DEF others, waiting
  <2> QED
    BY <1>1 DEF SameStore, SameRemote, SameTracker, Clients
<1>5. c1 \in Clients
  <2> HIDE DEF others, waiting
  <2> QED
    BY <1>1, <1>3 DEF Clients
<1>6. Tells(c1, L, S)
  <2> HIDE DEF c1
  <2> QED
    BY <1>3, <1>4, <1>5 DEF Sound, Tells
<1>7. CASE c.listeners = {} \/ others # {}
  BY <1>2, <1>4, <1>6, <1>7 DEF Removes
<1>8. CASE ~ (c.listeners = {} \/ others # {})
  <2> HIDE DEF c1
  <2>1. /\ c2 \in Clients
        /\ SameStore(c1, c2) /\ SameRemote(c1, c2) /\ SameTracker(c1, c2)
        /\ c2.view = Nil /\ c2.snapshot = c1.snapshot /\ c2.online_state = c1.online_state
        /\ c2.posts = c1.posts /\ c2.listeners = c1.listeners /\ c2.raised = c1.raised
    BY <1>5 DEF SameStore, SameRemote, SameTracker, Clients
  <2> HIDE DEF c2
  <2> DEFINE c3 == [c2 EXCEPT !.listening = FALSE]
             c4 == SendRequest(c3, [type |-> "unwatch"])
  <2>2. /\ OnlyRemote(c2, c3) /\ c3.listening = FALSE /\ c3.update = c2.update
        /\ c3.stream = c2.stream /\ c3.target = c2.target /\ c3.requests = c2.requests
    <3>1. c3 \in Clients
      BY <2>1, ZenonT(60) DEF Clients
    <3>2. SameStore(c2, c3) /\ SameTracker(c2, c3)
      BY <2>1 DEF SameStore, SameTracker, Clients
    <3>3. SameViews(c2, c3)
      BY <2>1 DEF SameViews, Clients
    <3>4. /\ c3.listening = FALSE /\ c3.update = c2.update
          /\ c3.stream = c2.stream /\ c3.target = c2.target /\ c3.requests = c2.requests
      BY <2>1 DEF Clients
    <3> QED
      BY <3>1, <3>2, <3>3, <3>4 DEF OnlyRemote
  <2>3. e = IF IsOpen(c2.stream) THEN [c4 EXCEPT !.stream = MarkIdle(@)]
            ELSE UpdateState(c3, "Unknown")
    BY DEF RemoteStopListening
  <2>4. Sound(c2, L, S)
    BY <1>6, <2>1 DEF Sound, Tells, CachedIn
  <2> HIDE DEF c3
  <2>5. Sound(c3, L, S) /\ Tracks(c2, c3)
    BY <2>2, <2>4, RemoteFields
  <2>6. /\ Sound(e, L, S) /\ Tracks(c2, e) /\ ~ e.listening /\ e.update = c2.update
        /\ \/ /\ IsOpen(c2.stream) /\ SameTracker(c2, e)
              /\ e.requests = Append(c2.requests, [type |-> "unwatch"])
              /\ e.stream.state = c2.stream.state
              /\ e.target.outstanding_responses = c2.target.outstanding_responses + 1
              /\ e.target.current = c2.target.current /\ e.target.change = c2.target.change
           \/ /\ ~ IsOpen(c2.stream) /\ e.stream = c2.stream
              /\ e.target = c2.target /\ e.requests = c2.requests
              /\ e.state = "Unknown" /\ e.failures = 0 /\ e.timer = FALSE
    <3>1. CASE IsOpen(c2.stream)
      <4> DEFINE s == MarkIdle(c4.stream)
      <4>1. c3 \in Clients /\ [type |-> "unwatch"] \in Requests
        BY <2>2 DEF OnlyRemote, Requests
      <4>2. /\ OnlyRemote(c3, c4)
            /\ c4.listening = c3.listening /\ c4.update = c3.update
            /\ c4.requests = Append(c3.requests, [type |-> "unwatch"])
            /\ c4.stream.state = c3.stream.state
            /\ c4.target.outstanding_responses = c3.target.outstanding_responses + 1
            /\ c4.target.current = c3.target.current /\ c4.target.change = c3.target.change
        BY <4>1, SendFacts, ZenonT(60)
      <4> HIDE DEF c4
      <4>3. c4 \in Clients /\ c4.stream \in Streams
        BY <4>2 DEF OnlyRemote, Clients
      <4>4. s \in Streams /\ s.state = c4.stream.state
        BY <4>3, StreamMethods DEF MarkIdle, Streams
      <4>5. e = [c4 EXCEPT !.stream = s]
        BY <2>3, <3>1, <4>3 DEF Clients
      <4> HIDE DEF s, e
      <4>6. OnlyRemote(c4, e)
        <5>1. e \in Clients
          BY <4>3, <4>4, <4>5 DEF Clients
        <5>2. SameStore(c4, e) /\ SameTracker(c4, e)
          BY <4>3, <4>5 DEF SameStore, SameTracker, Clients
        <5>3. SameViews(c4, e)
          BY <4>3, <4>5 DEF SameViews, Clients
        <5> QED
          BY <5>1, <5>2, <5>3 DEF OnlyRemote
      <4>7. /\ e.stream = s /\ e.listening = c4.listening /\ e.update = c4.update
            /\ e.requests = c4.requests /\ e.target = c4.target
        BY <4>3, <4>5 DEF Clients
      <4>8. Sound(c4, L, S) /\ Tracks(c3, c4)
        BY <2>5, <4>2, RemoteFields
      <4>9. Sound(e, L, S) /\ Tracks(c4, e)
        BY <4>6, <4>8, RemoteFields
      <4>10. Tracks(c2, c4)
        BY <2>5, <4>8, TracksTransitive
      <4>11. Tracks(c2, e)
        BY <4>9, <4>10, TracksTransitive
      <4>12. SameTracker(c2, e)
        BY <2>2, <4>2, <4>6 DEF OnlyRemote, SameTracker
      <4> QED
        BY <2>2, <3>1, <4>2, <4>4, <4>7, <4>9, <4>11, <4>12
    <3>2. CASE ~ IsOpen(c2.stream)
      <4>1. e = UpdateState(c3, "Unknown")
        BY <2>3, <3>2
      <4> HIDE DEF e
      <4>2. /\ Sound(e, L, S) /\ Tracks(c3, e) /\ SameRemote(c3, e)
            /\ e.state = "Unknown" /\ e.failures = 0 /\ e.timer = FALSE
        BY <2>5, <4>1, UpdateStateFacts, ZenonT(60) DEF OnlineStates
      <4>3. Tracks(c2, e)
        BY <2>5, <4>2, TracksTransitive
      <4> QED
        BY <2>2, <3>2, <4>2, <4>3 DEF SameRemote
    <3> QED
      BY <3>1, <3>2
  <2>7. d = [e EXCEPT !.snapshot = Nil]
    BY <1>2, <1>8
  <2> HIDE DEF e
  <2>8. e \in Clients
    BY <2>6 DEF Sound, Tells
  <2>9. /\ d \in Clients
        /\ SameStore(e, d) /\ SameRemote(e, d) /\ SameTracker(e, d)
        /\ d.view = e.view /\ d.snapshot = Nil /\ d.online_state = e.online_state
        /\ d.posts = e.posts /\ d.listeners = e.listeners /\ d.raised = e.raised
    BY <2>7, <2>8 DEF SameStore, SameRemote, SameTracker, Clients
  <2>10. Tells(d, L, S)
    BY <2>6, <2>9 DEF Sound, Tells
  <2>11. SameStore(c, d)
    BY <1>4, <2>1, <2>6, <2>9 DEF Tracks, Keeps, SameStore
  <2>12. /\ d.listeners = others /\ d.view = Nil /\ d.online_state = e.online_state
         /\ d.raised \subseteq waiting
    BY <1>4, <1>8, <2>1, <2>6, <2>9 DEF Tracks, Keeps
  <2>13. c.online_state = c.state => d.online_state = d.state
    BY <1>4, <2>1, <2>6, <2>9 DEF Tracks, SameTracker
  <2>14. CASE IsOpen(c.stream)
    BY <1>4, <1>8, <2>1, <2>6, <2>9, <2>10, <2>11, <2>12, <2>13, <2>14
       DEF SameRemote, SameTracker, Removes, StopsListening
  <2>15. CASE ~ IsOpen(c.stream)
    BY <1>4, <1>8, <2>1, <2>6, <2>9, <2>10, <2>11, <2>12, <2>13, <2>15
       DEF SameRemote, SameTracker, Removes, StopsListening
  <2> QED
    BY <2>14, <2>15
<1> QED
  BY <1>7, <1>8

-----------------------------------------------------------------------------
(* The local store, the aggregator and the listeners.                       *)

LEMMA LocalViewType ==
    ASSUME NEW c \in Clients
    PROVE  LocalView(c) \in LocalDocuments /\ LocalView(c) # Nil
<1>1. OwnWrites \subseteq Writes
  BY BoundsAssumption, SMTT(30) DEF OwnWrites, Writes, Creation
<1>2. c.queue \in Seq(OwnWrites) /\ c.cache.has \subseteq Writes /\ c.cache.committed \in BOOLEAN
  BY DEF Clients
<1>3. Elements(c.queue) \subseteq Writes
  BY <1>1, <1>2 DEF Elements
<1>4. LocalView(c) \in LocalDocuments
  <2>1. CASE Found(c.cache)
    BY <1>2, <1>3, <2>1 DEF LocalView, LocalDocuments
  <2>2. CASE ~ Found(c.cache)
    BY <1>2, <1>3, <2>2 DEF LocalView, LocalDocuments
  <2> QED
    BY <2>1, <2>2
<1> QED
  BY <1>4, NilRecordAssumption

\* The client after ApplyRemoteEvent, before snapshots are emitted.
Stored(c, version) ==
    LET event == CreateRemoteEvent(c, version)
        c1 == [c EXCEPT !.cache = PopulateDocumentChanges(c.cache, event.update),
                        !.last_remote_snapshot = version, !.update = Nil,
                        !.target.change = IF event.change = Nil THEN @ ELSE "none"]
    IN  IF event.change = Nil THEN c1
        ELSE [c1 EXCEPT !.resume_token = version,
                        !.remote_keys = @ \/ event.change.change = "added"]

LEMMA StoredFacts ==
    ASSUME NEW c \in Clients, NEW v \in Nat, NEW e, e = Stored(c, v), NEW change,
           change = CreateRemoteEvent(c, v).change
    PROVE  /\ e \in Clients /\ SameTracker(c, e) /\ SameViews(c, e)
           /\ e.stream = c.stream /\ e.listening = c.listening /\ e.requests = c.requests
           /\ e.queue = c.queue /\ e.last_remote_snapshot = v /\ e.update = Nil
           /\ e.cache = PopulateDocumentChanges(c.cache, CreateRemoteEvent(c, v).update)
           /\ e.target.outstanding_responses = c.target.outstanding_responses
           /\ e.target.current = c.target.current
           /\ IsActiveTarget(c) =>
                 /\ change = [current |-> c.target.current, change |-> c.target.change]
                 /\ change \in TargetChanges /\ change # Nil
                 /\ e.resume_token = v /\ e.target.change = "none"
                 /\ e.remote_keys = (c.remote_keys \/ c.target.change = "added")
           /\ ~ IsActiveTarget(c) =>
                 /\ change = Nil /\ e.target = c.target
                 /\ e.resume_token = c.resume_token /\ e.remote_keys = c.remote_keys
           /\ RaiseWatchSnapshot(c, v) =
                 IF v < c.last_remote_snapshot THEN c
                 ELSE EmitNewSnapshots(e, IF e.cache = c.cache THEN Nil ELSE LocalView(e), change)
<1> DEFINE update == CreateRemoteEvent(c, v).update
           cache == PopulateDocumentChanges(c.cache, update)
           t == [c.target EXCEPT !.change = IF change = Nil THEN @ ELSE "none"]
           token == IF change = Nil THEN c.resume_token ELSE v
           keys == IF change = Nil THEN c.remote_keys ELSE c.remote_keys \/ change.change = "added"
<1>1. update \in Documents \cup {Nil}
  BY DEF CreateRemoteEvent, Documents, Clients
<1>2. cache \in [version : Nat, has : SUBSET Writes, committed : BOOLEAN]
  <2> HIDE DEF update
  <2> QED
    BY <1>1 DEF PopulateDocumentChanges, Documents, Clients
<1>3. /\ IsActiveTarget(c) =>
            /\ change = [current |-> c.target.current, change |-> c.target.change]
            /\ change \in TargetChanges /\ change # Nil
      /\ ~ IsActiveTarget(c) => change = Nil
  <2>1. CreateRemoteEvent(c, v).change = IF IsActiveTarget(c)
            THEN [current |-> c.target.current, change |-> c.target.change] ELSE Nil
    BY DEF CreateRemoteEvent
  <2>2. [current |-> c.target.current, change |-> c.target.change] \in TargetChanges
    BY DEF TargetChanges, Clients, TargetStates
  <2> QED
    BY <2>1, <2>2, NilRecordAssumption
<1>4. /\ t \in TargetStates
      /\ t.outstanding_responses = c.target.outstanding_responses
      /\ t.current = c.target.current
      /\ change = Nil => t = c.target
      /\ change # Nil => t.change = "none"
  BY DEF TargetStates, Clients
<1>5. token \in Nat /\ keys \in BOOLEAN
  BY DEF Clients
<1>6. e = [c EXCEPT !.cache = cache, !.last_remote_snapshot = v, !.update = Nil,
                    !.target = t, !.resume_token = token, !.remote_keys = keys]
  <2>1. CASE change = Nil
    BY <2>1 DEF Stored, Clients
  <2>2. CASE change # Nil
    BY <2>2 DEF Stored, Clients
  <2> QED
    BY <2>1, <2>2
<1>7. RaiseWatchSnapshot(c, v) =
          IF v < c.last_remote_snapshot THEN c
          ELSE EmitNewSnapshots(e, IF cache = c.cache THEN Nil ELSE LocalView(e), change)
  BY DEF RaiseWatchSnapshot, ApplyRemoteEvent, Stored
<1> HIDE DEF cache, t, token, keys
<1>8. e \in Clients
  BY <1>2, <1>4, <1>5, <1>6, ZenonT(60) DEF Clients
<1>9. SameTracker(c, e) /\ SameViews(c, e)
  BY <1>6 DEF SameTracker, SameViews, Clients
<1>10. /\ e.stream = c.stream /\ e.listening = c.listening /\ e.requests = c.requests
       /\ e.queue = c.queue /\ e.last_remote_snapshot = v /\ e.update = Nil
       /\ e.cache = cache /\ e.target = t /\ e.resume_token = token /\ e.remote_keys = keys
  BY <1>6 DEF Clients
<1>11. CASE IsActiveTarget(c)
  BY <1>3, <1>4, <1>7, <1>8, <1>9, <1>10, <1>11 DEF cache, token, keys
<1>12. CASE ~ IsActiveTarget(c)
  BY <1>3, <1>4, <1>7, <1>8, <1>9, <1>10, <1>12 DEF cache, token, keys
<1> QED
  BY <1>11, <1>12

\* The aggregator's other messages change its target state only.
OnlyTarget(c, d) ==
    /\ OnlyRemote(c, d)
    /\ d.stream = c.stream /\ d.listening = c.listening /\ d.requests = c.requests

LEMMA TargetFacts ==
    ASSUME NEW c \in Clients
    PROVE  /\ c.target.outstanding_responses > 0 =>
                 /\ OnlyTarget(c, TargetAdded(c)) /\ OnlyTarget(c, TargetRemoved(c))
                 /\ TargetAdded(c).update = c.update /\ TargetRemoved(c).update = c.update
                 /\ TargetAdded(c).target.outstanding_responses = c.target.outstanding_responses - 1
                 /\ TargetRemoved(c).target.outstanding_responses = c.target.outstanding_responses - 1
                 /\ TargetAdded(c).target.change = IF c.target.outstanding_responses = 1
                                                   THEN "none" ELSE c.target.change
                 /\ c.target.outstanding_responses = 1 => TargetRemoved(c).target.change = "none"
           /\ OnlyTarget(c, TargetCurrent(c)) /\ TargetCurrent(c).update = c.update
           /\ TargetCurrent(c).target.outstanding_responses = c.target.outstanding_responses
           /\ TargetCurrent(c).target.change = c.target.change
<1> DEFINE t == [c.target EXCEPT !.outstanding_responses = @ - 1]
           c1 == [c EXCEPT !.target = t]
<1>1. ASSUME NEW u \in TargetStates
      PROVE  /\ OnlyTarget(c, [c EXCEPT !.target = u])
             /\ [c EXCEPT !.target = u].update = c.update
             /\ [c EXCEPT !.target = u].target = u
  <2> DEFINE d == [c EXCEPT !.target = u]
  <2>1. d \in Clients
    BY DEF Clients
  <2>2. SameStore(c, d) /\ SameTracker(c, d)
    BY DEF Clients, SameStore, SameTracker
  <2>3. /\ SameViews(c, d) /\ d.stream = c.stream /\ d.listening = c.listening
        /\ d.requests = c.requests /\ d.update = c.update /\ d.target = u
    BY DEF Clients, SameViews
  <2> QED
    BY <2>1, <2>2, <2>3 DEF OnlyTarget, OnlyRemote
<1>2. ASSUME c.target.outstanding_responses > 0
      PROVE  /\ OnlyTarget(c, TargetAdded(c)) /\ OnlyTarget(c, TargetRemoved(c))
             /\ TargetAdded(c).update = c.update /\ TargetRemoved(c).update = c.update
             /\ TargetAdded(c).target.outstanding_responses = c.target.outstanding_responses - 1
             /\ TargetRemoved(c).target.outstanding_responses = c.target.outstanding_responses - 1
             /\ TargetAdded(c).target.change = IF c.target.outstanding_responses = 1
                                               THEN "none" ELSE c.target.change
             /\ c.target.outstanding_responses = 1 => TargetRemoved(c).target.change = "none"
  <2>1. /\ t \in TargetStates
        /\ t.outstanding_responses = c.target.outstanding_responses - 1
        /\ t.change = c.target.change
        /\ t.outstanding_responses = 0 <=> c.target.outstanding_responses = 1
    <3> DEFINE n == c.target.outstanding_responses
               m == n - 1
    <3>1. c.target \in TargetStates
      BY DEF Clients
    <3>2. n \in Nat /\ n > 0
      BY <1>2, <3>1 DEF TargetStates
    <3>3. m \in Nat /\ (m = 0 <=> n = 1)
      BY <3>2
    <3>4. t = [c.target EXCEPT !.outstanding_responses = m]
      BY <3>1 DEF TargetStates
    <3> HIDE DEF n, m, t
    <3>5. t \in TargetStates /\ t.outstanding_responses = m /\ t.change = c.target.change
      BY <3>1, <3>3, <3>4 DEF TargetStates
    <3> QED
      BY <3>3, <3>5 DEF n, m
  <2> DEFINE u == [t EXCEPT !.change = "none"]
  <2>2. u \in TargetStates /\ u.outstanding_responses = t.outstanding_responses /\ u.change = "none"
    BY <2>1 DEF TargetStates
  <2>3. TargetAdded(c) = IF t.outstanding_responses # 0 THEN c1 ELSE [c EXCEPT !.target = u]
    BY DEF TargetAdded, Clients
  <2>4. TargetRemoved(c) = IF t.outstanding_responses # 0 THEN c1
                           ELSE [c EXCEPT !.target = NewTargetState]
    BY DEF TargetRemoved, Clients
  <2>5. NewTargetState.outstanding_responses = 0 /\ NewTargetState.change = "none"
    BY DEF NewTargetState
  <2> HIDE DEF t, u
  <2>6. /\ OnlyTarget(c, c1) /\ c1.update = c.update /\ c1.target = t
    BY <1>1, <2>1
  <2>7. /\ OnlyTarget(c, [c EXCEPT !.target = u]) /\ [c EXCEPT !.target = u].update = c.update
        /\ [c EXCEPT !.target = u].target = u
    BY <1>1, <2>2
  <2>8. /\ OnlyTarget(c, [c EXCEPT !.target = NewTargetState])
        /\ [c EXCEPT !.target = NewTargetState].update = c.update
        /\ [c EXCEPT !.target = NewTargetState].target = NewTargetState
    BY <1>1, NewTarget
  <2> HIDE DEF c1
  <2>9. CASE t.outstanding_responses = 0
    BY <2>1, <2>2, <2>3, <2>4, <2>5, <2>7, <2>8, <2>9
  <2>10. CASE t.outstanding_responses # 0
    BY <2>1, <2>3, <2>4, <2>6, <2>10
  <2> QED
    BY <2>9, <2>10
<1>3. /\ OnlyTarget(c, TargetCurrent(c)) /\ TargetCurrent(c).update = c.update
      /\ TargetCurrent(c).target.outstanding_responses = c.target.outstanding_responses
      /\ TargetCurrent(c).target.change = c.target.change
  <2> DEFINE u == [c.target EXCEPT !.current = TRUE]
  <2>1. /\ u \in TargetStates /\ u.outstanding_responses = c.target.outstanding_responses
        /\ u.change = c.target.change
    BY DEF Clients, TargetStates
  <2>2. TargetCurrent(c) = IF ~ IsActiveTarget(c) THEN c ELSE [c EXCEPT !.target = u]
    BY DEF TargetCurrent, Clients
  <2> HIDE DEF u
  <2>3. /\ OnlyTarget(c, [c EXCEPT !.target = u]) /\ [c EXCEPT !.target = u].update = c.update
        /\ [c EXCEPT !.target = u].target = u
    BY <1>1, <2>1
  <2>4. OnlyTarget(c, c)
    BY DEF OnlyTarget, OnlyRemote, SameStore, SameTracker, SameViews
  <2>5. CASE IsActiveTarget(c)
    BY <2>1, <2>2, <2>3, <2>5
  <2>6. CASE ~ IsActiveTarget(c)
    BY <2>2, <2>4, <2>6
  <2> QED
    BY <2>5, <2>6
<1> QED
  BY <1>2, <1>3

LEMMA DocumentFacts ==
    ASSUME NEW c \in Clients, NEW doc \in Documents, NEW d, d = AddDocumentToTarget(c, doc)
    PROVE  /\ OnlyTarget(c, d)
           /\ d.target.outstanding_responses = c.target.outstanding_responses
           /\ d.target.current = c.target.current
           /\ ~ IsActiveTarget(c) => d.update = c.update /\ d.target = c.target
           /\ IsActiveTarget(c) =>
                 /\ d.update = doc
                 /\ d.target.change = IF c.view.synced THEN "modified" ELSE "added"
<1>1. CASE ~ IsActiveTarget(c)
  BY <1>1 DEF AddDocumentToTarget, OnlyTarget, OnlyRemote, SameStore, SameTracker, SameViews
<1>2. CASE IsActiveTarget(c)
  <2> DEFINE change == IF c.view.synced THEN "modified" ELSE "added"
             t == [c.target EXCEPT !.change = change]
  <2>1. /\ t \in TargetStates /\ t.change = change /\ t.current = c.target.current
        /\ t.outstanding_responses = c.target.outstanding_responses
    BY DEF Clients, TargetStates
  <2>2. d = [c EXCEPT !.target = t, !.update = doc]
    BY <1>2 DEF AddDocumentToTarget, Clients
  <2> HIDE DEF t
  <2>3. d \in Clients
    BY <2>1, <2>2 DEF Clients
  <2>4. SameStore(c, d) /\ SameTracker(c, d)
    BY <2>2 DEF SameStore, SameTracker, Clients
  <2>5. /\ SameViews(c, d) /\ d.stream = c.stream /\ d.listening = c.listening
        /\ d.requests = c.requests /\ d.update = doc /\ d.target = t
    BY <2>2 DEF SameViews, Clients
  <2> QED
    BY <1>2, <2>1, <2>3, <2>4, <2>5 DEF OnlyTarget, OnlyRemote
<1> QED
  BY <1>1, <1>2

LEMMA ErrorFacts ==
    ASSUME NEW c \in Clients, c.listening, NEW d, d = ProcessTargetError(c)
    PROVE  /\ d \in Clients /\ SameStore(c, d) /\ SameTracker(c, d)
           /\ d.stream = c.stream /\ d.requests = c.requests /\ d.update = c.update
           /\ d.target = NewTargetState /\ ~ d.listening
           /\ d.view = Nil /\ d.snapshot = Nil /\ d.listeners = {} /\ d.raised = {}
           /\ d.online_state = c.online_state
           /\ \/ d.posts = c.posts
              \/ d.posts = Append(c.posts, [gets |-> c.listeners, snapshot |-> Nil])
<1> DEFINE batch == [gets |-> c.listeners, snapshot |-> Nil]
           p == IF c.listeners = {} THEN c.posts ELSE Append(c.posts, batch)
           none == {}
<1>1. batch \in Events /\ none \in SUBSET Gets
  BY DEF Clients, Events
<1>2. d = [c EXCEPT !.posts = p, !.listening = FALSE, !.target = NewTargetState, !.view = Nil,
                    !.snapshot = Nil, !.listeners = none, !.raised = none]
  BY DEF ProcessTargetError, Post, Clients
<1> HIDE DEF batch
<1>3. p \in Seq(Events)
  BY <1>1 DEF Clients
<1>4. p = c.posts \/ p = Append(c.posts, batch)
  OBVIOUS
<1> HIDE DEF p, none
<1>5. d \in Clients
  <2> DEFINE e == [c EXCEPT !.posts = p, !.listening = FALSE, !.target = NewTargetState]
  <2>1. e \in Clients
    BY <1>3, NewTarget DEF Clients
  <2>2. d = [e EXCEPT !.view = Nil, !.snapshot = Nil, !.listeners = none, !.raised = none]
    BY <1>2 DEF Clients
  <2> HIDE DEF e
  <2> QED
    BY <1>1, <2>1, <2>2, ZenonT(60) DEF Clients
<1>6. SameStore(c, d) /\ SameTracker(c, d)
  BY <1>2 DEF Clients, SameStore, SameTracker
<1>7. /\ d.stream = c.stream /\ d.requests = c.requests /\ d.update = c.update
      /\ d.target = NewTargetState /\ ~ d.listening
      /\ d.view = Nil /\ d.snapshot = Nil /\ d.listeners = none /\ d.raised = none
      /\ d.online_state = c.online_state /\ d.posts = p
  BY <1>2 DEF Clients
<1> QED
  BY <1>4, <1>5, <1>6, <1>7 DEF batch, none

LEMMA AddFacts ==
    ASSUME NEW c, NEW L, NEW S, Sound(c, L, S), NEW g \in L, NEW d, d = AddListener(c, g)
    PROVE  /\ Sound(d, L, S)
           /\ SameStore(c, d) /\ SameRemote(c, d) /\ SameTracker(c, d)
           /\ d.view = c.view /\ d.snapshot = c.snapshot /\ d.online_state = c.online_state
           /\ d.listeners = c.listeners \cup {g} /\ d.raised = c.raised /\ d.posts = c.posts
<1> DEFINE gets == c.listeners \cup {g}
<1>1. c \in Clients /\ gets \in SUBSET Gets /\ gets \subseteq L
  BY DEF Sound, Tells, Clients
<1>2. d = [c EXCEPT !.listeners = gets]
  BY <1>1 DEF AddListener, Clients
<1> HIDE DEF gets
<1>3. d \in Clients
  BY <1>1, <1>2 DEF Clients
<1>4. SameStore(c, d) /\ SameRemote(c, d) /\ SameTracker(c, d)
  BY <1>1, <1>2 DEF SameStore, SameRemote, SameTracker, Clients
<1>5. /\ d.view = c.view /\ d.snapshot = c.snapshot /\ d.online_state = c.online_state
      /\ d.listeners = gets /\ d.raised = c.raised /\ d.posts = c.posts
  BY <1>1, <1>2 DEF Clients
<1>6. Sound(d, L, S)
  BY <1>1, <1>3, <1>5 DEF Sound, Tells, CachedIn
<1> QED
  BY <1>4, <1>5, <1>6 DEF gets

LEMMA JoinFacts ==
    ASSUME NEW c, NEW L, NEW S, Sound(c, L, S), NEW g \in L, c.snapshot # Nil,
           NEW d, d = JoinListeners(c, g)
    PROVE  /\ Tells(d, L, S)
           /\ SameStore(c, d) /\ SameRemote(c, d) /\ SameTracker(c, d)
           /\ d.view = c.view /\ d.snapshot = c.snapshot /\ d.online_state = c.online_state
           /\ d.listeners = c.listeners /\ d.raised \subseteq c.raised \cup {g}
<1>1. c \in Clients
  BY DEF Sound, Tells
<1>2. CASE ShouldRaiseInitialEvent(c, c.snapshot)
  <2> DEFINE snap == c.snapshot
             gets == {g}
             raised == c.raised \cup {g}
  <2>1. /\ snap \in S /\ gets \in SUBSET L /\ raised \in SUBSET Gets
        /\ Tells(c, L, S) /\ S \subseteq Snapshots /\ L \subseteq Gets
    BY <1>1 DEF Sound, Tells, Clients
  <2>2. d = [Post(c, gets, snap) EXCEPT !.raised = @ \cup {g}]
    BY <1>2 DEF JoinListeners
  <2> HIDE DEF gets, snap
  <2>3. PICK p \in Seq(Batches(L, S)) : Post(c, gets, snap) = [c EXCEPT !.posts = p]
    BY <2>1, PostFacts
  <2>4. Tells(Post(c, gets, snap), L, S)
    BY <2>1, PostFacts
  <2>5. p \in Seq(Events)
    BY <1>1, <2>3, <2>4 DEF Tells, Clients
  <2>6. d = [c EXCEPT !.posts = p, !.raised = raised]
    BY <1>1, <2>2, <2>3 DEF Clients
  <2> HIDE DEF raised
  <2>7. d \in Clients
    BY <1>1, <2>1, <2>5, <2>6, ZenonT(60) DEF Clients
  <2>8. SameStore(c, d) /\ SameRemote(c, d) /\ SameTracker(c, d)
    BY <1>1, <2>6 DEF SameStore, SameRemote, SameTracker, Clients
  <2>9. /\ d.view = c.view /\ d.snapshot = c.snapshot /\ d.online_state = c.online_state
        /\ d.listeners = c.listeners /\ d.raised = raised /\ d.posts = p
    BY <1>1, <2>6 DEF Clients
  <2> QED
    BY <2>1, <2>3, <2>7, <2>8, <2>9 DEF Tells, raised
<1>3. CASE ~ ShouldRaiseInitialEvent(c, c.snapshot)
  BY <1>3 DEF JoinListeners, Sound, SameStore, SameRemote, SameTracker
<1> QED
  BY <1>2, <1>3

LEMMA InitializeFacts ==
    ASSUME NEW c, NEW L, NEW S, Sound(c, L, S), NEW version \in Nat,
           \A s \in Snapshots :
               s.has = LocalView(c).has /\ s.since = version /\ s.from_cache => s \in S,
           NEW d, d = InitializeViewAndComputeSnapshot(c, version)
    PROVE  /\ Tells(d, L, S)
           /\ SameStore(c, d) /\ SameRemote(c, d) /\ SameTracker(c, d)
           /\ d.online_state = c.online_state
           /\ d.listeners = c.listeners /\ d.raised \subseteq c.raised \cup c.listeners
           /\ d.view \in Views /\ d.view # Nil /\ d.view.since = version
           /\ d.view.has = LocalView(c).has /\ ~ d.view.current
           /\ d.view.synced <=> c.remote_keys
           /\ d.snapshot # Nil /\ d.snapshot.has = d.view.has
<1> DEFINE view == [has |-> {}, local |-> FALSE, synced |-> c.remote_keys, current |-> FALSE,
                    limbo |-> FALSE, state |-> "None", since |-> version]
           c1 == [c EXCEPT !.view = view]
           doc == LocalView(c)
<1>1. c \in Clients /\ doc \in LocalDocuments /\ doc # Nil
  BY LocalViewType DEF Sound, Tells
<1>2. view \in Views
  BY <1>1 DEF Views, Clients
<1>3. d = EmitNewSnapshots(c1, doc, Nil)
  BY DEF InitializeViewAndComputeSnapshot
<1>4. /\ view.has = {} /\ view.local = FALSE /\ view.synced = c.remote_keys
      /\ view.current = FALSE /\ view.state = "None" /\ view.since = version
  OBVIOUS
<1> HIDE DEF view
<1>5. /\ c1 \in Clients /\ c1.view = view /\ c1.posts = c.posts /\ c1.listeners = c.listeners
      /\ c1.snapshot = c.snapshot /\ c1.online_state = c.online_state /\ c1.raised = c.raised
      /\ SameStore(c, c1) /\ SameRemote(c, c1) /\ SameTracker(c, c1)
  <2>1. c1 \in Clients
    BY <1>1, <1>2 DEF Clients
  <2>2. SameStore(c, c1) /\ SameRemote(c, c1) /\ SameTracker(c, c1)
    BY <1>1 DEF SameStore, SameRemote, SameTracker, Clients
  <2>3. /\ c1.view = view /\ c1.posts = c.posts /\ c1.listeners = c.listeners
        /\ c1.snapshot = c.snapshot /\ c1.online_state = c.online_state /\ c1.raised = c.raised
    BY <1>1 DEF Clients
  <2> QED
    BY <2>1, <2>2, <2>3
<1> HIDE DEF c1, doc
<1>6. c1.view # Nil
  BY <1>2, <1>5, NilRecordAssumption
<1>7. Tells(c1, L, S)
  BY <1>5 DEF Sound, Tells
<1>8. d.view.has = doc.has /\ (d.view.current <=> FALSE)
  BY <1>1, <1>3, <1>4, <1>5, <1>6, EmitView
<1>9. \A s \in Snapshots :
          /\ s.has = d.view.has /\ s.since = c1.view.since
          /\ s.from_cache \/ d.view.current
          /\ s.settled <=> c1.queue = <<>> /\ ~ c1.cache.committed
          => s \in S
  BY <1>4, <1>5, <1>8 DEF doc
<1>10. /\ Tells(d, L, S)
       /\ SameStore(c1, d) /\ SameRemote(c1, d) /\ SameTracker(c1, d)
       /\ d.listeners = c1.listeners /\ d.online_state = c1.online_state
       /\ d.raised \subseteq c1.raised \cup c1.listeners
       /\ d.view \in Views /\ d.view.since = c1.view.since
       /\ d.view.synced <=> c1.view.synced
       /\ \/ d.snapshot = c1.snapshot /\ d.view.has = c1.view.has /\ c1.view.state # "None"
          \/ d.snapshot # Nil /\ d.snapshot.has = d.view.has
  BY <1>1, <1>3, <1>6, <1>7, <1>9, EmitFacts DEF Sound
<1>11. SameStore(c, d) /\ SameRemote(c, d) /\ SameTracker(c, d)
  BY <1>5, <1>10 DEF SameStore, SameRemote, SameTracker
<1>12. d.view # Nil
  BY <1>10, NilRecordAssumption
<1> QED
  BY <1>4, <1>5, <1>8, <1>10, <1>11, <1>12 DEF doc

-----------------------------------------------------------------------------
(* What the actions do to the client: for any L and S such that the client  *)
(* would tell no other gets than L and no other snapshots than S.            *)

Told(L, S) ==
    /\ \E p \in Seq(Batches(L, S)) : main' = main \o p
    /\ client'.snapshot \in S \cup {Nil}

\* The client becomes c, whose events have been posted.
LEMMA BecomesFacts ==
    ASSUME NEW c, NEW L, NEW S, Tells(c, L, S), Becomes(c)
    PROVE  /\ client' \in Clients /\ client'.posts = <<>> /\ Told(L, S)
           /\ SameStore(c, client') /\ SameRemote(c, client') /\ SameTracker(c, client')
           /\ client'.view = c.view /\ client'.listeners = c.listeners
           /\ client'.raised = c.raised /\ client'.snapshot = c.snapshot
           /\ client'.online_state = c.online_state
<1> DEFINE none == <<>>
<1>1. c \in Clients /\ none \in Seq(Events)
  BY DEF Tells
<1>2. client' = [c EXCEPT !.posts = none] /\ main' = main \o c.posts
  BY DEF Becomes
<1> HIDE DEF none
<1>4. client' \in Clients
  BY <1>1, <1>2 DEF Clients
<1>5. SameStore(c, client') /\ SameRemote(c, client') /\ SameTracker(c, client')
  BY <1>1, <1>2 DEF Clients, SameStore, SameRemote, SameTracker
<1>6. /\ client'.view = c.view /\ client'.listeners = c.listeners
      /\ client'.raised = c.raised /\ client'.snapshot = c.snapshot
      /\ client'.online_state = c.online_state /\ client'.posts = none
  BY <1>1, <1>2 DEF Clients
<1>3. Told(L, S)
  BY <1>2, <1>6 DEF Told, Tells
<1> QED
  BY <1>3, <1>4, <1>5, <1>6 DEF none

LEMMA BecomesTracks ==
    ASSUME NEW c, NEW L, NEW S, Tells(c, L, S), Becomes(c), Tracks(client, c)
    PROVE  Tracks(client, client')
<1>1. /\ SameStore(c, client') /\ SameTracker(c, client')
      /\ client'.view = c.view /\ client'.listeners = c.listeners
      /\ client'.raised = c.raised /\ client'.snapshot = c.snapshot
      /\ client'.online_state = c.online_state
  BY BecomesFacts
<1>2. Tracks(c, client')
  BY <1>1 DEF Tracks, Keeps, InStep, SameTracker
<1> QED
  BY <1>2, TracksTransitive

\* The tracker's assertions.
TrackerOK(c) ==
    /\ c.timer => c.state = "Unknown" /\ IsStarted(c.stream)
    /\ c.state = "Online" => c.failures = 0
    /\ c.state = c.online_state

\* The RPC is gone.
Cut(c) ==
    /\ c.requests = <<>> /\ c.update = Nil /\ c.target = NewTargetState
    /\ ~ c.stream.idle /\ ~ IsOpen(c.stream)

LEMMA BrokenEffect ==
    ASSUME NEW L, NEW S, Sound(client, L, S), TrackerOK(client), OnWatchStreamBroken
    PROVE  /\ client' \in Clients /\ client'.posts = <<>> /\ Told(L, S)
           /\ Tracks(client, client') /\ Cut(client') /\ TrackerOK(client')
           /\ client'.listening = client.listening
<1> DEFINE s == OnStreamFinish(client.stream)
           c == Disconnected(client, s)
<1>1. client \in Clients /\ s \in Streams
  BY StreamMethods DEF Sound, Tells, Clients
<1>2. s.state = "Error" /\ s.idle = FALSE
  BY DEF OnStreamFinish, Close
<1>3. \/ /\ ShouldStartWatchStream(c)
         /\ \E failed \in {HandleWatchStreamFailure(c)} : Becomes(StartWatchStream(failed))
      \/ ~ ShouldStartWatchStream(c) /\ Becomes(UpdateState(c, "Unknown"))
  BY DEF OnWatchStreamBroken
<1> HIDE DEF s
<1>4. /\ OnlyRemote(client, c)
      /\ c.listening = client.listening /\ c.update = Nil /\ c.requests = <<>>
      /\ c.target = NewTargetState
      /\ c.stream.state = s.state /\ c.stream.idle = s.idle
  BY <1>1, DisconnectedFacts
<1> HIDE DEF c
<1>5. Sound(c, L, S) /\ Tracks(client, c)
  BY <1>4, RemoteFields
<1>6. /\ c.online_state = c.state /\ (c.state = "Online" => c.failures = 0 /\ ~ c.timer)
      /\ c.failures \in 0..1 /\ c.timer \in BOOLEAN /\ c.stream \in Streams
  BY <1>4 DEF OnlyRemote, SameTracker, SameViews, TrackerOK, Clients
<1>7. CASE ShouldStartWatchStream(c)
  <2> DEFINE f == HandleWatchStreamFailure(c)
             e == StartWatchStream(f)
  <2>1. Becomes(e)
    BY <1>3, <1>7
  <2>2. /\ Sound(f, L, S) /\ Tracks(c, f) /\ SameRemote(c, f)
        /\ c.state = "Online" => f.state = "Unknown" /\ f.failures = c.failures /\ f.timer = c.timer
        /\ c.state # "Online" => f.state = "Offline" /\ f.failures = 1 /\ f.timer = FALSE
    BY <1>5, StreamFailureFacts
  <2> HIDE DEF f
  <2>3. /\ Sound(e, L, S) /\ Tracks(f, e)
        /\ e.stream = Start(f.stream) /\ e.target = NewTargetState /\ e.update = Nil
        /\ e.listening = f.listening /\ e.requests = f.requests
        /\ e.failures = f.failures
        /\ f.failures # 0 => e.state = f.state /\ e.timer = f.timer
        /\ f.failures = 0 => e.state = "Unknown" /\ e.timer
    BY <2>2, StartFacts
  <2> HIDE DEF e
  <2>4. Tracks(client, f)
    BY <1>5, <2>2, TracksTransitive
  <2>5. Tracks(client, e)
    BY <2>3, <2>4, TracksTransitive
  <2>6. Tells(e, L, S)
    BY <2>3 DEF Sound
  <2>7. /\ client' \in Clients /\ client'.posts = <<>> /\ Told(L, S)
        /\ SameRemote(e, client') /\ SameTracker(e, client')
        /\ client'.online_state = e.online_state
    BY <2>1, <2>6, BecomesFacts
  <2>8. Tracks(client, client')
    BY <2>1, <2>5, <2>6, BecomesTracks
  <2>9. e.stream.state = "Backoff" /\ e.stream.idle = FALSE
    BY <1>2, <1>4, <1>6, <2>2, <2>3 DEF SameRemote, Start, Streams
  <2>10. Cut(client') /\ client'.listening = client.listening
    BY <1>4, <2>2, <2>3, <2>7, <2>9 DEF Cut, SameRemote, IsOpen
  <2>11. e.online_state = e.state
    BY <1>6, <2>2, <2>3 DEF Tracks
  <2>12. TrackerOK(e)
    <3>1. IsStarted(e.stream)
      BY <2>9 DEF IsStarted
    <3>2. CASE c.state = "Online"
      BY <1>6, <2>2, <2>3, <2>11, <3>1, <3>2 DEF TrackerOK
    <3>3. CASE c.state # "Online"
      BY <2>2, <2>3, <2>11, <3>3 DEF TrackerOK
    <3> QED
      BY <3>2, <3>3
  <2> QED
    BY <2>7, <2>8, <2>10, <2>12 DEF TrackerOK, SameTracker, SameRemote
<1>8. CASE ~ ShouldStartWatchStream(c)
  <2> DEFINE e == UpdateState(c, "Unknown")
  <2>1. Becomes(e)
    BY <1>3, <1>8
  <2>2. /\ Sound(e, L, S) /\ Tracks(c, e) /\ SameRemote(c, e)
        /\ e.state = "Unknown" /\ e.failures = 0 /\ e.timer = FALSE
    BY <1>5, UpdateStateFacts DEF OnlineStates
  <2> HIDE DEF e
  <2>3. Tracks(client, e)
    BY <1>5, <2>2, TracksTransitive
  <2>4. Tells(e, L, S)
    BY <2>2 DEF Sound
  <2>5. /\ client' \in Clients /\ client'.posts = <<>> /\ Told(L, S)
        /\ SameRemote(e, client') /\ SameTracker(e, client')
        /\ client'.online_state = e.online_state
    BY <2>1, <2>4, BecomesFacts
  <2>6. Tracks(client, client')
    BY <2>1, <2>3, <2>4, BecomesTracks
  <2>7. Cut(client') /\ client'.listening = client.listening
    BY <1>2, <1>4, <2>2, <2>5 DEF Cut, SameRemote, IsOpen
  <2>8. TrackerOK(client')
    BY <1>6, <2>2, <2>5 DEF TrackerOK, Tracks, SameTracker
  <2> QED
    BY <2>5, <2>6, <2>7, <2>8
<1> QED
  BY <1>7, <1>8

LEMMA StoppedEffect ==
    ASSUME NEW L, NEW S, Sound(client, L, S), TrackerOK(client),
           client.stream.idle => IsOpen(client.stream),
           \/ Becomes(OnWatchStreamStopped(client))
           \/ RestartNetwork
    PROVE  /\ client' \in Clients /\ client'.posts = <<>> /\ Told(L, S)
           /\ Tracks(client, client') /\ Cut(client') /\ TrackerOK(client')
           /\ client'.listening = client.listening
<1> DEFINE c == OnWatchStreamStopped(client)
           i == [c EXCEPT !.stream = InhibitBackoff(@)]
<1>0. client.stream \in Streams
  BY DEF Sound, Tells, Clients
<1>1. \/ Becomes(c)
      \/ Becomes(IF c.listening THEN StartWatchStream(i) ELSE i)
  BY DEF RestartNetwork
<1>2. /\ Sound(c, L, S) /\ Tracks(client, c)
      /\ c.listening = client.listening /\ c.update = Nil /\ c.requests = <<>>
      /\ c.target = NewTargetState
      /\ c.stream.state = Stop(client.stream).state /\ c.stream.idle = Stop(client.stream).idle
      /\ c.state = "Unknown" /\ c.failures = 0 /\ c.timer = FALSE
  BY StoppedFacts
<1> HIDE DEF c
<1>3. c.stream.state # "Open" /\ c.stream.idle = FALSE
  BY <1>0, <1>2 DEF Stop, Close, IsOpen, IsStarted, Streams
<1>4. c \in Clients /\ c.stream \in Streams
  BY <1>2 DEF Sound, Tells, Clients
<1>5. c.online_state = c.state
  BY <1>2 DEF Tracks, TrackerOK
<1>6. ASSUME NEW e, Sound(e, L, S), Tracks(client, e), Becomes(e),
             e.listening = client.listening, e.update = Nil, e.requests = <<>>,
             e.target = NewTargetState, e.stream.state # "Open", e.stream.idle = FALSE,
             TrackerOK(e)
      PROVE  /\ client' \in Clients /\ client'.posts = <<>> /\ Told(L, S)
             /\ Tracks(client, client') /\ Cut(client') /\ TrackerOK(client')
             /\ client'.listening = client.listening
  <2>1. Tells(e, L, S)
    BY <1>6 DEF Sound
  <2>2. /\ client' \in Clients /\ client'.posts = <<>> /\ Told(L, S)
        /\ SameRemote(e, client') /\ SameTracker(e, client')
        /\ client'.online_state = e.online_state
    BY <1>6, <2>1, BecomesFacts
  <2>3. Tracks(client, client')
    BY <1>6, <2>1, BecomesTracks
  <2> QED
    BY <1>6, <2>2, <2>3 DEF Cut, TrackerOK, SameRemote, SameTracker, IsOpen
<1>7. CASE Becomes(c)
  BY <1>2, <1>3, <1>5, <1>6, <1>7 DEF TrackerOK
<1>8. CASE Becomes(IF c.listening THEN StartWatchStream(i) ELSE i)
  <2> DEFINE s == InhibitBackoff(c.stream)
  <2>1. s \in Streams /\ s.state = "Initial" /\ s.idle = FALSE
    BY <1>3, <1>4, StreamMethods DEF InhibitBackoff, Streams
  <2>2. i = [c EXCEPT !.stream = s]
    BY <1>4 DEF Clients
  <2> HIDE DEF s, i
  <2>3. OnlyRemote(c, i)
    <3>1. i \in Clients
      BY <1>4, <2>1, <2>2 DEF Clients
    <3>2. SameStore(c, i) /\ SameTracker(c, i)
      BY <1>4, <2>2 DEF SameStore, SameTracker, Clients
    <3>3. SameViews(c, i)
      BY <1>4, <2>2 DEF SameViews, Clients
    <3> QED
      BY <3>1, <3>2, <3>3 DEF OnlyRemote
  <2>4. /\ i.listening = c.listening /\ i.update = c.update /\ i.requests = c.requests
        /\ i.target = c.target /\ i.stream = s
    BY <1>4, <2>2 DEF Clients
  <2>5. Sound(i, L, S) /\ Tracks(c, i)
    BY <1>2, <2>3, RemoteFields
  <2>6. Tracks(client, i)
    BY <1>2, <2>5, TracksTransitive
  <2>7. /\ i.state = "Unknown" /\ i.failures = 0 /\ i.timer = FALSE
        /\ i.online_state = i.state
    BY <1>2, <1>5, <2>3 DEF OnlyRemote, SameTracker, SameViews
  <2>8. CASE c.listening
    <3> DEFINE e == StartWatchStream(i)
    <3>1. Becomes(e)
      BY <1>8, <2>8
    <3>2. /\ Sound(e, L, S) /\ Tracks(i, e)
          /\ e.stream = Start(i.stream) /\ e.target = NewTargetState /\ e.update = Nil
          /\ e.listening = i.listening /\ e.requests = i.requests
          /\ e.failures = i.failures
          /\ i.failures = 0 => e.state = "Unknown" /\ e.timer
      BY <2>5, StartFacts
    <3> HIDE DEF e
    <3>3. Tracks(client, e)
      BY <2>6, <3>2, TracksTransitive
    <3>4. e.stream.state = "Starting" /\ e.stream.idle = FALSE
      BY <2>1, <2>4, <3>2 DEF Start, Streams
    <3>5. e.online_state = e.state
      BY <2>7, <3>2 DEF Tracks
    <3>6. TrackerOK(e)
      BY <2>7, <3>2, <3>4, <3>5 DEF TrackerOK, IsStarted
    <3> QED
      BY <1>2, <1>6, <2>4, <3>1, <3>2, <3>3, <3>4, <3>6
  <2>9. CASE ~ c.listening
    <3>1. Becomes(i)
      BY <1>8, <2>9
    <3>2. TrackerOK(i)
      BY <2>7 DEF TrackerOK
    <3> QED
      BY <1>2, <1>6, <2>1, <2>4, <2>5, <2>6, <3>1, <3>2
  <2> QED
    BY <2>8, <2>9
<1> QED
  BY <1>1, <1>7, <1>8

LEMMA OpenEffect ==
    ASSUME NEW L, NEW S, Sound(client, L, S), TrackerOK(client), StreamOpen
    PROVE  /\ client' \in Clients /\ client'.posts = <<>> /\ Told(L, S)
           /\ Tracks(client, client') /\ TrackerOK(client') /\ IsOpen(client'.stream)
           /\ client'.listening = client.listening /\ client'.update = client.update
           /\ client'.target.change = client.target.change
           /\ ~ client.listening => /\ client'.requests = client.requests
                                    /\ client'.target = client.target
           /\ client.listening =>
                 /\ client'.requests = Append(client.requests, WatchRequest(client))
                 /\ ~ client'.stream.idle
                 /\ client'.target.outstanding_responses = client.target.outstanding_responses + 1
<1> DEFINE s == OnStreamStart(client.stream)
           c == [client EXCEPT !.stream = s]
           e == IF c.listening THEN SendRequest(c, WatchRequest(c)) ELSE c
<1>1. client \in Clients /\ s \in Streams /\ s.state = "Open"
  BY StreamMethods DEF Sound, Tells, Clients, OnStreamStart, Streams
<1>2. Becomes(e)
  BY <1>1 DEF StreamOpen, Clients
<1> HIDE DEF s
<1>3. OnlyRemote(client, c)
  <2>1. c \in Clients
    BY <1>1 DEF Clients
  <2>2. SameStore(client, c) /\ SameTracker(client, c)
    BY <1>1 DEF SameStore, SameTracker, Clients
  <2>3. SameViews(client, c)
    BY <1>1 DEF SameViews, Clients
  <2> QED
    BY <2>1, <2>2, <2>3 DEF OnlyRemote
<1>4. /\ c.stream = s /\ c.listening = client.listening /\ c.update = client.update
      /\ c.requests = client.requests /\ c.target = client.target
      /\ c.resume_token = client.resume_token
  BY <1>1 DEF Clients
<1> HIDE DEF c
<1>5. Sound(c, L, S) /\ Tracks(client, c)
  BY <1>3, RemoteFields
<1>6. c \in Clients /\ WatchRequest(c) \in Requests /\ WatchRequest(c) = WatchRequest(client)
  BY <1>3, <1>4 DEF OnlyRemote, WatchRequest, Requests, Clients
<1>7. /\ OnlyRemote(c, e) /\ e.listening = c.listening /\ e.update = c.update
      /\ e.stream.state = "Open" /\ e.target.change = c.target.change
      /\ ~ c.listening => e.requests = c.requests /\ e.target = c.target
      /\ c.listening => /\ e.requests = Append(c.requests, WatchRequest(c))
                        /\ e.stream.idle = FALSE
                        /\ e.target.outstanding_responses = c.target.outstanding_responses + 1
  <2>1. CASE c.listening
    <3>1. e = SendRequest(c, WatchRequest(c))
      BY <2>1
    <3> HIDE DEF e
    <3>2. /\ OnlyRemote(c, e)
          /\ e.listening = c.listening /\ e.update = c.update
          /\ e.requests = Append(c.requests, WatchRequest(c))
          /\ e.stream.state = c.stream.state /\ e.stream.idle = FALSE
          /\ e.target.outstanding_responses = c.target.outstanding_responses + 1
          /\ e.target.change = c.target.change
      BY <1>6, <3>1, SendFacts, ZenonT(60)
    <3> QED
      BY <1>1, <1>4, <2>1, <3>2
  <2>2. CASE ~ c.listening
    BY <1>1, <1>4, <1>6, <2>2 DEF OnlyRemote, SameStore, SameTracker, SameViews
  <2> QED
    BY <2>1, <2>2
<1> HIDE DEF e
<1>8. Sound(e, L, S) /\ Tracks(c, e)
  BY <1>5, <1>7, RemoteFields
<1>9. Tracks(client, e) /\ Tells(e, L, S)
  BY <1>5, <1>8, TracksTransitive DEF Sound
<1>10. /\ client' \in Clients /\ client'.posts = <<>> /\ Told(L, S)
       /\ SameRemote(e, client') /\ SameTracker(e, client')
       /\ client'.online_state = e.online_state
  BY <1>2, <1>9, BecomesFacts
<1>11. Tracks(client, client')
  BY <1>2, <1>9, BecomesTracks
<1>12. SameTracker(client, client') /\ client'.online_state = client.online_state
  BY <1>3, <1>7, <1>10 DEF OnlyRemote, SameTracker, SameViews
<1>13. IsOpen(client'.stream) /\ IsStarted(client'.stream)
  BY <1>7, <1>10 DEF SameRemote, IsOpen, IsStarted
<1>14. TrackerOK(client')
  BY <1>12, <1>13 DEF TrackerOK, SameTracker
<1> QED
  BY <1>4, <1>6, <1>7, <1>10, <1>11, <1>13, <1>14 DEF SameRemote

LEMMA TimerEffect ==
    ASSUME NEW L, NEW S, Sound(client, L, S), TrackerOK(client), OnlineStateTimer
    PROVE  /\ client' \in Clients /\ client'.posts = <<>> /\ Told(L, S)
           /\ Tracks(client, client') /\ SameRemote(client, client') /\ TrackerOK(client')
<1> DEFINE c == [client EXCEPT !.timer = FALSE]
           e == SetAndBroadcast(c, "Offline")
<1>1. client \in Clients
  BY DEF Sound, Tells
<1>2. OnlyTracker(client, c) /\ c.timer = FALSE
  <2>1. c \in Clients
    BY <1>1 DEF Clients
  <2>2. SameStore(client, c) /\ SameRemote(client, c)
    BY <1>1 DEF SameStore, SameRemote, Clients
  <2>3. /\ c.view = client.view /\ c.listeners = client.listeners /\ c.raised = client.raised
        /\ c.snapshot = client.snapshot /\ c.posts = client.posts
        /\ c.state = client.state /\ c.online_state = client.online_state /\ c.timer = FALSE
    BY <1>1 DEF Clients
  <2> QED
    BY <2>1, <2>2, <2>3 DEF OnlyTracker
<1>3. Becomes(e)
  BY DEF OnlineStateTimer
<1> HIDE DEF c
<1>4. Sound(c, L, S) /\ Tracks(client, c) /\ SameRemote(client, c)
  BY <1>2, TrackerFields
<1>5. /\ Sound(e, L, S) /\ Tracks(c, e) /\ SameRemote(c, e)
      /\ e.state = "Offline" /\ e.timer = c.timer
  BY <1>4, SetAndBroadcastFacts DEF OnlineStates
<1> HIDE DEF e
<1>6. Tracks(client, e) /\ Tells(e, L, S)
  BY <1>4, <1>5, TracksTransitive DEF Sound
<1>7. /\ client' \in Clients /\ client'.posts = <<>> /\ Told(L, S)
      /\ SameRemote(e, client') /\ SameTracker(e, client')
      /\ client'.online_state = e.online_state
  BY <1>3, <1>6, BecomesFacts
<1>8. Tracks(client, client')
  BY <1>3, <1>6, BecomesTracks
<1>9. SameRemote(client, client')
  BY <1>4, <1>5, <1>7 DEF SameRemote
<1>10. TrackerOK(client')
  BY <1>2, <1>5, <1>7, <1>8 DEF TrackerOK, SameTracker, Tracks
<1> QED
  BY <1>7, <1>8, <1>9, <1>10

\* The view of c is brought up to date; the second part is about what the
\* listeners are told.
LEMMA EmitEffect ==
    ASSUME NEW c, NEW L, NEW S, Tells(c, L, S), S \subseteq Snapshots, L \subseteq Gets,
           NEW doc \in LocalDocuments \cup {Nil}, NEW change \in TargetChanges \cup {Nil},
           Becomes(EmitNewSnapshots(c, doc, change))
    PROVE  /\ client' \in Clients /\ client'.posts = <<>>
           /\ SameStore(c, client') /\ SameRemote(c, client') /\ SameTracker(c, client')
           /\ client'.listeners = c.listeners /\ client'.online_state = c.online_state
           /\ client'.raised \subseteq c.raised \cup c.listeners
           /\ c.view = Nil => client'.view = Nil /\ client'.snapshot = c.snapshot
           /\ c.view # Nil =>
                 /\ client'.view # Nil /\ client'.view.since = c.view.since
                 /\ doc = Nil => client'.view.has = c.view.has
                 /\ doc # Nil /\ (doc.has = c.view.has \/ doc.local \/ ~ doc.committed \/ ~ c.view.local)
                       => client'.view.has = doc.has
                 /\ doc # Nil => ShowsOrWaits(c, client', doc)
                 /\ client'.view.synced <=> c.view.synced \/ (change # Nil /\ change.change = "added")
                 /\ client'.view.current <=> IF change = Nil THEN c.view.current ELSE change.current
                 /\ \/ client'.snapshot = c.snapshot /\ client'.view.has = c.view.has
                    \/ client'.snapshot # Nil /\ client'.snapshot.has = client'.view.has
           /\ (c.view # Nil => \A s \in Snapshots :
                  /\ s.has = client'.view.has /\ s.since = c.view.since
                  /\ s.from_cache \/ client'.view.current
                  /\ s.settled <=> c.queue = <<>> /\ ~ c.cache.committed
                  => s \in S)
              => Told(L, S) /\ client'.snapshot \in S \cup {Nil}
<1> DEFINE d == EmitNewSnapshots(c, doc, change)
<1>1. CASE c.view = Nil
  <2>1. d = c
    BY <1>1 DEF EmitNewSnapshots
  <2>2. /\ client' \in Clients /\ client'.posts = <<>> /\ Told(L, S)
        /\ SameStore(c, client') /\ SameRemote(c, client') /\ SameTracker(c, client')
        /\ client'.view = c.view /\ client'.listeners = c.listeners
        /\ client'.raised = c.raised /\ client'.snapshot = c.snapshot
        /\ client'.online_state = c.online_state
    BY <2>1, BecomesFacts
  <2> QED
    BY <1>1, <2>2 DEF Tells
<1>2. CASE c.view # Nil
  <2>1. Tells(c, L, Snapshots) /\ Snapshots \subseteq Snapshots
    <3>1. Batches(L, S) \subseteq Batches(L, Snapshots)
      BY DEF Batches
    <3>2. c.posts \in Seq(Batches(L, Snapshots))
      BY <3>1 DEF Tells
    <3> QED
      BY <3>2 DEF Tells
  <2> DEFINE T == Snapshots
  <2>2. /\ \A s \in Snapshots :
               /\ s.has = d.view.has /\ s.since = c.view.since
               /\ s.from_cache \/ d.view.current
               /\ s.settled <=> c.queue = <<>> /\ ~ c.cache.committed
               => s \in T
        /\ T \subseteq Snapshots /\ Tells(c, L, T)
    BY <2>1
  <2> HIDE DEF d, T
  <2>3. /\ Tells(d, L, T)
        /\ SameStore(c, d) /\ SameRemote(c, d) /\ SameTracker(c, d)
        /\ d.listeners = c.listeners /\ d.online_state = c.online_state
        /\ d.raised \subseteq c.raised \cup c.listeners
        /\ \/ d.snapshot = c.snapshot /\ d.view.has = c.view.has /\ c.view.state # "None"
           \/ d.snapshot # Nil /\ d.snapshot.has = d.view.has
    BY <1>2, <2>2, EmitFacts DEF d
  <2>4. c \in Clients
    BY DEF Tells
  <2>5. /\ d.view \in Views /\ d.view # Nil /\ d.view.since = c.view.since
        /\ doc = Nil => d.view.has = c.view.has
        /\ doc # Nil /\ (doc.has = c.view.has \/ doc.local \/ ~ doc.committed \/ ~ c.view.local)
              => d.view.has = doc.has
        /\ doc # Nil => ShowsOrWaits(c, d, doc)
        /\ d.view.synced <=> c.view.synced \/ (change # Nil /\ change.change = "added")
        /\ d.view.current <=> IF change = Nil THEN c.view.current ELSE change.current
    BY <1>2, <2>4, EmitView DEF d
  <2>6. Becomes(d)
    BY DEF d
  <2>7. /\ client' \in Clients /\ client'.posts = <<>>
        /\ SameStore(d, client') /\ SameRemote(d, client') /\ SameTracker(d, client')
        /\ client'.view = d.view /\ client'.listeners = d.listeners
        /\ client'.raised = d.raised /\ client'.snapshot = d.snapshot
        /\ client'.online_state = d.online_state
    BY <2>3, <2>6, BecomesFacts
  <2>8. SameStore(c, client') /\ SameRemote(c, client') /\ SameTracker(c, client')
    BY <2>3, <2>7 DEF SameStore, SameRemote, SameTracker
  <2>9. ASSUME \A s \in Snapshots :
                  /\ s.has = client'.view.has /\ s.since = c.view.since
                  /\ s.from_cache \/ client'.view.current
                  /\ s.settled <=> c.queue = <<>> /\ ~ c.cache.committed
                  => s \in S
        PROVE  Told(L, S) /\ client'.snapshot \in S \cup {Nil}
    <3>1. \A s \in Snapshots :
               /\ s.has = d.view.has /\ s.since = c.view.since
               /\ s.from_cache \/ d.view.current
               /\ s.settled <=> c.queue = <<>> /\ ~ c.cache.committed
               => s \in S
      BY <2>7, <2>9
    <3>2. Tells(d, L, S)
      BY <1>2, <3>1, EmitFacts DEF d
    <3>3. Told(L, S)
      BY <2>6, <3>2, BecomesFacts
    <3> QED
      BY <2>7, <3>2, <3>3 DEF Tells
  <2>10. doc # Nil => ShowsOrWaits(c, client', doc)
    BY <2>5, <2>7 DEF ShowsOrWaits
  <2> QED
    BY <1>2, <2>3, <2>5, <2>7, <2>8, <2>9, <2>10
<1> QED
  BY <1>1, <1>2

LEMMA FirstListenerEffect ==
    ASSUME NEW L, NEW S, Sound(client, L, S), TrackerOK(client), watched \in Nat,
           NEW g \in L, client.listeners = {}, client.view = Nil, client.snapshot = Nil,
           \A s \in Snapshots : s.has = LocalView(client).has /\ s.since = watched /\ s.from_cache
                                => s \in S,
           NEW c, c = RemoteListen(AddListener(client, g)),
           Becomes(InitializeViewAndComputeSnapshot(c, watched))
    PROVE  /\ client' \in Clients /\ client'.posts = <<>> /\ Told(L, S)
           /\ SameStore(client, client') /\ TrackerOK(client') /\ client'.listening
           /\ client'.listeners = {g} /\ client'.raised \subseteq client.raised \cup {g}
           /\ client'.view # Nil /\ client'.view.since = watched
           /\ client'.view.has = LocalView(client).has /\ ~ client'.view.current
           /\ client'.view.synced <=> client.remote_keys
           /\ client'.snapshot \in S /\ client'.snapshot # Nil
           /\ client'.snapshot.has = client'.view.has
           /\ Listens(client, client')
<1> DEFINE a == AddListener(client, g)
           d == InitializeViewAndComputeSnapshot(c, watched)
<1>1. /\ Sound(a, L, S)
      /\ SameStore(client, a) /\ SameRemote(client, a) /\ SameTracker(client, a)
      /\ a.view = client.view /\ a.snapshot = client.snapshot
      /\ a.online_state = client.online_state
      /\ a.listeners = client.listeners \cup {g} /\ a.raised = client.raised
  BY AddFacts
<1>0. c = RemoteListen(a)
  OBVIOUS
<1> HIDE DEF a
<1>2. Sound(c, L, S) /\ Tracks(a, c) /\ c.listening /\ Listens(a, c)
  BY <1>0, <1>1, ListenFacts
<1>3. LocalView(c).has = LocalView(client).has
  BY <1>1, <1>2 DEF LocalView, Tracks, Keeps, SameStore
<1>4. /\ Tells(d, L, S)
      /\ SameStore(c, d) /\ SameRemote(c, d) /\ SameTracker(c, d)
      /\ d.online_state = c.online_state
      /\ d.listeners = c.listeners /\ d.raised \subseteq c.raised \cup c.listeners
      /\ d.view # Nil /\ d.view.since = watched
      /\ d.view.has = LocalView(c).has /\ ~ d.view.current
      /\ d.view.synced <=> c.remote_keys
      /\ d.snapshot # Nil /\ d.snapshot.has = d.view.has
  BY <1>2, <1>3, InitializeFacts
<1> HIDE DEF d
<1>5. Becomes(d)
  BY DEF d
<1>6. /\ client' \in Clients /\ client'.posts = <<>> /\ Told(L, S)
      /\ SameStore(d, client') /\ SameRemote(d, client') /\ SameTracker(d, client')
      /\ client'.view = d.view /\ client'.listeners = d.listeners
      /\ client'.raised = d.raised /\ client'.snapshot = d.snapshot
      /\ client'.online_state = d.online_state
  BY <1>4, <1>5, BecomesFacts
<1>7. SameStore(client, client')
  BY <1>1, <1>2, <1>4, <1>6 DEF Tracks, Keeps, SameStore
<1>8. client'.listeners = {g} /\ client'.raised \subseteq client.raised \cup {g}
  BY <1>1, <1>2, <1>4, <1>6 DEF Tracks, Keeps
<1>9. client'.snapshot \in S
  BY <1>4, <1>6 DEF Tells
<1>10. client'.view.synced <=> client.remote_keys
  BY <1>1, <1>2, <1>4, <1>6 DEF Tracks, Keeps, SameStore
<1>11. WatchRequest(a) = WatchRequest(client)
  BY <1>1 DEF WatchRequest, SameStore
<1>12. client.stream \in Streams
  BY DEF Sound, Tells, Clients
<1>13. TrackerOK(c) /\ c.online_state = c.state
  <2>1. TrackerOK(a) /\ a.stream \in Streams
    BY <1>1, <1>12 DEF TrackerOK, SameTracker, SameRemote
  <2>2. c.online_state = c.state
    BY <1>2, <2>1 DEF Tracks, TrackerOK
  <2>3. CASE ~ IsStarted(a.stream)
    <3>1. IsStarted(Start(a.stream))
      BY <2>1 DEF IsStarted, Start, Streams
    <3>2. ~ a.timer /\ ~ IsOpen(a.stream)
      BY <2>1, <2>3 DEF TrackerOK, IsOpen, IsStarted
    <3> QED
      BY <1>2, <2>1, <2>2, <2>3, <3>1, <3>2 DEF TrackerOK, Listens
  <2>4. CASE IsOpen(a.stream)
    <3>1. IsStarted(a.stream)
      BY <2>4 DEF IsOpen, IsStarted
    <3>2. IsStarted(c.stream) /\ SameTracker(a, c)
      BY <1>2, <2>4, <3>1 DEF IsOpen, IsStarted, Listens
    <3> QED
      BY <2>1, <2>2, <3>2 DEF TrackerOK, SameTracker
  <2>5. CASE IsStarted(a.stream) /\ ~ IsOpen(a.stream)
    BY <1>2, <2>1, <2>2, <2>5 DEF TrackerOK, SameTracker, Listens
  <2> QED
    BY <2>3, <2>4, <2>5
<1>14. TrackerOK(client')
  BY <1>4, <1>6, <1>13 DEF TrackerOK, SameTracker, SameRemote
<1>15. client'.listening /\ SameRemote(c, client')
  BY <1>2, <1>4, <1>6 DEF SameRemote
<1>16. IsOpen(client.stream) => IsStarted(client.stream)
  BY DEF IsOpen, IsStarted
<1>17. Listens(client, client')
  <2>1. SameRemote(client, a) /\ SameTracker(client, a) /\ SameTracker(c, client')
    BY <1>1, <1>4, <1>6 DEF SameTracker
  <2> QED
    BY <1>2, <1>11, <1>15, <2>1 DEF SameRemote, SameTracker, Listens
<1> QED
  BY <1>3, <1>4, <1>6, <1>7, <1>8, <1>9, <1>10, <1>14, <1>15, <1>17

LEMMA JoinEffect ==
    ASSUME NEW L, NEW S, Sound(client, L, S), NEW g \in L, client.snapshot # Nil,
           Becomes(JoinListeners(AddListener(client, g), g))
    PROVE  /\ client' \in Clients /\ client'.posts = <<>> /\ Told(L, S)
           /\ SameStore(client, client') /\ SameRemote(client, client')
           /\ SameTracker(client, client')
           /\ client'.view = client.view /\ client'.snapshot = client.snapshot
           /\ client'.online_state = client.online_state
           /\ client'.listeners = client.listeners \cup {g}
           /\ client'.raised \subseteq client.raised \cup {g}
<1> DEFINE a == AddListener(client, g)
           d == JoinListeners(a, g)
<1>1. /\ Sound(a, L, S)
      /\ SameStore(client, a) /\ SameRemote(client, a) /\ SameTracker(client, a)
      /\ a.view = client.view /\ a.snapshot = client.snapshot
      /\ a.online_state = client.online_state
      /\ a.listeners = client.listeners \cup {g} /\ a.raised = client.raised
  BY AddFacts
<1> HIDE DEF a
<1>2. /\ Tells(d, L, S)
      /\ SameStore(a, d) /\ SameRemote(a, d) /\ SameTracker(a, d)
      /\ d.view = a.view /\ d.snapshot = a.snapshot /\ d.online_state = a.online_state
      /\ d.listeners = a.listeners /\ d.raised \subseteq a.raised \cup {g}
  BY <1>1, JoinFacts
<1> HIDE DEF d
<1>3. Becomes(d)
  BY DEF a, d
<1>4. /\ client' \in Clients /\ client'.posts = <<>> /\ Told(L, S)
      /\ SameStore(d, client') /\ SameRemote(d, client') /\ SameTracker(d, client')
      /\ client'.view = d.view /\ client'.listeners = d.listeners
      /\ client'.raised = d.raised /\ client'.snapshot = d.snapshot
      /\ client'.online_state = d.online_state
  BY <1>2, <1>3, BecomesFacts
<1>5. SameStore(client, client') /\ SameRemote(client, client') /\ SameTracker(client, client')
  BY <1>1, <1>2, <1>4 DEF SameStore, SameRemote, SameTracker
<1> QED
  BY <1>1, <1>2, <1>4, <1>5

LEMMA RemoveEffect ==
    ASSUME NEW L, NEW S, Sound(client, L, S), TrackerOK(client), NEW g,
           Becomes(RemoveListener(client, g))
    PROVE  /\ client' \in Clients /\ client'.posts = <<>> /\ Told(L, S)
           /\ SameStore(client, client') /\ TrackerOK(client')
           /\ client'.listeners = client.listeners \ {g}
           /\ client'.raised \subseteq client.raised \ {g}
           /\ Removes(client, client')
<1> DEFINE d == RemoveListener(client, g)
<1>1. Becomes(d) /\ d = RemoveListener(client, g)
  OBVIOUS
<1> HIDE DEF d
<1>2. /\ Tells(d, L, S) /\ SameStore(client, d)
      /\ d.listeners = client.listeners \ {g} /\ d.raised \subseteq client.raised \ {g}
      /\ client.online_state = client.state => d.online_state = d.state
      /\ Removes(client, d)
  BY <1>1, RemoveFacts
<1>3. /\ client' \in Clients /\ client'.posts = <<>> /\ Told(L, S)
      /\ SameStore(d, client') /\ SameRemote(d, client') /\ SameTracker(d, client')
      /\ client'.view = d.view /\ client'.listeners = d.listeners
      /\ client'.raised = d.raised /\ client'.snapshot = d.snapshot
      /\ client'.online_state = d.online_state
  BY <1>1, <1>2, BecomesFacts
<1>4. SameStore(client, client')
  BY <1>2, <1>3 DEF SameStore
<1>5. d.online_state = d.state
  BY <1>2 DEF TrackerOK
<1>6. TrackerOK(d)
  <2>1. CASE SameRemote(client, d) /\ SameTracker(client, d)
    BY <1>5, <2>1 DEF TrackerOK, SameRemote, SameTracker
  <2>2. CASE SameTracker(client, d) /\ IsOpen(client.stream) /\ d.stream.state = client.stream.state
    <3>1. IsStarted(d.stream)
      BY <2>2 DEF IsOpen, IsStarted
    <3> QED
      BY <1>5, <2>2, <3>1 DEF TrackerOK, SameTracker
  <2>3. CASE d.state = "Unknown" /\ d.failures = 0 /\ d.timer = FALSE
    BY <1>5, <2>3 DEF TrackerOK
  <2> QED
    BY <1>2, <2>1, <2>2, <2>3 DEF Removes, StopsListening
<1>7. TrackerOK(client')
  BY <1>3, <1>6 DEF TrackerOK, SameRemote, SameTracker
<1>8. CASE SameRemote(client, d) /\ SameTracker(client, d)
  BY <1>2, <1>3, <1>4, <1>7, <1>8 DEF SameRemote, SameTracker, Removes, StopsListening
<1>9. CASE client.listeners # {} /\ d.listeners = {} /\ StopsListening(client, d)
  BY <1>2, <1>3, <1>4, <1>7, <1>9 DEF SameRemote, SameTracker, Removes, StopsListening
<1> QED
  BY <1>2, <1>8, <1>9 DEF Removes

\* Every message of the watch stream means Online first.
LEMMA OnlineFacts ==
    ASSUME NEW L, NEW S, Sound(client, L, S), TrackerOK(client),
           NEW c, c = UpdateState(client, "Online")
    PROVE  /\ Sound(c, L, S) /\ Tracks(client, c) /\ SameRemote(client, c) /\ TrackerOK(c)
           /\ IsActiveTarget(c) <=> IsActiveTarget(client)
<1>1. /\ Sound(c, L, S) /\ Tracks(client, c) /\ SameRemote(client, c)
      /\ c.state = "Online" /\ c.failures = 0 /\ c.timer = FALSE
  BY UpdateStateFacts, ZenonT(60) DEF OnlineStates
<1>2. TrackerOK(c)
  BY <1>1 DEF TrackerOK, Tracks
<1> QED
  BY <1>1, <1>2 DEF SameRemote, IsActiveTarget

LEMMA TargetEffect ==
    ASSUME NEW L, NEW S, Sound(client, L, S), TrackerOK(client),
           NEW c, c = UpdateState(client, "Online"), NEW d, OnlyTarget(c, d), Becomes(d)
    PROVE  /\ client' \in Clients /\ client'.posts = <<>> /\ Told(L, S)
           /\ Tracks(client, client') /\ TrackerOK(client')
           /\ client'.stream = client.stream /\ client'.listening = client.listening
           /\ client'.requests = client.requests
           /\ client'.target = d.target /\ client'.update = d.update
<1>1. Sound(c, L, S) /\ Tracks(client, c) /\ SameRemote(client, c) /\ TrackerOK(c)
  BY OnlineFacts
<1>2. Sound(d, L, S) /\ Tracks(c, d)
  BY <1>1, RemoteFields DEF OnlyTarget
<1>3. Tells(d, L, S) /\ Tracks(client, d)
  BY <1>1, <1>2, TracksTransitive DEF Sound
<1>4. /\ client' \in Clients /\ client'.posts = <<>> /\ Told(L, S)
      /\ SameRemote(d, client') /\ SameTracker(d, client')
      /\ client'.online_state = d.online_state
  BY <1>3, BecomesFacts
<1>5. Tracks(client, client')
  BY <1>3, BecomesTracks
<1>6. TrackerOK(client')
  BY <1>1, <1>4 DEF OnlyTarget, OnlyRemote, TrackerOK, SameTracker, SameRemote, SameViews
<1> QED
  BY <1>1, <1>4, <1>5, <1>6 DEF OnlyTarget, SameRemote

\* A rejected target: its listeners are told, and forgotten.
LEMMA ErrorEffect ==
    ASSUME NEW L, NEW S, Sound(client, L, S), TrackerOK(client), client.listening,
           NEW c, c = UpdateState(client, "Online"), Becomes(ProcessTargetError(c))
    PROVE  /\ client' \in Clients /\ client'.posts = <<>>
           /\ SameStore(client, client') /\ TrackerOK(client')
           /\ client'.stream = client.stream /\ client'.requests = client.requests
           /\ client'.update = client.update /\ client'.target = NewTargetState
           /\ ~ client'.listening /\ client'.view = Nil /\ client'.snapshot = Nil
           /\ client'.listeners = {} /\ client'.raised = {}
           /\ \E p \in Seq(Batches(L, S)) :
                 \/ main' = main \o p
                 \/ main' = main \o Append(p, [gets |-> client.listeners, snapshot |-> Nil])
<1>1. Sound(c, L, S) /\ Tracks(client, c) /\ SameRemote(client, c) /\ TrackerOK(c)
  BY OnlineFacts
<1> DEFINE d == ProcessTargetError(c)
<1>2. d = ProcessTargetError(c) /\ Becomes(d)
  OBVIOUS
<1> HIDE DEF d
<1>3. c \in Clients /\ c.listening /\ c.posts \in Seq(Batches(L, S)) /\ c.listeners = client.listeners
  BY <1>1 DEF Sound, Tells, SameRemote, Tracks, Keeps
<1>4. /\ d \in Clients /\ SameStore(c, d) /\ SameTracker(c, d)
      /\ d.stream = c.stream /\ d.requests = c.requests /\ d.update = c.update
      /\ d.target = NewTargetState /\ ~ d.listening
      /\ d.view = Nil /\ d.snapshot = Nil /\ d.listeners = {} /\ d.raised = {}
      /\ d.online_state = c.online_state
      /\ \/ d.posts = c.posts
         \/ d.posts = Append(c.posts, [gets |-> c.listeners, snapshot |-> Nil])
  BY <1>2, <1>3, ErrorFacts, ZenonT(60)
<1>5. client' = [d EXCEPT !.posts = <<>>] /\ main' = main \o d.posts
  BY <1>2 DEF Becomes
<1> DEFINE none == <<>>
<1>6. client' = [d EXCEPT !.posts = none] /\ none \in Seq(Events) /\ none = <<>>
  BY <1>5
<1> HIDE DEF none
<1>7. client' \in Clients /\ client'.posts = none
  BY <1>4, <1>6 DEF Clients
<1>8. /\ SameStore(d, client') /\ SameTracker(d, client')
      /\ client'.stream = d.stream /\ client'.requests = d.requests
      /\ client'.update = d.update /\ client'.target = d.target
      /\ client'.listening = d.listening /\ client'.view = d.view
      /\ client'.snapshot = d.snapshot /\ client'.listeners = d.listeners
      /\ client'.raised = d.raised /\ client'.online_state = d.online_state
  BY <1>4, <1>6 DEF Clients, SameStore, SameTracker
<1>9. SameStore(client, client')
  BY <1>1, <1>4, <1>8 DEF SameStore, Tracks, Keeps
<1>10. TrackerOK(client')
  BY <1>1, <1>4, <1>8 DEF TrackerOK, SameTracker
<1>11. \E p \in Seq(Batches(L, S)) :
          \/ main' = main \o p
          \/ main' = main \o Append(p, [gets |-> client.listeners, snapshot |-> Nil])
  BY <1>3, <1>4, <1>5
<1> QED
  BY <1>1, <1>4, <1>6, <1>7, <1>8, <1>9, <1>10, <1>11 DEF SameRemote

\* A snapshot that is not older than the last: stored, then shown.
LEMMA SnapshotEffect ==
    ASSUME NEW L, NEW S, Sound(client, L, S), TrackerOK(client), NEW v \in Nat,
           NEW c, c = UpdateState(client, "Online"), Becomes(RaiseWatchSnapshot(c, v)),
           ~ (v < client.last_remote_snapshot),
           NEW e, e = Stored(c, v), NEW change, change = CreateRemoteEvent(c, v).change,
           NEW doc, doc = IF e.cache = c.cache THEN Nil ELSE LocalView(e)
    PROVE  /\ Tells(e, L, S) /\ TrackerOK(e) /\ e.view = c.view
           /\ doc \in LocalDocuments \cup {Nil} /\ change \in TargetChanges \cup {Nil}
           /\ Becomes(EmitNewSnapshots(e, doc, change))
<1>1. Sound(c, L, S) /\ Tracks(client, c) /\ SameRemote(client, c) /\ TrackerOK(c)
  BY OnlineFacts
<1>2. c \in Clients
  BY <1>1 DEF Sound, Tells
<1>3. /\ e \in Clients /\ SameTracker(c, e) /\ SameViews(c, e) /\ e.stream = c.stream
      /\ change \in TargetChanges \cup {Nil}
      /\ RaiseWatchSnapshot(c, v) =
            IF v < c.last_remote_snapshot THEN c
            ELSE EmitNewSnapshots(e, IF e.cache = c.cache THEN Nil ELSE LocalView(e), change)
  BY <1>2, StoredFacts
<1>4. ~ (v < c.last_remote_snapshot)
  BY <1>1 DEF Tracks, Keeps, SameStore
<1>5. Becomes(EmitNewSnapshots(e, doc, change))
  BY <1>3, <1>4
<1>6. doc \in LocalDocuments \cup {Nil}
  BY <1>3, LocalViewType
<1>7. Tells(e, L, S) /\ e.view = c.view
  BY <1>1, <1>3 DEF Sound, Tells, SameViews
<1>8. TrackerOK(e)
  BY <1>1, <1>3 DEF TrackerOK, SameTracker, SameViews
<1> QED
  BY <1>3, <1>5, <1>6, <1>7, <1>8

-----------------------------------------------------------------------------
(* Queues. *)

LEMMA ElementsOfAppend ==
    ASSUME NEW T, NEW s \in Seq(T), NEW x \in T
    PROVE  Elements(Append(s, x)) = Elements(s) \cup {x}
<1>1. /\ Len(s) \in Nat /\ DOMAIN s = 1..Len(s) /\ DOMAIN Append(s, x) = 1..(Len(s) + 1)
      /\ \A i \in 1..Len(s) : Append(s, x)[i] = s[i]
      /\ Append(s, x)[Len(s) + 1] = x
  OBVIOUS
<1>2. DOMAIN Append(s, x) = DOMAIN s \cup {Len(s) + 1}
  BY <1>1
<1> QED
  BY <1>1, <1>2 DEF Elements

LEMMA ElementsOfTail ==
    ASSUME NEW T, NEW s \in Seq(T), s # <<>>
    PROVE  Elements(Tail(s)) \subseteq Elements(s) /\ Head(s) \in Elements(s) /\ Head(s) = s[1]
BY DEF Elements

LEMMA ElementsOfConcat ==
    ASSUME NEW T, NEW s \in Seq(T), NEW t \in Seq(T)
    PROVE  Elements(s \o t) = Elements(s) \cup Elements(t)
<1>1. /\ Len(s) \in Nat /\ Len(t) \in Nat /\ DOMAIN s = 1..Len(s) /\ DOMAIN t = 1..Len(t)
      /\ DOMAIN (s \o t) = 1..(Len(s) + Len(t))
      /\ \A i \in 1..(Len(s) + Len(t)) :
            (s \o t)[i] = IF i <= Len(s) THEN s[i] ELSE t[i - Len(s)]
  BY LenProperties, ConcatProperties
<1>2. ASSUME NEW i \in DOMAIN t PROVE t[i] \in Elements(s \o t)
  <2>1. Len(s) + i \in 1..(Len(s) + Len(t)) /\ (s \o t)[Len(s) + i] = t[i]
    BY <1>1
  <2> QED
    BY <1>1, <2>1 DEF Elements
<1>3. ASSUME NEW i \in DOMAIN s PROVE s[i] \in Elements(s \o t)
  <2>1. i \in 1..(Len(s) + Len(t)) /\ (s \o t)[i] = s[i]
    BY <1>1
  <2> QED
    BY <1>1, <2>1 DEF Elements
<1>4. ASSUME NEW i \in DOMAIN (s \o t) PROVE (s \o t)[i] \in Elements(s) \cup Elements(t)
  <2>1. CASE i <= Len(s)
    BY <1>1, <2>1 DEF Elements
  <2>2. CASE ~ (i <= Len(s))
    <3>1. i - Len(s) \in DOMAIN t
      BY <1>1, <2>2
    <3> QED
      BY <1>1, <2>2, <3>1 DEF Elements
  <2> QED
    BY <2>1, <2>2
<1> QED
  BY <1>2, <1>3, <1>4 DEF Elements

\* Messages that answer a request of the client.
IsReply(m) == m.type \in {"added", "removed"}
Replies(s) == {i \in DOMAIN s : IsReply(s[i])}

LEMMA RepliesFinite ==
    ASSUME NEW T, NEW s \in Seq(T)
    PROVE  IsFiniteSet(Replies(s)) /\ Cardinality(Replies(s)) \in Nat
<1>1. Len(s) \in Nat /\ DOMAIN s = 1..Len(s)
  BY LenProperties
<1>2. IsFiniteSet(1..Len(s))
  BY <1>1, FS_Interval
<1>3. Replies(s) \in SUBSET (1..Len(s))
  BY <1>1 DEF Replies
<1> QED
  BY <1>2, <1>3, FS_Subset, FS_CardinalityType

LEMMA RepliesOfEmpty == Cardinality(Replies(<<>>)) = 0
<1>1. Replies(<<>>) = {}
  BY DEF Replies
<1> QED
  BY <1>1, FS_EmptySet

LEMMA RepliesOfTail ==
    ASSUME NEW T, NEW s \in Seq(T), s # <<>>
    PROVE  Cardinality(Replies(Tail(s))) + (IF IsReply(Head(s)) THEN 1 ELSE 0)
              <= Cardinality(Replies(s))
<1> DEFINE R == Replies(s)
           N == Replies(Tail(s))
           rest == R \ {1}
           f == [i \in N |-> i + 1]
<1>1. /\ Len(s) \in Nat /\ Len(s) > 0 /\ DOMAIN s = 1..Len(s) /\ Head(s) = s[1]
      /\ DOMAIN Tail(s) = 1..(Len(s) - 1)
      /\ \A i \in 1..(Len(s) - 1) : Tail(s)[i] = s[i + 1]
  OBVIOUS
<1>2. IsFiniteSet(R) /\ Cardinality(R) \in Nat
  BY RepliesFinite
<1>3. IsFiniteSet(rest) /\ Cardinality(rest) = IF 1 \in R THEN Cardinality(R) - 1 ELSE Cardinality(R)
  BY <1>2, FS_RemoveElement
<1>4. f \in Injection(N, rest)
  <2>1. ASSUME NEW i \in N PROVE i \in Nat /\ i + 1 \in rest
    BY <1>1 DEF Replies
  <2>2. f \in [N -> rest]
    BY <2>1
  <2>3. \A i, j \in N : f[i] = f[j] => i = j
    BY <2>1
  <2> QED
    BY <2>2, <2>3 DEF Injection, IsInjective
<1>5. Cardinality(N) <= Cardinality(rest)
  <2> HIDE DEF f, N, rest
  <2> QED
    BY <1>3, <1>4, FS_Injection
<1>6. Cardinality(N) \in Nat
  <2>1. Tail(s) \in Seq(T)
    OBVIOUS
  <2> QED
    BY <2>1, RepliesFinite
<1>7. 1 \in R <=> IsReply(Head(s))
  BY <1>1 DEF Replies
<1> HIDE DEF R, N, rest
<1>8. CASE 1 \in R
  BY <1>2, <1>3, <1>5, <1>6, <1>7, <1>8 DEF R, N
<1>9. CASE 1 \notin R
  BY <1>2, <1>3, <1>5, <1>6, <1>7, <1>9 DEF R, N
<1> QED
  BY <1>8, <1>9

\* Of several messages sent at once only the first answers a request.
LEMMA RepliesOfConcat ==
    ASSUME NEW T, NEW s \in Seq(T), NEW t \in Seq(T),
           \A i \in DOMAIN t : i > 1 => ~ IsReply(t[i])
    PROVE  /\ Cardinality(Replies(s \o t)) <= Cardinality(Replies(s)) + 1
           /\ (\A i \in DOMAIN t : ~ IsReply(t[i]))
              => Cardinality(Replies(s \o t)) <= Cardinality(Replies(s))
<1> DEFINE R == Replies(s)
           N == Replies(s \o t)
           n == Len(s) + 1
<1>1. /\ Len(s) \in Nat /\ Len(t) \in Nat /\ DOMAIN s = 1..Len(s) /\ DOMAIN t = 1..Len(t)
      /\ DOMAIN (s \o t) = 1..(Len(s) + Len(t))
      /\ \A i \in 1..(Len(s) + Len(t)) :
            (s \o t)[i] = IF i <= Len(s) THEN s[i] ELSE t[i - Len(s)]
  BY LenProperties, ConcatProperties
<1>2. IsFiniteSet(R) /\ Cardinality(R) \in Nat
  BY RepliesFinite
<1>3. IsFiniteSet(R \cup {n}) /\ Cardinality(R \cup {n}) \in Nat
      /\ Cardinality(R \cup {n}) <= Cardinality(R) + 1
  <2>1. IsFiniteSet(R \cup {n}) /\ Cardinality(R \cup {n}) = IF n \in R THEN Cardinality(R) ELSE Cardinality(R) + 1
    BY <1>2, FS_AddElement
  <2> HIDE DEF R, n
  <2> QED
    BY <1>2, <2>1
<1>4. ASSUME NEW i \in N PROVE i \in R \/ (i = n /\ IsReply(t[1]) /\ 1 \in DOMAIN t)
  <2>1. i \in 1..(Len(s) + Len(t)) /\ IsReply((s \o t)[i])
    BY <1>1 DEF Replies
  <2>2. CASE i <= Len(s)
    BY <1>1, <2>1, <2>2 DEF Replies
  <2>3. CASE ~ (i <= Len(s))
    <3>1. i - Len(s) \in DOMAIN t /\ IsReply(t[i - Len(s)])
      BY <1>1, <2>1, <2>3
    <3>2. i - Len(s) = 1
      BY <1>1, <3>1
    <3>3. i = n
      BY <1>1, <2>1, <3>2
    <3> QED
      BY <3>1, <3>2, <3>3
  <2> QED
    BY <2>2, <2>3
<1>5. N \in SUBSET (R \cup {n})
  BY <1>4
<1>6. Cardinality(N) <= Cardinality(R \cup {n}) /\ Cardinality(N) \in Nat
  <2> HIDE DEF N, R, n
  <2> QED
    BY <1>3, <1>5, FS_Subset, FS_CardinalityType
<1>7. Cardinality(N) <= Cardinality(R) + 1
  <2> HIDE DEF N, R, n
  <2> QED
    BY <1>2, <1>3, <1>6
<1>8. ASSUME \A i \in DOMAIN t : ~ IsReply(t[i]) PROVE Cardinality(N) <= Cardinality(R)
  <2>1. N \in SUBSET R
    BY <1>4, <1>8
  <2> HIDE DEF N, R
  <2> QED
    BY <1>2, <2>1, FS_Subset
<1> QED
  BY <1>7, <1>8

-----------------------------------------------------------------------------
(* The invariant of the gets: which stage each is in, and the replies that  *)
(* the aggregator waits for.                                                *)

\* Gets whose registration waits on the worker queue.
Adds == {g \in Gets : [type |-> "add", get |-> g] \in Elements(worker)}

\* A get is registered once, then listens, and only then is told anything.
GetsInv ==
    /\ Adds \cup client.listeners \subseteq alive
    /\ \A e \in Elements(main) : e.gets \subseteq alive \ Adds
    /\ client.raised \subseteq client.listeners
    /\ Adds \cap client.listeners = {}
    /\ \A i, j \in DOMAIN worker : worker[i].type = "add" /\ worker[j] = worker[i] => i = j

\* An error is the last event of a get; after its answer a get is muted, or
\* nothing is left that could tell it more.
AnsweredInv ==
    /\ \A i, j \in DOMAIN main :
          i < j /\ main[i].snapshot = Nil => main[i].gets \cap main[j].gets = {}
    /\ \A e \in Elements(main) : e.snapshot = Nil => e.gets \cap client.listeners = {}
    /\ \A g \in Gets : answer[g] # <<>> =>
          /\ g \in 1..asked /\ g \notin Adds
          /\ \/ g \in muted
             \/ g \notin client.listeners /\ \A e \in Elements(main) : g \notin e.gets

\* Nothing claims to be newer than what watch has.
SinceInv ==
    /\ \A i \in 2..Len(log) : log[i] \in Writes
    /\ client.view # Nil => client.view.since <= watched
    /\ client.snapshot # Nil => client.snapshot.since <= watched
    /\ \A e \in Elements(main) : e.snapshot # Nil => e.snapshot.since <= watched

\* A stream that is not open carries nothing; an open one carries no more
\* replies and requests than the aggregator waits for.
WireInv ==
    /\ ~ IsOpen(client.stream) =>
          /\ client.requests = <<>> /\ fromServer = <<>> /\ target = 0
          /\ client.target = NewTargetState /\ client.update = Nil
    /\ refusing => target = 0 /\ \A m \in Elements(fromServer) : m.type = "refused"
    /\ ~ refusing =>
          /\ \A m \in Elements(fromServer) : m.type # "refused"
          /\ Len(client.requests) + Cardinality(Replies(fromServer))
                <= client.target.outstanding_responses
    /\ client.stream.idle => IsOpen(client.stream)

IInv == /\ TypeOK /\ AssertionsHold /\ InStep(client)
        /\ GetsInv /\ AnsweredInv /\ SinceInv /\ WireInv

\* What the client may tell: an error, or a snapshot that is not too new.
Due == {s \in Snapshots : s.since <= watched}

\* New events are for gets of L; only the last may be an error.
Posted(L) ==
    \E p \in Seq(Batches(L, Due \cup {Nil})) :
       /\ main' = main \o p
       /\ \A i, j \in DOMAIN p : i < j => p[i].snapshot # Nil

LEMMA ToldPosted ==
    ASSUME NEW L, Told(L, Due)
    PROVE  Posted(L)
<1>1. PICK p \in Seq(Batches(L, Due)) : main' = main \o p
  BY DEF Told
<1>2. Batches(L, Due) \subseteq Batches(L, Due \cup {Nil})
  BY DEF Batches
<1>3. p \in Seq(Batches(L, Due \cup {Nil}))
  BY <1>2, SeqMonotonic
<1>4. ASSUME NEW i \in DOMAIN p PROVE p[i].snapshot # Nil
  <2>1. p[i] \in Batches(L, Due)
    BY LenProperties, ElementOfSeq
  <2>2. p[i].snapshot \in Snapshots
    BY <2>1 DEF Batches, Due
  <2> QED
    BY <2>2, NilRecordAssumption
<1> QED
  BY <1>1, <1>3, <1>4 DEF Posted

LEMMA SoundNow ==
    ASSUME IInv, NEW L \in SUBSET Gets, client.listeners \subseteq L
    PROVE  Sound(client, L, Due) /\ TrackerOK(client)
<1>1. client \in Clients /\ client.posts = <<>> /\ client.posts \in Seq(Batches(L, Due))
  BY DEF IInv, TypeOK
<1>2. client.snapshot \in Due \cup {Nil}
  BY <1>1 DEF IInv, SinceInv, Due, Clients
<1>3. CachedIn(client, Due)
  BY DEF IInv, SinceInv, CachedIn, Due
<1>4. TrackerOK(client)
  BY DEF IInv, AssertionsHold, TrackerOK
<1> QED
  BY <1>1, <1>2, <1>3, <1>4 DEF Sound, Tells, Due

LEMMA PostedFacts ==
    ASSUME NEW L \in SUBSET Gets, main \in Seq(Events), Posted(L)
    PROVE  /\ main' \in Seq(Events)
           /\ Elements(main) \subseteq Elements(main')
           /\ \A e \in Elements(main') : e \in Elements(main) \/ e \in Batches(L, Due \cup {Nil})
           /\ \A i, j \in DOMAIN main' : i < j /\ main'[i].snapshot = Nil =>
                 /\ i \in DOMAIN main /\ main'[i] = main[i]
                 /\ \/ j \in DOMAIN main /\ main'[j] = main[j]
                    \/ main'[j] \in Batches(L, Due \cup {Nil})
<1>1. PICK p \in Seq(Batches(L, Due \cup {Nil})) :
         /\ main' = main \o p
         /\ \A i, j \in DOMAIN p : i < j => p[i].snapshot # Nil
  BY DEF Posted
<1>2. Batches(L, Due \cup {Nil}) \subseteq Events
  BY DEF Batches, Due, Events
<1>3. p \in Seq(Events)
  BY <1>2, SeqMonotonic
<1>4. /\ Len(main) \in Nat /\ Len(p) \in Nat /\ DOMAIN main = 1..Len(main) /\ DOMAIN p = 1..Len(p)
      /\ main' \in Seq(Events) /\ DOMAIN main' = 1..(Len(main) + Len(p))
      /\ \A i \in 1..(Len(main) + Len(p)) :
            main'[i] = IF i <= Len(main) THEN main[i] ELSE p[i - Len(main)]
  BY <1>1, <1>3, LenProperties, ConcatProperties
<1>5. Elements(main') = Elements(main) \cup Elements(p)
  BY <1>1, <1>3, ElementsOfConcat
<1>6. \A i \in DOMAIN p : p[i] \in Batches(L, Due \cup {Nil})
  BY <1>4, ElementOfSeq
<1>7. \A e \in Elements(p) : e \in Batches(L, Due \cup {Nil})
  BY <1>6 DEF Elements
<1>8. ASSUME NEW i \in DOMAIN main', NEW j \in DOMAIN main', i < j, main'[i].snapshot = Nil
      PROVE  /\ i \in DOMAIN main /\ main'[i] = main[i]
             /\ \/ j \in DOMAIN main /\ main'[j] = main[j]
                \/ main'[j] \in Batches(L, Due \cup {Nil})
  <2>1. i \in DOMAIN main /\ main'[i] = main[i]
    <3>1. SUFFICES ASSUME ~ (i <= Len(main)) PROVE FALSE
      BY <1>4
    <3>2. i - Len(main) \in DOMAIN p /\ j - Len(main) \in DOMAIN p /\ i - Len(main) < j - Len(main)
      BY <1>4, <1>8, <3>1
    <3>3. main'[i] = p[i - Len(main)]
      BY <1>4, <3>1
    <3> QED
      BY <1>1, <1>8, <3>2, <3>3
  <2>2. CASE j <= Len(main)
    BY <1>4, <2>1, <2>2
  <2>3. CASE ~ (j <= Len(main))
    <3>1. j - Len(main) \in DOMAIN p
      BY <1>4, <2>3
    <3> QED
      BY <1>4, <1>6, <2>1, <2>3, <3>1
  <2> QED
    BY <2>2, <2>3
<1> QED
  BY <1>4, <1>5, <1>7, <1>8

LEMMA NoNewError ==
    ASSUME NEW L \in SUBSET Gets, main \in Seq(Events), Told(L, Due)
    PROVE  \A e \in Elements(main') : e.snapshot = Nil => e \in Elements(main)
<1>1. SUFFICES ASSUME NEW e \in Elements(main'), e.snapshot = Nil, e \notin Elements(main)
               PROVE  FALSE
  OBVIOUS
<1>2. PICK p \in Seq(Batches(L, Due)) : main' = main \o p
  BY DEF Told
<1>3. Batches(L, Due) \subseteq Events
  BY DEF Batches, Due, Events
<1>4. p \in Seq(Events)
  BY <1>3, SeqMonotonic
<1>5. e \in Elements(p)
  BY <1>1, <1>2, <1>4, ElementsOfConcat
<1>6. PICK i \in DOMAIN p : e = p[i]
  BY <1>5 DEF Elements
<1>7. e \in Batches(L, Due)
  BY <1>6, LenProperties, ElementOfSeq
<1>8. e.snapshot \in Snapshots
  BY <1>7 DEF Batches, Due
<1> QED
  BY <1>1, <1>8, NilRecordAssumption

\* The worker queue gives up its first task.
LEMMA TaskTaken ==
    ASSUME IInv, worker # <<>>, worker' = Tail(worker)
    PROVE  /\ worker' \in Seq(Tasks) /\ Head(worker) \in Tasks
           /\ Adds' \subseteq Adds
           /\ Head(worker).type = "add" =>
                 /\ Head(worker).get \in Adds /\ Head(worker).get \in Gets
                 /\ Head(worker).get \notin Adds'
           /\ \A i, j \in DOMAIN worker' : worker'[i].type = "add" /\ worker'[j] = worker'[i] => i = j
<1>1. /\ worker \in Seq(Tasks)
      /\ \A i, j \in DOMAIN worker : worker[i].type = "add" /\ worker[j] = worker[i] => i = j
  BY DEF IInv, TypeOK, GetsInv
<1>2. /\ Len(worker) \in Nat /\ Len(worker) > 0 /\ DOMAIN worker = 1..Len(worker)
      /\ Head(worker) = worker[1] /\ Head(worker) \in Tasks /\ Tail(worker) \in Seq(Tasks)
      /\ DOMAIN Tail(worker) = 1..(Len(worker) - 1)
      /\ \A i \in 1..(Len(worker) - 1) : Tail(worker)[i] = worker[i + 1]
  BY <1>1
<1>3. Elements(worker') \subseteq Elements(worker) /\ Head(worker) \in Elements(worker)
  BY <1>1, ElementsOfTail
<1>4. Adds' \subseteq Adds
  BY <1>3 DEF Adds
<1>5. ASSUME NEW i \in DOMAIN worker', NEW j \in DOMAIN worker', worker'[i].type = "add",
             worker'[j] = worker'[i]
      PROVE  i = j
  <2>1. i + 1 \in DOMAIN worker /\ j + 1 \in DOMAIN worker /\ i \in Nat /\ j \in Nat
    BY <1>2
  <2>2. worker[i + 1].type = "add" /\ worker[j + 1] = worker[i + 1]
    BY <1>2, <1>5
  <2>3. i + 1 = j + 1
    BY <1>1, <2>1, <2>2
  <2> QED
    BY <2>1, <2>3
<1>6. ASSUME Head(worker).type = "add"
      PROVE  /\ Head(worker).get \in Adds /\ Head(worker).get \in Gets
             /\ Head(worker).get \notin Adds'
  <2> DEFINE g == Head(worker).get
  <2>1. g \in Gets /\ Head(worker) = [type |-> "add", get |-> g]
    BY <1>2, <1>6 DEF Tasks
  <2>2. g \in Adds
    BY <1>3, <2>1 DEF Adds
  <2>3. SUFFICES ASSUME g \in Adds' PROVE FALSE
    BY <2>1, <2>2
  <2>4. Head(worker) \in Elements(Tail(worker))
    BY <2>1, <2>3 DEF Adds
  <2>5. PICK i \in DOMAIN Tail(worker) : Tail(worker)[i] = Head(worker)
    BY <2>4 DEF Elements
  <2>6. i + 1 \in DOMAIN worker /\ worker[i + 1] = worker[1] /\ 1 \in DOMAIN worker /\ i \in Nat /\ i > 0
    BY <1>2, <2>5
  <2>7. 1 = i + 1
    BY <1>1, <1>2, <1>6, <2>6
  <2> QED
    BY <2>6, <2>7
<1> QED
  BY <1>2, <1>4, <1>5, <1>6

LEMMA TaskAdded ==
    ASSUME IInv, NEW task \in Tasks, worker' = Append(worker, task),
           task.type = "add" => task.get \notin Adds
    PROVE  /\ worker' \in Seq(Tasks)
           /\ Adds' = IF task.type = "add" THEN Adds \cup {task.get} ELSE Adds
           /\ \A i, j \in DOMAIN worker' : worker'[i].type = "add" /\ worker'[j] = worker'[i] => i = j
<1>1. /\ worker \in Seq(Tasks)
      /\ \A i, j \in DOMAIN worker : worker[i].type = "add" /\ worker[j] = worker[i] => i = j
  BY DEF IInv, TypeOK, GetsInv
<1>2. /\ Len(worker) \in Nat /\ DOMAIN worker = 1..Len(worker) /\ worker' \in Seq(Tasks)
      /\ DOMAIN worker' = 1..(Len(worker) + 1)
      /\ \A i \in 1..Len(worker) : worker'[i] = worker[i]
      /\ worker'[Len(worker) + 1] = task
  BY <1>1
<1>3. Elements(worker') = Elements(worker) \cup {task}
  BY <1>1, ElementsOfAppend
<1>4. task.type = "add" => task.get \in Gets /\ task = [type |-> "add", get |-> task.get]
  BY DEF Tasks
<1>5. Adds' = IF task.type = "add" THEN Adds \cup {task.get} ELSE Adds
  BY <1>3, <1>4 DEF Adds
<1>6. ASSUME task.type = "add", task \in Elements(worker) PROVE FALSE
  BY <1>4, <1>6 DEF Adds
<1>7. ASSUME NEW i \in DOMAIN worker', NEW j \in DOMAIN worker', worker'[i].type = "add",
             worker'[j] = worker'[i]
      PROVE  i = j
  <2>1. CASE i \in DOMAIN worker /\ j \in DOMAIN worker
    BY <1>1, <1>2, <1>7, <2>1
  <2>2. CASE i = Len(worker) + 1 /\ j \in DOMAIN worker
    BY <1>2, <1>6, <1>7, <2>2 DEF Elements
  <2>3. CASE j = Len(worker) + 1 /\ i \in DOMAIN worker
    BY <1>2, <1>6, <1>7, <2>3 DEF Elements
  <2> QED
    BY <1>2, <2>1, <2>2, <2>3
<1> QED
  BY <1>2, <1>5, <1>7

\* What the app knows, except for writes that failed.
Reports == <<muted, asked, alive, answer, must, wrote, mine, seen>>

LEMMA NoReports ==
    ASSUME IInv, UNCHANGED appVars
    PROVE  UNCHANGED Reports /\ refused' \subseteq OwnWrites
  BY DEF appVars, Reports, IInv, TypeOK

\* A step of the client: gets that listen, or begin to, are told something.
LEMMA ClientStep ==
    ASSUME IInv, UNCHANGED Reports, refused' \subseteq OwnWrites,
           UNCHANGED <<log, watched, refusing>>,
           client' \in Clients, client'.posts = <<>>,
           NEW L \in SUBSET Gets, L \subseteq client.listeners \cup Adds, L \cap Adds' = {},
           Posted(L),
           \A e \in Elements(main') : e.snapshot = Nil /\ e \notin Elements(main)
                                      => client'.listeners = {},
           client'.listeners \subseteq L, client'.raised \subseteq client'.listeners,
           client'.snapshot \in Due \cup {Nil},
           client'.view # Nil => client'.view.since <= watched,
           worker' \in Seq(Tasks), Adds' \subseteq Adds,
           \A i, j \in DOMAIN worker' : worker'[i].type = "add" /\ worker'[j] = worker'[i] => i = j,
           fromServer' \in Seq(Messages), target' \in 0..watched, events' \in 0..MaxEvents,
           applied' \in Seq(Nat), Len(applied') <= Len(client'.queue)
    PROVE  TypeOK' /\ GetsInv' /\ AnsweredInv' /\ SinceInv'
<1>1. TypeOK /\ GetsInv /\ AnsweredInv /\ SinceInv
  BY DEF IInv
<1>2. main \in Seq(Events)
  BY <1>1 DEF TypeOK
<1>3. /\ main' \in Seq(Events)
      /\ Elements(main) \subseteq Elements(main')
      /\ \A e \in Elements(main') : e \in Elements(main) \/ e \in Batches(L, Due \cup {Nil})
      /\ \A i, j \in DOMAIN main' : i < j /\ main'[i].snapshot = Nil =>
            /\ i \in DOMAIN main /\ main'[i] = main[i]
            /\ \/ j \in DOMAIN main /\ main'[j] = main[j]
               \/ main'[j] \in Batches(L, Due \cup {Nil})
  BY <1>2, PostedFacts
<1>4. TypeOK'
  BY <1>1, <1>3 DEF TypeOK, Reports
<1>5. L \subseteq alive
  BY <1>1 DEF GetsInv
<1>6. \A e \in Batches(L, Due \cup {Nil}) : e.gets \subseteq L /\ e.snapshot \in Due \cup {Nil}
  BY DEF Batches
<1>7. GetsInv'
  <2>1. (Adds \cup client.listeners \subseteq alive)'
    BY <1>1, <1>5 DEF GetsInv, Reports
  <2>2. (\A e \in Elements(main) : e.gets \subseteq alive \ Adds)'
    <3>1. SUFFICES ASSUME NEW e \in Elements(main') PROVE e.gets \subseteq alive \ Adds'
      BY DEF Reports
    <3>2. CASE e \in Elements(main)
      BY <1>1, <3>2 DEF GetsInv
    <3>3. CASE e \in Batches(L, Due \cup {Nil})
      BY <1>5, <1>6, <3>3
    <3> QED
      BY <1>3, <3>2, <3>3
  <2>3. (Adds \cap client.listeners = {})'
    OBVIOUS
  <2> QED
    BY <2>1, <2>2, <2>3 DEF GetsInv
<1>8. AnsweredInv'
  <2>1. ASSUME NEW i \in DOMAIN main', NEW j \in DOMAIN main', i < j, main'[i].snapshot = Nil
        PROVE  main'[i].gets \cap main'[j].gets = {}
    <3>1. i \in DOMAIN main /\ main'[i] = main[i] /\ main[i] \in Elements(main)
      BY <1>3, <2>1 DEF Elements
    <3>2. CASE j \in DOMAIN main /\ main'[j] = main[j]
      BY <1>1, <2>1, <3>1, <3>2 DEF AnsweredInv
    <3>3. CASE main'[j] \in Batches(L, Due \cup {Nil})
      <4>1. main[i].gets \cap L = {}
        BY <1>1, <2>1, <3>1 DEF AnsweredInv, GetsInv
      <4> QED
        BY <1>6, <3>1, <3>3, <4>1
    <3> QED
      BY <1>3, <2>1, <3>2, <3>3
  <2>2. ASSUME NEW e \in Elements(main'), e.snapshot = Nil
        PROVE  e.gets \cap client'.listeners = {}
    <3>1. CASE e \in Elements(main)
      <4>1. e.gets \cap L = {}
        BY <1>1, <2>2, <3>1 DEF AnsweredInv, GetsInv
      <4> QED
        BY <4>1
    <3>2. CASE e \notin Elements(main)
      BY <2>2, <3>2
    <3> QED
      BY <3>1, <3>2
  <2>3. ASSUME NEW g \in Gets, answer[g] # <<>>
        PROVE  /\ g \in 1..asked /\ g \notin Adds'
               /\ \/ g \in muted
                  \/ g \notin client'.listeners /\ \A e \in Elements(main') : g \notin e.gets
    <3>1. /\ g \in 1..asked /\ g \notin Adds
          /\ \/ g \in muted
             \/ g \notin client.listeners /\ \A e \in Elements(main) : g \notin e.gets
      BY <1>1, <2>3 DEF AnsweredInv
    <3>2. g \notin client.listeners => g \notin L
      BY <3>1
    <3> QED
      BY <1>3, <1>6, <3>1, <3>2
  <2> QED
    BY <2>1, <2>2, <2>3 DEF AnsweredInv, Reports
<1>9. SinceInv'
  <2>1. \A s \in Due : s.since <= watched
    BY DEF Due
  <2>2. ASSUME NEW e \in Elements(main'), e.snapshot # Nil PROVE e.snapshot.since <= watched
    BY <1>1, <1>3, <1>6, <2>1, <2>2 DEF SinceInv
  <2>3. client'.snapshot # Nil => client'.snapshot.since <= watched
    BY <2>1
  <2> QED
    BY <1>1, <2>2, <2>3 DEF SinceInv
<1> QED
  BY <1>4, <1>7, <1>8, <1>9

\* Listeners, view and target come and go together.
Linked(c) ==
    /\ c.stream.idle => ~ c.listening
    /\ c.listening <=> c.listeners # {}
    /\ c.listening <=> c.view # Nil
    /\ IsActiveTarget(c) /\ c.target.change = "modified" => c.view.synced

LEMMA LinkedNow == IInv => Linked(client)
BY DEF IInv, AssertionsHold, Linked

LEMMA LinkedNext ==
    ASSUME TrackerOK(client'), InStep(client'), Linked(client')
    PROVE  AssertionsHold'
BY DEF TrackerOK, InStep, Linked, AssertionsHold

LEMMA StartsSound ==
    ASSUME IInv
    PROVE  /\ Sound(client, client.listeners, Due) /\ TrackerOK(client)
           /\ client.listeners \in SUBSET Gets /\ client \in Clients
<1>1. client.listeners \in SUBSET Gets /\ client \in Clients
  BY DEF IInv, TypeOK, Clients
<1> QED
  BY <1>1, SoundNow

\* A step of the stream, the tracker or the aggregator.
LEMMA TracksStep ==
    ASSUME IInv, UNCHANGED <<worker, appVars, log, applied, watched, refusing>>,
           client' \in Clients, client'.posts = <<>>, Told(client.listeners, Due),
           Tracks(client, client'), TrackerOK(client'),
           client'.listening = client.listening,
           client'.stream.idle => ~ client.listening,
           IsActiveTarget(client') /\ client'.target.change = "modified" => client.view.synced,
           fromServer' \in Seq(Messages), target' \in 0..watched, events' \in 0..MaxEvents
    PROVE  /\ TypeOK' /\ AssertionsHold' /\ InStep(client)'
           /\ GetsInv' /\ AnsweredInv' /\ SinceInv'
<1>1. /\ TypeOK /\ AssertionsHold /\ InStep(client) /\ GetsInv /\ AnsweredInv /\ SinceInv
      /\ Linked(client)
  BY LinkedNow DEF IInv
<1> DEFINE L == client.listeners
<1>2. L \in SUBSET Gets
  BY <1>1 DEF TypeOK, Clients
<1>3. Posted(L) /\ client'.snapshot \in Due \cup {Nil}
  BY ToldPosted DEF Told
<1>4. Adds' = Adds
  BY DEF Adds, Elements
<1>5. L \cap Adds' = {}
  BY <1>1, <1>4 DEF GetsInv
<1>6. /\ client'.listeners = L /\ client'.raised \subseteq client.raised \cup L
      /\ client'.queue = client.queue
      /\ client'.view = Nil <=> client.view = Nil
      /\ client.view # Nil => client'.view.since = client.view.since /\ client'.view.synced = client.view.synced
      /\ InStep(client')
  BY <1>1 DEF Tracks, Keeps, SameStore
<1>7. client'.raised \subseteq client'.listeners
  BY <1>1, <1>6 DEF GetsInv
<1>8. Linked(client')
  <2>1. IsActiveTarget(client') => client.view # Nil
    BY <1>1 DEF Linked, IsActiveTarget
  <2> QED
    BY <1>1, <1>6, <2>1 DEF Linked
<1>9. AssertionsHold'
  BY <1>6, <1>8, LinkedNext
<1>10. client'.view # Nil => client'.view.since <= watched
  BY <1>1, <1>6 DEF SinceInv
<1>11. \A e \in Elements(main') : e.snapshot = Nil => e \in Elements(main)
  BY <1>1, <1>2, NoNewError DEF TypeOK
<1>12. /\ worker' \in Seq(Tasks)
       /\ \A i, j \in DOMAIN worker' : worker'[i].type = "add" /\ worker'[j] = worker'[i] => i = j
       /\ applied' \in Seq(Nat) /\ Len(applied') <= Len(client'.queue)
  BY <1>1, <1>6 DEF TypeOK, GetsInv
<1>13. L \subseteq client.listeners \cup Adds /\ client'.listeners \subseteq L /\ Adds' \subseteq Adds
  BY <1>4, <1>6
<1> HIDE DEF L
<1>14. TypeOK' /\ GetsInv' /\ AnsweredInv' /\ SinceInv'
  BY <1>2, <1>3, <1>5, <1>7, <1>10, <1>11, <1>12, <1>13, NoReports, ClientStep
<1> QED
  BY <1>6, <1>9, <1>14

\* The stream is closed: nothing is under way any more.
LEMMA CutStep ==
    ASSUME IInv, UNCHANGED <<worker, appVars, log, applied, watched, refusing>>,
           client' \in Clients, client'.posts = <<>>, Told(client.listeners, Due),
           Tracks(client, client'), TrackerOK(client'), Cut(client'),
           client'.listening = client.listening, fromServer' = <<>>, target' = 0,
           events' \in 0..MaxEvents
    PROVE  IInv'
<1>1. /\ ~ client'.stream.idle /\ client'.target = NewTargetState
      /\ client'.target.change # "modified" /\ ~ IsOpen(client'.stream)
      /\ client'.requests = <<>> /\ client'.update = Nil
      /\ client'.target.outstanding_responses = 0
  BY DEF Cut, NewTargetState
<1>2. fromServer' \in Seq(Messages) /\ target' \in 0..watched
  BY DEF IInv, TypeOK
<1>3. /\ TypeOK' /\ AssertionsHold' /\ InStep(client)'
      /\ GetsInv' /\ AnsweredInv' /\ SinceInv'
  BY <1>1, <1>2, TracksStep
<1>4. Elements(fromServer') = {} /\ Len(client'.requests) = 0
  BY <1>1 DEF Elements
<1>5. Cardinality(Replies(fromServer')) = 0
  BY RepliesOfEmpty
<1>6. WireInv'
  BY <1>1, <1>4, <1>5 DEF WireInv
<1> QED
  BY <1>3, <1>6 DEF IInv

LEMMA ExternalType ==
    ASSUME IInv
    PROVE  (External \/ UNCHANGED events) => events' \in 0..MaxEvents
BY BoundsAssumption DEF IInv, TypeOK, External

LEMMA StreamRefusedStep == IInv /\ StreamRefused => IInv'
<1> SUFFICES ASSUME IInv, StreamRefused PROVE IInv'
  OBVIOUS
<1>1. /\ Sound(client, client.listeners, Due) /\ TrackerOK(client)
  BY StartsSound
<1>2. /\ OnWatchStreamBroken
      /\ UNCHANGED <<worker, appVars, log, applied, watched, refusing>>
      /\ UNCHANGED <<target, fromServer, events>> /\ client.stream.state = "Starting"
  BY DEF StreamRefused, serverVars
<1>3. fromServer' = <<>> /\ target' = 0
  BY <1>2 DEF IInv, WireInv, IsOpen
<1>4. /\ client' \in Clients /\ client'.posts = <<>> /\ Told(client.listeners, Due)
      /\ Tracks(client, client') /\ Cut(client') /\ TrackerOK(client')
      /\ client'.listening = client.listening
  BY <1>1, <1>2, BrokenEffect
<1> QED
  BY <1>2, <1>3, <1>4, ExternalType, CutStep

LEMMA StreamBreakStep == IInv /\ StreamBreak => IInv'
<1> SUFFICES ASSUME IInv, StreamBreak PROVE IInv'
  OBVIOUS
<1>1. /\ Sound(client, client.listeners, Due) /\ TrackerOK(client)
  BY StartsSound
<1>2. /\ OnWatchStreamBroken /\ External
      /\ UNCHANGED <<worker, appVars, log, applied, watched, refusing>>
      /\ fromServer' = <<>> /\ target' = 0
  BY DEF StreamBreak, Hangup
<1>4. /\ client' \in Clients /\ client'.posts = <<>> /\ Told(client.listeners, Due)
      /\ Tracks(client, client') /\ Cut(client') /\ TrackerOK(client')
      /\ client'.listening = client.listening
  BY <1>1, <1>2, BrokenEffect
<1> QED
  BY <1>2, <1>4, ExternalType, CutStep

LEMMA StoppedStep == IInv /\ (IdleTimer \/ ConnectivityChange) => IInv'
<1> SUFFICES ASSUME IInv, IdleTimer \/ ConnectivityChange PROVE IInv'
  OBVIOUS
<1>1. /\ Sound(client, client.listeners, Due) /\ TrackerOK(client)
  BY StartsSound
<1>2. /\ Becomes(OnWatchStreamStopped(client)) \/ RestartNetwork
      /\ External \/ UNCHANGED events
      /\ UNCHANGED <<worker, appVars, log, applied, watched, refusing>>
      /\ fromServer' = <<>> /\ target' = 0
  BY DEF IdleTimer, ConnectivityChange, Hangup
<1>3. client.stream.idle => IsOpen(client.stream)
  BY DEF IInv, WireInv
<1>4. /\ client' \in Clients /\ client'.posts = <<>> /\ Told(client.listeners, Due)
      /\ Tracks(client, client') /\ Cut(client') /\ TrackerOK(client')
      /\ client'.listening = client.listening
  BY <1>1, <1>2, <1>3, StoppedEffect
<1> QED
  BY <1>2, <1>4, ExternalType, CutStep

LEMMA OnlineStateTimerStep == IInv /\ OnlineStateTimer => IInv'
<1> SUFFICES ASSUME IInv, OnlineStateTimer PROVE IInv'
  OBVIOUS
<1>1. /\ Sound(client, client.listeners, Due) /\ TrackerOK(client)
  BY StartsSound
<1>2. /\ UNCHANGED <<worker, appVars, log, applied, watched, refusing>>
      /\ UNCHANGED <<target, fromServer, events>>
  BY DEF OnlineStateTimer, serverVars
<1>3. /\ client' \in Clients /\ client'.posts = <<>> /\ Told(client.listeners, Due)
      /\ Tracks(client, client') /\ SameRemote(client, client') /\ TrackerOK(client')
  BY <1>1, TimerEffect
<1>4. /\ client'.listening = client.listening /\ client'.stream = client.stream
      /\ client'.target = client.target /\ client'.update = client.update
      /\ client'.requests = client.requests
  BY <1>3 DEF SameRemote
<1>5. /\ client'.stream.idle => ~ client.listening
      /\ IsActiveTarget(client') /\ client'.target.change = "modified" => client.view.synced
  BY <1>4 DEF IInv, AssertionsHold, IsActiveTarget
<1>6. fromServer' \in Seq(Messages) /\ target' \in 0..watched /\ events' \in 0..MaxEvents
  BY <1>2 DEF IInv, TypeOK
<1>7. /\ TypeOK' /\ AssertionsHold' /\ InStep(client)'
      /\ GetsInv' /\ AnsweredInv' /\ SinceInv'
  BY <1>2, <1>3, <1>4, <1>5, <1>6, TracksStep
<1>8. WireInv'
  BY <1>2, <1>4 DEF IInv, WireInv, Elements, Replies
<1> QED
  BY <1>7, <1>8 DEF IInv

LEMMA BackoffTimerStep == IInv /\ BackoffTimer => IInv'
<1> SUFFICES ASSUME IInv, BackoffTimer PROVE IInv'
  OBVIOUS
<1> DEFINE s == BackoffElapsed(client.stream)
<1>1. /\ client.stream.state = "Backoff" /\ client' = [client EXCEPT !.stream = s]
      /\ UNCHANGED <<worker, appVars, log, applied, watched, refusing>>
      /\ UNCHANGED <<main, target, fromServer, events>>
  BY DEF BackoffTimer, serverVars
<1>2. client \in Clients /\ client.stream \in Streams /\ client.posts = <<>>
  BY DEF IInv, TypeOK, Clients
<1>3. s \in Streams /\ s.state = "Starting" /\ s.idle = client.stream.idle
  BY <1>2, StreamMethods, ZenonT(60) DEF BackoffElapsed, Start, Streams, States
<1> HIDE DEF s
<1>4. client' \in Clients /\ client'.posts = <<>> /\ client'.stream = s
  BY <1>1, <1>2, <1>3 DEF Clients
<1>5. /\ SameStore(client, client') /\ SameTracker(client, client') /\ SameViews(client, client')
      /\ client'.listening = client.listening /\ client'.target = client.target
      /\ client'.update = client.update /\ client'.requests = client.requests
  BY <1>1, <1>2 DEF Clients, SameStore, SameTracker, SameViews
<1>6. Tracks(client, client')
  BY <1>5 DEF Tracks, Keeps, InStep, SameTracker, SameViews
<1>7. TrackerOK(client')
  BY <1>3, <1>4, <1>5 DEF IInv, AssertionsHold, TrackerOK, SameTracker, SameViews, IsStarted
<1>8. Told(client.listeners, Due)
  <2>1. main' = main \o <<>> /\ <<>> \in Seq(Batches(client.listeners, Due))
    BY <1>1, ConcatEmptySeq DEF IInv, TypeOK
  <2>2. client'.snapshot \in Due \cup {Nil}
    BY <1>5, StartsSound DEF Sound, Tells, SameViews
  <2> QED
    BY <2>1, <2>2 DEF Told
<1>9. /\ client'.stream.idle => ~ client.listening
      /\ IsActiveTarget(client') /\ client'.target.change = "modified" => client.view.synced
  BY <1>3, <1>4, <1>5 DEF IInv, AssertionsHold, IsActiveTarget
<1>10. fromServer' \in Seq(Messages) /\ target' \in 0..watched /\ events' \in 0..MaxEvents
  BY <1>1 DEF IInv, TypeOK
<1>11. /\ TypeOK' /\ AssertionsHold' /\ InStep(client)'
       /\ GetsInv' /\ AnsweredInv' /\ SinceInv'
  BY <1>1, <1>4, <1>5, <1>6, <1>7, <1>8, <1>9, <1>10, TracksStep
<1>12. ~ IsOpen(client.stream)
  BY <1>1 DEF IsOpen
<1>13. WireInv'
  BY <1>1, <1>3, <1>4, <1>5, <1>12 DEF IInv, WireInv, Elements, Replies
<1> QED
  BY <1>11, <1>13 DEF IInv

LEMMA RequestsOf ==
    ASSUME NEW c \in Clients
    PROVE  /\ WatchRequest(c) \in Requests /\ [type |-> "unwatch"] \in Requests
           /\ \A request \in Requests : Len(Append(c.requests, request)) = Len(c.requests) + 1
           /\ Len(c.requests) \in Nat /\ c.target.outstanding_responses \in Nat
BY DEF WatchRequest, Requests, Clients, TargetStates

LEMMA StreamOpenStep == IInv /\ StreamOpen => IInv'
<1> SUFFICES ASSUME IInv, StreamOpen PROVE IInv'
  OBVIOUS
<1>1. Sound(client, client.listeners, Due) /\ TrackerOK(client) /\ client \in Clients
  BY StartsSound
<1>2. /\ UNCHANGED <<worker, appVars, log, applied, watched, refusing>>
      /\ UNCHANGED <<target, fromServer, events>> /\ client.stream.state = "Starting"
  BY DEF StreamOpen, serverVars
<1>3. /\ client' \in Clients /\ client'.posts = <<>> /\ Told(client.listeners, Due)
      /\ Tracks(client, client') /\ TrackerOK(client') /\ IsOpen(client'.stream)
      /\ client'.listening = client.listening /\ client'.update = client.update
      /\ ~ client.listening => /\ client'.requests = client.requests
                               /\ client'.target = client.target
      /\ client.listening =>
            /\ client'.requests = Append(client.requests, WatchRequest(client))
            /\ ~ client'.stream.idle
            /\ client'.target.outstanding_responses = client.target.outstanding_responses + 1
  BY <1>1, OpenEffect
<1>4. /\ ~ IsOpen(client.stream) /\ client.requests = <<>> /\ fromServer = <<>> /\ target = 0
      /\ client.target = NewTargetState
  BY <1>2 DEF IInv, WireInv, IsOpen
<1>5. ~ IsActiveTarget(client')
  BY <1>3, <1>4 DEF IsActiveTarget, NewTargetState
<1>6. fromServer' \in Seq(Messages) /\ target' \in 0..watched /\ events' \in 0..MaxEvents
  BY <1>2 DEF IInv, TypeOK
<1>7. client'.stream.idle => ~ client.listening
  BY <1>3
<1>8. /\ TypeOK' /\ AssertionsHold' /\ InStep(client)'
      /\ GetsInv' /\ AnsweredInv' /\ SinceInv'
  BY <1>2, <1>3, <1>5, <1>6, <1>7, TracksStep
<1>9. Len(client'.requests) <= client'.target.outstanding_responses /\ Len(client'.requests) \in Nat
  <2>1. client.target.outstanding_responses = 0 /\ Len(client.requests) = 0
    BY <1>4 DEF NewTargetState
  <2>2. Len(Append(client.requests, WatchRequest(client))) = Len(client.requests) + 1
    BY <1>1, RequestsOf
  <2>3. CASE client.listening
    BY <1>3, <2>1, <2>2, <2>3
  <2>4. CASE ~ client.listening
    BY <1>3, <2>1, <2>4
  <2> QED
    BY <1>1, <2>3, <2>4 DEF Clients
<1>10. fromServer' = <<>> /\ target' = 0
  BY <1>2, <1>4
<1>11. Elements(fromServer') = {} /\ Cardinality(Replies(fromServer')) = 0
  BY <1>10, RepliesOfEmpty DEF Elements
<1>12. Len(client'.requests) + 0 <= client'.target.outstanding_responses
  BY <1>9
<1>13. WireInv'
  BY <1>3, <1>10, <1>11, <1>12 DEF WireInv
<1> QED
  BY <1>8, <1>13 DEF IInv

\* A task of the worker queue, for listeners of L: what ClientStep asks for.
LEMMA TaskStep ==
    ASSUME IInv, worker # <<>>, worker' = Tail(worker), UNCHANGED <<appVars, serverVars, events>>,
           client' \in Clients, client'.posts = <<>>,
           NEW L \in SUBSET Gets, L \subseteq client.listeners \cup Adds, L \cap Adds' = {},
           Told(L, Due), client'.listeners \subseteq L,
           client'.raised \subseteq client'.listeners,
           client'.view # Nil => client'.view.since <= watched,
           Len(applied) <= Len(client'.queue)
    PROVE  TypeOK' /\ GetsInv' /\ AnsweredInv' /\ SinceInv'
<1>1. TypeOK
  BY DEF IInv
<1>2. Posted(L) /\ client'.snapshot \in Due \cup {Nil}
  BY ToldPosted DEF Told
<1>3. \A e \in Elements(main') : e.snapshot = Nil => e \in Elements(main)
  BY <1>1, NoNewError DEF TypeOK
<1>4. /\ worker' \in Seq(Tasks) /\ Adds' \subseteq Adds
      /\ \A i, j \in DOMAIN worker' : worker'[i].type = "add" /\ worker'[j] = worker'[i] => i = j
  BY TaskTaken
<1>5. /\ UNCHANGED <<appVars, log, watched, refusing>>
      /\ fromServer' \in Seq(Messages) /\ target' \in 0..watched /\ events' \in 0..MaxEvents
      /\ applied' \in Seq(Nat) /\ Len(applied') <= Len(client'.queue)
  BY <1>1 DEF TypeOK, serverVars
<1> QED
  BY <1>2, <1>3, <1>4, <1>5, NoReports, ClientStep

LEMMA AddQueryListenerStep == IInv /\ AddQueryListener => IInv'
<1> SUFFICES ASSUME IInv, AddQueryListener PROVE IInv'
  OBVIOUS
<1>1. /\ worker # <<>> /\ Head(worker).type = "add" /\ worker' = Tail(worker)
      /\ UNCHANGED <<appVars, serverVars, events>>
  BY DEF AddQueryListener, Task
<1> DEFINE g == Head(worker).get
           L == client.listeners \cup {g}
<1>2. g \in Adds /\ g \in Gets /\ g \notin Adds' /\ Adds' \subseteq Adds
  BY <1>1, TaskTaken
<1>3. /\ client \in Clients /\ client.listeners \in SUBSET Gets
  BY StartsSound
<1>4. L \in SUBSET Gets /\ client.listeners \subseteq L /\ g \in L
  BY <1>2, <1>3
<1>5. Sound(client, L, Due) /\ TrackerOK(client)
  BY <1>4, SoundNow
<1>6. L \subseteq client.listeners \cup Adds /\ L \cap Adds' = {}
  BY <1>2 DEF IInv, GetsInv
<1>7. Len(applied) <= Len(client.queue) /\ watched \in Nat
  BY DEF IInv, TypeOK
<1>8. Linked(client) /\ InStep(client)
  BY LinkedNow DEF IInv
<1>9. CASE client.listeners = {}
  <2>1. client.view = Nil /\ client.snapshot = Nil /\ ~ client.listening
    BY <1>8, <1>9 DEF Linked, InStep
  <2>2. PICK c : /\ c = RemoteListen(AddListener(client, g))
                 /\ Becomes(InitializeViewAndComputeSnapshot(c, watched))
    BY <1>9 DEF AddQueryListener
  <2>3. \A s \in Snapshots : s.has = LocalView(client).has /\ s.since = watched /\ s.from_cache
                             => s \in Due
    BY <1>7 DEF Due
  <2> HIDE DEF g, L
  <2>4. /\ client' \in Clients /\ client'.posts = <<>> /\ Told(L, Due)
        /\ SameStore(client, client') /\ TrackerOK(client') /\ client'.listening
        /\ client'.listeners = {g} /\ client'.raised \subseteq client.raised \cup {g}
        /\ client'.view # Nil /\ client'.view.since = watched
        /\ client'.snapshot # Nil /\ client'.snapshot.has = client'.view.has
        /\ Listens(client, client')
    BY <1>4, <1>5, <1>7, <1>9, <2>1, <2>2, <2>3, FirstListenerEffect
  <2>5. client'.listeners \subseteq L /\ client'.raised \subseteq client'.listeners
    BY <1>4, <1>9, <2>4 DEF IInv, GetsInv
  <2>6. TypeOK' /\ GetsInv' /\ AnsweredInv' /\ SinceInv'
    BY <1>1, <1>4, <1>6, <1>7, <2>4, <2>5, TaskStep DEF SameStore
  <2>7. InStep(client')
    BY <2>4 DEF InStep
  <2>8. (WireInv /\ Linked(client))'
    <3>1. fromServer' = fromServer /\ target' = target /\ refusing' = refusing
      BY <1>1 DEF serverVars
    <3>2. /\ WireInv /\ client.stream \in Streams
          /\ Len(client.requests) \in Nat /\ Cardinality(Replies(fromServer)) \in Nat
          /\ client.target.outstanding_responses \in Nat
          /\ Len(Append(client.requests, WatchRequest(client))) = Len(client.requests) + 1
      BY <1>3, RequestsOf, RepliesFinite DEF IInv, TypeOK, Clients
    <3>3. /\ client'.listening /\ client'.listeners # {} /\ client'.view # Nil
      BY <2>4
    <3>4. CASE /\ ~ IsStarted(client.stream) /\ client'.stream = Start(client.stream)
               /\ client'.target = NewTargetState /\ client'.update = Nil
               /\ client'.requests = client.requests
      <4>1. ~ IsOpen(client.stream) /\ ~ client.stream.idle /\ client.requests = <<>> /\ fromServer = <<>> /\ target = 0
        BY <3>2, <3>4 DEF WireInv, IsOpen, IsStarted
      <4>2. ~ IsOpen(client'.stream) /\ ~ client'.stream.idle
        BY <3>2, <3>4, <4>1 DEF Start, IsOpen, Streams
      <4>3. /\ Elements(fromServer') = {} /\ Cardinality(Replies(fromServer')) = 0
            /\ Len(client'.requests) = 0
        BY <3>1, <3>4, <4>1, RepliesOfEmpty DEF Elements
      <4>4. client'.target.outstanding_responses = 0 /\ client'.target.change # "modified"
        BY <3>4 DEF NewTargetState
      <4> QED
        BY <3>1, <3>3, <3>4, <4>1, <4>2, <4>3, <4>4 DEF WireInv, Linked
    <3>5. CASE /\ IsOpen(client.stream)
               /\ client'.requests = Append(client.requests, WatchRequest(client))
               /\ client'.stream.state = client.stream.state /\ client'.stream.idle = FALSE
               /\ client'.target.outstanding_responses = client.target.outstanding_responses + 1
      <4>1. IsOpen(client'.stream) /\ ~ IsActiveTarget(client')
        BY <3>2, <3>5 DEF IsOpen, IsActiveTarget
      <4>2. Elements(fromServer') = Elements(fromServer) /\ Replies(fromServer') = Replies(fromServer)
        BY <3>1
      <4>3. ~ refusing => Len(client'.requests) + Cardinality(Replies(fromServer))
                          <= client'.target.outstanding_responses
        BY <3>2, <3>5 DEF WireInv
      <4> QED
        BY <3>1, <3>2, <3>3, <3>5, <4>1, <4>2, <4>3 DEF WireInv, Linked
    <3>6. CASE /\ ~ IsOpen(client.stream) /\ client'.stream = client.stream
               /\ client'.target = client.target /\ client'.update = client.update
               /\ client'.requests = client.requests
      <4>1. ~ client.stream.idle /\ client'.target.change # "modified"
        BY <3>2, <3>6 DEF WireInv, NewTargetState
      <4> QED
        BY <3>1, <3>2, <3>3, <3>6, <4>1 DEF WireInv, Linked, Elements, Replies
    <3> QED
      BY <2>4, <3>4, <3>5, <3>6 DEF Listens
  <2> QED
    BY <2>4, <2>6, <2>7, <2>8, LinkedNext DEF IInv
<1>10. CASE client.listeners # {}
  <2>1. client.view # Nil /\ client.snapshot # Nil /\ client.listening
    BY <1>8, <1>10 DEF Linked, InStep
  <2>2. Becomes(JoinListeners(AddListener(client, g), g))
    BY <1>10 DEF AddQueryListener
  <2> HIDE DEF g, L
  <2>3. /\ client' \in Clients /\ client'.posts = <<>> /\ Told(L, Due)
        /\ SameStore(client, client') /\ SameRemote(client, client')
        /\ SameTracker(client, client')
        /\ client'.view = client.view /\ client'.snapshot = client.snapshot
        /\ client'.online_state = client.online_state
        /\ client'.listeners = client.listeners \cup {g}
        /\ client'.raised \subseteq client.raised \cup {g}
    BY <1>4, <1>5, <2>1, <2>2, JoinEffect
  <2>4. client'.listeners \subseteq L /\ client'.raised \subseteq client'.listeners
    BY <1>4, <2>3 DEF IInv, GetsInv
  <2>5. client'.view # Nil => client'.view.since <= watched
    BY <2>3 DEF IInv, SinceInv
  <2>6. TypeOK' /\ GetsInv' /\ AnsweredInv' /\ SinceInv'
    BY <1>1, <1>4, <1>6, <1>7, <2>3, <2>4, <2>5, TaskStep DEF SameStore
  <2>7. /\ InStep(client') /\ TrackerOK(client')
    BY <1>5, <1>8, <2>3 DEF InStep, TrackerOK, SameRemote, SameTracker
  <2>8. Linked(client')
    BY <1>8, <2>1, <2>3 DEF Linked, IsActiveTarget, SameRemote
  <2>9. WireInv'
    BY <1>1, <2>3 DEF IInv, WireInv, SameRemote, serverVars, Elements, Replies
  <2> QED
    BY <2>6, <2>7, <2>8, <2>9, LinkedNext DEF IInv
<1> QED
  BY <1>9, <1>10

LEMMA RemoveQueryListenerStep == IInv /\ RemoveQueryListener => IInv'
<1> SUFFICES ASSUME IInv, RemoveQueryListener PROVE IInv'
  OBVIOUS
<1> DEFINE g == Head(worker).get
           L == client.listeners
<1>1. /\ worker # <<>> /\ worker' = Tail(worker)
      /\ UNCHANGED <<appVars, serverVars, events>>
      /\ Becomes(RemoveListener(client, g))
  BY DEF RemoveQueryListener, Task
<1>2. Adds' \subseteq Adds
  BY <1>1, TaskTaken
<1>3. Sound(client, L, Due) /\ TrackerOK(client) /\ L \in SUBSET Gets /\ client \in Clients
  BY StartsSound
<1>4. L \subseteq client.listeners \cup Adds /\ L \cap Adds' = {}
  BY <1>2 DEF IInv, GetsInv
<1>5. Linked(client) /\ InStep(client)
  BY LinkedNow DEF IInv
<1> HIDE DEF g
<1>6. /\ client' \in Clients /\ client'.posts = <<>> /\ Told(L, Due)
      /\ SameStore(client, client') /\ TrackerOK(client')
      /\ client'.listeners = client.listeners \ {g}
      /\ client'.raised \subseteq client.raised \ {g}
      /\ Removes(client, client')
  BY <1>1, <1>3, RemoveEffect
<1>7. /\ client'.listeners \subseteq L /\ client'.raised \subseteq client'.listeners
      /\ Len(applied) <= Len(client'.queue)
  BY <1>6 DEF IInv, GetsInv, TypeOK, SameStore
<1>8. client'.view = client.view \/ client'.view = Nil
  BY <1>6 DEF Removes, StopsListening
<1>9. client'.view # Nil => client'.view.since <= watched
  BY <1>8 DEF IInv, SinceInv
<1>10. TypeOK' /\ GetsInv' /\ AnsweredInv' /\ SinceInv'
  BY <1>1, <1>3, <1>4, <1>6, <1>7, <1>9, TaskStep
<1>11. fromServer' = fromServer /\ target' = target /\ refusing' = refusing
  BY <1>1 DEF serverVars
<1>12. (WireInv /\ Linked(client) /\ InStep(client))'
  <2>1. CASE /\ client.listeners = {} \/ client'.listeners # {}
             /\ SameRemote(client, client')
             /\ client'.view = client.view /\ client'.snapshot = client.snapshot
    <3>1. client'.listeners # {} <=> client.listeners # {}
      BY <1>6, <2>1
    <3>2. (Linked(client) /\ InStep(client))'
      BY <1>5, <2>1, <3>1 DEF Linked, InStep, IsActiveTarget, SameRemote
    <3>3. WireInv'
      BY <1>11, <2>1 DEF IInv, WireInv, SameRemote, Elements, Replies
    <3> QED
      BY <3>2, <3>3
  <2>2. CASE client'.listeners = {} /\ StopsListening(client, client')
    <3>1. (Linked(client) /\ InStep(client))'
      BY <2>2 DEF StopsListening, Linked, InStep, IsActiveTarget
    <3>2. /\ WireInv /\ Len(client.requests) \in Nat /\ Cardinality(Replies(fromServer)) \in Nat
          /\ client.target.outstanding_responses \in Nat
          /\ Len(Append(client.requests, [type |-> "unwatch"])) = Len(client.requests) + 1
      BY <1>3, RequestsOf, RepliesFinite DEF IInv, TypeOK
    <3>3. Elements(fromServer') = Elements(fromServer) /\ Replies(fromServer') = Replies(fromServer)
      BY <1>11
    <3>4. CASE /\ IsOpen(client.stream)
               /\ client'.requests = Append(client.requests, [type |-> "unwatch"])
               /\ client'.stream.state = client.stream.state
               /\ client'.target.outstanding_responses = client.target.outstanding_responses + 1
      <4>1. IsOpen(client'.stream)
        BY <3>4 DEF IsOpen
      <4>2. ~ refusing => Len(client'.requests) + Cardinality(Replies(fromServer))
                          <= client'.target.outstanding_responses
        BY <3>2, <3>4 DEF WireInv
      <4> QED
        BY <1>11, <3>1, <3>2, <3>3, <4>1, <4>2 DEF WireInv
    <3>5. CASE /\ ~ IsOpen(client.stream) /\ client'.stream = client.stream
               /\ client'.target = client.target /\ client'.requests = client.requests
               /\ client'.update = client.update
      BY <1>11, <3>1, <3>2, <3>3, <3>5 DEF WireInv
    <3> QED
      BY <2>2, <3>4, <3>5 DEF StopsListening
  <2> QED
    BY <1>6, <2>1, <2>2 DEF Removes
<1> QED
  BY <1>6, <1>10, <1>12, LinkedNext DEF IInv

\* A method that only changes what the view shows, on what the client c has
\* become: c differs from client in its store only.
LEMMA ShowStep ==
    ASSUME IInv, UNCHANGED Reports, refused' \subseteq OwnWrites,
           UNCHANGED <<log, watched, refusing>>,
           NEW L, L = client.listeners,
           NEW c, Tells(c, L, Due), TrackerOK(c), c.listeners = L, c.raised \subseteq L,
           c.view = Nil <=> client.view = Nil,
           c.view # Nil => c.view.since <= watched /\ (client.view.synced => c.view.synced),
           InStep(c), c.listening = client.listening, c.stream = client.stream,
           IsActiveTarget(c) /\ c.target.change = "modified" => client.view.synced,
           NEW doc \in LocalDocuments \cup {Nil}, NEW change \in TargetChanges \cup {Nil},
           Becomes(EmitNewSnapshots(c, doc, change)),
           worker' \in Seq(Tasks), Adds' \subseteq Adds,
           \A i, j \in DOMAIN worker' : worker'[i].type = "add" /\ worker'[j] = worker'[i] => i = j,
           fromServer' \in Seq(Messages), target' \in 0..watched, events' \in 0..MaxEvents,
           applied' \in Seq(Nat), Len(applied') <= Len(c.queue)
    PROVE  /\ TypeOK' /\ AssertionsHold' /\ InStep(client)'
           /\ GetsInv' /\ AnsweredInv' /\ SinceInv'
           /\ SameRemote(c, client')
<1>1. L \in SUBSET Gets /\ Due \subseteq Snapshots /\ main \in Seq(Events)
  BY StartsSound DEF Due, IInv, TypeOK
<1>2. /\ client' \in Clients /\ client'.posts = <<>>
      /\ SameStore(c, client') /\ SameRemote(c, client') /\ SameTracker(c, client')
      /\ client'.listeners = c.listeners /\ client'.online_state = c.online_state
      /\ client'.raised \subseteq c.raised \cup c.listeners
      /\ c.view = Nil => client'.view = Nil /\ client'.snapshot = c.snapshot
      /\ c.view # Nil =>
            /\ client'.view # Nil /\ client'.view.since = c.view.since
            /\ client'.view.synced <=> c.view.synced \/ (change # Nil /\ change.change = "added")
            /\ \/ client'.snapshot = c.snapshot /\ client'.view.has = c.view.has
               \/ client'.snapshot # Nil /\ client'.snapshot.has = client'.view.has
      /\ (c.view # Nil => \A s \in Snapshots :
             /\ s.has = client'.view.has /\ s.since = c.view.since
             /\ s.from_cache \/ client'.view.current
             /\ s.settled <=> c.queue = <<>> /\ ~ c.cache.committed
             => s \in Due)
         => Told(L, Due) /\ client'.snapshot \in Due \cup {Nil}
  BY <1>1, EmitEffect, ZenonT(60)
<1>3. Told(L, Due) /\ client'.snapshot \in Due \cup {Nil}
  BY <1>2 DEF Due
<1>4. client'.listeners = L /\ client'.raised \subseteq client'.listeners
  BY <1>2
<1>5. L \subseteq client.listeners \cup Adds /\ L \cap Adds' = {}
  BY DEF IInv, GetsInv
<1>6. \A e \in Elements(main') : e.snapshot = Nil => e \in Elements(main)
  BY <1>1, <1>3, NoNewError
<1>7. Posted(L)
  BY <1>3, ToldPosted
<1>8. client'.view # Nil => client'.view.since <= watched
  BY <1>2
<1>9. Len(applied') <= Len(client'.queue) /\ client'.listeners \subseteq L
  BY <1>2 DEF SameStore
<1>10. TypeOK' /\ GetsInv' /\ AnsweredInv' /\ SinceInv'
  BY <1>1, <1>2, <1>3, <1>4, <1>5, <1>6, <1>7, <1>8, <1>9, ClientStep
<1>11. InStep(client')
  BY <1>2 DEF InStep
<1>12. TrackerOK(client')
  BY <1>2 DEF TrackerOK, SameRemote, SameTracker
<1>13. Linked(client')
  <2>1. Linked(client)
    BY LinkedNow
  <2>2. IsActiveTarget(client') => client.view # Nil
    BY <1>2, <2>1 DEF SameRemote, Linked, IsActiveTarget
  <2>3. IsActiveTarget(client') <=> IsActiveTarget(c)
    BY <1>2 DEF SameRemote, IsActiveTarget
  <2> QED
    BY <1>2, <1>4, <2>1, <2>2, <2>3 DEF Linked, SameRemote
<1> QED
  BY <1>2, <1>10, <1>11, <1>12, <1>13, LinkedNext

\* A change of the mutation queue or of the cache, shown at once.
OnlyStore(c, d) ==
    d \in Clients /\ SameRemote(c, d) /\ SameTracker(c, d) /\ SameViews(c, d)

LEMMA StoreStep ==
    ASSUME IInv, UNCHANGED Reports, refused' \subseteq OwnWrites,
           UNCHANGED <<log, watched, target, refusing, fromServer, events>>,
           NEW c, OnlyStore(client, c), Becomes(EmitNewSnapshots(c, LocalView(c), Nil)),
           worker' \in Seq(Tasks), Adds' \subseteq Adds,
           \A i, j \in DOMAIN worker' : worker'[i].type = "add" /\ worker'[j] = worker'[i] => i = j,
           applied' \in Seq(Nat), Len(applied') <= Len(c.queue)
    PROVE  IInv'
<1> DEFINE L == client.listeners
<1>1. Sound(client, L, Due) /\ TrackerOK(client)
  BY StartsSound
<1>2. Tells(c, L, Due) /\ TrackerOK(c)
  <2>1. Tells(c, L, Due)
    BY <1>1 DEF OnlyStore, Sound, Tells, SameViews
  <2>2. TrackerOK(c)
    BY <1>1 DEF OnlyStore, TrackerOK, SameRemote, SameTracker, SameViews
  <2> QED
    BY <2>1, <2>2
<1>3. c.listeners = L /\ c.raised \subseteq L
  BY DEF OnlyStore, SameViews, IInv, GetsInv
<1>4. /\ c.view = client.view /\ c.listening = client.listening /\ c.stream = client.stream
      /\ c.target = client.target /\ c.snapshot = client.snapshot /\ c.update = client.update
      /\ c.requests = client.requests
  BY DEF OnlyStore, SameViews, SameRemote
<1>5. /\ c.view # Nil => c.view.since <= watched
      /\ InStep(c)
      /\ IsActiveTarget(c) /\ c.target.change = "modified" => client.view.synced
  <2>1. c.view # Nil => c.view.since <= watched
    BY <1>4 DEF IInv, SinceInv
  <2>2. InStep(c)
    BY <1>4 DEF IInv, InStep
  <2>3. IsActiveTarget(c) /\ c.target.change = "modified" => client.view.synced
    BY <1>4 DEF IInv, AssertionsHold, IsActiveTarget
  <2> QED
    BY <2>1, <2>2, <2>3
<1>6. LocalView(c) \in LocalDocuments \cup {Nil} /\ Nil \in TargetChanges \cup {Nil}
  BY LocalViewType DEF OnlyStore
<1>7. fromServer' \in Seq(Messages) /\ target' \in 0..watched /\ events' \in 0..MaxEvents
  BY DEF IInv, TypeOK
<1> DEFINE doc == LocalView(c)
           change == Nil
<1>8. doc \in LocalDocuments \cup {Nil} /\ change \in TargetChanges \cup {Nil}
      /\ Becomes(EmitNewSnapshots(c, doc, change)) /\ L = client.listeners
  BY <1>6
<1> HIDE DEF L, doc, change
<1>9. /\ TypeOK' /\ AssertionsHold' /\ InStep(client)'
      /\ GetsInv' /\ AnsweredInv' /\ SinceInv' /\ SameRemote(c, client')
  BY <1>2, <1>3, <1>4, <1>5, <1>7, <1>8, ShowStep
<1>10. WireInv'
  BY <1>4, <1>9 DEF SameRemote, IInv, WireInv, Elements, Replies
<1> QED
  BY <1>9, <1>10 DEF IInv

LEMMA WriteLocallyStep == IInv /\ WriteLocally => IInv'
<1> SUFFICES ASSUME IInv, WriteLocally PROVE IInv'
  OBVIOUS
<1>1. /\ worker # <<>> /\ Head(worker).type = "write" /\ worker' = Tail(worker)
      /\ UNCHANGED <<appVars, serverVars, events>>
  BY DEF WriteLocally, Task
<1> DEFINE queue == Append(client.queue, Head(worker).write)
<1>2. PICK c : /\ c = [client EXCEPT !.queue = queue]
               /\ Becomes(EmitNewSnapshots(c, LocalView(c), Nil))
  BY DEF WriteLocally
<1>3. /\ worker' \in Seq(Tasks) /\ Adds' \subseteq Adds /\ Head(worker) \in Tasks
      /\ \A i, j \in DOMAIN worker' : worker'[i].type = "add" /\ worker'[j] = worker'[i] => i = j
  BY <1>1, TaskTaken
<1>4. client \in Clients /\ client.queue \in Seq(OwnWrites) /\ Head(worker).write \in OwnWrites
  BY <1>1, <1>3 DEF IInv, TypeOK, Clients, Tasks
<1>5. queue \in Seq(OwnWrites) /\ Len(queue) = Len(client.queue) + 1
  BY <1>4
<1>6. applied' \in Seq(Nat) /\ Len(applied') <= Len(queue)
  BY <1>1, <1>4, <1>5 DEF IInv, TypeOK, serverVars
<1> HIDE DEF queue
<1>7. c \in Clients /\ c.queue = queue
  BY <1>2, <1>4, <1>5 DEF Clients
<1>8. SameRemote(client, c) /\ SameTracker(client, c) /\ SameViews(client, c)
  BY <1>2, <1>4 DEF Clients, SameRemote, SameTracker, SameViews
<1> QED
  BY <1>1, <1>2, <1>3, <1>6, <1>7, <1>8, NoReports, StoreStep DEF OnlyStore, serverVars

LEMMA WriteAcknowledgedStep == IInv /\ WriteAcknowledged => IInv'
<1> SUFFICES ASSUME IInv, WriteAcknowledged PROVE IInv'
  OBVIOUS
<1> DEFINE version == Head(applied)
           queue == Tail(client.queue)
           has == IF Found(client.cache) THEN client.cache.has \cup {Head(client.queue)} ELSE {}
           doc == IF client.cache.version < version
                  THEN [version |-> version, has |-> has, committed |-> TRUE]
                  ELSE client.cache
<1>1. /\ applied # <<>> /\ applied' = Tail(applied)
      /\ UNCHANGED <<worker, appVars, log, watched, target, refusing, fromServer, events>>
  BY DEF WriteAcknowledged
<1>2. PICK c : /\ c = [client EXCEPT !.cache = doc, !.queue = queue]
               /\ Becomes(EmitNewSnapshots(c, LocalView(c), Nil))
  <2>1. PICK c : /\ c = AcknowledgeBatch(client, version)
                 /\ Becomes(EmitNewSnapshots(c, LocalView(c), Nil))
    BY DEF WriteAcknowledged
  <2>2. AcknowledgeBatch(client, version) = [client EXCEPT !.cache = doc, !.queue = queue]
    BY DEF AcknowledgeBatch, IInv, TypeOK, Clients
  <2> QED
    BY <2>1, <2>2
<1>3. /\ client \in Clients /\ client.queue \in Seq(OwnWrites)
      /\ client.cache \in [version : Nat, has : SUBSET Writes, committed : BOOLEAN]
      /\ applied \in Seq(Nat) /\ Len(applied) <= Len(client.queue)
  BY DEF IInv, TypeOK, Clients
<1>4. client.queue # <<>>
  BY <1>1, <1>3
<1>5. /\ version \in Nat /\ Tail(applied) \in Seq(Nat) /\ Len(Tail(applied)) = Len(applied) - 1
      /\ queue \in Seq(OwnWrites) /\ Len(queue) = Len(client.queue) - 1
      /\ Head(client.queue) \in OwnWrites
  BY <1>1, <1>3, <1>4
<1>6. OwnWrites \subseteq Writes
  BY BoundsAssumption, SMTT(30) DEF OwnWrites, Writes, Creation
<1>7. doc \in [version : Nat, has : SUBSET Writes, committed : BOOLEAN]
  <2>1. has \subseteq Writes
    BY <1>3, <1>5, <1>6
  <2> HIDE DEF has
  <2> QED
    BY <1>3, <1>5, <2>1
<1>8. applied' \in Seq(Nat) /\ Len(applied') <= Len(queue)
  BY <1>1, <1>3, <1>5
<1> HIDE DEF queue, doc
<1>9. c \in Clients /\ c.queue = queue
  BY <1>2, <1>3, <1>5, <1>7 DEF Clients
<1>10. SameRemote(client, c) /\ SameTracker(client, c) /\ SameViews(client, c)
  BY <1>2, <1>3 DEF Clients, SameRemote, SameTracker, SameViews
<1>11. /\ worker' \in Seq(Tasks) /\ Adds' \subseteq Adds
       /\ \A i, j \in DOMAIN worker' : worker'[i].type = "add" /\ worker'[j] = worker'[i] => i = j
  BY <1>1 DEF IInv, TypeOK, GetsInv, Adds, Elements
<1> QED
  BY <1>1, <1>2, <1>8, <1>9, <1>10, <1>11, NoReports, StoreStep DEF OnlyStore

LEMMA WriteRejectedStep == IInv /\ WriteRejected => IInv'
<1> SUFFICES ASSUME IInv, WriteRejected PROVE IInv'
  OBVIOUS
<1> DEFINE queue == Tail(client.queue)
<1>1. /\ applied # <<>> /\ applied' = Tail(applied)
      /\ refused' = refused \cup {Head(client.queue)}
      /\ UNCHANGED Reports
      /\ UNCHANGED <<worker, log, watched, target, refusing, fromServer, events>>
  BY DEF WriteRejected, Reports
<1>2. PICK c : /\ c = [client EXCEPT !.queue = queue]
               /\ Becomes(EmitNewSnapshots(c, LocalView(c), Nil))
  BY DEF WriteRejected, RejectBatch, IInv, TypeOK, Clients
<1>3. /\ client \in Clients /\ client.queue \in Seq(OwnWrites) /\ refused \subseteq OwnWrites
      /\ applied \in Seq(Nat) /\ Len(applied) <= Len(client.queue)
  BY DEF IInv, TypeOK, Clients
<1>4. client.queue # <<>>
  BY <1>1, <1>3
<1>5. /\ Tail(applied) \in Seq(Nat) /\ Len(Tail(applied)) = Len(applied) - 1
      /\ queue \in Seq(OwnWrites) /\ Len(queue) = Len(client.queue) - 1
      /\ Head(client.queue) \in OwnWrites
  BY <1>1, <1>3, <1>4
<1>6. applied' \in Seq(Nat) /\ Len(applied') <= Len(queue) /\ refused' \subseteq OwnWrites
  BY <1>1, <1>3, <1>5
<1> HIDE DEF queue
<1>7. c \in Clients /\ c.queue = queue
  BY <1>2, <1>3, <1>5 DEF Clients
<1>8. SameRemote(client, c) /\ SameTracker(client, c) /\ SameViews(client, c)
  BY <1>2, <1>3 DEF Clients, SameRemote, SameTracker, SameViews
<1>9. /\ worker' \in Seq(Tasks) /\ Adds' \subseteq Adds
      /\ \A i, j \in DOMAIN worker' : worker'[i].type = "add" /\ worker'[j] = worker'[i] => i = j
  BY <1>1 DEF IInv, TypeOK, GetsInv, Adds, Elements
<1> QED
  BY <1>1, <1>2, <1>6, <1>7, <1>8, <1>9, StoreStep DEF OnlyStore

LEMMA MessageTaken ==
    ASSUME IInv, fromServer # <<>>, fromServer' = Tail(fromServer), UNCHANGED <<target, refusing>>,
           client' \in Clients, client'.stream = client.stream, client'.requests = client.requests,
           ~ refusing => client'.target.outstanding_responses =
               client.target.outstanding_responses - (IF IsReply(Head(fromServer)) THEN 1 ELSE 0)
    PROVE  fromServer' \in Seq(Messages) /\ WireInv'
<1>1. WireInv /\ fromServer \in Seq(Messages) /\ client \in Clients
  BY DEF IInv, TypeOK
<1>2. IsOpen(client.stream)
  BY <1>1 DEF WireInv
<1>3. fromServer' \in Seq(Messages) /\ Elements(fromServer') \subseteq Elements(fromServer)
  BY <1>1, ElementsOfTail, HeadTailProperties
<1> DEFINE k == IF IsReply(Head(fromServer)) THEN 1 ELSE 0
           n == Cardinality(Replies(fromServer))
           m == Cardinality(Replies(fromServer'))
           r == Len(client.requests)
           o == client.target.outstanding_responses
<1>4. m + k <= n /\ n \in Nat /\ m \in Nat
  BY <1>1, <1>3, RepliesOfTail, RepliesFinite
<1>5. r \in Nat /\ o \in Nat /\ k \in Nat
  BY <1>1, RequestsOf
<1>6. ~ refusing => r + n <= o
  BY <1>1 DEF WireInv
<1> HIDE DEF k, n, m, r, o
<1>7. ~ refusing => r + m <= o - k
  BY <1>4, <1>5, <1>6
<1>8. ~ refusing' => Len(client'.requests) + Cardinality(Replies(fromServer'))
                     <= client'.target.outstanding_responses
  BY <1>7 DEF k, m, r, o
<1> QED
  BY <1>1, <1>2, <1>3, <1>8 DEF WireInv

LEMMA TargetStep ==
    ASSUME IInv, fromServer # <<>>, fromServer' = Tail(fromServer),
           UNCHANGED <<worker, appVars, log, applied, watched, target, refusing, events>>,
           NEW c, c = UpdateState(client, "Online"), NEW d, OnlyTarget(c, d), Becomes(d),
           IsActiveTarget(d) /\ d.target.change = "modified" => client.view.synced,
           d.target.outstanding_responses =
              c.target.outstanding_responses - (IF IsReply(Head(fromServer)) THEN 1 ELSE 0)
    PROVE  IInv'
<1>1. Sound(client, client.listeners, Due) /\ TrackerOK(client)
  BY StartsSound
<1>2. /\ client' \in Clients /\ client'.posts = <<>> /\ Told(client.listeners, Due)
      /\ Tracks(client, client') /\ TrackerOK(client')
      /\ client'.stream = client.stream /\ client'.listening = client.listening
      /\ client'.requests = client.requests
      /\ client'.target = d.target /\ client'.update = d.update
  BY <1>1, TargetEffect
<1>3. SameRemote(client, c)
  BY <1>1, OnlineFacts
<1>4. fromServer' \in Seq(Messages) /\ WireInv'
  BY <1>2, <1>3, MessageTaken DEF SameRemote
<1>5. IsActiveTarget(client') /\ client'.target.change = "modified" => client.view.synced
  BY <1>2, <1>3 DEF IsActiveTarget, OnlyTarget, SameRemote
<1>6. client'.stream.idle => ~ client.listening
  BY <1>2 DEF IInv, AssertionsHold
<1>7. target' \in 0..watched /\ events' \in 0..MaxEvents
  BY DEF IInv, TypeOK
<1>8. /\ TypeOK' /\ AssertionsHold' /\ InStep(client)'
      /\ GetsInv' /\ AnsweredInv' /\ SinceInv'
  BY <1>2, <1>4, <1>5, <1>6, <1>7, TracksStep
<1> QED
  BY <1>4, <1>8 DEF IInv

LEMMA SnapshotStep ==
    ASSUME IInv, fromServer # <<>>, fromServer' = Tail(fromServer), ~ IsReply(Head(fromServer)),
           UNCHANGED <<worker, appVars, log, applied, watched, target, refusing, events>>,
           NEW c, c = UpdateState(client, "Online"), NEW v \in Nat,
           Becomes(RaiseWatchSnapshot(c, v)), ~ (v < client.last_remote_snapshot)
    PROVE  IInv'
<1> DEFINE L == client.listeners
<1>1. Sound(client, L, Due) /\ TrackerOK(client)
  BY StartsSound
<1>2. Sound(c, L, Due) /\ Tracks(client, c) /\ SameRemote(client, c)
  BY <1>1, OnlineFacts
<1> DEFINE e == Stored(c, v)
           change == CreateRemoteEvent(c, v).change
           doc == IF e.cache = c.cache THEN Nil ELSE LocalView(e)
<1>3. e = Stored(c, v) /\ change = CreateRemoteEvent(c, v).change
      /\ doc = IF e.cache = c.cache THEN Nil ELSE LocalView(e)
  OBVIOUS
<1>4. c \in Clients
  BY <1>2 DEF Sound, Tells
<1> HIDE DEF e, change, doc
<1>5. /\ e \in Clients /\ SameViews(c, e)
      /\ e.stream = c.stream /\ e.listening = c.listening /\ e.requests = c.requests
      /\ e.queue = c.queue
      /\ e.target.outstanding_responses = c.target.outstanding_responses
      /\ IsActiveTarget(c) => e.target.change = "none"
  BY <1>3, <1>4, StoredFacts
<1>6. /\ Tells(e, L, Due) /\ TrackerOK(e) /\ e.view = c.view
      /\ doc \in LocalDocuments \cup {Nil} /\ change \in TargetChanges \cup {Nil}
      /\ Becomes(EmitNewSnapshots(e, doc, change))
  BY <1>1, <1>3, SnapshotEffect
<1>7. /\ e.listeners = L /\ e.raised \subseteq L
      /\ InStep(e)
      /\ e.view = Nil <=> client.view = Nil
      /\ e.view # Nil => e.view.since <= watched /\ (client.view.synced => e.view.synced)
      /\ e.queue = client.queue
  <2>1. /\ InStep(client) /\ client.raised \subseteq L
        /\ client.view # Nil => client.view.since <= watched
    BY DEF IInv, GetsInv, SinceInv
  <2>2. /\ c.listeners = L /\ c.raised \subseteq L /\ InStep(c) /\ c.queue = client.queue
        /\ c.view = Nil <=> client.view = Nil
        /\ c.view # Nil => c.view.since <= watched /\ c.view.synced = client.view.synced
    BY <1>2, <2>1 DEF Tracks, Keeps, SameStore
  <2> QED
    BY <1>5, <2>2 DEF SameViews, InStep
<1>8. /\ e.listening = client.listening /\ e.stream = client.stream
      /\ e.requests = client.requests
      /\ e.target.outstanding_responses = client.target.outstanding_responses
  BY <1>2, <1>5 DEF SameRemote
<1>9. IsActiveTarget(e) /\ e.target.change = "modified" => client.view.synced
  BY <1>5 DEF IsActiveTarget
<1>10. /\ worker' \in Seq(Tasks) /\ Adds' \subseteq Adds
       /\ \A i, j \in DOMAIN worker' : worker'[i].type = "add" /\ worker'[j] = worker'[i] => i = j
       /\ fromServer \in Seq(Messages) /\ target' \in 0..watched /\ events' \in 0..MaxEvents
       /\ applied' \in Seq(Nat) /\ Len(applied') <= Len(e.queue)
  BY <1>7 DEF IInv, TypeOK, GetsInv, Adds, Elements
<1>11. fromServer' \in Seq(Messages)
  BY <1>10, HeadTailProperties
<1>12. L = client.listeners
  OBVIOUS
<1> HIDE DEF L
<1>13. /\ TypeOK' /\ AssertionsHold' /\ InStep(client)'
       /\ GetsInv' /\ AnsweredInv' /\ SinceInv' /\ SameRemote(e, client')
  BY <1>6, <1>7, <1>8, <1>9, <1>10, <1>11, <1>12, NoReports, ShowStep
<1>14. /\ client' \in Clients /\ client'.stream = client.stream
       /\ client'.requests = client.requests
       /\ client'.target.outstanding_responses = client.target.outstanding_responses
       /\ client.target.outstanding_responses \in Nat
  BY <1>8, <1>13, StartsSound, RequestsOf DEF SameRemote, TypeOK
<1>15. client'.target.outstanding_responses = client.target.outstanding_responses
          - (IF IsReply(Head(fromServer)) THEN 1 ELSE 0)
  BY <1>14
<1>16. WireInv'
  BY <1>14, <1>15, MessageTaken
<1> QED
  BY <1>13, <1>16 DEF IInv

LEMMA RefusedStep ==
    ASSUME IInv, fromServer # <<>>, fromServer' = Tail(fromServer), refusing,
           UNCHANGED <<worker, appVars, log, applied, watched, target, refusing, events>>,
           client.listening,
           NEW c, c = UpdateState(client, "Online"), Becomes(ProcessTargetError(c))
    PROVE  IInv'
<1> DEFINE L == client.listeners
           error == [gets |-> L, snapshot |-> Nil]
<1>1. Sound(client, L, Due) /\ TrackerOK(client) /\ L \in SUBSET Gets
  BY StartsSound
<1>2. /\ client' \in Clients /\ client'.posts = <<>>
      /\ SameStore(client, client') /\ TrackerOK(client')
      /\ client'.stream = client.stream /\ client'.requests = client.requests
      /\ client'.target = NewTargetState
      /\ ~ client'.listening /\ client'.view = Nil /\ client'.snapshot = Nil
      /\ client'.listeners = {} /\ client'.raised = {}
      /\ \E p \in Seq(Batches(L, Due)) :
            main' = main \o p \/ main' = main \o Append(p, error)
  BY <1>1, ErrorEffect
<1>3. Posted(L)
  <2>1. PICK p \in Seq(Batches(L, Due)) : main' = main \o p \/ main' = main \o Append(p, error)
    BY <1>2
  <2>2. Batches(L, Due) \subseteq Batches(L, Due \cup {Nil}) /\ error \in Batches(L, Due \cup {Nil})
    BY DEF Batches
  <2>3. p \in Seq(Batches(L, Due \cup {Nil}))
    BY <2>2, SeqMonotonic
  <2>4. ASSUME NEW i \in DOMAIN p PROVE p[i].snapshot # Nil
    <3>1. p[i] \in Batches(L, Due)
      BY LenProperties, ElementOfSeq
    <3>2. p[i].snapshot \in Snapshots
      BY <3>1 DEF Batches, Due
    <3> QED
      BY <3>2, NilRecordAssumption
  <2> HIDE DEF error
  <2>5. /\ Append(p, error) \in Seq(Batches(L, Due \cup {Nil}))
        /\ Len(p) \in Nat /\ DOMAIN p = 1..Len(p)
        /\ DOMAIN Append(p, error) = 1..(Len(p) + 1)
        /\ \A i \in 1..Len(p) : Append(p, error)[i] = p[i]
    BY <2>2, <2>3
  <2>6. \A i, j \in DOMAIN Append(p, error) : i < j => Append(p, error)[i].snapshot # Nil
    BY <2>4, <2>5
  <2> QED
    BY <2>1, <2>3, <2>4, <2>5, <2>6 DEF Posted
<1>4. L \subseteq client.listeners \cup Adds /\ L \cap Adds' = {} /\ Adds' \subseteq Adds
  BY DEF IInv, GetsInv, Adds, Elements
<1>5. /\ worker' \in Seq(Tasks)
      /\ \A i, j \in DOMAIN worker' : worker'[i].type = "add" /\ worker'[j] = worker'[i] => i = j
      /\ fromServer \in Seq(Messages) /\ target' \in 0..watched /\ events' \in 0..MaxEvents
      /\ applied' \in Seq(Nat) /\ Len(applied') <= Len(client'.queue)
  BY <1>2 DEF IInv, TypeOK, GetsInv, SameStore
<1>6. fromServer' \in Seq(Messages) /\ WireInv'
  BY <1>2, MessageTaken
<1>7. /\ client'.listeners \subseteq L /\ client'.raised \subseteq client'.listeners
      /\ client'.snapshot \in Due \cup {Nil}
  BY <1>2
<1> HIDE DEF L
<1>8. TypeOK' /\ GetsInv' /\ AnsweredInv' /\ SinceInv'
  BY <1>1, <1>2, <1>3, <1>4, <1>5, <1>6, <1>7, NoReports, ClientStep
<1>9. InStep(client') /\ Linked(client')
  BY <1>2 DEF InStep, Linked, IsActiveTarget
<1> QED
  BY <1>2, <1>6, <1>8, <1>9, LinkedNext DEF IInv

LEMMA OnlyTargetItself ==
    ASSUME NEW c \in Clients
    PROVE  OnlyTarget(c, c)
BY DEF OnlyTarget, OnlyRemote, SameStore, SameTracker, SameViews

LEMMA OnWatchStreamChangeStep == IInv /\ OnWatchStreamChange => IInv'
<1> SUFFICES ASSUME IInv, OnWatchStreamChange PROVE IInv'
  OBVIOUS
<1> DEFINE msg == Head(fromServer)
<1>1. /\ fromServer # <<>> /\ fromServer' = Tail(fromServer)
      /\ UNCHANGED <<worker, appVars, log, applied, watched, target, refusing, events>>
  BY DEF OnWatchStreamChange
<1>2. PICK c : c = UpdateState(client, "Online") /\ Becomes(WatchChange(c, msg))
  BY DEF OnWatchStreamChange
<1>3. fromServer \in Seq(Messages) /\ msg \in Messages /\ msg \in Elements(fromServer)
  BY <1>1, ElementsOfTail, HeadTailProperties DEF IInv, TypeOK
<1>4. /\ SameRemote(client, c) /\ c \in Clients /\ Tracks(client, c)
      /\ IsActiveTarget(c) <=> IsActiveTarget(client)
  BY <1>2, StartsSound, OnlineFacts DEF Sound, Tells
<1>5. refusing <=> msg.type = "refused"
  BY <1>3 DEF IInv, WireInv
<1>6. ASSUME IsReply(msg) PROVE c.target.outstanding_responses > 0
  <2>1. ~ refusing
    BY <1>5, <1>6 DEF IsReply
  <2>2. Cardinality(Replies(Tail(fromServer))) + 1 <= Cardinality(Replies(fromServer))
    BY <1>1, <1>3, <1>6, RepliesOfTail
  <2>3. Tail(fromServer) \in Seq(Messages)
    BY <1>1, <1>3
  <2>4. Cardinality(Replies(Tail(fromServer))) \in Nat /\ Cardinality(Replies(fromServer)) \in Nat
    BY <1>3, <2>3, RepliesFinite
  <2>5. /\ Len(client.requests) + Cardinality(Replies(fromServer)) <= client.target.outstanding_responses
        /\ Len(client.requests) \in Nat /\ client.target.outstanding_responses \in Nat
    BY <2>1, StartsSound, RequestsOf DEF IInv, WireInv
  <2>6. c.target = client.target
    BY <1>4 DEF SameRemote
  <2> QED
    BY <2>2, <2>4, <2>5, <2>6
<1>7. IsActiveTarget(c) /\ c.target.change = "modified" => client.view.synced
  BY <1>4 DEF SameRemote, IInv, AssertionsHold, IsActiveTarget
<1>8. c.target.outstanding_responses \in Nat
  BY <1>4, RequestsOf
<1>9. IsActiveTarget(c) => c.view.synced = client.view.synced
  BY <1>4, LinkedNow DEF Tracks, Keeps, Linked, IsActiveTarget
<1> HIDE DEF msg
<1>10. CASE msg.type = "added" \/ msg.type = "removed"
  <2>1. PICK d : d \in {TargetAdded(c), TargetRemoved(c)} /\ Becomes(d)
    BY <1>2, <1>10 DEF WatchChange
  <2>2. IsReply(msg)
    BY <1>10 DEF IsReply
  <2>3. /\ OnlyTarget(c, d)
        /\ d.target.outstanding_responses = c.target.outstanding_responses - 1
        /\ c.target.outstanding_responses = 1 => d.target.change = "none"
    BY <1>4, <1>6, <2>1, <2>2, TargetFacts
  <2>4. ~ (IsActiveTarget(d) /\ d.target.change = "modified")
    BY <1>8, <2>3 DEF IsActiveTarget
  <2>5. d.target.outstanding_responses =
           c.target.outstanding_responses - (IF IsReply(Head(fromServer)) THEN 1 ELSE 0)
    BY <2>2, <2>3 DEF msg
  <2> QED
    BY <1>1, <1>2, <2>1, <2>3, <2>4, <2>5, TargetStep
<1>11. CASE msg.type = "current"
  <2> DEFINE d == TargetCurrent(c)
  <2>1. Becomes(d)
    BY <1>2, <1>11 DEF WatchChange
  <2>2. /\ OnlyTarget(c, d) /\ d.target.outstanding_responses = c.target.outstanding_responses
        /\ d.target.change = c.target.change
    BY <1>4, TargetFacts
  <2> HIDE DEF d
  <2>3. IsActiveTarget(d) /\ d.target.change = "modified" => client.view.synced
    BY <1>7, <2>2 DEF IsActiveTarget, OnlyTarget
  <2>4. d.target.outstanding_responses =
           c.target.outstanding_responses - (IF IsReply(Head(fromServer)) THEN 1 ELSE 0)
    BY <1>8, <1>11, <2>2 DEF IsReply, msg
  <2> QED
    BY <1>1, <1>2, <2>1, <2>2, <2>3, <2>4, TargetStep
<1>12. CASE msg.type = "document"
  <2> DEFINE doc == [version |-> msg.version, has |-> msg.has]
             d == AddDocumentToTarget(c, doc)
  <2>1. Becomes(d) /\ d = AddDocumentToTarget(c, doc)
    BY <1>2, <1>12 DEF WatchChange
  <2>2. doc \in Documents
    BY <1>3, <1>12 DEF Messages, Documents
  <2> HIDE DEF d, doc
  <2>3. /\ OnlyTarget(c, d) /\ d.target.outstanding_responses = c.target.outstanding_responses
        /\ ~ IsActiveTarget(c) => d.target = c.target
        /\ IsActiveTarget(c) => d.target.change = IF c.view.synced THEN "modified" ELSE "added"
    BY <1>4, <2>1, <2>2, DocumentFacts
  <2>4. IsActiveTarget(d) /\ d.target.change = "modified" => client.view.synced
    BY <1>9, <2>3 DEF IsActiveTarget, OnlyTarget
  <2>5. d.target.outstanding_responses =
           c.target.outstanding_responses - (IF IsReply(Head(fromServer)) THEN 1 ELSE 0)
    BY <1>8, <1>12, <2>3 DEF IsReply, msg
  <2> QED
    BY <1>1, <1>2, <2>1, <2>3, <2>4, <2>5, TargetStep
<1>13. CASE msg.type = "snapshot"
  <2> DEFINE v == msg.version
  <2>1. v \in Nat /\ Becomes(RaiseWatchSnapshot(c, v)) /\ ~ IsReply(Head(fromServer))
    BY <1>2, <1>3, <1>13 DEF WatchChange, Messages, IsReply, msg
  <2> HIDE DEF v
  <2>2. CASE v < client.last_remote_snapshot
    <3>0. c.last_remote_snapshot = client.last_remote_snapshot
      BY <1>4 DEF Tracks, Keeps, SameStore
    <3>1. RaiseWatchSnapshot(c, v) = c
      BY <2>2, <3>0 DEF RaiseWatchSnapshot
    <3>2. OnlyTarget(c, c) /\ Becomes(c)
      BY <1>4, <2>1, <3>1, OnlyTargetItself
    <3>3. c.target.outstanding_responses =
             c.target.outstanding_responses - (IF IsReply(Head(fromServer)) THEN 1 ELSE 0)
      BY <1>8, <2>1
    <3> QED
      BY <1>1, <1>2, <1>7, <3>2, <3>3, TargetStep
  <2>3. CASE ~ (v < client.last_remote_snapshot)
    BY <1>1, <1>2, <2>1, <2>3, SnapshotStep
  <2> QED
    BY <2>2, <2>3
<1>14. CASE msg.type = "refused"
  <2>1. Becomes(ProcessTargetError(c)) /\ refusing
    BY <1>2, <1>5, <1>14 DEF WatchChange
  <2>2. CASE client.listening
    BY <1>1, <1>2, <2>1, <2>2, RefusedStep
  <2>3. CASE ~ client.listening
    <3>1. ProcessTargetError(c) = c
      BY <1>4, <2>3 DEF ProcessTargetError, SameRemote
    <3>2. OnlyTarget(c, c) /\ Becomes(c)
      BY <1>4, <2>1, <3>1, OnlyTargetItself
    <3>3. c.target.outstanding_responses =
             c.target.outstanding_responses - (IF IsReply(Head(fromServer)) THEN 1 ELSE 0)
      BY <1>8, <1>14 DEF IsReply, msg
    <3> QED
      BY <1>1, <1>2, <1>7, <3>2, <3>3, TargetStep
  <2> QED
    BY <2>2, <2>3
<1> QED
  BY <1>3, <1>10, <1>11, <1>12, <1>13, <1>14 DEF Messages

\* Steps that leave the client alone.
LEMMA ClientUnchanged ==
    ASSUME IInv, UNCHANGED client
    PROVE  AssertionsHold' /\ InStep(client)'
BY DEF IInv, AssertionsHold, IsActiveTarget, InStep

LEMMA GetDocumentStep == IInv /\ GetDocument => IInv'
<1> SUFFICES ASSUME IInv, GetDocument PROVE IInv'
  OBVIOUS
<1> DEFINE g == asked + 1
           task == [type |-> "add", get |-> g]
<1>1. /\ asked < MaxGets /\ asked' = g /\ alive' = alive \cup {g}
      /\ must' = [must EXCEPT ![g] = mine \cup seen]
      /\ worker' = Append(worker, task)
      /\ UNCHANGED <<client, main, muted, answer, wrote, mine, seen, refused, serverVars, events>>
  BY DEF GetDocument
<1>2. TypeOK /\ GetsInv /\ AnsweredInv /\ SinceInv /\ WireInv
  BY DEF IInv
<1>3. asked \in Nat /\ MaxGets \in Nat /\ g \in Gets /\ g \notin 1..asked /\ 1..asked \subseteq 1..g
      /\ g \in 1..g /\ g \in 0..MaxGets
  BY <1>1, <1>2, BoundsAssumption, SMTT(30) DEF TypeOK, Gets
<1>4. g \notin alive /\ g \notin Adds /\ g \notin client.listeners /\ \A e \in Elements(main) : g \notin e.gets
  BY <1>2, <1>3 DEF TypeOK, GetsInv
<1>5. task \in Tasks /\ task.type = "add" /\ task.get = g
  BY <1>3 DEF Tasks
<1> HIDE DEF task
<1>6. /\ worker' \in Seq(Tasks) /\ Adds' = Adds \cup {g}
      /\ \A i, j \in DOMAIN worker' : worker'[i].type = "add" /\ worker'[j] = worker'[i] => i = j
  BY <1>1, <1>4, <1>5, TaskAdded
<1> HIDE DEF g
<1>7. TypeOK'
  <2>1. OwnWrites \subseteq Writes /\ mine \cup seen \subseteq Writes
    BY <1>2, BoundsAssumption, SMTT(30) DEF TypeOK, OwnWrites, Writes, Creation
  <2>2. must' \in [Gets -> SUBSET Writes]
    BY <1>1, <1>2, <1>3, <2>1 DEF TypeOK
  <2>3. alive' \subseteq 1..g /\ muted \subseteq alive'
    BY <1>1, <1>2, <1>3 DEF TypeOK
  <2> QED
    BY <1>1, <1>2, <1>3, <1>6, <2>2, <2>3 DEF TypeOK, serverVars
<1>8. GetsInv'
  BY <1>1, <1>2, <1>4, <1>6 DEF GetsInv, Elements
<1>9. AnsweredInv'
  <2>1. answer' = answer /\ muted' = muted /\ client' = client /\ main' = main
    BY <1>1
  <2>2. ASSUME NEW h \in Gets, answer[h] # <<>> PROVE h \in 1..g /\ h \notin Adds'
    <3>1. h \in 1..asked /\ h \notin Adds
      BY <1>2, <2>2 DEF AnsweredInv
    <3> QED
      BY <1>3, <1>6, <3>1
  <2> QED
    BY <1>1, <1>2, <2>1, <2>2 DEF AnsweredInv, Elements
<1>10. SinceInv' /\ WireInv'
  BY <1>1, <1>2 DEF SinceInv, WireInv, serverVars, Elements, Replies
<1>11. AssertionsHold' /\ InStep(client)'
  BY <1>1, ClientUnchanged
<1> QED
  BY <1>7, <1>8, <1>9, <1>10, <1>11 DEF IInv

LEMMA WriteMutationsStep == IInv /\ WriteMutations => IInv'
<1> SUFFICES ASSUME IInv, WriteMutations PROVE IInv'
  OBVIOUS
<1> DEFINE w == wrote + 1
           task == [type |-> "write", write |-> w]
<1>1. /\ wrote < MaxWrites /\ wrote' = w /\ mine' = mine \cup {w}
      /\ worker' = Append(worker, task)
      /\ UNCHANGED <<client, main, muted, asked, alive, answer, must, seen, refused, serverVars, events>>
  BY DEF WriteMutations
<1>2. TypeOK /\ GetsInv /\ AnsweredInv /\ SinceInv /\ WireInv
  BY DEF IInv
<1>3. w \in OwnWrites /\ w \in 0..MaxWrites /\ mine' \subseteq 1..w
  <2>1. /\ wrote \in Nat /\ MaxWrites \in Nat
        /\ mine \subseteq 1..wrote
    BY <1>2, BoundsAssumption, SMTT(30) DEF TypeOK
  <2>2. w \in OwnWrites /\ w \in 0..MaxWrites /\ 1..wrote \subseteq 1..w /\ w \in 1..w
    BY <1>1, <2>1, SMTT(30) DEF OwnWrites
  <2> QED
    BY <1>1, <2>1, <2>2
<1>4. task \in Tasks /\ task.type # "add"
  BY <1>3 DEF Tasks
<1> HIDE DEF task, w
<1>5. /\ worker' \in Seq(Tasks) /\ Adds' = Adds
      /\ \A i, j \in DOMAIN worker' : worker'[i].type = "add" /\ worker'[j] = worker'[i] => i = j
  BY <1>1, <1>4, TaskAdded
<1>6. TypeOK'
  BY <1>1, <1>2, <1>3, <1>5 DEF TypeOK, serverVars
<1>7. GetsInv'
  BY <1>1, <1>2, <1>5 DEF GetsInv, Elements
<1>8. AnsweredInv'
  BY <1>1, <1>2, <1>5 DEF AnsweredInv, Elements
<1>9. SinceInv' /\ WireInv'
  BY <1>1, <1>2 DEF SinceInv, WireInv, serverVars, Elements, Replies
<1>10. AssertionsHold' /\ InStep(client)'
  BY <1>1, ClientUnchanged
<1> QED
  BY <1>6, <1>7, <1>8, <1>9, <1>10 DEF IInv

LEMMA ContentType ==
    ASSUME TypeOK, SinceInv, NEW v \in Nat, v <= Len(log)
    PROVE  ContentAt(v) \subseteq Writes
<1>1. Len(log) \in Nat
  BY DEF TypeOK
<1>2. \A i \in 2..v : i \in 2..Len(log)
  BY <1>1
<1> QED
  BY <1>2 DEF ContentAt, SinceInv

\* What is left of the main queue when g has been told: each batch is, but
\* for the first one without g, a batch of the old queue, m places further.
Origin(i, k, g) ==
    /\ k \in DOMAIN main
    /\ main'[i].snapshot = main[k].snapshot
    /\ main'[i].gets \subseteq main[k].gets
    /\ k = 1 => g \notin main'[i].gets

LEMMA EventTaken ==
    ASSUME main \in Seq(Events), main # <<>>, NEW g, g \in Head(main).gets, TakeEvent(g)
    PROVE  /\ main' \in Seq(Events) /\ Head(main) \in Events /\ Head(main) = main[1]
           /\ 1 \in DOMAIN main
           /\ \E m \in {0, 1} : \A i \in DOMAIN main' : i \in Nat /\ Origin(i, i + m, g)
<1>1. /\ Len(main) \in Nat /\ Len(main) > 0 /\ DOMAIN main = 1..Len(main)
      /\ Head(main) = main[1] /\ Head(main) \in Events /\ Tail(main) \in Seq(Events)
      /\ Len(Tail(main)) = Len(main) - 1
      /\ DOMAIN Tail(main) = 1..(Len(main) - 1)
      /\ \A i \in 1..(Len(main) - 1) : Tail(main)[i] = main[i + 1]
  OBVIOUS
<1>2. CASE Head(main).gets = {g}
  <2>1. main' = Tail(main)
    BY <1>2 DEF TakeEvent
  <2>2. \A i \in DOMAIN main' : i \in Nat /\ Origin(i, i + 1, g)
    BY <1>1, <2>1 DEF Origin
  <2> QED
    BY <1>1, <2>1, <2>2
<1>3. CASE Head(main).gets # {g}
  <2> DEFINE rest == [Head(main) EXCEPT !.gets = @ \ {g}]
  <2>1. main' = <<rest>> \o Tail(main)
    BY <1>3 DEF TakeEvent
  <2>2. /\ rest \in Events /\ rest.snapshot = Head(main).snapshot
        /\ rest.gets = Head(main).gets \ {g}
    BY <1>1 DEF Events
  <2> HIDE DEF rest
  <2>3. <<rest>> \in Seq(Events) /\ Len(<<rest>>) = 1 /\ <<rest>>[1] = rest
    BY <2>2
  <2>4. /\ main' \in Seq(Events) /\ Len(main') = Len(main) /\ DOMAIN main' = 1..Len(main)
        /\ \A i \in 1..Len(main) : main'[i] = IF i = 1 THEN rest ELSE Tail(main)[i - 1]
    <3> DEFINE one == <<rest>>
    <3>1. one \in Seq(Events) /\ Len(one) = 1 /\ one[1] = rest /\ main' = one \o Tail(main)
      BY <2>1, <2>3
    <3> HIDE DEF one
    <3>2. /\ main' \in Seq(Events) /\ Len(main') = Len(one) + Len(Tail(main))
          /\ \A i \in 1..(Len(one) + Len(Tail(main))) :
                main'[i] = IF i <= Len(one) THEN one[i] ELSE Tail(main)[i - Len(one)]
      <4> DEFINE t == Tail(main)
      <4>1. t \in Seq(Events) /\ main' = one \o t
        BY <1>1, <3>1
      <4> HIDE DEF t
      <4>2. /\ one \o t \in Seq(Events) /\ Len(one \o t) = Len(one) + Len(t)
            /\ \A i \in 1..(Len(one) + Len(t)) :
                  (one \o t)[i] = IF i <= Len(one) THEN one[i] ELSE t[i - Len(one)]
        BY ONLY <3>1, <4>1, ConcatProperties
      <4> QED
        BY ONLY <4>1, <4>2 DEF t
    <3>3. Len(one) + Len(Tail(main)) = Len(main)
      BY <1>1, <3>1
    <3>4. DOMAIN main' = 1..Len(main)
      BY <3>2, <3>3, LenProperties
    <3>5. ASSUME NEW i \in 1..Len(main) PROVE main'[i] = IF i = 1 THEN rest ELSE Tail(main)[i - 1]
      BY <1>1, <3>1, <3>2, <3>3
    <3> QED
      BY <3>2, <3>3, <3>4, <3>5
  <2>5. ASSUME NEW i \in DOMAIN main' PROVE i \in Nat /\ Origin(i, i + 0, g)
    <3>1. i \in DOMAIN main /\ i \in Nat /\ i + 0 = i
      BY <1>1, <2>4
    <3>2. CASE i = 1
      BY <1>1, <2>2, <2>4, <3>1, <3>2 DEF Origin
    <3>3. CASE i # 1
      <4>1. i - 1 \in 1..(Len(main) - 1) /\ (i - 1) + 1 = i
        BY <1>1, <3>1, <3>3
      <4>2. Tail(main)[i - 1] = main[i]
        BY <1>1, <4>1
      <4> QED
        BY <1>1, <2>4, <3>1, <3>3, <4>2 DEF Origin
    <3> QED
      BY <3>2, <3>3
  <2> QED
    BY <1>1, <2>4, <2>5
<1> QED
  BY <1>2, <1>3

LEMMA AnswerType ==
    ASSUME TypeOK, SinceInv, NEW g \in Gets, NEW s \in Snapshots \cup {Nil},
           s # Nil => s.since <= watched
    PROVE  Answer(g, s) \in Answers /\ (Answer(g, s).ok => s \in Snapshots)
<1>1. must[g] \subseteq Writes
  BY DEF TypeOK
<1>2. CASE ~ IsOk(s)
  BY <1>2 DEF Answer, Answers
<1>3. CASE IsOk(s)
  <2>1. s \in Snapshots /\ s.since \in Nat /\ s.since <= watched /\ watched \in Nat
        /\ watched <= Len(log) /\ Len(log) \in Nat
    BY <1>3 DEF IsOk, Snapshots, TypeOK
  <2>2. ContentAt(s.since) \subseteq Writes
    BY <2>1, ContentType
  <2> DEFINE lost == IF Found(s) THEN (must[g] \ refused) \ s.has ELSE must[g] \ OwnWrites
             stale == IF s.from_cache \/ ~ s.settled THEN {} ELSE ContentAt(s.since) \ s.has
  <2>3. lost \subseteq Writes /\ stale \subseteq Writes
    BY <1>1, <2>2
  <2>4. Answer(g, s) = [ok |-> TRUE, lost |-> lost, stale |-> stale]
    BY <1>3 DEF Answer
  <2> HIDE DEF lost, stale
  <2> QED
    BY <2>1, <2>3, <2>4 DEF Answers
<1> QED
  BY <1>2, <1>3

LEMMA OnEventStep == IInv /\ OnEvent => IInv'
<1> SUFFICES ASSUME IInv, OnEvent PROVE IInv'
  OBVIOUS
<1> DEFINE snapshot == Head(main).snapshot
<1>1. PICK g \in Head(main).gets :
         /\ TakeEvent(g)
         /\ \/ g \in muted /\ UNCHANGED <<answer, must, seen, muted, worker>>
            \/ /\ g \notin muted
               /\ answer' = [answer EXCEPT ![g] = Append(@, Answer(g, snapshot))]
               /\ must' = [must EXCEPT ![g] = {}]
               /\ seen' = IF Answer(g, snapshot).ok THEN seen \cup snapshot.has ELSE seen
               /\ muted' = IF snapshot = Nil THEN muted ELSE muted \cup {g}
               /\ worker' = IF snapshot = Nil THEN worker
                            ELSE Append(worker, [type |-> "remove", get |-> g])
  BY DEF OnEvent
<1>2. main # <<>> /\ UNCHANGED <<client, asked, alive, wrote, mine, refused, serverVars, events>>
  BY DEF OnEvent
<1>3. TypeOK /\ GetsInv /\ AnsweredInv /\ SinceInv /\ WireInv
  BY DEF IInv
<1>4. /\ main' \in Seq(Events) /\ Head(main) \in Events /\ Head(main) = main[1]
      /\ 1 \in DOMAIN main /\ main \in Seq(Events)
      /\ \E m \in {0, 1} : \A i \in DOMAIN main' : i \in Nat /\ Origin(i, i + m, g)
  BY <1>1, <1>2, <1>3, EventTaken DEF TypeOK
<1>5. PICK m \in {0, 1} : \A i \in DOMAIN main' : i \in Nat /\ Origin(i, i + m, g)
  BY <1>4
<1>6. g \in Gets /\ snapshot \in Snapshots \cup {Nil} /\ Head(main) \in Elements(main)
  BY <1>1, <1>4 DEF Events, Elements
<1>7. g \in alive /\ g \notin Adds
  BY <1>1, <1>3, <1>6 DEF GetsInv
<1>8. Answer(g, snapshot) \in Answers /\ (Answer(g, snapshot).ok => snapshot \in Snapshots)
  BY <1>3, <1>6, AnswerType DEF SinceInv
<1> DEFINE a == Answer(g, snapshot)
           task == [type |-> "remove", get |-> g]
<1>9. task \in Tasks /\ task.type # "add"
  BY <1>6 DEF Tasks
<1>10. worker' = worker \/ worker' = Append(worker, task)
  BY <1>1
<1> HIDE DEF a, task, snapshot
<1>11. /\ worker' \in Seq(Tasks) /\ Adds' = Adds
       /\ \A i, j \in DOMAIN worker' : worker'[i].type = "add" /\ worker'[j] = worker'[i] => i = j
  <2>1. CASE worker' = worker
    BY <1>3, <2>1 DEF TypeOK, GetsInv, Adds, Elements
  <2>2. CASE worker' = Append(worker, task)
    BY <1>9, <2>2, TaskAdded
  <2> QED
    BY <1>10, <2>1, <2>2
<1>12. \A e \in Elements(main') : \E f \in Elements(main) : e.gets \subseteq f.gets /\ e.snapshot = f.snapshot
  BY <1>5 DEF Elements, Origin
<1>13. TypeOK'
  <2>1. CASE g \in muted /\ UNCHANGED <<answer, must, seen, muted>>
    BY <1>2, <1>3, <1>4, <1>11, <2>1 DEF TypeOK, serverVars
  <2>2. CASE /\ answer' = [answer EXCEPT ![g] = Append(@, a)]
             /\ must' = [must EXCEPT ![g] = {}]
             /\ seen' = IF a.ok THEN seen \cup snapshot.has ELSE seen
             /\ muted' = IF snapshot = Nil THEN muted ELSE muted \cup {g}
    <3>1. answer' \in [Gets -> Seq(Answers)]
      <4>1. answer \in [Gets -> Seq(Answers)] /\ a \in Answers
        BY <1>3, <1>8 DEF TypeOK, a
      <4>2. Append(answer[g], a) \in Seq(Answers)
        BY <1>6, <4>1
      <4> QED
        BY <1>6, <2>2, <4>1, <4>2
    <3>2. must' \in [Gets -> SUBSET Writes]
      <4> DEFINE none == {}
      <4>1. must \in [Gets -> SUBSET Writes] /\ none \in SUBSET Writes /\ must' = [must EXCEPT ![g] = none]
        BY <1>3, <2>2 DEF TypeOK
      <4> HIDE DEF none
      <4> QED
        BY <1>6, <4>1
    <3>3. a.ok => snapshot.has \subseteq Writes
      BY <1>8 DEF a, Snapshots
    <3>4. seen' \subseteq Writes
      BY <1>3, <2>2, <3>3 DEF TypeOK
    <3>5. muted' \subseteq alive
      BY <1>3, <1>7, <2>2 DEF TypeOK
    <3> QED
      BY <1>2, <1>3, <1>4, <1>11, <3>1, <3>2, <3>4, <3>5 DEF TypeOK, serverVars
  <2> QED
    BY <1>1, <2>1, <2>2 DEF a
<1>14. GetsInv'
  BY <1>2, <1>3, <1>11, <1>12 DEF GetsInv
<1>15. AnsweredInv'
  <2>1. ASSUME NEW i \in DOMAIN main', NEW j \in DOMAIN main', i < j, main'[i].snapshot = Nil
        PROVE  main'[i].gets \cap main'[j].gets = {}
    <3>1. Origin(i, i + m, g) /\ Origin(j, j + m, g) /\ i + m < j + m
      BY <1>5, <2>1
    <3>2. main[i + m].gets \cap main[j + m].gets = {}
      BY <1>3, <2>1, <3>1 DEF AnsweredInv, Origin
    <3> QED
      BY <3>1, <3>2 DEF Origin
  <2>2. ASSUME NEW e \in Elements(main'), e.snapshot = Nil PROVE e.gets \cap client.listeners = {}
    BY <1>3, <1>12, <2>2 DEF AnsweredInv
  <2>3. ASSUME NEW h \in Gets, answer'[h] # <<>>
        PROVE  /\ h \in 1..asked /\ h \notin Adds
               /\ \/ h \in muted'
                  \/ h \notin client.listeners /\ \A e \in Elements(main') : h \notin e.gets
    <3>1. muted \subseteq muted' /\ g \in 1..asked
      BY <1>1, <1>3, <1>7 DEF TypeOK
    <3>2. CASE answer[h] # <<>>
      BY <1>3, <1>12, <3>1, <3>2 DEF AnsweredInv
    <3>3. CASE answer[h] = <<>>
      <4>1. h = g
        BY <1>1, <1>3, <2>3, <3>3 DEF TypeOK
      <4>2. CASE snapshot # Nil
        BY <1>1, <1>3, <1>7, <2>3, <3>1, <3>3, <4>1, <4>2 DEF TypeOK, snapshot
      <4>3. CASE snapshot = Nil
        <5>1. g \notin client.listeners
          BY <1>1, <1>3, <1>6, <4>3 DEF AnsweredInv, snapshot
        <5>2. ASSUME NEW i \in DOMAIN main' PROVE g \notin main'[i].gets
          <6>1. Origin(i, i + m, g) /\ i + m \in DOMAIN main
            BY <1>5 DEF Origin
          <6>2. CASE i + m = 1
            BY <6>1, <6>2 DEF Origin
          <6>3. CASE i + m # 1
            <7>1. 1 < i + m
              BY <1>4, <6>1, <6>3
            <7>2. main[1].gets \cap main[i + m].gets = {}
              BY <1>3, <1>4, <4>3, <6>1, <7>1 DEF AnsweredInv, snapshot
            <7> QED
              BY <1>1, <1>4, <6>1, <7>2 DEF Origin
          <6> QED
            BY <6>2, <6>3
        <5>3. \A e \in Elements(main') : g \notin e.gets
          BY <5>2 DEF Elements
        <5> QED
          BY <1>7, <3>1, <4>1, <5>1, <5>3
      <4> QED
        BY <4>2, <4>3
    <3> QED
      BY <3>2, <3>3
  <2> QED
    BY <1>2, <1>11, <2>1, <2>2, <2>3 DEF AnsweredInv
<1>16. SinceInv'
  <2>1. \A e \in Elements(main') : e.snapshot # Nil => e.snapshot.since <= watched
    BY <1>3, <1>12 DEF SinceInv
  <2> QED
    BY <1>2, <1>3, <2>1 DEF SinceInv, serverVars
<1>17. WireInv'
  BY <1>2, <1>3 DEF WireInv, serverVars, Elements, Replies
<1>18. AssertionsHold' /\ InStep(client)'
  BY <1>2, ClientUnchanged
<1> QED
  BY <1>13, <1>14, <1>15, <1>16, <1>17, <1>18 DEF IInv

LEMMA LogGrows ==
    ASSUME IInv, NEW w \in Writes, log' = Append(log, w),
           UNCHANGED <<client, worker, main, appVars, watched, target, refusing, fromServer>>,
           events' \in 0..MaxEvents, applied' \in Seq(Nat), Len(applied') <= Len(client.queue)
    PROVE  IInv'
<1>1. TypeOK /\ GetsInv /\ AnsweredInv /\ SinceInv /\ WireInv
  BY DEF IInv
<1>2. /\ log \in Seq(Writes \cup {NoDocument}) /\ Len(log) \in Nat
      /\ log' \in Seq(Writes \cup {NoDocument}) /\ Len(log') = Len(log) + 1
      /\ DOMAIN log = 1..Len(log) /\ DOMAIN log' = 1..(Len(log) + 1)
      /\ \A i \in 1..Len(log) : log'[i] = log[i]
      /\ log'[Len(log) + 1] = w
  BY <1>1 DEF TypeOK
<1>3. watched' \in DOMAIN log'
  BY <1>1, <1>2 DEF TypeOK
<1>4. \A i \in 2..Len(log') : log'[i] \in Writes
  <2>1. ASSUME NEW i \in 2..Len(log') PROVE log'[i] \in Writes
    <3>1. CASE i \in 2..Len(log)
      BY <1>1, <1>2, <3>1 DEF SinceInv
    <3>2. CASE i = Len(log) + 1
      BY <1>2, <3>2
    <3> QED
      BY <1>2, <3>1, <3>2
  <2> QED
    BY <2>1
<1>5. TypeOK'
  BY <1>1, <1>2, <1>3 DEF TypeOK, appVars
<1>6. GetsInv' /\ AnsweredInv'
  BY <1>1 DEF GetsInv, AnsweredInv, Adds, Elements, appVars
<1>7. SinceInv'
  BY <1>1, <1>4 DEF SinceInv, Elements
<1>8. WireInv'
  BY <1>1 DEF WireInv, Elements, Replies
<1> QED
  BY <1>5, <1>6, <1>7, <1>8, ClientUnchanged DEF IInv

LEMMA ServerCommitStep == IInv /\ ServerCommit => IInv'
<1> SUFFICES ASSUME IInv, ServerCommit PROVE IInv'
  OBVIOUS
<1> DEFINE w == client.queue[Len(applied) + 1]
           v == Len(log) + 1
<1>1. /\ Len(applied) < Len(client.queue) /\ log' = Append(log, w)
      /\ applied' = Append(applied, v)
      /\ UNCHANGED <<client, worker, main, appVars, watched, target, refusing, fromServer, events>>
  BY DEF ServerCommit
<1>2. /\ applied \in Seq(Nat) /\ client.queue \in Seq(OwnWrites) /\ Len(applied) \in Nat
      /\ Len(client.queue) \in Nat /\ v \in Nat
  BY SMTT(30) DEF IInv, TypeOK, Clients
<1>3. Len(applied) + 1 \in 1..Len(client.queue)
  BY <1>1, <1>2
<1>4. w \in OwnWrites
  BY <1>2, <1>3, ElementOfSeq
<1>5. w \in Writes
  BY <1>4, BoundsAssumption, SMTT(30) DEF OwnWrites, Writes, Creation
<1> HIDE DEF w, v
<1>6. applied' \in Seq(Nat) /\ Len(applied') = Len(applied) + 1
  BY <1>1, <1>2
<1>7. Len(applied') <= Len(client.queue)
  BY <1>1, <1>2, <1>6
<1>8. events' \in 0..MaxEvents
  BY <1>1 DEF IInv, TypeOK
<1> QED
  BY <1>1, <1>5, <1>6, <1>7, <1>8, LogGrows

LEMMA ServerRefuseStep == IInv /\ ServerRefuse => IInv'
<1> SUFFICES ASSUME IInv, ServerRefuse PROVE IInv'
  OBVIOUS
<1>1. /\ Len(applied) < Len(client.queue) /\ applied' = Append(applied, Refusal)
      /\ UNCHANGED <<client, worker, main, appVars, log, watched, target, refusing, fromServer,
                     events>>
  BY DEF ServerRefuse
<1>2. TypeOK /\ GetsInv /\ AnsweredInv /\ SinceInv /\ WireInv
  BY DEF IInv
<1>3. /\ applied \in Seq(Nat) /\ client.queue \in Seq(OwnWrites) /\ Len(applied) \in Nat
      /\ Len(client.queue) \in Nat /\ Refusal \in Nat
  BY <1>2, SMTT(30) DEF TypeOK, Clients, Refusal
<1>4. applied' \in Seq(Nat) /\ Len(applied') = Len(applied) + 1
  BY <1>1, <1>3
<1>5. Len(applied') <= Len(client.queue)
  BY <1>1, <1>3, <1>4
<1>6. TypeOK'
  BY <1>1, <1>2, <1>4, <1>5 DEF TypeOK, appVars
<1>7. GetsInv' /\ AnsweredInv'
  BY <1>1, <1>2 DEF GetsInv, AnsweredInv, Adds, Elements, appVars
<1>8. SinceInv' /\ WireInv'
  BY <1>1, <1>2 DEF SinceInv, WireInv, Elements, Replies
<1> QED
  BY <1>1, <1>6, <1>7, <1>8, ClientUnchanged DEF IInv

LEMMA ForeignWriteStep == IInv /\ ForeignWrite => IInv'
<1> SUFFICES ASSUME IInv, ForeignWrite PROVE IInv'
  OBVIOUS
<1> DEFINE w == MaxWrites + events
<1>1. /\ events > 0 /\ log' = Append(log, w) /\ External
      /\ UNCHANGED <<client, worker, main, appVars, applied, watched, target, refusing, fromServer>>
  BY DEF ForeignWrite, External
<1>2. w \in Writes
  BY <1>1, BoundsAssumption, SMTT(30) DEF IInv, TypeOK, Writes, Creation
<1>3. applied' \in Seq(Nat) /\ Len(applied') <= Len(client.queue)
  BY <1>1 DEF IInv, TypeOK
<1> HIDE DEF w
<1> QED
  BY <1>1, <1>2, <1>3, ExternalType, LogGrows

LEMMA WatchAdvanceStep == IInv /\ WatchAdvance => IInv'
<1> SUFFICES ASSUME IInv, WatchAdvance PROVE IInv'
  OBVIOUS
<1>1. /\ watched < Len(log) /\ watched' = watched + 1
      /\ UNCHANGED <<client, worker, main, appVars, log, applied, target, refusing, fromServer, events>>
  BY DEF WatchAdvance
<1>2. TypeOK /\ GetsInv /\ AnsweredInv /\ SinceInv /\ WireInv
  BY DEF IInv
<1>3. watched \in Nat /\ Len(log) \in Nat /\ watched' \in DOMAIN log' /\ target' \in 0..watched'
  BY <1>1, <1>2 DEF TypeOK
<1>4. TypeOK'
  BY <1>1, <1>2, <1>3 DEF TypeOK, appVars
<1>5. GetsInv' /\ AnsweredInv'
  BY <1>1, <1>2 DEF GetsInv, AnsweredInv, Adds, Elements, appVars
<1>6. SinceInv'
  <2>1. \A n \in Nat : n <= watched => n <= watched'
    BY <1>1, <1>3
  <2>2. client.view # Nil => client.view.since \in Nat
    BY <1>2 DEF TypeOK, Clients, Views
  <2>3. client.snapshot # Nil => client.snapshot.since \in Nat
    BY <1>2 DEF TypeOK, Clients, Snapshots
  <2>4. ASSUME NEW e \in Elements(main), e.snapshot # Nil PROVE e.snapshot.since \in Nat
    <3>1. e \in Events
      BY <1>2, LenProperties, ElementOfSeq DEF TypeOK, Elements
    <3> QED
      BY <2>4, <3>1 DEF Events, Snapshots
  <2> QED
    BY <1>1, <1>2, <2>1, <2>2, <2>3, <2>4 DEF SinceInv, Elements
<1>7. WireInv'
  BY <1>1, <1>2 DEF WireInv, Elements, Replies
<1> QED
  BY <1>1, <1>4, <1>5, <1>6, <1>7, ClientUnchanged DEF IInv

LEMMA ServerMessages ==
    ASSUME TypeOK, SinceInv
    PROVE  /\ DocumentMessage \in Messages /\ SnapshotMessage \in Messages
           /\ DocumentMessage.type = "document" /\ SnapshotMessage.type = "snapshot"
<1>1. watched \in Nat /\ watched <= Len(log)
  BY DEF TypeOK
<1>2. ContentAt(watched) \subseteq Writes
  BY <1>1, ContentType
<1> QED
  BY <1>1, <1>2 DEF DocumentMessage, SnapshotMessage, Messages

LEMMA ServerUpdateStep == IInv /\ ServerUpdate => IInv'
<1> SUFFICES ASSUME IInv, ServerUpdate PROVE IInv'
  OBVIOUS
<1> DEFINE t == <<DocumentMessage, SnapshotMessage>>
<1>1. /\ target > 0 /\ fromServer' = fromServer \o t /\ target' = watched
      /\ UNCHANGED <<client, worker, main, appVars, log, applied, watched, refusing, events>>
  BY DEF ServerUpdate
<1>2. TypeOK /\ GetsInv /\ AnsweredInv /\ SinceInv /\ WireInv
  BY DEF IInv
<1>3. ~ refusing /\ IsOpen(client.stream) /\ fromServer \in Seq(Messages)
  BY <1>1, <1>2 DEF WireInv, TypeOK
<1>4. /\ DocumentMessage \in Messages /\ SnapshotMessage \in Messages
      /\ DocumentMessage.type = "document" /\ SnapshotMessage.type = "snapshot"
  BY <1>2, ServerMessages
<1>5. /\ t \in Seq(Messages) /\ DOMAIN t = {1, 2} /\ t[1].type = "document" /\ t[2].type = "snapshot"
      /\ Elements(t) = {t[1], t[2]}
  <2>1. t \in Seq(Messages) /\ t[1].type = "document" /\ t[2].type = "snapshot" /\ DOMAIN t = 1..2
    BY <1>4
  <2>2. DOMAIN t = {1, 2}
    BY <2>1
  <2> QED
    BY <2>1, <2>2 DEF Elements
<1> HIDE DEF t
<1>6. fromServer' \in Seq(Messages) /\ Elements(fromServer') = Elements(fromServer) \cup Elements(t)
  BY <1>1, <1>3, <1>5, ConcatProperties, ElementsOfConcat
<1>7. \A i \in DOMAIN t : ~ IsReply(t[i])
  BY <1>5 DEF IsReply
<1>8. Cardinality(Replies(fromServer')) <= Cardinality(Replies(fromServer))
  BY <1>1, <1>3, <1>5, <1>7, RepliesOfConcat
<1>9. /\ Cardinality(Replies(fromServer')) \in Nat /\ Cardinality(Replies(fromServer)) \in Nat
      /\ Len(client.requests) \in Nat /\ client.target.outstanding_responses \in Nat
  BY <1>3, <1>6, RepliesFinite, StartsSound, RequestsOf
<1>10. Len(client.requests) + Cardinality(Replies(fromServer'))
          <= client.target.outstanding_responses
  <2>1. Len(client.requests) + Cardinality(Replies(fromServer))
          <= client.target.outstanding_responses
    BY <1>2, <1>3 DEF WireInv
  <2> QED
    BY <1>8, <1>9, <2>1
<1>11. WireInv'
  BY <1>1, <1>2, <1>3, <1>5, <1>6, <1>10 DEF WireInv
<1>12. TypeOK'
  <2>1. target' \in 0..watched
    BY <1>1, <1>2 DEF TypeOK
  <2> QED
    BY <1>1, <1>2, <1>6, <2>1 DEF TypeOK, appVars
<1>13. GetsInv' /\ AnsweredInv' /\ SinceInv'
  BY <1>1, <1>2, SMTT(30) DEF GetsInv, AnsweredInv, SinceInv, Adds, Elements, appVars
<1> QED
  BY <1>1, <1>11, <1>12, <1>13, ClientUnchanged DEF IInv

LEMMA WatchReplyFacts ==
    ASSUME TypeOK, SinceInv, NEW token \in Nat, NEW t, t = WatchReply(token)
    PROVE  /\ t \in Seq(Messages)
           /\ refusing => \A m \in Elements(t) : m.type = "refused"
           /\ ~ refusing => \A m \in Elements(t) : m.type # "refused"
           /\ \A i \in DOMAIN t : i > 1 => ~ IsReply(t[i])
<1>1. CASE refusing
  <2>1. t = <<[type |-> "refused"]>> /\ [type |-> "refused"] \in Messages
    BY <1>1 DEF WatchReply, Messages
  <2>2. t \in Seq(Messages) /\ DOMAIN t = {1} /\ t[1].type = "refused"
    BY <2>1
  <2> QED
    BY <1>1, <2>2 DEF Elements
<1>2. CASE ~ refusing
  <2> DEFINE x == <<[type |-> "added"]>>
             y == IF watched > 1 /\ watched > token THEN <<DocumentMessage>> ELSE <<>>
             z == <<[type |-> "current"], SnapshotMessage>>
             Later == {m \in Messages : m.type \in {"document", "current", "snapshot"}}
  <2>1. t = (x \o y) \o z
    BY <1>2 DEF WatchReply
  <2>2. /\ DocumentMessage \in Later /\ SnapshotMessage \in Later
        /\ [type |-> "current"] \in Later /\ [type |-> "added"] \in Messages
    BY ServerMessages DEF Messages
  <2>3. Later \subseteq Messages
    OBVIOUS
  <2> HIDE DEF Later
  <2>4. /\ x \in Seq(Messages) /\ Len(x) = 1 /\ x[1] = [type |-> "added"]
        /\ y \in Seq(Later) /\ z \in Seq(Later) /\ Len(y) \in Nat /\ Len(z) \in Nat
    BY <2>2
  <2> HIDE DEF x, y, z
  <2>5. y \in Seq(Messages) /\ z \in Seq(Messages)
    BY <2>3, <2>4, SeqMonotonic
  <2>6. /\ \A i \in 1..Len(y) : y[i] \in Later
        /\ \A i \in 1..Len(z) : z[i] \in Later
    BY <2>4, ElementOfSeq
  <2>7. /\ x \o y \in Seq(Messages) /\ Len(x \o y) = 1 + Len(y)
        /\ \A i \in 1..(1 + Len(y)) : (x \o y)[i] = IF i <= 1 THEN x[i] ELSE y[i - 1]
    <3>1. /\ x \o y \in Seq(Messages) /\ Len(x \o y) = Len(x) + Len(y)
          /\ \A i \in 1..(Len(x) + Len(y)) : (x \o y)[i] = IF i <= Len(x) THEN x[i] ELSE y[i - Len(x)]
      BY <2>4, <2>5, ConcatProperties
    <3> QED
      BY ONLY <2>4, <3>1
  <2> DEFINE u == x \o y
  <2>8. u \in Seq(Messages) /\ Len(u) \in Nat /\ Len(u) >= 1 /\ u[1] = [type |-> "added"]
    BY <2>4, <2>7
  <2>9. \A i \in 1..Len(u) : i > 1 => u[i] \in Later
    <3>1. SUFFICES ASSUME NEW i \in 1..(1 + Len(y)), i > 1 PROVE u[i] \in Later
      BY <2>7
    <3>2. i - 1 \in 1..Len(y) /\ ~ (i <= 1)
      BY <2>4, <3>1
    <3> QED
      BY <2>6, <2>7, <3>2
  <2>10. t = u \o z
    BY <2>1
  <2> HIDE DEF u
  <2>11. /\ t \in Seq(Messages) /\ Len(t) = Len(u) + Len(z) /\ DOMAIN t = 1..(Len(u) + Len(z))
         /\ \A i \in 1..(Len(u) + Len(z)) : t[i] = IF i <= Len(u) THEN u[i] ELSE z[i - Len(u)]
    BY <2>5, <2>8, <2>10, ConcatProperties, LenProperties
  <2>12. ASSUME NEW i \in DOMAIN t, i > 1 PROVE t[i] \in Later
    <3>1. CASE i <= Len(u)
      BY <2>8, <2>9, <2>11, <2>12, <3>1
    <3>2. CASE ~ (i <= Len(u))
      <4>1. i - Len(u) \in 1..Len(z)
        BY <2>4, <2>8, <2>11, <3>2
      <4> QED
        BY <2>6, <2>11, <3>2, <4>1
    <3> QED
      BY <3>1, <3>2
  <2>13. 1 \in DOMAIN t /\ t[1] = [type |-> "added"]
    BY <2>4, <2>8, <2>11
  <2>14. \A m \in Later : ~ IsReply(m) /\ m.type # "refused"
    BY DEF Later, IsReply
  <2>15. ASSUME NEW i \in DOMAIN t PROVE t[i].type # "refused"
    <3>1. i = 1 \/ i > 1
      BY <2>8, <2>11, <2>4
    <3> QED
      BY <2>12, <2>13, <2>14, <3>1
  <2> QED
    BY <1>2, <2>11, <2>12, <2>14, <2>15 DEF Elements
<1> QED
  BY <1>1, <1>2

LEMMA ServerHandleStep == IInv /\ ServerHandle => IInv'
<1> SUFFICES ASSUME IInv, ServerHandle PROVE IInv'
  OBVIOUS
<1> DEFINE request == Head(client.requests)
           requests == Tail(client.requests)
<1>1. /\ client.requests # <<>> /\ client' = [client EXCEPT !.requests = requests]
      /\ UNCHANGED <<worker, main, appVars, log, applied, watched, refusing, events>>
      /\ \/ /\ request.type = "watch"
            /\ fromServer' = fromServer \o WatchReply(request.resume_token)
            /\ target' = IF refusing THEN 0 ELSE watched
         \/ /\ request.type = "unwatch"
            /\ fromServer' = IF target = 0 THEN fromServer ELSE Append(fromServer, [type |-> "removed"])
            /\ target' = 0
  BY DEF ServerHandle
<1>2. TypeOK /\ GetsInv /\ AnsweredInv /\ SinceInv /\ WireInv /\ InStep(client) /\ AssertionsHold
  BY DEF IInv
<1>3. client \in Clients /\ client.requests \in Seq(Requests) /\ fromServer \in Seq(Messages)
      /\ watched \in Nat
  BY <1>2, SMTT(30) DEF TypeOK, Clients
<1>4. /\ request \in Requests /\ requests \in Seq(Requests)
      /\ Len(requests) = Len(client.requests) - 1 /\ Len(client.requests) \in Nat
  BY <1>1, <1>3
<1> HIDE DEF requests, request
<1>5. /\ client' \in Clients /\ client'.requests = requests
  BY <1>1, <1>3, <1>4 DEF Clients
<1>6. /\ SameStore(client, client') /\ SameTracker(client, client') /\ SameViews(client, client')
      /\ client'.listening = client.listening /\ client'.target = client.target
      /\ client'.update = client.update /\ client'.stream = client.stream
  BY <1>1, <1>3 DEF Clients, SameStore, SameTracker, SameViews
<1>7. IsOpen(client.stream)
  BY <1>1, <1>2 DEF WireInv
\* What the server sends.
<1>8. PICK t \in Seq(Messages) :
         /\ fromServer' = fromServer \o t
         /\ refusing => \A m \in Elements(t) : m.type = "refused"
         /\ ~ refusing => \A m \in Elements(t) : m.type # "refused"
         /\ \A i \in DOMAIN t : i > 1 => ~ IsReply(t[i])
  <2>1. CASE request.type = "watch" /\ fromServer' = fromServer \o WatchReply(request.resume_token)
    <3>1. request.resume_token \in Nat
      BY <1>4, <2>1 DEF Requests
    <3> DEFINE t == WatchReply(request.resume_token)
    <3>2. t = WatchReply(request.resume_token) /\ fromServer' = fromServer \o t
      BY <2>1
    <3> HIDE DEF t
    <3>3. /\ t \in Seq(Messages)
          /\ refusing => \A m \in Elements(t) : m.type = "refused"
          /\ ~ refusing => \A m \in Elements(t) : m.type # "refused"
          /\ \A i \in DOMAIN t : i > 1 => ~ IsReply(t[i])
      BY <1>2, <3>1, <3>2, WatchReplyFacts
    <3> QED
      BY <3>2, <3>3
  <2>2. CASE target = 0 /\ fromServer' = fromServer
    <3> DEFINE t == <<>>
    <3>1. fromServer' = fromServer \o t /\ t \in Seq(Messages)
      BY <1>3, <2>2, ConcatEmptySeq
    <3>2. DOMAIN t = {}
      OBVIOUS
    <3> HIDE DEF t
    <3> QED
      BY <3>1, <3>2 DEF Elements
  <2>3. CASE target # 0 /\ fromServer' = Append(fromServer, [type |-> "removed"])
    <3> DEFINE m == [type |-> "removed"]
               t == <<m>>
    <3>1. m \in Messages /\ m.type # "refused"
      BY DEF Messages
    <3>2. ~ refusing
      BY <1>2, <2>3 DEF WireInv
    <3> HIDE DEF m
    <3>3. t \in Seq(Messages) /\ DOMAIN t = {1} /\ t[1] = m
      BY <3>1
    <3>4. fromServer' = fromServer \o t
      BY <1>3, <2>3, <3>1 DEF m
    <3> HIDE DEF t
    <3> QED
      BY <3>1, <3>2, <3>3, <3>4 DEF Elements
  <2> QED
    BY <1>1, <2>1, <2>2, <2>3
<1>9. fromServer' \in Seq(Messages) /\ Elements(fromServer') = Elements(fromServer) \cup Elements(t)
  BY <1>3, <1>8, ConcatProperties, ElementsOfConcat
<1>10. target' \in 0..watched /\ (refusing => target' = 0)
  BY <1>1, <1>3
<1>11. /\ Cardinality(Replies(fromServer')) <= Cardinality(Replies(fromServer)) + 1
       /\ Cardinality(Replies(fromServer')) \in Nat /\ Cardinality(Replies(fromServer)) \in Nat
       /\ client.target.outstanding_responses \in Nat
  BY <1>3, <1>8, <1>9, RepliesOfConcat, RepliesFinite, RequestsOf
<1>12. ~ refusing => Len(client'.requests) + Cardinality(Replies(fromServer'))
                     <= client'.target.outstanding_responses
  <2>1. ~ refusing => Len(client.requests) + Cardinality(Replies(fromServer))
          <= client.target.outstanding_responses
    BY <1>2 DEF WireInv
  <2>2. ~ refusing => Len(requests) + Cardinality(Replies(fromServer'))
                      <= client.target.outstanding_responses
    BY <1>4, <1>11, <2>1
  <2> QED
    BY <1>5, <1>6, <2>2
<1>13. WireInv'
  <2>1. IsOpen(client'.stream)
    BY <1>6, <1>7
  <2>2. /\ refusing' => target' = 0 /\ \A m \in Elements(fromServer') : m.type = "refused"
        /\ ~ refusing' => \A m \in Elements(fromServer') : m.type # "refused"
    BY <1>1, <1>2, <1>8, <1>9, <1>10 DEF WireInv
  <2> QED
    BY <1>1, <1>12, <2>1, <2>2 DEF WireInv
<1>14. client'.queue = client.queue /\ client'.posts = client.posts
       /\ client'.listeners = client.listeners /\ client'.raised = client.raised
       /\ client'.view = client.view /\ client'.snapshot = client.snapshot
  BY <1>6 DEF SameStore, SameViews
<1>15. TypeOK'
  BY <1>1, <1>2, <1>5, <1>9, <1>10, <1>14 DEF TypeOK, appVars
<1>16. GetsInv' /\ AnsweredInv' /\ SinceInv'
  BY <1>1, <1>2, <1>14 DEF GetsInv, AnsweredInv, SinceInv, Adds, Elements, appVars
<1>17. AssertionsHold' /\ InStep(client)'
  BY <1>2, <1>6, <1>14 DEF AssertionsHold, IsActiveTarget, InStep, SameTracker, SameViews
<1> QED
  BY <1>13, <1>15, <1>16, <1>17 DEF IInv

LEMMA RestartStep == IInv /\ Restart => IInv'
<1> SUFFICES ASSUME IInv, Restart PROVE IInv'
  OBVIOUS
<1>1. /\ External
      /\ client' = [NewClient EXCEPT !.queue = client.queue, !.cache = client.cache,
                                     !.remote_keys = client.remote_keys,
                                     !.resume_token = client.resume_token,
                                     !.last_remote_snapshot = client.last_remote_snapshot]
      /\ mine' \subseteq mine
      /\ worker' = <<>> /\ main' = <<>>
      /\ alive' = {} /\ muted' = {} /\ must' = [g \in Gets |-> {}]
      /\ applied' = <<>> /\ fromServer' = <<>> /\ target' = 0
      /\ UNCHANGED <<asked, answer, wrote, seen, refused, log, watched, refusing>>
  BY DEF Restart, Hangup
<1>2. TypeOK /\ AnsweredInv /\ SinceInv
  BY DEF IInv
<1>3. client \in Clients
  BY <1>2 DEF TypeOK
<1>4. /\ client'.stream = NewStream /\ client'.listening = FALSE /\ client'.target = NewTargetState
      /\ client'.update = Nil /\ client'.state = "Unknown" /\ client'.failures = 0
      /\ client'.timer = FALSE /\ client'.view = Nil /\ client'.listeners = {}
      /\ client'.raised = {} /\ client'.snapshot = Nil /\ client'.online_state = "Unknown"
      /\ client'.requests = <<>> /\ client'.posts = <<>> /\ client'.queue = client.queue
  BY <1>1 DEF NewClient
<1>5. client' \in Clients
  <2>1. NewStream \in Streams /\ NewTargetState \in TargetStates
    BY NewTarget DEF NewStream, Streams, States
  <2> DEFINE none == <<>>
             nobody == {}
             zero == 0
  <2>2. none \in Seq(Requests) /\ none \in Seq(Events) /\ nobody \in SUBSET Gets /\ zero \in 0..1
    OBVIOUS
  <2>3. client' = [
          queue |-> client.queue, cache |-> client.cache,
          remote_keys |-> client.remote_keys, resume_token |-> client.resume_token,
          last_remote_snapshot |-> client.last_remote_snapshot,
          stream |-> NewStream, listening |-> FALSE, target |-> NewTargetState, update |-> Nil,
          state |-> "Unknown", failures |-> zero, timer |-> FALSE,
          view |-> Nil, listeners |-> nobody, raised |-> nobody, snapshot |-> Nil,
          online_state |-> "Unknown", requests |-> none, posts |-> none]
    BY <1>1 DEF NewClient
  <2> HIDE DEF none, nobody, zero
  <2> QED
    BY <1>3, <2>1, <2>2, <2>3 DEF Clients, OnlineStates
<1>6. events' \in 0..MaxEvents
  BY <1>1, ExternalType
<1>7. TypeOK'
  <2>1. must' \in [Gets -> SUBSET Writes] /\ Len(applied') = 0 /\ Len(client.queue) \in Nat
        /\ applied' \in Seq(Nat) /\ target' \in 0..watched
    BY <1>1, <1>2, <1>3, SMTT(30) DEF TypeOK, Clients
  <2>2. Len(applied') <= Len(client'.queue)
    BY <1>4, <2>1
  <2> QED
    BY <1>1, <1>2, <1>4, <1>5, <1>6, <2>1, <2>2 DEF TypeOK
<1>8. Elements(worker') = {} /\ Elements(main') = {} /\ Elements(fromServer') = {} /\ Adds' = {}
  BY <1>1 DEF Elements, Adds
<1>9. GetsInv'
  BY <1>1, <1>4, <1>8 DEF GetsInv
<1>10. AnsweredInv'
  BY <1>1, <1>2, <1>4, <1>8 DEF AnsweredInv
<1>11. SinceInv'
  BY <1>1, <1>2, <1>4, <1>8 DEF SinceInv
<1>12. WireInv'
  <2>1. ~ IsOpen(client'.stream) /\ ~ client'.stream.idle
    BY <1>4 DEF NewStream, IsOpen
  <2>2. /\ Cardinality(Replies(fromServer')) = 0 /\ Len(client'.requests) = 0
        /\ client'.target.outstanding_responses = 0
    BY <1>1, <1>4, RepliesOfEmpty DEF NewTargetState
  <2> QED
    BY <1>1, <1>4, <1>8, <2>1, <2>2 DEF WireInv
<1>13. AssertionsHold' /\ InStep(client)'
  BY <1>4 DEF AssertionsHold, InStep, IsActiveTarget, NewStream
<1> QED
  BY <1>7, <1>9, <1>10, <1>11, <1>12, <1>13 DEF IInv

LEMMA Initially == Init => IInv
<1> SUFFICES ASSUME Init PROVE IInv
  OBVIOUS
<1>1. /\ client = NewClient /\ worker = <<>> /\ main = <<>> /\ muted = {} /\ asked = 0 /\ alive = {}
      /\ answer = [g \in Gets |-> <<>>] /\ must = [g \in Gets |-> {}]
      /\ wrote = 0 /\ mine = {} /\ seen = {} /\ refused = {}
      /\ log \in {<<NoDocument>>, <<NoDocument, Creation>>} /\ watched = Len(log)
      /\ applied = <<>> /\ target = 0
      /\ refusing \in BOOLEAN /\ fromServer = <<>> /\ events = MaxEvents
  BY DEF Init
<1>2. client \in Clients
  <2>1. NewStream \in Streams /\ NewTargetState \in TargetStates
    BY NewTarget DEF NewStream, Streams, States
  <2> DEFINE none == <<>>
             nobody == {}
             zero == 0
             cache == [version |-> zero, has |-> nobody, committed |-> FALSE]
  <2>2. /\ none \in Seq(Requests) /\ none \in Seq(Events) /\ none \in Seq(OwnWrites)
        /\ nobody \in SUBSET Gets /\ zero \in 0..1 /\ zero \in Nat
        /\ cache \in [version : Nat, has : SUBSET Writes, committed : BOOLEAN]
    OBVIOUS
  <2>3. client = [
          queue |-> none, cache |-> cache,
          remote_keys |-> FALSE, resume_token |-> zero, last_remote_snapshot |-> zero,
          stream |-> NewStream, listening |-> FALSE, target |-> NewTargetState, update |-> Nil,
          state |-> "Unknown", failures |-> zero, timer |-> FALSE,
          view |-> Nil, listeners |-> nobody, raised |-> nobody, snapshot |-> Nil,
          online_state |-> "Unknown", requests |-> none, posts |-> none]
    BY <1>1 DEF NewClient
  <2> HIDE DEF none, nobody, zero, cache
  <2> QED
    BY <2>1, <2>2, <2>3 DEF Clients, OnlineStates
<1>3. /\ client.stream = NewStream /\ client.listening = FALSE /\ client.target = NewTargetState
      /\ client.update = Nil /\ client.state = "Unknown" /\ client.failures = 0
      /\ client.timer = FALSE /\ client.view = Nil /\ client.listeners = {}
      /\ client.raised = {} /\ client.snapshot = Nil /\ client.online_state = "Unknown"
      /\ client.requests = <<>> /\ client.posts = <<>> /\ client.queue = <<>>
  BY <1>1 DEF NewClient
<1>4. /\ log \in Seq(Writes \cup {NoDocument}) /\ watched \in DOMAIN log
      /\ target \in 0..watched /\ \A i \in 2..Len(log) : log[i] \in Writes
  <2>1. Creation \in Writes
    BY BoundsAssumption, SMTT(30) DEF Creation, Writes
  <2>2. CASE log = <<NoDocument>>
    BY <1>1, <2>2
  <2>3. CASE log = <<NoDocument, Creation>>
    BY <1>1, <2>1, <2>3
  <2> QED
    BY <1>1, <2>2, <2>3
<1>5. TypeOK
  <2>1. Len(applied) <= Len(client.queue)
    BY <1>1, <1>3
  <2>2. answer \in [Gets -> Seq(Answers)] /\ must \in [Gets -> SUBSET Writes]
    BY <1>1
  <2>3. asked \in 0..MaxGets /\ wrote \in 0..MaxWrites /\ events \in 0..MaxEvents
    BY <1>1, BoundsAssumption
  <2> QED
    BY <1>1, <1>2, <1>3, <1>4, <2>1, <2>2, <2>3 DEF TypeOK
<1>6. Elements(worker) = {} /\ Elements(main) = {} /\ Elements(fromServer) = {} /\ Adds = {}
  BY <1>1 DEF Elements, Adds
<1>7. GetsInv /\ AnsweredInv
  BY <1>1, <1>3, <1>6 DEF GetsInv, AnsweredInv
<1>8. SinceInv
  BY <1>3, <1>4, <1>6 DEF SinceInv
<1>9. WireInv
  <2>1. ~ IsOpen(client.stream) /\ ~ client.stream.idle
    BY <1>3 DEF NewStream, IsOpen
  <2>2. /\ Cardinality(Replies(fromServer)) = 0 /\ Len(client.requests) = 0
        /\ client.target.outstanding_responses = 0
    BY <1>1, <1>3, RepliesOfEmpty DEF NewTargetState
  <2> QED
    BY <1>1, <1>3, <1>6, <2>1, <2>2 DEF WireInv
<1>10. AssertionsHold /\ InStep(client)
  BY <1>3 DEF AssertionsHold, InStep, IsActiveTarget, NewStream
<1> QED
  BY <1>5, <1>7, <1>8, <1>9, <1>10 DEF IInv

LEMMA Stutters == IInv /\ UNCHANGED vars => IInv'
<1> SUFFICES ASSUME IInv, UNCHANGED vars PROVE IInv'
  OBVIOUS
<1>1. UNCHANGED <<client, worker, main, muted, asked, alive, answer, must, wrote, mine, seen,
                  refused, log, applied, watched, target, refusing, fromServer, events>>
  BY DEF vars, appVars, serverVars
<1>2. TypeOK' /\ GetsInv' /\ AnsweredInv'
  <2>1. TypeOK'
    BY <1>1 DEF IInv, TypeOK
  <2>2. GetsInv' /\ AnsweredInv'
    BY <1>1 DEF IInv, GetsInv, AnsweredInv, Adds, Elements
  <2> QED
    BY <2>1, <2>2
<1>3. SinceInv' /\ WireInv'
  BY <1>1 DEF IInv, SinceInv, WireInv, Elements, Replies
<1> QED
  BY <1>1, <1>2, <1>3, ClientUnchanged DEF IInv

\* The stages of the gets and the count of replies are kept by every step.
THEOREM GetsInvariant == Spec => []IInv
<1>1. IInv /\ [Next]_vars => IInv'
  <2>1. SUFFICES ASSUME IInv, [Next]_vars PROVE IInv'
    OBVIOUS
  <2>2. CASE GetDocument \/ WriteMutations \/ OnEvent
    BY <2>1, <2>2, GetDocumentStep, WriteMutationsStep, OnEventStep
  <2>3. CASE AddQueryListener \/ RemoveQueryListener \/ WriteLocally
    BY <2>1, <2>3, AddQueryListenerStep, RemoveQueryListenerStep, WriteLocallyStep
  <2>4. CASE StreamOpen \/ StreamRefused \/ StreamBreak \/ IdleTimer \/ ConnectivityChange
    BY <2>1, <2>4, StreamOpenStep, StreamRefusedStep, StreamBreakStep, StoppedStep
  <2>5. CASE BackoffTimer \/ OnlineStateTimer
    BY <2>1, <2>5, BackoffTimerStep, OnlineStateTimerStep
  <2>6. CASE OnWatchStreamChange \/ WriteAcknowledged \/ WriteRejected \/ Restart
    BY <2>1, <2>6, OnWatchStreamChangeStep, WriteAcknowledgedStep, WriteRejectedStep, RestartStep
  <2>7. CASE Server \/ ServerCommit \/ ServerRefuse \/ ForeignWrite
    BY <2>1, <2>7, ServerHandleStep, ServerUpdateStep, WatchAdvanceStep, ServerCommitStep,
       ServerRefuseStep, ForeignWriteStep DEF Server
  <2>8. CASE UNCHANGED vars
    BY <2>1, <2>8, Stutters
  <2> QED
    BY <2>1, <2>2, <2>3, <2>4, <2>5, <2>6, <2>7, <2>8 DEF Next
<1> QED
  BY Initially, <1>1, PTL DEF Spec

\* Every variable keeps its type; in particular the count of outstanding
\* responses is never negative.
THEOREM TypeCorrect == Spec => []TypeOK
<1>1. IInv => TypeOK
  BY DEF IInv
<1> QED
  BY <1>1, GetsInvariant, PTL

\* The HARD_ASSERTs of the tracker, the remote store and the view hold.
THEOREM AssertionsCorrect == Spec => []AssertionsHold
<1>1. IInv => AssertionsHold
  BY DEF IInv
<1> QED
  BY <1>1, GetsInvariant, PTL

\* The app's completion handler runs at most once.  What it was told first
\* muted the get, or was the last event for it.
THEOREM AnsweredOnceCorrect == Spec => []AnsweredOnce
<1>1. Init => AnsweredOnce
  BY DEF Init, AnsweredOnce
<1>2. IInv /\ AnsweredOnce /\ [Next]_vars => AnsweredOnce'
  <2>1. SUFFICES ASSUME IInv, AnsweredOnce, [Next]_vars PROVE AnsweredOnce'
    OBVIOUS
  <2>2. CASE UNCHANGED answer
    BY <2>1, <2>2 DEF AnsweredOnce
  <2>3. CASE OnEvent
    <3>1. main # <<>> /\ main \in Seq(Events) /\ answer \in [Gets -> Seq(Answers)]
      BY <2>1, <2>3 DEF OnEvent, IInv, TypeOK
    <3>2. PICK g \in Head(main).gets :
             \/ UNCHANGED answer
             \/ /\ g \notin muted
                /\ answer' = [answer EXCEPT ![g] = Append(@, Answer(g, Head(main).snapshot))]
      BY <2>3 DEF OnEvent
    <3>3. Head(main) \in Events /\ Head(main) \in Elements(main)
      BY <3>1, ElementsOfTail, HeadTailProperties
    <3>4. g \in Gets
      BY <3>3 DEF Events
    <3>5. CASE g \notin muted /\ answer' = [answer EXCEPT ![g] = Append(@, Answer(g, Head(main).snapshot))]
      <4>1. answer[g] = <<>>
        BY <2>1, <3>3, <3>4, <3>5 DEF IInv, AnsweredInv
      <4> DEFINE a == Answer(g, Head(main).snapshot)
      <4>2. Append(answer[g], a) = <<a>> /\ Len(<<a>>) = 1
        BY <4>1
      <4>3. \A h \in Gets : answer'[h] = IF h = g THEN <<a>> ELSE answer[h]
        BY <3>1, <3>4, <3>5, <4>2
      <4> HIDE DEF a
      <4>4. ASSUME NEW h \in Gets PROVE Len(answer'[h]) <= 1
        <5>1. CASE h = g
          <6>1. Len(answer'[h]) = 1
            BY <4>2, <4>3, <5>1
          <6> QED
            BY <6>1
        <5>2. CASE h # g
          <6>1. answer'[h] = answer[h]
            BY <4>3, <5>2
          <6> QED
            BY <2>1, <6>1 DEF AnsweredOnce
        <5> QED
          BY <5>1, <5>2
      <4> QED
        BY <4>4 DEF AnsweredOnce
    <3> QED
      BY <2>2, <3>2, <3>5
  <2> QED
    BY <2>1, <2>2, <2>3 DEF Next, GetDocument, WriteMutations, AddQueryListener, RemoveQueryListener,
       WriteLocally, StreamOpen, StreamRefused, BackoffTimer, OnlineStateTimer, OnWatchStreamChange,
       WriteAcknowledged, WriteRejected, IdleTimer, Server, ServerHandle, ServerUpdate, WatchAdvance,
       ServerCommit, ServerRefuse, ForeignWrite, StreamBreak, ConnectivityChange, Restart, appVars, vars
<1> QED
  BY <1>1, <1>2, GetsInvariant, PTL DEF Spec
=============================================================================
