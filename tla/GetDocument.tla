---------------------------- MODULE GetDocument ----------------------------
(***************************************************************************)
(* How the Firestore client answers getDocument: a listener that is        *)
(* removed after its first event (DocumentReference::GetDocument,          *)
(* EventManager, QueryListener), the view of the query (SyncEngine, View), *)
(* the cached document under the queued writes (LocalStore), the watch     *)
(* stream with its aggregator (RemoteStore, WatchChangeAggregator), and    *)
(* the guess whether the server can be reached (OnlineStateTracker).       *)
(*                                                                         *)
(* The app calls on the main thread; the worker queue runs the client, one *)
(* operation at a time; events are posted back to the main thread.  There  *)
(* is one user and one document.  A write sets a field of its own, so a    *)
(* document is the set of writes it has; one that is missing, unknown or   *)
(* not cached has none.  The server numbers its versions: version 1 is the *)
(* missing document, and log[v] is the write that made version v.  Watch   *)
(* may lag behind (watched).  Own writes are updateData, which requires    *)
(* that the document exists; they are applied or refused, and answered, in *)
(* order, as WriteQueue promises.                                          *)
(*                                                                         *)
(* Left out: credentials (see WritePipeline), setData (the document is     *)
(* there at the start, or another client creates it), and the second       *)
(* target that resolves a limbo document; the listened target delivers the *)
(* same document, as documents are never deleted.                          *)
(***************************************************************************)
EXTENDS Naturals, Sequences

CONSTANTS Nil,
          MaxGets,      \* bound: calls of getDocument
          MaxWrites,    \* bound: writes of this client
          MaxEvents     \* bound: writes of other clients, broken streams,
                        \* network changes and kills

ASSUME BoundsAssumption == {MaxGets, MaxWrites, MaxEvents} \subseteq Nat

INSTANCE Stream

Gets == 1..MaxGets
OwnWrites == 1..MaxWrites
Creation == MaxWrites + MaxEvents + 1   \* the write that made the document
Writes == 1..Creation
NoDocument == 0    \* what log[1] holds
Refusal == 0       \* no version: the server refused a write

VARIABLES client,   \* the state of the Firestore client, see Clients
          worker,   \* tasks of the worker queue
          main,     \* events on the main queue
          muted,    \* gets whose registration was removed
          asked,    \* how many gets the app has issued, 1..asked
          alive,    \* those that were not lost in a kill
          answer,   \* answer[g]: what the app was told, a sequence
          must,     \* history: what the answer to a get has to contain
          wrote,    \* how many writes the app has issued, 1..wrote
          mine,     \* history: those that were not lost in a kill
          seen,     \* history: what the app has been shown
          refused,  \* history: the writes the app was told had failed
          log,      \* server: the writes that made the versions
          applied,  \*   versions of the writes it has not answered yet
          watched,  \*   the version that watch has reached
          target,   \*   the version last sent, 0 when the target is not watched
          refusing, \*   the rules deny this user the document
          fromServer,   \* the watch stream's messages on their way
          events    \* how many more of MaxEvents may happen

appVars == <<muted, asked, alive, answer, must, wrote, mine, seen, refused>>
serverVars == <<log, applied, watched, target, refusing, fromServer>>
vars == <<client, worker, main, appVars, serverVars, events>>

Elements(seq) == {seq[i] : i \in DOMAIN seq}
ContentAt(v) == {log[i] : i \in 2..v}

OnlineStates == {"Unknown", "Online", "Offline"}

\* A version and its content; version 0 stands for an unknown document.
Documents == [version : Nat, has : SUBSET Writes]

\* What is known of a document query's view: the document it shows, whether
\* that one has local mutations, whether the server listed it (synced) and
\* has caught up (current), whether it is in limbo, the sync state, and what
\* watch had when the query was listened to (history).
Views == [has : SUBSET Writes, local : BOOLEAN, synced : BOOLEAN, current : BOOLEAN,
          limbo : BOOLEAN, state : {"None", "Local", "Synced"}, since : Nat]

\* A document under the queued writes, and what a snapshot says of a target.
LocalDocuments == [has : SUBSET Writes, local : BOOLEAN, committed : BOOLEAN]
TargetChanges == [current : BOOLEAN, change : {"none", "added", "modified"}]

\* A view snapshot; settled: no own write is waiting for watch (history).
Snapshots == [has : SUBSET Writes, from_cache : BOOLEAN, settled : BOOLEAN, since : Nat]

\* TargetState of the aggregator.  has_pending_changes_ is left out: the
\* resume token that comes with a snapshot sets it for every active target
\* before it is read.
TargetStates == [outstanding_responses : Nat, current : BOOLEAN,
                 change : {"none", "added", "modified"}]

ASSUME NilRecordAssumption ==
    Nil \notin Documents \cup LocalDocuments \cup TargetChanges \cup Views \cup Snapshots

NewTargetState == [outstanding_responses |-> 0, current |-> FALSE, change |-> "none"]

\* The events that one snapshot, or an error (Nil), raises for some gets.
\* Listeners register in the order of their gets, and are told in that order.
Events == [gets : SUBSET Gets, snapshot : Snapshots \cup {Nil}]

Requests == [type : {"watch"}, resume_token : Nat] \cup [type : {"unwatch"}]

Messages == [type : {"added", "removed", "current", "refused"}]
            \cup [type : {"document"}, version : Nat, has : SUBSET Writes]
            \cup [type : {"snapshot"}, version : Nat]

Tasks == [type : {"add", "remove"}, get : Gets] \cup [type : {"write"}, write : OwnWrites]

\* What the app is told; of the content, what is missing (history): lost is
\* what the app wrote or saw before, stale what watch had before.
Answers == [ok : BOOLEAN, lost : SUBSET Writes, stale : SUBSET Writes]

Clients == [
    queue : Seq(OwnWrites),              \* LocalStore: mutation queue
    cache : [version : Nat, has : SUBSET Writes, committed : BOOLEAN],
    remote_keys : BOOLEAN,               \*   target cache: the key matches
    resume_token : Nat,
    last_remote_snapshot : Nat,
    stream : Streams,                    \* RemoteStore: watch_stream_
    listening : BOOLEAN,                 \*   listen_targets_
    target : TargetStates,               \*   watch_change_aggregator_
    update : Documents \cup {Nil},       \*     pending_document_updates_
    state : OnlineStates,                \* OnlineStateTracker
    failures : 0..1, timer : BOOLEAN,
    view : Views \cup {Nil},             \* SyncEngine: query_views_by_query_
    listeners : SUBSET Gets,             \* EventManager: queries_
    raised : SUBSET Gets,                \*   raised_initial_event_
    snapshot : Snapshots \cup {Nil},     \*   view_snapshot()
    online_state : OnlineStates,
    requests : Seq(Requests),            \* on their way to the server
    posts : Seq(Events)]                 \* for the main queue, empty between steps

TypeOK ==
    /\ client \in Clients /\ client.posts = <<>>
    /\ worker \in Seq(Tasks)
    /\ main \in Seq(Events)
    /\ asked \in 0..MaxGets /\ muted \subseteq alive /\ alive \subseteq 1..asked
    /\ answer \in [Gets -> Seq(Answers)]
    /\ must \in [Gets -> SUBSET Writes]
    /\ wrote \in 0..MaxWrites /\ mine \subseteq 1..wrote /\ seen \subseteq Writes
    /\ refused \subseteq OwnWrites
    /\ log \in Seq(Writes \cup {NoDocument}) /\ watched \in DOMAIN log
    /\ applied \in Seq(Nat) /\ Len(applied) <= Len(client.queue)
    /\ target \in 0..watched /\ refusing \in BOOLEAN
    /\ fromServer \in Seq(Messages)
    /\ events \in 0..MaxEvents

-----------------------------------------------------------------------------
(* The client, as operators on its record c.  Where one method of the code  *)
(* builds on the result of another, an action names that result by \E.      *)

Found(doc) == doc.has # {}

\* The cached document under the queued writes.  updateData has the
\* precondition Exists(true): it changes nothing that was not found.
LocalView(c) ==
    [has |-> IF Found(c.cache) THEN c.cache.has \cup Elements(c.queue) ELSE {},
     local |-> Found(c.cache) /\ c.queue # <<>>,
     committed |-> c.cache.committed]

Post(c, gets, snapshot) ==
    [c EXCEPT !.posts = IF gets = {} THEN @ ELSE Append(@, [gets |-> gets, snapshot |-> snapshot])]

\* ShouldRaiseInitialEvent of a listener that waits for the sync when online.
ShouldRaiseInitialEvent(c, snapshot) ==
    ~ snapshot.from_cache \/ c.online_state = "Offline"

\* EventManager::OnViewSnapshots: later events are raised as well.
OnViewSnapshots(c, snapshot) ==
    LET gets == {g \in c.listeners : g \in c.raised \/ ShouldRaiseInitialEvent(c, snapshot)}
    IN  [Post(c, gets, snapshot) EXCEPT !.snapshot = snapshot, !.raised = @ \cup gets]

\* View::ComputeDocumentChanges for the one document: does it change?
DocumentChanges(view, doc) ==
    IF view.has = {} \/ doc.has = {} THEN view.has # doc.has
    ELSE IF view.has # doc.has
    THEN ~ (view.local /\ doc.committed /\ ~ doc.local)    \* ShouldWaitForSyncedDocument
    ELSE view.local # (doc.local \/ (view.local /\ doc.committed))

ShouldBeInLimbo(synced, doc) == ~ synced /\ doc.has # {} /\ ~ doc.local

\* EmitNewSnapshots and View::ApplyChanges: doc is the changed document and
\* change the target change, each may be Nil.
EmitNewSnapshots(c, doc, change) ==
    LET view    == c.view
        changes == doc # Nil /\ DocumentChanges(view, doc)
        shown   == IF changes THEN doc ELSE view
        synced  == view.synced \/ (change # Nil /\ change.change = "added")
        current == IF change = Nil THEN view.current ELSE change.current
        limbo   == IF current THEN ShouldBeInLimbo(synced, shown) ELSE view.limbo
        state   == IF current /\ ~ limbo THEN "Synced" ELSE "Local"
        c1      == [c EXCEPT !.view = [has |-> shown.has, local |-> shown.local,
                                       synced |-> synced, current |-> current,
                                       limbo |-> limbo, state |-> state, since |-> @.since]]
    IN  IF view = Nil THEN c
        ELSE IF changes \/ state # view.state
        THEN OnViewSnapshots(c1, [has |-> shown.has, from_cache |-> state = "Local",
                                  settled |-> c.queue = <<>> /\ ~ c.cache.committed,
                                  since |-> view.since])
        ELSE c1

\* SyncEngine::HandleOnlineStateChange: the views first, then the listeners.
HandleOnlineStateChange(c, state) ==
    LET c1 == IF state = "Offline" /\ c.view # Nil /\ c.view.current
              THEN EmitNewSnapshots([c EXCEPT !.view.current = FALSE], Nil, Nil) ELSE c
        c2 == [c1 EXCEPT !.online_state = state]
        gets == c2.listeners \ c2.raised
    IN  IF c2.snapshot # Nil /\ ShouldRaiseInitialEvent(c2, c2.snapshot)
        THEN [Post(c2, gets, c2.snapshot) EXCEPT !.raised = @ \cup gets]
        ELSE c2

SetAndBroadcast(c, state) ==
    IF state = c.state THEN c ELSE HandleOnlineStateChange([c EXCEPT !.state = state], state)

UpdateState(c, state) ==
    SetAndBroadcast([c EXCEPT !.timer = FALSE, !.failures = 0], state)

HandleWatchStreamStart(c) ==
    IF c.failures # 0 THEN c ELSE [SetAndBroadcast(c, "Unknown") EXCEPT !.timer = TRUE]

\* MUTANT of HandleWatchStreamFailure: a failed attempt never means Offline.
HandleWatchStreamFailureHopefully(c) ==
    IF c.state = "Online" THEN SetAndBroadcast(c, "Unknown")
    ELSE [c EXCEPT !.timer = FALSE, !.failures = 1]

\* kMaxWatchStreamFailures is 1: the first failed attempt means Offline, and
\* more of them make no difference.
HandleWatchStreamFailure(c) ==
    IF c.state = "Online" THEN SetAndBroadcast(c, "Unknown")
    ELSE SetAndBroadcast([c EXCEPT !.timer = FALSE, !.failures = 1], "Offline")

\* A new aggregator comes with each start of the stream.
StartWatchStream(c) ==
    HandleWatchStreamStart([c EXCEPT !.target = NewTargetState, !.update = Nil,
                                     !.stream = Start(@)])

ShouldStartWatchStream(c) == ~ IsStarted(c.stream) /\ c.listening

\* SendWatchRequest, SendUnwatchRequest.
SendRequest(c, request) ==
    [c EXCEPT !.requests = Append(@, request), !.stream = CancelIdleCheck(@),
              !.target.outstanding_responses = @ + 1]

\* The RPC is gone, and what was under way to the server is lost.  The close
\* count matters to credentials only.
Disconnected(c, stream) ==
    [c EXCEPT !.stream = [stream EXCEPT !.close_count = 0], !.requests = <<>>,
              !.target = NewTargetState, !.update = Nil]

\* OnWatchStreamClose after Stop.
OnWatchStreamStopped(c) == UpdateState(Disconnected(c, Stop(c.stream)), "Unknown")

\* The watch request of the target, with its resume token.
WatchRequest(c) == [type |-> "watch", resume_token |-> c.resume_token]

\* RemoteStore::Listen; the watch request of a stream that is not open yet is
\* sent when it opens.
RemoteListen(c) ==
    LET c1 == [c EXCEPT !.listening = TRUE]
    IN  IF ShouldStartWatchStream(c1) THEN StartWatchStream(c1)
        ELSE IF IsOpen(c1.stream) THEN SendRequest(c1, WatchRequest(c1))
        ELSE c1

RemoteStopListening(c) ==
    LET c1 == [c EXCEPT !.listening = FALSE]
        c2 == SendRequest(c1, [type |-> "unwatch"])
    IN  IF IsOpen(c.stream) THEN [c2 EXCEPT !.stream = MarkIdle(@)]
        ELSE UpdateState(c1, "Unknown")

InitializeViewAndComputeSnapshot(c, version) ==
    LET view == [has |-> {}, local |-> FALSE, synced |-> c.remote_keys, current |-> FALSE,
                 limbo |-> FALSE, state |-> "None", since |-> version]
    IN  EmitNewSnapshots([c EXCEPT !.view = view], LocalView(c), Nil)

AddListener(c, g) == [c EXCEPT !.listeners = @ \cup {g}]

\* A second listener shares the view and may be served at once.
JoinListeners(c, g) ==
    IF ShouldRaiseInitialEvent(c, c.snapshot)
    THEN [Post(c, {g}, c.snapshot) EXCEPT !.raised = @ \cup {g}]
    ELSE c

\* With the last listener goes the view (SyncEngine::StopListening).
RemoveListener(c, g) ==
    LET others == c.listeners \ {g}
        c1 == [c EXCEPT !.listeners = others, !.raised = @ \ {g}]
    IN  IF c.listeners = {} \/ others # {} THEN c1
        ELSE [RemoteStopListening([c1 EXCEPT !.view = Nil]) EXCEPT !.snapshot = Nil]

\* AcknowledgeBatch, ApplyBatchResult: the acknowledged write is added to an
\* older cached document, which then has committed mutations.  Of one that was
\* not found the client now knows the version and not the data: an unknown
\* document.
AcknowledgeBatch(c, version) ==
    LET has == IF Found(c.cache) THEN c.cache.has \cup {Head(c.queue)} ELSE {}
        doc == IF c.cache.version < version
               THEN [version |-> version, has |-> has, committed |-> TRUE]
               ELSE c.cache
    IN  [c EXCEPT !.cache = doc, !.queue = Tail(@)]

\* RejectBatch: the write is undone.
RejectBatch(c) == [c EXCEPT !.queue = Tail(@)]

-----------------------------------------------------------------------------
(* What the watch stream delivers. *)

\* MUTANT of IsActiveTarget: answers that are still due do not matter.
IsActiveTargetAtOnce(c) == c.listening

IsActiveTarget(c) == c.listening /\ c.target.outstanding_responses = 0

\* HandleTargetChange Added: the last answer due clears what came before it.
TargetAdded(c) ==
    LET c1 == [c EXCEPT !.target.outstanding_responses = @ - 1]
    IN  IF c1.target.outstanding_responses # 0 THEN c1
        ELSE [c1 EXCEPT !.target.change = "none"]

\* MUTANT of TargetRemoved: does not wait for the answers still due.
TargetRemovedAtOnce(c) == [c EXCEPT !.target = NewTargetState]

TargetRemoved(c) ==
    LET c1 == [c EXCEPT !.target.outstanding_responses = @ - 1]
    IN  IF c1.target.outstanding_responses # 0 THEN c1
        ELSE [c1 EXCEPT !.target = NewTargetState]

TargetCurrent(c) ==
    IF ~ IsActiveTarget(c) THEN c
    ELSE [c EXCEPT !.target.current = TRUE]

AddDocumentToTarget(c, doc) ==
    IF ~ IsActiveTarget(c) THEN c
    ELSE [c EXCEPT !.target.change = IF c.view.synced THEN "modified" ELSE "added",
                   !.update = doc]

\* CreateRemoteEvent: a current target without the document has it deleted.
CreateRemoteEvent(c, version) ==
    LET missing == IsActiveTarget(c) /\ c.target.current /\ c.update = Nil /\ ~ c.view.synced
    IN  [update |-> IF missing THEN [version |-> version, has |-> {}] ELSE c.update,
         change |-> IF IsActiveTarget(c)
                    THEN [current |-> c.target.current, change |-> c.target.change] ELSE Nil]

\* MUTANT of PopulateDocumentChanges: the update always wins.
PopulateDocumentChangesAlways(cache, update) ==
    IF update = Nil THEN cache
    ELSE [version |-> update.version, has |-> update.has, committed |-> FALSE]

\* PopulateDocumentChanges: the cached document, unless the update is newer.
PopulateDocumentChanges(cache, update) ==
    IF update # Nil /\ \/ cache.version = 0
                       \/ update.version > cache.version
                       \/ update.version = cache.version /\ cache.committed
    THEN [version |-> update.version, has |-> update.has, committed |-> FALSE]
    ELSE cache

\* LocalStore::ApplyRemoteEvent, and the snapshots of SyncEngine.
ApplyRemoteEvent(c, event, version) ==
    LET doc == PopulateDocumentChanges(c.cache, event.update)
        c1 == [c EXCEPT !.cache = doc, !.last_remote_snapshot = version, !.update = Nil,
                        !.target.change = IF event.change = Nil THEN @ ELSE "none"]
        c2 == IF event.change = Nil THEN c1
              ELSE [c1 EXCEPT !.resume_token = version,
                              !.remote_keys = @ \/ event.change.change = "added"]
    IN  EmitNewSnapshots(c2, IF doc = c.cache THEN Nil ELSE LocalView(c2), event.change)

\* A global snapshot, no older than the last one.
RaiseWatchSnapshot(c, version) ==
    IF version < c.last_remote_snapshot THEN c
    ELSE ApplyRemoteEvent(c, CreateRemoteEvent(c, version), version)

\* HandleRejectedListen, EventManager::OnError.
ProcessTargetError(c) ==
    IF ~ c.listening THEN c
    ELSE [Post(c, c.listeners, Nil) EXCEPT !.listening = FALSE, !.target = NewTargetState,
                                           !.view = Nil, !.snapshot = Nil,
                                           !.listeners = {}, !.raised = {}]

\* OnWatchStreamChange, after UpdateState.
WatchChange(c, msg) ==
    CASE msg.type = "added"    -> TargetAdded(c)
      [] msg.type = "removed"  -> TargetRemoved(c)
      [] msg.type = "current"  -> TargetCurrent(c)
      [] msg.type = "document" ->
            AddDocumentToTarget(c, [version |-> msg.version, has |-> msg.has])
      [] msg.type = "snapshot" -> RaiseWatchSnapshot(c, msg.version)
      [] msg.type = "refused"  -> ProcessTargetError(c)

-----------------------------------------------------------------------------
NewClient == [
    queue |-> <<>>, cache |-> [version |-> 0, has |-> {}, committed |-> FALSE],
    remote_keys |-> FALSE, resume_token |-> 0, last_remote_snapshot |-> 0,
    stream |-> NewStream, listening |-> FALSE, target |-> NewTargetState, update |-> Nil,
    state |-> "Unknown", failures |-> 0, timer |-> FALSE,
    view |-> Nil, listeners |-> {}, raised |-> {}, snapshot |-> Nil,
    online_state |-> "Unknown", requests |-> <<>>, posts |-> <<>>]

Init ==
    /\ client = NewClient
    /\ worker = <<>> /\ main = <<>>
    /\ muted = {} /\ asked = 0 /\ alive = {}
    /\ answer = [g \in Gets |-> <<>>]
    /\ must = [g \in Gets |-> {}]
    /\ wrote = 0 /\ mine = {} /\ seen = {} /\ refused = {}
    /\ log \in {<<NoDocument>>, <<NoDocument, Creation>>} /\ watched = Len(log)
    /\ applied = <<>> /\ target = 0
    /\ refusing \in BOOLEAN
    /\ fromServer = <<>>
    /\ events = MaxEvents

External == events > 0 /\ events' = events - 1

\* The client becomes c; its events go to the main queue.
Becomes(c) ==
    \E d \in {c} : client' = [d EXCEPT !.posts = <<>>] /\ main' = main \o d.posts

\* The watch stream is closed: the server forgets the target, and what was
\* under way from it is lost.
Hangup == fromServer' = <<>> /\ target' = 0

\* OnWatchStreamClose with an error: the attempts go on while something is
\* listened to.
OnWatchStreamBroken ==
    \E c \in {Disconnected(client, OnStreamFinish(client.stream))} :
       \/ /\ ShouldStartWatchStream(c)
          /\ \E failed \in {HandleWatchStreamFailure(c)} : Becomes(StartWatchStream(failed))
       \/ ~ ShouldStartWatchStream(c) /\ Becomes(UpdateState(c, "Unknown"))

\* DisableNetworkInternal, EnableNetwork.
RestartNetwork ==
    \E c \in {OnWatchStreamStopped(client)} :
       \E inhibited \in {[c EXCEPT !.stream = InhibitBackoff(@)]} :
          Becomes(IF c.listening THEN StartWatchStream(inhibited) ELSE inhibited)

-----------------------------------------------------------------------------
(* The main thread. *)

\* DocumentReference::GetDocument.  The answer has to show the writes made
\* before and what was shown before.
GetDocument ==
    /\ asked < MaxGets
    /\ asked' = asked + 1
    /\ alive' = alive \cup {asked + 1}
    /\ must' = [must EXCEPT ![asked + 1] = mine \cup seen]
    /\ worker' = Append(worker, [type |-> "add", get |-> asked + 1])
    /\ UNCHANGED <<client, main, muted, answer, wrote, mine, seen, refused, serverVars,
                   events>>

WriteMutations ==
    /\ wrote < MaxWrites
    /\ wrote' = wrote + 1
    /\ mine' = mine \cup {wrote + 1}
    /\ worker' = Append(worker, [type |-> "write", write |-> wrote + 1])
    /\ UNCHANGED <<client, main, muted, asked, alive, answer, must, seen, refused,
                   serverVars, events>>

\* ListenOnce: the app gets an error for a missing document from the cache.
IsOk(snapshot) == snapshot # Nil /\ (snapshot.has # {} \/ ~ snapshot.from_cache)

\* A missing document is told to an app that was never shown it, and has no
\* place for what the app wrote; any other has what did not fail.
Answer(g, snapshot) ==
    IF ~ IsOk(snapshot) THEN [ok |-> FALSE, lost |-> {}, stale |-> {}]
    ELSE [ok |-> TRUE,
          lost |-> IF Found(snapshot) THEN (must[g] \ refused) \ snapshot.has
                                      ELSE must[g] \ OwnWrites,
          stale |-> IF snapshot.from_cache \/ ~ snapshot.settled THEN {}
                    ELSE ContentAt(snapshot.since) \ snapshot.has]

\* The next event on the main queue is the one for g.
TakeEvent(g) ==
    /\ \A h \in Head(main).gets : g <= h
    /\ main' = IF Head(main).gets = {g} THEN Tail(main)
               ELSE <<[Head(main) EXCEPT !.gets = @ \ {g}]>> \o Tail(main)

\* MUTANT of OnEvent: the registration is removed but not muted.
OnEventUnmuted ==
    /\ main # <<>>
    /\ \E g \in Head(main).gets :
       LET snapshot == Head(main).snapshot
           a == Answer(g, snapshot)
       IN /\ TakeEvent(g)
          /\ answer' = [answer EXCEPT ![g] = Append(@, a)]
          /\ must' = [must EXCEPT ![g] = {}]
          /\ seen' = IF a.ok THEN seen \cup snapshot.has ELSE seen
          /\ worker' = IF snapshot = Nil THEN worker
                       ELSE Append(worker, [type |-> "remove", get |-> g])
    /\ UNCHANGED <<client, muted, asked, alive, wrote, mine, refused, serverVars, events>>

\* AsyncEventListener::OnEvent on the main queue and ListenOnce::OnEvent: a
\* snapshot removes the registration, an error does not.
OnEvent ==
    /\ main # <<>>
    /\ \E g \in Head(main).gets :
       LET snapshot == Head(main).snapshot
           a == Answer(g, snapshot)
       IN /\ TakeEvent(g)
          /\ \/ g \in muted /\ UNCHANGED <<answer, must, seen, muted, worker>>
             \/ /\ g \notin muted
                /\ answer' = [answer EXCEPT ![g] = Append(@, a)]
                /\ must' = [must EXCEPT ![g] = {}]
                /\ seen' = IF a.ok THEN seen \cup snapshot.has ELSE seen
                /\ muted' = IF snapshot = Nil THEN muted ELSE muted \cup {g}
                /\ worker' = IF snapshot = Nil THEN worker
                             ELSE Append(worker, [type |-> "remove", get |-> g])
    /\ UNCHANGED <<client, asked, alive, wrote, mine, refused, serverVars, events>>

-----------------------------------------------------------------------------
(* The worker queue: its tasks, in order, ... *)

Task(type) == worker # <<>> /\ Head(worker).type = type /\ worker' = Tail(worker)

\* The first listener starts to listen (SyncEngine::Listen).
AddQueryListener ==
    /\ Task("add")
    /\ LET g == Head(worker).get IN
       \/ /\ client.listeners = {}
          /\ \E c \in {RemoteListen(AddListener(client, g))} :
                Becomes(InitializeViewAndComputeSnapshot(c, watched))
       \/ /\ client.listeners # {}
          /\ Becomes(JoinListeners(AddListener(client, g), g))
    /\ UNCHANGED <<appVars, serverVars, events>>

RemoveQueryListener ==
    /\ Task("remove")
    /\ Becomes(RemoveListener(client, Head(worker).get))
    /\ UNCHANGED <<appVars, serverVars, events>>

WriteLocally ==
    /\ Task("write")
    /\ \E c \in {[client EXCEPT !.queue = Append(@, Head(worker).write)]} :
          Becomes(EmitNewSnapshots(c, LocalView(c), Nil))
    /\ UNCHANGED <<appVars, serverVars, events>>

-----------------------------------------------------------------------------
(* ... and what timers and gRPC enqueue. *)

\* OnWatchStreamOpen watches the target again.
StreamOpen ==
    /\ client.stream.state = "Starting"
    /\ LET c == [client EXCEPT !.stream = OnStreamStart(@)]
       IN Becomes(IF c.listening THEN SendRequest(c, WatchRequest(c)) ELSE c)
    /\ UNCHANGED <<worker, appVars, serverVars, events>>

\* The attempt fails; nothing bounds how often.
StreamRefused ==
    /\ client.stream.state = "Starting"
    /\ OnWatchStreamBroken
    /\ UNCHANGED <<worker, appVars, serverVars, events>>

StreamBreak ==
    /\ IsOpen(client.stream)
    /\ External
    /\ OnWatchStreamBroken
    /\ Hangup
    /\ UNCHANGED <<worker, appVars, log, applied, watched, refusing>>

BackoffTimer ==
    /\ client.stream.state = "Backoff"
    /\ client' = [client EXCEPT !.stream = BackoffElapsed(@)]
    /\ UNCHANGED <<worker, main, appVars, serverVars, events>>

IdleTimer ==
    /\ client.stream.idle
    /\ Becomes(OnWatchStreamStopped(client))
    /\ Hangup
    /\ UNCHANGED <<worker, appVars, log, applied, watched, refusing, events>>

\* The timeout of HandleWatchStreamStart.
OnlineStateTimer ==
    /\ client.timer
    /\ Becomes(SetAndBroadcast([client EXCEPT !.timer = FALSE], "Offline"))
    /\ UNCHANGED <<worker, appVars, serverVars, events>>

\* OnWatchStreamChange: any message means Online.
OnWatchStreamChange ==
    /\ fromServer # <<>>
    /\ fromServer' = Tail(fromServer)
    /\ \E c \in {UpdateState(client, "Online")} : Becomes(WatchChange(c, Head(fromServer)))
    /\ UNCHANGED <<worker, appVars, log, applied, watched, target, refusing, events>>

\* HandleSuccessfulWrite.
WriteAcknowledged ==
    /\ applied # <<>> /\ Head(applied) # Refusal
    /\ applied' = Tail(applied)
    /\ \E c \in {AcknowledgeBatch(client, Head(applied))} :
          Becomes(EmitNewSnapshots(c, LocalView(c), Nil))
    /\ UNCHANGED <<worker, appVars, log, watched, target, refusing, fromServer, events>>

\* HandleRejectedWrite.
WriteRejected ==
    /\ applied # <<>> /\ Head(applied) = Refusal
    /\ applied' = Tail(applied)
    /\ refused' = refused \cup {Head(client.queue)}
    /\ \E c \in {RejectBatch(client)} : Becomes(EmitNewSnapshots(c, LocalView(c), Nil))
    /\ UNCHANGED <<worker, muted, asked, alive, answer, must, wrote, mine, seen, log,
                   watched, target, refusing, fromServer, events>>

\* The callback of the connectivity monitor.
ConnectivityChange ==
    /\ External
    /\ RestartNetwork
    /\ Hangup
    /\ UNCHANGED <<worker, appVars, log, applied, watched, refusing>>

\* The process dies and is started again; LevelDB survives.  Writes that the
\* server has not acknowledged are sent again.
Restart ==
    /\ External
    /\ client' = [NewClient EXCEPT !.queue = client.queue, !.cache = client.cache,
                                   !.remote_keys = client.remote_keys,
                                   !.resume_token = client.resume_token,
                                   !.last_remote_snapshot = client.last_remote_snapshot]
    /\ mine' = mine \ {w \in OwnWrites : [type |-> "write", write |-> w] \in Elements(worker)}
    /\ worker' = <<>> /\ main' = <<>>
    /\ alive' = {} /\ muted' = {} /\ must' = [g \in Gets |-> {}]
    /\ applied' = <<>>
    /\ Hangup
    /\ UNCHANGED <<asked, answer, wrote, seen, refused, log, watched, refusing>>

-----------------------------------------------------------------------------
(* The server. *)

\* The next write of this client, as WriteQueue promises; the document has to
\* exist.
ServerCommit ==
    /\ Len(applied) < Len(client.queue)
    /\ Len(log) > 1
    /\ log' = Append(log, client.queue[Len(applied) + 1])
    /\ applied' = Append(applied, Len(log) + 1)
    /\ UNCHANGED <<client, worker, main, appVars, watched, target, refusing, fromServer, events>>

\* The document does not exist, or the rules deny the write.
ServerRefuse ==
    /\ Len(applied) < Len(client.queue)
    /\ applied' = Append(applied, Refusal)
    /\ UNCHANGED <<client, worker, main, appVars, log, watched, target, refusing, fromServer,
                   events>>

ForeignWrite ==
    /\ External
    /\ log' = Append(log, MaxWrites + events)
    /\ UNCHANGED <<client, worker, main, appVars, applied, watched, target, refusing, fromServer>>

WatchAdvance ==
    /\ watched < Len(log)
    /\ watched' = watched + 1
    /\ UNCHANGED <<client, worker, main, appVars, log, applied, target, refusing, fromServer, events>>

DocumentMessage == [type |-> "document", version |-> watched, has |-> ContentAt(watched)]
SnapshotMessage == [type |-> "snapshot", version |-> watched]

\* What the server answers to a watch request: the document if it changed
\* since the resume token, and a first snapshot.
WatchReply(resume_token) ==
    IF refusing THEN <<[type |-> "refused"]>>
    ELSE <<[type |-> "added"]>>
         \o (IF watched > 1 /\ watched > resume_token THEN <<DocumentMessage>> ELSE <<>>)
         \o <<[type |-> "current"], SnapshotMessage>>

ServerHandle ==
    /\ client.requests # <<>>
    /\ client' = [client EXCEPT !.requests = Tail(@)]
    /\ LET request == Head(client.requests) IN
       \/ /\ request.type = "watch"
          /\ fromServer' = fromServer \o WatchReply(request.resume_token)
          /\ target' = IF refusing THEN 0 ELSE watched
       \/ /\ request.type = "unwatch"
          /\ fromServer' = IF target = 0 THEN fromServer ELSE Append(fromServer, [type |-> "removed"])
          /\ target' = 0
    /\ UNCHANGED <<worker, main, appVars, log, applied, watched, refusing, events>>

ServerUpdate ==
    /\ target > 0 /\ target < watched
    /\ fromServer' = fromServer \o <<DocumentMessage, SnapshotMessage>>
    /\ target' = watched
    /\ UNCHANGED <<client, worker, main, appVars, log, applied, watched, refusing, events>>

-----------------------------------------------------------------------------
Server == ServerHandle \/ ServerUpdate \/ WatchAdvance

Next == \/ GetDocument \/ WriteMutations \/ OnEvent
        \/ AddQueryListener \/ RemoveQueryListener \/ WriteLocally
        \/ StreamOpen \/ StreamRefused \/ BackoffTimer \/ OnlineStateTimer
        \/ OnWatchStreamChange \/ WriteAcknowledged \/ WriteRejected \/ IdleTimer
        \/ Server \/ ServerCommit \/ ServerRefuse
        \/ ForeignWrite \/ StreamBreak \/ ConnectivityChange \/ Restart

Spec == Init /\ [][Next]_vars

\* The next element of a queue is taken: a task, OnWatchStreamChange.
Takes(queue) == queue # <<>> /\ queue' = Tail(queue)

\* Queues run, timers fire (or are cancelled), an open stream makes progress.
\* Whether an attempt to open one ever ends is left open.
HangSpec ==
    /\ Spec
    /\ WF_main(main # <<>> /\ \E g \in Head(main).gets : TakeEvent(g))
    /\ WF_worker(Takes(worker)) /\ WF_fromServer(Takes(fromServer))
    /\ []<>(~ client.timer) /\ []<>(client.stream.state # "Backoff")
    /\ WF_vars(Server)

\* Every attempt ends as well, perhaps always with a failure.
FairSpec == HangSpec /\ []<>(client.stream.state # "Starting")

-----------------------------------------------------------------------------
(* Properties *)

\* An answer with the document shows every write the app made, and everything
\* it was shown, before it called getDocument, up to the writes that failed:
\* neither a watch update that is older than an acknowledged write, nor a
\* restart, an offline answer or a listener that joins an existing view, takes
\* anything back.  An app that has been shown the document is not told that it
\* is missing.  (One that has not may be, even when its own write was
\* acknowledged: the cache then has an unknown document, and while watch lags
\* behind, it shows nothing.)
SessionReads == \A g \in Gets : \A a \in Elements(answer[g]) : a.lost = {}

\* An answer that claims to be the server's shows what watch had when the
\* query was listened to, unless an acknowledged write has not come back yet:
\* answers to former requests for the same target are not taken for current.
FreshAnswer == \A g \in Gets : \A a \in Elements(answer[g]) : a.stale = {}

\* The app's completion handler runs once, although the view goes on raising
\* events until the worker queue has removed the listener.
AnsweredOnce == \A g \in Gets : Len(answer[g]) <= 1

\* The HARD_ASSERTs of the tracker, the remote store and the view hold: the
\* timer runs only while a first attempt is undecided, an idle stream is not
\* needed, listeners, view and target come and go together, and a document
\* that changes was listed before.
AssertionsHold ==
    /\ client.timer => client.state = "Unknown" /\ IsStarted(client.stream)
    /\ client.state = "Online" => client.failures = 0
    /\ client.stream.idle => ~ client.listening
    /\ client.listening <=> client.listeners # {}
    /\ client.listening <=> client.view # Nil
    /\ client.listening <=> client.snapshot # Nil
    /\ IsActiveTarget(client) /\ client.target.change = "modified" => client.view.synced
    /\ client.state = client.online_state

\* Every get of a process that lives is answered, whether the server can be
\* reached, denies the document, answers late, or never is: time and again
\* (the app asks MaxGets times only) no get is waiting.
GetsAnswered == []<>(\A g \in alive : answer[g] # <<>>)

\* "If the timeout is reached, we transition to Offline rather than waiting
\* indefinitely" (online_state_tracker.cc): the same, when an attempt to open
\* the stream neither succeeds nor fails.
TimeoutEndsWaiting == GetsAnswered
=============================================================================
