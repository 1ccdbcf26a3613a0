--------------------------- MODULE WritePipeline ---------------------------
(***************************************************************************)
(* How the Firestore client gets a user's writes to the server: the        *)
(* mutation queue in LevelDB (LocalStore, LevelDbMutationQueue), the write *)
(* pipeline and the write stream (RemoteStore, WriteStream), the callbacks *)
(* of the app (SyncEngine) and the credentials a stream is opened with     *)
(* (FirebaseAuthCredentialsProvider, FIRAuth).                             *)
(*                                                                         *)
(* Three threads take steps: the main thread runs the app and the          *)
(* callbacks of FIRAuth, FIRAuth's work queue changes the user and fetches *)
(* tokens, and the worker queue runs everything else, one operation at a   *)
(* time.  Streams break, the network changes, users come and go, and the   *)
(* process may die between any two steps; LevelDB and FIRAuth's keychain   *)
(* survive.                                                                *)
(*                                                                         *)
(* Every user has one document.  A write is a number, in the order in      *)
(* which the app issues them; the document is the last write applied.      *)
(* The server (external) handles the requests of a stream in order and     *)
(* those it received of a broken stream before the next stream's, and      *)
(* comes to the same verdict each time it gets a write; gRPC (external)    *)
(* delivers a stream's replies before its closing status.                  *)
(***************************************************************************)
EXTENDS Integers, Sequences, FiniteSets

CONSTANTS Users,              \* one of them may be the signed-out user
          Nil,
          Refused,            \* the writes that the server refuses
          kMaxPendingWrites,  \* the capacity of the pipeline
          MaxWrites,          \* bound: writes the app issues
          MaxChanges,         \* bound: changes of user, token or network
          MaxBreaks,          \* bound: broken streams and failed token requests
          MaxKills            \* bound: how often the process is killed

Writes == 1..MaxWrites
NoWrite == 0

ASSUME NilAssumption == Nil \notin Users
ASSUME RefusedAssumption == Refused \subseteq Nat
ASSUME CapacityAssumption == kMaxPendingWrites \in Nat \ {0}
ASSUME BoundsAssumption == {MaxWrites, MaxChanges, MaxBreaks, MaxKills} \subseteq Nat

INSTANCE Stream

VARIABLES authUser,      \* FIRAuth: _currentUser
          main,          \* the main queue: auth notifications, token callbacks
          provider,      \* FirebaseAuthCredentialsProvider::Contents
          tokens,        \* GetToken requests that FIRAuth works on
          worker,        \* the worker queue
          current_user,  \* SyncEngine
          mutations,     \* the rows of each user in the mutation table
          next_batch_id, \* LevelDbMutationQueue
          callbacks,     \* SyncEngine: mutation_callbacks_
          cache,         \* the remote document cache
          remote,        \* RemoteStore: write_pipeline_ and write_stream_
          stored,        \* the documents on the server
          issued, owner, committed, told,   \* history of the writes
          budget         \* what is left of the bounds

authVars == <<authUser, main, provider>>
localVars == <<current_user, mutations, next_batch_id, callbacks, cache>>
historyVars == <<issued, owner, committed, told>>
vars == <<authVars, tokens, worker, localVars, remote, stored, historyVars, budget>>

\* A row of the mutation table, an element of the pipeline, a callback.
Batch == [id : Nat, write : Writes]

\* A request for a token: the stream's close count and the provider's token
\* counter when it was made, the user FIRAuth found signed in.
Request == [count : Nat, counter : Nat, user : Users \cup {Nil}]

Notification == [type : {"note"}, user : Users]
TokenCallback == [type : {"token"}, request : Request, ok : BOOLEAN]

WriteTask == [type : {"write"}, write : Writes]
UserTask == [type : {"user"}, user : Users]
ResumeTask == [type : {"resume"}, count : Nat, user : Users \cup {Nil}]

\* peer is the user whose token the RPC was started with, Nil before that;
\* wire holds the requests without a reply read, the first handled of which
\* the server has applied.
Remote == [pipeline : Seq(Batch), stream : Streams, handshake_complete : BOOLEAN,
           peer : Users \cup {Nil}, wire : Seq(Writes), handled : Nat]

TypeOK ==
    /\ authUser \in Users
    /\ main \in Seq(Notification \cup TokenCallback)
    /\ provider \in [current_user : Users, token_counter : Nat]
    /\ tokens \subseteq Request
    /\ worker \in Seq(WriteTask \cup UserTask \cup ResumeTask)
    /\ current_user \in Users
    /\ mutations \in [Users -> Seq(Batch)]
    /\ next_batch_id \in Nat
    /\ callbacks \in [Users -> SUBSET Batch]
    /\ cache \in [Users -> Writes \cup {NoWrite}]
    /\ remote \in Remote
    /\ stored \in [Users -> Writes \cup {NoWrite}]
    /\ issued \in Writes \cup {0}
    /\ owner \in [Writes -> Users \cup {Nil}]
    /\ committed \subseteq Writes
    /\ told \in [Writes -> {"none", "ok", "error"}]
    /\ budget \in [changes : Nat, breaks : Nat, kills : Nat]

-----------------------------------------------------------------------------
(* RemoteStore, as operators on remote.  rows is the current user's queue. *)

kBatchIdUnknown == -1

NoRPC == [pipeline |-> <<>>, stream |-> NewStream, handshake_complete |-> FALSE,
          peer |-> Nil, wire |-> <<>>, handled |-> 0]

\* How many rows NextMutationBatchAfterBatchId(id) leaves behind.
RowsUpTo(rows, id) ==
    CHOOSE n \in 0..Len(rows) : \A i \in DOMAIN rows : i > n <=> rows[i].id > id

\* CanAddToWritePipeline: how many more batches there is room for.
CanAdd(r) == kMaxPendingWrites - Len(r.pipeline)

ShouldStartWriteStream(r) == ~ IsStarted(r.stream) /\ r.pipeline # <<>>

StartIfNeeded(r) ==
    IF ShouldStartWriteStream(r) THEN [r EXCEPT !.stream = Start(@)] ELSE r

\* WriteStream::WriteMutations for each batch.
Send(r, batches) ==
    [r EXCEPT !.wire = @ \o [i \in DOMAIN batches |-> batches[i].write],
              !.stream = IF batches = <<>> THEN @ ELSE CancelIdleCheck(@)]

\* AddToWritePipeline for each batch.
AddToWritePipeline(r, batches) ==
    LET r2 == [r EXCEPT !.pipeline = @ \o batches]
    IN  IF IsOpen(r.stream) /\ r.handshake_complete THEN Send(r2, batches) ELSE r2

FillWritePipeline(r, rows) ==
    LET last == IF r.pipeline = <<>> THEN kBatchIdUnknown
                ELSE r.pipeline[Len(r.pipeline)].id
        from == RowsUpTo(rows, last)
        room == CanAdd(r)
        upto == IF Len(rows) - from <= room THEN Len(rows) ELSE from + room
        r2   == AddToWritePipeline(r, SubSeq(rows, from + 1, upto))
        r3   == IF r2.pipeline = <<>> THEN [r2 EXCEPT !.stream = MarkIdle(@)] ELSE r2
    IN  StartIfNeeded(r3)

\* Close destroys the gRPC stream and, last, resets handshake_complete_.
Closed(r, stream) == [NoRPC EXCEPT !.pipeline = r.pipeline, !.stream = stream]

\* MUTANT of RestartNetwork: the pipeline of the previous user is kept.
RestartNetworkKeeping(r, rows) ==
    FillWritePipeline([NoRPC EXCEPT !.stream = InhibitBackoff(Stop(r.stream)),
                                    !.pipeline = r.pipeline], rows)

RestartNetwork(r, rows) ==
    FillWritePipeline([NoRPC EXCEPT !.stream = InhibitBackoff(Stop(r.stream))], rows)

\* OnWriteStreamClose for an error that does not condemn the write.
OnWriteStreamBroken(r) == StartIfNeeded(Closed(r, OnStreamFinish(r.stream)))

\* OnWriteStreamClose and HandleWriteError for one that does, up to the
\* moment the batch is rejected.
OnWriteStreamRefused(r) ==
    [Closed(r, InhibitBackoff(OnStreamFinish(r.stream))) EXCEPT !.pipeline = Tail(r.pipeline)]

\* Stream::RequestCredentials: a stream that has just become Starting asks
\* the provider for a token.
Requests(s, s2) ==
    IF s2.state = "Starting" /\ s2 # s
    THEN {[count |-> s2.close_count, counter |-> provider.token_counter, user |-> Nil]}
    ELSE {}

\* The write stream and the pipeline become r.
Network(r) == /\ remote' = r
              /\ tokens' = tokens \cup Requests(remote.stream, r.stream)

-----------------------------------------------------------------------------
(* The mutation queue and the callbacks. *)

BatchIds(rows) == {row.id : row \in {rows[i] : i \in DOMAIN rows}}

\* LoadNextBatchIdFromDb: one more than the largest id of any user.
LoadNextBatchId(table) ==
    LET ids == UNION {BatchIds(table[u]) : u \in Users}
    IN  IF ids = {} THEN 1 ELSE 1 + CHOOSE m \in ids : \A id \in ids : id <= m

\* MUTANT of RemoveMutationBatch: the next row goes as well.
RemoveMutationBatchAndNext(rows, id) ==
    LET i == CHOOSE i \in DOMAIN rows : rows[i].id = id
    IN  SubSeq(rows, 1, i - 1) \o SubSeq(rows, i + 2, Len(rows))

\* RemoveMutationBatch; asserts that there is such a row.
RemoveMutationBatch(rows, id) ==
    LET i == CHOOSE i \in DOMAIN rows : rows[i].id = id
    IN  SubSeq(rows, 1, i - 1) \o SubSeq(rows, i + 1, Len(rows))

\* The callbacks of the current user that NotifyUser(id) calls and erases.
Waiting(id) == {c \in callbacks[current_user] : c.id = id}

\* MUTANT of NotifyUser: the callback is called but stays registered.
NotifyUserKeeping(id, status) ==
    /\ told' = [w \in Writes |-> IF \E c \in Waiting(id) : c.write = w
                                 THEN status ELSE told[w]]
    /\ callbacks' = callbacks

NotifyUser(id, status) ==
    /\ told' = [w \in Writes |-> IF \E c \in Waiting(id) : c.write = w
                                 THEN status ELSE told[w]]
    /\ callbacks' = [callbacks EXCEPT ![current_user] = @ \ Waiting(id)]

-----------------------------------------------------------------------------
Init ==
    /\ authUser \in Users
    /\ main = <<>>
    /\ provider = [current_user |-> authUser, token_counter |-> 0]
    /\ tokens = {}
    /\ worker = <<>>
    /\ current_user = authUser
    /\ mutations = [u \in Users |-> <<>>]
    /\ next_batch_id = 1
    /\ callbacks = [u \in Users |-> {}]
    /\ cache = [u \in Users |-> NoWrite]
    /\ remote = NoRPC
    /\ stored = [u \in Users |-> NoWrite]
    /\ issued = 0
    /\ owner = [w \in Writes |-> Nil]
    /\ committed = {}
    /\ told = [w \in Writes |-> "none"]
    /\ budget = [changes |-> MaxChanges, breaks |-> MaxBreaks, kills |-> MaxKills]

Spend(what) == budget[what] > 0 /\ budget' = [budget EXCEPT ![what] = @ - 1]

-----------------------------------------------------------------------------
(* The main thread. *)

\* FirestoreClient::WriteMutations: the app writes the document of the user
\* Firestore was last told about.
WriteMutations ==
    /\ issued < MaxWrites
    /\ issued' = issued + 1
    /\ owner' = [owner EXCEPT ![issued + 1] = provider.current_user]
    /\ worker' = Append(worker, [type |-> "write", write |-> issued + 1])
    /\ UNCHANGED <<authVars, tokens, localVars, remote, stored, committed, told, budget>>

\* The observer of FIRAuthStateDidChangeInternalNotification and the
\* credential_change_listener of FirestoreClient.
AuthStateDidChange ==
    /\ main # <<>> /\ Head(main).type = "note"
    /\ LET u == Head(main).user IN
       /\ provider' = [current_user |-> u, token_counter |-> provider.token_counter + 1]
       /\ worker' = Append(worker, [type |-> "user", user |-> u])
    /\ main' = Tail(main)
    /\ UNCHANGED <<authUser, tokens, localVars, remote, stored, historyVars, budget>>

\* get_token_callback: after a change of the token it asks again, else it
\* passes the token (or the error) on to the stream.
GetTokenCallback ==
    /\ main # <<>> /\ Head(main).type = "token"
    /\ LET q == Head(main).request IN
       IF q.counter # provider.token_counter
       THEN /\ tokens' = tokens \cup {[q EXCEPT !.counter = provider.token_counter,
                                               !.user = Nil]}
            /\ UNCHANGED worker
       ELSE /\ worker' = Append(worker, [type |-> "resume", count |-> q.count,
                                         user |-> IF Head(main).ok THEN q.user ELSE Nil])
            /\ UNCHANGED tokens
    /\ main' = Tail(main)
    /\ UNCHANGED <<authUser, provider, localVars, remote, stored, historyVars, budget>>

-----------------------------------------------------------------------------
(* FIRAuth's work queue. *)

\* MUTANT of UpdateCurrentUser: the notification does not name the user.
UpdateCurrentUserUnnamed(u) ==
    /\ Spend("changes")
    /\ authUser' = u
    /\ main' = Append(main, [type |-> "note", user |-> Nil])
    /\ UNCHANGED <<provider, tokens, worker, localVars, remote, stored, historyVars>>

\* updateCurrentUser and possiblyPostAuthStateChangeNotification: a sign-in,
\* a sign-out, or (u the same user) a new token.
UpdateCurrentUser(u) ==
    /\ Spend("changes")
    /\ authUser' = u
    /\ main' = Append(main, [type |-> "note", user |-> u])
    /\ UNCHANGED <<provider, tokens, worker, localVars, remote, stored, historyVars>>

\* getTokenForcingRefresh: the user whose token will be fetched.
GetTokenForcingRefresh(q) ==
    /\ q.user = Nil
    /\ tokens' = (tokens \ {q}) \cup {[q EXCEPT !.user = authUser]}
    /\ UNCHANGED <<authVars, worker, localVars, remote, stored, historyVars, budget>>

\* The token, or an error, is there; the callback is posted to the main queue.
PostToken(q, ok) ==
    /\ q.user # Nil
    /\ main' = Append(main, [type |-> "token", request |-> q, ok |-> ok])
    /\ tokens' = tokens \ {q}
    /\ UNCHANGED <<authUser, provider, worker, localVars, remote, stored, historyVars>>

TokenFetched(q) == PostToken(q, TRUE) /\ UNCHANGED budget
TokenFailed(q) == PostToken(q, FALSE) /\ Spend("breaks")

-----------------------------------------------------------------------------
(* The worker queue: its tasks, in order, ... *)

\* SyncEngine::WriteMutations and LocalStore::WriteLocally.  insert leaves an
\* entry with the same batch id alone.
RunWriteMutations ==
    /\ worker # <<>> /\ Head(worker).type = "write"
    /\ LET batch == [id |-> next_batch_id, write |-> Head(worker).write] IN
       /\ mutations' = [mutations EXCEPT ![current_user] = Append(@, batch)]
       /\ callbacks' = [callbacks EXCEPT ![current_user] =
                            IF Waiting(batch.id) = {} THEN @ \cup {batch} ELSE @]
       /\ next_batch_id' = next_batch_id + 1
       /\ Network(FillWritePipeline(remote, mutations'[current_user]))
    /\ worker' = Tail(worker)
    /\ UNCHANGED <<authVars, current_user, cache, stored, historyVars, budget>>

\* MUTANT of HandleCredentialChange: the streams are not restarted.
HandleCredentialChangeOnStream ==
    /\ worker # <<>> /\ Head(worker).type = "user"
    /\ LET u == Head(worker).user IN
       /\ current_user' = u
       /\ next_batch_id' = IF u = current_user THEN next_batch_id ELSE LoadNextBatchId(mutations)
       /\ Network(FillWritePipeline(remote, mutations[u]))
    /\ worker' = Tail(worker)
    /\ UNCHANGED <<authVars, mutations, callbacks, cache, stored, historyVars, budget>>

\* SyncEngine::HandleCredentialChange: only a different user brings another
\* mutation queue, but the streams are always restarted.
HandleCredentialChange ==
    /\ worker # <<>> /\ Head(worker).type = "user"
    /\ LET u == Head(worker).user IN
       /\ current_user' = u
       /\ next_batch_id' = IF u = current_user THEN next_batch_id ELSE LoadNextBatchId(mutations)
       /\ Network(RestartNetwork(remote, mutations[u]))
    /\ worker' = Tail(worker)
    /\ UNCHANGED <<authVars, mutations, callbacks, cache, stored, historyVars, budget>>

\* The task that RequestCredentials enqueues, and ResumeStartWithCredentials.
ResumeStart ==
    /\ worker # <<>> /\ Head(worker).type = "resume"
    /\ LET task == Head(worker) IN
       IF task.count # remote.stream.close_count
       THEN UNCHANGED <<remote, tokens>>
       ELSE IF task.user = Nil
       THEN Network(OnWriteStreamBroken(remote))
       ELSE Network([remote EXCEPT !.peer = task.user])
    /\ worker' = Tail(worker)
    /\ UNCHANGED <<authVars, localVars, stored, historyVars, budget>>

-----------------------------------------------------------------------------
(* ... and what timers and gRPC enqueue. *)

\* The RPC is up: OnStreamStart, NotifyStreamOpen, WriteHandshake.
StreamOpen ==
    /\ remote.stream.state = "Starting" /\ remote.peer # Nil
    /\ Network([remote EXCEPT !.stream = CancelIdleCheck(OnStreamStart(@))])
    /\ UNCHANGED <<authVars, worker, localVars, stored, historyVars, budget>>

\* MUTANT of HandshakeComplete: the pipeline is not sent again.
HandshakeCompleteUnsent ==
    /\ IsOpen(remote.stream) /\ ~ remote.handshake_complete
    /\ Network([remote EXCEPT !.handshake_complete = TRUE])
    /\ UNCHANGED <<authVars, worker, localVars, stored, historyVars, budget>>

\* MUTANT of HandshakeComplete: the pipeline is sent newest first.
HandshakeCompleteReversed ==
    /\ IsOpen(remote.stream) /\ ~ remote.handshake_complete
    /\ LET n == Len(remote.pipeline) IN
       Network(Send([remote EXCEPT !.handshake_complete = TRUE],
                    [i \in 1..n |-> remote.pipeline[n + 1 - i]]))
    /\ UNCHANGED <<authVars, worker, localVars, stored, historyVars, budget>>

\* OnWriteStreamHandshakeComplete sends the pipeline, as far as it was filled.
HandshakeComplete ==
    /\ IsOpen(remote.stream) /\ ~ remote.handshake_complete
    /\ Network(Send([remote EXCEPT !.handshake_complete = TRUE], remote.pipeline))
    /\ UNCHANGED <<authVars, worker, localVars, stored, historyVars, budget>>

\* The server applies the next request.
ServerCommit ==
    /\ remote.handled < Len(remote.wire)
    /\ LET w == remote.wire[remote.handled + 1] IN
       /\ w \notin Refused
       /\ stored' = [stored EXCEPT ![owner[w]] = w]
       /\ committed' = committed \cup {w}
    /\ remote' = [remote EXCEPT !.handled = @ + 1]
    /\ UNCHANGED <<authVars, tokens, worker, localVars, issued, owner, told, budget>>

\* MUTANT of MutationResult: the answer goes to the last batch sent.
MutationResultToLast ==
    /\ remote.handled > 0
    /\ LET batch == remote.pipeline[Len(remote.wire)]
           rows  == RemoveMutationBatch(mutations[current_user], batch.id)
           r     == [remote EXCEPT !.pipeline = RemoveMutationBatch(@, batch.id),
                                   !.wire = Tail(@), !.handled = @ - 1]
       IN /\ NotifyUser(batch.id, "ok")
          /\ cache' = [cache EXCEPT ![current_user] = batch.write]
          /\ mutations' = [mutations EXCEPT ![current_user] = rows]
          /\ Network(FillWritePipeline(r, rows))
    /\ UNCHANGED <<authVars, worker, current_user, next_batch_id, stored,
                   issued, owner, committed, budget>>

\* OnWriteStreamMutationResult: the answer belongs to the first batch of the
\* pipeline; HandleSuccessfulWrite, AcknowledgeBatch, then the pipeline is
\* filled again.
MutationResult ==
    /\ remote.handled > 0
    /\ LET batch == Head(remote.pipeline)
           rows  == RemoveMutationBatch(mutations[current_user], batch.id)
           r     == [remote EXCEPT !.pipeline = Tail(@), !.wire = Tail(@), !.handled = @ - 1]
       IN /\ NotifyUser(batch.id, "ok")
          /\ cache' = [cache EXCEPT ![current_user] = batch.write]
          /\ mutations' = [mutations EXCEPT ![current_user] = rows]
          /\ Network(FillWritePipeline(r, rows))
    /\ UNCHANGED <<authVars, worker, current_user, next_batch_id, stored,
                   issued, owner, committed, budget>>

\* The server ends the stream because it refuses a write, and all replies
\* before that were read: HandleWriteError, HandleRejectedWrite, RejectBatch.
WriteError ==
    /\ remote.handled = 0 /\ remote.wire # <<>> /\ Head(remote.wire) \in Refused
    /\ LET batch == Head(remote.pipeline)
           rows  == RemoveMutationBatch(mutations[current_user], batch.id)
       IN /\ NotifyUser(batch.id, "error")
          /\ mutations' = [mutations EXCEPT ![current_user] = rows]
          /\ Network(FillWritePipeline(OnWriteStreamRefused(remote), rows))
    /\ UNCHANGED <<authVars, worker, current_user, next_batch_id, cache, stored,
                   issued, owner, committed, budget>>

\* The RPC fails for a reason that is not the write's, before or after the
\* handshake (HandleHandshakeError only forgets the stream token).
StreamBreak ==
    /\ remote.peer # Nil
    /\ Spend("breaks")
    /\ Network(OnWriteStreamBroken(remote))
    /\ UNCHANGED <<authVars, worker, localVars, stored, historyVars>>

BackoffTimer ==
    /\ remote.stream.state = "Backoff"
    /\ Network([remote EXCEPT !.stream = BackoffElapsed(@)])
    /\ UNCHANGED <<authVars, worker, localVars, stored, historyVars, budget>>

IdleTimer ==
    /\ remote.stream.idle
    /\ Network(Closed(remote, Stop(remote.stream)))
    /\ UNCHANGED <<authVars, worker, localVars, stored, historyVars, budget>>

\* The callback of the connectivity monitor.
ConnectivityChange ==
    /\ Spend("changes")
    /\ Network(RestartNetwork(remote, mutations[current_user]))
    /\ UNCHANGED <<authVars, worker, localVars, stored, historyVars>>

\* The process dies and is started again: FirestoreClient::Initialize for
\* the user FIRAuth remembers, LocalStore::Start, RemoteStore::Start.
Restart ==
    /\ Spend("kills")
    /\ main' = <<>> /\ worker' = <<>>
    /\ provider' = [current_user |-> authUser, token_counter |-> 0]
    /\ current_user' = authUser
    /\ next_batch_id' = LoadNextBatchId(mutations)
    /\ callbacks' = [u \in Users |-> {}]
    /\ remote' = FillWritePipeline(NoRPC, mutations[authUser])
    /\ tokens' = IF remote'.stream.state = "Starting"
                 THEN {[count |-> 0, counter |-> 0, user |-> Nil]} ELSE {}
    /\ UNCHANGED <<authUser, mutations, cache, stored, historyVars>>

-----------------------------------------------------------------------------
Worker == \/ RunWriteMutations \/ HandleCredentialChange \/ ResumeStart
          \/ StreamOpen \/ HandshakeComplete \/ MutationResult \/ WriteError
          \/ BackoffTimer

Main == AuthStateDidChange \/ GetTokenCallback

Auth == \E q \in tokens : GetTokenForcingRefresh(q) \/ TokenFetched(q)

Next == \/ Worker \/ Main \/ Auth \/ ServerCommit
        \/ WriteMutations
        \/ IdleTimer
        \/ \E u \in Users : UpdateCurrentUser(u)
        \/ \E q \in tokens : TokenFailed(q)
        \/ StreamBreak
        \/ ConnectivityChange
        \/ Restart

Spec == Init /\ [][Next]_vars

\* Queues run, FIRAuth and the server answer, timers fire.
FairSpec == Spec /\ WF_vars(Worker) /\ WF_vars(Main) /\ WF_vars(Auth) /\ WF_vars(ServerCommit)

-----------------------------------------------------------------------------
(* Properties *)

WritesOf(batches) == [i \in DOMAIN batches |-> batches[i].write]
Elements(seq) == {seq[i] : i \in DOMAIN seq}

\* The pipeline always holds the oldest rows of the signed-in user's queue,
\* as many as fit, and a stream is under way for them: whatever the order of
\* answers, broken streams, restarts, changes of user and new writes, no
\* write is skipped, taken twice, left behind, or taken from another user's
\* queue (FillWritePipeline continues after the last id it took).
PipelineIsHeadOfQueue ==
    LET rows == mutations[current_user]
        n    == Len(remote.pipeline)
    IN  /\ n <= Len(rows)
        /\ remote.pipeline = SubSeq(rows, 1, n)
        /\ n = Len(rows) \/ n = kMaxPendingWrites
        /\ n > 0 => IsStarted(remote.stream)

\* OnWriteStreamMutationResult takes an answer for that of the first batch in
\* the pipeline: the requests without an answer on the stream are those of
\* the pipeline, in its order, once the handshake is complete; none is sent
\* before.
RepliesMatchPipeline ==
    /\ remote.wire = IF remote.handshake_complete THEN WritesOf(remote.pipeline) ELSE <<>>
    /\ remote.handled <= Len(remote.wire)

\* The HARD_ASSERTs of the stream hold: the idle timer never stops a stream
\* that is still needed, an RPC exists only on a stream that is Starting or
\* Open, and credentials that pass the close count meet a stream that waits
\* for them.
AssertionsHold ==
    /\ remote.stream.idle => remote.pipeline = <<>>
    /\ remote.peer # Nil => remote.stream.state \in {"Starting", "Open"}
    /\ \A task \in Elements(worker) :
          task.type = "resume" /\ task.count = remote.stream.close_count
             => remote.stream.state = "Starting" /\ remote.peer = Nil

\* Batch ids are taken again after a restart or a change of user, and insert
\* does not replace a callback: still every callback waits for the row it was
\* registered with, and in a process that was not killed every write is on
\* its way to the queue, in it with its callback, or answered.
CallbacksMatchQueue ==
    /\ \A u \in Users : callbacks[u] \subseteq Elements(mutations[u])
    /\ budget.kills = MaxKills =>
          \A w \in 1..issued : \/ told[w] # "none"
                               \/ [type |-> "write", write |-> w] \in Elements(worker)
                               \/ \E c \in callbacks[owner[w]] : c.write = w

\* The app is told of success only when the server has applied the write,
\* and of an error only when it never did, although writes are sent again
\* after every interruption.
AnswersTruthful ==
    \A w \in Writes : /\ told[w] = "ok" => w \in committed
                      /\ told[w] = "error" => w \in Refused /\ w \notin committed

\* Once a user's queue is empty the server's document is the newest write
\* that was not refused, and so is the cached one: sending writes again never
\* leaves an older one on top.
LastWriteWins ==
    \A u \in Users : mutations[u] = <<>> =>
       /\ \A w \in committed : owner[w] = u => w <= stored[u]
       /\ cache[u] = stored[u]

\* The writes on a stream belong to the user whose token opened it, and so
\* does every row to the user in whose queue it is: neither a token fetched
\* before a change of user nor a write issued before it is used after it.
OwnCredentials ==
    /\ \A w \in Elements(remote.wire) : owner[w] = remote.peer
    /\ \A u \in Users : \A row \in Elements(mutations[u]) : owner[row.write] = u

\* The server applies only writes the client still keeps: one that was
\* answered is never applied again over newer ones.
AnsweredNotReapplied ==
    [][\A u \in Users : stored'[u] # stored[u]
          => stored'[u] \in Elements(WritesOf(mutations[u]))]_vars

Queue == INSTANCE WriteQueue WITH user <- current_user,
                                  queue <- [u \in Users |-> WritesOf(mutations[u])],
                                  document <- cache

\* What EditProfile and Session take for granted: the writes of a user are
\* answered in the order they were made, each once, across broken streams,
\* kills and changes of user, and all of them when the user stays.
ImplementsWriteQueue == Queue!FairSpec
=============================================================================
