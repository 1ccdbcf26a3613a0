--------------------- MODULE WritePipelineAnswers_proof ---------------------
(***************************************************************************)
(* What the app is told of its writes and what becomes of the documents:   *)
(* callbacks, answers, the order of writes, and the refinement of          *)
(* WriteQueue.                                                             *)
(***************************************************************************)
EXTENDS WritePipeline_proof

-----------------------------------------------------------------------------
(* The steps that matter here. *)

\* The steps that make a write, queue it, apply it, or answer it, and a kill.
WriteStep == \/ WriteMutations \/ RunWriteMutations \/ ServerCommit
             \/ MutationResult \/ WriteError \/ Restart

\* What is spent on changes and broken streams is not spent on kills.
LEMMA KillsKept ==
    ASSUME TypeOK, budget' = budget \/ Spend("changes") \/ Spend("breaks")
    PROVE  budget'.kills = budget.kills
BY DEF TypeOK, Spend

\* All other steps leave the queues, the documents and the history alone; no
\* write joins or leaves the worker queue, and a stream that is closed or a
\* user who changes leaves no request that the server has applied.
LEMMA OtherStep ==
    ASSUME PipelineInv, [Next]_vars, ~ WriteStep
    PROVE  /\ UNCHANGED <<mutations, callbacks, cache, stored, issued, owner, committed, told>>
           /\ budget'.kills = budget.kills
           /\ \/ remote'.handled = 0
              \/ remote'.handled = remote.handled /\ current_user' = current_user
           /\ \/ worker' = worker
              \/ worker # <<>> /\ Head(worker).type # "write" /\ worker' = Tail(worker)
              \/ \E t \in UserTask \cup ResumeTask : worker' = Append(worker, t)
<1>1. TypeOK /\ remote \in Remote
  BY DEF PipelineInv, TypeOK
<1>2. CASE UNCHANGED vars
  BY <1>2 DEF vars, authVars, localVars, historyVars
<1>3. CASE Auth \/ (\E u \in Users : UpdateCurrentUser(u)) \/ (\E q \in tokens : TokenFailed(q))
  <2>1. UNCHANGED <<worker, localVars, remote, stored, historyVars>>
    BY <1>3 DEF Auth, GetTokenForcingRefresh, TokenFetched, TokenFailed, PostToken,
                UpdateCurrentUser
  <2>2. budget' = budget \/ Spend("changes") \/ Spend("breaks")
    BY <1>3 DEF Auth, GetTokenForcingRefresh, TokenFetched, TokenFailed, PostToken,
                UpdateCurrentUser
  <2>3. budget'.kills = budget.kills
    BY <1>1, <2>2, KillsKept
  <2> QED
    BY <2>1, <2>3 DEF localVars, historyVars
<1>4. CASE Main
  <2>1. UNCHANGED <<localVars, remote, stored, historyVars, budget>>
    BY <1>4 DEF Main, AuthStateDidChange, GetTokenCallback
  <2>2. main # <<>> => Head(main) = main[1] /\ 1 \in DOMAIN main
    BY <1>1, IndicesOfTail, QueueTypes
  <2>3. worker' = worker \/ \E t \in UserTask \cup ResumeTask : worker' = Append(worker, t)
    <3>1. CASE AuthStateDidChange
      <4>1. [type |-> "user", user |-> Head(main).user] \in UserTask
        BY <1>1, <2>2, <3>1, QueueTypes DEF AuthStateDidChange, UserTask
      <4> QED
        BY <3>1, <4>1 DEF AuthStateDidChange
    <3>2. CASE GetTokenCallback
      <4> DEFINE q == Head(main).request
                 t == [type |-> "resume", count |-> q.count,
                       user |-> IF Head(main).ok THEN q.user ELSE Nil]
      <4>1. t \in ResumeTask
        BY <1>1, <2>2, <3>2, QueueTypes DEF GetTokenCallback, ResumeTask
      <4>2. worker' = worker \/ worker' = Append(worker, t)
        BY <3>2 DEF GetTokenCallback
      <4> QED
        BY <4>1, <4>2
    <3> QED
      BY <1>4, <3>1, <3>2 DEF Main
  <2> QED
    BY <2>1, <2>3 DEF localVars, historyVars
<1>5. CASE HandleCredentialChange
  <2>1. /\ worker # <<>> /\ Head(worker).type # "write" /\ worker' = Tail(worker)
        /\ UNCHANGED <<mutations, callbacks, cache, stored, historyVars, budget>>
    BY <1>5 DEF HandleCredentialChange
  <2>2. remote'.handled = 0
    BY <1>5, HandleCredentialChangeStep
  <2>3. UNCHANGED <<issued, owner, committed, told>>
    BY <2>1 DEF historyVars
  <2> QED
    BY <2>1, <2>2, <2>3
<1>6. CASE ResumeStart
  <2>1. /\ worker # <<>> /\ Head(worker).type # "write" /\ worker' = Tail(worker)
        /\ UNCHANGED <<localVars, stored, historyVars, budget>>
    BY <1>6 DEF ResumeStart
  <2>2. remote'.handled = 0 \/ remote'.handled = remote.handled
    <3>1. CASE remote' = OnWriteStreamBroken(remote)
      BY <3>1, BrokenStep
    <3>2. CASE remote' # OnWriteStreamBroken(remote)
      BY <1>1, <1>6, <3>2 DEF ResumeStart, Network, Remote
    <3> QED
      BY <3>1, <3>2
  <2> QED
    BY <2>1, <2>2 DEF localVars, historyVars
<1>7. CASE StreamOpen \/ HandshakeComplete \/ BackoffTimer \/ StreamBreak \/ IdleTimer
           \/ ConnectivityChange
  <2>1. UNCHANGED <<worker, localVars, stored, historyVars>>
    BY <1>7 DEF StreamOpen, HandshakeComplete, BackoffTimer, StreamBreak, IdleTimer,
                ConnectivityChange
  <2>2. budget' = budget \/ Spend("changes") \/ Spend("breaks")
    BY <1>7 DEF StreamOpen, HandshakeComplete, BackoffTimer, StreamBreak, IdleTimer,
                ConnectivityChange
  <2>3. budget'.kills = budget.kills
    BY <1>1, <2>2, KillsKept
  <2>4. remote'.handled = 0 \/ remote'.handled = remote.handled
    <3>1. CASE StreamOpen \/ HandshakeComplete \/ BackoffTimer
      BY <1>1, <3>1 DEF StreamOpen, HandshakeComplete, BackoffTimer, Network, Send, Remote
    <3>2. CASE StreamBreak
      BY <3>2, BrokenStep DEF StreamBreak, Network
    <3>3. CASE IdleTimer
      BY <3>3 DEF IdleTimer, Network, Closed, NoRPC
    <3>4. CASE ConnectivityChange
      BY <3>4, ConnectivityChangeStep
    <3> QED
      BY <1>7, <3>1, <3>2, <3>3, <3>4
  <2> QED
    BY <2>1, <2>3, <2>4 DEF localVars, historyVars
<1> QED
  BY <1>2, <1>3, <1>4, <1>5, <1>6, <1>7 DEF Next, Worker, WriteStep

-----------------------------------------------------------------------------
(* Callbacks. *)

\* The elements of a queue whose first entry leaves.
LEMMA ElementsTail ==
    ASSUME NEW S, NEW seq \in Seq(S), seq # <<>>
    PROVE  /\ \A e \in Elements(seq) : e = Head(seq) \/ e \in Elements(Tail(seq))
           /\ Elements(Tail(seq)) \subseteq Elements(seq)
           /\ Head(seq) \in Elements(seq)
<1>1. /\ DOMAIN seq = 1..Len(seq) /\ Len(seq) \in Nat /\ 1 \in DOMAIN seq
      /\ DOMAIN Tail(seq) = 1..Len(seq) - 1
      /\ \A i \in DOMAIN Tail(seq) : i + 1 \in DOMAIN seq /\ Tail(seq)[i] = seq[i + 1]
      /\ Head(seq) = seq[1]
  BY IndicesOfTail
<1>2. ASSUME NEW i \in DOMAIN seq PROVE seq[i] = Head(seq) \/ seq[i] \in Elements(Tail(seq))
  <2>1. CASE i = 1
    BY <1>1, <2>1
  <2>2. CASE i # 1
    <3>1. i - 1 \in DOMAIN Tail(seq) /\ (i - 1) + 1 = i
      BY <1>1, <2>2
    <3>2. Tail(seq)[i - 1] = seq[i]
      BY <1>1, <3>1
    <3> QED
      BY <3>1, <3>2 DEF Elements
  <2> QED
    BY <2>1, <2>2
<1> QED
  BY <1>1, <1>2 DEF Elements

\* The elements of a queue that an entry joins.
LEMMA ElementsAppend ==
    ASSUME NEW S, NEW seq \in Seq(S), NEW e \in S
    PROVE  Elements(Append(seq, e)) = Elements(seq) \cup {e}
<1>1. /\ DOMAIN Append(seq, e) = DOMAIN seq \cup {Len(seq) + 1}
      /\ \A i \in DOMAIN seq : Append(seq, e)[i] = seq[i]
      /\ Append(seq, e)[Len(seq) + 1] = e
  BY IndicesOfAppend
<1> QED
  BY <1>1 DEF Elements

\* Kills only ever take from the budget.
CallbacksInv == CallbacksMatchQueue /\ budget.kills <= MaxKills

\* A write of which the app has not been told: on its way to the queue, or
\* waiting with its callback.
Awaited(w) == \/ told[w] # "none"
              \/ [type |-> "write", write |-> w] \in Elements(worker)
              \/ \E c \in callbacks[owner[w]] : c.write = w

\* The app makes a write.
LEMMA CallbacksIssue ==
    ASSUME PipelineInv, UsersInv, CallbacksInv, WriteMutations
    PROVE  CallbacksInv'
<1> DEFINE t == [type |-> "write", write |-> issued + 1]
<1>1. /\ TypeOK /\ worker \in Seq(WriteTask \cup UserTask \cup ResumeTask)
      /\ issued \in Writes \cup {0} /\ issued < MaxWrites
      /\ owner \in [Writes -> Users \cup {Nil}]
  BY DEF PipelineInv, TypeOK, WriteMutations
<1>2. /\ worker' = Append(worker, t) /\ issued' = issued + 1
      /\ owner' = [owner EXCEPT ![issued + 1] = provider.current_user]
      /\ UNCHANGED <<callbacks, mutations, told, budget>>
  BY DEF WriteMutations, localVars
<1>3. Elements(worker') = Elements(worker) \cup {t}
  <2>1. t \in WriteTask
    BY <1>1, BoundsAssumption DEF WriteTask, Writes
  <2> HIDE DEF t
  <2> QED
    BY <1>1, <1>2, <2>1, ElementsAppend
<1>4. /\ issued \in Nat /\ issued + 1 \in Writes
      /\ \A w \in 1..issued : w \in Writes /\ w # issued + 1
  BY <1>1, BoundsAssumption DEF Writes
<1>5. ASSUME budget.kills = MaxKills, NEW w \in 1..issued + 1 PROVE Awaited(w)'
  <2>1. CASE w = issued + 1
    BY <1>3, <2>1 DEF Awaited
  <2>2. CASE w \in 1..issued
    <3>1. Awaited(w)
      BY <1>5, <2>2 DEF CallbacksInv, CallbacksMatchQueue, Awaited
    <3>2. owner'[w] = owner[w]
      BY <1>1, <1>2, <1>4, <2>2
    <3> QED
      BY <1>2, <1>3, <3>1, <3>2 DEF Awaited
  <2> QED
    BY <1>4, <2>1, <2>2
<1> QED
  BY <1>2, <1>5 DEF CallbacksInv, CallbacksMatchQueue, Awaited

\* The write is queued: its batch id is new, so that insert registers its
\* callback.
LEMMA CallbacksQueue ==
    ASSUME PipelineInv, UsersInv, CallbacksInv, RunWriteMutations
    PROVE  CallbacksInv'
<1> DEFINE b == [id |-> next_batch_id, write |-> Head(worker).write]
           rows == mutations[current_user]
<1>1. /\ TypeOK /\ worker \in Seq(WriteTask \cup UserTask \cup ResumeTask)
      /\ mutations \in [Users -> Seq(Batch)] /\ callbacks \in [Users -> SUBSET Batch]
      /\ current_user \in Users /\ rows \in Seq(Batch) /\ next_batch_id \in Nat
  BY DEF PipelineInv, TypeOK
<1>2. /\ worker # <<>> /\ worker' = Tail(worker) /\ Head(worker).type = "write"
      /\ UNCHANGED <<issued, owner, told, budget, provider, current_user>>
  BY DEF RunWriteMutations, authVars, historyVars
<1>3. /\ b \in Batch /\ mutations' = [mutations EXCEPT ![current_user] = Append(@, b)]
      /\ b.id = next_batch_id /\ b.write = Head(worker).write
  BY RunWriteMutationsStep
<1>4. owner[b.write] = current_user
  BY <1>1, <1>2, <1>3, TasksTail DEF UsersInv
<1>5. Waiting(b.id) = {}
  <2>1. ASSUME NEW c \in callbacks[current_user] PROVE c.id # b.id
    <3>1. PICK i \in DOMAIN rows : c = rows[i]
      BY <1>1 DEF CallbacksInv, CallbacksMatchQueue, Elements
    <3>2. rows[i].id \in Nat /\ rows[i].id < next_batch_id
      BY <1>1, RowsType DEF PipelineInv, IdsFresh
    <3> QED
      BY <1>1, <1>3, <3>1, <3>2
  <2> QED
    BY <2>1, Zenon DEF Waiting
<1>6. callbacks' = [callbacks EXCEPT ![current_user] = @ \cup {b}]
  <2>1. callbacks' = [callbacks EXCEPT ![current_user] =
                         IF Waiting(b.id) = {} THEN @ \cup {b} ELSE @]
    BY DEF RunWriteMutations
  <2> HIDE DEF b
  <2> QED
    BY <1>5, <2>1
<1> HIDE DEF b
<1>7. Elements(Append(rows, b)) = Elements(rows) \cup {b}
  BY <1>1, <1>3, ElementsAppend
<1>8. ASSUME NEW u \in Users PROVE callbacks'[u] \subseteq Elements(mutations'[u])
  <2>1. callbacks[u] \subseteq Elements(mutations[u])
    BY DEF CallbacksInv, CallbacksMatchQueue
  <2>2. CASE u = current_user
    <3>1. mutations'[u] = Append(rows, b) /\ callbacks'[u] = callbacks[u] \cup {b}
      BY <1>1, <1>3, <1>6, <2>2
    <3> QED
      BY <1>7, <2>1, <2>2, <3>1
  <2>3. CASE u # current_user
    BY <1>1, <1>3, <1>6, <2>1, <2>3
  <2> QED
    BY <2>2, <2>3
<1>9. ASSUME budget.kills = MaxKills, NEW w \in 1..issued PROVE Awaited(w)'
  <2>1. Awaited(w)
    BY <1>9 DEF CallbacksInv, CallbacksMatchQueue, Awaited
  <2>2. CASE told[w] # "none"
    BY <1>2, <2>2 DEF Awaited
  <2>3. CASE [type |-> "write", write |-> w] \in Elements(worker)
    <3>1. \/ [type |-> "write", write |-> w] = Head(worker)
          \/ [type |-> "write", write |-> w] \in Elements(Tail(worker))
      BY <1>1, <1>2, <2>3, ElementsTail
    <3>2. CASE [type |-> "write", write |-> w] = Head(worker)
      <4>1. b.write = w
        BY <1>3, <3>2
      <4>2. b \in callbacks'[owner'[w]]
        BY <1>1, <1>2, <1>4, <1>6, <4>1
      <4> QED
        BY <4>1, <4>2 DEF Awaited
    <3> QED
      BY <1>2, <3>1, <3>2 DEF Awaited
  <2>4. CASE \E c \in callbacks[owner[w]] : c.write = w
    <3>1. callbacks[owner[w]] \subseteq callbacks'[owner'[w]]
      BY <1>1, <1>2, <1>6
    <3> QED
      BY <2>4, <3>1 DEF Awaited
  <2> QED
    BY <2>1, <2>2, <2>3, <2>4 DEF Awaited
<1> QED
  BY <1>2, <1>8, <1>9 DEF CallbacksInv, CallbacksMatchQueue, Awaited

\* A write is answered: its callback is called and erased, all others wait
\* for rows that stay.
LEMMA CallbacksAnswer ==
    ASSUME PipelineInv, CallbacksInv, MutationResult \/ WriteError
    PROVE  CallbacksInv'
<1> DEFINE rows == mutations[current_user]
           id == Head(rows).id
<1>1. /\ TypeOK /\ mutations \in [Users -> Seq(Batch)] /\ callbacks \in [Users -> SUBSET Batch]
      /\ current_user \in Users /\ issued \in Nat /\ 1..issued \subseteq Writes
      /\ told \in [Writes -> {"none", "ok", "error"}]
  BY BoundsAssumption DEF PipelineInv, TypeOK, Writes
<1>2. /\ rows \in Seq(Batch) /\ rows # <<>> /\ Head(remote.pipeline) = Head(rows)
      /\ mutations' = [mutations EXCEPT ![current_user] = Tail(@)]
  BY AnswerStep
<1>3. UNCHANGED <<worker, issued, owner, budget>>
  BY DEF MutationResult, WriteError
<1>4. PICK status \in {"ok", "error"} : NotifyUser(id, status)
  BY <1>2 DEF MutationResult, WriteError
<1>5. callbacks' = [callbacks EXCEPT ![current_user] = @ \ Waiting(id)]
  BY <1>4 DEF NotifyUser
<1>6. ASSUME NEW u \in Users PROVE callbacks'[u] \subseteq Elements(mutations'[u])
  <2>1. callbacks[u] \subseteq Elements(mutations[u])
    BY DEF CallbacksInv, CallbacksMatchQueue
  <2>2. CASE u = current_user
    <3>1. mutations'[u] = Tail(rows) /\ callbacks'[u] = callbacks[u] \ Waiting(id)
      BY <1>1, <1>2, <1>5, <2>2
    <3>2. \A c \in Elements(rows) : c = Head(rows) \/ c \in Elements(Tail(rows))
      BY <1>2, ElementsTail
    <3>3. \A c \in callbacks[u] : c = Head(rows) => c \in Waiting(id)
      BY <2>2 DEF Waiting
    <3> QED
      BY <2>1, <2>2, <3>1, <3>2, <3>3
  <2>3. CASE u # current_user
    BY <1>1, <1>2, <1>5, <2>1, <2>3
  <2> QED
    BY <2>2, <2>3
<1>7. ASSUME budget.kills = MaxKills, NEW w \in 1..issued PROVE Awaited(w)'
  <2>1. Awaited(w)
    BY <1>7 DEF CallbacksInv, CallbacksMatchQueue, Awaited
  <2>2. told'[w] = IF \E c \in Waiting(id) : c.write = w THEN status ELSE told[w]
    BY <1>1, <1>4 DEF NotifyUser
  <2>3. CASE told[w] # "none"
    BY <2>2, <2>3 DEF Awaited
  <2>4. CASE [type |-> "write", write |-> w] \in Elements(worker)
    BY <1>3, <2>4 DEF Awaited
  <2>5. CASE \E c \in callbacks[owner[w]] : c.write = w
    <3>1. PICK c \in callbacks[owner[w]] : c.write = w
      BY <2>5
    <3>2. CASE owner[w] = current_user /\ c \in Waiting(id)
      BY <2>2, <3>1, <3>2 DEF Awaited
    <3>3. CASE ~ (owner[w] = current_user /\ c \in Waiting(id))
      <4>1. c \in callbacks'[owner'[w]]
        BY <1>1, <1>3, <1>5, <3>1, <3>3
      <4> QED
        BY <3>1, <4>1 DEF Awaited
    <3> QED
      BY <3>2, <3>3
  <2> QED
    BY <2>1, <2>3, <2>4, <2>5 DEF Awaited
<1> QED
  BY <1>3, <1>6, <1>7 DEF CallbacksInv, CallbacksMatchQueue, Awaited

\* Every step preserves the invariant on callbacks.
LEMMA CallbacksStep ==
    ASSUME PipelineInv, UsersInv, CallbacksInv, [Next]_vars
    PROVE  CallbacksInv'
<1>1. TypeOK /\ worker \in Seq(WriteTask \cup UserTask \cup ResumeTask)
  BY DEF PipelineInv, TypeOK
<1>2. CASE WriteMutations
  BY <1>2, CallbacksIssue
<1>3. CASE RunWriteMutations
  BY <1>3, CallbacksQueue
<1>4. CASE MutationResult \/ WriteError
  BY <1>4, CallbacksAnswer
<1>5. CASE ServerCommit
  BY <1>5 DEF ServerCommit, localVars, CallbacksInv, CallbacksMatchQueue
<1>6. CASE Restart
  <2>1. budget'.kills = budget.kills - 1 /\ budget.kills \in Nat
    BY <1>1, <1>6, SpendType DEF Restart, TypeOK
  <2>2. budget'.kills < MaxKills /\ budget'.kills <= MaxKills /\ budget'.kills # MaxKills
    BY <2>1, BoundsAssumption DEF CallbacksInv
  <2>3. \A u \in Users : callbacks'[u] = {}
    BY <1>6 DEF Restart
  <2> QED
    BY <2>2, <2>3 DEF CallbacksInv, CallbacksMatchQueue
<1>7. CASE ~ WriteStep
  <2>1. /\ UNCHANGED <<mutations, callbacks, issued, owner, told>>
        /\ budget'.kills = budget.kills
        /\ \/ worker' = worker
           \/ worker # <<>> /\ Head(worker).type # "write" /\ worker' = Tail(worker)
           \/ \E t \in UserTask \cup ResumeTask : worker' = Append(worker, t)
    BY <1>7, OtherStep
  <2>2. ASSUME NEW w, [type |-> "write", write |-> w] \in Elements(worker)
        PROVE  [type |-> "write", write |-> w] \in Elements(worker')
    <3>1. CASE worker # <<>> /\ Head(worker).type # "write" /\ worker' = Tail(worker)
      <4> DEFINE t == [type |-> "write", write |-> w]
      <4>1. t = Head(worker) \/ t \in Elements(Tail(worker))
        BY <1>1, <2>2, <3>1, ElementsTail
      <4>2. t.type = "write"
        OBVIOUS
      <4> QED
        BY <3>1, <4>1, <4>2
    <3>2. CASE \E t \in UserTask \cup ResumeTask : worker' = Append(worker, t)
      BY <1>1, <2>2, <3>2, ElementsAppend
    <3> QED
      BY <2>1, <2>2, <3>1, <3>2
  <2>3. \A w \in 1..issued : Awaited(w) => Awaited(w)'
    BY <2>1, <2>2 DEF Awaited
  <2> QED
    BY <2>1, <2>3 DEF CallbacksInv, CallbacksMatchQueue, Awaited
<1> QED
  BY <1>2, <1>3, <1>4, <1>5, <1>6, <1>7 DEF WriteStep

\* The invariant on callbacks holds in every reachable state.
THEOREM CallbacksInvariant == Spec => []CallbacksInv
<1>1. Init => CallbacksInv
  <2> SUFFICES ASSUME Init PROVE CallbacksInv
    OBVIOUS
  <2>1. /\ callbacks = [u \in Users |-> {}] /\ issued = 0 /\ budget.kills = MaxKills
        /\ MaxKills \in Nat
    BY BoundsAssumption DEF Init
  <2>2. 1..issued = {}
    BY <2>1
  <2> QED
    BY <2>1, <2>2 DEF CallbacksInv, CallbacksMatchQueue
<1>2. PipelineInv /\ UsersInv /\ CallbacksInv /\ [Next]_vars => CallbacksInv'
  BY CallbacksStep
<1> QED
  BY <1>1, <1>2, PipelineInvariant, UsersInvariant, PTL DEF Spec

\* Batch ids are used again after kills and changes of user, still every
\* callback waits for the row it was registered with, and no write of a
\* process that was not killed is forgotten.
THEOREM CallbacksCorrect == Spec => []CallbacksMatchQueue
<1>1. CallbacksInv => CallbacksMatchQueue
  BY DEF CallbacksInv
<1> QED
  BY <1>1, CallbacksInvariant, PTL

-----------------------------------------------------------------------------
(* Answers. *)

\* The requests that the server has applied are the oldest rows; what the app
\* was told is what the server did.
AnswersInv ==
    /\ committed \cap Refused = {}
    /\ \A i \in 1..remote.handled : mutations[current_user][i].write \in committed
    /\ \A w \in Writes : /\ told[w] = "ok" => w \in committed
                         /\ told[w] = "error" => w \in Refused

\* The requests on the wire and those applied, as rows of the queue.
LEMMA AppliedRows ==
    ASSUME PipelineInv
    PROVE  LET rows == mutations[current_user] IN
           /\ rows \in Seq(Batch) /\ Len(rows) \in Nat /\ DOMAIN rows = 1..Len(rows)
           /\ remote.handled \in Nat /\ remote.handled <= Len(rows)
           /\ Len(remote.wire) \in Nat /\ remote.handled <= Len(remote.wire)
           /\ Len(remote.wire) <= Len(rows)
           /\ \A i \in 1..Len(remote.wire) : remote.wire[i] = rows[i].write
<1> DEFINE rows == mutations[current_user]
<1>1. /\ rows \in Seq(Batch) /\ remote \in Remote /\ HeadOf(remote, rows) /\ Connection(remote)
  BY DEF PipelineInv, TypeOK, Serves
<1>2. /\ Len(remote.wire) \in Nat /\ Len(remote.wire) <= Len(rows) /\ Len(rows) \in Nat
      /\ \A i \in 1..Len(remote.wire) : remote.wire[i] = rows[i].write
  BY <1>1, WireIsHeadOfQueue
<1>3. remote.handled \in Nat /\ remote.handled <= Len(remote.wire)
  BY <1>1 DEF Remote, Connection
<1>4. DOMAIN rows = 1..Len(rows)
  BY <1>1, LenProperties
<1> HIDE DEF rows
<1>5. remote.handled <= Len(rows)
  BY <1>2, <1>3
<1> QED
  BY <1>1, <1>2, <1>3, <1>4, <1>5 DEF rows

\* The callbacks that an answer calls are those of the first row.
LEMMA AnswerTold ==
    ASSUME PipelineInv, CallbacksInv, NEW status,
           LET rows == mutations[current_user] IN
              rows # <<>> /\ NotifyUser(Head(rows).id, status)
    PROVE  \A w \in Writes : \/ told'[w] = told[w]
                             \/ /\ told'[w] = status
                                /\ w = Head(mutations[current_user]).write
<1> DEFINE rows == mutations[current_user]
           id == Head(rows).id
<1>1. /\ rows \in Seq(Batch) /\ Ascending(rows) /\ current_user \in Users /\ rows # <<>>
  BY DEF PipelineInv, TypeOK, IdsFresh
<1>2. /\ Len(rows) \in Nat /\ DOMAIN rows = 1..Len(rows) /\ 1 \in DOMAIN rows
      /\ Head(rows) = rows[1]
  BY <1>1, IndicesOfTail
<1>3. \A i \in DOMAIN rows : rows[i].id \in Nat
  BY <1>1, RowsType
<1>4. ASSUME NEW c \in Waiting(id) PROVE c = Head(rows)
  <2>1. PICK i \in DOMAIN rows : c = rows[i] /\ c.id = id
    BY <1>1, <1>4 DEF CallbacksInv, CallbacksMatchQueue, Elements, Waiting
  <2>2. ~ 1 < i
    BY <1>2, <1>3, <2>1, <1>1 DEF Ascending
  <2> QED
    BY <1>2, <2>1, <2>2
<1>5. \A w \in Writes : told'[w] = IF \E c \in Waiting(id) : c.write = w THEN status ELSE told[w]
  BY DEF NotifyUser
<1> QED
  BY <1>4, <1>5

\* Every step preserves the invariant on answers.
LEMMA AnswersStep ==
    ASSUME PipelineInv, CallbacksInv, AnswersInv, [Next]_vars
    PROVE  AnswersInv'
<1> DEFINE rows == mutations[current_user]
<1>1. /\ TypeOK /\ mutations \in [Users -> Seq(Batch)] /\ current_user \in Users
      /\ rows \in Seq(Batch) /\ committed \subseteq Writes
  BY DEF PipelineInv, TypeOK
<1>2. /\ Len(rows) \in Nat /\ DOMAIN rows = 1..Len(rows)
      /\ remote.handled \in Nat /\ remote.handled <= Len(rows)
      /\ Len(remote.wire) \in Nat /\ Len(remote.wire) <= Len(rows)
      /\ \A i \in 1..Len(remote.wire) : remote.wire[i] = rows[i].write
  BY AppliedRows
<1>3. /\ committed \cap Refused = {}
      /\ \A i \in 1..remote.handled : rows[i].write \in committed
      /\ \A w \in Writes : /\ told[w] = "ok" => w \in committed
                           /\ told[w] = "error" => w \in Refused
  BY DEF AnswersInv
<1> HIDE DEF rows
<1>4. CASE WriteMutations
  BY <1>3, <1>4 DEF WriteMutations, localVars, AnswersInv, rows
<1>5. CASE RunWriteMutations
  <2> DEFINE b == [id |-> next_batch_id, write |-> Head(worker).write]
  <2>1. /\ b \in Batch /\ mutations' = [mutations EXCEPT ![current_user] = Append(@, b)]
        /\ remote'.handled = remote.handled
        /\ UNCHANGED <<current_user, committed, told>>
    BY <1>5, RunWriteMutationsStep DEF RunWriteMutations, historyVars
  <2> HIDE DEF b
  <2>2. mutations'[current_user] = Append(rows, b)
    BY <1>1, <2>1 DEF rows
  <2>3. \A i \in 1..Len(rows) : Append(rows, b)[i] = rows[i]
    BY <1>1, <2>1, AppendProperties
  <2>4. \A i \in 1..remote.handled : mutations'[current_user'][i].write \in committed'
    BY <1>2, <1>3, <2>1, <2>2, <2>3
  <2> QED
    BY <1>3, <2>1, <2>4 DEF AnswersInv
<1>6. CASE ServerCommit
  <2> DEFINE w == remote.wire[remote.handled + 1]
  <2>1. /\ remote.handled + 1 \in 1..Len(remote.wire) /\ w \notin Refused
        /\ remote'.handled = remote.handled + 1
        /\ committed' = committed \cup {w} /\ UNCHANGED <<mutations, current_user, told>>
    BY <1>6, ServerCommitStep DEF ServerCommit, localVars
  <2>2. w = rows[remote.handled + 1].write
    BY <1>2, <2>1
  <2> HIDE DEF w
  <2>3. \A i \in 1..remote.handled + 1 : i \in 1..remote.handled \/ i = remote.handled + 1
    BY <1>2
  <2>4. \A i \in 1..remote'.handled : rows[i].write \in committed'
    BY <1>3, <2>1, <2>2, <2>3
  <2> QED
    BY <1>3, <2>1, <2>4 DEF AnswersInv, rows
<1>7. CASE MutationResult \/ WriteError
  <2>1. /\ rows # <<>> /\ Head(rows) \in Batch /\ rows[1] = Head(rows)
        /\ Head(remote.pipeline) = Head(rows) /\ Head(remote.wire) = Head(rows).write
        /\ mutations' = [mutations EXCEPT ![current_user] = Tail(@)]
        /\ MutationResult => remote'.handled = remote.handled - 1
        /\ WriteError => remote'.handled = 0
    BY <1>7, AnswerStep DEF rows
  <2>2. UNCHANGED <<current_user, committed>>
    BY <1>7 DEF MutationResult, WriteError
  <2>3. mutations'[current_user] = Tail(rows)
    BY <1>1, <2>1 DEF rows
  <2>4. \A i \in 1..Len(rows) - 1 : Tail(rows)[i] = rows[i + 1]
    BY <1>1, <2>1, IndicesOfTail
  <2>5. ASSUME NEW i \in 1..remote'.handled PROVE mutations'[current_user'][i].write \in committed'
    <3>1. MutationResult /\ i + 1 \in 1..remote.handled /\ i \in 1..Len(rows) - 1
      BY <1>2, <1>7, <2>1
    <3> QED
      BY <1>3, <2>2, <2>3, <2>4, <3>1
  <2>6. CASE MutationResult
    <3>1. NotifyUser(Head(rows).id, "ok") /\ 1 \in 1..remote.handled
      BY <1>2, <2>1, <2>6 DEF MutationResult
    <3>2. \A w \in Writes : told'[w] = told[w] \/ (told'[w] = "ok" /\ w = Head(rows).write)
      BY <2>1, <3>1, AnswerTold DEF rows
    <3>3. Head(rows).write \in committed
      BY <1>3, <2>1, <3>1
    <3>4. \A w \in Writes : /\ told'[w] = "ok" => w \in committed
                            /\ told'[w] = "error" => w \in Refused
      BY <1>3, <3>2, <3>3
    <3> QED
      BY <1>3, <2>2, <2>5, <3>4 DEF AnswersInv
  <2>7. CASE WriteError
    <3>1. NotifyUser(Head(rows).id, "error") /\ Head(rows).write \in Refused
      BY <2>1, <2>7 DEF WriteError
    <3>2. \A w \in Writes : told'[w] = told[w] \/ (told'[w] = "error" /\ w = Head(rows).write)
      BY <2>1, <3>1, AnswerTold DEF rows
    <3>3. \A w \in Writes : /\ told'[w] = "ok" => w \in committed
                            /\ told'[w] = "error" => w \in Refused
      BY <1>3, <3>1, <3>2
    <3> QED
      BY <1>3, <2>2, <2>5, <3>3 DEF AnswersInv
  <2> QED
    BY <1>7, <2>6, <2>7
<1>8. CASE Restart
  <2>1. remote'.handled = 0 /\ UNCHANGED <<committed, told>>
    BY <1>8, RestartStep DEF Restart, historyVars
  <2>2. 1..remote'.handled = {}
    BY <2>1
  <2> QED
    BY <1>3, <2>1, <2>2 DEF AnswersInv
<1>9. CASE ~ WriteStep
  <2>1. /\ UNCHANGED <<mutations, committed, told>>
        /\ remote'.handled = 0 \/ (remote'.handled = remote.handled
               /\ current_user' = current_user)
    BY <1>9, OtherStep
  <2>2. \A i \in 1..remote'.handled : mutations'[current_user'][i].write \in committed'
    <3>1. 1..0 = {}
      OBVIOUS
    <3> QED
      BY <1>3, <2>1, <3>1 DEF rows
  <2> QED
    BY <1>3, <2>1, <2>2 DEF AnswersInv
<1> QED
  BY <1>4, <1>5, <1>6, <1>7, <1>8, <1>9 DEF WriteStep

\* The invariant on answers holds in every reachable state.
THEOREM AnswersInvariant == Spec => []AnswersInv
<1>1. Init => AnswersInv
  <2> SUFFICES ASSUME Init PROVE AnswersInv
    OBVIOUS
  <2>1. committed = {} /\ told = [w \in Writes |-> "none"] /\ remote.handled = 0
    BY DEF Init, NoRPC
  <2>2. 1..remote.handled = {}
    BY <2>1
  <2> QED
    BY <2>1, <2>2 DEF AnswersInv
<1>2. PipelineInv /\ CallbacksInv /\ AnswersInv /\ [Next]_vars => AnswersInv'
  BY AnswersStep
<1> QED
  BY <1>1, <1>2, PipelineInvariant, CallbacksInvariant, PTL DEF Spec

\* However often a write is sent, the app is told of success only after the
\* server applied it and of an error only if it never did.
THEOREM AnswersCorrect == Spec => []AnswersTruthful
<1>1. AnswersInv => AnswersTruthful
  BY DEF AnswersInv, AnswersTruthful
<1> QED
  BY <1>1, AnswersInvariant, PTL

-----------------------------------------------------------------------------
(* The order of writes. *)

\* w is newer than everything that is queued or acknowledged.
Newest(w) ==
    \A u \in Users : /\ cache[u] < w
                     /\ \A i \in DOMAIN mutations[u] : mutations[u][i].write < w

\* Each user's rows are in the order in which the writes were made, the
\* acknowledged write is older than all of them.
RowsInOrder ==
    \A u \in Users :
       /\ cache[u] <= issued
       /\ \A i \in DOMAIN mutations[u] : /\ cache[u] < mutations[u][i].write
                                         /\ mutations[u][i].write <= issued
       /\ \A i, j \in DOMAIN mutations[u] :
             i < j => mutations[u][i].write < mutations[u][j].write

\* The writes on the worker queue are newer, and in order too.
TasksInOrder ==
    /\ \A i \in DOMAIN worker : worker[i].type = "write"
          => worker[i].write <= issued /\ Newest(worker[i].write)
    /\ \A i, j \in DOMAIN worker :
          i < j /\ worker[i].type = "write" /\ worker[j].type = "write"
             => worker[i].write < worker[j].write

OrderInv == /\ RowsInOrder
            /\ TasksInOrder
            /\ \A w \in committed : w <= issued

\* Writes are numbers.
LEMMA WriteNumbers ==
    ASSUME TypeOK
    PROVE  /\ Writes \subseteq Nat /\ 0 \notin Writes /\ NoWrite = 0
           /\ issued \in Nat
           /\ committed \subseteq Nat
           /\ \A u \in Users : cache[u] \in Nat /\ stored[u] \in Nat
           /\ \A u \in Users : \A i \in DOMAIN mutations[u] :
                 mutations[u][i].write \in Writes /\ mutations[u][i].write \in Nat
           /\ \A i \in DOMAIN worker : worker[i].type = "write" => worker[i].write \in Nat
<1>1. Writes \subseteq Nat /\ 0 \notin Writes /\ NoWrite = 0
  BY BoundsAssumption DEF Writes, NoWrite
<1>2. /\ issued \in Writes \cup {0} /\ committed \subseteq Writes
      /\ cache \in [Users -> Writes \cup {NoWrite}]
      /\ stored \in [Users -> Writes \cup {NoWrite}]
      /\ mutations \in [Users -> Seq(Batch)]
  BY DEF TypeOK
<1>3. \A u \in Users : \A i \in DOMAIN mutations[u] : mutations[u][i].write \in Writes
  BY <1>2, RowsType
<1>4. \A i \in DOMAIN worker : worker[i].type = "write" => worker[i].write \in Writes
  BY QueueTypes
<1>5. issued \in Nat /\ committed \subseteq Nat
  BY <1>1, <1>2
<1>6. \A u \in Users : cache[u] \in Nat /\ stored[u] \in Nat
  <2>1. \A u \in Users : cache[u] \in Writes \cup {NoWrite} /\ stored[u] \in Writes \cup {NoWrite}
    BY <1>2
  <2>2. Writes \cup {NoWrite} \subseteq Nat
    BY <1>1
  <2> QED
    BY <2>1, <2>2
<1> QED
  BY <1>1, <1>3, <1>4, <1>5, <1>6

\* A task leaves the worker queue; if it is a write, all others are newer.
LEMMA TasksInOrderTail ==
    ASSUME TypeOK, TasksInOrder, worker # <<>>, worker' = Tail(worker)
    PROVE  /\ \A i \in DOMAIN worker' : worker'[i].type = "write"
                 => worker'[i].write <= issued /\ Newest(worker'[i].write)
           /\ \A i, j \in DOMAIN worker' :
                 i < j /\ worker'[i].type = "write" /\ worker'[j].type = "write"
                    => worker'[i].write < worker'[j].write
           /\ Head(worker).type = "write" =>
                 /\ Head(worker).write <= issued /\ Newest(Head(worker).write)
                 /\ Head(worker).write \in Nat
                 /\ \A i \in DOMAIN worker' : worker'[i].type = "write"
                       => Head(worker).write < worker'[i].write
<1>1. /\ worker \in Seq(WriteTask \cup UserTask \cup ResumeTask)
  BY DEF TypeOK
<1>2. /\ 1 \in DOMAIN worker /\ Head(worker) = worker[1]
      /\ DOMAIN Tail(worker) = 1..Len(worker) - 1 /\ Len(worker) \in Nat
      /\ \A i \in DOMAIN Tail(worker) :
            i + 1 \in DOMAIN worker /\ Tail(worker)[i] = worker[i + 1] /\ i \in Nat
  BY <1>1, IndicesOfTail
<1>3. \A i \in DOMAIN Tail(worker) : 1 < i + 1
  BY <1>2
<1>4. \A i, j \in DOMAIN Tail(worker) : i < j => i + 1 < j + 1
  BY <1>2
<1>5. \A i \in DOMAIN worker' : worker'[i].type = "write"
         => worker'[i].write <= issued /\ Newest(worker'[i].write)
  BY <1>2 DEF TasksInOrder
<1>6. \A i, j \in DOMAIN worker' :
         i < j /\ worker'[i].type = "write" /\ worker'[j].type = "write"
            => worker'[i].write < worker'[j].write
  BY <1>2, <1>4 DEF TasksInOrder
<1>7. Head(worker).type = "write" =>
         /\ Head(worker).write <= issued /\ Newest(Head(worker).write)
         /\ Head(worker).write \in Nat
         /\ \A i \in DOMAIN worker' : worker'[i].type = "write"
               => Head(worker).write < worker'[i].write
  BY <1>2, <1>3, WriteNumbers DEF TasksInOrder
<1> QED
  BY <1>5, <1>6, <1>7

\* The app makes a write: its number is the largest.
LEMMA OrderIssue ==
    ASSUME PipelineInv, OrderInv, WriteMutations
    PROVE  OrderInv'
<1> DEFINE t == [type |-> "write", write |-> issued + 1]
<1>1. /\ TypeOK /\ worker \in Seq(WriteTask \cup UserTask \cup ResumeTask)
      /\ issued \in Writes \cup {0} /\ issued < MaxWrites
  BY DEF PipelineInv, TypeOK, WriteMutations
<1>2. /\ issued \in Nat /\ committed \subseteq Nat
      /\ \A u \in Users : cache[u] \in Nat
      /\ \A u \in Users : \A i \in DOMAIN mutations[u] : mutations[u][i].write \in Nat
      /\ \A i \in DOMAIN worker : worker[i].type = "write" => worker[i].write \in Nat
  BY <1>1, WriteNumbers
<1>3. /\ worker' = Append(worker, t) /\ issued' = issued + 1
      /\ UNCHANGED <<mutations, cache, committed>>
  BY DEF WriteMutations, localVars
<1>4. t \in WriteTask /\ t.write = issued + 1 /\ t.type = "write"
  BY <1>1, BoundsAssumption DEF WriteTask, Writes
<1> HIDE DEF t
<1>5. /\ DOMAIN worker = 1..Len(worker) /\ Len(worker) \in Nat
      /\ DOMAIN worker' = DOMAIN worker \cup {Len(worker) + 1}
      /\ \A i \in DOMAIN worker : worker'[i] = worker[i]
      /\ worker'[Len(worker) + 1] = t
  BY <1>1, <1>3, <1>4, IndicesOfAppend
<1>6. RowsInOrder' /\ \A w \in committed' : w <= issued'
  <2>1. \A n \in Nat : n <= issued => n <= issued + 1
    BY <1>2
  <2> QED
    BY <1>2, <1>3, <2>1 DEF OrderInv, RowsInOrder
<1>7. ASSUME NEW u \in Users
      PROVE  /\ cache[u] < issued + 1
             /\ \A i \in DOMAIN mutations[u] : mutations[u][i].write < issued + 1
  BY <1>2 DEF OrderInv, RowsInOrder
<1>8. ASSUME NEW i \in DOMAIN worker', worker'[i].type = "write"
      PROVE  worker'[i].write <= issued' /\ Newest(worker[i].write)'
  <2>1. CASE i \in DOMAIN worker
    <3>1. worker[i].write <= issued /\ Newest(worker[i].write) /\ worker'[i] = worker[i]
      BY <1>5, <1>8, <2>1 DEF OrderInv, TasksInOrder
    <3>2. worker[i].write <= issued'
      BY <1>2, <1>3, <1>8, <2>1, <3>1
    <3> QED
      BY <1>3, <3>1, <3>2 DEF Newest
  <2>2. CASE i = Len(worker) + 1
    <3>1. worker'[i].write = issued + 1
      BY <1>4, <1>5, <2>2
    <3>2. issued + 1 <= issued'
      BY <1>2, <1>3
    <3> QED
      BY <1>3, <1>7, <3>1, <3>2 DEF Newest
  <2> QED
    BY <1>5, <2>1, <2>2
<1>9. ASSUME NEW i \in DOMAIN worker', NEW j \in DOMAIN worker', i < j,
             worker'[i].type = "write", worker'[j].type = "write"
      PROVE  worker'[i].write < worker'[j].write
  <2>1. i \in DOMAIN worker
    BY <1>5, <1>9
  <2>2. CASE j \in DOMAIN worker
    BY <1>5, <1>9, <2>1, <2>2 DEF OrderInv, TasksInOrder
  <2>3. CASE j = Len(worker) + 1
    <3>1. worker[i].write <= issued /\ worker[i].write \in Nat
      BY <1>2, <1>5, <1>9, <2>1 DEF OrderInv, TasksInOrder
    <3>2. worker'[j].write = issued + 1 /\ worker'[i] = worker[i]
      BY <1>4, <1>5, <2>1, <2>3
    <3> QED
      BY <1>2, <3>1, <3>2
  <2> QED
    BY <1>5, <2>2, <2>3
<1>10. TasksInOrder'
  BY <1>8, <1>9 DEF TasksInOrder
<1> QED
  BY <1>6, <1>10 DEF OrderInv

\* The next write is queued: it is newer than the rows it joins and older
\* than the writes that follow it.
LEMMA OrderQueue ==
    ASSUME PipelineInv, OrderInv, RunWriteMutations
    PROVE  OrderInv'
<1> DEFINE b == [id |-> next_batch_id, write |-> Head(worker).write]
           rows == mutations[current_user]
<1>1. /\ TypeOK /\ mutations \in [Users -> Seq(Batch)] /\ current_user \in Users
      /\ rows \in Seq(Batch)
  BY DEF PipelineInv, TypeOK
<1>2. /\ worker # <<>> /\ worker' = Tail(worker) /\ Head(worker).type = "write"
      /\ UNCHANGED <<cache, issued, committed>>
  BY DEF RunWriteMutations, historyVars
<1>3. /\ b \in Batch /\ mutations' = [mutations EXCEPT ![current_user] = Append(@, b)]
      /\ b.write = Head(worker).write
  BY RunWriteMutationsStep
<1> HIDE DEF b
<1>4. /\ \A i \in DOMAIN worker' : worker'[i].type = "write"
            => worker'[i].write <= issued /\ Newest(worker'[i].write)
      /\ \A i, j \in DOMAIN worker' :
            i < j /\ worker'[i].type = "write" /\ worker'[j].type = "write"
               => worker'[i].write < worker'[j].write
      /\ b.write <= issued /\ Newest(b.write)
      /\ \A i \in DOMAIN worker' : worker'[i].type = "write" => b.write < worker'[i].write
  BY <1>1, <1>2, <1>3, TasksInOrderTail DEF OrderInv
<1>5. /\ DOMAIN rows = 1..Len(rows) /\ Len(rows) \in Nat
      /\ DOMAIN Append(rows, b) = DOMAIN rows \cup {Len(rows) + 1}
      /\ \A i \in DOMAIN rows : Append(rows, b)[i] = rows[i]
      /\ Append(rows, b)[Len(rows) + 1] = b
  BY <1>1, <1>3, IndicesOfAppend
<1>6. mutations'[current_user] = Append(rows, b)
  BY <1>1, <1>3
<1>7. \A u \in Users : u # current_user => mutations'[u] = mutations[u]
  BY <1>1, <1>3
<1>8. ASSUME NEW w, Newest(w), b.write < w PROVE Newest(w)'
  <2>1. ASSUME NEW u \in Users PROVE cache'[u] < w
    BY <1>2, <1>8 DEF Newest
  <2>2. ASSUME NEW u \in Users, NEW i \in DOMAIN mutations'[u]
        PROVE  mutations'[u][i].write < w
    <3>1. CASE u = current_user
      BY <1>5, <1>6, <1>8, <3>1 DEF Newest
    <3>2. CASE u # current_user
      BY <1>7, <1>8, <3>2 DEF Newest
    <3> QED
      BY <3>1, <3>2
  <2> QED
    BY <2>1, <2>2 DEF Newest
<1>9. TasksInOrder'
  BY <1>2, <1>4, <1>8 DEF TasksInOrder
<1>10. ASSUME NEW u \in Users
       PROVE  /\ cache[u] <= issued
              /\ \A i \in DOMAIN mutations'[u] : /\ cache[u] < mutations'[u][i].write
                                                 /\ mutations'[u][i].write <= issued
              /\ \A i, j \in DOMAIN mutations'[u] :
                    i < j => mutations'[u][i].write < mutations'[u][j].write
  <2>1. CASE u # current_user
    BY <1>7, <2>1 DEF OrderInv, RowsInOrder
  <2>2. CASE u = current_user
    <3> DEFINE new == Append(rows, b)
    <3> HIDE DEF new
    <3>1. /\ cache[u] <= issued
          /\ \A i \in DOMAIN rows : cache[u] < rows[i].write /\ rows[i].write <= issued
          /\ \A i, j \in DOMAIN rows : i < j => rows[i].write < rows[j].write
      BY <2>2 DEF OrderInv, RowsInOrder
    <3>2. cache[u] < b.write /\ \A i \in DOMAIN rows : rows[i].write < b.write
      BY <1>4, <2>2 DEF Newest
    <3>3. \A i \in DOMAIN new : cache[u] < new[i].write /\ new[i].write <= issued
      BY <1>4, <1>5, <3>1, <3>2 DEF new
    <3>4. ASSUME NEW i \in DOMAIN new, NEW j \in DOMAIN new, i < j
          PROVE  new[i].write < new[j].write
      <4>1. i \in DOMAIN rows
        BY <1>5, <3>4 DEF new
      <4>2. new[i] = rows[i]
        BY <1>5, <4>1 DEF new
      <4>3. CASE j \in DOMAIN rows
        BY <1>5, <3>1, <3>4, <4>1, <4>2, <4>3 DEF new
      <4>4. CASE j = Len(rows) + 1
        BY <1>5, <3>2, <4>1, <4>2, <4>4 DEF new
      <4> QED
        BY <1>5, <4>3, <4>4 DEF new
    <3> QED
      BY <1>6, <2>2, <3>1, <3>3, <3>4 DEF new
  <2> QED
    BY <2>1, <2>2
<1>11. RowsInOrder'
  BY <1>2, <1>10 DEF RowsInOrder
<1> QED
  BY <1>2, <1>9, <1>11 DEF OrderInv

\* The oldest row is answered; if it is acknowledged it becomes the cached
\* document.
LEMMA OrderAnswer ==
    ASSUME PipelineInv, OrderInv, MutationResult \/ WriteError
    PROVE  OrderInv'
<1> DEFINE rows == mutations[current_user]
<1>1. /\ TypeOK /\ mutations \in [Users -> Seq(Batch)] /\ current_user \in Users
      /\ cache \in [Users -> Writes \cup {NoWrite}]
  BY DEF PipelineInv, TypeOK
<1>2. /\ rows \in Seq(Batch) /\ rows # <<>> /\ Head(remote.pipeline) = Head(rows)
      /\ mutations' = [mutations EXCEPT ![current_user] = Tail(@)]
  BY AnswerStep
<1>3. UNCHANGED <<worker, issued, committed>>
  BY DEF MutationResult, WriteError
<1>4. cache' = cache \/ cache' = [cache EXCEPT ![current_user] = Head(rows).write]
  BY <1>2 DEF MutationResult, WriteError
<1>5. /\ DOMAIN rows = 1..Len(rows) /\ Len(rows) \in Nat /\ 1 \in DOMAIN rows
      /\ DOMAIN Tail(rows) = 1..Len(rows) - 1 /\ Head(rows) = rows[1]
      /\ \A i \in DOMAIN Tail(rows) : /\ i + 1 \in DOMAIN rows /\ i \in Nat /\ 1 < i + 1
                                      /\ Tail(rows)[i] = rows[i + 1]
  BY <1>2, IndicesOfTail
<1>6. mutations'[current_user] = Tail(rows)
  BY <1>1, <1>2
<1>7. \A u \in Users : u # current_user => mutations'[u] = mutations[u] /\ cache'[u] = cache[u]
  BY <1>1, <1>2, <1>4
<1>8. cache'[current_user] = cache[current_user] \/ cache'[current_user] = rows[1].write
  BY <1>1, <1>4, <1>5
<1>9. /\ cache[current_user] <= issued
      /\ \A i \in DOMAIN rows : cache[current_user] < rows[i].write /\ rows[i].write <= issued
      /\ \A i, j \in DOMAIN rows : i < j => rows[i].write < rows[j].write
  BY <1>1 DEF OrderInv, RowsInOrder
<1>10. /\ cache'[current_user] <= issued
       /\ \A i \in DOMAIN Tail(rows) : /\ cache'[current_user] < Tail(rows)[i].write
                                       /\ Tail(rows)[i].write <= issued
  BY <1>5, <1>8, <1>9
<1>11. \A i, j \in DOMAIN Tail(rows) : i < j => Tail(rows)[i].write < Tail(rows)[j].write
  <2>1. \A i, j \in DOMAIN Tail(rows) : i < j => i + 1 < j + 1
    BY <1>5
  <2> QED
    BY <1>5, <1>9, <2>1
<1>12. RowsInOrder'
  <2> SUFFICES ASSUME NEW u \in Users
               PROVE  /\ cache'[u] <= issued
                      /\ \A i \in DOMAIN mutations'[u] : /\ cache'[u] < mutations'[u][i].write
                                                         /\ mutations'[u][i].write <= issued
                      /\ \A i, j \in DOMAIN mutations'[u] :
                            i < j => mutations'[u][i].write < mutations'[u][j].write
    BY <1>3 DEF RowsInOrder
  <2>1. CASE u = current_user
    BY <1>6, <1>10, <1>11, <2>1
  <2>2. CASE u # current_user
    BY <1>7, <2>2 DEF OrderInv, RowsInOrder
  <2> QED
    BY <2>1, <2>2
<1>13. ASSUME NEW w, Newest(w) PROVE Newest(w)'
  <2> SUFFICES ASSUME NEW u \in Users
               PROVE  /\ cache'[u] < w
                      /\ \A i \in DOMAIN mutations'[u] : mutations'[u][i].write < w
    BY DEF Newest
  <2>1. CASE u = current_user
    BY <1>5, <1>6, <1>8, <1>13, <2>1 DEF Newest
  <2>2. CASE u # current_user
    BY <1>7, <1>13, <2>2 DEF Newest
  <2> QED
    BY <2>1, <2>2
<1>14. TasksInOrder'
  BY <1>3, <1>13 DEF OrderInv, TasksInOrder
<1> QED
  BY <1>3, <1>12, <1>14 DEF OrderInv

\* Every step preserves the order of writes.
LEMMA OrderStep ==
    ASSUME PipelineInv, OrderInv, [Next]_vars
    PROVE  OrderInv'
<1>1. TypeOK /\ worker \in Seq(WriteTask \cup UserTask \cup ResumeTask)
  BY DEF PipelineInv, TypeOK
<1>2. CASE WriteMutations
  BY <1>2, OrderIssue
<1>3. CASE RunWriteMutations
  BY <1>3, OrderQueue
<1>4. CASE MutationResult \/ WriteError
  BY <1>4, OrderAnswer
<1>5. CASE ServerCommit
  <2> DEFINE rows == mutations[current_user]
             w == remote.wire[remote.handled + 1]
  <2>1. /\ remote.handled + 1 \in 1..Len(remote.wire)
        /\ committed' = committed \cup {w} /\ UNCHANGED <<mutations, cache, worker, issued>>
    BY <1>5, ServerCommitStep DEF ServerCommit, localVars
  <2>2. remote.handled + 1 \in DOMAIN rows /\ w = rows[remote.handled + 1].write
    BY <2>1, AppliedRows
  <2>3. w <= issued
    BY <1>1, <2>2 DEF OrderInv, RowsInOrder, TypeOK
  <2> HIDE DEF w
  <2>4. \A v \in committed' : v <= issued'
    BY <2>1, <2>3 DEF OrderInv
  <2> QED
    BY <2>1, <2>4 DEF OrderInv, RowsInOrder, TasksInOrder, Newest
<1>6. CASE Restart
  <2>1. worker' = <<>> /\ DOMAIN worker' = {} /\ UNCHANGED <<mutations, cache, issued, committed>>
    BY <1>6 DEF Restart, historyVars
  <2> QED
    BY <2>1 DEF OrderInv, RowsInOrder, TasksInOrder
<1>7. CASE ~ WriteStep
  <2>1. /\ UNCHANGED <<mutations, cache, issued, committed>>
        /\ \/ worker' = worker
           \/ worker # <<>> /\ worker' = Tail(worker)
           \/ \E t \in UserTask \cup ResumeTask : worker' = Append(worker, t)
    BY <1>7, OtherStep
  <2>2. RowsInOrder' /\ \A w \in committed' : w <= issued'
    BY <2>1 DEF OrderInv, RowsInOrder
  <2>3. \A w : Newest(w) => Newest(w)'
    BY <2>1 DEF Newest
  <2>4. TasksInOrder'
    <3>1. CASE worker' = worker
      BY <2>1, <2>3, <3>1 DEF OrderInv, TasksInOrder
    <3>2. CASE worker # <<>> /\ worker' = Tail(worker)
      <4>1. /\ \A i \in DOMAIN worker' : worker'[i].type = "write"
                  => worker'[i].write <= issued /\ Newest(worker'[i].write)
            /\ \A i, j \in DOMAIN worker' :
                  i < j /\ worker'[i].type = "write" /\ worker'[j].type = "write"
                     => worker'[i].write < worker'[j].write
        BY <1>1, <3>2, TasksInOrderTail DEF OrderInv
      <4> QED
        BY <2>1, <2>3, <4>1 DEF TasksInOrder
    <3>3. CASE \E t \in UserTask \cup ResumeTask : worker' = Append(worker, t)
      <4>1. PICK t \in UserTask \cup ResumeTask : worker' = Append(worker, t)
        BY <3>3
      <4>2. t.type # "write"
        BY <4>1 DEF UserTask, ResumeTask
      <4>3. /\ DOMAIN worker' = DOMAIN worker \cup {Len(worker) + 1}
            /\ \A i \in DOMAIN worker : worker'[i] = worker[i]
            /\ worker'[Len(worker) + 1] = t
        BY <1>1, <4>1, IndicesOfAppend
      <4>4. \A i \in DOMAIN worker' : worker'[i].type = "write"
               => i \in DOMAIN worker /\ worker'[i] = worker[i]
        BY <4>2, <4>3
      <4> QED
        BY <2>1, <2>3, <4>4 DEF OrderInv, TasksInOrder
    <3> QED
      BY <2>1, <3>1, <3>2, <3>3
  <2> QED
    BY <2>2, <2>4 DEF OrderInv
<1> QED
  BY <1>2, <1>3, <1>4, <1>5, <1>6, <1>7 DEF WriteStep

\* Writes are queued and acknowledged in the order in which they were made.
THEOREM OrderInvariant == Spec => []OrderInv
<1>1. Init => OrderInv
  <2> SUFFICES ASSUME Init PROVE OrderInv
    OBVIOUS
  <2>1. /\ worker = <<>> /\ DOMAIN worker = {} /\ mutations = [u \in Users |-> <<>>]
        /\ cache = [u \in Users |-> NoWrite] /\ issued = 0 /\ committed = {} /\ NoWrite = 0
    BY DEF Init, NoWrite
  <2>2. RowsInOrder
    BY <2>1 DEF RowsInOrder
  <2>3. TasksInOrder
    BY <2>1 DEF TasksInOrder
  <2> QED
    BY <2>1, <2>2, <2>3 DEF OrderInv
<1>2. PipelineInv /\ OrderInv /\ [Next]_vars => OrderInv'
  BY OrderStep
<1> QED
  BY <1>1, <1>2, PipelineInvariant, PTL DEF Spec

-----------------------------------------------------------------------------
(* Documents. *)

\* w is a write of one of the rows.
Queued(rows, w) == \E i \in DOMAIN rows : w = rows[i].write

\* A user's document on the server is the cached one or a write that is still
\* queued, never an older one; and what the server has applied is neither
\* newer than the cached document nor forgotten by the client.
DocumentsInv ==
    /\ \A u \in Users : /\ stored[u] = cache[u] \/ Queued(mutations[u], stored[u])
                        /\ stored[u] \in committed \cup {NoWrite}
    /\ \A w \in committed : \A u \in Users : owner[w] = u =>
          w <= cache[u] \/ Queued(mutations[u], w)
    /\ remote.handled > 0 =>
          stored[current_user] = mutations[current_user][remote.handled].write

\* When all of a user's writes are answered, the documents agree.
LEMMA DocumentsInvMeaning ==
    ASSUME PipelineInv, DocumentsInv
    PROVE  LastWriteWins
<1> SUFFICES ASSUME NEW u \in Users, mutations[u] = <<>>
             PROVE  /\ \A w \in committed : owner[w] = u => w <= stored[u]
                    /\ cache[u] = stored[u]
  BY DEF LastWriteWins
<1>1. \A w : ~ Queued(mutations[u], w)
  BY DEF Queued
<1> QED
  BY <1>1 DEF DocumentsInv

\* A row is queued: nothing else changes.
LEMMA DocumentsQueue ==
    ASSUME PipelineInv, DocumentsInv, RunWriteMutations
    PROVE  DocumentsInv'
<1> DEFINE b == [id |-> next_batch_id, write |-> Head(worker).write]
           rows == mutations[current_user]
<1>1. /\ TypeOK /\ mutations \in [Users -> Seq(Batch)] /\ current_user \in Users
  BY DEF PipelineInv, TypeOK
<1>2. /\ b \in Batch /\ mutations' = [mutations EXCEPT ![current_user] = Append(@, b)]
      /\ remote'.handled = remote.handled
      /\ UNCHANGED <<current_user, cache, stored, owner, committed>>
  BY RunWriteMutationsStep DEF RunWriteMutations, historyVars
<1> HIDE DEF b
<1>3. /\ rows \in Seq(Batch) /\ Len(rows) \in Nat /\ DOMAIN rows = 1..Len(rows)
      /\ remote.handled \in Nat /\ remote.handled <= Len(rows)
  BY AppliedRows
<1>4. /\ DOMAIN Append(rows, b) = DOMAIN rows \cup {Len(rows) + 1}
      /\ \A i \in DOMAIN rows : Append(rows, b)[i] = rows[i]
  BY <1>2, <1>3, IndicesOfAppend
<1>5. mutations'[current_user] = Append(rows, b)
  BY <1>1, <1>2
<1>6. \A u \in Users : u # current_user => mutations'[u] = mutations[u]
  BY <1>1, <1>2
<1>7. \A u \in Users : \A w : Queued(mutations[u], w) => Queued(mutations'[u], w)
  BY <1>4, <1>5, <1>6 DEF Queued
<1>8. remote.handled > 0 => mutations'[current_user][remote.handled] = rows[remote.handled]
  BY <1>3, <1>4, <1>5
<1> QED
  BY <1>1, <1>2, <1>7, <1>8 DEF DocumentsInv

\* The server applies a request: it is a row of the user who owns it, newer
\* than the document.
LEMMA DocumentsCommit ==
    ASSUME PipelineInv, UsersInv, DocumentsInv, ServerCommit
    PROVE  LET n == remote.handled + 1
               w == mutations[current_user][n].write
           IN  /\ n \in DOMAIN mutations[current_user] /\ w \in Writes
               /\ owner[w] = current_user /\ Queued(mutations[current_user], w)
               /\ stored' = [stored EXCEPT ![current_user] = w]
               /\ DocumentsInv'
<1> DEFINE rows == mutations[current_user]
           n == remote.handled + 1
           w == rows[n].write
<1>1. /\ TypeOK /\ mutations \in [Users -> Seq(Batch)] /\ current_user \in Users
      /\ stored \in [Users -> Writes \cup {NoWrite}]
  BY DEF PipelineInv, TypeOK
<1>2. n \in DOMAIN rows /\ w = remote.wire[n] /\ remote'.handled = n /\ n > 0 /\ w \in Writes
  BY ServerCommitStep, AppliedRows
<1>3. owner[w] = current_user
  BY <1>1, <1>2 DEF UsersInv, RowsInv
<1>4. /\ stored' = [stored EXCEPT ![current_user] = w] /\ committed' = committed \cup {w}
      /\ UNCHANGED <<current_user, mutations, cache, owner>>
  BY <1>2, <1>3 DEF ServerCommit, localVars
<1>5. Queued(mutations[current_user], w)
  BY <1>2 DEF Queued
<1>6. \A u \in Users : \A v : Queued(mutations[u], v) => Queued(mutations'[u], v)
  BY <1>4 DEF Queued
<1> HIDE DEF n, w, rows
<1>7. ASSUME NEW u \in Users
      PROVE  /\ stored'[u] = cache'[u] \/ Queued(mutations'[u], stored'[u])
             /\ stored'[u] \in committed' \cup {NoWrite}
  <2>1. CASE u = current_user
    <3>1. stored'[u] = w
      BY <1>1, <1>4, <2>1
    <3>2. Queued(mutations'[u], stored'[u])
      BY <1>4, <1>5, <2>1, <3>1 DEF Queued
    <3> QED
      BY <1>4, <3>1, <3>2
  <2>2. CASE u # current_user
    <3>1. stored'[u] = stored[u] /\ mutations' = mutations /\ cache' = cache
      BY <1>1, <1>4, <2>2
    <3>2. Queued(mutations[u], stored[u]) => Queued(mutations'[u], stored'[u])
      BY <3>1 DEF Queued
    <3> QED
      BY <1>4, <3>1, <3>2 DEF DocumentsInv
  <2> QED
    BY <2>1, <2>2
<1>8. ASSUME NEW v \in committed', NEW u \in Users, owner'[v] = u
      PROVE  v <= cache'[u] \/ Queued(mutations'[u], v)
  <2>1. CASE v = w
    BY <1>3, <1>4, <1>5, <1>6, <1>8, <2>1
  <2>2. CASE v # w
    BY <1>4, <1>6, <1>8, <2>2 DEF DocumentsInv
  <2> QED
    BY <2>1, <2>2
<1>9. stored'[current_user'] = mutations'[current_user'][remote'.handled].write
  <2>1. stored'[current_user] = w
    BY <1>1, <1>4
  <2> QED
    BY <1>2, <1>4, <2>1 DEF w, rows
<1>10. DocumentsInv'
  BY <1>7, <1>8, <1>9 DEF DocumentsInv
<1> QED
  BY <1>2, <1>3, <1>4, <1>5, <1>10 DEF n, w, rows

\* The oldest row is answered.  If it is acknowledged, the document on the
\* server was that row or a newer one, and the cached document becomes it; if
\* it is refused, the server never applied it.
LEMMA DocumentsAnswer ==
    ASSUME PipelineInv, AnswersInv, OrderInv, DocumentsInv, MutationResult \/ WriteError
    PROVE  DocumentsInv'
<1> DEFINE rows == mutations[current_user]
<1>1. /\ TypeOK /\ mutations \in [Users -> Seq(Batch)] /\ current_user \in Users
      /\ cache \in [Users -> Writes \cup {NoWrite}]
  BY DEF PipelineInv, TypeOK
<1>2. /\ rows \in Seq(Batch) /\ rows # <<>> /\ Head(remote.pipeline) = Head(rows)
      /\ Head(remote.wire) = Head(rows).write
      /\ mutations' = [mutations EXCEPT ![current_user] = Tail(@)]
      /\ MutationResult => remote'.handled = remote.handled - 1
      /\ WriteError => remote'.handled = 0
  BY AnswerStep
<1>3. UNCHANGED <<current_user, stored, owner, committed>>
  BY DEF MutationResult, WriteError
<1>4. /\ DOMAIN rows = 1..Len(rows) /\ Len(rows) \in Nat /\ 1 \in DOMAIN rows
      /\ DOMAIN Tail(rows) = 1..Len(rows) - 1 /\ Head(rows) = rows[1]
      /\ \A i \in DOMAIN Tail(rows) : Tail(rows)[i] = rows[i + 1]
  BY <1>2, IndicesOfTail
<1>5. remote.handled \in Nat /\ remote.handled <= Len(rows)
  BY AppliedRows
<1>6. mutations'[current_user] = Tail(rows)
  BY <1>1, <1>2
<1>7. \A u \in Users : u # current_user => mutations'[u] = mutations[u]
  BY <1>1, <1>2
<1>8. \A u \in Users : \A w : u # current_user => (Queued(mutations'[u], w) <=>
          Queued(mutations[u], w))
  BY <1>7 DEF Queued
<1>9. ASSUME NEW i \in DOMAIN rows, i # 1 PROVE Queued(mutations'[current_user], rows[i].write)
  <2>1. i - 1 \in DOMAIN Tail(rows) /\ (i - 1) + 1 = i
    BY <1>4, <1>9
  <2>2. Tail(rows)[i - 1] = rows[i]
    BY <1>4, <2>1
  <2>3. i - 1 \in DOMAIN mutations'[current_user]
        /\ rows[i].write = mutations'[current_user][i - 1].write
    BY <1>6, <2>1, <2>2
  <2> QED
    BY <1>3, <2>3 DEF Queued
<1>10. \A w : Queued(mutations[current_user], w) => w = rows[1].write
           \/ Queued(mutations'[current_user], w)
  BY <1>9 DEF Queued
<1>11. /\ \A u \in Users : cache[u] \in Nat /\ stored[u] \in Nat
       /\ rows[1].write \in Writes /\ rows[1].write \in Nat /\ rows[1].write # NoWrite
       /\ committed \subseteq Nat
  BY <1>1, <1>4, WriteNumbers
<1>12. cache[current_user] < rows[1].write
  BY <1>1, <1>4 DEF OrderInv, RowsInOrder
<1>13. CASE MutationResult
  <2>1. cache' = [cache EXCEPT ![current_user] = rows[1].write] /\ remote.handled > 0
    BY <1>2, <1>4, <1>13 DEF MutationResult
  <2>2. cache'[current_user] = rows[1].write
    BY <1>1, <2>1
  <2>3. \A u \in Users : u # current_user => cache'[u] = cache[u]
    BY <1>1, <2>1
  <2>4. stored[current_user] = rows[remote.handled].write
    BY <2>1 DEF DocumentsInv
  <2>5. stored[current_user] = cache'[current_user]
            \/ Queued(mutations'[current_user], stored'[current_user])
    <3>1. CASE remote.handled = 1
      BY <2>2, <2>4, <3>1
    <3>2. CASE remote.handled # 1
      <4>1. remote.handled \in DOMAIN rows
        BY <1>4, <1>5, <2>1
      <4>2. Queued(mutations'[current_user], rows[remote.handled].write)
        BY <1>9, <3>2, <4>1
      <4> QED
        BY <1>3, <2>4, <4>2 DEF Queued
    <3> QED
      BY <3>1, <3>2
  <2>6. \A u \in Users : /\ stored'[u] = cache'[u] \/ Queued(mutations'[u], stored'[u])
                         /\ stored'[u] \in committed' \cup {NoWrite}
    <3>1. \A u \in Users : stored'[u] \in committed' \cup {NoWrite}
      BY <1>3 DEF DocumentsInv
    <3>2. ASSUME NEW u \in Users PROVE stored'[u] = cache'[u] \/ Queued(mutations'[u], stored'[u])
      <4>1. CASE u = current_user
        BY <1>3, <2>5, <4>1
      <4>2. CASE u # current_user
        <5>1. stored[u] = cache[u] \/ Queued(mutations[u], stored[u])
          BY DEF DocumentsInv
        <5> QED
          BY <1>3, <1>7, <2>3, <4>2, <5>1 DEF Queued
      <4> QED
        BY <4>1, <4>2
    <3> QED
      BY <3>1, <3>2
  <2>7. ASSUME NEW w \in committed, NEW u \in Users, owner[w] = u
        PROVE  w <= cache'[u] \/ Queued(mutations'[u], w)
    <3>1. w <= cache[u] \/ Queued(mutations[u], w)
      BY <2>7 DEF DocumentsInv
    <3>2. CASE u = current_user
      <4>1. w \in Nat
        BY <1>11
      <4>2. w <= cache[u] => w <= rows[1].write
        BY <1>11, <1>12, <3>2, <4>1
      <4>3. w = rows[1].write => w <= rows[1].write
        BY <1>11
      <4> QED
        BY <1>10, <2>2, <3>1, <3>2, <4>2, <4>3
    <3>3. CASE u # current_user
      BY <1>8, <2>3, <3>1, <3>3
    <3> QED
      BY <3>2, <3>3
  <2>8. remote'.handled > 0 =>
           stored[current_user] = mutations'[current_user][remote'.handled].write
    <3> SUFFICES ASSUME remote'.handled > 0
                 PROVE  Tail(rows)[remote'.handled] = rows[remote.handled]
      BY <1>6, <2>4
    <3>1. remote'.handled \in DOMAIN Tail(rows) /\ remote'.handled + 1 = remote.handled
      BY <1>2, <1>4, <1>5, <1>13
    <3> QED
      BY <1>4, <3>1
  <2> QED
    BY <1>3, <2>6, <2>7, <2>8 DEF DocumentsInv
<1>14. CASE WriteError
  <2>1. cache' = cache /\ rows[1].write \in Refused /\ ~ remote'.handled > 0
    BY <1>2, <1>4, <1>14 DEF WriteError
  <2>2. rows[1].write \notin committed
    BY <2>1 DEF AnswersInv
  <2>3. \A w \in committed \cup {NoWrite} : Queued(mutations[current_user], w) =>
            Queued(mutations'[current_user], w)
    BY <1>10, <1>11, <2>2
  <2>4. \A u \in Users : \A w \in committed \cup {NoWrite} : Queued(mutations[u], w) =>
            Queued(mutations'[u], w)
    BY <1>8, <2>3
  <2>5. ASSUME NEW u \in Users
        PROVE  /\ stored'[u] = cache'[u] \/ Queued(mutations'[u], stored'[u])
               /\ stored'[u] \in committed' \cup {NoWrite}
    <3>1. /\ stored[u] = cache[u] \/ Queued(mutations[u], stored[u])
          /\ stored[u] \in committed \cup {NoWrite}
      BY DEF DocumentsInv
    <3>2. ASSUME NEW w, w = stored[u] PROVE w = cache'[u] \/ Queued(mutations'[u], w)
      BY <2>1, <2>4, <3>1, <3>2
    <3>3. stored[u] = cache'[u] \/ \E i \in DOMAIN mutations'[u] :
              stored[u] = mutations'[u][i].write
      BY <3>2 DEF Queued
    <3> QED
      BY <1>3, <3>1, <3>3 DEF Queued
  <2>6. \A w \in committed : \A u \in Users : owner[w] = u => w <= cache[u]
            \/ Queued(mutations'[u], w)
    BY <2>4 DEF DocumentsInv
  <2> QED
    BY <1>3, <2>1, <2>5, <2>6 DEF DocumentsInv
<1> QED
  BY <1>13, <1>14

\* Every step preserves the invariant on documents.
LEMMA DocumentsStep ==
    ASSUME PipelineInv, UsersInv, AnswersInv, OrderInv, DocumentsInv, [Next]_vars
    PROVE  DocumentsInv'
<1>1. TypeOK
  BY DEF PipelineInv
<1>2. CASE WriteMutations
  <2>1. /\ issued \in Nat /\ committed \subseteq Writes /\ issued + 1 \notin committed
        /\ owner \in [Writes -> Users \cup {Nil}]
    <3>1. issued \in Nat /\ committed \subseteq Nat
      BY <1>1, WriteNumbers
    <3>2. ~ issued + 1 <= issued
      BY <3>1
    <3> QED
      BY <1>1, <3>1, <3>2 DEF OrderInv, TypeOK
  <2>2. /\ owner' = [owner EXCEPT ![issued + 1] = provider.current_user]
        /\ UNCHANGED <<mutations, cache, stored, committed, current_user, remote>>
    BY <1>2 DEF WriteMutations, localVars
  <2>3. \A w \in committed : owner'[w] = owner[w]
    BY <2>1, <2>2
  <2> QED
    BY <2>2, <2>3 DEF DocumentsInv
<1>3. CASE RunWriteMutations
  BY <1>3, DocumentsQueue
<1>4. CASE MutationResult \/ WriteError
  BY <1>4, DocumentsAnswer
<1>5. CASE ServerCommit
  BY <1>5, DocumentsCommit
<1>6. CASE Restart
  <2>1. remote'.handled = 0 /\ UNCHANGED <<mutations, cache, stored, owner, committed>>
    BY <1>6, RestartStep DEF Restart, historyVars
  <2>2. ~ remote'.handled > 0
    BY <2>1
  <2> QED
    BY <2>1, <2>2 DEF DocumentsInv
<1>7. CASE ~ WriteStep
  <2>1. /\ UNCHANGED <<mutations, cache, stored, owner, committed>>
        /\ remote'.handled = 0 \/ (remote'.handled = remote.handled
               /\ current_user' = current_user)
    BY <1>7, OtherStep
  <2>2. remote'.handled > 0 =>
           remote'.handled = remote.handled /\ current_user' = current_user
    BY <2>1
  <2> QED
    BY <2>1, <2>2 DEF DocumentsInv
<1> QED
  BY <1>2, <1>3, <1>4, <1>5, <1>6, <1>7 DEF WriteStep

\* The invariant on documents holds in every reachable state.
THEOREM DocumentsInvariant == Spec => []DocumentsInv
<1>1. Init => DocumentsInv
  <2> SUFFICES ASSUME Init PROVE DocumentsInv
    OBVIOUS
  <2>1. /\ stored = [u \in Users |-> NoWrite] /\ cache = [u \in Users |-> NoWrite]
        /\ committed = {} /\ remote.handled = 0
    BY DEF Init, NoRPC
  <2>2. ~ remote.handled > 0
    BY <2>1
  <2> QED
    BY <2>1, <2>2 DEF DocumentsInv
<1>2. PipelineInv /\ UsersInv /\ AnswersInv /\ OrderInv /\ DocumentsInv /\ [Next]_vars
         => DocumentsInv'
  BY DocumentsStep
<1> QED
  BY <1>1, <1>2, PipelineInvariant, UsersInvariant, AnswersInvariant, OrderInvariant, PTL
     DEF Spec

\* Although writes are sent again after broken streams, changes of user and
\* kills, an older one never stays on top of a newer one: a user whose writes
\* are all answered has the newest of them on the server and in the cache.
THEOREM LastWriteCorrect == Spec => []LastWriteWins
<1>1. PipelineInv /\ DocumentsInv => LastWriteWins
  BY DocumentsInvMeaning
<1> QED
  BY <1>1, PipelineInvariant, DocumentsInvariant, PTL

\* Whatever is sent again, the server only ever applies writes that the
\* client still has in the queue of the user they belong to.
THEOREM NotReappliedCorrect == Spec => AnsweredNotReapplied
<1> DEFINE A == \A u \in Users : stored'[u] # stored[u]
                   => stored'[u] \in Elements(WritesOf(mutations[u]))
<1>1. ASSUME PipelineInv, UsersInv, DocumentsInv, [Next]_vars PROVE [A]_vars
  <2>1. CASE ServerCommit
    <3> DEFINE rows == mutations[current_user]
               n == remote.handled + 1
               w == rows[n].write
    <3>1. n \in DOMAIN rows /\ stored' = [stored EXCEPT ![current_user] = w]
      BY <1>1, <2>1, DocumentsCommit
    <3>2. stored \in [Users -> Writes \cup {NoWrite}] /\ rows \in Seq(Batch)
      BY <1>1 DEF PipelineInv, TypeOK
    <3>3. n \in DOMAIN WritesOf(rows) /\ WritesOf(rows)[n] = w
      BY <3>1, <3>2, RowsType, WritesOfType
    <3>4. w \in Elements(WritesOf(rows))
      BY <3>3 DEF Elements
    <3> HIDE DEF w, n
    <3> QED
      BY <3>1, <3>2, <3>4
  <2>2. CASE ~ ServerCommit
    <3>1. stored' = stored
      <4>1. CASE ~ WriteStep
        BY <1>1, <4>1, OtherStep
      <4>2. CASE WriteStep
        BY <2>2, <4>2 DEF WriteStep, WriteMutations, RunWriteMutations, MutationResult,
                          WriteError, Restart
      <4> QED
        BY <4>1, <4>2
    <3> QED
      BY <3>1
  <2> QED
    BY <2>1, <2>2
<1>2. PipelineInv /\ UsersInv /\ DocumentsInv /\ [Next]_vars => [A]_vars
  BY <1>1
<1> QED
  BY <1>2, PipelineInvariant, UsersInvariant, DocumentsInvariant, PTL
     DEF Spec, AnsweredNotReapplied

-----------------------------------------------------------------------------
(* What is promised to the app. *)

\* Every step of the client is a step of the abstract queue, or none.
LEMMA QueueStep ==
    ASSUME PipelineInv, PipelineInv', [Next]_vars
    PROVE  [Queue!Next]_(Queue!vars)
<1> DEFINE queue(table) == [u \in Users |-> WritesOf(table[u])]
           rows == mutations[current_user]
<1>1. /\ TypeOK /\ mutations \in [Users -> Seq(Batch)] /\ current_user \in Users
      /\ current_user' \in Users /\ rows \in Seq(Batch) /\ mutations' \in [Users -> Seq(Batch)]
      /\ cache \in [Users -> Writes \cup {NoWrite}]
  BY DEF PipelineInv, TypeOK
<1>2. queue(mutations)[current_user] = WritesOf(rows)
  BY <1>1
<1>3. ASSUME NEW new, mutations' = [mutations EXCEPT ![current_user] = new]
      PROVE  queue(mutations') = [queue(mutations) EXCEPT ![current_user] = WritesOf(new)]
  BY <1>1, <1>3
<1>4. CASE RunWriteMutations
  <2> DEFINE b == [id |-> next_batch_id, write |-> Head(worker).write]
  <2>1. /\ b \in Batch /\ mutations' = [mutations EXCEPT ![current_user] = Append(rows, b)]
        /\ UNCHANGED <<current_user, cache>>
    BY <1>4, RunWriteMutationsStep DEF RunWriteMutations
  <2> HIDE DEF b
  <2>2. WritesOf(Append(rows, b)) = Append(WritesOf(rows), b.write) /\ b.write \in Writes
    BY <1>1, <2>1, WritesOfAppend DEF Batch
  <2>3. queue(mutations') = [queue(mutations) EXCEPT ![current_user] = Append(@, b.write)]
    BY <1>1, <1>2, <1>3, <2>1, <2>2
  <2>4. Queue!Enqueue(b.write)
    BY <2>1, <2>3 DEF Queue!Enqueue
  <2> QED
    BY <2>2, <2>4 DEF Queue!Next
<1>5. CASE MutationResult \/ WriteError
  <2>1. /\ rows # <<>> /\ Head(remote.pipeline) = Head(rows)
        /\ mutations' = [mutations EXCEPT ![current_user] = Tail(rows)]
    BY <1>5, AnswerStep
  <2>2. current_user' = current_user
    BY <1>5 DEF MutationResult, WriteError
  <2>3. /\ WritesOf(Tail(rows)) = Tail(WritesOf(rows))
        /\ Head(WritesOf(rows)) = Head(rows).write
        /\ WritesOf(rows) # <<>>
    <3>1. Len(WritesOf(rows)) = Len(rows) /\ Len(rows) # 0
      BY <1>1, <2>1, WritesOfType, EmptySeq
    <3> QED
      BY <1>1, <2>1, <3>1, WritesOfTail, WritesOfType
  <2>4. queue(mutations') = [queue(mutations) EXCEPT ![current_user] = Tail(@)]
    BY <1>1, <1>2, <1>3, <2>1, <2>3
  <2>5. CASE MutationResult
    <3>1. cache' = [cache EXCEPT ![current_user] = Head(WritesOf(rows))]
      BY <2>1, <2>3, <2>5 DEF MutationResult
    <3>2. Queue!Acknowledge
      BY <1>2, <2>2, <2>3, <2>4, <3>1 DEF Queue!Acknowledge
    <3> QED
      BY <3>2 DEF Queue!Next
  <2>6. CASE WriteError
    <3>1. cache' = cache
      BY <2>6 DEF WriteError
    <3>2. Queue!Reject
      BY <1>2, <2>2, <2>3, <2>4, <3>1 DEF Queue!Reject
    <3> QED
      BY <3>2 DEF Queue!Next
  <2> QED
    BY <1>5, <2>5, <2>6
<1>6. CASE ~ (RunWriteMutations \/ MutationResult \/ WriteError)
  <2>1. mutations' = mutations /\ cache' = cache
    <3>1. CASE ~ WriteStep
      BY <3>1, OtherStep
    <3>2. CASE WriteStep
      BY <1>6, <3>2 DEF WriteStep, WriteMutations, ServerCommit, Restart, localVars
    <3> QED
      BY <3>1, <3>2
  <2>2. Queue!Switch(current_user')
    BY <2>1 DEF Queue!Switch
  <2> QED
    BY <1>1, <2>2 DEF Queue!Next
<1> QED
  BY <1>4, <1>5, <1>6

\* The safety part of ImplementsWriteQueue: across broken streams, changes of
\* user and kills, the writes of a user are answered in the order they were
\* made, each once, and the cached document is the last acknowledged one.
THEOREM QueueRefined == Spec => Queue!Spec
<1>1. Init => Queue!Init
  <2> SUFFICES ASSUME Init PROVE Queue!Init
    OBVIOUS
  <2>1. /\ current_user \in Users /\ mutations = [u \in Users |-> <<>>]
        /\ cache = [u \in Users |-> NoWrite]
    BY DEF Init
  <2>2. <<>> \in Seq(Batch)
    BY EmptySeq
  <2>3. WritesOf(<<>>) = <<>>
    BY <2>2, WritesOfType
  <2>4. [u \in Users |-> WritesOf(mutations[u])] = [u \in Users |-> <<>>]
    BY <2>1, <2>3
  <2> QED
    BY <2>1, <2>4 DEF Queue!Init
<1>2. PipelineInv /\ PipelineInv' /\ [Next]_vars => [Queue!Next]_(Queue!vars)
  BY QueueStep
<1> QED
  BY <1>1, <1>2, PipelineInvariant, PTL DEF Spec, Queue!Spec
=============================================================================
