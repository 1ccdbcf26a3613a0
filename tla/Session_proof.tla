---------------------------- MODULE Session_proof ----------------------------
(***************************************************************************)
(* Sign-in, Home and the onboarding for any number of users, attempts to   *)
(* sign in, and kills.                                                     *)
(***************************************************************************)
EXTENDS Session, SequenceTheorems, TLAPS

USE DEF Queues, history

-----------------------------------------------------------------------------
(* Queues and records. *)

Items(seq) == {seq[i] : i \in DOMAIN seq}

\* The entries of a queue.
LEMMA ItemsType ==
    ASSUME NEW S, NEW seq \in Seq(S)
    PROVE  /\ Len(seq) \in Nat /\ DOMAIN seq = 1..Len(seq)
           /\ Items(seq) \subseteq S
<1>1. Len(seq) \in Nat /\ DOMAIN seq = 1..Len(seq)
  BY LenProperties
<1> QED
  BY <1>1, ElementOfSeq DEF Items

\* An empty queue, and one with a single entry.
LEMMA ItemsFew ==
    /\ Items(<<>>) = {} /\ DOMAIN <<>> = {}
    /\ \A e : Items(<<e>>) = {e}
BY DEF Items

\* An entry joins.
LEMMA ItemsAppend ==
    ASSUME NEW S, NEW seq \in Seq(S), NEW e \in S
    PROVE  /\ Append(seq, e) \in Seq(S)
           /\ DOMAIN Append(seq, e) = DOMAIN seq \cup {Len(seq) + 1}
           /\ Len(seq) + 1 \notin DOMAIN seq
           /\ \A i \in DOMAIN seq : Append(seq, e)[i] = seq[i] /\ i < Len(seq) + 1
           /\ Append(seq, e)[Len(seq) + 1] = e
           /\ Items(Append(seq, e)) = Items(seq) \cup {e}
<1> DEFINE new == Append(seq, e)
<1>1. Len(seq) \in Nat /\ DOMAIN seq = 1..Len(seq)
  BY LenProperties
<1>2. /\ new \in Seq(S) /\ Len(new) = Len(seq) + 1 /\ new[Len(seq) + 1] = e
      /\ \A i \in 1..Len(seq) : new[i] = seq[i]
  BY AppendProperties
<1> HIDE DEF new
<1>3. DOMAIN new = 1..Len(seq) + 1
  BY <1>2, LenProperties
<1>4. /\ 1..Len(seq) + 1 = 1..Len(seq) \cup {Len(seq) + 1} /\ Len(seq) + 1 \notin 1..Len(seq)
      /\ \A i \in 1..Len(seq) : i < Len(seq) + 1
  BY <1>1
<1>5. Items(new) = Items(seq) \cup {e}
  BY <1>1, <1>2, <1>3, <1>4 DEF Items
<1> QED
  BY <1>1, <1>2, <1>3, <1>4, <1>5 DEF new

\* The first entry leaves.
LEMMA ItemsTail ==
    ASSUME NEW S, NEW seq \in Seq(S), seq # <<>>
    PROVE  /\ Tail(seq) \in Seq(S) /\ Head(seq) \in S
           /\ 1 \in DOMAIN seq /\ Head(seq) = seq[1]
           /\ \A i \in DOMAIN seq : i = 1 \/ 1 < i
           /\ DOMAIN Tail(seq) = 1..Len(seq) - 1
           /\ \A i \in DOMAIN Tail(seq) : /\ i \in Nat /\ i + 1 \in DOMAIN seq /\ i + 1 # 1
                                          /\ Tail(seq)[i] = seq[i + 1]
           /\ \A i \in DOMAIN seq : i # 1 => i - 1 \in DOMAIN Tail(seq)
                  /\ Tail(seq)[i - 1] = seq[i]
           /\ Items(Tail(seq)) \subseteq Items(seq)
           /\ Head(seq) \in Items(seq)
<1>1. Len(seq) \in Nat /\ DOMAIN seq = 1..Len(seq)
  BY LenProperties
<1>2. /\ Tail(seq) \in Seq(S) /\ Len(Tail(seq)) = Len(seq) - 1 /\ Head(seq) \in S
      /\ \A i \in 1..Len(Tail(seq)) : Tail(seq)[i] = seq[i + 1]
  BY HeadTailProperties
<1>3. Len(seq) > 0 /\ DOMAIN Tail(seq) = 1..Len(seq) - 1
  BY <1>1, <1>2, EmptySeq, LenProperties
<1>4. /\ \A i \in 1..Len(seq) - 1 : i \in Nat /\ i + 1 \in 1..Len(seq) /\ i + 1 # 1
      /\ \A i \in 1..Len(seq) : i = 1 \/ 1 < i
      /\ \A i \in 1..Len(seq) : i # 1 => i - 1 \in 1..Len(seq) - 1 /\ (i - 1) + 1 = i
  BY <1>1
<1>5. 1 \in DOMAIN seq /\ Head(seq) = seq[1]
  BY <1>1, <1>3
<1>6. \A i \in DOMAIN Tail(seq) : Tail(seq)[i] = seq[i + 1]
  BY <1>2, <1>3
<1>7. \A i \in DOMAIN seq : i # 1 => i - 1 \in DOMAIN Tail(seq) /\ Tail(seq)[i - 1] = seq[i]
  BY <1>1, <1>3, <1>4, <1>6
<1>8. Items(Tail(seq)) \subseteq Items(seq) /\ Head(seq) \in Items(seq)
  BY <1>1, <1>3, <1>4, <1>5, <1>6 DEF Items
<1> QED
  BY <1>1, <1>2, <1>3, <1>4, <1>5, <1>6, <1>7, <1>8

\* The users whose profiles are being fetched.
Asked(seq) == {seq[i].uid : i \in DOMAIN seq}

\* What Asked says of a few fetches.
LEMMA AskedFew ==
    /\ Asked(<<>>) = {}
    /\ \A e : Asked(<<e>>) = {e.uid}
    /\ \A seq \in Seq(Fetch) : Asked(seq) = {e.uid : e \in Items(seq)}
    /\ \A u, b : [uid |-> u, behind |-> b].uid = u
    /\ \A u \in Users, b \in Tasks : [uid |-> u, behind |-> b] \in Fetch
BY DEF Asked, Items, Fetch

FlowKinds == {"signedIn", "signInFailed", "checked", "created", "createFailed",
              "profileWritten"}
Stages == {"idle", "putting", "locating", "authenticating", "waiting", "checking",
           "writing", "done", "trapped"}

\* A callback made by Post.
LEMMA PostType ==
    ASSUME NEW kind \in FlowKinds \cup {"presentLogin", "seenWritten"},
           NEW f \in Flows \cup {Nil}, NEW ok \in BOOLEAN
    PROVE  /\ Post(kind, f, ok) \in Callback
           /\ Post(kind, f, ok).kind = kind /\ Post(kind, f, ok).flow = f
           /\ Post(kind, f, ok).ok = ok /\ Post(kind, f, ok).user = Nil
BY DEF Post, Callback, FlowKinds

\* The counts of tasks.
LEMMA UnstoredType == TypeOK => Unstored \in Tasks /\ NoTasks \in Tasks
<1> SUFFICES ASSUME TypeOK PROVE Unstored \in Tasks /\ NoTasks \in Tasks
  OBVIOUS
<1>1. /\ writes \in [Queues -> Seq(Write)] /\ queued \in [Queues -> Nat]
      /\ \A q \in Queues : queued[q] <= Len(writes[q])
  BY DEF TypeOK
<1>2. \A q \in Queues : Len(writes[q]) \in Nat
  BY <1>1, LenProperties
<1>3. \A q \in Queues : Len(writes[q]) - queued[q] \in Nat
  BY <1>1, <1>2
<1> QED
  BY <1>3 DEF Unstored, NoTasks, Tasks

\* The two callbacks of Home.
LEMMA HomePosts ==
    /\ Post("presentLogin", Nil, TRUE) \in Callback
    /\ Post("presentLogin", Nil, TRUE).kind = "presentLogin"
    /\ Post("seenWritten", Nil, TRUE) \in Callback
    /\ Post("seenWritten", Nil, TRUE).kind = "seenWritten"
<1>1. Nil \in Flows \cup {Nil} /\ TRUE \in BOOLEAN
  OBVIOUS
<1>2. {"presentLogin", "seenWritten"} \subseteq FlowKinds \cup {"presentLogin", "seenWritten"}
  OBVIOUS
<1> QED
  BY <1>1, <1>2, PostType

\* The chain of calls of one attempt goes on, with a getDocument or another.
Moves(f, s) == Stage(f, s) \/ (s = "checking" /\ Check(f))

LEMMA StageStep ==
    ASSUME TypeOK, NEW f \in Flows, NEW s \in Stages, Moves(f, s)
    PROVE  /\ flow' \in [Flows -> FlowState]
           /\ \A g \in Flows : /\ flow'[g].chain = flow[g].chain
                               /\ flow'[g].uid = flow[g].uid
                               /\ g # f => /\ flow'[g].stage = flow[g].stage
                                           /\ flow'[g].behind = flow[g].behind
           /\ flow'[f].stage = s
           /\ Check(f) => flow'[f].behind = Unstored
<1>1. flow \in [Flows -> FlowState]
  BY DEF TypeOK
<1> DEFINE Moved(b) == [flow[f] EXCEPT !.stage = s, !.behind = b]
<1>2. PICK b \in Tasks : /\ flow' = [flow EXCEPT ![f] = Moved(b)]
                         /\ Check(f) => b = Unstored
  <2>1. CASE Check(f) /\ s = "checking"
    <3>1. Unstored \in Tasks
      BY UnstoredType
    <3>2. flow' = [flow EXCEPT ![f] = Moved(Unstored)]
      BY <1>1, <2>1 DEF Check, FlowState
    <3> QED
      BY <3>1, <3>2
  <2>2. CASE ~Check(f)
    <3>1. Stage(f, s)
      BY <2>2 DEF Moves
    <3>2. flow' = [flow EXCEPT ![f] = Moved(flow[f].behind)] /\ flow[f].behind \in Tasks
      BY <1>1, <3>1 DEF Stage, FlowState
    <3> QED
      BY <2>2, <3>2
  <2>3. CASE Check(f) /\ s # "checking"
    <3>1. Stage(f, s)
      BY <2>3 DEF Moves
    <3>2. flow'[f].stage = s /\ flow'[f].stage = "checking"
      BY <1>1, <2>3, <3>1 DEF Stage, Check, FlowState
    <3> QED
      BY <2>3, <3>2
  <2> QED
    BY <2>1, <2>2, <2>3
<1>3. Moved(b) \in FlowState
  BY <1>1 DEF FlowState, Stages
<1>4. flow' \in [Flows -> FlowState]
  BY <1>1, <1>2, <1>3
<1>5. \A g \in Flows : flow'[g] = IF g = f THEN Moved(b) ELSE flow[g]
  BY <1>1, <1>2
<1> QED
  BY <1>1, <1>2, <1>4, <1>5 DEF FlowState

NewWrite(op, u, image, done) == [op |-> op, uid |-> u, image |-> image, done |-> done]

\* The write that Enqueue makes.
LEMMA NewWriteType ==
    ASSUME NEW op \in {"create", "seen"}, NEW u \in Users,
           NEW image \in Images \cup {Nil}, NEW done \in Callback
    PROVE  /\ NewWrite(op, u, image, done) \in Write
           /\ NewWrite(op, u, image, done).op = op /\ NewWrite(op, u, image, done).uid = u
           /\ NewWrite(op, u, image, done).image = image
           /\ NewWrite(op, u, image, done).done = done
BY DEF NewWrite, Write

\* Firestore queues a write of the current user.
LEMMA EnqueueStep ==
    ASSUME TypeOK, NEW op, NEW u, NEW image, NEW done, Enqueue(op, u, image, done),
           NewWrite(op, u, image, done) \in Write
    PROVE  /\ writes' \in [Users \cup {Nil} -> Seq(Write)]
           /\ writes'[cur] = Append(writes[cur], NewWrite(op, u, image, done))
           /\ Items(writes'[cur]) = Items(writes[cur]) \cup {NewWrite(op, u, image, done)}
           /\ \A q \in Users \cup {Nil} : q # cur => writes'[q] = writes[q]
           /\ \A q \in Queues : queued[q] <= Len(writes'[q])
<1> DEFINE w == NewWrite(op, u, image, done)
<1>1. cur \in Users \cup {Nil} /\ writes \in [Users \cup {Nil} -> Seq(Write)]
  BY DEF TypeOK
<1>3. writes' = [writes EXCEPT ![cur] = Append(@, w)] /\ w \in Write
  BY DEF Enqueue, NewWrite
<1> HIDE DEF w
<1>4. /\ Append(writes[cur], w) \in Seq(Write)
      /\ Items(Append(writes[cur], w)) = Items(writes[cur]) \cup {w}
      /\ Len(Append(writes[cur], w)) = Len(writes[cur]) + 1 /\ Len(writes[cur]) \in Nat
  <2>1. writes[cur] \in Seq(Write)
    BY <1>1
  <2> QED
    BY <1>3, <2>1, ItemsAppend, AppendProperties, LenProperties
<1>5. /\ writes' \in [Users \cup {Nil} -> Seq(Write)]
      /\ writes'[cur] = Append(writes[cur], w)
      /\ \A q \in Users \cup {Nil} : q # cur => writes'[q] = writes[q]
  BY <1>1, <1>3, <1>4
<1>6. \A q \in Queues : queued[q] <= Len(writes'[q])
  <2>1. queued[cur] \in Nat /\ \A q \in Queues : queued[q] <= Len(writes[q])
    BY <1>1 DEF TypeOK
  <2>2. queued[cur] <= Len(writes'[cur])
    BY <1>1, <1>4, <1>5, <2>1
  <2> QED
    BY <1>5, <2>1, <2>2
<1> QED
  BY <1>4, <1>5, <1>6 DEF w

\* A kill keeps the writes that were stored and forgets their closures.
LEMMA RestartWrites ==
    ASSUME TypeOK, Restart
    PROVE  /\ writes' \in [Users \cup {Nil} -> Seq(Write)]
           /\ \A q \in Users \cup {Nil} :
                 /\ queued[q] \in Nat /\ Len(writes'[q]) = queued[q]
                 /\ DOMAIN writes'[q] = 1..queued[q]
                 /\ DOMAIN writes'[q] \subseteq DOMAIN writes[q]
                 /\ \A i \in DOMAIN writes'[q] :
                       /\ writes'[q][i].op = writes[q][i].op
                       /\ writes'[q][i].uid = writes[q][i].uid
                       /\ writes'[q][i].image = writes[q][i].image
                       /\ writes'[q][i].done = Nil
<1>1. /\ writes \in [Queues -> Seq(Write)] /\ queued \in [Queues -> Nat]
      /\ \A q \in Queues : queued[q] <= Len(writes[q])
  BY DEF TypeOK
<1>2. writes' = [q \in Queues |->
                   [i \in 1..queued[q] |-> [writes[q][i] EXCEPT !.done = Nil]]]
  BY DEF Restart
<1>3. ASSUME NEW q \in Users \cup {Nil}
      PROVE  /\ writes'[q] \in Seq(Write)
             /\ queued[q] \in Nat /\ Len(writes'[q]) = queued[q]
             /\ DOMAIN writes'[q] = 1..queued[q]
             /\ DOMAIN writes'[q] \subseteq DOMAIN writes[q]
             /\ \A i \in DOMAIN writes'[q] :
                   /\ writes'[q][i].op = writes[q][i].op
                   /\ writes'[q][i].uid = writes[q][i].uid
                   /\ writes'[q][i].image = writes[q][i].image
                   /\ writes'[q][i].done = Nil
  <2> DEFINE old == writes[q]
             n == queued[q]
             new == [i \in 1..n |-> [old[i] EXCEPT !.done = Nil]]
  <2>1. /\ old \in Seq(Write) /\ Len(old) \in Nat /\ DOMAIN old = 1..Len(old)
        /\ n \in Nat /\ n <= Len(old)
    BY <1>1, LenProperties
  <2>4. writes'[q] = new
    BY <1>2
  <2> HIDE DEF old, n
  <2>2. 1..n \subseteq 1..Len(old) /\ \A i \in 1..n : old[i] \in Write
    <3>1. \A i \in 1..n : i \in 1..Len(old)
      BY <2>1
    <3> QED
      BY <2>1, <3>1, ElementOfSeq
  <2>3. \A i \in 1..n : [old[i] EXCEPT !.done = Nil] \in Write
    BY <2>2 DEF Write
  <2>5. new \in Seq(Write) /\ DOMAIN new = 1..n
    BY <2>1, <2>3, IsASeq
  <2>6. \A i \in 1..n : /\ new[i].op = old[i].op /\ new[i].uid = old[i].uid
                        /\ new[i].image = old[i].image /\ new[i].done = Nil
    BY <2>2 DEF Write
  <2> HIDE DEF new
  <2>7. Len(new) = n
    BY <2>1, <2>5, LenProperties
  <2> QED
    BY <2>1, <2>2, <2>4, <2>5, <2>6, <2>7 DEF old, n
<1>4. writes' \in [Users \cup {Nil} -> Seq(Write)]
  BY <1>2, <1>3
<1> QED
  BY <1>3, <1>4

-----------------------------------------------------------------------------
(* Forms: what the closures and the writes on their way refer to. *)

\* A closure of a sign-in belongs to an attempt that was started, the one
\* that createUser answers to an attempt whose picture is in Cloud Storage; a
\* fetch brings a user.
CallbackOK(c, fl, st) ==
    /\ c.kind \in FlowKinds => c.flow \in Flows /\ fl[c.flow].stage # "idle"
    /\ c.kind = "created" => c.flow \in st
    /\ c.kind = "fetched" => c.user # Nil

\* A profile is written with a picture that exists.
WriteOK(w, fl, st) ==
    /\ w.op = "create" => w.image \in st \cup {Photo}
    /\ w.done # Nil => /\ w.done.kind \in {"profileWritten", "seenWritten"}
                       /\ CallbackOK(w.done, fl, st)

FormInv ==
    /\ TypeOK
    /\ \A u \in Users : docs[u] # Nil => docs[u].profileImageUrl \in stored \cup {Photo}
    /\ \A c \in Items(mainQ) : CallbackOK(c, flow, stored)
    /\ \A q \in Users \cup {Nil} : \A w \in Items(writes[q]) : WriteOK(w, flow, stored)
    /\ \A f \in Flows : flow[f].stage # "idle" => flow[f].uid \in Users
    /\ \A f \in Flows : flow[f].chain = "register" /\ flow[f].stage = "authenticating"
                           => f \in stored
    /\ modal = "onboarding" => homeUser # Nil

\* What the property needs.
LEMMA FormInvMeaning ==
    ASSUME FormInv
    PROVE  ProfileImageStored
BY DEF FormInv, TypeOK, ProfileImageStored, WriteOK, Items

\* Attempts do not go back to idle and pictures are not deleted: what was in
\* order stays so.
LEMMA FormsKept ==
    ASSUME stored \subseteq stored',
           \A f \in Flows : flow[f].stage # "idle" => flow'[f].stage # "idle"
    PROVE  /\ \A c : CallbackOK(c, flow, stored) => CallbackOK(c, flow', stored')
           /\ \A w : WriteOK(w, flow, stored) => WriteOK(w, flow', stored')
<1>1. \A c : CallbackOK(c, flow, stored) => CallbackOK(c, flow', stored')
  BY DEF CallbackOK
<1> QED
  BY <1>1 DEF WriteOK

\* The first closure of the main queue is taken.
LEMMA RunStep ==
    ASSUME FormInv, NEW kind, Run(kind)
    PROVE  /\ mainQ # <<>> /\ Head(mainQ) \in Callback /\ Head(mainQ).kind = kind
           /\ Head(mainQ) \in Items(mainQ)
           /\ CallbackOK(Head(mainQ), flow, stored)
           /\ mainQ' = Tail(mainQ) /\ mainQ' \in Seq(Callback)
           /\ Items(mainQ') \subseteq Items(mainQ)
           /\ kind \in FlowKinds => /\ Head(mainQ).flow \in Flows
                                    /\ flow[Head(mainQ).flow].stage # "idle"
                                    /\ flow[Head(mainQ).flow].uid \in Users
<1>1. mainQ \in Seq(Callback) /\ mainQ # <<>> /\ mainQ' = Tail(mainQ) /\ Head(mainQ).kind = kind
  BY DEF FormInv, TypeOK, Run
<1>2. /\ Head(mainQ) \in Callback /\ Head(mainQ) \in Items(mainQ)
      /\ Tail(mainQ) \in Seq(Callback) /\ Items(Tail(mainQ)) \subseteq Items(mainQ)
  BY <1>1, ItemsTail
<1>3. CallbackOK(Head(mainQ), flow, stored)
  BY <1>2 DEF FormInv
<1> QED
  BY <1>1, <1>2, <1>3 DEF FormInv, CallbackOK

\* What authenticateUSer does at a launch.
LEMMA LaunchStep ==
    ASSUME TypeOK, NEW queue, NEW fetches, AuthenticateUser(cur, queue, fetches)
    PROVE  /\ queue \in Seq(Callback) /\ fetches \in Seq(Fetch)
           /\ cur = Nil => /\ queue = <<Post("presentLogin", Nil, TRUE)>> /\ fetches = <<>>
                           /\ Items(queue) = {Post("presentLogin", Nil, TRUE)}
                           /\ Asked(fetches) = {}
           /\ cur # Nil => /\ queue = <<>>
                           /\ fetches = <<[uid |-> cur, behind |-> NoTasks]>>
                           /\ Items(queue) = {} /\ Asked(fetches) = {cur}
           /\ \A c \in Items(queue) : c.kind = "presentLogin"
<1> DEFINE p == Post("presentLogin", Nil, TRUE)
<1>1. p \in Callback /\ p.kind = "presentLogin"
  BY HomePosts
<1>2. cur \in Users \cup {Nil}
  BY DEF TypeOK
<1>3. CASE cur = Nil
  <2>1. queue = <<p>> /\ fetches = <<>>
    BY <1>3 DEF AuthenticateUser
  <2> HIDE DEF p
  <2>2. queue \in Seq(Callback) /\ fetches \in Seq(Fetch)
    BY <1>1, <2>1
  <2>3. Items(queue) = {p} /\ Asked(fetches) = {}
    BY <2>1, ItemsFew, AskedFew
  <2> QED
    BY <1>1, <1>3, <2>1, <2>2, <2>3 DEF p
<1>4. CASE cur # Nil
  <2> DEFINE e == [uid |-> cur, behind |-> NoTasks]
  <2>1. queue = <<>> /\ fetches = <<e>>
    BY <1>4 DEF AuthenticateUser
  <2>4. e \in Fetch /\ e.uid = cur
    BY <1>2, <1>4, UnstoredType, AskedFew
  <2> HIDE DEF e
  <2>2. queue \in Seq(Callback) /\ fetches \in Seq(Fetch)
    BY <2>1, <2>4
  <2>3. Items(queue) = {} /\ Asked(fetches) = {cur}
    BY <2>1, <2>4, ItemsFew, AskedFew
  <2> USE DEF e
  <2> QED
    BY <1>4, <2>1, <2>2, <2>3
<1> QED
  BY <1>3, <1>4

\* The forms at the first launch.
LEMMA FormInit == Init => FormInv
<1> SUFFICES ASSUME Init PROVE FormInv
  OBVIOUS
<1>1. /\ accounts \subseteq Users /\ cur \in Users \cup {Nil} /\ stored = {}
      /\ docs \in [Users -> Profile \cup {Nil}]
      /\ \A u \in Users : docs[u] # Nil => docs[u].profileImageUrl = Photo
      /\ tapped \subseteq Users /\ kept = tapped /\ homeUser = Nil /\ modal = "none" /\ closing = FALSE
      /\ kills = 0
  BY DEF Init, Profile, Images
<1>2. /\ writes = [u \in Users \cup {Nil} |-> <<>>] /\ <<>> \in Seq(Write)
      /\ queued \in [Queues -> Nat] /\ \A q \in Queues : queued[q] = 0
      /\ NoTasks \in Tasks
  BY DEF Init, NoTasks, Tasks
<1>3. /\ flow \in [Flows -> FlowState]
      /\ \A f \in Flows : flow[f].stage = "idle"
  BY <1>2 DEF Init, FlowState
<1>4. /\ mainQ \in Seq(Callback) /\ fetching \in Seq(Fetch)
      /\ \A c \in Items(mainQ) : c.kind = "presentLogin"
  <2> DEFINE p == Post("presentLogin", Nil, TRUE)
  <2>1. AuthenticateUser(cur, mainQ, fetching)
    BY DEF Init
  <2>2. p \in Callback /\ p.kind = "presentLogin"
    BY HomePosts
  <2>3. CASE cur = Nil
    <3>1. mainQ = <<p>> /\ fetching = <<>>
      BY <2>1, <2>3 DEF AuthenticateUser
    <3> HIDE DEF p
    <3>2. mainQ \in Seq(Callback) /\ fetching \in Seq(Fetch) /\ Items(mainQ) = {p}
      BY <2>2, <3>1, ItemsFew
    <3> QED
      BY <2>2, <3>2
  <2>4. CASE cur # Nil
    <3> DEFINE e == [uid |-> cur, behind |-> NoTasks]
    <3>1. mainQ = <<>> /\ fetching = <<e>> /\ cur \in Users
      BY <1>1, <2>1, <2>4 DEF AuthenticateUser
    <3>2. e \in Fetch
      BY <1>2, <3>1, AskedFew
    <3> HIDE DEF e
    <3> QED
      BY <3>1, <3>2, ItemsFew
  <2> QED
    BY <2>3, <2>4
<1>9. \A q \in Queues : queued[q] <= Len(writes[q])
  <2>1. \A q \in Queues : writes[q] = <<>>
    BY <1>2
  <2>2. Len(<<>>) = 0
    BY EmptySeq
  <2> QED
    BY <1>2, <2>1, <2>2
<1>5. TypeOK
  BY <1>1, <1>2, <1>3, <1>4, <1>9 DEF TypeOK
<1>6. \A q \in Users \cup {Nil} : Items(writes[q]) = {}
  BY <1>2, ItemsFew
<1>7. \A c \in Items(mainQ) : CallbackOK(c, flow, stored)
  BY <1>4 DEF CallbackOK, FlowKinds
<1> QED
  BY <1>1, <1>3, <1>5, <1>6, <1>7 DEF FormInv

\* The clauses of the invariant about attempts.
FlowsOK(fl, st) ==
    /\ fl \in [Flows -> FlowState]
    /\ \A f \in Flows : flow[f].stage # "idle" => fl[f].stage # "idle"
    /\ \A f \in Flows : fl[f].stage # "idle" => fl[f].uid \in Users
    /\ \A f \in Flows : fl[f].chain = "register" /\ fl[f].stage = "authenticating" => f \in st

\* A step that brings only closures and writes in order keeps the invariant.
LEMMA FormMove ==
    ASSUME FormInv, TypeOK', FlowsOK(flow', stored'), stored \subseteq stored',
           \A u \in Users : docs'[u] # Nil =>
              docs'[u].profileImageUrl \in stored' \cup {Photo},
           \A c \in Items(mainQ') : c \in Items(mainQ) \/ CallbackOK(c, flow', stored'),
           \A q \in Users \cup {Nil} : \A w \in Items(writes'[q]) :
              w \in Items(writes[q]) \/ WriteOK(w, flow', stored'),
           modal' = "onboarding" => homeUser' # Nil
    PROVE  FormInv'
<1>1. /\ \A c : CallbackOK(c, flow, stored) => CallbackOK(c, flow', stored')
      /\ \A w : WriteOK(w, flow, stored) => WriteOK(w, flow', stored')
  BY FormsKept DEF FlowsOK
<1>2. \A c \in Items(mainQ') : CallbackOK(c, flow', stored')
  BY <1>1 DEF FormInv
<1>3. \A q \in Users \cup {Nil} : \A w \in Items(writes'[q]) : WriteOK(w, flow', stored')
  BY <1>1 DEF FormInv
<1> QED
  BY <1>2, <1>3 DEF FormInv, FlowsOK

\* Attempts that do not move, and one that does.
LEMMA FlowsMove ==
    ASSUME FormInv, stored \subseteq stored'
    PROVE  /\ flow' = flow => FlowsOK(flow', stored')
           /\ \A f \in Flows, s \in Stages \ {"idle"} :
                 flow[f].stage # "idle" /\ Moves(f, s) /\ (s = "authenticating" => f \in stored')
                    => FlowsOK(flow', stored')
<1>1. TypeOK /\ flow \in [Flows -> FlowState]
  BY DEF FormInv, TypeOK
<1>2. flow' = flow => FlowsOK(flow', stored')
  BY <1>1 DEF FlowsOK, FormInv
<1>3. ASSUME NEW f \in Flows, NEW s \in Stages \ {"idle"}, flow[f].stage # "idle", Moves(f, s),
             s = "authenticating" => f \in stored'
      PROVE  FlowsOK(flow', stored')
  <2>1. /\ flow' \in [Flows -> FlowState]
        /\ \A g \in Flows : /\ flow'[g].chain = flow[g].chain
                            /\ flow'[g].uid = flow[g].uid
                            /\ g # f => flow'[g].stage = flow[g].stage
        /\ flow'[f].stage = s
    BY <1>1, <1>3, StageStep
  <2> QED
    BY <1>3, <2>1 DEF FlowsOK, FormInv
<1> QED
  BY <1>2, <1>3

\* The user taps, an animation ends, a picture or its URL arrives.
LEMMA FormUser ==
    ASSUME FormInv,
           \/ SignIn \/ HandleLogout \/ Logout \/ CancelLogout \/ DismissOnboarding
           \/ DismissFinished
           \/ \E f \in Flows : PutDataReply(f) \/ DownloadURLReply(f)
    PROVE  FormInv'
<1>1. TypeOK
  BY DEF FormInv
<1>2. CASE SignIn
  <2>1. PICK f \in Flows, u \in Users :
           HandleLogin(f, u) \/ HandleGoogleLogin(f, u) \/ HandleSignUp(f, u)
    BY <1>2 DEF SignIn
  <2>2. PICK chain, stage : /\ StartFlow(f, chain, u, stage)
                            /\ \/ chain \in {"email", "google"} /\ stage = "authenticating"
                               \/ chain = "register" /\ stage = "putting"
    BY <2>1 DEF HandleLogin, HandleGoogleLogin, HandleSignUp
  <2> DEFINE new == [chain |-> chain, stage |-> stage, uid |-> u, behind |-> NoTasks]
  <2>3. flow \in [Flows -> FlowState] /\ flow' = [flow EXCEPT ![f] = new]
    BY <1>1, <2>2 DEF TypeOK, StartFlow
  <2>4. /\ new \in FlowState /\ new.stage # "idle" /\ new.uid \in Users
        /\ ~ (new.chain = "register" /\ new.stage = "authenticating")
    BY <1>1, <2>2, UnstoredType DEF FlowState
  <2>5. UNCHANGED <<cur, accounts, docs, stored, writes, mainQ, fetching, homeUser, modal,
                    closing, kills, queued, tapped, kept>>
    BY <2>2 DEF StartFlow
  <2> HIDE DEF new
  <2>6. FlowsOK(flow', stored')
    BY <2>3, <2>4, <2>5 DEF FlowsOK, FormInv
  <2>7. TypeOK'
    BY <1>1, <2>5, <2>6 DEF TypeOK, FlowsOK
  <2> QED
    BY <2>5, <2>6, <2>7, FormMove DEF FormInv
<1>3. CASE HandleLogout \/ Logout \/ CancelLogout \/ DismissFinished
  <2>1. /\ UNCHANGED <<accounts, docs, stored, writes, mainQ, fetching, flow, homeUser, kills,
                       queued, tapped, kept>>
        /\ cur' \in {cur, Nil} /\ modal' \in {"sheet", "login", "none"}
               /\ closing' \in {closing, FALSE}
    BY <1>3 DEF HandleLogout, Logout, CancelLogout, DismissFinished
  <2>2. TypeOK'
    BY <1>1, <2>1 DEF TypeOK
  <2>3. FlowsOK(flow', stored')
    BY <2>1, FlowsMove
  <2> QED
    BY <2>1, <2>2, <2>3, FormMove DEF FormInv
<1>4. CASE DismissOnboarding
  <2>1. /\ UNCHANGED <<cur, accounts, docs, stored, queued, mainQ, fetching, flow, homeUser,
                       modal, kills>>
        /\ modal = "onboarding" /\ closing' = TRUE /\ tapped' = tapped \cup {homeUser.uid}
        /\ kept' = kept \cup {homeUser.uid}
    BY <1>4 DEF DismissOnboarding, Dismiss
  <2>2. homeUser \in User /\ homeUser.uid \in Users
    BY <1>1, <2>1 DEF FormInv, TypeOK, User
  <2>3. FlowsOK(flow', stored')
    BY <2>1, FlowsMove
  <2> DEFINE done == Post("seenWritten", Nil, TRUE)
  <2>4. done \in Callback /\ done.kind = "seenWritten"
    BY HomePosts
  <2>5. CallbackOK(done, flow', stored')
    BY <2>4 DEF CallbackOK, FlowKinds
  <2>6. /\ writes' \in [Users \cup {Nil} -> Seq(Write)]
        /\ \A q \in Queues : queued[q] <= Len(writes'[q])
        /\ \A q \in Users \cup {Nil} : \A w \in Items(writes'[q]) :
              w \in Items(writes[q]) \/ WriteOK(w, flow', stored')
    <3>1. CASE cur = Nil
      BY <1>1, <1>4, <3>1 DEF DismissOnboarding, TypeOK
    <3>2. CASE cur # Nil
      <4>1. Enqueue("seen", cur, Nil, done) /\ cur \in Users
        BY <1>1, <1>4, <3>2 DEF DismissOnboarding, TypeOK
      <4> HIDE DEF done
      <4> DEFINE w == NewWrite("seen", cur, Nil, done)
      <4>2. w \in Write /\ w.op = "seen" /\ w.done = done
        BY <2>4, <4>1, NewWriteType
      <4>3. /\ writes' \in [Users \cup {Nil} -> Seq(Write)]
            /\ Items(writes'[cur]) = Items(writes[cur]) \cup {w}
            /\ \A q \in Users \cup {Nil} : q # cur => writes'[q] = writes[q]
            /\ \A q \in Queues : queued[q] <= Len(writes'[q])
        BY <1>1, <4>1, <4>2, EnqueueStep
      <4> HIDE DEF w
      <4>4. WriteOK(w, flow', stored')
        BY <2>4, <2>5, <4>2 DEF WriteOK
      <4>5. ASSUME NEW q \in Users \cup {Nil}, NEW v \in Items(writes'[q])
            PROVE  v \in Items(writes[q]) \/ WriteOK(v, flow', stored')
        <5>1. CASE q = cur
          BY <4>3, <4>4, <5>1
        <5>2. CASE q # cur
          BY <4>3, <5>2
        <5> QED
          BY <5>1, <5>2
      <4> QED
        BY <4>3, <4>5
    <3> QED
      BY <3>1, <3>2
  <2>7. TypeOK'
    BY <1>1, <2>1, <2>2, <2>6 DEF TypeOK
  <2> HIDE DEF done
  <2> QED
    BY <2>1, <2>3, <2>6, <2>7, FormMove DEF FormInv
<1>5. ASSUME NEW f \in Flows, PutDataReply(f) \/ DownloadURLReply(f)
      PROVE  FormInv'
  <2>1. /\ UNCHANGED <<cur, accounts, docs, writes, mainQ, fetching, homeUser, modal, closing,
                       kills, queued, tapped, kept>>
        /\ stored \subseteq stored' /\ stored' \subseteq stored \cup {f}
        /\ flow[f].stage # "idle"
        /\ \E s \in {"locating", "authenticating", "done"} :
              Moves(f, s) /\ (s = "authenticating" => f \in stored')
    BY <1>5 DEF PutDataReply, DownloadURLReply, Moves
  <2>2. FlowsOK(flow', stored')
    BY <2>1, FlowsMove DEF Stages
  <2>3. TypeOK'
    BY <1>1, <2>1, <2>2 DEF TypeOK, FlowsOK
  <2>4. \A u \in Users : docs'[u] # Nil => docs'[u].profileImageUrl \in stored' \cup {Photo}
    BY <2>1 DEF FormInv
  <2> QED
    BY <2>1, <2>2, <2>3, <2>4, FormMove DEF FormInv
<1> QED
  BY <1>2, <1>3, <1>4, <1>5

\* At a kill every attempt that was under way ends.
LEMMA RestartFlows ==
    ASSUME FormInv, Kill \/ \E f \in Flows : CheckError(f)
    PROVE  /\ flow' \in [Flows -> FlowState]
           /\ \A f \in Flows : /\ flow'[f].chain = flow[f].chain /\ flow'[f].uid = flow[f].uid
                               /\ flow'[f].stage \in {flow[f].stage, "done", "trapped"}
                               /\ flow'[f].stage \in {"idle", "done", "trapped"}
                               /\ flow[f].stage # "idle" <=> flow'[f].stage # "idle"
<1>1. flow \in [Flows -> FlowState]
  BY DEF FormInv, TypeOK
<1>2. ASSUME NEW f \in Flows
      PROVE  /\ Abandoned[f] \in FlowState
             /\ Abandoned[f].chain = flow[f].chain /\ Abandoned[f].uid = flow[f].uid
             /\ Abandoned[f].stage \in {flow[f].stage, "done"}
             /\ Abandoned[f].stage \in {"idle", "done", "trapped"}
             /\ flow[f].stage # "idle" <=> Abandoned[f].stage # "idle"
  <2>1. NoTasks \in Tasks
    BY UnstoredType DEF FormInv
  <2> QED
    BY <1>1, <2>1 DEF Abandoned, Finished, FlowState
<1>3. Abandoned \in [Flows -> FlowState]
  BY <1>2 DEF Abandoned
<1>4. CASE Kill
  BY <1>2, <1>3, <1>4 DEF Kill
<1>5. ASSUME NEW f \in Flows, CheckError(f)
      PROVE  /\ flow' \in [Flows -> FlowState]
             /\ \A g \in Flows : /\ flow'[g].chain = flow[g].chain /\ flow'[g].uid = flow[g].uid
                                 /\ flow'[g].stage \in {flow[g].stage, "done", "trapped"}
                                 /\ flow'[g].stage \in {"idle", "done", "trapped"}
                                 /\ flow[g].stage # "idle" <=> flow'[g].stage # "idle"
  <2> DEFINE ab == Abandoned
  <2>1. /\ ab \in [Flows -> FlowState] /\ flow' = [ab EXCEPT ![f].stage = "trapped"]
        /\ flow[f].stage # "idle"
    BY <1>3, <1>5 DEF CheckError
  <2>2. \A g \in Flows : /\ ab[g].chain = flow[g].chain /\ ab[g].uid = flow[g].uid
                         /\ ab[g].stage \in {flow[g].stage, "done"}
                         /\ ab[g].stage \in {"idle", "done", "trapped"}
                         /\ flow[g].stage # "idle" <=> ab[g].stage # "idle"
    BY <1>2
  <2> HIDE DEF ab
  <2>3. [ab[f] EXCEPT !.stage = "trapped"] \in FlowState
    BY <2>1 DEF FlowState
  <2>4. \A g \in Flows : flow'[g] = IF g = f THEN [ab[g] EXCEPT !.stage = "trapped"] ELSE ab[g]
    BY <2>1
  <2>5. flow' \in [Flows -> FlowState]
    BY <2>1, <2>3
  <2>6. \A g \in Flows : /\ flow'[g].chain = ab[g].chain /\ flow'[g].uid = ab[g].uid
                         /\ flow'[g].stage = IF g = f THEN "trapped" ELSE ab[g].stage
    BY <2>1, <2>4 DEF FlowState
  <2> QED
    BY <2>1, <2>2, <2>5, <2>6
<1> QED
  BY <1>4, <1>5

\* The process dies and is launched again.
LEMMA FormRestart ==
    ASSUME FormInv, Kill \/ \E f \in Flows : CheckError(f)
    PROVE  FormInv'
<1>1. TypeOK /\ flow \in [Flows -> FlowState]
  BY DEF FormInv, TypeOK
<1>2. /\ Restart /\ kills' \in Nat
      /\ UNCHANGED <<cur, accounts, docs, queued, tapped>> /\ kept' \subseteq kept
      /\ homeUser' = Nil /\ modal' = "none" /\ closing' = FALSE
      /\ stored \subseteq stored' /\ stored' \subseteq Flows
  <2>1. Restart /\ (kills' = kills + 1 \/ kills' = kills)
    BY DEF Kill, CheckError
  <2>2. kills' \in Nat /\ stored \subseteq Flows
    BY <1>1, <2>1 DEF TypeOK
  <2> QED
    BY <2>1, <2>2 DEF Restart
<1>3. /\ flow' \in [Flows -> FlowState]
      /\ \A f \in Flows : /\ flow'[f].chain = flow[f].chain /\ flow'[f].uid = flow[f].uid
                          /\ flow'[f].stage \in {flow[f].stage, "done", "trapped"}
                          /\ flow'[f].stage \in {"idle", "done", "trapped"}
                          /\ flow[f].stage # "idle" <=> flow'[f].stage # "idle"
  BY RestartFlows
<1>4. FlowsOK(flow', stored')
  BY <1>3 DEF FlowsOK, FormInv
<1>5. /\ mainQ' \in Seq(Callback) /\ fetching' \in Seq(Fetch)
      /\ \A c \in Items(mainQ') : c.kind = "presentLogin"
  <2>1. AuthenticateUser(cur, mainQ', fetching')
    BY <1>2 DEF Restart
  <2> QED
    BY <1>1, <2>1, LaunchStep
<1>6. /\ writes' \in [Users \cup {Nil} -> Seq(Write)]
      /\ \A q \in Users \cup {Nil} :
            /\ queued[q] \in Nat /\ Len(writes'[q]) = queued[q]
            /\ DOMAIN writes'[q] \subseteq DOMAIN writes[q]
            /\ \A i \in DOMAIN writes'[q] :
                  /\ writes'[q][i].op = writes[q][i].op
                  /\ writes'[q][i].image = writes[q][i].image
                  /\ writes'[q][i].done = Nil
  BY <1>1, <1>2, RestartWrites
<1>7. \A c \in Items(mainQ') : CallbackOK(c, flow', stored')
  BY <1>5 DEF CallbackOK, FlowKinds
<1>8. ASSUME NEW q \in Users \cup {Nil}, NEW w \in Items(writes'[q])
      PROVE  WriteOK(w, flow', stored')
  <2>1. PICK i \in DOMAIN writes'[q] : w = writes'[q][i]
    BY DEF Items
  <2>2. WriteOK(writes[q][i], flow, stored)
    BY <1>6 DEF FormInv, Items
  <2> QED
    BY <1>2, <1>6, <2>1, <2>2 DEF WriteOK
<1>9. TypeOK'
  <2>1. \A q \in Queues : queued'[q] <= Len(writes'[q])
    BY <1>2, <1>6
  <2> QED
    BY <1>1, <1>2, <1>3, <1>5, <1>6, <2>1 DEF TypeOK
<1>10. \A u \in Users : docs'[u] # Nil => docs'[u].profileImageUrl \in stored' \cup {Photo}
  BY <1>2 DEF FormInv
<1> QED
  BY <1>2, <1>4, <1>7, <1>8, <1>9, <1>10, FormMove

\* A service answers an attempt: its closure is posted.
LEMMA FormAnswer ==
    ASSUME FormInv, NEW f \in Flows, AuthReply(f) \/ AuthError(f) \/ CheckReply(f)
    PROVE  FormInv'
<1>1. TypeOK /\ mainQ \in Seq(Callback) /\ flow \in [Flows -> FlowState]
  BY DEF FormInv, TypeOK
<1>2. /\ UNCHANGED <<docs, stored, writes, fetching, homeUser, modal, closing, kills, queued, tapped, kept>>
      /\ flow[f].stage # "idle" /\ Moves(f, "waiting")
  BY DEF AuthReply, AuthError, CheckReply, Moves
<1>3. flow[f].uid \in Users
  BY <1>2 DEF FormInv
<1>4. cur' \in Users \cup {Nil} /\ accounts' \subseteq Users
  BY <1>1, <1>3 DEF AuthReply, AuthError, CheckReply, TypeOK
<1>5. FlowsOK(flow', stored')
  BY <1>2, FlowsMove DEF Stages
<1>6. PICK kind \in FlowKinds \ {"profileWritten"}, ok \in BOOLEAN :
         /\ mainQ' = Append(mainQ, Post(kind, f, ok))
         /\ kind = "created" => flow[f].chain = "register" /\ flow[f].stage = "authenticating"
  <2>1. CASE AuthReply(f)
    <3>1. CASE flow[f].chain = "register"
      <4>1. /\ mainQ' = Append(mainQ, Post("created", f, TRUE))
            /\ flow[f].stage = "authenticating"
        BY <2>1, <3>1 DEF AuthReply
      <4> QED
        BY <3>1, <4>1 DEF FlowKinds
    <3>2. CASE flow[f].chain # "register"
      <4>1. mainQ' = Append(mainQ, Post("signedIn", f, TRUE))
        BY <2>1, <3>2 DEF AuthReply
      <4>2. "signedIn" \in FlowKinds \ {"profileWritten"} /\ "signedIn" # "created"
        BY DEF FlowKinds
      <4> QED
        BY <4>1, <4>2
    <3> QED
      BY <3>1, <3>2
  <2>2. CASE AuthError(f)
    <3>1. \/ mainQ' = Append(mainQ, Post("createFailed", f, FALSE))
          \/ mainQ' = Append(mainQ, Post("signInFailed", f, FALSE))
      BY <2>2 DEF AuthError
    <3>2. /\ "createFailed" \in FlowKinds \ {"profileWritten"} /\ "createFailed" # "created"
          /\ "signInFailed" \in FlowKinds \ {"profileWritten"} /\ "signInFailed" # "created"
      BY DEF FlowKinds
    <3> QED
      BY <3>1, <3>2
  <2>3. CASE CheckReply(f)
    <3>1. CheckExists(flow[f].uid) \in BOOLEAN
      BY DEF CheckExists, LocalExists
    <3> QED
      BY <2>3, <3>1 DEF CheckReply, FlowKinds
  <2> QED
    BY <2>1, <2>2, <2>3
<1> DEFINE c == Post(kind, f, ok)
<1>7. c \in Callback /\ c.kind = kind /\ c.flow = f
  BY PostType
<1> HIDE DEF c
<1>8. mainQ' \in Seq(Callback) /\ Items(mainQ') = Items(mainQ) \cup {c}
  BY <1>1, <1>6, <1>7, ItemsAppend DEF c
<1>9. CallbackOK(c, flow', stored')
  <2>1. kind = "created" => f \in stored'
    BY <1>2, <1>6 DEF FormInv
  <2>2. flow'[f].stage # "idle"
    BY <1>2, <1>5 DEF FlowsOK
  <2> QED
    BY <1>7, <2>1, <2>2 DEF CallbackOK, FlowKinds
<1>10. TypeOK'
  BY <1>1, <1>2, <1>4, <1>5, <1>8 DEF TypeOK, FlowsOK
<1> QED
  BY <1>2, <1>5, <1>8, <1>9, <1>10, FormMove DEF FormInv

\* The positions of a queue around one of them.
LEMMA Positions ==
    ASSUME NEW n \in Nat, NEW i \in 1..n
    PROVE  /\ n - (i + 1) + 1 = n - i
           /\ (IF i + 1 <= n THEN n - (i + 1) + 1 ELSE 0) = n - i
           /\ \A k \in 1..(n - i) : (i + 1) + k - 1 = i + k
           /\ \A k \in 1..n - 1 : ~(k <= i - 1) =>
                 /\ k - (i - 1) \in 1..(n - i) /\ i + (k - (i - 1)) = k + 1
                 /\ k + 1 \in 1..n
OBVIOUS

\* An entry leaves from the middle of a queue.
LEMMA ItemsWithout ==
    ASSUME NEW S, NEW seq \in Seq(S), NEW i \in DOMAIN seq, NEW rest,
           rest = SubSeq(seq, 1, i - 1) \o SubSeq(seq, i + 1, Len(seq))
    PROVE  /\ rest \in Seq(S) /\ Len(rest) = Len(seq) - 1
           /\ Items(rest) \subseteq Items(seq)
<1>1. Len(seq) \in Nat /\ DOMAIN seq = 1..Len(seq)
  BY LenProperties
<1>2. i \in 1..Len(seq) /\ i - 1 \in Nat /\ i \in Nat /\ i - 1 <= Len(seq) /\ i <= Len(seq)
  BY <1>1
<1> DEFINE low == SubSeq(seq, 1, i - 1)
           high == SubSeq(seq, i + 1, Len(seq))
<1>3. /\ low \in Seq(S) /\ Len(low) = i - 1
      /\ \A k \in 1..(i - 1) : low[k] = seq[k]
  <2>1. 1 \in Int /\ i - 1 \in Int
    BY <1>2
  <2>0. \A k \in 1..(i - 1) : seq[k] \in S
    <3>1. \A k \in 1..(i - 1) : k \in 1..Len(seq)
      BY <1>1, <1>2
    <3> QED
      BY <3>1, ElementOfSeq
  <2>2. /\ low \in Seq(S)
        /\ Len(low) = IF 1 <= i - 1 THEN (i - 1) - 1 + 1 ELSE 0
        /\ \A k \in 1..(i - 1) - 1 + 1 : low[k] = seq[1 + k - 1]
    BY <2>1, <2>0, SubSeqProperties
  <2> HIDE DEF low
  <2>3. \A k \in 1..(i - 1) : 1 + k - 1 = k /\ k \in 1..(i - 1) - 1 + 1
    BY <1>2
  <2> QED
    BY <1>2, <2>2, <2>3
<1>4. /\ high \in Seq(S) /\ Len(high) = Len(seq) - i
      /\ \A k \in 1..(Len(seq) - i) : high[k] = seq[i + k]
  <2>1. i + 1 \in Int /\ Len(seq) \in Int
    BY <1>1, <1>2
  <2>0. \A k \in (i + 1)..Len(seq) : seq[k] \in S
    <3>1. \A k \in (i + 1)..Len(seq) : k \in 1..Len(seq)
      BY <1>1, <1>2
    <3> QED
      BY <3>1, ElementOfSeq
  <2>2. /\ high \in Seq(S)
        /\ Len(high) = IF i + 1 <= Len(seq) THEN Len(seq) - (i + 1) + 1 ELSE 0
        /\ \A k \in 1..Len(seq) - (i + 1) + 1 : high[k] = seq[(i + 1) + k - 1]
    BY <2>1, <2>0, SubSeqProperties
  <2> HIDE DEF high
  <2>3. /\ Len(seq) - (i + 1) + 1 = Len(seq) - i
        /\ \A k \in 1..(Len(seq) - i) : (i + 1) + k - 1 = i + k
    BY <1>1, <1>2, Positions
  <2>4. Len(high) = Len(seq) - i
    <3>1. (IF i + 1 <= Len(seq) THEN Len(seq) - (i + 1) + 1 ELSE 0) = Len(seq) - i
      BY <1>1, <1>2, Positions
    <3> QED
      BY <2>2, <3>1
  <2> QED
    BY <2>2, <2>3, <2>4
<1>5. rest = low \o high
  OBVIOUS
<1> HIDE DEF low, high
<1>6. /\ rest \in Seq(S) /\ Len(rest) = Len(low) + Len(high)
      /\ \A k \in 1..(Len(low) + Len(high)) :
            rest[k] = IF k <= Len(low) THEN low[k] ELSE high[k - Len(low)]
  <2>1. /\ low \o high \in Seq(S)
        /\ Len(low \o high) = Len(low) + Len(high)
        /\ \A k \in 1..(Len(low) + Len(high)) :
              (low \o high)[k] = IF k <= Len(low) THEN low[k] ELSE high[k - Len(low)]
    <3>1. low \in Seq(S) /\ high \in Seq(S)
      BY <1>3, <1>4
    <3> QED
      BY <3>1, ConcatProperties
  <2> QED
    BY <1>5, <2>1
<1> HIDE DEF low, high
<1>7. /\ Len(rest) = Len(seq) - 1 /\ DOMAIN rest = 1..Len(seq) - 1
      /\ Len(low) + Len(high) = Len(seq) - 1
  <2>1. Len(low) + Len(high) = Len(seq) - 1
    BY <1>1, <1>2, <1>3, <1>4
  <2>2. DOMAIN rest = 1..Len(rest)
    BY <1>6, LenProperties
  <2> QED
    BY <1>6, <2>1, <2>2
<1>8. ASSUME NEW k \in DOMAIN rest
      PROVE  rest[k] \in Items(seq)
  <2>1. k \in 1..Len(seq) - 1 /\ k \in 1..(Len(low) + Len(high))
    BY <1>7
  <2>2. CASE k <= i - 1
    <3>1. k \in 1..(i - 1) /\ k \in DOMAIN seq
      BY <1>1, <1>2, <2>1, <2>2
    <3>2. rest[k] = low[k]
      BY <1>3, <1>6, <2>1, <2>2
    <3> QED
      BY <1>3, <3>1, <3>2 DEF Items
  <2>3. CASE ~ (k <= i - 1)
    <3>1. /\ k - (i - 1) \in 1..(Len(seq) - i) /\ i + (k - (i - 1)) = k + 1
          /\ k + 1 \in 1..Len(seq)
      BY <1>1, <1>2, <2>1, <2>3, Positions
    <3>2. rest[k] = high[k - (i - 1)]
      BY <1>3, <1>6, <2>1, <2>3
    <3>3. rest[k] = seq[k + 1] /\ k + 1 \in DOMAIN seq
      BY <1>1, <1>4, <2>1, <3>1, <3>2
    <3> QED
      BY <3>3 DEF Items
  <2> QED
    BY <2>2, <2>3
<1>9. Items(rest) \subseteq Items(seq)
  BY <1>8 DEF Items
<1> QED
  BY <1>6, <1>7, <1>9

\* Firestore answers a fetch of the profile.
LEMMA FormFetch ==
    ASSUME FormInv, NEW i \in DOMAIN fetching, FetchReply(i)
    PROVE  FormInv'
<1>1. TypeOK /\ mainQ \in Seq(Callback) /\ fetching \in Seq(Fetch)
  BY DEF FormInv, TypeOK
<1>2. /\ UNCHANGED <<cur, accounts, docs, stored, writes, flow, homeUser, modal, closing,
                     kills, queued, tapped, kept>>
      /\ fetching' = SubSeq(fetching, 1, i - 1) \o SubSeq(fetching, i + 1, Len(fetching))
  BY DEF FetchReply
<1>3. fetching' \in Seq(Fetch)
  BY <1>1, <1>2, ItemsWithout
<1>4. FlowsOK(flow', stored')
  BY <1>2, FlowsMove
<1>5. /\ mainQ' \in Seq(Callback)
      /\ \A c \in Items(mainQ') : c \in Items(mainQ) \/ CallbackOK(c, flow', stored')
  <2> DEFINE c == [kind |-> "fetched", flow |-> Nil, ok |-> TRUE,
                   user |-> [uid |-> fetching[i].uid, hasSeenOnboarding |-> LocalSeen(fetching[i].uid)]]
  <2>1. CASE mainQ' = mainQ
    BY <1>1, <2>1
  <2>2. CASE mainQ' = Append(mainQ, c)
    <3>1. c.user \in User
      <4>1. fetching[i] \in Fetch
        BY <1>1, ElementOfSeq
      <4> QED
        BY <4>1 DEF User, LocalSeen, Fetch
    <3>2. c \in Callback /\ c.kind = "fetched"
      BY <3>1 DEF Callback
    <3>3. CallbackOK(c, flow', stored')
      BY <3>1, <3>2, NilRecordAssumption DEF CallbackOK, FlowKinds
    <3> HIDE DEF c
    <3>4. mainQ' \in Seq(Callback) /\ Items(mainQ') = Items(mainQ) \cup {c}
      BY <1>1, <2>2, <3>2, ItemsAppend
    <3> QED
      BY <3>3, <3>4
  <2> QED
    BY <2>1, <2>2 DEF FetchReply
<1>6. TypeOK'
  BY <1>1, <1>2, <1>3, <1>5 DEF TypeOK
<1> QED
  BY <1>2, <1>4, <1>5, <1>6, FormMove DEF FormInv

\* A task of the worker queue has run: the sign-ins and the fetches behind it
\* wait for one task less.
LEMMA StoreStep ==
    ASSUME TypeOK, NEW q \in Queues, StoreWrite(q)
    PROVE  /\ queued' \in [Queues -> Nat] /\ queued'[q] = queued[q] + 1
           /\ queued[q] + 1 <= Len(writes[q])
           /\ \A r \in Queues : r # q => queued'[r] = queued[r]
           /\ fetching' \in Seq(Fetch) /\ DOMAIN fetching' = DOMAIN fetching
           /\ \A i \in DOMAIN fetching :
                 /\ fetching'[i].uid = fetching[i].uid
                 /\ fetching'[i].behind = Passed(fetching[i].behind, q)
           /\ flow' \in [Flows -> FlowState]
           /\ \A f \in Flows :
                 /\ flow'[f].chain = flow[f].chain /\ flow'[f].stage = flow[f].stage
                 /\ flow'[f].uid = flow[f].uid
                 /\ flow'[f].behind = Passed(flow[f].behind, q)
<1>1. /\ writes \in [Queues -> Seq(Write)] /\ queued \in [Queues -> Nat]
      /\ fetching \in Seq(Fetch) /\ flow \in [Flows -> FlowState]
  BY DEF TypeOK
<1>2. \A b \in Tasks : Passed(b, q) \in Tasks
  <2>1. ASSUME NEW b \in Tasks PROVE Passed(b, q) \in Tasks
    <3>1. b[q] \in Nat
      BY DEF Tasks
    <3>2. (IF b[q] = 0 THEN 0 ELSE b[q] - 1) \in Nat
      BY <3>1
    <3> QED
      BY <3>2 DEF Passed, Tasks
  <2> QED
    BY <2>1
<1>3. /\ queued' \in [Queues -> Nat] /\ queued'[q] = queued[q] + 1
      /\ queued[q] + 1 <= Len(writes[q])
      /\ \A r \in Queues : r # q => queued'[r] = queued[r]
  <2>1. queued[q] < Len(writes[q]) /\ queued' = [queued EXCEPT ![q] = @ + 1]
    BY DEF StoreWrite
  <2>2. Len(writes[q]) \in Nat /\ queued[q] \in Nat
    BY <1>1, LenProperties
  <2> QED
    BY <1>1, <2>1, <2>2
<1>4. /\ fetching' \in Seq(Fetch) /\ DOMAIN fetching' = DOMAIN fetching
      /\ \A i \in DOMAIN fetching :
            /\ fetching'[i].uid = fetching[i].uid
            /\ fetching'[i].behind = Passed(fetching[i].behind, q)
  <2>1. /\ fetching' = [i \in DOMAIN fetching |->
                          [fetching[i] EXCEPT !.behind = Passed(@, q)]]
        /\ Len(fetching) \in Nat /\ DOMAIN fetching = 1..Len(fetching)
    BY <1>1, LenProperties DEF StoreWrite
  <2>2. \A i \in DOMAIN fetching : fetching[i] \in Fetch
    BY <1>1, <2>1, ElementOfSeq
  <2>3. \A e \in Fetch : /\ [e EXCEPT !.behind = Passed(@, q)] \in Fetch
                         /\ [e EXCEPT !.behind = Passed(@, q)].uid = e.uid
                         /\ [e EXCEPT !.behind = Passed(@, q)].behind = Passed(e.behind, q)
    BY <1>2 DEF Fetch
  <2>4. \A i \in 1..Len(fetching) : [fetching[i] EXCEPT !.behind = Passed(@, q)] \in Fetch
    BY <2>1, <2>2, <2>3
  <2>5. fetching' \in Seq(Fetch)
    BY <2>1, <2>4, IsASeq
  <2> QED
    BY <2>1, <2>2, <2>3, <2>5
<1>5. /\ flow' \in [Flows -> FlowState]
      /\ \A f \in Flows :
            /\ flow'[f].chain = flow[f].chain /\ flow'[f].stage = flow[f].stage
            /\ flow'[f].uid = flow[f].uid
            /\ flow'[f].behind = Passed(flow[f].behind, q)
  <2>1. flow' = [f \in Flows |-> [flow[f] EXCEPT !.behind = Passed(@, q)]]
    BY DEF StoreWrite
  <2>2. \A e \in FlowState : /\ [e EXCEPT !.behind = Passed(@, q)] \in FlowState
                             /\ [e EXCEPT !.behind = Passed(@, q)].chain = e.chain
                             /\ [e EXCEPT !.behind = Passed(@, q)].stage = e.stage
                             /\ [e EXCEPT !.behind = Passed(@, q)].uid = e.uid
                             /\ [e EXCEPT !.behind = Passed(@, q)].behind = Passed(e.behind, q)
    BY <1>2 DEF FlowState
  <2> QED
    BY <1>1, <2>1, <2>2
<1> QED
  BY <1>3, <1>4, <1>5

\* A task of the worker queue runs.
LEMMA FormStore ==
    ASSUME FormInv, NEW q \in Queues, StoreWrite(q)
    PROVE  FormInv'
<1>1. TypeOK
  BY DEF FormInv
<1>2. /\ queued' \in [Queues -> Nat] /\ queued'[q] = queued[q] + 1
      /\ queued[q] + 1 <= Len(writes[q])
      /\ \A r \in Queues : r # q => queued'[r] = queued[r]
      /\ fetching' \in Seq(Fetch) /\ flow' \in [Flows -> FlowState]
      /\ \A f \in Flows : /\ flow'[f].chain = flow[f].chain /\ flow'[f].stage = flow[f].stage
                          /\ flow'[f].uid = flow[f].uid
  BY <1>1, StoreStep
<1>3. UNCHANGED <<cur, accounts, docs, stored, writes, mainQ, homeUser, modal, closing, kills,
                  tapped, kept>>
  BY DEF StoreWrite
<1>4. FlowsOK(flow', stored')
  BY <1>2, <1>3 DEF FlowsOK, FormInv
<1>5. \A r \in Queues : queued'[r] <= Len(writes[r])
  BY <1>1, <1>2 DEF TypeOK
<1>6. TypeOK'
  BY <1>1, <1>2, <1>3, <1>5 DEF TypeOK
<1> QED
  BY <1>3, <1>4, <1>6, FormMove DEF FormInv

Answered(c, ok) == [c EXCEPT !.ok = ok]

\* The closure of a write with the server's answer.
LEMMA AnsweredType ==
    ASSUME NEW c \in Callback, NEW ok \in BOOLEAN
    PROVE  /\ Answered(c, ok) \in Callback /\ Answered(c, ok).ok = ok
           /\ Answered(c, ok).kind = c.kind /\ Answered(c, ok).flow = c.flow
           /\ Answered(c, ok).user = c.user
BY DEF Answered, Callback

\* The server answers the first write of the current user's queue.
LEMMA ReplyStep ==
    ASSUME FormInv, NEW ok \in BOOLEAN, WriteReply(ok), NEW w, w = Head(writes[cur])
    PROVE  /\ writes[cur] \in Seq(Write) /\ writes[cur] # <<>>
           /\ w \in Write /\ w \in Items(writes[cur]) /\ WriteOK(w, flow, stored)
           /\ writes' \in [Users \cup {Nil} -> Seq(Write)]
           /\ writes'[cur] = Tail(writes[cur])
           /\ Items(writes'[cur]) \subseteq Items(writes[cur])
           /\ \A q \in Users \cup {Nil} : q # cur => writes'[q] = writes[q]
           /\ queued' \in [Queues -> Nat] /\ \A q \in Queues : queued'[q] <= Len(writes'[q])
           /\ 1 <= queued[cur] /\ queued'[cur] = queued[cur] - 1
           /\ \A q \in Queues : q # cur => queued'[q] = queued[q]
           /\ docs' \in [Users -> Profile \cup {Nil}]
           /\ \A u \in Users : u # w.uid => docs'[u] = docs[u]
           /\ ~ok => docs'[w.uid] = docs[w.uid]
           /\ ok => w.uid = cur /\ docs'[w.uid] # Nil
           /\ ok /\ w.op = "create" => /\ docs'[w.uid].profileImageUrl = w.image
                                       /\ ~docs'[w.uid].hasSeenOnboarding
           /\ ok /\ w.op = "seen" =>
                 /\ docs[w.uid] # Nil
                 /\ docs'[w.uid].profileImageUrl = docs[w.uid].profileImageUrl
                 /\ docs'[w.uid].hasSeenOnboarding
           /\ w.done = Nil => mainQ' = mainQ
           /\ w.done # Nil => w.done \in Callback /\ mainQ' = Append(mainQ, Answered(w.done, ok))
<1>1. /\ cur \in Users \cup {Nil} /\ writes \in [Users \cup {Nil} -> Seq(Write)]
      /\ docs \in [Users -> Profile \cup {Nil}] /\ stored \subseteq Flows
  BY DEF FormInv, TypeOK
<1>2. /\ writes[cur] \in Seq(Write) /\ writes[cur] # <<>> /\ Len(writes[cur]) \in Nat
      /\ queued \in [Queues -> Nat] /\ \A q \in Queues : queued[q] <= Len(writes[q])
      /\ queued[cur] \in Nat /\ queued[cur] > 0
  <2>1. /\ writes[cur] \in Seq(Write) /\ queued \in [Queues -> Nat]
        /\ \A q \in Queues : queued[q] <= Len(writes[q])
        /\ queued[cur] \in Nat /\ queued[cur] > 0
    BY <1>1 DEF WriteReply, FormInv, TypeOK
  <2>2. Len(writes[cur]) \in Nat /\ Len(writes[cur]) # 0
    BY <1>1, <2>1, LenProperties
  <2> QED
    BY <2>1, <2>2, EmptySeq
<1>10. /\ queued' \in [Queues -> Nat] /\ 1 <= queued[cur] /\ queued'[cur] = queued[cur] - 1
       /\ \A q \in Queues : q # cur => queued'[q] = queued[q]
       /\ queued'[cur] <= Len(Tail(writes[cur]))
  <2>1. queued' = [queued EXCEPT ![cur] = @ - 1]
    BY DEF WriteReply
  <2>2. Len(Tail(writes[cur])) = Len(writes[cur]) - 1
    BY <1>2, HeadTailProperties
  <2>3. 1 <= queued[cur] /\ queued[cur] - 1 \in Nat
    BY <1>2
  <2>4. /\ queued' \in [Queues -> Nat] /\ queued'[cur] = queued[cur] - 1
        /\ \A q \in Queues : q # cur => queued'[q] = queued[q]
    BY <1>1, <1>2, <2>1, <2>3
  <2>5. queued[cur] <= Len(writes[cur])
    BY <1>1, <1>2
  <2>6. queued[cur] - 1 <= Len(writes[cur]) - 1
    BY <1>2, <2>5
  <2> QED
    BY <2>2, <2>3, <2>4, <2>6
<1>3. /\ w \in Write /\ w \in Items(writes[cur]) /\ Tail(writes[cur]) \in Seq(Write)
      /\ Items(Tail(writes[cur])) \subseteq Items(writes[cur])
  BY <1>2, ItemsTail
<1>4. WriteOK(w, flow, stored)
  BY <1>1, <1>3 DEF FormInv
<1>5. /\ writes' \in [Users \cup {Nil} -> Seq(Write)]
      /\ writes'[cur] = Tail(writes[cur])
      /\ \A q \in Users \cup {Nil} : q # cur => writes'[q] = writes[q]
  BY <1>1, <1>3 DEF WriteReply
<1>6. /\ ok => Accepts(w)
      /\ docs' = IF ok THEN [docs EXCEPT ![w.uid] = Applied(w)] ELSE docs
      /\ w.done = Nil => mainQ' = mainQ
      /\ w.done # Nil => mainQ' = Append(mainQ, Answered(w.done, ok))
  BY DEF WriteReply, Answered
<1>7. /\ w.uid \in Users /\ w.op \in {"create", "seen"}
      /\ w.done # Nil => w.done \in Callback
  BY <1>3 DEF Write
<1>8. ok => /\ Applied(w) \in Profile /\ w.uid = cur
            /\ w.op = "create" => /\ Applied(w).profileImageUrl = w.image
                                  /\ ~Applied(w).hasSeenOnboarding
            /\ w.op = "seen" =>
                  /\ docs[w.uid] # Nil
                  /\ Applied(w).profileImageUrl = docs[w.uid].profileImageUrl
                  /\ Applied(w).hasSeenOnboarding
  <2> SUFFICES ASSUME ok PROVE <1>8!2
    OBVIOUS
  <2>1. CASE w.op = "create"
    <3>1. w.image \in Images
      BY <1>1, <1>4, <2>1 DEF WriteOK, Images
    <3> QED
      BY <1>6, <2>1, <3>1 DEF Applied, Accepts, Profile
  <2>2. CASE w.op = "seen"
    <3>1. w.uid = cur /\ docs[w.uid] # Nil /\ docs[w.uid] \in Profile
      BY <1>1, <1>6, <1>7, <2>2 DEF Accepts
    <3> QED
      BY <2>2, <3>1 DEF Applied, Profile
  <2> QED
    BY <1>7, <2>1, <2>2
<1>9. /\ docs' \in [Users -> Profile \cup {Nil}]
      /\ \A u \in Users : u # w.uid => docs'[u] = docs[u]
      /\ ok => docs'[w.uid] = Applied(w)
      /\ ~ok => docs'[w.uid] = docs[w.uid]
  BY <1>1, <1>6, <1>7, <1>8
<1>11. \A q \in Queues : queued'[q] <= Len(writes'[q])
  BY <1>2, <1>5, <1>10
<1> QED
  BY <1>2, <1>3, <1>4, <1>5, <1>6, <1>7, <1>8, <1>9, <1>10, <1>11, NilRecordAssumption

\* The server answers a write.
LEMMA FormWrite ==
    ASSUME FormInv, NEW ok \in BOOLEAN, WriteReply(ok)
    PROVE  FormInv'
<1> DEFINE w == Head(writes[cur])
<1>1. /\ w \in Write /\ WriteOK(w, flow, stored)
      /\ writes' \in [Users \cup {Nil} -> Seq(Write)]
      /\ Items(writes'[cur]) \subseteq Items(writes[cur])
      /\ \A q \in Users \cup {Nil} : q # cur => writes'[q] = writes[q]
      /\ queued' \in [Queues -> Nat] /\ \A q \in Queues : queued'[q] <= Len(writes'[q])
      /\ docs' \in [Users -> Profile \cup {Nil}]
      /\ \A u \in Users : u # w.uid => docs'[u] = docs[u]
      /\ ~ok => docs'[w.uid] = docs[w.uid]
      /\ ok /\ w.op = "create" => docs'[w.uid].profileImageUrl = w.image
      /\ ok /\ w.op = "seen" => /\ docs[w.uid] # Nil
                                /\ docs'[w.uid].profileImageUrl = docs[w.uid].profileImageUrl
      /\ w.done = Nil => mainQ' = mainQ
      /\ w.done # Nil => w.done \in Callback /\ mainQ' = Append(mainQ, Answered(w.done, ok))
  BY ReplyStep
<1>2. /\ UNCHANGED <<cur, accounts, stored, fetching, flow, homeUser, modal, closing, kills,
                     tapped, kept>>
      /\ TypeOK /\ mainQ \in Seq(Callback)
  BY DEF WriteReply, FormInv, TypeOK
<1> HIDE DEF w
<1>3. FlowsOK(flow', stored')
  BY <1>2, FlowsMove
<1>4. \A u \in Users : docs'[u] # Nil => docs'[u].profileImageUrl \in stored' \cup {Photo}
  <2>1. w.op \in {"create", "seen"} /\ w.uid \in Users
    BY <1>1 DEF Write
  <2> QED
    BY <1>1, <1>2, <2>1 DEF FormInv, WriteOK
<1>5. /\ mainQ' \in Seq(Callback)
      /\ \A c \in Items(mainQ') : c \in Items(mainQ) \/ CallbackOK(c, flow', stored')
  <2>1. CASE w.done = Nil
    BY <1>1, <1>2, <2>1
  <2>2. CASE w.done # Nil
    <3> DEFINE a == Answered(w.done, ok)
    <3>1. w.done \in Callback /\ mainQ' = Append(mainQ, a)
      BY <1>1, <2>2
    <3>2. a \in Callback /\ a.kind = w.done.kind /\ a.flow = w.done.flow /\ a.user = w.done.user
      BY <3>1, AnsweredType
    <3>3. CallbackOK(a, flow', stored')
      BY <1>1, <1>2, <2>2, <3>2 DEF WriteOK, CallbackOK
    <3> HIDE DEF a
    <3>4. mainQ' \in Seq(Callback) /\ Items(mainQ') = Items(mainQ) \cup {a}
      BY <1>2, <3>1, <3>2, ItemsAppend
    <3> QED
      BY <3>3, <3>4
  <2> QED
    BY <2>1, <2>2
<1>6. TypeOK'
  BY <1>1, <1>2, <1>5 DEF TypeOK
<1>7. \A q \in Users \cup {Nil} : \A v \in Items(writes'[q]) :
         v \in Items(writes[q]) \/ WriteOK(v, flow', stored')
  BY <1>1
<1>8. stored \subseteq stored' /\ (modal' = "onboarding" => homeUser' # Nil)
  BY <1>2 DEF FormInv
<1> QED
  BY <1>3, <1>4, <1>5, <1>6, <1>7, <1>8, FormMove

\* A closure of an attempt ends it, or asks for the next call.
LEMMA FormRunFlow ==
    ASSUME FormInv, RunSignedIn \/ RunAuthFailed \/ RunChecked \/ RunCreated \/ RunProfileWritten
    PROVE  FormInv'
<1> DEFINE c == Head(mainQ)
           f == c.flow
<1>1. TypeOK /\ cur \in Users \cup {Nil} /\ fetching \in Seq(Fetch)
  BY DEF FormInv, TypeOK
<1>2. /\ c \in Callback /\ CallbackOK(c, flow, stored) /\ c.kind \in FlowKinds
      /\ mainQ' \in Seq(Callback) /\ Items(mainQ') \subseteq Items(mainQ)
      /\ f \in Flows /\ flow[f].stage # "idle" /\ flow[f].uid \in Users
  <2>1. PICK kind \in FlowKinds : Run(kind)
    BY DEF RunSignedIn, RunAuthFailed, RunChecked, RunCreated, RunProfileWritten, FlowKinds
  <2> QED
    BY <2>1, RunStep
<1>3. UNCHANGED <<cur, accounts, docs, stored, homeUser, modal, kills, queued, tapped, kept>>
  BY DEF RunSignedIn, RunAuthFailed, RunChecked, RunCreated, RunProfileWritten
<1>4. \E s \in {"checking", "writing", "done"} : Moves(f, s)
  BY DEF RunSignedIn, RunAuthFailed, RunChecked, RunCreated, RunProfileWritten, Moves
<1>5. /\ closing' \in BOOLEAN
      /\ \/ fetching' = fetching
         \/ cur # Nil /\ fetching' = Append(fetching, [uid |-> cur, behind |-> Unstored])
  BY <1>1 DEF RunSignedIn, RunAuthFailed, RunChecked, RunCreated, RunProfileWritten,
              AuthenticationComplete, Dismiss, TypeOK
<1>6. \/ UNCHANGED writes
      \/ \E image \in stored \cup {Photo} :
            Enqueue("create", flow[f].uid, image, Post("profileWritten", f, TRUE))
  <2>1. CASE RunCreated
    <3>1. f \in stored
      BY <1>2, <2>1 DEF CallbackOK, RunCreated, Run
    <3> QED
      BY <2>1, <3>1 DEF RunCreated
  <2>2. CASE RunChecked
    BY <2>2 DEF RunChecked
  <2>3. CASE RunSignedIn \/ RunAuthFailed \/ RunProfileWritten
    BY <2>3 DEF RunSignedIn, RunAuthFailed, RunProfileWritten
  <2> QED
    BY <2>1, <2>2, <2>3
<1>7. FlowsOK(flow', stored')
  <2>1. stored \subseteq stored'
    BY <1>3
  <2>2. PICK s \in {"checking", "writing", "done"} : Moves(f, s)
    BY <1>4
  <2>3. s \in Stages \ {"idle"} /\ s # "authenticating"
    BY DEF Stages
  <2> HIDE DEF f
  <2> QED
    BY <1>2, <2>1, <2>2, <2>3, FlowsMove
<1>8. fetching' \in Seq(Fetch)
  <2>1. CASE fetching' = fetching
    BY <1>1, <2>1
  <2>2. CASE cur # Nil /\ fetching' = Append(fetching, [uid |-> cur, behind |-> Unstored])
    <3>1. [uid |-> cur, behind |-> Unstored] \in Fetch
      BY <1>1, <2>2, UnstoredType, AskedFew
    <3> QED
      BY <1>1, <2>2, <3>1, AppendProperties
  <2> QED
    BY <1>5, <2>1, <2>2
<1>9. /\ writes' \in [Users \cup {Nil} -> Seq(Write)]
      /\ \A q \in Queues : queued[q] <= Len(writes'[q])
      /\ \A q \in Users \cup {Nil} : \A w \in Items(writes'[q]) :
            w \in Items(writes[q]) \/ WriteOK(w, flow', stored')
  <2>1. CASE UNCHANGED writes
    BY <1>1, <2>1 DEF TypeOK
  <2>2. ASSUME NEW image \in stored \cup {Photo},
               Enqueue("create", flow[f].uid, image, Post("profileWritten", f, TRUE))
        PROVE  <1>9
    <3> DEFINE u == flow[f].uid
               done == Post("profileWritten", f, TRUE)
               w == NewWrite("create", u, image, done)
    <3>1. done \in Callback /\ done.kind = "profileWritten" /\ done.flow = f
      <4>1. "profileWritten" \in FlowKinds \cup {"presentLogin", "seenWritten"}
        BY DEF FlowKinds
      <4>2. f \in Flows \cup {Nil}
        BY <1>2
      <4> HIDE DEF f
      <4> QED
        BY <4>1, <4>2, PostType
    <3>2. image \in Images \cup {Nil} /\ u \in Users
      BY <1>1, <1>2 DEF TypeOK, Images
    <3>3. Enqueue("create", u, image, done)
      BY <2>2
    <3> HIDE DEF u, done
    <3>4. w \in Write /\ w.op = "create" /\ w.image = image /\ w.done = done
      BY <3>1, <3>2, NewWriteType
    <3>5. /\ writes' \in [Users \cup {Nil} -> Seq(Write)]
          /\ Items(writes'[cur]) = Items(writes[cur]) \cup {w}
          /\ \A q \in Users \cup {Nil} : q # cur => writes'[q] = writes[q]
          /\ \A q \in Queues : queued[q] <= Len(writes'[q])
      BY <1>1, <3>3, <3>4, EnqueueStep
    <3>6. CallbackOK(done, flow', stored')
      BY <1>2, <1>7, <3>1 DEF CallbackOK, FlowsOK
    <3> HIDE DEF w
    <3>7. WriteOK(w, flow', stored')
      BY <1>3, <3>1, <3>4, <3>6 DEF WriteOK
    <3>8. ASSUME NEW q \in Users \cup {Nil}, NEW v \in Items(writes'[q])
          PROVE  v \in Items(writes[q]) \/ WriteOK(v, flow', stored')
      <4>1. CASE q = cur
        BY <3>5, <3>7, <4>1
      <4>2. CASE q # cur
        BY <3>5, <4>2
      <4> QED
        BY <4>1, <4>2
    <3> QED
      BY <3>5, <3>8
  <2> QED
    BY <1>6, <2>1, <2>2
<1>10. TypeOK'
  BY <1>1, <1>2, <1>3, <1>5, <1>7, <1>8, <1>9 DEF TypeOK, FlowsOK
<1>11. /\ \A u \in Users : docs'[u] # Nil => docs'[u].profileImageUrl \in stored' \cup {Photo}
       /\ modal' = "onboarding" => homeUser' # Nil
       /\ stored \subseteq stored'
       /\ \A d \in Items(mainQ') : d \in Items(mainQ)
  BY <1>2, <1>3 DEF FormInv
<1> QED
  BY <1>7, <1>9, <1>10, <1>11, FormMove

\* Home's own closures.
LEMMA FormRunHome ==
    ASSUME FormInv, RunPresentLogin \/ RunFetched \/ RunSeenWritten
    PROVE  FormInv'
<1>1. TypeOK
  BY DEF FormInv
<1>2. UNCHANGED <<cur, accounts, docs, stored, writes, fetching, flow, closing, kills, queued, tapped, kept>>
  BY DEF RunPresentLogin, RunFetched, RunSeenWritten
<1>3. /\ Head(mainQ) \in Callback /\ CallbackOK(Head(mainQ), flow, stored)
      /\ mainQ' \in Seq(Callback) /\ Items(mainQ') \subseteq Items(mainQ)
  BY RunStep DEF RunPresentLogin, RunFetched, RunSeenWritten
<1>4. /\ homeUser' \in User \cup {Nil}
      /\ modal' \in {"none", "login", "sheet", "onboarding"}
      /\ modal' = "onboarding" => homeUser' # Nil
  <2>1. CASE RunPresentLogin
    BY <1>1, <2>1 DEF RunPresentLogin, Present, TypeOK, FormInv
  <2>2. CASE RunFetched
    <3>1. Head(mainQ).user \in User /\ Head(mainQ).user # Nil
      BY <1>3, <2>2 DEF RunFetched, Run, CallbackOK, Callback
    <3> QED
      BY <1>1, <2>2, <3>1 DEF RunFetched, SetHomeUser, PresentOnboardingIfNecessary, Present, TypeOK
  <2>3. CASE RunSeenWritten
    <3>1. CASE homeUser = Nil
      <4>1. homeUser' = Nil /\ modal' = modal
        BY <2>3, <3>1 DEF RunSeenWritten, SetHomeUser, PresentOnboardingIfNecessary
      <4> QED
        BY <1>1, <3>1, <4>1 DEF FormInv, TypeOK
    <3>2. CASE homeUser # Nil
      <4> DEFINE u == [homeUser EXCEPT !.hasSeenOnboarding = TRUE]
      <4>1. u \in User
        BY <1>1, <3>2 DEF TypeOK, User
      <4>2. homeUser' = u /\ modal' \in {modal, "onboarding"}
        BY <2>3, <3>2 DEF RunSeenWritten, SetHomeUser, PresentOnboardingIfNecessary, Present
      <4> QED
        BY <1>1, <4>1, <4>2, NilRecordAssumption DEF TypeOK
    <3> QED
      BY <3>1, <3>2
  <2> QED
    BY <2>1, <2>2, <2>3
<1>5. FlowsOK(flow', stored')
  BY <1>2, FlowsMove
<1>6. TypeOK'
  BY <1>1, <1>2, <1>3, <1>4 DEF TypeOK
<1> QED
  BY <1>2, <1>3, <1>4, <1>5, <1>6, FormMove DEF FormInv

\* Every step keeps the forms.
LEMMA FormNext == FormInv /\ [Next]_vars => FormInv'
<1> SUFFICES ASSUME FormInv, [Next]_vars PROVE FormInv'
  OBVIOUS
<1>1. CASE UNCHANGED vars
  BY <1>1 DEF vars, FormInv, TypeOK, Items
<1>2. CASE Next
  BY <1>2, FormUser, FormRestart, FormAnswer, FormFetch, FormStore, FormWrite, FormRunFlow,
     FormRunHome
     DEF Next, Answer, Fetching, Storing, Writing, RunMainQueue
<1> QED
  BY <1>1, <1>2

\* The forms, at all times: every closure and every queued write refers to an
\* attempt that was started, and to a picture that is in Cloud Storage.
THEOREM FormInvariant == Spec => []FormInv
<1>1. Init => FormInv
  BY FormInit
<1>2. FormInv /\ [Next]_vars => FormInv'
  BY FormNext
<1> QED
  BY <1>1, <1>2, PTL DEF Spec

\* Every variable keeps its type, for any number of users, attempts and kills.
THEOREM TypeCorrect == Spec => []TypeOK
<1>1. FormInv => TypeOK
  BY DEF FormInv
<1> QED
  BY <1>1, FormInvariant, PTL

\* No profile, in Firestore or on its way there, names a picture that is not
\* in Cloud Storage: registerUserWithFirestore goes on only when downloadURL
\* finds what putData was to store.
THEOREM ImagesCorrect == Spec => []ProfileImageStored
<1>1. FormInv => ProfileImageStored
  BY FormInvMeaning
<1> QED
  BY <1>1, FormInvariant, PTL

\* A queue without entries.
LEMMA EmptyItems ==
    ASSUME NEW S, NEW seq \in Seq(S)
    PROVE  Items(seq) = {} <=> seq = <<>>
<1>1. Len(seq) \in Nat /\ DOMAIN seq = 1..Len(seq)
  BY LenProperties
<1>2. seq # <<>> => 1 \in DOMAIN seq
  BY <1>1, EmptySeq
<1> QED
  BY <1>2, ItemsFew DEF Items

-----------------------------------------------------------------------------
(* A patient user: one attempt at a time, and no logout during a fetch. *)

OneOf(seq, S) == \A i, j \in DOMAIN seq : seq[i] \in S /\ seq[j] \in S => i = j
NoneOf(seq, S) == \A i \in DOMAIN seq : seq[i] \notin S

ChainCallbacks == {c \in Callback : c.kind \in FlowKinds}
LoginCallbacks == {c \in Callback : c.kind = "presentLogin"}
FetchCallbacks == {c \in Callback : c.kind = "fetched"}
Owed == {w \in Write : w.done # Nil /\ w.done.kind = "profileWritten"}
Creates == {w \in Write : w.op = "create"}

\* Entries of one sort in a queue that another entry joins.
LEMMA SortAppend ==
    ASSUME NEW T, NEW seq \in Seq(T), NEW e \in T, NEW S
    PROVE  /\ NoneOf(<<>>, S)
           /\ NoneOf(seq, S) <=> \A x \in Items(seq) : x \notin S
           /\ NoneOf(seq, S) => OneOf(seq, S)
           /\ NoneOf(Append(seq, e), S) <=> NoneOf(seq, S) /\ e \notin S
           /\ OneOf(seq, S) /\ (e \notin S \/ NoneOf(seq, S)) => OneOf(Append(seq, e), S)
<1> DEFINE new == Append(seq, e)
           n == Len(seq) + 1
<1>1. /\ DOMAIN new = DOMAIN seq \cup {n} /\ n \notin DOMAIN seq
      /\ \A i \in DOMAIN seq : new[i] = seq[i]
      /\ new[n] = e
  BY ItemsAppend
<1> HIDE DEF new, n
<1>2. NoneOf(new, S) <=> NoneOf(seq, S) /\ e \notin S
  BY <1>1 DEF NoneOf
<1>3. OneOf(seq, S) /\ (e \notin S \/ NoneOf(seq, S)) => OneOf(new, S)
  BY <1>1 DEF NoneOf, OneOf
<1>4. NoneOf(<<>>, S)
  BY ItemsFew DEF NoneOf
<1>5. NoneOf(seq, S) <=> \A x \in Items(seq) : x \notin S
  BY DEF NoneOf, Items
<1>6. NoneOf(seq, S) => OneOf(seq, S)
  BY DEF NoneOf, OneOf
<1> QED
  BY <1>2, <1>3, <1>4, <1>5, <1>6 DEF new

\* Entries of one sort in a queue that the first entry leaves.
LEMMA SortTail ==
    ASSUME NEW T, NEW seq \in Seq(T), seq # <<>>, NEW S
    PROVE  /\ NoneOf(seq, S) <=> NoneOf(Tail(seq), S) /\ Head(seq) \notin S
           /\ OneOf(seq, S) => OneOf(Tail(seq), S)
           /\ OneOf(seq, S) /\ Head(seq) \in S => NoneOf(Tail(seq), S)
<1> DEFINE new == Tail(seq)
<1>1. /\ 1 \in DOMAIN seq /\ Head(seq) = seq[1]
      /\ \A i \in DOMAIN new : i \in Nat /\ i + 1 \in DOMAIN seq /\ i + 1 # 1
             /\ new[i] = seq[i + 1]
      /\ \A i \in DOMAIN seq : i # 1 => i - 1 \in DOMAIN new /\ new[i - 1] = seq[i]
  BY ItemsTail
<1> HIDE DEF new
<1>2. NoneOf(seq, S) <=> NoneOf(new, S) /\ seq[1] \notin S
  BY <1>1 DEF NoneOf
<1>3. \A i, j \in DOMAIN new : i + 1 = j + 1 => i = j
  BY <1>1
<1>4. OneOf(seq, S) => OneOf(new, S)
  BY <1>1, <1>3 DEF OneOf
<1>5. OneOf(seq, S) /\ seq[1] \in S => NoneOf(new, S)
  BY <1>1 DEF OneOf, NoneOf
<1> QED
  BY <1>1, <1>2, <1>4, <1>5 DEF new

\* Attempts come one after the other, on the login screen.
AttemptsOK ==
    /\ \A f, g \in Flows : ~Finished(f) /\ ~Finished(g) => f = g
    /\ \A f \in Flows : ~Finished(f) => modal = "login" /\ ~closing
    /\ \A f \in Flows : flow[f].stage \in {"checking", "writing"} => flow[f].uid = cur

\* A closure of an attempt that signed a user in finds this user signed in.
ChainOK(c, fl, u) ==
    /\ fl[c.flow].stage = (IF c.kind = "profileWritten" THEN "writing" ELSE "waiting")
    /\ c.kind \notin {"signInFailed", "createFailed"} => fl[c.flow].uid = u

\* There is at most one closure of an attempt, posted or owed by a write.
ChainsOK ==
    /\ OneOf(mainQ, ChainCallbacks)
    /\ OneOf(writes[cur], Owed)
    /\ \A q \in Users \cup {Nil} : q # cur => NoneOf(writes[q], Owed)
    /\ NoneOf(mainQ, ChainCallbacks) \/ NoneOf(writes[cur], Owed)
    /\ \A c \in Items(mainQ) : c.kind \in FlowKinds => ChainOK(c, flow, cur)
    /\ \A w \in Items(writes[cur]) : w \in Owed => ChainOK(w.done, flow, cur)

\* A fetch is for the current user.
HomeOK(c, u, m, cl) ==
    /\ c.kind = "presentLogin" => u = Nil /\ m = "none" /\ ~cl
    /\ c.kind = "fetched" => c.user.uid = u

ScreensOK ==
    /\ OneOf(mainQ, LoginCallbacks)
    /\ \A c \in Items(mainQ) : HomeOK(c, cur, modal, closing)
    /\ \A u \in Asked(fetching) : u = cur
    /\ modal = "sheet" \/ (modal = "login" /\ ~closing)
          => Asked(fetching) = {} /\ NoneOf(mainQ, FetchCallbacks)
    /\ closing => modal \in {"login", "onboarding"}
    /\ modal = "onboarding" => cur # Nil /\ homeUser.uid = cur
    /\ cur = Nil => (modal = "login" /\ ~closing) \/ ~NoneOf(mainQ, LoginCallbacks)

ControlInv == AttemptsOK /\ ChainsOK /\ ScreensOK

\* What the property about the login screen needs.
LEMMA ControlInvMeaning ==
    ASSUME ControlInv
    PROVE  SignedOutSeesLogin
BY DEF ControlInv, ScreensOK, SignedOutSeesLogin, Posted, NoneOf, LoginCallbacks

\* When no attempt has reached Auth's answer, no closure of one is under way.
LEMMA Calm ==
    ASSUME FormInv, ControlInv,
           \A f \in Flows : flow[f].stage \notin {"waiting", "writing"}
    PROVE  /\ NoneOf(mainQ, ChainCallbacks)
           /\ \A q \in Users \cup {Nil} : NoneOf(writes[q], Owed)
<1>1. \A c \in Items(mainQ) : c \notin ChainCallbacks
  BY DEF ControlInv, ChainsOK, ChainOK, ChainCallbacks, FormInv, CallbackOK
<1>2. \A w \in Items(writes[cur]) : w \notin Owed
  <2> SUFFICES ASSUME NEW w \in Items(writes[cur]), w \in Owed PROVE FALSE
    OBVIOUS
  <2>1. ChainOK(w.done, flow, cur) /\ w.done # Nil /\ w.done.kind = "profileWritten"
    BY DEF ControlInv, ChainsOK, Owed
  <2>2. w.done.flow \in Flows
    <3>1. cur \in Users \cup {Nil}
      BY DEF FormInv, TypeOK
    <3>2. WriteOK(w, flow, stored)
      BY <3>1 DEF FormInv
    <3> QED
      BY <2>1, <3>2 DEF WriteOK, CallbackOK, FlowKinds
  <2> QED
    BY <2>1, <2>2 DEF ChainOK
<1> QED
  BY <1>1, <1>2 DEF ControlInv, ChainsOK, NoneOf, Items

\* The attempt that is under way is alone on the login screen.
LEMMA Alone ==
    ASSUME FormInv, ControlInv, NEW f \in Flows, ~Finished(f)
    PROVE  /\ modal = "login" /\ ~closing
           /\ \A g \in Flows : g # f => Finished(g)
           /\ NoneOf(mainQ, LoginCallbacks) /\ NoneOf(mainQ, FetchCallbacks)
           /\ Asked(fetching) = {} /\ fetching = <<>>
           /\ flow[f].stage \notin {"waiting", "writing"} =>
                 /\ NoneOf(mainQ, ChainCallbacks)
                 /\ \A q \in Users \cup {Nil} : NoneOf(writes[q], Owed)
<1>1. /\ modal = "login" /\ ~closing
      /\ \A g \in Flows : g # f => Finished(g)
  BY DEF ControlInv, AttemptsOK
<1>2. NoneOf(mainQ, LoginCallbacks)
  BY <1>1 DEF ControlInv, ScreensOK, HomeOK, LoginCallbacks, NoneOf, Items
<1>3. Asked(fetching) = {} /\ NoneOf(mainQ, FetchCallbacks)
  BY <1>1 DEF ControlInv, ScreensOK
<1>4. fetching = <<>>
  <2>1. fetching \in Seq(Fetch)
    BY DEF FormInv, TypeOK
  <2>2. Items(fetching) = {}
    BY <1>3 DEF Asked, Items
  <2> QED
    BY <2>1, <2>2, EmptyItems
<1>5. flow[f].stage \notin {"waiting", "writing"} =>
         \A g \in Flows : flow[g].stage \notin {"waiting", "writing"}
  BY <1>1 DEF Finished
<1> QED
  BY <1>1, <1>2, <1>3, <1>4, <1>5, Calm

\* A step after which no closure of an attempt is under way.
LEMMA CalmStep ==
    ASSUME TypeOK', NoneOf(mainQ', ChainCallbacks),
           \A q \in Users \cup {Nil} : NoneOf(writes'[q], Owed)
    PROVE  ChainsOK'
<1>1. cur' \in Users \cup {Nil} /\ mainQ' \in Seq(Callback)
  BY DEF TypeOK
<1>2. OneOf(mainQ', ChainCallbacks) /\ OneOf(writes'[cur'], Owed)
  BY <1>1 DEF OneOf, NoneOf
<1>3. \A c \in Items(mainQ') : c.kind \notin FlowKinds
  <2>1. Items(mainQ') \subseteq Callback
    BY <1>1, ItemsType
  <2> QED
    BY <2>1 DEF NoneOf, Items, ChainCallbacks
<1>4. \A w \in Items(writes'[cur']) : w \notin Owed
  BY <1>1 DEF NoneOf, Items
<1> QED
  BY <1>1, <1>2, <1>3, <1>4 DEF ChainsOK

\* The user taps a button of the login screen, or an animation ends.
LEMMA ControlUser ==
    ASSUME FormInv, FormInv', ControlInv, Patient,
           SignIn \/ HandleLogout \/ Logout \/ CancelLogout \/ DismissFinished
    PROVE  ControlInv'
<1>1. TypeOK /\ TypeOK'
  BY DEF FormInv
<1>2. CASE SignIn
  <2>1. PICK f \in Flows, u \in Users :
           HandleLogin(f, u) \/ HandleGoogleLogin(f, u) \/ HandleSignUp(f, u)
    BY <1>2 DEF SignIn
  <2>2. PICK chain, stage : /\ StartFlow(f, chain, u, stage)
                            /\ stage \in {"authenticating", "putting"}
    BY <2>1 DEF HandleLogin, HandleGoogleLogin, HandleSignUp
  <2>3. /\ modal = "login" /\ ~closing
        /\ \A g \in Flows : Finished(g)
        /\ UNCHANGED <<cur, writes, mainQ, fetching, homeUser, modal, closing>>
        /\ flow' = [flow EXCEPT ![f] = [chain |-> chain, stage |-> stage, uid |-> u,
                                        behind |-> NoTasks]]
    BY <2>2 DEF StartFlow
  <2>4. /\ \A g \in Flows : g # f => flow'[g] = flow[g]
        /\ flow'[f].stage = stage
    BY <1>1, <2>3 DEF TypeOK
  <2>5. AttemptsOK'
    BY <2>2, <2>3, <2>4 DEF AttemptsOK, Finished
  <2>6. NoneOf(mainQ, ChainCallbacks) /\ \A q \in Users \cup {Nil} : NoneOf(writes[q], Owed)
    BY <2>3, Calm DEF Finished
  <2>7. ChainsOK'
    BY <1>1, <2>3, <2>6, CalmStep
  <2>8. ScreensOK'
    BY <2>3 DEF ControlInv, ScreensOK
  <2> QED
    BY <2>5, <2>7, <2>8 DEF ControlInv
<1>3. CASE HandleLogout \/ Logout \/ CancelLogout \/ DismissFinished
  <2>1. /\ UNCHANGED <<writes, mainQ, fetching, flow, homeUser>>
        /\ cur' \in {cur, Nil}
        /\ ~ (modal = "login" /\ ~closing)
    BY <1>3 DEF HandleLogout, Logout, CancelLogout, DismissFinished
  <2>2. \A f \in Flows : Finished(f)
    BY <2>1 DEF ControlInv, AttemptsOK
  <2>3. NoneOf(mainQ, ChainCallbacks) /\ \A q \in Users \cup {Nil} : NoneOf(writes[q], Owed)
    BY <2>2, Calm DEF Finished
  <2>4. AttemptsOK'
    BY <2>1, <2>2 DEF AttemptsOK, Finished
  <2>5. ChainsOK'
    BY <1>1, <2>1, <2>3, CalmStep
  <2>6. ScreensOK'
    <3>1. CASE HandleLogout
      <4>1. /\ modal = "none" /\ modal' = "sheet" /\ UNCHANGED <<cur, closing>>
            /\ NoneOf(mainQ, LoginCallbacks)
            /\ fetching = <<>> /\ NoneOf(mainQ, FetchCallbacks)
        BY <3>1 DEF HandleLogout, Posted, NoneOf, LoginCallbacks, FetchCallbacks
      <4>2. ~closing /\ cur # Nil
        BY <4>1 DEF ControlInv, ScreensOK
      <4>3. \A c \in Items(mainQ) : HomeOK(c, cur, "sheet", closing)
        <5>1. Items(mainQ) \subseteq Callback
          BY <1>1, ItemsType DEF TypeOK
        <5> QED
          BY <4>1, <5>1 DEF ControlInv, ScreensOK, HomeOK, NoneOf, Items, LoginCallbacks
      <4> QED
        BY <2>1, <4>1, <4>2, <4>3, AskedFew DEF ControlInv, ScreensOK
    <3>2. CASE Logout
      <4>1. modal = "sheet" /\ ~closing /\ cur' = Nil /\ modal' = "login" /\ UNCHANGED closing
        BY <3>2 DEF Logout
      <4>2. Asked(fetching) = {} /\ NoneOf(mainQ, FetchCallbacks)
        BY <4>1 DEF ControlInv, ScreensOK
      <4>3. \A c \in Items(mainQ) : HomeOK(c, Nil, "login", closing)
        <5>1. Items(mainQ) \subseteq Callback
          BY <1>1, ItemsType DEF TypeOK
        <5> QED
          BY <4>1, <4>2, <5>1 DEF ControlInv, ScreensOK, HomeOK, NoneOf, Items, FetchCallbacks
      <4> QED
        BY <2>1, <4>1, <4>2, <4>3 DEF ControlInv, ScreensOK
    <3>3. CASE CancelLogout
      <4>1. modal = "sheet" /\ ~closing /\ modal' = "none" /\ UNCHANGED <<cur, closing>>
        BY <3>3 DEF CancelLogout
      <4> QED
        BY <2>1, <4>1 DEF ControlInv, ScreensOK, HomeOK
    <3>4. CASE DismissFinished
      <4>1. closing /\ modal' = "none" /\ closing' = FALSE /\ cur' = cur
        BY <3>4 DEF DismissFinished
      <4>2. NoneOf(mainQ, LoginCallbacks)
        BY <4>1 DEF ControlInv, ScreensOK, HomeOK, NoneOf, Items, LoginCallbacks
      <4> QED
        BY <2>1, <4>1, <4>2 DEF ControlInv, ScreensOK, HomeOK
    <3> QED
      BY <1>3, <3>1, <3>2, <3>3, <3>4
  <2> QED
    BY <2>4, <2>5, <2>6 DEF ControlInv
<1> QED
  BY <1>2, <1>3

\* Get Started: a write is queued that owes nothing to an attempt.
LEMMA ControlDismiss ==
    ASSUME FormInv, FormInv', ControlInv, DismissOnboarding
    PROVE  ControlInv'
<1>1. TypeOK /\ TypeOK' /\ cur \in Users \cup {Nil}
  BY DEF FormInv, TypeOK
<1>2. /\ UNCHANGED <<cur, mainQ, fetching, flow, homeUser, modal>>
      /\ modal = "onboarding" /\ ~closing /\ closing' = TRUE
  BY DEF DismissOnboarding, Dismiss
<1>3. \A f \in Flows : Finished(f)
  BY <1>2 DEF ControlInv, AttemptsOK
<1>4. NoneOf(mainQ, ChainCallbacks) /\ \A q \in Users \cup {Nil} : NoneOf(writes[q], Owed)
  BY <1>3, Calm DEF Finished
<1>5. cur # Nil /\ Enqueue("seen", cur, Nil, Post("seenWritten", Nil, TRUE))
  BY <1>2 DEF DismissOnboarding, ControlInv, ScreensOK
<1>6. \A q \in Users \cup {Nil} : NoneOf(writes'[q], Owed)
  <2> DEFINE done == Post("seenWritten", Nil, TRUE)
             w == NewWrite("seen", cur, Nil, done)
  <2>1. done \in Callback /\ done.kind = "seenWritten"
    BY HomePosts
  <2>2. Enqueue("seen", cur, Nil, done) /\ cur \in Users
    BY <1>1, <1>5
  <2> HIDE DEF done
  <2>3. w \in Write /\ w.done = done
    BY <2>1, <2>2, NewWriteType
  <2>4. /\ writes'[cur] = Append(writes[cur], w)
        /\ \A q \in Users \cup {Nil} : q # cur => writes'[q] = writes[q]
    BY <1>1, <2>2, <2>3, EnqueueStep
  <2> HIDE DEF w
  <2>5. w \notin Owed
    BY <2>1, <2>3 DEF Owed
  <2>6. writes[cur] \in Seq(Write)
    BY <1>1 DEF TypeOK
  <2>7. NoneOf(writes'[cur], Owed)
    BY <1>1, <1>4, <2>3, <2>4, <2>5, <2>6, SortAppend
  <2> QED
    BY <1>4, <2>4, <2>7
<1>7. ChainsOK'
  BY <1>1, <1>2, <1>4, <1>6, CalmStep
<1>8. AttemptsOK'
  BY <1>2, <1>3 DEF AttemptsOK, Finished
<1>9. ScreensOK'
  BY <1>2, <1>5 DEF ControlInv, ScreensOK, HomeOK
<1> QED
  BY <1>7, <1>8, <1>9 DEF ControlInv

\* After a relaunch no attempt is under way, and the login screen will be
\* presented if nobody is signed in.
LEMMA ControlRestart ==
    ASSUME FormInv, FormInv', ControlInv, Kill \/ \E f \in Flows : CheckError(f)
    PROVE  ControlInv'
<1>1. TypeOK /\ TypeOK'
  BY DEF FormInv
<1>2. /\ Restart /\ cur' = cur /\ modal' = "none" /\ closing' = FALSE
      /\ AuthenticateUser(cur, mainQ', fetching')
  BY DEF Kill, CheckError, Restart
<1>3. \A f \in Flows : flow'[f].stage \in {"idle", "done", "trapped"}
  BY RestartFlows
<1>4. AttemptsOK'
  BY <1>3 DEF AttemptsOK, Finished
<1>5. /\ cur = Nil => /\ mainQ' = <<Post("presentLogin", Nil, TRUE)>>
                      /\ Items(mainQ') = {Post("presentLogin", Nil, TRUE)}
                      /\ Asked(fetching') = {}
      /\ cur # Nil => mainQ' = <<>> /\ Items(mainQ') = {} /\ Asked(fetching') = {cur}
      /\ \A c \in Items(mainQ') : c.kind = "presentLogin"
  BY <1>1, <1>2, LaunchStep
<1>6. NoneOf(mainQ', ChainCallbacks)
  BY <1>5 DEF NoneOf, Items, ChainCallbacks, FlowKinds
<1>7. \A q \in Users \cup {Nil} : NoneOf(writes'[q], Owed)
  <2>1. \A q \in Users \cup {Nil} : \A i \in DOMAIN writes'[q] : writes'[q][i].done = Nil
    BY <1>1, <1>2, RestartWrites
  <2> QED
    BY <2>1 DEF NoneOf, Owed
<1>8. ChainsOK'
  BY <1>1, <1>6, <1>7, CalmStep
<1>9. ScreensOK'
  <2> DEFINE p == Post("presentLogin", Nil, TRUE)
  <2>1. p \in LoginCallbacks
    BY HomePosts DEF LoginCallbacks
  <2>2. \A c \in Items(mainQ') : HomeOK(c, cur', modal', closing')
    BY <1>2, <1>5 DEF HomeOK
  <2> HIDE DEF p
  <2>3. OneOf(mainQ', LoginCallbacks) /\ (cur = Nil => ~NoneOf(mainQ', LoginCallbacks))
    <3>1. CASE cur = Nil
      <4>1. mainQ' = <<p>>
        BY <1>5, <3>1 DEF p
      <4>2. DOMAIN mainQ' = {1} /\ mainQ'[1] = p
        BY <4>1
      <4> QED
        BY <2>1, <4>2 DEF OneOf, NoneOf
    <3>2. CASE cur # Nil
      BY <1>5, <3>2, ItemsFew DEF OneOf
    <3> QED
      BY <3>1, <3>2
  <2>4. \A u \in Asked(fetching') : u = cur
    BY <1>5
  <2> QED
    BY <1>2, <2>2, <2>3, <2>4 DEF ScreensOK
<1> QED
  BY <1>4, <1>8, <1>9 DEF ControlInv

\* Cloud Storage answers an attempt.
LEMMA ControlUpload ==
    ASSUME FormInv, FormInv', ControlInv, NEW f \in Flows, PutDataReply(f) \/ DownloadURLReply(f)
    PROVE  ControlInv'
<1>1. TypeOK /\ TypeOK'
  BY DEF FormInv
<1>2. /\ UNCHANGED <<cur, writes, mainQ, fetching, homeUser, modal, closing>>
      /\ flow[f].stage \in {"putting", "locating"}
      /\ \E s \in {"locating", "authenticating", "done"} : Moves(f, s)
  BY DEF PutDataReply, DownloadURLReply, Moves
<1>3. PICK s \in {"locating", "authenticating", "done"} : Moves(f, s)
  BY <1>2
<1>4. \A g \in Flows : g # f => flow'[g].stage = flow[g].stage
  BY <1>1, <1>3, StageStep DEF Stages
<1>5. flow'[f].stage = s
  BY <1>1, <1>3, StageStep DEF Stages
<1>6. ~Finished(f) /\ flow[f].stage \notin {"waiting", "writing"}
  BY <1>2 DEF Finished
<1>7. /\ modal = "login" /\ ~closing
      /\ \A g \in Flows : g # f => Finished(g)
      /\ NoneOf(mainQ, ChainCallbacks)
      /\ \A q \in Users \cup {Nil} : NoneOf(writes[q], Owed)
  BY <1>6, Alone
<1>8. AttemptsOK'
  BY <1>2, <1>4, <1>5, <1>7 DEF AttemptsOK, Finished
<1>9. ChainsOK'
  BY <1>1, <1>2, <1>7, CalmStep
<1>10. ScreensOK'
  BY <1>2 DEF ControlInv, ScreensOK
<1> QED
  BY <1>8, <1>9, <1>10 DEF ControlInv

\* Auth or the check of the profile answers an attempt: its one closure is
\* posted.
LEMMA ControlAnswer ==
    ASSUME FormInv, FormInv', ControlInv, NEW f \in Flows,
           AuthReply(f) \/ AuthError(f) \/ CheckReply(f)
    PROVE  ControlInv'
<1>1. TypeOK /\ TypeOK' /\ mainQ \in Seq(Callback) /\ cur' \in Users \cup {Nil}
  BY DEF FormInv, TypeOK
<1>2. /\ UNCHANGED <<writes, fetching, homeUser, modal, closing>>
      /\ flow[f].stage \in {"authenticating", "checking"} /\ Moves(f, "waiting")
  BY DEF AuthReply, AuthError, CheckReply, Moves
<1>3. /\ \A g \in Flows : /\ flow'[g].uid = flow[g].uid
                          /\ g # f => flow'[g].stage = flow[g].stage
      /\ flow'[f].stage = "waiting"
  BY <1>1, <1>2, StageStep DEF Stages
<1>4. ~Finished(f) /\ flow[f].stage \notin {"waiting", "writing"}
  BY <1>2 DEF Finished
<1>5. /\ modal = "login" /\ ~closing
      /\ \A g \in Flows : g # f => Finished(g)
      /\ NoneOf(mainQ, LoginCallbacks) /\ NoneOf(mainQ, FetchCallbacks)
      /\ Asked(fetching) = {}
      /\ NoneOf(mainQ, ChainCallbacks)
      /\ \A q \in Users \cup {Nil} : NoneOf(writes[q], Owed)
  BY <1>4, Alone
<1>6. PICK kind \in FlowKinds \ {"profileWritten"}, ok \in BOOLEAN :
         /\ mainQ' = Append(mainQ, Post(kind, f, ok))
         /\ kind \notin {"signInFailed", "createFailed"} => flow[f].uid = cur'
  <2>1. CASE AuthReply(f)
    <3>1. cur' = flow[f].uid
      BY <2>1 DEF AuthReply
    <3>2. \/ mainQ' = Append(mainQ, Post("created", f, TRUE))
          \/ mainQ' = Append(mainQ, Post("signedIn", f, TRUE))
      BY <2>1 DEF AuthReply
    <3>3. {"created", "signedIn"} \subseteq FlowKinds \ {"profileWritten"}
      BY DEF FlowKinds
    <3> QED
      BY <3>1, <3>2, <3>3
  <2>2. CASE AuthError(f)
    <3>1. \/ mainQ' = Append(mainQ, Post("createFailed", f, FALSE))
          \/ mainQ' = Append(mainQ, Post("signInFailed", f, FALSE))
      BY <2>2 DEF AuthError
    <3>2. {"createFailed", "signInFailed"} \subseteq FlowKinds \ {"profileWritten"}
      BY DEF FlowKinds
    <3> QED
      BY <3>1, <3>2
  <2>3. CASE CheckReply(f)
    <3>1. CheckExists(flow[f].uid) \in BOOLEAN
      BY DEF CheckExists, LocalExists
    <3>2. flow[f].uid = cur'
      BY <2>3 DEF CheckReply, ControlInv, AttemptsOK
    <3> QED
      BY <2>3, <3>1, <3>2 DEF CheckReply, FlowKinds
  <2> QED
    BY <2>1, <2>2, <2>3
<1> DEFINE c == Post(kind, f, ok)
<1>7. c \in Callback /\ c.kind = kind /\ c.flow = f
  BY PostType
<1>8. mainQ' = Append(mainQ, c)
  BY <1>6
<1> HIDE DEF c
<1>9. Items(mainQ') = Items(mainQ) \cup {c}
  BY <1>1, <1>7, <1>8, ItemsAppend
<1>10. /\ c \in ChainCallbacks /\ c \notin LoginCallbacks /\ c \notin FetchCallbacks
  BY <1>7 DEF ChainCallbacks, LoginCallbacks, FetchCallbacks, FlowKinds
<1>11. \A d \in Items(mainQ) : d.kind \notin FlowKinds \cup {"presentLogin", "fetched"}
  <2>1. Items(mainQ) \subseteq Callback
    BY <1>1, ItemsType
  <2> QED
    BY <1>5, <2>1 DEF NoneOf, Items, ChainCallbacks, LoginCallbacks, FetchCallbacks
<1>12. AttemptsOK'
  BY <1>2, <1>3, <1>5 DEF AttemptsOK, Finished
<1>13. ChainsOK'
  <2>1. OneOf(mainQ', ChainCallbacks)
    BY <1>1, <1>5, <1>7, <1>8, SortAppend
  <2>2. OneOf(writes'[cur'], Owed)
    BY <1>1, <1>2, <1>5 DEF OneOf, NoneOf
  <2>3. ChainOK(c, flow', cur')
    BY <1>3, <1>6, <1>7 DEF ChainOK
  <2>4. \A w \in Items(writes'[cur']) : w \notin Owed
    BY <1>1, <1>2, <1>5 DEF NoneOf, Items
  <2> QED
    BY <1>1, <1>2, <1>5, <1>9, <1>11, <2>1, <2>2, <2>3, <2>4 DEF ChainsOK
<1>14. ScreensOK'
  <2>1. OneOf(mainQ', LoginCallbacks) /\ NoneOf(mainQ', FetchCallbacks)
    <3>1. OneOf(mainQ', LoginCallbacks)
      BY <1>1, <1>5, <1>7, <1>8, <1>10, SortAppend
    <3>2. NoneOf(mainQ', FetchCallbacks)
      BY <1>1, <1>5, <1>7, <1>8, <1>10, SortAppend
    <3> QED
      BY <3>1, <3>2
  <2>2. \A d \in Items(mainQ') : HomeOK(d, cur', modal', closing')
    BY <1>7, <1>9, <1>11 DEF HomeOK, FlowKinds
  <2> QED
    BY <1>2, <1>5, <2>1, <2>2 DEF ScreensOK
<1> QED
  BY <1>12, <1>13, <1>14 DEF ControlInv

\* Firestore answers a fetch: it was for the current user.
LEMMA ControlFetch ==
    ASSUME FormInv, FormInv', ControlInv, NEW i \in DOMAIN fetching, FetchReply(i)
    PROVE  ControlInv'
<1>1. TypeOK /\ TypeOK' /\ mainQ \in Seq(Callback) /\ fetching \in Seq(Fetch)
  BY DEF FormInv, TypeOK
<1>2. /\ UNCHANGED <<cur, writes, flow, homeUser, modal, closing>>
      /\ fetching' = SubSeq(fetching, 1, i - 1) \o SubSeq(fetching, i + 1, Len(fetching))
  BY DEF FetchReply
<1>3. Asked(fetching') \subseteq Asked(fetching) /\ fetching[i].uid \in Asked(fetching)
  <2>1. fetching' \in Seq(Fetch) /\ Items(fetching') \subseteq Items(fetching)
    BY <1>1, <1>2, ItemsWithout
  <2>2. fetching[i].uid \in Asked(fetching)
    BY DEF Asked
  <2>3. Asked(fetching') \subseteq Asked(fetching)
    BY <1>1, <2>1, AskedFew
  <2> QED
    BY <2>2, <2>3
<1>4. /\ fetching[i].uid = cur /\ cur \in Users /\ cur # Nil
      /\ ~ (modal = "sheet" \/ (modal = "login" /\ ~closing))
  <2>1. fetching[i] \in Fetch
    BY <1>1, ElementOfSeq
  <2>2. fetching[i].uid \in Users
    BY <2>1 DEF Fetch
  <2> QED
    BY <1>1, <1>3, <2>2, NilAssumption DEF ControlInv, ScreensOK
<1>5. \A f \in Flows : Finished(f)
  BY <1>4 DEF ControlInv, AttemptsOK
<1>6. NoneOf(mainQ, ChainCallbacks) /\ \A q \in Users \cup {Nil} : NoneOf(writes[q], Owed)
  BY <1>5, Calm DEF Finished
<1>7. AttemptsOK'
  BY <1>2 DEF ControlInv, AttemptsOK, Finished
<1>8. CASE mainQ' = mainQ
  <2>1. ChainsOK'
    BY <1>1, <1>2, <1>6, <1>8, CalmStep
  <2>2. ScreensOK'
    BY <1>2, <1>3, <1>4, <1>8 DEF ControlInv, ScreensOK
  <2> QED
    BY <1>7, <2>1, <2>2 DEF ControlInv
<1>9. CASE mainQ' # mainQ
  <2>1. PICK c \in FetchCallbacks : mainQ' = Append(mainQ, c) /\ c.user.uid = cur
    <3> DEFINE c == [kind |-> "fetched", flow |-> Nil, ok |-> TRUE,
                     user |-> [uid |-> fetching[i].uid, hasSeenOnboarding |-> LocalSeen(fetching[i].uid)]]
    <3>1. mainQ' = Append(mainQ, c)
      BY <1>9 DEF FetchReply
    <3>2. c.user \in User /\ c.user.uid = cur
      BY <1>4 DEF User, LocalSeen
    <3>3. c \in FetchCallbacks
      BY <3>2 DEF FetchCallbacks, Callback
    <3> QED
      BY <3>1, <3>2, <3>3
  <2>2. /\ c \in Callback /\ c.kind = "fetched"
        /\ c \notin ChainCallbacks /\ c \notin LoginCallbacks
    BY DEF FetchCallbacks, ChainCallbacks, LoginCallbacks, FlowKinds
  <2>3. Items(mainQ') = Items(mainQ) \cup {c}
    BY <1>1, <2>1, <2>2, ItemsAppend
  <2>4. NoneOf(mainQ', ChainCallbacks)
    BY <1>1, <1>6, <2>1, <2>2, SortAppend
  <2>5. ChainsOK'
    BY <1>1, <1>2, <1>6, <2>4, CalmStep
  <2>6. OneOf(mainQ', LoginCallbacks)
    BY <1>1, <2>1, <2>2, SortAppend DEF ControlInv, ScreensOK
  <2>7. HomeOK(c, cur, modal, closing)
    BY <2>1, <2>2 DEF HomeOK
  <2>8. ScreensOK'
    BY <1>2, <1>3, <1>4, <2>3, <2>6, <2>7 DEF ControlInv, ScreensOK
  <2> QED
    BY <1>7, <2>5, <2>8 DEF ControlInv
<1> QED
  BY <1>8, <1>9

\* The worker queue moves no attempt and no closure.
LEMMA ControlStore ==
    ASSUME FormInv, ControlInv, NEW q \in Queues, StoreWrite(q)
    PROVE  ControlInv'
<1>1. TypeOK
  BY DEF FormInv
<1>2. /\ DOMAIN fetching' = DOMAIN fetching
      /\ \A i \in DOMAIN fetching : fetching'[i].uid = fetching[i].uid
      /\ \A f \in Flows : /\ flow'[f].stage = flow[f].stage /\ flow'[f].uid = flow[f].uid
  BY <1>1, StoreStep
<1>3. UNCHANGED <<cur, writes, mainQ, homeUser, modal, closing>>
  BY DEF StoreWrite
<1>4. AttemptsOK'
  BY <1>2, <1>3 DEF ControlInv, AttemptsOK, Finished
<1>5. ChainsOK'
  <2>1. \A c \in Items(mainQ) : c.kind \in FlowKinds => ChainOK(c, flow', cur)
    BY <1>2 DEF ControlInv, ChainsOK, ChainOK, FormInv, CallbackOK
  <2>2. \A w \in Items(writes[cur]) : w \in Owed => ChainOK(w.done, flow', cur)
    <3> SUFFICES ASSUME NEW w \in Items(writes[cur]), w \in Owed
                 PROVE  ChainOK(w.done, flow', cur)
      OBVIOUS
    <3>1. w.done # Nil /\ w.done.kind = "profileWritten" /\ ChainOK(w.done, flow, cur)
      BY DEF ControlInv, ChainsOK, Owed
    <3>2. w.done.flow \in Flows
      <4>1. cur \in Users \cup {Nil}
        BY <1>1 DEF TypeOK
      <4>2. WriteOK(w, flow, stored)
        BY <4>1 DEF FormInv
      <4> QED
        BY <3>1, <4>2 DEF WriteOK, CallbackOK, FlowKinds
    <3> QED
      BY <1>2, <3>1, <3>2 DEF ChainOK
  <2> QED
    BY <1>3, <2>1, <2>2 DEF ControlInv, ChainsOK
<1>6. Asked(fetching') = Asked(fetching)
  BY <1>2 DEF Asked
<1>7. ScreensOK'
  BY <1>3, <1>6 DEF ControlInv, ScreensOK
<1> QED
  BY <1>4, <1>5, <1>7 DEF ControlInv

\* The server answers a write: what it owes to an attempt becomes its closure.
LEMMA ControlWrite ==
    ASSUME FormInv, FormInv', ControlInv, NEW ok \in BOOLEAN, WriteReply(ok)
    PROVE  ControlInv'
<1> DEFINE w == Head(writes[cur])
<1>1. /\ writes[cur] \in Seq(Write) /\ writes[cur] # <<>>
      /\ w \in Write /\ w \in Items(writes[cur]) /\ WriteOK(w, flow, stored)
      /\ writes'[cur] = Tail(writes[cur])
      /\ Items(writes'[cur]) \subseteq Items(writes[cur])
      /\ \A q \in Users \cup {Nil} : q # cur => writes'[q] = writes[q]
      /\ w.done = Nil => mainQ' = mainQ
      /\ w.done # Nil => w.done \in Callback /\ mainQ' = Append(mainQ, Answered(w.done, ok))
  BY ReplyStep
<1>2. /\ UNCHANGED <<cur, fetching, flow, homeUser, modal, closing>>
      /\ TypeOK /\ mainQ \in Seq(Callback)
  BY DEF WriteReply, FormInv, TypeOK
<1>3. AttemptsOK'
  BY <1>2 DEF ControlInv, AttemptsOK, Finished
<1>4. /\ NoneOf(writes[cur], Owed) <=> NoneOf(writes'[cur], Owed) /\ w \notin Owed
      /\ OneOf(writes'[cur], Owed)
      /\ w \in Owed => NoneOf(writes'[cur], Owed) /\ NoneOf(mainQ, ChainCallbacks)
  <2>1. OneOf(writes[cur], Owed) /\ (NoneOf(mainQ, ChainCallbacks) \/ NoneOf(writes[cur], Owed))
    BY DEF ControlInv, ChainsOK
  <2>2. /\ NoneOf(writes[cur], Owed) <=> NoneOf(Tail(writes[cur]), Owed) /\ w \notin Owed
        /\ OneOf(writes[cur], Owed) => OneOf(Tail(writes[cur]), Owed)
        /\ OneOf(writes[cur], Owed) /\ w \in Owed => NoneOf(Tail(writes[cur]), Owed)
    BY <1>1, SortTail
  <2> HIDE DEF w
  <2> QED
    BY <1>1, <2>1, <2>2
<1> HIDE DEF w
<1>5. \A v \in Items(writes'[cur]) : v \in Owed => ChainOK(v.done, flow', cur)
  BY <1>1, <1>2 DEF ControlInv, ChainsOK
<1>6. \A q \in Users \cup {Nil} : q # cur' => NoneOf(writes'[q], Owed)
  BY <1>1, <1>2 DEF ControlInv, ChainsOK
<1>7. CASE w.done = Nil
  <2>1. ChainsOK'
    BY <1>1, <1>2, <1>4, <1>5, <1>6, <1>7 DEF ControlInv, ChainsOK
  <2>2. ScreensOK'
    BY <1>1, <1>2, <1>7 DEF ControlInv, ScreensOK
  <2> QED
    BY <1>3, <2>1, <2>2 DEF ControlInv
<1>8. CASE w.done # Nil
  <2> DEFINE a == Answered(w.done, ok)
  <2>1. w.done \in Callback /\ mainQ' = Append(mainQ, a)
    BY <1>1, <1>8
  <2>2. /\ a \in Callback /\ a.kind = w.done.kind /\ a.flow = w.done.flow
        /\ a.kind \in {"profileWritten", "seenWritten"}
    BY <1>1, <1>8, <2>1, AnsweredType DEF WriteOK
  <2> HIDE DEF a
  <2>3. Items(mainQ') = Items(mainQ) \cup {a}
    BY <1>2, <2>1, <2>2, ItemsAppend
  <2>4. a \notin LoginCallbacks /\ a \notin FetchCallbacks /\ HomeOK(a, cur, modal, closing)
    BY <2>2 DEF LoginCallbacks, FetchCallbacks, HomeOK
  <2>5. /\ NoneOf(mainQ', LoginCallbacks) <=> NoneOf(mainQ, LoginCallbacks)
        /\ OneOf(mainQ, LoginCallbacks) => OneOf(mainQ', LoginCallbacks)
    BY <1>2, <2>1, <2>2, <2>4, SortAppend
  <2>6. NoneOf(mainQ', FetchCallbacks) <=> NoneOf(mainQ, FetchCallbacks)
    BY <1>2, <2>1, <2>2, <2>4, SortAppend
  <2>7. ScreensOK'
    BY <1>2, <2>3, <2>4, <2>5, <2>6 DEF ControlInv, ScreensOK
  <2>8. /\ a \in ChainCallbacks <=> w \in Owed
        /\ w \in Owed => ChainOK(a, flow, cur)
    <3>1. a \in ChainCallbacks <=> w \in Owed
      BY <1>1, <1>8, <2>2 DEF ChainCallbacks, Owed, FlowKinds
    <3>2. w \in Owed => ChainOK(w.done, flow, cur)
      BY <1>1 DEF ControlInv, ChainsOK
    <3> QED
      BY <2>2, <3>1, <3>2 DEF ChainOK
  <2>9. /\ NoneOf(mainQ', ChainCallbacks) <=> NoneOf(mainQ, ChainCallbacks) /\ w \notin Owed
        /\ OneOf(mainQ', ChainCallbacks)
    <3>1. OneOf(mainQ, ChainCallbacks)
      BY DEF ControlInv, ChainsOK
    <3>2. /\ NoneOf(mainQ', ChainCallbacks) <=> NoneOf(mainQ, ChainCallbacks)
                 /\ a \notin ChainCallbacks
          /\ OneOf(mainQ, ChainCallbacks) /\ (a \notin ChainCallbacks
                 \/ NoneOf(mainQ, ChainCallbacks))
                => OneOf(mainQ', ChainCallbacks)
      BY <1>2, <2>1, <2>2, SortAppend
    <3> QED
      BY <1>4, <2>8, <3>1, <3>2
  <2>10. a.kind \in FlowKinds => ChainOK(a, flow, cur)
    BY <2>2, <2>8 DEF ChainCallbacks
  <2>11. NoneOf(mainQ', ChainCallbacks) \/ NoneOf(writes'[cur], Owed)
    BY <1>4, <2>9 DEF ControlInv, ChainsOK
  <2>12. \A c \in Items(mainQ') : c.kind \in FlowKinds => ChainOK(c, flow', cur)
    BY <1>2, <2>3, <2>10 DEF ControlInv, ChainsOK
  <2>13. ChainsOK'
    BY <1>2, <1>4, <1>5, <1>6, <2>9, <2>11, <2>12 DEF ChainsOK
  <2> QED
    BY <1>3, <2>7, <2>13 DEF ControlInv
<1> QED
  BY <1>7, <1>8

\* Home's own closures.
LEMMA ControlRunHome ==
    ASSUME FormInv, FormInv', ControlInv, RunPresentLogin \/ RunFetched \/ RunSeenWritten
    PROVE  ControlInv'
<1> DEFINE c == Head(mainQ)
<1>1. TypeOK /\ TypeOK' /\ mainQ \in Seq(Callback)
  BY DEF FormInv, TypeOK
<1>2. UNCHANGED <<cur, writes, fetching, flow, closing>>
  BY DEF RunPresentLogin, RunFetched, RunSeenWritten
<1>3. /\ mainQ # <<>> /\ c \in Callback /\ c \in Items(mainQ)
      /\ c.kind \in {"presentLogin", "fetched", "seenWritten"}
      /\ CallbackOK(c, flow, stored)
      /\ mainQ' = Tail(mainQ) /\ Items(mainQ') \subseteq Items(mainQ)
  BY RunStep DEF RunPresentLogin, RunFetched, RunSeenWritten
<1>4. HomeOK(c, cur, modal, closing)
  BY <1>3 DEF ControlInv, ScreensOK
<1>5. /\ OneOf(mainQ', ChainCallbacks)
      /\ NoneOf(mainQ, ChainCallbacks) => NoneOf(mainQ', ChainCallbacks)
  BY <1>1, <1>3, SortTail DEF ControlInv, ChainsOK
<1>6. /\ OneOf(mainQ', LoginCallbacks)
      /\ NoneOf(mainQ, LoginCallbacks) <=> NoneOf(mainQ', LoginCallbacks)
             /\ c \notin LoginCallbacks
      /\ c \in LoginCallbacks => NoneOf(mainQ', LoginCallbacks)
  BY <1>1, <1>3, SortTail DEF ControlInv, ScreensOK
<1>7. /\ NoneOf(mainQ, FetchCallbacks) <=> NoneOf(mainQ', FetchCallbacks)
             /\ c \notin FetchCallbacks
  BY <1>1, <1>3, SortTail
<1> HIDE DEF c
<1>8. ChainsOK'
  BY <1>2, <1>3, <1>5 DEF ControlInv, ChainsOK
<1>9. CASE RunPresentLogin
  <2>1. c.kind = "presentLogin" /\ homeUser' = homeUser
    BY <1>9 DEF RunPresentLogin, Run, c
  <2>2. c \in LoginCallbacks /\ cur = Nil /\ modal = "none" /\ ~closing /\ modal' = "login"
    BY <1>3, <1>4, <1>9, <2>1 DEF RunPresentLogin, Present, HomeOK, LoginCallbacks
  <2>3. \A f \in Flows : Finished(f)
    BY <2>2 DEF ControlInv, AttemptsOK
  <2>4. AttemptsOK'
    BY <1>2, <2>3 DEF AttemptsOK, Finished
  <2>5. NoneOf(mainQ', LoginCallbacks) /\ \A d \in Items(mainQ') : d.kind # "presentLogin"
    <3>1. Items(mainQ') \subseteq Callback
      BY <1>1, <1>3, ItemsType
    <3> QED
      BY <1>6, <2>2, <3>1 DEF NoneOf, Items, LoginCallbacks
  <2>6. Asked(fetching) = {} /\ \A d \in Items(mainQ) : d.kind # "fetched"
    <3>1. Asked(fetching) \subseteq Users /\ Items(mainQ) \subseteq Callback
      <4>1. fetching \in Seq(Fetch)
        BY <1>1 DEF TypeOK
      <4>2. Items(fetching) \subseteq Fetch /\ Items(mainQ) \subseteq Callback
        BY <1>1, <4>1, ItemsType
      <4>3. \A e \in Fetch : e.uid \in Users
        BY DEF Fetch
      <4> QED
        BY <4>1, <4>2, <4>3, AskedFew
    <3>2. \A u \in Asked(fetching) : u = Nil
      BY <2>2 DEF ControlInv, ScreensOK
    <3>3. ASSUME NEW d \in Items(mainQ), d.kind = "fetched"
          PROVE  FALSE
      <4>1. d.user.uid = Nil
        BY <2>2, <3>3 DEF ControlInv, ScreensOK, HomeOK
      <4>2. d.user \in User
        BY <3>1, <3>3 DEF FormInv, CallbackOK, Callback
      <4> QED
        BY <4>1, <4>2, NilAssumption DEF User
    <3> QED
      BY <3>1, <3>2, <3>3, NilAssumption
  <2>7. NoneOf(mainQ', FetchCallbacks)
    BY <1>3, <2>6 DEF NoneOf, Items, FetchCallbacks
  <2>8. \A d \in Items(mainQ') : HomeOK(d, cur', modal', closing')
    BY <1>3, <2>5, <2>6 DEF HomeOK
  <2>9. ScreensOK'
    BY <1>2, <1>6, <2>2, <2>6, <2>7, <2>8 DEF ScreensOK
  <2> QED
    BY <1>8, <2>4, <2>9 DEF ControlInv
<1>10. ASSUME c.kind # "presentLogin", modal' # modal => modal = "none" /\ modal' = "onboarding",
              modal' = "onboarding" => cur # Nil /\ homeUser'.uid = cur
       PROVE  ControlInv'
  <2>1. AttemptsOK'
    BY <1>2, <1>10 DEF ControlInv, AttemptsOK, Finished
  <2>2. NoneOf(mainQ, LoginCallbacks) <=> NoneOf(mainQ', LoginCallbacks)
    BY <1>6, <1>10 DEF LoginCallbacks
  <2>3. modal' # modal => NoneOf(mainQ, LoginCallbacks)
    <3>1. modal' # modal => cur # Nil
      BY <1>10
    <3> QED
      BY <3>1 DEF ControlInv, ScreensOK, HomeOK, NoneOf, Items, LoginCallbacks
  <2>4. \A d \in Items(mainQ') : HomeOK(d, cur', modal', closing')
    <3>1. Items(mainQ') \subseteq Callback
      BY <1>1, <1>3, ItemsType
    <3>2. CASE modal' = modal
      BY <1>2, <1>3, <3>2 DEF ControlInv, ScreensOK
    <3>3. CASE modal' # modal
      <4>1. \A d \in Items(mainQ') : d.kind # "presentLogin"
        BY <2>2, <2>3, <3>1, <3>3 DEF NoneOf, Items, LoginCallbacks
      <4> QED
        BY <1>2, <1>3, <4>1 DEF ControlInv, ScreensOK, HomeOK
    <3> QED
      BY <3>2, <3>3
  <2>5. closing' => modal' \in {"login", "onboarding"}
    BY <1>2, <1>10 DEF ControlInv, ScreensOK
  <2>6. ScreensOK'
    BY <1>2, <1>6, <1>7, <1>10, <2>2, <2>4, <2>5 DEF ControlInv, ScreensOK
  <2> QED
    BY <1>8, <2>1, <2>6 DEF ControlInv
<1>11. CASE RunFetched
  <2>1. c.kind = "fetched" /\ homeUser' = c.user /\ modal' \in {modal, "onboarding"}
    BY <1>11 DEF RunFetched, Run, c, SetHomeUser, PresentOnboardingIfNecessary, Present
  <2>2. modal' # modal => modal = "none"
    BY <1>11 DEF RunFetched, SetHomeUser, PresentOnboardingIfNecessary, Present
  <2>3. c.user.uid = cur /\ c.user \in User
    BY <1>3, <1>4, <2>1 DEF HomeOK, CallbackOK, Callback
  <2>4. cur # Nil
    BY <2>3, NilAssumption DEF User
  <2> QED
    BY <1>10, <2>1, <2>2, <2>3, <2>4
<1>12. CASE RunSeenWritten
  <2>1. c.kind = "seenWritten"
    BY <1>12 DEF RunSeenWritten, Run, c
  <2>2. modal' = modal /\ (homeUser # Nil => homeUser'.uid = homeUser.uid)
    <3>1. CASE homeUser = Nil
      BY <1>12, <3>1 DEF RunSeenWritten, SetHomeUser, PresentOnboardingIfNecessary
    <3>2. CASE homeUser # Nil
      <4> DEFINE u == [homeUser EXCEPT !.hasSeenOnboarding = TRUE]
      <4>1. u.hasSeenOnboarding /\ u.uid = homeUser.uid
        BY <1>1, <3>2 DEF TypeOK, User
      <4>2. homeUser' = u /\ PresentOnboardingIfNecessary(u)
        BY <1>12, <3>2 DEF RunSeenWritten, SetHomeUser
      <4> HIDE DEF u
      <4> QED
        BY <4>1, <4>2 DEF PresentOnboardingIfNecessary
    <3> QED
      BY <3>1, <3>2
  <2>3. modal = "onboarding" => cur # Nil /\ homeUser.uid = cur /\ homeUser # Nil
    BY DEF ControlInv, ScreensOK, FormInv
  <2> QED
    BY <1>10, <2>1, <2>2, <2>3
<1> QED
  BY <1>9, <1>11, <1>12

\* The closure of an attempt runs: the attempt is the only one, on the login
\* screen, and whom it signed in is the current user.
LEMMA RunChain ==
    ASSUME FormInv, ControlInv, NEW kind \in FlowKinds, Run(kind), NEW c, c = Head(mainQ)
    PROVE  /\ c \in Callback /\ c.kind = kind /\ c.flow \in Flows /\ flow[c.flow].uid \in Users
           /\ kind \notin {"signInFailed", "createFailed"} => flow[c.flow].uid = cur
           /\ flow[c.flow].stage = (IF kind = "profileWritten" THEN "writing" ELSE "waiting")
           /\ \A g \in Flows : g # c.flow => Finished(g)
           /\ modal = "login" /\ ~closing
           /\ NoneOf(mainQ', ChainCallbacks) /\ NoneOf(mainQ', LoginCallbacks)
           /\ NoneOf(mainQ', FetchCallbacks) /\ fetching = <<>>
           /\ \A q \in Users \cup {Nil} : NoneOf(writes[q], Owed)
           /\ \A d \in Items(mainQ') : d.kind \notin FlowKinds \cup {"presentLogin", "fetched"}
<1>1. /\ mainQ \in Seq(Callback) /\ mainQ # <<>>
      /\ c \in Callback /\ c.kind = kind /\ c \in Items(mainQ)
      /\ c.flow \in Flows /\ flow[c.flow].uid \in Users
      /\ mainQ' = Tail(mainQ) /\ mainQ' \in Seq(Callback)
  BY RunStep DEF FormInv, TypeOK
<1>2. ChainOK(c, flow, cur) /\ c \in ChainCallbacks
  BY <1>1 DEF ControlInv, ChainsOK, ChainCallbacks
<1>3. ~Finished(c.flow)
  BY <1>2 DEF ChainOK, Finished
<1>4. /\ modal = "login" /\ ~closing
      /\ \A g \in Flows : g # c.flow => Finished(g)
      /\ NoneOf(mainQ, LoginCallbacks) /\ NoneOf(mainQ, FetchCallbacks) /\ fetching = <<>>
  BY <1>1, <1>3, Alone
<1>5. NoneOf(mainQ', LoginCallbacks)
  BY <1>1, <1>4, SortTail
<1>6. NoneOf(mainQ', FetchCallbacks)
  BY <1>1, <1>4, SortTail
<1>7. NoneOf(mainQ', ChainCallbacks) /\ ~NoneOf(mainQ, ChainCallbacks)
  BY <1>1, <1>2, SortTail DEF ControlInv, ChainsOK
<1>8. \A q \in Users \cup {Nil} : NoneOf(writes[q], Owed)
  BY <1>7 DEF ControlInv, ChainsOK
<1>9. \A d \in Items(mainQ') : d.kind \notin FlowKinds \cup {"presentLogin", "fetched"}
  <2>1. Items(mainQ') \subseteq Callback
    BY <1>1, ItemsType
  <2> QED
    BY <1>5, <1>6, <1>7, <2>1
       DEF NoneOf, Items, ChainCallbacks, LoginCallbacks, FetchCallbacks
<1> QED
  BY <1>1, <1>2, <1>4, <1>5, <1>6, <1>7, <1>8, <1>9 DEF ChainOK

\* What the closure of an attempt does next: it ends the attempt, with or
\* without authenticationComplete, or calls Firestore.
LEMMA ChainMoves ==
    ASSUME FormInv, ControlInv,
           RunSignedIn \/ RunAuthFailed \/ RunChecked \/ RunCreated \/ RunProfileWritten
    PROVE  \E kind \in FlowKinds :
              /\ Run(kind)
              /\ UNCHANGED <<cur, docs, homeUser, modal, accounts, queued, tapped, kept>>
              /\ \/ /\ Moves(Head(mainQ).flow, "done") /\ AuthenticationComplete
                    /\ UNCHANGED writes
                    /\ kind \notin {"signInFailed", "createFailed"}
                 \/ /\ Moves(Head(mainQ).flow, "done") /\ UNCHANGED <<writes, fetching, closing>>
                 \/ /\ Moves(Head(mainQ).flow, "checking") /\ Check(Head(mainQ).flow)
                    /\ UNCHANGED <<writes, fetching, closing>>
                    /\ kind = "signedIn"
                 \/ /\ Moves(Head(mainQ).flow, "writing") /\ UNCHANGED <<fetching, closing>>
                    /\ kind = "created" \/ (kind = "checked" /\ ~Head(mainQ).ok)
                    /\ \E image \in stored \cup {Photo} :
                          Enqueue("create", flow[Head(mainQ).flow].uid, image,
                                  Post("profileWritten", Head(mainQ).flow, TRUE))
<1>1. CASE RunSignedIn
  BY <1>1 DEF RunSignedIn, FlowKinds, Moves
<1>2. CASE RunAuthFailed
  BY <1>2 DEF RunAuthFailed, FlowKinds, Moves
<1>3. CASE RunChecked
  BY <1>3 DEF RunChecked, FlowKinds, Moves
<1>4. CASE RunCreated
  <2>1. Run("created")
    BY <1>4 DEF RunCreated
  <2>2. Head(mainQ).flow \in stored
    BY <2>1, RunStep DEF CallbackOK
  <2> QED
    BY <1>4, <2>1, <2>2 DEF RunCreated, FlowKinds, Moves
<1>5. CASE RunProfileWritten
  BY <1>5 DEF RunProfileWritten, FlowKinds, Moves
<1> QED
  BY <1>1, <1>2, <1>3, <1>4, <1>5

\* The write w of a profile joins the queue of the current user.
Joins(f, w) ==
    /\ w.op = "create" /\ w.uid = flow[f].uid /\ w \in Owed /\ w \in Creates
    /\ w.done.kind = "profileWritten" /\ w.done.flow = f
    /\ writes'[cur] = Append(writes[cur], w)
    /\ Items(writes'[cur]) = Items(writes[cur]) \cup {w}
    /\ \A q \in Users \cup {Nil} : q # cur => writes'[q] = writes[q]

\* The write of a profile that the closure of attempt f asks for.
LEMMA CreateStep ==
    ASSUME TypeOK, NEW f \in Flows, flow[f].uid \in Users, NEW image \in stored \cup {Photo},
           Enqueue("create", flow[f].uid, image, Post("profileWritten", f, TRUE))
    PROVE  \E w \in Write : Joins(f, w)
<1> DEFINE u == flow[f].uid
           done == Post("profileWritten", f, TRUE)
           w == NewWrite("create", u, image, done)
<1>1. done \in Callback /\ done.kind = "profileWritten" /\ done.flow = f
  <2>1. "profileWritten" \in FlowKinds \cup {"presentLogin", "seenWritten"}
    BY DEF FlowKinds
  <2>2. f \in Flows \cup {Nil} /\ TRUE \in BOOLEAN
    OBVIOUS
  <2> QED
    BY <2>1, <2>2, PostType
<1>2. image \in Images \cup {Nil} /\ u \in Users
  BY DEF TypeOK, Images
<1>3. Enqueue("create", u, image, done)
  OBVIOUS
<1> HIDE DEF u, done
<1>4. w \in Write /\ w.op = "create" /\ w.uid = u /\ w.done = done
  BY <1>1, <1>2, NewWriteType
<1>5. /\ writes'[cur] = Append(writes[cur], w)
      /\ Items(writes'[cur]) = Items(writes[cur]) \cup {w}
      /\ \A q \in Users \cup {Nil} : q # cur => writes'[q] = writes[q]
  BY <1>3, <1>4, EnqueueStep
<1> HIDE DEF w
<1>6. w \in Owed /\ w \in Creates
  BY <1>1, <1>4, NilRecordAssumption DEF Owed, Creates
<1>7. Joins(f, w)
  BY <1>1, <1>4, <1>5, <1>6 DEF u, Joins
<1> QED
  BY <1>4, <1>7

\* A closure of an attempt runs.
LEMMA ControlRunFlow ==
    ASSUME FormInv, FormInv', ControlInv,
           RunSignedIn \/ RunAuthFailed \/ RunChecked \/ RunCreated \/ RunProfileWritten
    PROVE  ControlInv'
<1> DEFINE c == Head(mainQ)
           f == c.flow
           Complete(kind) == /\ Moves(f, "done") /\ AuthenticationComplete /\ UNCHANGED writes
                             /\ kind \notin {"signInFailed", "createFailed"}
           End == Moves(f, "done") /\ UNCHANGED <<writes, fetching, closing>>
           Look(kind) == /\ Moves(f, "checking") /\ UNCHANGED <<writes, fetching, closing>>
                         /\ kind = "signedIn"
           Create(kind) == /\ Moves(f, "writing") /\ UNCHANGED <<fetching, closing>>
                           /\ kind \in {"created", "checked"}
                           /\ \E image \in stored \cup {Photo} :
                                 Enqueue("create", flow[f].uid, image,
                                         Post("profileWritten", f, TRUE))
<1>1. TypeOK /\ TypeOK' /\ cur \in Users \cup {Nil}
  BY DEF FormInv, TypeOK
<1>2. PICK kind \in FlowKinds :
         /\ Run(kind) /\ UNCHANGED <<cur, homeUser, modal>>
         /\ Complete(kind) \/ End \/ Look(kind) \/ Create(kind)
  BY ChainMoves
<1>3. /\ f \in Flows /\ flow[f].uid \in Users
      /\ kind \notin {"signInFailed", "createFailed"} => flow[f].uid = cur
      /\ \A g \in Flows : g # f => Finished(g)
      /\ modal = "login" /\ ~closing
      /\ NoneOf(mainQ', ChainCallbacks) /\ NoneOf(mainQ', LoginCallbacks)
      /\ NoneOf(mainQ', FetchCallbacks) /\ fetching = <<>>
      /\ \A q \in Users \cup {Nil} : NoneOf(writes[q], Owed)
      /\ \A d \in Items(mainQ') : d.kind \notin FlowKinds \cup {"presentLogin", "fetched"}
  BY <1>2, RunChain
<1> HIDE DEF c, f
<1>4. ASSUME NEW s \in Stages, Moves(f, s),
             s \notin {"done", "trapped", "idle"} => ~closing',
             s \in {"checking", "writing"} => flow[f].uid = cur
      PROVE  AttemptsOK' /\ flow'[f].stage = s /\ flow'[f].uid = flow[f].uid
  <2>1. /\ \A g \in Flows : /\ flow'[g].uid = flow[g].uid
                            /\ g # f => flow'[g].stage = flow[g].stage
        /\ flow'[f].stage = s
    BY <1>1, <1>3, <1>4, StageStep
  <2> QED
    BY <1>2, <1>3, <1>4, <2>1 DEF AttemptsOK, Finished
<1>5. /\ OneOf(mainQ', LoginCallbacks)
      /\ \A d \in Items(mainQ') : HomeOK(d, cur', modal', closing')
  BY <1>3 DEF OneOf, NoneOf, HomeOK
<1>6. UNCHANGED writes => ChainsOK'
  BY <1>1, <1>3, CalmStep
<1>7. UNCHANGED <<fetching, closing>> => ScreensOK'
  BY <1>2, <1>3, <1>5, AskedFew DEF ScreensOK
<1>8. CASE Complete(kind)
  <2>1. AttemptsOK'
    BY <1>4, <1>8 DEF Stages
  <2>2. cur # Nil /\ closing' = TRUE /\ fetching' = Append(<<>>, [uid |-> cur, behind |-> Unstored])
    BY <1>2, <1>3, <1>8, NilAssumption DEF AuthenticationComplete, Dismiss
  <2>3. Asked(fetching') = {cur}
    <3> DEFINE e == [uid |-> cur, behind |-> Unstored]
    <3>1. <<>> \in Seq(Fetch) /\ e \in Fetch /\ e.uid = cur
      BY <1>1, <2>2, UnstoredType, AskedFew
    <3>2. fetching' = Append(<<>>, e)
      BY <2>2
    <3> HIDE DEF e
    <3>3. Items(fetching') = {e} /\ fetching' \in Seq(Fetch)
      BY <3>1, <3>2, ItemsAppend, ItemsFew
    <3> QED
      BY <3>1, <3>3, AskedFew
  <2>4. ScreensOK'
    BY <1>2, <1>3, <1>5, <2>2, <2>3 DEF ScreensOK
  <2> QED
    BY <1>6, <1>8, <2>1, <2>4 DEF ControlInv
<1>9. CASE End
  <2>1. AttemptsOK'
    BY <1>4, <1>9 DEF Stages
  <2> QED
    BY <1>6, <1>7, <1>9, <2>1 DEF ControlInv
<1>10. CASE Look(kind)
  <2>1. AttemptsOK'
    BY <1>3, <1>4, <1>10 DEF Stages
  <2> QED
    BY <1>6, <1>7, <1>10, <2>1 DEF ControlInv
<1>11. CASE Create(kind)
  <2>1. flow[f].uid = cur
    BY <1>3, <1>11
  <2>2. AttemptsOK' /\ flow'[f].stage = "writing" /\ flow'[f].uid = cur
    BY <1>3, <1>4, <1>11, <2>1 DEF Stages
  <2>3. PICK w \in Write : Joins(f, w)
    <3>1. PICK image \in stored \cup {Photo} :
             Enqueue("create", flow[f].uid, image, Post("profileWritten", f, TRUE))
      BY <1>11
    <3> QED
      BY <1>1, <1>3, <3>1, CreateStep
  <2>4. writes[cur] \in Seq(Write) /\ NoneOf(writes[cur], Owed)
    BY <1>1, <1>3 DEF TypeOK
  <2>5. OneOf(writes'[cur], Owed)
    BY <2>3, <2>4, SortAppend DEF Joins
  <2>6. ChainOK(w.done, flow', cur)
    BY <2>2, <2>3 DEF ChainOK, Joins
  <2>7. \A v \in Items(writes[cur]) : v \notin Owed
    BY <2>4 DEF NoneOf, Items
  <2>8. OneOf(mainQ', ChainCallbacks)
    BY <1>3 DEF OneOf, NoneOf
  <2>9. ChainsOK'
    BY <1>2, <1>3, <2>3, <2>5, <2>6, <2>7, <2>8 DEF ChainsOK, Joins
  <2> QED
    BY <1>7, <1>11, <2>2, <2>9 DEF ControlInv
<1> QED
  BY <1>2, <1>8, <1>9, <1>10, <1>11

\* At the first launch.
LEMMA ControlInit == Init => ControlInv
<1> SUFFICES ASSUME Init PROVE ControlInv
  OBVIOUS
<1>1. FormInv /\ TypeOK /\ AuthenticateUser(cur, mainQ, fetching) /\ cur \in Users \cup {Nil}
  BY FormInit DEF FormInv, Init, TypeOK
<1>2. /\ \A f \in Flows : flow[f].stage = "idle"
      /\ \A q \in Users \cup {Nil} : writes[q] = <<>>
      /\ homeUser = Nil /\ modal = "none" /\ closing = FALSE
  BY DEF Init
<1>3. AttemptsOK
  BY <1>2 DEF AttemptsOK, Finished
<1> DEFINE p == Post("presentLogin", Nil, TRUE)
<1>4. p \in LoginCallbacks
  BY HomePosts DEF LoginCallbacks
<1>5. /\ cur = Nil => mainQ = <<p>> /\ Asked(fetching) = {}
      /\ cur # Nil => mainQ = <<>> /\ Asked(fetching) = {cur}
      /\ \A c \in Items(mainQ) : c.kind = "presentLogin" /\ cur = Nil
  BY <1>1, LaunchStep
<1> HIDE DEF p
<1>6. NoneOf(mainQ, ChainCallbacks)
  BY <1>5 DEF NoneOf, Items, ChainCallbacks, FlowKinds
<1>7. \A q \in Users \cup {Nil} : NoneOf(writes[q], Owed) /\ Items(writes[q]) = {}
  BY <1>2, ItemsFew DEF NoneOf
<1>8. ChainsOK
  BY <1>1, <1>5, <1>6, <1>7 DEF ChainsOK, OneOf, NoneOf, FlowKinds
<1>9. OneOf(mainQ, LoginCallbacks) /\ (cur = Nil => ~NoneOf(mainQ, LoginCallbacks))
  <2>1. CASE cur = Nil
    <3>1. DOMAIN mainQ = {1} /\ mainQ[1] = p
      BY <1>5, <2>1
    <3> QED
      BY <1>4, <3>1 DEF OneOf, NoneOf
  <2>2. CASE cur # Nil
    BY <1>5, <2>2, ItemsFew DEF OneOf
  <2> QED
    BY <2>1, <2>2
<1>10. \A c \in Items(mainQ) : HomeOK(c, cur, modal, closing)
  BY <1>2, <1>5 DEF HomeOK
<1>11. \A u \in Asked(fetching) : u = cur
  BY <1>5
<1>12. ScreensOK
  BY <1>2, <1>9, <1>10, <1>11 DEF ScreensOK
<1> QED
  BY <1>3, <1>8, <1>12 DEF ControlInv

\* Every step of a patient user and of the services keeps the control.
LEMMA ControlNext == Patient /\ FormInv /\ FormInv' /\ ControlInv /\ [Next]_vars => ControlInv'
<1> SUFFICES ASSUME Patient, FormInv, FormInv', ControlInv, [Next]_vars PROVE ControlInv'
  OBVIOUS
<1>1. CASE UNCHANGED vars
  BY <1>1 DEF vars, ControlInv, AttemptsOK, ChainsOK, ScreensOK, Finished
<1>2. CASE Next
  BY <1>2, ControlUser, ControlDismiss, ControlRestart, ControlUpload, ControlAnswer,
     ControlFetch, ControlStore, ControlWrite, ControlRunFlow, ControlRunHome
     DEF Next, Answer, Fetching, Storing, Writing, RunMainQueue
<1> QED
  BY <1>1, <1>2

\* At all times, with a patient user: attempts come one after the other, each
\* has at most one closure under way, whoever a closure or a fetch is about is
\* the current user, and nobody is on Home signed out.
THEOREM ControlInvariant == Patient => (Spec => []ControlInv)
<1> SUFFICES ASSUME Patient PROVE Spec => []ControlInv
  OBVIOUS
<1>1. Init => ControlInv
  BY ControlInit
<1>2. FormInv /\ FormInv' /\ ControlInv /\ [Next]_vars => ControlInv'
  BY ControlNext
<1> QED
  BY <1>1, <1>2, FormInvariant, PTL DEF Spec

\* A user who is signed out is on the login screen, or the closure that
\* presents it is posted, whatever fails and wherever the process is killed,
\* if the user waits for what is under way (HomeViewController.swift:190 closes
\* whatever is presented).
THEOREM LoginCorrect == Patient => (Spec => []SignedOutSeesLogin)
<1> SUFFICES ASSUME Patient PROVE Spec => []SignedOutSeesLogin
  OBVIOUS
<1>1. Spec => []ControlInv
  BY ControlInvariant
<1>2. ControlInv => SignedOutSeesLogin
  BY ControlInvMeaning
<1> QED
  BY <1>1, <1>2, PTL

-----------------------------------------------------------------------------
(* What a call of getDocument waits for. *)

\* The tasks counted in b include all that have yet to run.
Covers(b, ws, qd) == \A q \in Queues : Len(ws[q]) <= qd[q] + b[q]

\* No write is made while signInWitnGoogleFirestore looks for the profile.
WaitsInv == \A f \in Flows : flow[f].stage = "checking" => Covers(flow[f].behind, writes, queued)

\* The counts at the time of the call, after a task has run, and after the
\* server has answered a write.
LEMMA CoversStep ==
    ASSUME FormInv
    PROVE  /\ Covers(Unstored, writes, queued)
           /\ \A q \in Queues, b \in Tasks : StoreWrite(q) /\ Covers(b, writes, queued)
                 => Covers(Passed(b, q), writes', queued')
           /\ \A ok \in BOOLEAN, b \in Tasks : WriteReply(ok) /\ Covers(b, writes, queued)
                 => Covers(b, writes', queued')
           /\ Covers(NoTasks, writes, queued) => \A q \in Queues : 1..queued[q] = DOMAIN writes[q]
<1>1. /\ TypeOK /\ writes \in [Queues -> Seq(Write)] /\ queued \in [Queues -> Nat]
      /\ \A q \in Queues : queued[q] <= Len(writes[q])
  BY DEF FormInv, TypeOK
<1>2. \A q \in Queues : Len(writes[q]) \in Nat /\ queued[q] \in Nat
  BY <1>1, LenProperties
<1>3. Covers(Unstored, writes, queued)
  <2>1. \A q \in Queues : Len(writes[q]) <= queued[q] + (Len(writes[q]) - queued[q])
    BY <1>2
  <2> QED
    BY <2>1 DEF Covers, Unstored
<1>4. ASSUME NEW q \in Queues, NEW b \in Tasks, StoreWrite(q), Covers(b, writes, queued)
      PROVE  Covers(Passed(b, q), writes', queued')
  <2>1. /\ queued'[q] = queued[q] + 1 /\ writes' = writes
        /\ \A r \in Queues : r # q => queued'[r] = queued[r]
    BY <1>1, <1>4, StoreStep DEF StoreWrite
  <2>2. \A r \in Queues : b[r] \in Nat
    BY DEF Tasks
  <2>3. /\ \A r \in Queues : r # q => Passed(b, q)[r] = b[r]
        /\ Passed(b, q)[q] = IF b[q] = 0 THEN 0 ELSE b[q] - 1
    BY DEF Passed, Tasks
  <2>4. \A r \in Queues : Len(writes[r]) <= queued[r] + b[r]
    BY <1>4 DEF Covers
  <2>5. ASSUME NEW r \in Queues
        PROVE  Len(writes[r]) <= queued'[r] + Passed(b, q)[r]
    <3>1. CASE r = q
      <4>1. Len(writes[q]) <= queued[q] + b[q]
        BY <2>4
      <4>2. Len(writes[q]) <= (queued[q] + 1) + (IF b[q] = 0 THEN 0 ELSE b[q] - 1)
        BY <1>2, <2>2, <4>1
      <4> QED
        BY <2>1, <2>3, <3>1, <4>2
    <3>2. CASE r # q
      BY <2>1, <2>3, <2>4, <3>2
    <3> QED
      BY <3>1, <3>2
  <2> QED
    BY <2>1, <2>5 DEF Covers
<1>5. ASSUME NEW ok \in BOOLEAN, NEW b \in Tasks, WriteReply(ok), Covers(b, writes, queued)
      PROVE  Covers(b, writes', queued')
  <2> DEFINE w == Head(writes[cur])
  <2>1. /\ writes[cur] \in Seq(Write) /\ writes[cur] # <<>>
        /\ writes'[cur] = Tail(writes[cur]) /\ queued'[cur] = queued[cur] - 1
        /\ \A q \in Queues : q # cur => writes'[q] = writes[q] /\ queued'[q] = queued[q]
    BY <1>5, ReplyStep
  <2>2. Len(Tail(writes[cur])) = Len(writes[cur]) - 1 /\ cur \in Queues
    BY <2>1, HeadTailProperties DEF FormInv, TypeOK
  <2>3. \A r \in Queues : b[r] \in Nat /\ Len(writes[r]) <= queued[r] + b[r]
    BY <1>5 DEF Covers, Tasks
  <2>4. Len(writes[cur]) - 1 <= (queued[cur] - 1) + b[cur]
    <3>1. b[cur] \in Nat /\ Len(writes[cur]) <= queued[cur] + b[cur]
      BY <2>2, <2>3
    <3> QED
      BY <1>2, <2>2, <3>1
  <2>5. ASSUME NEW r \in Queues
        PROVE  Len(writes'[r]) <= queued'[r] + b[r]
    <3>1. CASE r = cur
      BY <2>1, <2>2, <2>4, <3>1
    <3>2. CASE r # cur
      BY <2>1, <2>3, <3>2
    <3> QED
      BY <3>1, <3>2
  <2> QED
    BY <2>5 DEF Covers
<1>6. ASSUME Covers(NoTasks, writes, queued), NEW q \in Queues
      PROVE  1..queued[q] = DOMAIN writes[q]
  <2>1. Len(writes[q]) <= queued[q] + 0
    BY <1>6 DEF Covers, NoTasks
  <2>2. queued[q] <= Len(writes[q]) /\ DOMAIN writes[q] = 1..Len(writes[q])
    BY <1>1, LenProperties
  <2>3. queued[q] = Len(writes[q])
    BY <1>2, <2>1, <2>2
  <2> QED
    BY <2>2, <2>3
<1> QED
  BY <1>3, <1>4, <1>5, <1>6

\* Every step keeps the counts right.
LEMMA WaitsNext == FormInv /\ ControlInv /\ WaitsInv /\ [Next]_vars => WaitsInv'
<1> SUFFICES ASSUME FormInv, ControlInv, WaitsInv, [Next]_vars PROVE WaitsInv'
  OBVIOUS
<1>1. TypeOK /\ flow \in [Flows -> FlowState]
  BY DEF FormInv, TypeOK
<1>2. ASSUME UNCHANGED <<flow, writes, queued>>
      PROVE  WaitsInv'
  BY <1>2 DEF WaitsInv
<1>3. ASSUME NEW f \in Flows, NEW s \in Stages \ {"checking"}, Moves(f, s),
             UNCHANGED <<writes, queued>>
      PROVE  WaitsInv'
  <2>1. /\ flow'[f].stage = s
        /\ \A g \in Flows : g # f => /\ flow'[g].stage = flow[g].stage
                                     /\ flow'[g].behind = flow[g].behind
    BY <1>1, <1>3, StageStep
  <2> QED
    BY <1>3, <2>1 DEF WaitsInv
<1>4. ASSUME \A f \in Flows : flow'[f].stage # "checking"
      PROVE  WaitsInv'
  BY <1>4 DEF WaitsInv
<1>5. CASE SignIn
  <2>1. PICK f \in Flows, u \in Users :
           HandleLogin(f, u) \/ HandleGoogleLogin(f, u) \/ HandleSignUp(f, u)
    BY <1>5 DEF SignIn
  <2>2. PICK chain, stage : /\ StartFlow(f, chain, u, stage)
                            /\ stage \in {"authenticating", "putting"}
    BY <2>1 DEF HandleLogin, HandleGoogleLogin, HandleSignUp
  <2>3. /\ UNCHANGED <<writes, queued>>
        /\ \A g \in Flows : g # f => flow'[g] = flow[g]
        /\ flow'[f].stage = stage
    BY <1>1, <2>2 DEF StartFlow
  <2> QED
    BY <2>2, <2>3 DEF WaitsInv
<1>6. CASE DismissOnboarding
  <2>1. modal = "onboarding" /\ flow' = flow
    BY <1>6 DEF DismissOnboarding
  <2>2. \A f \in Flows : Finished(f)
    BY <2>1 DEF ControlInv, AttemptsOK
  <2> QED
    BY <1>4, <2>1, <2>2 DEF Finished
<1>7. CASE HandleLogout \/ Logout \/ CancelLogout \/ DismissFinished \/ Fetching
           \/ RunPresentLogin \/ RunFetched \/ RunSeenWritten \/ UNCHANGED vars
  BY <1>2, <1>7 DEF HandleLogout, Logout, CancelLogout, DismissFinished, Fetching, FetchReply,
                    RunPresentLogin, RunFetched, RunSeenWritten, vars
<1>8. CASE Kill \/ \E f \in Flows : CheckError(f)
  <2>1. \A f \in Flows : flow'[f].stage \in {"idle", "done", "trapped"}
    BY <1>8, RestartFlows
  <2> QED
    BY <1>4, <2>1
<1>9. ASSUME NEW f \in Flows,
             PutDataReply(f) \/ DownloadURLReply(f) \/ AuthReply(f) \/ AuthError(f) \/ CheckReply(f)
      PROVE  WaitsInv'
  <2>1. /\ UNCHANGED <<writes, queued>>
        /\ \E s \in {"locating", "authenticating", "waiting", "done"} : Moves(f, s)
    BY <1>9 DEF PutDataReply, DownloadURLReply, AuthReply, AuthError, CheckReply, Moves
  <2> QED
    BY <1>3, <2>1 DEF Stages
<1>10. ASSUME NEW q \in Queues, StoreWrite(q)
       PROVE  WaitsInv'
  <2>1. \A f \in Flows : /\ flow'[f].stage = flow[f].stage
                         /\ flow'[f].behind = Passed(flow[f].behind, q)
                         /\ flow[f].behind \in Tasks
    BY <1>1, <1>10, StoreStep DEF FlowState
  <2> QED
    BY <1>10, <2>1, CoversStep DEF WaitsInv
<1>11. ASSUME NEW ok \in BOOLEAN, WriteReply(ok)
       PROVE  WaitsInv'
  <2>1. flow' = flow /\ \A f \in Flows : flow[f].behind \in Tasks
    BY <1>1, <1>11 DEF WriteReply, FlowState
  <2> QED
    BY <1>11, <2>1, CoversStep DEF WaitsInv
<1>12. CASE RunSignedIn \/ RunAuthFailed \/ RunChecked \/ RunCreated \/ RunProfileWritten
  <2> DEFINE f == Head(mainQ).flow
  <2>1. PICK kind \in FlowKinds :
           /\ Run(kind) /\ UNCHANGED queued
           /\ \/ Moves(f, "done") \/ Moves(f, "writing")
              \/ Moves(f, "checking") /\ Check(f) /\ UNCHANGED writes
    BY <1>12, ChainMoves
  <2>2. f \in Flows /\ \A g \in Flows : g # f => Finished(g)
    BY <2>1, RunChain
  <2> HIDE DEF f
  <2>3. CASE Moves(f, "done") \/ Moves(f, "writing")
    <3>1. PICK s \in Stages \ {"checking"} : Moves(f, s)
      BY <2>3 DEF Stages
    <3>2. /\ flow'[f].stage = s
          /\ \A g \in Flows : g # f => flow'[g].stage = flow[g].stage
      BY <1>1, <2>2, <3>1, StageStep
    <3> QED
      BY <1>4, <2>2, <3>2 DEF Finished
  <2>4. CASE Moves(f, "checking") /\ Check(f) /\ UNCHANGED writes
    <3>1. /\ flow'[f].behind = Unstored
          /\ \A g \in Flows : g # f => flow'[g].stage = flow[g].stage
      BY <1>1, <2>2, <2>4, StageStep DEF Stages
    <3>2. Covers(Unstored, writes, queued)
      BY CoversStep
    <3>3. Covers(flow'[f].behind, writes', queued')
      BY <2>1, <2>4, <3>1, <3>2
    <3> QED
      BY <2>2, <3>1, <3>3 DEF WaitsInv, Finished
  <2> QED
    BY <2>1, <2>3, <2>4
<1> QED
  BY <1>5, <1>6, <1>7, <1>8, <1>9, <1>10, <1>11, <1>12
     DEF Next, Answer, Storing, Writing, RunMainQueue

\* At all times, with a patient user.
LEMMA WaitsInvariant == Patient => (Spec => []WaitsInv)
<1> SUFFICES ASSUME Patient PROVE Spec => []WaitsInv
  OBVIOUS
<1>1. Init => WaitsInv
  BY DEF Init, WaitsInv
<1>2. Spec => []ControlInv
  BY ControlInvariant
<1> QED
  BY <1>1, <1>2, WaitsNext, FormInvariant, PTL DEF Spec

-----------------------------------------------------------------------------
(* Profiles: created once, marked for the user who saw the onboarding. *)

\* A closure that will create a profile.
Creating(c) == c.kind = "created" \/ (c.kind = "checked" /\ ~c.ok)

\* Nothing has created the profile of u, nor is about to.
Vacant(u) == docs[u] = Nil /\ NoneOf(writes[u], Creates)

DataInv ==
    /\ \A q \in Users \cup {Nil} : \A w \in Items(writes[q]) :
          w.uid = q /\ (w.op = "seen" => w.uid \in tapped)
    /\ \A u \in Users : docs[u] # Nil => NoneOf(writes[u], Creates)
    /\ \A u \in Users : OneOf(writes[u], Creates)
    /\ \A c \in Items(mainQ) : Creating(c) => Vacant(cur)
    /\ \A u \in Users \ accounts : docs[u] = Nil /\ writes[u] = <<>>
    /\ cur \in accounts \cup {Nil}
    /\ SeenOnlyAfterGetStarted

\* A step that touches neither documents nor writes.
LEMMA DataSame ==
    ASSUME DataInv, UNCHANGED <<cur, docs, writes, accounts, tapped>>,
           \A c \in Items(mainQ') : c \in Items(mainQ) \/ ~Creating(c) \/ Vacant(cur)
    PROVE  DataInv'
<1>1. Vacant(cur)' <=> Vacant(cur)
  BY DEF Vacant
<1>2. \A c \in Items(mainQ') : Creating(c) => Vacant(cur)'
  BY <1>1 DEF DataInv
<1> QED
  BY <1>2 DEF DataInv, SeenOnlyAfterGetStarted

\* The steps that touch neither.
LEMMA DataQuiet ==
    ASSUME FormInv, FormInv', ControlInv, DataInv,
           \/ SignIn \/ HandleLogout \/ CancelLogout \/ DismissFinished
           \/ \E f \in Flows : PutDataReply(f) \/ DownloadURLReply(f) \/ AuthError(f)
           \/ Fetching \/ Storing
           \/ RunPresentLogin \/ RunFetched \/ RunSeenWritten
    PROVE  DataInv'
<1>1. mainQ \in Seq(Callback)
  BY DEF FormInv, TypeOK
<1>2. CASE \/ SignIn \/ HandleLogout \/ CancelLogout \/ DismissFinished
           \/ \E f \in Flows : PutDataReply(f) \/ DownloadURLReply(f)
  <2>1. UNCHANGED <<cur, docs, writes, accounts, tapped, mainQ>>
    BY <1>2 DEF SignIn, HandleLogin, HandleGoogleLogin, HandleSignUp, StartFlow, HandleLogout,
                CancelLogout, DismissFinished, PutDataReply, DownloadURLReply
  <2> QED
    BY <2>1, DataSame
<1>3. ASSUME NEW f \in Flows, AuthError(f)
      PROVE  DataInv'
  <2>1. /\ UNCHANGED <<cur, docs, writes, accounts, tapped>>
        /\ \/ mainQ' = Append(mainQ, Post("createFailed", f, FALSE))
           \/ mainQ' = Append(mainQ, Post("signInFailed", f, FALSE))
    BY <1>3 DEF AuthError
  <2>2. PICK kind \in {"createFailed", "signInFailed"} :
            mainQ' = Append(mainQ, Post(kind, f, FALSE))
    BY <2>1
  <2> DEFINE c == Post(kind, f, FALSE)
  <2>3. c \in Callback /\ c.kind = kind
    BY PostType DEF FlowKinds
  <2>4. mainQ' = Append(mainQ, c) /\ ~Creating(c)
    BY <2>2, <2>3 DEF Creating
  <2> HIDE DEF c
  <2>5. Items(mainQ') = Items(mainQ) \cup {c}
    BY <1>1, <2>3, <2>4, ItemsAppend
  <2> QED
    BY <2>1, <2>4, <2>5, DataSame
<1>4. ASSUME NEW i \in DOMAIN fetching, FetchReply(i)
      PROVE  DataInv'
  <2>1. UNCHANGED <<cur, docs, writes, accounts, tapped>>
    BY <1>4 DEF FetchReply
  <2>2. CASE mainQ' = mainQ
    BY <2>1, <2>2, DataSame
  <2>3. CASE mainQ' # mainQ
    <3> DEFINE c == [kind |-> "fetched", flow |-> Nil, ok |-> TRUE,
                     user |-> [uid |-> fetching[i].uid, hasSeenOnboarding |-> LocalSeen(fetching[i].uid)]]
    <3>1. mainQ' = Append(mainQ, c) /\ c.kind = "fetched"
      BY <1>4, <2>3 DEF FetchReply
    <3>2. c \in Callback
      <4>1. fetching[i].uid \in Users
        <5>1. fetching \in Seq(Fetch)
          BY DEF FormInv, TypeOK
        <5>2. fetching[i] \in Fetch
          BY <5>1, ItemsType DEF Items
        <5> QED
          BY <5>2 DEF Fetch
      <4>2. c.user \in User
        BY <4>1 DEF User, LocalSeen
      <4> QED
        BY <4>2 DEF Callback
    <3> HIDE DEF c
    <3>3. Items(mainQ') = Items(mainQ) \cup {c} /\ ~Creating(c)
      BY <1>1, <3>1, <3>2, ItemsAppend DEF Creating
    <3> QED
      BY <2>1, <3>3, DataSame
  <2> QED
    BY <2>2, <2>3
<1>5. CASE RunPresentLogin \/ RunFetched \/ RunSeenWritten
  <2>1. /\ UNCHANGED <<cur, docs, writes, accounts, tapped>>
        /\ Items(mainQ') \subseteq Items(mainQ)
    BY <1>5, RunStep DEF RunPresentLogin, RunFetched, RunSeenWritten
  <2> QED
    BY <2>1, DataSame
<1>6. ASSUME NEW q \in Queues, StoreWrite(q)
      PROVE  DataInv'
  <2>1. UNCHANGED <<cur, docs, writes, accounts, tapped, mainQ>>
    BY <1>6 DEF StoreWrite
  <2> QED
    BY <2>1, DataSame
<1> QED
  BY <1>2, <1>3, <1>4, <1>5, <1>6 DEF Fetching, Storing

\* The user logs out, or the process is killed.
LEMMA DataLeave ==
    ASSUME FormInv, FormInv', ControlInv, DataInv,
           Logout \/ Kill \/ \E f \in Flows : CheckError(f)
    PROVE  DataInv'
<1>1. TypeOK
  BY DEF FormInv
<1>2. CASE Logout
  <2>1. /\ UNCHANGED <<accounts, docs, writes, mainQ, tapped>> /\ cur' = Nil
        /\ modal = "sheet"
    BY <1>2 DEF Logout
  <2>2. \A f \in Flows : Finished(f)
    BY <2>1 DEF ControlInv, AttemptsOK
  <2>3. NoneOf(mainQ, ChainCallbacks)
    BY <2>2, Calm DEF Finished
  <2>4. \A c \in Items(mainQ) : ~Creating(c)
    <3>1. Items(mainQ) \subseteq Callback
      BY <1>1, ItemsType DEF TypeOK
    <3> QED
      BY <2>3, <3>1 DEF NoneOf, Items, ChainCallbacks, Creating, FlowKinds
  <2> QED
    BY <2>1, <2>4 DEF DataInv, SeenOnlyAfterGetStarted
<1>3. CASE Kill \/ \E f \in Flows : CheckError(f)
  <2>1. /\ Restart /\ UNCHANGED <<cur, accounts, docs, tapped>>
        /\ AuthenticateUser(cur, mainQ', fetching')
    BY <1>3 DEF Kill, CheckError, Restart
  <2>2. \A c \in Items(mainQ') : ~Creating(c)
    <3>1. \A c \in Items(mainQ') : c.kind = "presentLogin"
      BY <1>1, <2>1, LaunchStep
    <3> QED
      BY <3>1 DEF Creating
  <2>3. /\ writes' \in [Users \cup {Nil} -> Seq(Write)]
        /\ \A q \in Users \cup {Nil} :
              /\ DOMAIN writes'[q] \subseteq DOMAIN writes[q]
              /\ \A i \in DOMAIN writes'[q] :
                    /\ writes'[q][i].op = writes[q][i].op
                    /\ writes'[q][i].uid = writes[q][i].uid
    BY <1>1, <2>1, RestartWrites
  <2>4. ASSUME NEW q \in Users \cup {Nil}
        PROVE  /\ NoneOf(writes[q], Creates) => NoneOf(writes'[q], Creates)
               /\ OneOf(writes[q], Creates) => OneOf(writes'[q], Creates)
               /\ writes[q] = <<>> => writes'[q] = <<>>
               /\ \A w \in Items(writes'[q]) : \E v \in Items(writes[q]) :
                     v.op = w.op /\ v.uid = w.uid
    <3>1. writes[q] \in Seq(Write) /\ writes'[q] \in Seq(Write)
      BY <1>1, <2>3 DEF TypeOK
    <3>2. /\ \A i \in DOMAIN writes[q] : writes[q][i] \in Write
          /\ \A i \in DOMAIN writes'[q] : writes'[q][i] \in Write
      BY <3>1, ItemsType DEF Items
    <3>3. \A i \in DOMAIN writes'[q] : writes[q][i] \in Creates <=> writes'[q][i] \in Creates
      BY <2>3, <3>2 DEF Creates
    <3>4. \A w \in Items(writes'[q]) : \E v \in Items(writes[q]) : v.op = w.op /\ v.uid = w.uid
      BY <2>3 DEF Items
    <3>5. writes[q] = <<>> => writes'[q] = <<>>
      <4>1. writes[q] = <<>> => Items(writes'[q]) = {}
        BY <2>3, ItemsFew DEF Items
      <4> QED
        BY <3>1, <4>1, EmptyItems
    <3>6. /\ NoneOf(writes[q], Creates) => NoneOf(writes'[q], Creates)
          /\ OneOf(writes[q], Creates) => OneOf(writes'[q], Creates)
      BY <2>3, <3>3 DEF NoneOf, OneOf
    <3> QED
      BY <3>4, <3>5, <3>6
  <2>5. \A q \in Users \cup {Nil} : \A w \in Items(writes'[q]) :
           w.uid = q /\ (w.op = "seen" => w.uid \in tapped)
    BY <2>4 DEF DataInv
  <2>6. /\ \A u \in Users : docs[u] # Nil => NoneOf(writes'[u], Creates)
        /\ \A u \in Users : OneOf(writes'[u], Creates)
        /\ \A u \in Users \ accounts : writes'[u] = <<>>
    BY <2>4 DEF DataInv
  <2> QED
    BY <2>1, <2>2, <2>5, <2>6 DEF DataInv, SeenOnlyAfterGetStarted
<1> QED
  BY <1>2, <1>3

\* Get Started: the current user is the one whose onboarding is closed.
LEMMA DataDismiss ==
    ASSUME FormInv, FormInv', ControlInv, DataInv, DismissOnboarding
    PROVE  DataInv'
<1>1. TypeOK /\ cur \in Users \cup {Nil}
  BY DEF FormInv, TypeOK
<1>2. /\ UNCHANGED <<cur, accounts, docs, mainQ>> /\ modal = "onboarding"
      /\ tapped' = tapped \cup {homeUser.uid}
  BY DEF DismissOnboarding
<1>3. cur \in Users /\ homeUser.uid = cur
  BY <1>1, <1>2 DEF ControlInv, ScreensOK
<1>4. Enqueue("seen", cur, Nil, Post("seenWritten", Nil, TRUE))
  BY <1>3, NilAssumption DEF DismissOnboarding
<1> DEFINE done == Post("seenWritten", Nil, TRUE)
           w == NewWrite("seen", cur, Nil, done)
<1>5. done \in Callback
  BY PostType
<1>6. Enqueue("seen", cur, Nil, done)
  BY <1>4
<1> HIDE DEF done
<1>7. w \in Write /\ w.op = "seen" /\ w.uid = cur
  BY <1>3, <1>5, NewWriteType
<1>8. /\ writes'[cur] = Append(writes[cur], w)
      /\ Items(writes'[cur]) = Items(writes[cur]) \cup {w}
      /\ \A q \in Users \cup {Nil} : q # cur => writes'[q] = writes[q]
  BY <1>1, <1>6, <1>7, EnqueueStep
<1> HIDE DEF w
<1>9. w \notin Creates /\ writes[cur] \in Seq(Write)
  BY <1>1, <1>7 DEF Creates, TypeOK
<1>10. /\ NoneOf(writes'[cur], Creates) <=> NoneOf(writes[cur], Creates)
       /\ OneOf(writes[cur], Creates) => OneOf(writes'[cur], Creates)
  BY <1>7, <1>8, <1>9, SortAppend
<1>11. \A q \in Users \cup {Nil} : \A v \in Items(writes'[q]) :
          v.uid = q /\ (v.op = "seen" => v.uid \in tapped')
  BY <1>2, <1>3, <1>7, <1>8 DEF DataInv
<1>12. /\ \A u \in Users : docs[u] # Nil => NoneOf(writes'[u], Creates)
       /\ \A u \in Users : OneOf(writes'[u], Creates)
  BY <1>8, <1>10 DEF DataInv
<1>13. \A c \in Items(mainQ) : Creating(c) => Vacant(cur)'
  BY <1>2, <1>10 DEF DataInv, Vacant
<1>14. \A u \in Users \ accounts : docs[u] = Nil /\ writes'[u] = <<>>
  BY <1>3, <1>8, NilAssumption DEF DataInv
<1> QED
  BY <1>2, <1>11, <1>12, <1>13, <1>14 DEF DataInv, SeenOnlyAfterGetStarted

\* Auth signs a user in; Firestore answers whether the profile exists.
LEMMA DataAnswer ==
    ASSUME FormInv, FormInv', ControlInv, WaitsInv, DataInv, NEW f \in Flows,
           AuthReply(f) \/ CheckReply(f)
    PROVE  DataInv'
<1>1. TypeOK /\ mainQ \in Seq(Callback)
  BY DEF FormInv, TypeOK
<1>2. /\ UNCHANGED <<docs, writes, tapped>>
      /\ flow[f].stage \in {"authenticating", "checking"}
  BY DEF AuthReply, CheckReply
<1>3. ~Finished(f) /\ flow[f].stage \notin {"waiting", "writing", "idle"}
  BY <1>2 DEF Finished
<1>4. NoneOf(mainQ, ChainCallbacks) /\ flow[f].uid \in Users
  BY <1>3, Alone DEF FormInv
<1>5. \A c \in Items(mainQ) : ~Creating(c)
  <2>1. Items(mainQ) \subseteq Callback
    BY <1>1, ItemsType
  <2> QED
    BY <1>4, <2>1 DEF NoneOf, Items, ChainCallbacks, Creating, FlowKinds
<1>6. CASE AuthReply(f)
  <2> DEFINE u == flow[f].uid
             kind == IF flow[f].chain = "register" THEN "created" ELSE "signedIn"
             c == Post(kind, f, TRUE)
  <2>1. /\ cur' = u /\ accounts' = accounts \cup {u} /\ mainQ' = Append(mainQ, c)
        /\ flow[f].chain = "register" => u \notin accounts
    BY <1>6 DEF AuthReply
  <2>2. c \in Callback /\ c.kind = kind
    <3>1. kind \in FlowKinds \cup {"presentLogin", "seenWritten"}
      BY DEF FlowKinds
    <3>2. f \in Flows \cup {Nil} /\ TRUE \in BOOLEAN
      OBVIOUS
    <3> HIDE DEF kind
    <3> QED
      BY <3>1, <3>2, PostType
  <2>3. Creating(c) => u \notin accounts
    BY <2>1, <2>2 DEF Creating
  <2> HIDE DEF c, kind
  <2>4. Items(mainQ') = Items(mainQ) \cup {c}
    BY <1>1, <2>1, <2>2, ItemsAppend
  <2>5. Creating(c) => Vacant(u)
    BY <1>4, <2>3, ItemsFew DEF DataInv, Vacant, NoneOf
  <2>6. \A d \in Items(mainQ') : Creating(d) => Vacant(cur)'
    BY <1>2, <1>5, <2>1, <2>4, <2>5 DEF Vacant
  <2> QED
    BY <1>2, <2>1, <2>6 DEF DataInv, SeenOnlyAfterGetStarted
<1>7. CASE CheckReply(f)
  <2> DEFINE c == Post("checked", f, CheckExists(flow[f].uid))
  <2>1. UNCHANGED <<cur, accounts>> /\ mainQ' = Append(mainQ, c) /\ flow[f].uid = cur
    BY <1>7 DEF CheckReply, ControlInv, AttemptsOK
  <2>2. c \in Callback /\ c.kind = "checked" /\ c.ok = CheckExists(cur)
    <3>1. CheckExists(flow[f].uid) \in BOOLEAN /\ "checked" \in FlowKinds
      BY DEF CheckExists, LocalExists, FlowKinds
    <3> QED
      BY <2>1, <3>1, PostType
  <2>3. ~CheckExists(cur) => Vacant(cur)
    <3> SUFFICES ASSUME ~CheckExists(cur) PROVE Vacant(cur)
      OBVIOUS
    <3>1. docs[cur] = Nil /\ Pending(cur, "create") = {}
      BY DEF CheckExists, LocalExists
    <3>2. \A i \in DOMAIN writes[cur] : writes[cur][i].uid = cur
      BY <1>4, <2>1 DEF DataInv, Items
    <3>4. 1..queued[cur] = DOMAIN writes[cur]
      <4>1. Covers(NoTasks, writes, queued) /\ cur \in Queues
        BY <1>1, <1>7 DEF CheckReply, Reached, WaitsInv, TypeOK
      <4> QED
        BY <4>1, CoversStep
    <3>3. \A i \in DOMAIN writes[cur] : writes[cur][i].op # "create"
      BY <3>1, <3>2, <3>4 DEF Pending
    <3> QED
      BY <3>1, <3>3 DEF Vacant, NoneOf, Creates
  <2> HIDE DEF c
  <2>4. Items(mainQ') = Items(mainQ) \cup {c}
    BY <1>1, <2>1, <2>2, ItemsAppend
  <2>5. Creating(c) => Vacant(cur)
    BY <2>2, <2>3 DEF Creating
  <2> QED
    BY <1>2, <2>1, <2>4, <2>5, DataSame
<1> QED
  BY <1>6, <1>7

\* The write that the server answers is one of the current user to the own
\* document, and creates it only if there is none.
LEMMA OwnWrite ==
    ASSUME FormInv, DataInv, NEW ok \in BOOLEAN, WriteReply(ok), NEW w, w = Head(writes[cur])
    PROVE  /\ w.uid = cur /\ cur \in Users
           /\ w.op \in {"create", "seen"}
           /\ w.op = "seen" => cur \in tapped
           /\ w.op = "create" => docs[cur] = Nil /\ NoneOf(writes'[cur], Creates)
           /\ NoneOf(writes[cur], Creates) => NoneOf(writes'[cur], Creates) /\ w.op = "seen"
           /\ OneOf(writes'[cur], Creates)
<1>1. /\ writes[cur] \in Seq(Write) /\ writes[cur] # <<>>
      /\ w \in Write /\ w \in Items(writes[cur])
      /\ writes'[cur] = Tail(writes[cur])
  BY ReplyStep
<1>2. cur \in Users \cup {Nil} /\ w.uid \in Users /\ w.op \in {"create", "seen"}
  BY <1>1 DEF FormInv, TypeOK, Write
<1>3. w.uid = cur /\ (w.op = "seen" => cur \in tapped)
  BY <1>1, <1>2 DEF DataInv
<1>4. OneOf(writes[cur], Creates) /\ (docs[cur] # Nil => NoneOf(writes[cur], Creates))
  BY <1>2, <1>3 DEF DataInv
<1>5. /\ NoneOf(writes[cur], Creates) <=> NoneOf(Tail(writes[cur]), Creates) /\ w \notin Creates
      /\ OneOf(writes[cur], Creates) => OneOf(Tail(writes[cur]), Creates)
      /\ OneOf(writes[cur], Creates) /\ w \in Creates => NoneOf(Tail(writes[cur]), Creates)
  BY <1>1, SortTail
<1>6. w \in Creates <=> w.op = "create"
  BY <1>1 DEF Creates
<1> QED
  BY <1>1, <1>2, <1>3, <1>4, <1>5, <1>6

\* The server answers a write.
LEMMA DataWrite ==
    ASSUME FormInv, FormInv', ControlInv, DataInv, NEW ok \in BOOLEAN, WriteReply(ok)
    PROVE  DataInv'
<1> DEFINE w == Head(writes[cur])
<1>1. /\ w \in Write /\ WriteOK(w, flow, stored) /\ writes[cur] # <<>>
      /\ Items(writes'[cur]) \subseteq Items(writes[cur])
      /\ \A q \in Users \cup {Nil} : q # cur => writes'[q] = writes[q]
      /\ \A u \in Users : u # w.uid => docs'[u] = docs[u]
      /\ ~ok => docs'[w.uid] = docs[w.uid]
      /\ ok /\ w.op = "create" => ~docs'[w.uid].hasSeenOnboarding
      /\ ok /\ w.op = "seen" => docs[w.uid] # Nil
      /\ w.done = Nil => mainQ' = mainQ
      /\ w.done # Nil => w.done \in Callback /\ mainQ' = Append(mainQ, Answered(w.done, ok))
  BY ReplyStep
<1>2. /\ w.uid = cur /\ cur \in Users
      /\ w.op \in {"create", "seen"}
      /\ w.op = "seen" => cur \in tapped
      /\ w.op = "create" => docs[cur] = Nil /\ NoneOf(writes'[cur], Creates)
      /\ NoneOf(writes[cur], Creates) => NoneOf(writes'[cur], Creates) /\ w.op = "seen"
      /\ OneOf(writes'[cur], Creates)
  BY OwnWrite
<1> HIDE DEF w
<1>3. UNCHANGED <<cur, accounts, tapped>> /\ mainQ \in Seq(Callback)
  BY DEF WriteReply, FormInv, TypeOK
<1>4. \A c \in Items(mainQ') : c \in Items(mainQ) \/ ~Creating(c)
  <2>1. CASE w.done # Nil
    <3> DEFINE a == Answered(w.done, ok)
    <3>1. w.done \in Callback /\ mainQ' = Append(mainQ, a)
      BY <1>1, <2>1
    <3>2. a \in Callback /\ a.kind = w.done.kind
      BY <3>1, AnsweredType
    <3>3. ~Creating(a)
      BY <1>1, <2>1, <3>2 DEF WriteOK, Creating
    <3> HIDE DEF a
    <3> QED
      BY <1>3, <3>1, <3>2, <3>3, ItemsAppend
  <2> QED
    BY <1>1, <2>1
<1>5. Vacant(cur) => Vacant(cur)'
  BY <1>1, <1>2, <1>3 DEF Vacant
<1>6. \A c \in Items(mainQ') : Creating(c) => Vacant(cur)'
  BY <1>4, <1>5 DEF DataInv
<1>7. \A q \in Users \cup {Nil} : \A v \in Items(writes'[q]) :
         v.uid = q /\ (v.op = "seen" => v.uid \in tapped)
  BY <1>1 DEF DataInv
<1>8. \A u \in Users : /\ docs'[u] # Nil => NoneOf(writes'[u], Creates)
                       /\ OneOf(writes'[u], Creates)
  <2>1. docs'[cur] # Nil => NoneOf(writes'[cur], Creates)
    BY <1>1, <1>2 DEF DataInv
  <2> QED
    BY <1>1, <1>2, <2>1 DEF DataInv
<1>9. \A u \in Users \ accounts : docs'[u] = Nil /\ writes'[u] = <<>>
  BY <1>1, <1>2 DEF DataInv
<1>10. SeenOnlyAfterGetStarted'
  BY <1>1, <1>2, <1>3 DEF DataInv, SeenOnlyAfterGetStarted
<1> QED
  BY <1>3, <1>6, <1>7, <1>8, <1>9, <1>10 DEF DataInv

\* A closure of an attempt runs.  It creates a profile only where there is
\* none.
LEMMA DataRunFlow ==
    ASSUME FormInv, FormInv', ControlInv, DataInv,
           RunSignedIn \/ RunAuthFailed \/ RunChecked \/ RunCreated \/ RunProfileWritten
    PROVE  DataInv'
<1> DEFINE c == Head(mainQ)
           f == c.flow
           Create(kind) == /\ kind = "created" \/ (kind = "checked" /\ ~c.ok)
                           /\ \E image \in stored \cup {Photo} :
                                 Enqueue("create", flow[f].uid, image,
                                         Post("profileWritten", f, TRUE))
<1>1. TypeOK
  BY DEF FormInv
<1>2. PICK kind \in FlowKinds : /\ Run(kind) /\ UNCHANGED <<cur, docs, accounts, tapped>>
                                /\ UNCHANGED writes \/ Create(kind)
  BY ChainMoves
<1>3. /\ c.kind = kind /\ f \in Flows /\ flow[f].uid \in Users
      /\ kind \notin {"signInFailed", "createFailed"} => flow[f].uid = cur
      /\ \A d \in Items(mainQ') : d.kind \notin FlowKinds
  BY <1>2, RunChain
<1>4. c \in Items(mainQ)
  BY <1>2, RunStep
<1>5. \A d \in Items(mainQ') : ~Creating(d)
  BY <1>3 DEF Creating, FlowKinds
<1> HIDE DEF c, f
<1>6. CASE UNCHANGED writes
  BY <1>2, <1>5, <1>6, DataSame
<1>7. CASE Create(kind)
  <2>1. flow[f].uid = cur /\ Creating(c)
    BY <1>3, <1>7 DEF Creating
  <2>2. Vacant(cur) /\ cur \in Users
    BY <1>3, <1>4, <2>1 DEF DataInv
  <2>3. PICK w \in Write : Joins(f, w)
    <3>1. PICK image \in stored \cup {Photo} :
             Enqueue("create", flow[f].uid, image, Post("profileWritten", f, TRUE))
      BY <1>7
    <3> QED
      BY <1>1, <1>3, <3>1, CreateStep
  <2>4. /\ w.op = "create" /\ w.uid = cur
        /\ writes'[cur] = Append(writes[cur], w)
        /\ Items(writes'[cur]) = Items(writes[cur]) \cup {w}
        /\ \A q \in Users \cup {Nil} : q # cur => writes'[q] = writes[q]
    BY <2>1, <2>3 DEF Joins
  <2>5. writes[cur] \in Seq(Write) /\ NoneOf(writes[cur], Creates) /\ docs[cur] = Nil
    BY <1>1, <2>2 DEF TypeOK, Vacant
  <2>6. OneOf(writes'[cur], Creates)
    BY <2>4, <2>5, SortAppend
  <2>7. \A q \in Users \cup {Nil} : \A v \in Items(writes'[q]) :
           v.uid = q /\ (v.op = "seen" => v.uid \in tapped)
    <3> SUFFICES ASSUME NEW q \in Users \cup {Nil}, NEW v \in Items(writes'[q])
                 PROVE  v.uid = q /\ (v.op = "seen" => v.uid \in tapped)
      OBVIOUS
    <3>1. CASE v \in Items(writes[q])
      BY <3>1 DEF DataInv
    <3>2. CASE v \notin Items(writes[q])
      <4>1. q = cur /\ v = w
        BY <2>4, <3>2
      <4> QED
        BY <2>4, <4>1
    <3> QED
      BY <3>1, <3>2
  <2>8. \A u \in Users : /\ docs[u] # Nil => NoneOf(writes'[u], Creates)
                         /\ OneOf(writes'[u], Creates)
    BY <2>4, <2>5, <2>6 DEF DataInv
  <2>9. \A u \in Users \ accounts : docs[u] = Nil /\ writes'[u] = <<>>
    BY <2>2, <2>4, NilAssumption DEF DataInv
  <2> QED
    BY <1>2, <1>5, <2>7, <2>8, <2>9 DEF DataInv, SeenOnlyAfterGetStarted
<1> QED
  BY <1>2, <1>6, <1>7

\* At the first launch.
LEMMA DataInit == Init => DataInv
<1> SUFFICES ASSUME Init PROVE DataInv
  OBVIOUS
<1>1. /\ \A q \in Users \cup {Nil} : writes[q] = <<>>
      /\ cur \in accounts \cup {Nil}
      /\ \A u \in Users \ accounts : docs[u] = Nil
      /\ \A u \in Users : docs[u] # Nil => u \in accounts
      /\ tapped = {u \in accounts : docs[u].hasSeenOnboarding}
  BY DEF Init
<1>2. \A q \in Users \cup {Nil} : /\ Items(writes[q]) = {} /\ NoneOf(writes[q], Creates)
                                  /\ OneOf(writes[q], Creates)
  BY <1>1, ItemsFew DEF NoneOf, OneOf
<1>3. \A c \in Items(mainQ) : ~Creating(c)
  <2>1. TypeOK /\ AuthenticateUser(cur, mainQ, fetching)
    BY FormInit DEF FormInv, Init
  <2>2. \A c \in Items(mainQ) : c.kind = "presentLogin"
    BY <2>1, LaunchStep
  <2> QED
    BY <2>2 DEF Creating
<1> QED
  BY <1>1, <1>2, <1>3 DEF DataInv, SeenOnlyAfterGetStarted

\* Every step keeps the profiles in order.
LEMMA DataNext ==
    FormInv /\ FormInv' /\ ControlInv /\ WaitsInv /\ DataInv /\ [Next]_vars => DataInv'
<1> SUFFICES ASSUME FormInv, FormInv', ControlInv, WaitsInv, DataInv, [Next]_vars PROVE DataInv'
  OBVIOUS
<1>1. CASE UNCHANGED vars
  BY <1>1 DEF vars, DataInv, Vacant, SeenOnlyAfterGetStarted
<1>2. CASE Next
  BY <1>2, DataQuiet, DataLeave, DataDismiss, DataAnswer, DataWrite, DataRunFlow
     DEF Next, Answer, Writing, RunMainQueue
<1> QED
  BY <1>1, <1>2

\* At all times, with a patient user: a queue holds only writes of its user to
\* the own document, a profile is created at most once, and only who left the
\* onboarding is marked as having seen it.
THEOREM DataInvariant == Patient => (Spec => []DataInv)
<1> SUFFICES ASSUME Patient PROVE Spec => []DataInv
  OBVIOUS
<1>1. Init => DataInv
  BY DataInit
<1>2. FormInv /\ FormInv' /\ ControlInv /\ WaitsInv /\ DataInv /\ [Next]_vars => DataInv'
  BY DataNext
<1>3. Spec => []ControlInv
  BY ControlInvariant
<1>4. Spec => []WaitsInv
  BY WaitsInvariant
<1> QED
  BY <1>1, <1>2, <1>3, <1>4, FormInvariant, PTL DEF Spec

\* updateUserHasSeenOnboardingFirestore marks the current user; with a patient
\* user this is the one whose onboarding was on the screen.
THEOREM SeenCorrect == Patient => (Spec => []SeenOnlyAfterGetStarted)
<1> SUFFICES ASSUME Patient PROVE Spec => []SeenOnlyAfterGetStarted
  OBVIOUS
<1>1. Spec => []DataInv
  BY DataInvariant
<1>2. DataInv => SeenOnlyAfterGetStarted
  BY DEF DataInv
<1> QED
  BY <1>1, <1>2, PTL

\* The documents change only by the server's answers to writes.
LEMMA DocsChange ==
    ASSUME [Next]_vars, docs' # docs
    PROVE  \E ok \in BOOLEAN : WriteReply(ok)
<1>1. CASE SignIn \/ HandleLogout \/ Logout \/ CancelLogout \/ DismissOnboarding
          \/ DismissFinished
  BY <1>1 DEF SignIn, HandleLogin, HandleGoogleLogin, HandleSignUp, StartFlow, HandleLogout, Logout,
              CancelLogout, DismissOnboarding, DismissFinished
<1>2. CASE Kill \/ \E f \in Flows : Answer(f)
  BY <1>2 DEF Kill, Restart, Answer, PutDataReply, DownloadURLReply, AuthReply, AuthError,
              CheckReply, CheckError
<1>3. CASE Fetching \/ Storing \/ RunMainQueue \/ UNCHANGED vars
  BY <1>3 DEF Storing, StoreWrite, Fetching, FetchReply, RunMainQueue, RunPresentLogin, RunSignedIn, RunAuthFailed,
              RunChecked, RunCreated, RunProfileWritten, RunFetched, RunSeenWritten, vars
<1> QED
  BY <1>1, <1>2, <1>3 DEF Next, Writing

\* A profile never loses the mark: signInWitnGoogleFirestore and
\* registerUserWithFirestore replace no profile that exists or is queued, over
\* any number of sign-ins, failures and kills.
THEOREM MarkCorrect == Patient => (Spec => SeenNeverReverts)
<1> SUFFICES ASSUME Patient PROVE Spec => SeenNeverReverts
  OBVIOUS
<1> DEFINE Keeps == \A u \in Users : docs[u] # Nil /\ docs[u].hasSeenOnboarding
                                        => docs'[u] # Nil /\ docs'[u].hasSeenOnboarding
<1>1. FormInv /\ DataInv /\ [Next]_vars => [Keeps]_vars
  <2> SUFFICES ASSUME FormInv, DataInv, [Next]_vars PROVE Keeps
    OBVIOUS
  <2>1. CASE docs' = docs
    BY <2>1
  <2>2. CASE docs' # docs
    <3>1. PICK ok \in BOOLEAN : WriteReply(ok)
      BY <2>2, DocsChange
    <3> DEFINE w == Head(writes[cur])
    <3>2. /\ \A u \in Users : u # w.uid => docs'[u] = docs[u]
          /\ ~ok => docs'[w.uid] = docs[w.uid]
          /\ ok => docs'[w.uid] # Nil
          /\ ok /\ w.op = "seen" => docs'[w.uid].hasSeenOnboarding
      BY <3>1, ReplyStep
    <3>3. /\ w.uid = cur /\ cur \in Users /\ w.op \in {"create", "seen"}
          /\ w.op = "create" => docs[cur] = Nil
      BY <3>1, OwnWrite
    <3> HIDE DEF w
    <3> QED
      BY <3>2, <3>3
  <2> QED
    BY <2>1, <2>2
<1>2. Spec => []DataInv
  BY DataInvariant
<1>3. SeenNeverReverts <=> [][Keeps]_vars
  BY DEF SeenNeverReverts
<1> HIDE DEF Keeps
<1> QED
  BY <1>1, <1>2, <1>3, FormInvariant, PTL DEF Spec

-----------------------------------------------------------------------------
(* Services that do not fail: the onboarding comes once, and Home shows the *)
(* user who is signed in.                                                   *)

\* A mark on its way finds a profile: the document d or an earlier write.
Grounded(seq, d) ==
    \A i \in DOMAIN seq : seq[i].op = "seen" =>
       d # Nil \/ \E j \in DOMAIN seq : j < i /\ seq[j] \in Creates

\* The mark of u is in the document or on its way.
Marked(u) ==
    \/ \E w \in Items(writes[u]) : w.op = "seen"
    \/ docs[u] # Nil /\ docs[u].hasSeenOnboarding

MarksOK ==
    /\ \A u \in Users : Grounded(writes[u], docs[u])
    /\ \A u \in kept : Marked(u)

\* There is at most one fetch, it is behind all the writes that have yet to be
\* stored, its result is not older than the user's tap, and a Home that shows
\* another user waits for it.
FetchesOK ==
    /\ Len(fetching) <= 1
    /\ \A i \in DOMAIN fetching : Covers(fetching[i].behind, writes, queued)
    /\ OneOf(mainQ, FetchCallbacks)
    /\ fetching = <<>> \/ NoneOf(mainQ, FetchCallbacks)
    /\ \A c \in Items(mainQ) : c.kind = "fetched" =>
          ~Vacant(cur) /\ (c.user.hasSeenOnboarding \/ cur \notin kept)
    /\ modal = "onboarding" =>
          ~Vacant(cur) /\ fetching = <<>> /\ NoneOf(mainQ, FetchCallbacks)
    /\ modal = "onboarding" /\ ~closing => cur \notin kept
    /\ cur # Nil /\ homeUser # Nil /\ homeUser.uid # cur =>
          \/ modal = "login" /\ ~closing
          \/ fetching # <<>>
          \/ ~NoneOf(mainQ, FetchCallbacks)
          \/ Vacant(cur)

SettledInv == MarksOK /\ FetchesOK

\* What the two properties need.
LEMMA SettledInvMeaning ==
    ASSUME FormInv, ControlInv, SettledInv
    PROVE  OnboardingNotRepeated /\ HomeShowsSignedInUser
<1>1. OnboardingNotRepeated
  BY DEF SettledInv, FetchesOK, ControlInv, ScreensOK, OnboardingNotRepeated
<1>2. mainQ = <<>> => NoneOf(mainQ, FetchCallbacks)
  BY ItemsFew DEF NoneOf
<1>3. HomeShowsSignedInUser
  BY <1>2 DEF SettledInv, FetchesOK, HomeShowsSignedInUser, Vacant
<1> QED
  BY <1>1, <1>3

\* No service fails, so the server takes every write.
LEMMA WriteAccepted ==
    ASSUME ~Failures, FormInv, DataInv, SettledInv, NEW ok \in BOOLEAN, WriteReply(ok)
    PROVE  ok
<1> DEFINE w == Head(writes[cur])
<1>1. writes[cur] \in Seq(Write) /\ writes[cur] # <<>>
  BY ReplyStep
<1>2. w.uid = cur /\ cur \in Users
  BY OwnWrite
<1>3. w = writes[cur][1] /\ 1 \in DOMAIN writes[cur] /\ \A j \in DOMAIN writes[cur] : ~(j < 1)
  <2>1. /\ w = writes[cur][1] /\ 1 \in DOMAIN writes[cur]
        /\ \A j \in DOMAIN writes[cur] : j = 1 \/ 1 < j
    BY <1>1, ItemsTail
  <2>2. \A j \in DOMAIN writes[cur] : j \in Nat
    BY <1>1, ItemsType
  <2> HIDE DEF w
  <2> QED
    BY <2>1, <2>2
<1>4. Grounded(writes[cur], docs[cur])
  BY <1>2 DEF SettledInv, MarksOK
<1>5. w.op = "seen" => docs[cur] # Nil
  BY <1>3, <1>4 DEF Grounded
<1>6. IF ok THEN Accepts(w) ELSE ~Accepts(w) \/ Failures
  BY DEF WriteReply
<1> QED
  BY <1>2, <1>5, <1>6 DEF Accepts

\* What getDocument reads of the current user's profile once the tasks before
\* its own have run.
LEMMA LocalRead ==
    ASSUME FormInv, DataInv, SettledInv, cur \in Users, 1..queued[cur] = DOMAIN writes[cur]
    PROVE  /\ LocalExists(cur) <=> ~Vacant(cur)
           /\ cur \in kept => LocalSeen(cur)
<1>1. /\ \A i \in DOMAIN writes[cur] : writes[cur][i].uid = cur /\ writes[cur][i] \in Write
      /\ docs[cur] # Nil => NoneOf(writes[cur], Creates)
      /\ OneOf(writes[cur], Creates)
      /\ Grounded(writes[cur], docs[cur])
  <2>1. writes[cur] \in Seq(Write)
    BY DEF FormInv, TypeOK
  <2>2. \A i \in DOMAIN writes[cur] : writes[cur][i] \in Write
    BY <2>1, ItemsType DEF Items
  <2> QED
    BY <2>2 DEF DataInv, SettledInv, MarksOK, Items
<1>2. /\ Pending(cur, "create") = {i \in DOMAIN writes[cur] : writes[cur][i] \in Creates}
      /\ Pending(cur, "seen") = {i \in DOMAIN writes[cur] : writes[cur][i].op = "seen"}
  BY <1>1 DEF Pending, Creates
<1>3. LocalExists(cur) <=> ~Vacant(cur)
  BY <1>2 DEF LocalExists, Vacant, NoneOf
<1>4. ASSUME cur \in kept
      PROVE  LocalSeen(cur)
  <2>1. Marked(cur)
    BY <1>4 DEF SettledInv, MarksOK
  <2>2. CASE \E w \in Items(writes[cur]) : w.op = "seen"
    <3>1. PICK i \in DOMAIN writes[cur] : writes[cur][i].op = "seen"
      BY <2>2 DEF Items
    <3>2. \A j \in Pending(cur, "create") : j < i
      <4>1. CASE docs[cur] # Nil
        BY <1>1, <1>2, <4>1 DEF NoneOf
      <4>2. CASE docs[cur] = Nil
        <5>1. PICK k \in DOMAIN writes[cur] : k < i /\ writes[cur][k] \in Creates
          BY <1>1, <3>1, <4>2 DEF Grounded
        <5>2. \A j \in Pending(cur, "create") : j = k
          BY <1>1, <1>2, <5>1 DEF OneOf
        <5> QED
          BY <5>1, <5>2
      <4> QED
        BY <4>1, <4>2
    <3> QED
      BY <1>2, <3>1, <3>2 DEF LocalSeen
  <2>3. CASE docs[cur] # Nil /\ docs[cur].hasSeenOnboarding
    <3>1. Pending(cur, "create") = {}
      BY <1>1, <1>2, <2>3 DEF NoneOf
    <3> QED
      BY <2>3, <3>1 DEF LocalSeen
  <2> QED
    BY <2>1, <2>2, <2>3 DEF Marked
<1> QED
  BY <1>3, <1>4

\* A step that touches neither documents, writes nor marks.
LEMMA MarksSame ==
    ASSUME MarksOK, UNCHANGED <<docs, writes, kept>>
    PROVE  MarksOK' /\ \A u : Vacant(u)' <=> Vacant(u)
BY DEF MarksOK, Marked, Vacant

\* An attempt or its closure goes on while the login screen is there.
LEMMA SettledLogin ==
    ASSUME modal' = "login", fetching' = <<>>, NoneOf(mainQ', FetchCallbacks), ~closing',
           mainQ' \in Seq(Callback)
    PROVE  FetchesOK'
<1>1. Len(fetching') <= 1
  OBVIOUS
<1>2. OneOf(mainQ', FetchCallbacks)
  BY DEF OneOf, NoneOf
<1>3. \A c \in Items(mainQ') : c.kind # "fetched"
  <2>1. Items(mainQ') \subseteq Callback
    BY ItemsType
  <2> QED
    BY <2>1 DEF NoneOf, Items, FetchCallbacks
<1>4. DOMAIN fetching' = {}
  BY ItemsFew
<1> QED
  BY <1>1, <1>2, <1>3, <1>4 DEF FetchesOK

\* The user signs in, logs out or not; an animation ends; Storage answers.
LEMMA SettledUser ==
    ASSUME Patient, FormInv, FormInv', ControlInv, SettledInv,
           \/ SignIn \/ HandleLogout \/ Logout \/ CancelLogout \/ DismissFinished
           \/ \E f \in Flows : PutDataReply(f) \/ DownloadURLReply(f)
    PROVE  SettledInv'
<1>1. mainQ \in Seq(Callback) /\ fetching \in Seq(Fetch)
  BY DEF FormInv, TypeOK
<1>2. UNCHANGED <<docs, writes, queued, kept, mainQ, fetching, homeUser>>
  BY DEF SignIn, HandleLogin, HandleGoogleLogin, HandleSignUp, StartFlow, HandleLogout, Logout,
         CancelLogout, DismissFinished, PutDataReply, DownloadURLReply
<1>3. MarksOK' /\ \A u : Vacant(u)' <=> Vacant(u)
  BY <1>2, MarksSame DEF SettledInv
<1>5. CASE SignIn \/ \E f \in Flows : PutDataReply(f) \/ DownloadURLReply(f)
  <2>1. UNCHANGED <<cur, modal, closing>>
    BY <1>5 DEF SignIn, HandleLogin, HandleGoogleLogin, HandleSignUp, StartFlow, PutDataReply,
                DownloadURLReply
  <2>2. Vacant(cur)' <=> Vacant(cur)
    BY <1>2, <2>1 DEF Vacant
  <2>3. FetchesOK'
    BY <1>2, <2>1, <2>2 DEF SettledInv, FetchesOK
  <2> QED
    BY <1>3, <2>3 DEF SettledInv
<1>6. CASE HandleLogout \/ CancelLogout \/ DismissFinished
  <2>1. /\ cur' = cur /\ ~ (modal = "login" /\ ~closing) /\ modal' \in {"sheet", "none"}
    BY <1>6 DEF HandleLogout, CancelLogout, DismissFinished
  <2>2. Vacant(cur)' <=> Vacant(cur)
    BY <1>2, <2>1 DEF Vacant
  <2>3. FetchesOK'
    BY <1>2, <2>1, <2>2 DEF SettledInv, FetchesOK
  <2> QED
    BY <1>3, <2>3 DEF SettledInv
<1>7. CASE Logout
  <2>1. modal = "sheet" /\ ~closing /\ modal' = "login" /\ closing' = closing
    BY <1>7 DEF Logout
  <2>2. Asked(fetching) = {} /\ NoneOf(mainQ, FetchCallbacks)
    BY <2>1 DEF ControlInv, ScreensOK
  <2>3. fetching = <<>>
    <3>1. Items(fetching) = {}
      BY <2>2 DEF Asked, Items
    <3> QED
      BY <1>1, <3>1, EmptyItems
  <2>4. FetchesOK'
    BY <1>1, <1>2, <2>1, <2>2, <2>3, SettledLogin
  <2> QED
    BY <1>3, <2>4 DEF SettledInv
<1> QED
  BY <1>5, <1>6, <1>7

\* The process is killed: nothing that was stored is lost, and the mark of a
\* user who is still in kept was.
LEMMA SettledKill ==
    ASSUME FormInv, FormInv', ControlInv, DataInv, SettledInv, Kill
    PROVE  SettledInv'
<1>1. TypeOK /\ kept \subseteq Users
  BY DEF FormInv, TypeOK
<1>2. /\ Restart /\ UNCHANGED <<cur, docs, queued>> /\ kept' = kept \ LostMarks
      /\ homeUser' = Nil /\ modal' = "none"
      /\ AuthenticateUser(cur, mainQ', fetching')
  BY DEF Kill, Restart
<1>3. /\ writes' \in [Queues -> Seq(Write)]
      /\ \A q \in Queues :
            /\ queued[q] \in Nat /\ Len(writes'[q]) = queued[q]
            /\ DOMAIN writes'[q] = 1..queued[q]
            /\ DOMAIN writes'[q] \subseteq DOMAIN writes[q]
            /\ \A i \in DOMAIN writes'[q] : writes'[q][i].op = writes[q][i].op
  BY <1>1, <1>2, RestartWrites
<1>4. \A q \in Queues : \A i \in DOMAIN writes'[q] :
         writes[q][i] \in Creates => writes'[q][i] \in Creates
  <2> SUFFICES ASSUME NEW q \in Queues, NEW i \in DOMAIN writes'[q],
                      writes[q][i] \in Creates
               PROVE  writes'[q][i] \in Creates
    OBVIOUS
  <2>1. writes'[q] \in Seq(Write)
    BY <1>3
  <2>2. writes'[q][i] \in Write
    BY <2>1, ItemsType DEF Items
  <2> QED
    BY <1>3, <2>2 DEF Creates
<1>5. \A u \in Users : Grounded(writes'[u], docs'[u])
  <2> SUFFICES ASSUME NEW u \in Users, NEW i \in DOMAIN writes'[u], writes'[u][i].op = "seen"
               PROVE  docs[u] # Nil \/ \E j \in DOMAIN writes'[u] :
                                           j < i /\ writes'[u][j] \in Creates
    BY <1>2 DEF Grounded
  <2>1. Grounded(writes[u], docs[u]) /\ u \in Queues /\ writes[u] \in Seq(Write)
    BY <1>1 DEF SettledInv, MarksOK, TypeOK
  <2>2. i \in DOMAIN writes[u] /\ writes[u][i].op = "seen"
    BY <1>3, <2>1
  <2>3. CASE docs[u] = Nil
    <3>1. PICK j \in DOMAIN writes[u] : j < i /\ writes[u][j] \in Creates
      BY <2>1, <2>2, <2>3 DEF Grounded
    <3>2. j \in DOMAIN writes'[u]
      <4>1. DOMAIN writes[u] = 1..Len(writes[u]) /\ DOMAIN writes'[u] = 1..queued[u]
        BY <1>3, <2>1, LenProperties
      <4>2. j \in Nat /\ 1 <= j /\ i \in Nat /\ i <= queued[u] /\ queued[u] \in Nat
        BY <1>3, <2>1, <4>1
      <4> QED
        BY <3>1, <4>1, <4>2
    <3> QED
      BY <1>4, <2>1, <3>1, <3>2
  <2> QED
    BY <2>3
<1>6. \A u \in kept' : Marked(u)'
  <2> SUFFICES ASSUME NEW u \in kept \ LostMarks PROVE Marked(u)'
    BY <1>2
  <2>1. Marked(u) /\ u \in Users /\ u \in Queues /\ writes[u] \in Seq(Write)
    BY <1>1 DEF SettledInv, MarksOK, TypeOK
  <2>2. ASSUME NEW i \in DOMAIN writes[u], writes[u][i].op = "seen"
        PROVE  i \in DOMAIN writes'[u]
    <3>1. writes[u][i].uid = u
      BY <2>1 DEF DataInv, Items
    <3>2. ~(i > queued[u])
      BY <2>1, <2>2, <3>1 DEF LostMarks
    <3>3. i \in 1..Len(writes[u]) /\ queued[u] \in Nat /\ DOMAIN writes'[u] = 1..queued[u]
      BY <1>3, <2>1, LenProperties
    <3> QED
      BY <3>2, <3>3
  <2>3. (\E w \in Items(writes[u]) : w.op = "seen") => \E w \in Items(writes'[u]) : w.op = "seen"
    BY <1>3, <2>1, <2>2 DEF Items
  <2> QED
    BY <1>2, <2>1, <2>3 DEF Marked
<1>7. /\ \A c \in Items(mainQ') : c.kind = "presentLogin"
      /\ \/ fetching' = <<>>
         \/ fetching' = <<[uid |-> cur, behind |-> NoTasks]>> /\ mainQ' = <<>>
  BY <1>1, <1>2, LaunchStep
<1>8. NoneOf(mainQ', FetchCallbacks)
  BY <1>7 DEF NoneOf, Items, FetchCallbacks
<1>9. OneOf(mainQ', FetchCallbacks) /\ Len(fetching') <= 1
  <2>1. OneOf(mainQ', FetchCallbacks)
    BY <1>8 DEF OneOf, NoneOf
  <2>2. Len(<<>>) <= 1 /\ \A e : Len(<<e>>) <= 1
    OBVIOUS
  <2>3. fetching' = <<>> => Len(fetching') <= 1
    BY <2>2, Zenon
  <2>4. (\E e : fetching' = <<e>>) => Len(fetching') <= 1
    BY <2>2, Zenon
  <2>5. fetching' = <<>> \/ \E e : fetching' = <<e>>
    BY <1>7, Zenon
  <2> QED
    BY <2>1, <2>3, <2>4, <2>5
<1>10. \A i \in DOMAIN fetching' : Covers(fetching'[i].behind, writes', queued')
  <2>1. Covers(NoTasks, writes', queued')
    <3>1. \A q \in Queues : Len(writes'[q]) <= queued[q] + 0
      BY <1>3
    <3> QED
      BY <1>2, <3>1 DEF Covers, NoTasks
  <2>2. \A i \in DOMAIN fetching' : fetching'[i].behind = NoTasks
    BY <1>7
  <2> QED
    BY <2>1, <2>2
<1>11. FetchesOK'
  BY <1>2, <1>7, <1>8, <1>9, <1>10 DEF FetchesOK
<1> QED
  BY <1>5, <1>6, <1>11 DEF SettledInv, MarksOK

\* A write joins the queue of the current user.
LEMMA GroundedAppend ==
    ASSUME NEW seq \in Seq(Write), NEW w \in Write, NEW d, Grounded(seq, d),
           w.op = "seen" => d # Nil \/ ~NoneOf(seq, Creates)
    PROVE  Grounded(Append(seq, w), d)
<1> DEFINE new == Append(seq, w)
           n == Len(seq) + 1
<1>1. /\ DOMAIN new = DOMAIN seq \cup {n} /\ n \notin DOMAIN seq
      /\ \A i \in DOMAIN seq : new[i] = seq[i] /\ i < n
      /\ new[n] = w
  BY ItemsAppend
<1> HIDE DEF new, n
<1>2. ASSUME NEW i \in DOMAIN new, new[i].op = "seen"
      PROVE  d # Nil \/ \E j \in DOMAIN new : j < i /\ new[j] \in Creates
  <2>1. CASE i \in DOMAIN seq
    <3>1. d # Nil \/ \E j \in DOMAIN seq : j < i /\ seq[j] \in Creates
      BY <1>1, <1>2, <2>1 DEF Grounded
    <3> QED
      BY <1>1, <3>1
  <2>2. CASE i = n
    <3>1. d # Nil \/ \E j \in DOMAIN seq : seq[j] \in Creates
      BY <1>1, <1>2, <2>2 DEF NoneOf
    <3> QED
      BY <1>1, <2>2, <3>1
  <2> QED
    BY <1>1, <2>1, <2>2
<1>3. Grounded(new, d)
  BY <1>2 DEF Grounded
<1> QED
  BY <1>3 DEF new

\* Get Started: the mark is queued behind the profile.
LEMMA SettledDismiss ==
    ASSUME FormInv, FormInv', ControlInv, SettledInv, DismissOnboarding
    PROVE  SettledInv'
<1>1. TypeOK /\ cur \in Users \cup {Nil} /\ mainQ \in Seq(Callback)
  BY DEF FormInv, TypeOK
<1>2. /\ UNCHANGED <<cur, docs, mainQ, fetching, homeUser, modal>>
      /\ modal = "onboarding" /\ closing' = TRUE /\ kept' = kept \cup {homeUser.uid}
  BY DEF DismissOnboarding, Dismiss
<1>3. cur \in Users /\ homeUser.uid = cur
  BY <1>1, <1>2 DEF ControlInv, ScreensOK
<1>4. ~Vacant(cur) /\ fetching = <<>> /\ NoneOf(mainQ, FetchCallbacks)
  BY <1>2 DEF SettledInv, FetchesOK
<1> DEFINE done == Post("seenWritten", Nil, TRUE)
           w == NewWrite("seen", cur, Nil, done)
<1>5. done \in Callback
  BY HomePosts
<1>6. Enqueue("seen", cur, Nil, done)
  BY <1>3, NilAssumption DEF DismissOnboarding
<1> HIDE DEF done
<1>7. w \in Write /\ w.op = "seen"
  BY <1>3, <1>5, NewWriteType
<1>8. /\ writes'[cur] = Append(writes[cur], w)
      /\ Items(writes'[cur]) = Items(writes[cur]) \cup {w}
      /\ \A q \in Users \cup {Nil} : q # cur => writes'[q] = writes[q]
  BY <1>1, <1>6, <1>7, EnqueueStep
<1> HIDE DEF w
<1>9. writes[cur] \in Seq(Write) /\ Grounded(writes[cur], docs[cur])
  BY <1>1, <1>3 DEF TypeOK, SettledInv, MarksOK
<1>10. Grounded(writes'[cur], docs[cur])
  <2>1. w.op = "seen" => docs[cur] # Nil \/ ~NoneOf(writes[cur], Creates)
    BY <1>4 DEF Vacant
  <2> QED
    BY <1>7, <1>8, <1>9, <2>1, GroundedAppend
<1>11. \A u \in Users : Grounded(writes'[u], docs'[u])
  BY <1>2, <1>8, <1>10 DEF SettledInv, MarksOK
<1>12. \A u \in kept' : Marked(u)'
  <2> SUFFICES ASSUME NEW u \in kept' PROVE Marked(u)'
    OBVIOUS
  <2>1. CASE u = cur
    BY <1>7, <1>8, <2>1 DEF Marked
  <2>2. CASE u # cur
    <3>1. u \in kept /\ u \in Users
      BY <1>1, <1>2, <1>3, <2>2 DEF TypeOK
    <3>2. Marked(u) /\ writes'[u] = writes[u]
      BY <1>8, <2>2, <3>1 DEF SettledInv, MarksOK
    <3> QED
      BY <1>2, <3>2 DEF Marked
  <2> QED
    BY <2>1, <2>2
<1>13. ~Vacant(cur)'
  <2>1. NoneOf(writes'[cur], Creates) => NoneOf(writes[cur], Creates)
    BY <1>7, <1>8, <1>9, SortAppend
  <2> QED
    BY <1>2, <1>4, <2>1 DEF Vacant
<1>14. \A c \in Items(mainQ) : c.kind # "fetched"
  <2>1. Items(mainQ) \subseteq Callback
    BY <1>1, ItemsType
  <2> QED
    BY <1>4, <2>1 DEF NoneOf, Items, FetchCallbacks
<1>15. DOMAIN fetching' = {}
  BY <1>2, <1>4, ItemsFew
<1>16. FetchesOK'
  BY <1>2, <1>3, <1>4, <1>13, <1>14, <1>15 DEF SettledInv, FetchesOK
<1> QED
  BY <1>11, <1>12, <1>16 DEF SettledInv, MarksOK

\* Auth or the check of the profile answers an attempt.
LEMMA SettledAnswer ==
    ASSUME FormInv, FormInv', ControlInv, SettledInv, NEW f \in Flows,
           AuthReply(f) \/ AuthError(f) \/ CheckReply(f)
    PROVE  SettledInv'
<1>1. mainQ \in Seq(Callback) /\ mainQ' \in Seq(Callback)
  BY DEF FormInv, TypeOK
<1>2. /\ UNCHANGED <<docs, writes, fetching, modal, closing, queued, tapped, kept>>
      /\ flow[f].stage \in {"authenticating", "checking"}
  BY DEF AuthReply, AuthError, CheckReply
<1>3. ~Finished(f)
  BY <1>2 DEF Finished
<1>4. modal = "login" /\ ~closing /\ NoneOf(mainQ, FetchCallbacks) /\ fetching = <<>>
  BY <1>3, Alone
<1>5. PICK kind \in FlowKinds, ok \in BOOLEAN : mainQ' = Append(mainQ, Post(kind, f, ok))
  <2>1. CheckExists(flow[f].uid) \in BOOLEAN
    BY DEF CheckExists, LocalExists
  <2>2. \E kind \in {"created", "signedIn", "createFailed", "signInFailed", "checked"} :
           \E ok \in BOOLEAN : mainQ' = Append(mainQ, Post(kind, f, ok))
    BY <2>1 DEF AuthReply, AuthError, CheckReply
  <2> QED
    BY <2>2 DEF FlowKinds
<1> DEFINE c == Post(kind, f, ok)
<1>6. c \in Callback /\ c \notin FetchCallbacks
  <2>1. c \in Callback /\ c.kind = kind
    BY PostType
  <2> QED
    BY <2>1 DEF FetchCallbacks, FlowKinds
<1>7. NoneOf(mainQ', FetchCallbacks)
  <2>1. mainQ' = Append(mainQ, c)
    BY <1>5
  <2> HIDE DEF c
  <2> QED
    BY <1>1, <1>4, <1>6, <2>1, SortAppend
<1>8. FetchesOK'
  BY <1>1, <1>2, <1>4, <1>7, SettledLogin
<1>9. MarksOK'
  BY <1>2, MarksSame DEF SettledInv
<1> QED
  BY <1>8, <1>9 DEF SettledInv

\* Firestore answers the fetch with the overlay of the queue, which has the
\* mark if the user has tapped.
LEMMA SettledFetch ==
    ASSUME ~Failures, FormInv, FormInv', ControlInv, DataInv, SettledInv,
           NEW i \in DOMAIN fetching, FetchReply(i)
    PROVE  SettledInv'
<1>1. mainQ \in Seq(Callback) /\ fetching \in Seq(Fetch) /\ fetching' \in Seq(Fetch)
  BY DEF FormInv, FormInv, TypeOK
<1>2. /\ UNCHANGED <<cur, docs, writes, homeUser, modal, closing, queued, tapped, kept>>
      /\ fetching' = SubSeq(fetching, 1, i - 1) \o SubSeq(fetching, i + 1, Len(fetching))
  BY DEF FetchReply
<1>3. fetching[i].uid = cur /\ cur \in Users /\ fetching # <<>>
  <2>1. fetching[i].uid \in Asked(fetching)
    BY DEF Asked
  <2>2. fetching[i] \in Fetch
    BY <1>1, ItemsType DEF Items
  <2> QED
    BY <2>1, <2>2, ItemsFew DEF ControlInv, ScreensOK, Fetch
<1>4. fetching' = <<>>
  <2>1. Len(fetching') = Len(fetching) - 1 /\ Len(fetching) \in Nat /\ Len(fetching') \in Nat
    BY <1>1, <1>2, ItemsWithout, LenProperties
  <2>2. Len(fetching) <= 1
    BY DEF SettledInv, FetchesOK
  <2>3. Len(fetching') = 0
    BY <2>1, <2>2
  <2> QED
    BY <1>1, <2>3, EmptySeq
<1>5. NoneOf(mainQ, FetchCallbacks) /\ modal # "onboarding"
  BY <1>3 DEF SettledInv, FetchesOK
<1>6. MarksOK' /\ (Vacant(cur)' <=> Vacant(cur))
  BY <1>2, MarksSame DEF SettledInv, Vacant
<1>7. /\ LocalExists(cur) <=> ~Vacant(cur)
      /\ cur \in kept => LocalSeen(cur)
  <2>1. fetching[i].behind = NoTasks
    BY DEF FetchReply, Reached
  <2>2. Covers(NoTasks, writes, queued)
    BY <2>1 DEF SettledInv, FetchesOK
  <2>3. 1..queued[cur] = DOMAIN writes[cur]
    BY <1>3, <2>2, CoversStep
  <2> QED
    BY <1>3, <2>3, LocalRead
<1>8. Len(fetching') <= 1 /\ DOMAIN fetching' = {}
  BY <1>4, ItemsFew
<1>9. \A c \in Items(mainQ) : c.kind # "fetched"
  <2>1. Items(mainQ) \subseteq Callback
    BY <1>1, ItemsType
  <2> QED
    BY <1>5, <2>1 DEF NoneOf, Items, FetchCallbacks
<1> DEFINE c == [kind |-> "fetched", flow |-> Nil, ok |-> TRUE,
                 user |-> [uid |-> fetching[i].uid, hasSeenOnboarding |-> LocalSeen(fetching[i].uid)]]
<1>10. CASE LocalExists(fetching[i].uid) /\ mainQ' = Append(mainQ, c)
  <2>1. /\ c.user \in User /\ c.kind = "fetched"
        /\ c.user.hasSeenOnboarding <=> LocalSeen(cur)
    BY <1>3 DEF User, LocalSeen
  <2>2. c \in FetchCallbacks /\ c \in Callback
    BY <2>1 DEF FetchCallbacks, Callback
  <2>3. mainQ' = Append(mainQ, c)
    BY <1>10
  <2> HIDE DEF c
  <2>4. Items(mainQ') = Items(mainQ) \cup {c}
    BY <1>1, <2>2, <2>3, ItemsAppend
  <2>5. OneOf(mainQ', FetchCallbacks) /\ ~NoneOf(mainQ', FetchCallbacks)
    <3>1. OneOf(mainQ', FetchCallbacks)
      BY <1>1, <1>5, <2>2, <2>3, SortAppend
    <3>2. ~NoneOf(mainQ', FetchCallbacks)
      BY <1>1, <2>2, <2>3, SortAppend
    <3> QED
      BY <3>1, <3>2
  <2>6. ~Vacant(cur) /\ (c.user.hasSeenOnboarding \/ cur \notin kept)
    BY <1>3, <1>7, <1>10, <2>1
  <2>7. FetchesOK'
    BY <1>2, <1>4, <1>5, <1>6, <1>8, <1>9, <2>4, <2>5, <2>6 DEF FetchesOK
  <2> QED
    BY <1>6, <2>7 DEF SettledInv
<1>11. CASE ~LocalExists(fetching[i].uid) /\ mainQ' = mainQ
  <2>1. Vacant(cur)
    BY <1>3, <1>7, <1>11
  <2>2. FetchesOK'
    BY <1>2, <1>4, <1>5, <1>6, <1>8, <1>9, <1>11, <2>1 DEF SettledInv, FetchesOK
  <2> QED
    BY <1>6, <2>2 DEF SettledInv
<1> QED
  BY <1>10, <1>11 DEF FetchReply

\* The tasks that a fetch is behind.
LEMMA FetchBehind ==
    ASSUME FormInv, NEW i \in DOMAIN fetching
    PROVE  fetching[i].behind \in Tasks
<1>1. fetching \in Seq(Fetch)
  BY DEF FormInv, TypeOK
<1>2. fetching[i] \in Fetch
  BY <1>1, ItemsType DEF Items
<1> QED
  BY <1>2 DEF Fetch

\* The server takes the first write: the overlay stays what it was.
LEMMA SettledWrite ==
    ASSUME ~Failures, FormInv, FormInv', ControlInv, DataInv, SettledInv,
           NEW ok \in BOOLEAN, WriteReply(ok)
    PROVE  SettledInv'
<1> DEFINE w == Head(writes[cur])
<1>1. /\ writes[cur] \in Seq(Write) /\ writes[cur] # <<>>
      /\ w \in Write /\ WriteOK(w, flow, stored)
      /\ writes'[cur] = Tail(writes[cur])
      /\ \A q \in Users \cup {Nil} : q # cur => writes'[q] = writes[q]
      /\ \A u \in Users : u # w.uid => docs'[u] = docs[u]
      /\ ok => docs'[w.uid] # Nil
      /\ ok /\ w.op = "seen" => docs[w.uid] # Nil /\ docs'[w.uid].hasSeenOnboarding
      /\ w.done = Nil => mainQ' = mainQ
      /\ w.done # Nil => w.done \in Callback /\ mainQ' = Append(mainQ, Answered(w.done, ok))
  BY ReplyStep
<1>2. ok
  BY WriteAccepted
<1>3. /\ w.uid = cur /\ cur \in Users /\ w.op \in {"create", "seen"}
      /\ w.op = "create" => docs[cur] = Nil
  BY OwnWrite
<1>4. UNCHANGED <<cur, fetching, homeUser, modal, closing, kept>> /\ mainQ \in Seq(Callback)
  BY DEF WriteReply, FormInv, TypeOK
<1>5. \A v \in Items(writes[cur]) : v = w \/ v \in Items(writes'[cur])
  <2>1. /\ w = writes[cur][1]
        /\ \A i \in DOMAIN writes[cur] : i # 1 =>
              i - 1 \in DOMAIN Tail(writes[cur]) /\ Tail(writes[cur])[i - 1] = writes[cur][i]
    BY <1>1, ItemsTail
  <2> HIDE DEF w
  <2> SUFFICES ASSUME NEW i \in DOMAIN writes[cur], writes[cur][i] # w
               PROVE  writes[cur][i] \in Items(Tail(writes[cur]))
    BY <1>1 DEF Items
  <2>2. i # 1
    BY <2>1
  <2>3. i - 1 \in DOMAIN Tail(writes[cur]) /\ Tail(writes[cur])[i - 1] = writes[cur][i]
    BY <2>1, <2>2
  <2> QED
    BY <2>3 DEF Items
<1>6. ~Vacant(cur)
  <2>1. w.op = "create" => ~NoneOf(writes[cur], Creates)
    <3>1. w \in Items(writes[cur])
      BY <1>1, ItemsTail
    <3> QED
      BY <1>1, <3>1 DEF NoneOf, Items, Creates
  <2> HIDE DEF w
  <2> QED
    BY <1>1, <1>2, <1>3, <2>1 DEF Vacant
<1> HIDE DEF w
<1>7. docs'[cur] # Nil
  BY <1>1, <1>2, <1>3
<1>8. ~Vacant(cur)'
  BY <1>4, <1>7 DEF Vacant
<1>9. \A u \in Users : Grounded(writes'[u], docs'[u])
  <2> SUFFICES ASSUME NEW u \in Users PROVE Grounded(writes'[u], docs'[u])
    OBVIOUS
  <2>1. CASE u = cur
    BY <1>7, <2>1 DEF Grounded
  <2>2. CASE u # cur
    BY <1>1, <1>3, <2>2 DEF SettledInv, MarksOK
  <2> QED
    BY <2>1, <2>2
<1>10. \A u \in kept : Marked(u)'
  <2> SUFFICES ASSUME NEW u \in kept PROVE Marked(u)'
    OBVIOUS
  <2>1. Marked(u) /\ u \in Users
    BY DEF SettledInv, MarksOK, FormInv, TypeOK
  <2>2. CASE u # cur
    BY <1>1, <1>3, <2>1, <2>2 DEF Marked
  <2>3. CASE u = cur /\ w.op = "seen"
    BY <1>1, <1>2, <1>3, <1>7, <2>3 DEF Marked
  <2>4. CASE u = cur /\ w.op = "create"
    <3>1. PICK v \in Items(writes[cur]) : v.op = "seen"
      BY <1>3, <2>1, <2>4 DEF Marked
    <3>2. v \in Items(writes'[cur])
      BY <1>5, <2>4, <3>1
    <3> QED
      BY <2>4, <3>1, <3>2 DEF Marked
  <2> QED
    BY <1>3, <2>2, <2>3, <2>4
<1>11. /\ \A c \in Items(mainQ') : c \in Items(mainQ) \/ c.kind # "fetched"
       /\ NoneOf(mainQ', FetchCallbacks) <=> NoneOf(mainQ, FetchCallbacks)
       /\ OneOf(mainQ', FetchCallbacks)
  <2>1. OneOf(mainQ, FetchCallbacks)
    BY DEF SettledInv, FetchesOK
  <2>2. CASE w.done = Nil
    BY <1>1, <2>1, <2>2
  <2>3. CASE w.done # Nil
    <3> DEFINE a == Answered(w.done, ok)
    <3>1. w.done \in Callback /\ mainQ' = Append(mainQ, a)
      BY <1>1, <2>3
    <3>2. a \in Callback /\ a.kind = w.done.kind
      BY <3>1, AnsweredType
    <3>3. a.kind # "fetched" /\ a \notin FetchCallbacks
      BY <1>1, <2>3, <3>2 DEF WriteOK, FetchCallbacks
    <3> HIDE DEF a
    <3>4. Items(mainQ') = Items(mainQ) \cup {a}
      BY <1>4, <3>1, <3>2, ItemsAppend
    <3>5. /\ NoneOf(mainQ', FetchCallbacks) <=> NoneOf(mainQ, FetchCallbacks)
          /\ OneOf(mainQ', FetchCallbacks)
      BY <1>4, <2>1, <3>1, <3>2, <3>3, SortAppend
    <3> QED
      BY <3>3, <3>4, <3>5
  <2> QED
    BY <2>2, <2>3
<1>12. \A i \in DOMAIN fetching : Covers(fetching[i].behind, writes', queued')
  <2> SUFFICES ASSUME NEW i \in DOMAIN fetching
               PROVE  Covers(fetching[i].behind, writes', queued')
    OBVIOUS
  <2>1. Covers(fetching[i].behind, writes, queued)
    BY DEF SettledInv, FetchesOK
  <2>2. fetching[i].behind \in Tasks
    BY FetchBehind
  <2> QED
    BY <2>1, <2>2, CoversStep
<1>13. FetchesOK'
  BY <1>4, <1>6, <1>8, <1>11, <1>12 DEF SettledInv, FetchesOK
<1> QED
  BY <1>4, <1>9, <1>10, <1>13 DEF SettledInv, MarksOK

\* The task of a write runs: one less before the fetch.
LEMMA SettledStore ==
    ASSUME FormInv, SettledInv, NEW q \in Queues, StoreWrite(q)
    PROVE  SettledInv'
<1>1. TypeOK
  BY DEF FormInv
<1>2. /\ fetching' \in Seq(Fetch) /\ DOMAIN fetching' = DOMAIN fetching
      /\ \A i \in DOMAIN fetching : fetching'[i].behind = Passed(fetching[i].behind, q)
  BY <1>1, StoreStep
<1>3. UNCHANGED <<cur, docs, writes, kept, mainQ, homeUser, modal, closing>>
  BY DEF StoreWrite
<1>4. MarksOK' /\ (Vacant(cur)' <=> Vacant(cur))
  BY <1>3, MarksSame DEF SettledInv, Vacant
<1>5. Len(fetching') = Len(fetching) /\ (fetching' = <<>> <=> fetching = <<>>)
  <2>1. fetching \in Seq(Fetch)
    BY <1>1 DEF TypeOK
  <2>2. /\ Len(fetching) \in Nat /\ DOMAIN fetching = 1..Len(fetching)
        /\ Len(fetching') \in Nat /\ DOMAIN fetching' = 1..Len(fetching')
    BY <1>2, <2>1, LenProperties
  <2>3. Len(fetching') = Len(fetching)
    BY <1>2, <2>2
  <2> QED
    BY <1>2, <2>1, <2>3, EmptySeq
<1>6. \A i \in DOMAIN fetching' : Covers(fetching'[i].behind, writes', queued')
  <2> SUFFICES ASSUME NEW i \in DOMAIN fetching
               PROVE  Covers(Passed(fetching[i].behind, q), writes', queued')
    BY <1>2
  <2>1. Covers(fetching[i].behind, writes, queued)
    BY DEF SettledInv, FetchesOK
  <2>2. fetching[i].behind \in Tasks
    BY FetchBehind
  <2> QED
    BY <2>1, <2>2, CoversStep
<1>7. FetchesOK'
  BY <1>3, <1>4, <1>5, <1>6 DEF SettledInv, FetchesOK
<1> QED
  BY <1>4, <1>7 DEF SettledInv

\* A closure of an attempt runs; the one that completes it starts a fetch.
LEMMA SettledRunFlow ==
    ASSUME FormInv, FormInv', ControlInv, DataInv, SettledInv,
           RunSignedIn \/ RunAuthFailed \/ RunChecked \/ RunCreated \/ RunProfileWritten
    PROVE  SettledInv'
<1> DEFINE c == Head(mainQ)
           f == c.flow
           Create == \E image \in stored \cup {Photo} :
                        Enqueue("create", flow[f].uid, image, Post("profileWritten", f, TRUE))
<1>1. TypeOK /\ cur \in Users \cup {Nil} /\ mainQ' \in Seq(Callback)
  BY DEF FormInv, TypeOK
<1>2. PICK kind \in FlowKinds :
         /\ Run(kind) /\ UNCHANGED <<cur, docs, homeUser, modal, queued, tapped, kept>>
         /\ \/ /\ AuthenticationComplete /\ UNCHANGED writes
               /\ kind \notin {"signInFailed", "createFailed"}
            \/ UNCHANGED <<fetching, closing>> /\ UNCHANGED writes
            \/ UNCHANGED <<fetching, closing>> /\ Create
  BY ChainMoves
<1>3. /\ f \in Flows /\ flow[f].uid \in Users
      /\ kind \notin {"signInFailed", "createFailed"} => flow[f].uid = cur
      /\ modal = "login" /\ ~closing
      /\ NoneOf(mainQ', FetchCallbacks) /\ fetching = <<>>
      /\ \A d \in Items(mainQ') : d.kind # "fetched"
  BY <1>2, RunChain
<1> HIDE DEF c, f
<1>4. CASE /\ AuthenticationComplete /\ UNCHANGED writes
           /\ kind \notin {"signInFailed", "createFailed"}
  <2>1. MarksOK'
    BY <1>2, <1>4, MarksSame DEF SettledInv
  <2> DEFINE e == [uid |-> cur, behind |-> Unstored]
  <2>2. /\ cur \in Users /\ cur # Nil /\ closing' = TRUE
        /\ fetching' = <<e>> /\ e.behind = Unstored
    <3>1. cur \in Users /\ cur # Nil /\ closing' = TRUE /\ fetching' = Append(fetching, e)
      BY <1>2, <1>3, <1>4, NilAssumption DEF AuthenticationComplete, Dismiss
    <3>2. e.behind = Unstored
      OBVIOUS
    <3> HIDE DEF e
    <3>3. Append(<<>>, e) = <<e>>
      OBVIOUS
    <3> QED
      BY <1>3, <3>1, <3>2, <3>3
  <2> HIDE DEF e
  <2>3. Len(fetching') <= 1 /\ fetching' # <<>>
    BY <2>2
  <2>4. OneOf(mainQ', FetchCallbacks)
    BY <1>3 DEF OneOf, NoneOf
  <2>5. \A i \in DOMAIN fetching' : Covers(fetching'[i].behind, writes', queued')
    <3>1. Covers(Unstored, writes, queued)
      BY CoversStep
    <3>2. \A i \in DOMAIN fetching' : fetching'[i].behind = Unstored
      BY <2>2
    <3> QED
      BY <1>2, <1>4, <3>1, <3>2
  <2>6. FetchesOK'
    BY <1>2, <1>3, <2>3, <2>4, <2>5 DEF FetchesOK
  <2> QED
    BY <2>1, <2>6 DEF SettledInv
<1>5. CASE UNCHANGED <<fetching, closing>> /\ UNCHANGED writes
  <2>1. MarksOK'
    BY <1>2, <1>5, MarksSame DEF SettledInv
  <2>2. FetchesOK'
    BY <1>1, <1>2, <1>3, <1>5, SettledLogin
  <2> QED
    BY <2>1, <2>2 DEF SettledInv
<1>6. CASE UNCHANGED <<fetching, closing>> /\ Create
  <2>1. PICK w \in Write : Joins(f, w)
    <3>1. PICK image \in stored \cup {Photo} :
             Enqueue("create", flow[f].uid, image, Post("profileWritten", f, TRUE))
      BY <1>6
    <3> QED
      BY <1>1, <1>3, <3>1, CreateStep
  <2>2. /\ w.op = "create"
        /\ writes'[cur] = Append(writes[cur], w)
        /\ Items(writes'[cur]) = Items(writes[cur]) \cup {w}
        /\ \A q \in Users \cup {Nil} : q # cur => writes'[q] = writes[q]
    BY <2>1 DEF Joins
  <2>3. \A u \in Users : Grounded(writes'[u], docs'[u])
    <3> SUFFICES ASSUME NEW u \in Users PROVE Grounded(writes'[u], docs'[u])
      OBVIOUS
    <3>1. Grounded(writes[u], docs[u]) /\ writes[u] \in Seq(Write)
      BY <1>1 DEF SettledInv, MarksOK, TypeOK
    <3>2. CASE u = cur
      <4>1. Grounded(Append(writes[u], w), docs[u])
        BY <2>2, <3>1, GroundedAppend
      <4> QED
        BY <1>2, <2>2, <3>2, <4>1
    <3>3. CASE u # cur
      BY <1>2, <2>2, <3>1, <3>3
    <3> QED
      BY <3>2, <3>3
  <2>4. \A u \in kept' : Marked(u)'
    <3> SUFFICES ASSUME NEW u \in kept PROVE Marked(u)'
      BY <1>2
    <3>1. Marked(u) /\ u \in Users
      BY <1>1 DEF SettledInv, MarksOK, TypeOK
    <3>2. Items(writes[u]) \subseteq Items(writes'[u])
      BY <2>2, <3>1
    <3> QED
      BY <1>2, <3>1, <3>2 DEF Marked
  <2>5. FetchesOK'
    BY <1>1, <1>2, <1>3, <1>6, SettledLogin
  <2> QED
    BY <2>3, <2>4, <2>5 DEF SettledInv, MarksOK
<1> QED
  BY <1>2, <1>4, <1>5, <1>6

\* Home's own closures.
LEMMA SettledRunHome ==
    ASSUME FormInv, FormInv', ControlInv, SettledInv,
           RunPresentLogin \/ RunFetched \/ RunSeenWritten
    PROVE  SettledInv'
<1> DEFINE c == Head(mainQ)
<1>1. TypeOK /\ mainQ \in Seq(Callback)
  BY DEF FormInv, TypeOK
<1>2. UNCHANGED <<cur, docs, writes, fetching, closing, queued, tapped, kept>>
  BY DEF RunPresentLogin, RunFetched, RunSeenWritten
<1>3. /\ mainQ # <<>> /\ c \in Callback /\ c \in Items(mainQ) /\ CallbackOK(c, flow, stored)
      /\ mainQ' = Tail(mainQ) /\ Items(mainQ') \subseteq Items(mainQ)
  BY RunStep DEF RunPresentLogin, RunFetched, RunSeenWritten
<1>4. HomeOK(c, cur, modal, closing)
  BY <1>3 DEF ControlInv, ScreensOK
<1>5. /\ NoneOf(mainQ, FetchCallbacks) <=> NoneOf(mainQ', FetchCallbacks)
             /\ c \notin FetchCallbacks
      /\ OneOf(mainQ', FetchCallbacks)
      /\ c \in FetchCallbacks => NoneOf(mainQ', FetchCallbacks)
  BY <1>1, <1>3, SortTail DEF SettledInv, FetchesOK
<1>6. MarksOK' /\ (Vacant(cur)' <=> Vacant(cur))
  BY <1>2, MarksSame DEF SettledInv, Vacant
<1> HIDE DEF c
<1>7. CASE RunPresentLogin
  <2>1. c.kind = "presentLogin" /\ homeUser' = homeUser
    BY <1>7 DEF RunPresentLogin, Run, c
  <2>2. cur = Nil /\ modal' = "login" /\ c \notin FetchCallbacks
    BY <1>4, <1>7, <2>1 DEF RunPresentLogin, Present, HomeOK, FetchCallbacks
  <2>3. FetchesOK'
    BY <1>2, <1>3, <1>5, <1>6, <2>1, <2>2 DEF SettledInv, FetchesOK
  <2> QED
    BY <1>6, <2>3 DEF SettledInv
<1>8. CASE RunFetched
  <2>1. c.kind = "fetched" /\ homeUser' = c.user
    BY <1>8 DEF RunFetched, Run, c, SetHomeUser
  <2>2. c \in FetchCallbacks /\ c.user.uid = cur
    BY <1>3, <1>4, <2>1 DEF HomeOK, FetchCallbacks
  <2>3. /\ NoneOf(mainQ', FetchCallbacks) /\ fetching = <<>> /\ modal # "onboarding"
        /\ ~Vacant(cur) /\ (c.user.hasSeenOnboarding \/ cur \notin kept)
    BY <1>3, <1>5, <2>1, <2>2 DEF SettledInv, FetchesOK
  <2>4. modal' = "onboarding" => ~c.user.hasSeenOnboarding
    BY <1>8, <2>3 DEF RunFetched, SetHomeUser, PresentOnboardingIfNecessary, Present, c
  <2>5. \A d \in Items(mainQ') : d.kind # "fetched"
    <3>1. Items(mainQ') \subseteq Callback
      BY <1>1, <1>3, ItemsType
    <3> QED
      BY <2>3, <3>1 DEF NoneOf, Items, FetchCallbacks
  <2>6. FetchesOK'
    BY <1>2, <1>5, <1>6, <2>1, <2>2, <2>3, <2>4, <2>5 DEF SettledInv, FetchesOK
  <2> QED
    BY <1>6, <2>6 DEF SettledInv
<1>9. CASE RunSeenWritten
  <2>1. c \notin FetchCallbacks
    BY <1>9 DEF RunSeenWritten, Run, c, FetchCallbacks
  <2>2. /\ modal' = modal
        /\ homeUser' # Nil => homeUser # Nil /\ homeUser'.uid = homeUser.uid
    <3>1. CASE homeUser = Nil
      BY <1>9, <3>1 DEF RunSeenWritten, SetHomeUser, PresentOnboardingIfNecessary
    <3>2. CASE homeUser # Nil
      <4> DEFINE u == [homeUser EXCEPT !.hasSeenOnboarding = TRUE]
      <4>1. u.hasSeenOnboarding /\ u.uid = homeUser.uid
        BY <1>1, <3>2 DEF TypeOK, User
      <4>2. homeUser' = u /\ PresentOnboardingIfNecessary(u)
        BY <1>9, <3>2 DEF RunSeenWritten, SetHomeUser
      <4> HIDE DEF u
      <4> QED
        BY <3>2, <4>1, <4>2 DEF PresentOnboardingIfNecessary
    <3> QED
      BY <3>1, <3>2
  <2>3. FetchesOK'
    BY <1>2, <1>3, <1>5, <1>6, <2>1, <2>2 DEF SettledInv, FetchesOK
  <2> QED
    BY <1>6, <2>3 DEF SettledInv
<1> QED
  BY <1>7, <1>8, <1>9

\* At launch no write is queued, and there is at most one fetch.
LEMMA SettledInit == Init => SettledInv
<1> SUFFICES ASSUME Init PROVE SettledInv
  OBVIOUS
<1>1. /\ TypeOK /\ AuthenticateUser(cur, mainQ, fetching)
      /\ mainQ \in Seq(Callback) /\ fetching \in Seq(Fetch)
  BY FormInit DEF FormInv, Init, TypeOK
<1>2. /\ \A u \in Users : writes[u] = <<>>
      /\ \A u \in accounts : docs[u] # Nil
      /\ kept = {u \in accounts : docs[u].hasSeenOnboarding}
      /\ homeUser = Nil /\ modal = "none"
  BY DEF Init
<1>3. \A u \in Users : Grounded(writes[u], docs[u])
  BY <1>2 DEF Grounded
<1>4. MarksOK
  BY <1>2, <1>3 DEF MarksOK, Marked
<1>5. Len(fetching) <= 1 /\ \A i \in DOMAIN fetching : fetching[i].behind = NoTasks
  <2>1. CASE fetching = <<>>
    BY <2>1
  <2>2. CASE fetching = <<[uid |-> cur, behind |-> NoTasks]>>
    BY <2>2
  <2> QED
    BY <1>1, <2>1, <2>2 DEF AuthenticateUser
<1>6. \A c \in Items(mainQ) : c.kind = "presentLogin"
  BY <1>1, LaunchStep
<1>7. NoneOf(mainQ, FetchCallbacks)
  BY <1>6 DEF NoneOf, Items, FetchCallbacks
<1>8. Covers(NoTasks, writes, queued)
  <2>1. \A q \in Queues : writes[q] = <<>> /\ queued[q] = 0
    BY DEF Init, NoTasks
  <2>2. \A q \in Queues : Len(writes[q]) <= queued[q] + 0
    BY <2>1
  <2> QED
    BY <2>2 DEF Covers, NoTasks
<1>9. FetchesOK
  BY <1>2, <1>5, <1>6, <1>7, <1>8 DEF FetchesOK, OneOf, NoneOf
<1> QED
  BY <1>4, <1>9 DEF SettledInv

\* Every step keeps marks and fetches in order while no service fails.
LEMMA SettledNext ==
    Patient /\ ~Failures /\ FormInv /\ FormInv' /\ ControlInv /\ DataInv /\ SettledInv
       /\ [Next]_vars => SettledInv'
<1> SUFFICES ASSUME Patient, ~Failures, FormInv, FormInv', ControlInv, DataInv, SettledInv,
                    [Next]_vars
             PROVE  SettledInv'
  OBVIOUS
<1>1. CASE UNCHANGED vars
  BY <1>1 DEF vars, SettledInv, MarksOK, FetchesOK, Marked, Vacant, Covers
<1>2. CASE SignIn \/ HandleLogout \/ Logout \/ CancelLogout \/ DismissFinished
  BY <1>2, SettledUser
<1>3. CASE Kill \/ DismissOnboarding
  BY <1>3, SettledKill, SettledDismiss
<1>4. CASE \E f \in Flows : Answer(f)
  <2>1. PICK f \in Flows : Answer(f)
    BY <1>4
  <2>2. ~CheckError(f)
    BY DEF CheckError
  <2> QED
    BY <2>1, <2>2, SettledUser, SettledAnswer DEF Answer
<1>5. CASE Fetching \/ Storing \/ Writing
  BY <1>5, SettledFetch, SettledStore, SettledWrite DEF Fetching, Storing, Writing
<1>6. CASE RunMainQueue
  BY <1>6, SettledRunFlow, SettledRunHome DEF RunMainQueue
<1> QED
  BY <1>1, <1>2, <1>3, <1>4, <1>5, <1>6 DEF Next

\* At all times, with a patient user and services that do not fail: the mark of
\* a user who left the onboarding, unless a kill took it, is stored or on its
\* way to a profile, a fetch is not older than that tap, and a Home that shows
\* another user waits for one.
THEOREM SettledInvariant == Patient /\ ~Failures => (Spec => []SettledInv)
<1> SUFFICES ASSUME Patient, ~Failures PROVE Spec => []SettledInv
  OBVIOUS
<1>1. Init => SettledInv
  BY SettledInit
<1>2. FormInv /\ FormInv' /\ ControlInv /\ DataInv /\ SettledInv /\ [Next]_vars => SettledInv'
  BY SettledNext
<1>3. Spec => []ControlInv
  BY ControlInvariant
<1>4. Spec => []DataInv
  BY DataInvariant
<1> QED
  BY <1>1, <1>2, <1>3, <1>4, FormInvariant, PTL DEF Spec

\* A user who left the onboarding with Get Started is not shown it again, over
\* new sign-ins and over restarts that come once the mark is in the persistent
\* queue: the flag is read through the writes that are queued
\* (HomeViewController.swift:147), behind the tasks that have yet to queue some.
\* A kill that comes before takes the mark, and its user leaves kept.
THEOREM OnboardingCorrect == Patient /\ ~Failures => (Spec => []OnboardingNotRepeated)
<1> SUFFICES ASSUME Patient, ~Failures PROVE Spec => []OnboardingNotRepeated
  OBVIOUS
<1>1. Spec => []SettledInv
  BY SettledInvariant
<1>2. Spec => []ControlInv
  BY ControlInvariant
<1>3. FormInv /\ ControlInv /\ SettledInv => OnboardingNotRepeated
  BY SettledInvMeaning
<1> QED
  BY <1>1, <1>2, <1>3, FormInvariant, PTL

\* logout leaves HomeViewController.user as it was; the next sign-in fetches, so
\* a Home at rest shows the user who is signed in.
THEOREM HomeCorrect == Patient /\ ~Failures => (Spec => []HomeShowsSignedInUser)
<1> SUFFICES ASSUME Patient, ~Failures PROVE Spec => []HomeShowsSignedInUser
  OBVIOUS
<1>1. Spec => []SettledInv
  BY SettledInvariant
<1>2. Spec => []ControlInv
  BY ControlInvariant
<1>3. FormInv /\ ControlInv /\ SettledInv => HomeShowsSignedInUser
  BY SettledInvMeaning
<1> QED
  BY <1>1, <1>2, <1>3, FormInvariant, PTL
=============================================================================
