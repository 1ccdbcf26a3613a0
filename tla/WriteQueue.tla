----------------------------- MODULE WriteQueue -----------------------------
(***************************************************************************)
(* What Firestore's setData and updateData promise to the app.  Each user  *)
(* has a persistent queue of writes.  The writes of the signed-in user are *)
(* answered one by one, oldest first: an acknowledged write becomes the    *)
(* user's document, a refused one is dropped.  The writes of a user who is *)
(* not signed in wait.  With a user who stays, every write is answered.    *)
(*                                                                         *)
(* This is the Firestore that EditProfile and Session assume;              *)
(* WritePipeline shows that the client keeps the promise.                  *)
(***************************************************************************)
EXTENDS Naturals, Sequences

CONSTANTS Users, Writes,
          NoWrite    \* the document before the first write

VARIABLES user,      \* the user whose writes are sent
          queue,     \* queue[u]: the writes of u that have no answer yet
          document   \* document[u]: the last acknowledged write of u

vars == <<user, queue, document>>

TypeOK == /\ user \in Users
          /\ queue \in [Users -> Seq(Writes)]
          /\ document \in [Users -> Writes \cup {NoWrite}]

Init == /\ user \in Users
        /\ queue = [u \in Users |-> <<>>]
        /\ document = [u \in Users |-> NoWrite]

Enqueue(w) ==
    /\ queue' = [queue EXCEPT ![user] = Append(@, w)]
    /\ UNCHANGED <<user, document>>

Acknowledge ==
    /\ queue[user] # <<>>
    /\ document' = [document EXCEPT ![user] = Head(queue[user])]
    /\ queue' = [queue EXCEPT ![user] = Tail(@)]
    /\ UNCHANGED user

Reject ==
    /\ queue[user] # <<>>
    /\ queue' = [queue EXCEPT ![user] = Tail(@)]
    /\ UNCHANGED <<user, document>>

Switch(u) ==
    /\ user' = u
    /\ UNCHANGED <<queue, document>>

Next == \/ \E w \in Writes : Enqueue(w)
        \/ Acknowledge
        \/ Reject
        \/ \E u \in Users : Switch(u)

Spec == Init /\ [][Next]_vars

FairSpec == Spec /\ WF_vars(Acknowledge \/ Reject)
=============================================================================
