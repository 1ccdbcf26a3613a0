------------------------------- MODULE Stream -------------------------------
(***************************************************************************)
(* remote/stream.cc of the Firestore client: the state machine that the    *)
(* watch stream and the write stream share.  A stream asks for credentials *)
(* while it is Starting, is Open from the moment the RPC is up, goes to    *)
(* Error when the RPC fails and waits in Backoff before it starts again.   *)
(* An idle stream is stopped by a timer.  close_count invalidates the      *)
(* answers to requests for credentials made before the last close.         *)
(*                                                                         *)
(* The methods are operators on a record; the modules that use a stream    *)
(* take care of its callbacks.  Healthy is a kind of Open that matters     *)
(* only to the refresh of tokens, and delays are not measured.             *)
(***************************************************************************)
EXTENDS Naturals

States == {"Initial", "Starting", "Open", "Backoff", "Error"}

Streams == [state : States, idle : BOOLEAN, close_count : Nat]

NewStream == [state |-> "Initial", idle |-> FALSE, close_count |-> 0]

IsOpen(s) == s.state = "Open"

IsStarted(s) == s.state \in {"Starting", "Open", "Backoff"}

\* Start after an error waits for the backoff delay first.
Start(s) == [s EXCEPT !.state = IF @ = "Error" THEN "Backoff" ELSE "Starting"]

\* MUTANT of BackoffElapsed: the timer forgets to start the stream again.
BackoffElapsedOnly(s) == [s EXCEPT !.state = "Initial"]

\* The callback of the backoff timer: the state is Initial, and Start.
BackoffElapsed(s) == Start([s EXCEPT !.state = "Initial"])

OnStreamStart(s) == [s EXCEPT !.state = "Open"]

\* Asserts ~ IsStarted(s).
InhibitBackoff(s) == [s EXCEPT !.state = "Initial"]

MarkIdle(s) == [s EXCEPT !.idle = @ \/ IsOpen(s)]

\* MUTANT of CancelIdleCheck: a stream in use can still be stopped as idle.
KeepIdleCheck(s) == s

CancelIdleCheck(s) == [s EXCEPT !.idle = FALSE]

\* What a graceful and an erroneous Close have in common.
Close(s, state) == [state |-> state, idle |-> FALSE, close_count |-> s.close_count + 1]

\* Close with status OK does nothing to a stream that is not started.
Stop(s) == IF IsStarted(s) THEN Close(s, "Initial") ELSE s

\* Close with an error; asserts IsStarted(s).
OnStreamFinish(s) == Close(s, "Error")
=============================================================================
