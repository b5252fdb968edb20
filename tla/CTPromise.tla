------------------------------ MODULE CTPromise ------------------------------
(***************************************************************************)
(* What a CoreTransport connection promises the application that sends     *)
(* cursors on it: a cursor is the memory of one request and of the         *)
(* response that belongs to it, its response callback is issued once, and  *)
(* the callbacks of one connection come in the order of the requests.      *)
(*                                                                         *)
(* The threads, queues, pipes, buffers and packets in between do not       *)
(* appear: CTPipeline does it with them, and implements this module.       *)
(***************************************************************************)
EXTENDS Naturals, Sequences

CONSTANT NumCursors      \* cursors the application sends over the connection

VARIABLES
  asked,                 \* number of cursors sent so far
  answered               \* the callbacks issued: <<cursor, origin of its data>>

vars == <<asked, answered>>

Init ==
  /\ asked = 0
  /\ answered = <<>>

\* The application sends its next cursor.
Ask ==
  /\ asked < NumCursors
  /\ asked' = asked + 1
  /\ UNCHANGED answered

\* The oldest unanswered cursor is called back with its own response.
Answer ==
  /\ Len(answered) < asked
  /\ answered' = Append(answered, <<Len(answered) + 1, Len(answered) + 1>>)
  /\ UNCHANGED asked

Next == Ask \/ Answer

\* The application may stop asking; what was asked must be answered.
Spec == Init /\ [][Next]_vars /\ WF_vars(Answer)
==============================================================================
