------------------------------- MODULE CTTxQueue -------------------------------
(***************************************************************************)
(* The way of a request from the threads that send it to the socket, in    *)
(* the kqueue builds: the USER events of a txQueue are keyed by the query  *)
(* token of their cursor.                                                  *)
(*                                                                         *)
(* A sender reads the connection's queryCount, which becomes the cursor's  *)
(* query token, and CTCursorSendOnQueue triggers the event of that token   *)
(* before it counts the query.  A kernel queue has one event per token: a  *)
(* second trigger takes the place of a first one that still waits.  The tx *)
(* thread (CT_Dequeue_Encrypt_Send) takes an event, which is ONESHOT,      *)
(* deletes the event of the cursor's token once more, and sends.           *)
(*                                                                         *)
(* CTPipeline abstracts this to a sequence of cursors, which is right for  *)
(* one connection with one sender and a txQueue of its own (NothingLost).  *)
(***************************************************************************)
EXTENDS Integers, Sequences

CONSTANTS
  Conns,        \* connections
  Queues,       \* kernel queues for transmission, one tx thread each
  Senders,      \* threads of the application
  QueueOf,      \* connection -> its txQueue
  Users,        \* connection -> the threads that send on it
  MaxRequests   \* requests sent per connection (bounds the model)

ASSUME QueueOfAssumption == QueueOf \in [Conns -> Queues]
ASSUME UsersAssumption == Users \in [Conns -> SUBSET Senders]
ASSUME MaxRequestsAssumption == MaxRequests \in Nat

\* A cursor that was posted: the n-th on its connection.
Requests == [conn : Conns, n : Nat, token : Nat]

Events == [ident : Nat, req : Requests]

NoRequest == [conn |-> "none", n |-> 0, token |-> 0]

VARIABLES
  queryCount,  \* connection -> conn->queryCount
  pc,          \* sender -> its next step, "idle" between requests
  on,          \* sender -> the connection it sends on
  val,         \* sender -> the query token, then the count it has loaded
  posted,      \* connection -> the requests triggered on its txQueue, in order
  txQueue,     \* queue -> its triggered events, in the order of the trigger
  txpc,        \* queue -> next step of its tx thread
  tx,          \* queue -> the request its tx thread has dequeued
  sent         \* connection -> the requests written to its socket, in order

senderVars == <<queryCount, pc, on, val, posted>>
txVars     == <<txpc, tx, sent>>
vars       == <<senderVars, txQueue, txVars>>

Init ==
  /\ queryCount = [c \in Conns |-> 0]
  /\ pc = [s \in Senders |-> "idle"]
  /\ on \in [Senders -> Conns]
  /\ val = [s \in Senders |-> 0]
  /\ posted = [c \in Conns |-> <<>>]
  /\ txQueue = [q \in Queues |-> <<>>]
  /\ txpc = [q \in Queues |-> "wait"]
  /\ tx = [q \in Queues |-> NoRequest]
  /\ sent = [c \in Conns |-> <<>>]
-----------------------------------------------------------------------------
(***************************************************************************)
(* The kernel queue.                                                       *)
(***************************************************************************)

\* i is the place of the event with the given ident in queue kq.
IsAt(kq, ident, i) == i \in 1 .. Len(kq) /\ kq[i].ident = ident

Holds(kq, ident) == \E i \in 1 .. Len(kq) : IsAt(kq, ident, i)

At(kq, ident) == CHOOSE i \in 1 .. Len(kq) : IsAt(kq, ident, i)

\* EV_ADD with NOTE_TRIGGER: an event that exists keeps its place and is given
\* the new user data.
Trigger(kq, ident, r) ==
  IF Holds(kq, ident)
  THEN [kq EXCEPT ![At(kq, ident)] = [ident |-> ident, req |-> r]]
  ELSE Append(kq, [ident |-> ident, req |-> r])

\* EV_DELETE
Delete(kq, ident) ==
  IF Holds(kq, ident)
  THEN SubSeq(kq, 1, At(kq, ident) - 1) \o SubSeq(kq, At(kq, ident) + 1, Len(kq))
  ELSE kq
-----------------------------------------------------------------------------
(***************************************************************************)
(* A thread of the application.                                            *)
(***************************************************************************)

\* The query token of the next request is the count of the queries so far.
TakeToken(s) ==
  /\ pc[s] = "idle"
  /\ \E c \in Conns :
       /\ s \in Users[c]
       /\ Len(posted[c]) < MaxRequests
       /\ on' = [on EXCEPT ![s] = c]
       /\ val' = [val EXCEPT ![s] = queryCount[c]]
  /\ pc' = [pc EXCEPT ![s] = "post"]
  /\ UNCHANGED <<queryCount, posted, txQueue, txVars>>

\* CTCursorSendOnQueue triggers the event ...
Post(s) ==
  /\ pc[s] = "post"
  /\ LET c == on[s]
         r == [conn |-> c, n |-> Len(posted[c]) + 1, token |-> val[s]]
     IN /\ posted' = [posted EXCEPT ![c] = Append(@, r)]
        /\ txQueue' = [txQueue EXCEPT ![QueueOf[c]] = Trigger(@, val[s], r)]
  /\ pc' = [pc EXCEPT ![s] = "load"]
  /\ UNCHANGED <<queryCount, on, val, txVars>>

\* ... and counts the query: queryCount++ loads ...
LoadCount(s) ==
  /\ pc[s] = "load"
  /\ val' = [val EXCEPT ![s] = queryCount[on[s]]]
  /\ pc' = [pc EXCEPT ![s] = "store"]
  /\ UNCHANGED <<queryCount, on, posted, txQueue, txVars>>

\* Mutant: the query is not counted.
StoreCountKept(s) ==
  /\ pc[s] = "store"
  /\ queryCount' = [queryCount EXCEPT ![on[s]] = val[s]]
  /\ pc' = [pc EXCEPT ![s] = "idle"]
  /\ UNCHANGED <<on, val, posted, txQueue, txVars>>

\* Mutant: the query is counted twice.
StoreCountTwice(s) ==
  /\ pc[s] = "store"
  /\ queryCount' = [queryCount EXCEPT ![on[s]] = val[s] + 2]
  /\ pc' = [pc EXCEPT ![s] = "idle"]
  /\ UNCHANGED <<on, val, posted, txQueue, txVars>>

\* ... and stores.
StoreCount(s) ==
  /\ pc[s] = "store"
  /\ queryCount' = [queryCount EXCEPT ![on[s]] = val[s] + 1]
  /\ pc' = [pc EXCEPT ![s] = "idle"]
  /\ UNCHANGED <<on, val, posted, txQueue, txVars>>
-----------------------------------------------------------------------------
(***************************************************************************)
(* A tx thread, CT_Dequeue_Encrypt_Send.                                   *)
(***************************************************************************)

\* Mutant: all events are taken off the queue, and the first one is handled.
TxDequeueAll(q) ==
  /\ txpc[q] = "wait"
  /\ txQueue[q] # <<>>
  /\ tx' = [tx EXCEPT ![q] = Head(txQueue[q]).req]
  /\ txQueue' = [txQueue EXCEPT ![q] = <<>>]
  /\ txpc' = [txpc EXCEPT ![q] = "delete"]
  /\ UNCHANGED <<senderVars, sent>>

\* The first event is taken off the queue.
TxDequeue(q) ==
  /\ txpc[q] = "wait"
  /\ txQueue[q] # <<>>
  /\ tx' = [tx EXCEPT ![q] = Head(txQueue[q]).req]
  /\ txQueue' = [txQueue EXCEPT ![q] = Tail(@)]
  /\ txpc' = [txpc EXCEPT ![q] = "delete"]
  /\ UNCHANGED <<senderVars, sent>>

\* Mutant: the token deleted is the next one.
TxDeleteNext(q) ==
  /\ txpc[q] = "delete"
  /\ txQueue' = [txQueue EXCEPT ![QueueOf[tx[q].conn]] = Delete(@, tx[q].token + 1)]
  /\ txpc' = [txpc EXCEPT ![q] = "send"]
  /\ UNCHANGED <<senderVars, tx, sent>>

\* Mutant: the event is triggered again where it is to be deleted.
TxDeleteTriggers(q) ==
  /\ txpc[q] = "delete"
  /\ txQueue' = [txQueue EXCEPT ![QueueOf[tx[q].conn]] = Trigger(@, tx[q].token, tx[q])]
  /\ txpc' = [txpc EXCEPT ![q] = "send"]
  /\ UNCHANGED <<senderVars, tx, sent>>

\* The event of the cursor's query token is deleted from its connection's queue.
TxDelete(q) ==
  /\ txpc[q] = "delete"
  /\ txQueue' = [txQueue EXCEPT ![QueueOf[tx[q].conn]] = Delete(@, tx[q].token)]
  /\ txpc' = [txpc EXCEPT ![q] = "send"]
  /\ UNCHANGED <<senderVars, tx, sent>>

\* The request is written to the connection's socket.
TxSend(q) ==
  /\ txpc[q] = "send"
  /\ sent' = [sent EXCEPT ![tx[q].conn] = Append(@, tx[q])]
  /\ tx' = [tx EXCEPT ![q] = NoRequest]
  /\ txpc' = [txpc EXCEPT ![q] = "wait"]
  /\ UNCHANGED <<senderVars, txQueue>>
-----------------------------------------------------------------------------
Sender(s) == TakeToken(s) \/ Post(s) \/ LoadCount(s) \/ StoreCount(s)

TxThread(q) == TxDequeue(q) \/ TxDelete(q) \/ TxSend(q)

\* The application may stop sending.
Next == (\E s \in Senders : Sender(s)) \/ (\E q \in Queues : TxThread(q))

\* The tx threads run.
Fairness == \A q \in Queues : WF_vars(TxThread(q))

Spec == Init /\ [][Next]_vars

FairSpec == Spec /\ Fairness
-----------------------------------------------------------------------------
TypeOK ==
  /\ queryCount \in [Conns -> 0 .. MaxRequests]
  /\ pc \in [Senders -> {"idle", "post", "load", "store"}]
  /\ on \in [Senders -> Conns]
  /\ val \in [Senders -> 0 .. MaxRequests]
  /\ posted \in [Conns -> Seq(Requests)]
  /\ txQueue \in [Queues -> Seq(Events)]
  /\ txpc \in [Queues -> {"wait", "delete", "send"}]
  /\ tx \in [Queues -> Requests \cup {NoRequest}]
  /\ sent \in [Conns -> Seq(Requests)]

\* No two requests of a connection are sent with the same query token, although
\* the token is read from queryCount long before the library counts the query.
UniqueTokens ==
  \A c \in Conns : \A i, j \in 1 .. Len(posted[c]) :
    posted[c][i].token = posted[c][j].token => i = j

\* The requests of a connection are written to its socket in the order of their
\* triggers, each once.
SentInOrder ==
  \A c \in Conns : \A k \in 1 .. Len(sent[c]) : sent[c][k].conn = c /\ sent[c][k].n = k

\* Request r waits on a txQueue or is in the hands of a tx thread.
Pending(r) ==
  \E q \in Queues :
    \/ tx[q] = r
    \/ \E i \in 1 .. Len(txQueue[q]) : txQueue[q][i].req = r

\* No request is lost on the way: neither does a later trigger take its place,
\* nor does the tx thread's EV_DELETE, which comes after it dequeued its own
\* event, remove the event of another request.
NothingLost ==
  \A c \in Conns : \A n \in 1 .. Len(posted[c]) :
    n <= Len(sent[c]) \/ Pending(posted[c][n])

\* Every request that was triggered is written to its socket in the end.
EverySent ==
  \A c \in Conns : \A n \in 1 .. MaxRequests :
    Len(posted[c]) >= n ~> Len(sent[c]) >= n
==============================================================================
