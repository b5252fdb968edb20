---------------------------- MODULE CTTxQueueProofs ----------------------------
(***************************************************************************)
(* Proofs about CTTxQueue: when every connection has a txQueue of its own  *)
(* and is used by one thread, then for any number of connections, threads  *)
(* and requests all query tokens of a connection differ, and no request is *)
(* lost or overtaken between its trigger and its socket.                   *)
(***************************************************************************)
EXTENDS CTTxQueue, TLAPS

\* What the library needs of the application and does not enforce.
Exclusive ==
  /\ \A c, d \in Conns : QueueOf[c] = QueueOf[d] => c = d
  /\ \A c \in Conns : \A s, t \in Users[c] : s = t

\* A thread on its way through CTCursorSendOnQueue; while it is before or after
\* the increment, what it has read of queryCount is still the count.
SenderInv ==
  \A s \in Senders :
    /\ pc[s] # "idle" => s \in Users[on[s]]
    /\ pc[s] \in {"post", "store"} => val[s] = queryCount[on[s]]
    /\ pc[s] = "post" => Len(posted[on[s]]) < MaxRequests

\* Some thread has triggered a request on c and not counted it yet.
Uncounted(c) == \E s \in Senders : on[s] = c /\ pc[s] \in {"load", "store"}

CountInv ==
  \A c \in Conns :
    /\ Len(posted[c]) <= MaxRequests
    /\ Uncounted(c) => Len(posted[c]) = queryCount[c] + 1
    /\ ~Uncounted(c) => Len(posted[c]) = queryCount[c]

PostedInv ==
  \A c \in Conns : \A i \in 1 .. Len(posted[c]) :
    posted[c][i] = [conn |-> c, n |-> i, token |-> i - 1]

\* The socket, the tx thread and the txQueue of connection c hold what was posted
\* on it, in this order; t requests have been taken off txQueue.
InOrder(c, q, t) ==
  /\ txpc[q] = "wait" => t = Len(sent[c])
  /\ txpc[q] # "wait" => t = Len(sent[c]) + 1 /\ tx[q] = posted[c][t]
  /\ t + Len(txQueue[q]) = Len(posted[c])
  /\ \A k \in 1 .. Len(sent[c]) : sent[c][k] = posted[c][k]
  /\ \A k \in 1 .. Len(txQueue[q]) :
       txQueue[q][k] = [ident |-> t + k - 1, req |-> posted[c][t + k]]

QueueInv == \A c \in Conns : \E t \in Nat : InOrder(c, QueueOf[c], t)

\* A queue no connection uses is empty.
UnusedInv ==
  \A q \in Queues : (\A c \in Conns : QueueOf[c] # q) => txQueue[q] = <<>> /\ txpc[q] = "wait"

\* The inductive invariant: NothingLost and UniqueTokens are not inductive, as
\* they do not say which tokens the waiting events and the senders have.
IInv == TypeOK /\ SenderInv /\ CountInv /\ PostedInv /\ QueueInv /\ UnusedInv
-----------------------------------------------------------------------------
\* The lengths the invariant speaks of are natural numbers.
LEMMA Lengths ==
  ASSUME TypeOK, NEW c \in Conns
  PROVE  /\ QueueOf[c] \in Queues
         /\ Len(posted[c]) \in Nat /\ Len(sent[c]) \in Nat
         /\ Len(txQueue[QueueOf[c]]) \in Nat
<1>1. QueueOf[c] \in Queues
  BY QueueOfAssumption
<1> QED
  BY <1>1 DEF TypeOK

\* Arithmetic of the lengths.
LEMMA SumBounds ==
  ASSUME NEW a \in Nat, NEW b \in Nat, NEW l \in Nat, a + l = b
  PROVE  /\ a <= b
         /\ l >= 1 => a + 1 <= b
OBVIOUS

\* The invariant holds in the initial states.
LEMMA InitInv == Init => IInv
<1> SUFFICES ASSUME Init PROVE IInv
  OBVIOUS
<1> USE QueueOfAssumption, UsersAssumption, MaxRequestsAssumption
<1>1. TypeOK
  BY DEF Init, TypeOK
<1>2. SenderInv /\ CountInv /\ UnusedInv
  BY DEF Init, SenderInv, CountInv, UnusedInv, Uncounted
<1>3. \A c \in Conns : Len(posted[c]) = 0 /\ Len(sent[c]) = 0
  BY DEF Init
<1>4. \A q \in Queues : txQueue[q] = <<>> /\ txpc[q] = "wait"
  BY DEF Init
<1>5. PostedInv
  BY <1>3 DEF PostedInv
<1>6. QueueInv
  <2>1. SUFFICES ASSUME NEW c \in Conns PROVE InOrder(c, QueueOf[c], 0)
    BY DEF QueueInv
  <2>2. QueueOf[c] \in Queues /\ Len(sent[c]) = 0 /\ Len(posted[c]) = 0
    BY <1>3
  <2>3. txQueue[QueueOf[c]] = <<>> /\ txpc[QueueOf[c]] = "wait"
    BY <1>4, <2>2
  <2>4. Len(txQueue[QueueOf[c]]) = 0
    BY <2>3
  <2> QED
    BY <2>2, <2>3, <2>4 DEF InOrder
<1> QED
  BY <1>1, <1>2, <1>5, <1>6 DEF IInv

\* What the sending threads and what the tx threads do not disturb.
LEMMA QueueSideKept ==
  ASSUME PostedInv, QueueInv, UnusedInv, UNCHANGED <<posted, txQueue, txpc, tx, sent>>
  PROVE  PostedInv' /\ QueueInv' /\ UnusedInv'
<1>1. PostedInv'
  BY DEF PostedInv
<1>2. QueueInv'
  BY DEF QueueInv, InOrder
<1>3. UnusedInv'
  BY DEF UnusedInv
<1> QED
  BY <1>1, <1>2, <1>3

LEMMA SenderSideKept ==
  ASSUME SenderInv, CountInv, PostedInv, UNCHANGED senderVars
  PROVE  SenderInv' /\ CountInv' /\ PostedInv'
<1> USE DEF senderVars
<1>1. SenderInv'
  BY DEF SenderInv
<1>2. CountInv'
  BY DEF CountInv, Uncounted
<1>3. PostedInv'
  BY DEF PostedInv
<1> QED
  BY <1>1, <1>2, <1>3

\* A stutter keeps the invariant.
LEMMA StutterInv == IInv /\ UNCHANGED vars => IInv'
<1> SUFFICES ASSUME IInv, UNCHANGED vars PROVE IInv'
  OBVIOUS
<1>1. TypeOK'
  BY DEF IInv, TypeOK, vars, senderVars, txVars
<1>2. UNCHANGED senderVars /\ UNCHANGED <<posted, txQueue, txpc, tx, sent>>
  BY DEF vars, senderVars, txVars
<1> QED
  BY <1>1, <1>2, QueueSideKept, SenderSideKept DEF IInv

\* Reading the query token: no one else can change queryCount before it is used.
LEMMA TakeTokenInv ==
  ASSUME Exclusive, IInv, NEW s \in Senders, TakeToken(s)
  PROVE  IInv'
<1> USE QueueOfAssumption, UsersAssumption, MaxRequestsAssumption DEF IInv, TypeOK
<1>1. PICK c \in Conns :
        /\ s \in Users[c]
        /\ Len(posted[c]) < MaxRequests
        /\ on' = [on EXCEPT ![s] = c]
        /\ val' = [val EXCEPT ![s] = queryCount[c]]
  BY DEF TakeToken
<1>2. TypeOK'
  BY <1>1 DEF TakeToken, txVars
<1>3. SenderInv'
  BY <1>1 DEF TakeToken, SenderInv, txVars
<1>4. CountInv'
  <2>1. \A d \in Conns : Uncounted(d)' <=> Uncounted(d)
    BY <1>1 DEF TakeToken, Uncounted
  <2> QED
    BY <2>1 DEF TakeToken, CountInv
<1>5. PostedInv' /\ QueueInv' /\ UnusedInv'
  BY QueueSideKept DEF TakeToken, txVars
<1> QED
  BY <1>2, <1>3, <1>4, <1>5

\* The trigger: the token is the number of the requests posted so far, which no
\* waiting event has, so a new event goes to the end of the queue.
LEMMA PostInv ==
  ASSUME Exclusive, IInv, NEW s \in Senders, Post(s)
  PROVE  IInv'
<1> USE QueueOfAssumption, UsersAssumption, MaxRequestsAssumption
<1> TypeOK /\ SenderInv /\ CountInv /\ PostedInv /\ QueueInv /\ UnusedInv
  BY DEF IInv
<1>1. PICK c \in Conns : c = on[s] /\ s \in Users[c] /\ pc[s] = "post" /\ val[s] = queryCount[c]
  BY DEF TypeOK, Post, SenderInv
<1>2. PICK q \in Queues : q = QueueOf[c]
  OBVIOUS
<1>3. ~Uncounted(c)
  BY <1>1 DEF Exclusive, Uncounted, SenderInv, TypeOK
<1>4. val[s] = Len(posted[c]) /\ Len(posted[c]) < MaxRequests
  BY <1>1, <1>3 DEF SenderInv, CountInv
<1>5. PICK r : r = [conn |-> c, n |-> Len(posted[c]) + 1, token |-> Len(posted[c])]
  OBVIOUS
<1>6. r \in Requests
  BY <1>5, Lengths DEF Requests
<1>7. PICK t \in Nat : InOrder(c, q, t)
  BY <1>2 DEF QueueInv
<1>8. /\ Len(posted[c]) \in Nat /\ Len(sent[c]) \in Nat
      /\ Len(txQueue[q]) \in Nat /\ t + Len(txQueue[q]) = Len(posted[c])
  BY <1>2, <1>7, Lengths DEF InOrder
<1>9. ~Holds(txQueue[q], val[s])
  <2>1. SUFFICES ASSUME NEW i \in 1 .. Len(txQueue[q]) PROVE txQueue[q][i].ident # val[s]
    BY DEF Holds, IsAt
  <2>2. txQueue[q][i] = [ident |-> t + i - 1, req |-> posted[c][t + i]]
    BY <1>7 DEF InOrder
  <2>3. t + i - 1 < Len(posted[c])
    BY <1>8
  <2> QED
    BY <1>4, <1>8, <2>2, <2>3
<1>10. [ident |-> val[s], req |-> r] \in Events
  BY <1>4, <1>6, <1>8 DEF Events
<1>11. /\ posted' = [posted EXCEPT ![c] = Append(@, r)]
       /\ txQueue' = [txQueue EXCEPT ![q] = Append(@, [ident |-> val[s], req |-> r])]
       /\ pc' = [pc EXCEPT ![s] = "load"]
       /\ UNCHANGED <<queryCount, on, val, txpc, tx, sent>>
  BY <1>1, <1>2, <1>4, <1>5, <1>9 DEF Post, Trigger, txVars, TypeOK
<1>12. /\ posted'[c] = Append(posted[c], r)
       /\ \A d \in Conns : d # c => posted'[d] = posted[d]
       /\ txQueue'[q] = Append(txQueue[q], [ident |-> val[s], req |-> r])
       /\ \A p \in Queues : p # q => txQueue'[p] = txQueue[p]
  BY <1>11 DEF TypeOK
<1>13. /\ posted[c] \in Seq(Requests) /\ txQueue[q] \in Seq(Events)
       /\ posted \in [Conns -> Seq(Requests)] /\ txQueue \in [Queues -> Seq(Events)]
  BY DEF TypeOK
<1>14. /\ Len(posted'[c]) = Len(posted[c]) + 1
       /\ posted'[c][Len(posted[c]) + 1] = r
       /\ \A k \in 1 .. Len(posted[c]) : posted'[c][k] = posted[c][k]
  BY <1>6, <1>12, <1>13
<1>15. /\ Len(txQueue'[q]) = Len(txQueue[q]) + 1
       /\ txQueue'[q][Len(txQueue[q]) + 1] = [ident |-> val[s], req |-> r]
       /\ \A k \in 1 .. Len(txQueue[q]) : txQueue'[q][k] = txQueue[q][k]
  BY <1>10, <1>12, <1>13
<1>16. TypeOK'
  <2>1. posted' \in [Conns -> Seq(Requests)]
    BY <1>6, <1>11, <1>13
  <2>2. txQueue' \in [Queues -> Seq(Events)]
    BY <1>10, <1>11, <1>13
  <2> QED
    BY <1>11, <2>1, <2>2 DEF TypeOK
<1>17. SenderInv'
  <2>1. \A u \in Senders : u # s => pc[u] # "post" \/ on[u] # c
    BY <1>1 DEF Exclusive, SenderInv
  <2> QED
    BY <1>1, <1>11, <1>12, <2>1 DEF SenderInv, TypeOK
<1>18. CountInv'
  <2>1. Uncounted(c)'
    BY <1>1, <1>11 DEF Uncounted, TypeOK
  <2>2. \A d \in Conns : d # c => (Uncounted(d)' <=> Uncounted(d))
    BY <1>1, <1>11 DEF Uncounted, TypeOK
  <2>3. Len(posted'[c]) <= MaxRequests /\ Len(posted'[c]) = queryCount'[c] + 1
    <3>1. queryCount'[c] = Len(posted[c])
      BY <1>1, <1>4, <1>11
    <3>2. Len(posted[c]) + 1 <= MaxRequests
      BY <1>4, <1>8
    <3> QED
      BY <1>14, <3>1, <3>2
  <2>4. ASSUME NEW d \in Conns, d # c
        PROVE  /\ Len(posted'[d]) <= MaxRequests
               /\ Uncounted(d)' => Len(posted'[d]) = queryCount'[d] + 1
               /\ ~Uncounted(d)' => Len(posted'[d]) = queryCount'[d]
    BY <1>11, <1>12, <2>2, <2>4 DEF CountInv
  <2> QED
    BY <2>1, <2>3, <2>4 DEF CountInv
<1>19. PostedInv'
  <2>1. \A i \in 1 .. Len(posted'[c]) :
          posted'[c][i] = [conn |-> c, n |-> i, token |-> i - 1]
    <3>1. SUFFICES ASSUME NEW i \in 1 .. Len(posted'[c])
          PROVE  posted'[c][i] = [conn |-> c, n |-> i, token |-> i - 1]
      OBVIOUS
    <3>2. CASE i \in 1 .. Len(posted[c])
      BY <1>14, <3>2 DEF PostedInv
    <3>3. CASE i = Len(posted[c]) + 1
      <4>1. i - 1 = Len(posted[c])
        BY <1>8, <3>3
      <4> QED
        BY <1>5, <1>14, <3>3, <4>1
    <3> QED
      BY <1>8, <1>14, <3>2, <3>3
  <2> QED
    BY <1>12, <2>1 DEF PostedInv
<1>20. QueueInv'
  <2>1. ASSUME NEW d \in Conns, d # c
        PROVE  \E u \in Nat : InOrder(d, QueueOf[d], u)'
    <3>1. QueueOf[d] # q /\ QueueOf[d] \in Queues
      BY <1>2, <2>1 DEF Exclusive
    <3>2. posted'[d] = posted[d] /\ txQueue'[QueueOf[d]] = txQueue[QueueOf[d]]
      BY <1>12, <2>1, <3>1
    <3>3. PICK u \in Nat : InOrder(d, QueueOf[d], u)
      BY DEF QueueInv
    <3>4. UNCHANGED <<txpc, tx, sent>>
      BY <1>11
    <3>5. InOrder(d, QueueOf[d], u)'
      BY <3>2, <3>3, <3>4 DEF InOrder
    <3> QED
      BY <3>5
  <2>2. InOrder(c, q, t)'
    <3>1. Len(sent[c]) <= t /\ t <= Len(posted[c])
      BY <1>7, <1>8 DEF InOrder
    <3>2. t + Len(txQueue'[q]) = Len(posted'[c])
      <4>1. Len(posted'[c]) = Len(posted[c]) + 1
        BY <1>14
      <4>2. Len(txQueue'[q]) = Len(txQueue[q]) + 1
        BY <1>15
      <4>3. t + Len(txQueue[q]) = Len(posted[c]) /\ Len(txQueue[q]) \in Nat
        BY <1>8
      <4> QED
        BY <4>1, <4>2, <4>3
    <3>3. /\ txpc'[q] = "wait" => t = Len(sent'[c])
          /\ txpc'[q] # "wait" => t = Len(sent'[c]) + 1
      BY <1>7, <1>11 DEF InOrder
    <3>4. txpc'[q] # "wait" => tx'[q] = posted'[c][t]
      BY <1>7, <1>8, <1>11, <1>14, <3>1 DEF InOrder
    <3>5. \A k \in 1 .. Len(sent'[c]) : sent'[c][k] = posted'[c][k]
      BY <1>7, <1>8, <1>11, <1>14, <3>1 DEF InOrder
    <3>6. ASSUME NEW k \in 1 .. Len(txQueue'[q])
          PROVE  txQueue'[q][k] = [ident |-> t + k - 1, req |-> posted'[c][t + k]]
      <4>1. CASE k \in 1 .. Len(txQueue[q])
        <5>1. t + k \in 1 .. Len(posted[c])
          BY <1>8, <4>1
        <5> QED
          BY <1>7, <1>14, <1>15, <4>1, <5>1 DEF InOrder
      <4>2. CASE k = Len(txQueue[q]) + 1
        <5>1. t + k = Len(posted[c]) + 1 /\ t + k - 1 = Len(posted[c])
          BY <1>8, <4>2
        <5> QED
          BY <1>4, <1>14, <1>15, <4>2, <5>1
      <4> QED
        BY <1>8, <1>15, <4>1, <4>2
    <3> QED
      BY <3>2, <3>3, <3>4, <3>5, <3>6 DEF InOrder
  <2> QED
    BY <1>2, <2>1, <2>2 DEF QueueInv
<1>21. UnusedInv'
  BY <1>2, <1>11, <1>12 DEF UnusedInv
<1> QED
  BY <1>16, <1>17, <1>18, <1>19, <1>20, <1>21 DEF IInv

\* queryCount++, first half.
LEMMA LoadCountInv ==
  ASSUME Exclusive, IInv, NEW s \in Senders, LoadCount(s)
  PROVE  IInv'
<1> USE QueueOfAssumption, UsersAssumption, MaxRequestsAssumption DEF IInv, TypeOK
<1>1. TypeOK'
  BY DEF LoadCount, txVars
<1>2. SenderInv'
  BY DEF LoadCount, SenderInv
<1>3. CountInv'
  <2>1. \A d \in Conns : Uncounted(d)' <=> Uncounted(d)
    BY DEF LoadCount, Uncounted
  <2> QED
    BY <2>1 DEF LoadCount, CountInv
<1>4. PostedInv' /\ QueueInv' /\ UnusedInv'
  BY QueueSideKept DEF LoadCount, txVars
<1> QED
  BY <1>1, <1>2, <1>3, <1>4

\* queryCount++, second half: the value loaded is still the count.
LEMMA StoreCountInv ==
  ASSUME Exclusive, IInv, NEW s \in Senders, StoreCount(s)
  PROVE  IInv'
<1> USE QueueOfAssumption, UsersAssumption, MaxRequestsAssumption DEF IInv, TypeOK
<1> DEFINE c == on[s]
<1>1. c \in Conns /\ s \in Users[c] /\ pc[s] = "store" /\ val[s] = queryCount[c]
  BY DEF StoreCount, SenderInv
<1>2. Uncounted(c) /\ Len(posted[c]) = queryCount[c] + 1 /\ Len(posted[c]) <= MaxRequests
  BY <1>1 DEF Uncounted, CountInv
<1>3. TypeOK'
  BY <1>1, <1>2 DEF StoreCount, txVars
<1>0. \A t \in Senders : t # s => pc[t] = "idle" \/ on[t] # c
  BY <1>1 DEF Exclusive, SenderInv
<1>4. SenderInv'
  BY <1>1, <1>0 DEF StoreCount, SenderInv
<1>5. CountInv'
  <2>1. ~Uncounted(c)'
    <3>1. pc' = [pc EXCEPT ![s] = "idle"] /\ on' = on
      BY DEF StoreCount
    <3>2. \A t \in Senders : on'[t] = c => pc'[t] = "idle"
      BY <1>0, <3>1
    <3> QED
      BY <3>1, <3>2 DEF Uncounted
  <2>2. \A d \in Conns : d # c => (Uncounted(d)' <=> Uncounted(d))
    BY <1>1 DEF StoreCount, Uncounted
  <2> QED
    BY <1>1, <1>2, <2>1, <2>2 DEF StoreCount, CountInv
<1>6. PostedInv' /\ QueueInv' /\ UnusedInv'
  BY QueueSideKept DEF StoreCount, txVars
<1> QED
  BY <1>3, <1>4, <1>5, <1>6

\* A tx thread that is not waiting, or has something to take, serves a connection.
LEMMA Served ==
  ASSUME IInv, NEW q \in Queues, txpc[q] # "wait" \/ txQueue[q] # <<>>
  PROVE  \E c \in Conns : QueueOf[c] = q
BY DEF IInv, UnusedInv

\* The invariant of a queue is not disturbed by the tx thread of another one.
LEMMA OthersKept ==
  ASSUME Exclusive, QueueInv, NEW c \in Conns,
         \A p \in Queues : p # QueueOf[c] =>
           txQueue'[p] = txQueue[p] /\ txpc'[p] = txpc[p] /\ tx'[p] = tx[p],
         \A d \in Conns : d # c => sent'[d] = sent[d],
         UNCHANGED posted,
         NEW t \in Nat, InOrder(c, QueueOf[c], t)'
  PROVE  QueueInv'
<1>1. ASSUME NEW d \in Conns, d # c
      PROVE  \E u \in Nat : InOrder(d, QueueOf[d], u)'
  <2>1. QueueOf[d] # QueueOf[c] /\ QueueOf[d] \in Queues
    BY <1>1, QueueOfAssumption DEF Exclusive
  <2>2. PICK u \in Nat : InOrder(d, QueueOf[d], u)
    BY DEF QueueInv
  <2>3. InOrder(d, QueueOf[d], u)'
    BY <1>1, <2>1, <2>2 DEF InOrder
  <2> QED
    BY <2>3
<1> QED
  BY <1>1 DEF QueueInv

\* The first event of the queue is the oldest request that is not sent.
LEMMA TxDequeueInv ==
  ASSUME Exclusive, IInv, NEW q \in Queues, TxDequeue(q)
  PROVE  IInv'
<1> USE QueueOfAssumption
<1> TypeOK /\ SenderInv /\ CountInv /\ PostedInv /\ QueueInv /\ UnusedInv
  BY DEF IInv
<1>1. txpc[q] = "wait" /\ txQueue[q] # <<>>
  BY DEF TxDequeue
<1>2. PICK c \in Conns : QueueOf[c] = q
  BY <1>1, Served
<1>3. PICK t \in Nat : InOrder(c, q, t)
  BY <1>2 DEF QueueInv
<1>4. /\ Len(posted[c]) \in Nat /\ Len(sent[c]) \in Nat /\ Len(txQueue[q]) \in Nat
      /\ t + Len(txQueue[q]) = Len(posted[c]) /\ t = Len(sent[c])
  BY <1>1, <1>2, <1>3, Lengths DEF InOrder
<1>5. txQueue[q] \in Seq(Events) /\ 1 \in 1 .. Len(txQueue[q])
  BY <1>1, <1>4 DEF TypeOK
<1>6. Head(txQueue[q]) = [ident |-> t, req |-> posted[c][t + 1]]
  BY <1>3, <1>5 DEF InOrder
<1>7. t + 1 \in 1 .. Len(posted[c])
  <2>1. Len(txQueue[q]) >= 1
    BY <1>4, <1>5
  <2>2. t + 1 <= Len(posted[c])
    BY <1>4, <2>1, SumBounds
  <2> QED
    BY <1>4, <2>2
<1>8. posted[c][t + 1] \in Requests
  BY <1>7 DEF TypeOK
<1>9. /\ tx' = [tx EXCEPT ![q] = posted[c][t + 1]]
      /\ txQueue' = [txQueue EXCEPT ![q] = Tail(@)]
      /\ txpc' = [txpc EXCEPT ![q] = "delete"]
      /\ UNCHANGED senderVars /\ UNCHANGED sent
  <2>1. Head(txQueue[q]).req = posted[c][t + 1]
    BY <1>6
  <2> QED
    BY <2>1 DEF TxDequeue
<1>10. TypeOK'
  <2>1. Tail(txQueue[q]) \in Seq(Events)
    BY <1>5
  <2>2. txQueue' \in [Queues -> Seq(Events)]
    BY <1>9, <2>1 DEF TypeOK
  <2> QED
    BY <1>8, <1>9, <2>2 DEF TypeOK, senderVars
<1>11. /\ txQueue'[q] = Tail(txQueue[q]) /\ txpc'[q] = "delete" /\ tx'[q] = posted[c][t + 1]
       /\ \A p \in Queues : p # q =>
            txQueue'[p] = txQueue[p] /\ txpc'[p] = txpc[p] /\ tx'[p] = tx[p]
  BY <1>9 DEF TypeOK
<1>12. /\ Len(txQueue'[q]) = Len(txQueue[q]) - 1
       /\ \A k \in 1 .. Len(txQueue'[q]) : txQueue'[q][k] = txQueue[q][k + 1]
  BY <1>5, <1>11
<1>13. UNCHANGED posted
  BY <1>9 DEF senderVars
<1>14. InOrder(c, q, t + 1)'
  <2>1. (t + 1) + Len(txQueue'[q]) = Len(posted'[c])
    <3>1. Len(posted'[c]) = Len(posted[c])
      BY <1>13
    <3>2. Len(txQueue'[q]) = Len(txQueue[q]) - 1
      BY <1>12
    <3>3. (t + 1) + (Len(txQueue[q]) - 1) = Len(posted[c])
      <4>1. PICK l \in Nat : l = Len(txQueue[q])
        BY <1>4
      <4>2. t + l = Len(posted[c])
        BY <1>4, <4>1
      <4>3. (t + 1) + (l - 1) = t + l
        OBVIOUS
      <4> QED
        BY <4>1, <4>2, <4>3
    <3> QED
      BY <3>1, <3>2, <3>3
  <2>2. \A k \in 1 .. Len(sent'[c]) : sent'[c][k] = posted'[c][k]
    BY <1>3, <1>9, <1>13 DEF InOrder
  <2>3. ASSUME NEW k \in 1 .. Len(txQueue'[q])
        PROVE  txQueue'[q][k] = [ident |-> (t + 1) + k - 1, req |-> posted'[c][(t + 1) + k]]
    <3>1. k + 1 \in 1 .. Len(txQueue[q])
      BY <1>4, <1>12
    <3>2. txQueue[q][k + 1] = [ident |-> t + (k + 1) - 1, req |-> posted[c][t + (k + 1)]]
      BY <1>3, <3>1 DEF InOrder
    <3>3. t + (k + 1) - 1 = (t + 1) + k - 1 /\ t + (k + 1) = (t + 1) + k
      OBVIOUS
    <3> QED
      BY <1>12, <1>13, <3>2, <3>3
  <2>4. t + 1 = Len(sent'[c]) + 1 /\ tx'[q] = posted'[c][t + 1]
    BY <1>4, <1>9, <1>11, <1>13
  <2> QED
    BY <1>11, <2>1, <2>2, <2>3, <2>4 DEF InOrder
<1>15. QueueInv'
  BY <1>2, <1>9, <1>11, <1>13, <1>14, OthersKept
<1>16. UnusedInv'
  BY <1>2, <1>11 DEF UnusedInv
<1> QED
  BY <1>9, <1>10, <1>15, <1>16, SenderSideKept DEF IInv

\* The token deleted is lower than that of every event that waits.
LEMMA TxDeleteInv ==
  ASSUME Exclusive, IInv, NEW q \in Queues, TxDelete(q)
  PROVE  IInv'
<1> USE QueueOfAssumption
<1> TypeOK /\ SenderInv /\ CountInv /\ PostedInv /\ QueueInv /\ UnusedInv
  BY DEF IInv
<1>1. txpc[q] = "delete"
  BY DEF TxDelete
<1>2. PICK c \in Conns : QueueOf[c] = q
  BY <1>1, Served
<1>3. PICK t \in Nat : InOrder(c, q, t)
  BY <1>2 DEF QueueInv
<1>4. /\ Len(posted[c]) \in Nat /\ Len(sent[c]) \in Nat /\ Len(txQueue[q]) \in Nat
      /\ t + Len(txQueue[q]) = Len(posted[c]) /\ t = Len(sent[c]) + 1
  BY <1>1, <1>2, <1>3, Lengths DEF InOrder
<1>5. tx[q].conn = c /\ tx[q].token = t - 1
  <2>1. t >= 1 /\ t <= Len(posted[c])
    <3>1. t <= Len(posted[c])
      BY <1>4, SumBounds
    <3>2. t # 0
      BY <1>4
    <3> QED
      BY <3>1, <3>2
  <2>2. posted[c][t] = [conn |-> c, n |-> t, token |-> t - 1]
    BY <1>4, <2>1 DEF PostedInv
  <2>3. tx[q] = posted[c][t]
    BY <1>1, <1>3 DEF InOrder
  <2> QED
    BY <2>2, <2>3
<1>6. ~Holds(txQueue[q], tx[q].token)
  <2>1. SUFFICES ASSUME NEW i \in 1 .. Len(txQueue[q])
        PROVE  txQueue[q][i].ident # tx[q].token
    BY DEF Holds, IsAt
  <2>2. txQueue[q][i] = [ident |-> t + i - 1, req |-> posted[c][t + i]]
    BY <1>3 DEF InOrder
  <2>3. t + i - 1 # t - 1
    BY <1>4
  <2> QED
    BY <1>5, <2>2, <2>3
<1>7. /\ txQueue' = txQueue
      /\ txpc' = [txpc EXCEPT ![q] = "send"]
      /\ UNCHANGED senderVars /\ UNCHANGED <<tx, sent>>
  BY <1>2, <1>5, <1>6 DEF TxDelete, Delete, TypeOK
<1>8. TypeOK'
  BY <1>7 DEF TypeOK, senderVars
<1>9. txpc'[q] = "send" /\ \A p \in Queues : p # q => txpc'[p] = txpc[p]
  BY <1>7 DEF TypeOK
<1>10. UNCHANGED posted
  BY <1>7 DEF senderVars
<1>11. InOrder(c, q, t)'
  BY <1>1, <1>3, <1>7, <1>9, <1>10 DEF InOrder
<1>12. QueueInv'
  BY <1>2, <1>7, <1>9, <1>10, <1>11, OthersKept
<1>13. UnusedInv'
  BY <1>2, <1>7, <1>9 DEF UnusedInv
<1> QED
  BY <1>7, <1>8, <1>12, <1>13, SenderSideKept DEF IInv

\* What is sent is the request that follows those already sent.
LEMMA TxSendInv ==
  ASSUME Exclusive, IInv, NEW q \in Queues, TxSend(q)
  PROVE  IInv'
<1> USE QueueOfAssumption
<1> TypeOK /\ SenderInv /\ CountInv /\ PostedInv /\ QueueInv /\ UnusedInv
  BY DEF IInv
<1>1. txpc[q] = "send"
  BY DEF TxSend
<1>2. PICK c \in Conns : QueueOf[c] = q
  BY <1>1, Served
<1>3. PICK t \in Nat : InOrder(c, q, t)
  BY <1>2 DEF QueueInv
<1>4. /\ Len(posted[c]) \in Nat /\ Len(sent[c]) \in Nat /\ Len(txQueue[q]) \in Nat
      /\ t + Len(txQueue[q]) = Len(posted[c]) /\ t = Len(sent[c]) + 1
  BY <1>1, <1>2, <1>3, Lengths DEF InOrder
<1>5. t \in 1 .. Len(posted[c])
  <2>1. t >= 1 /\ t <= Len(posted[c])
    <3>1. t <= Len(posted[c])
      BY <1>4, SumBounds
    <3>2. t # 0
      BY <1>4
    <3> QED
      BY <3>1, <3>2
  <2> QED
    BY <1>4, <2>1
<1>6. tx[q] = posted[c][t] /\ tx[q].conn = c /\ tx[q] \in Requests
  <2>1. posted[c][t] = [conn |-> c, n |-> t, token |-> t - 1]
    BY <1>5 DEF PostedInv
  <2>2. posted[c][t] \in Requests
    BY <1>5 DEF TypeOK
  <2>3. tx[q] = posted[c][t]
    BY <1>1, <1>3 DEF InOrder
  <2> QED
    BY <2>1, <2>2, <2>3
<1>7. /\ sent' = [sent EXCEPT ![c] = Append(@, tx[q])]
      /\ tx' = [tx EXCEPT ![q] = NoRequest]
      /\ txpc' = [txpc EXCEPT ![q] = "wait"]
      /\ UNCHANGED senderVars /\ UNCHANGED txQueue
  BY <1>6 DEF TxSend
<1>8. TypeOK'
  <2>1. sent' \in [Conns -> Seq(Requests)]
    BY <1>6, <1>7 DEF TypeOK
  <2> QED
    BY <1>7, <2>1 DEF TypeOK, senderVars
<1>9. /\ txpc'[q] = "wait" /\ sent'[c] = Append(sent[c], tx[q])
      /\ \A p \in Queues : p # q => txpc'[p] = txpc[p] /\ tx'[p] = tx[p]
      /\ \A d \in Conns : d # c => sent'[d] = sent[d]
  BY <1>7 DEF TypeOK
<1>10. sent[c] \in Seq(Requests)
  BY DEF TypeOK
<1>11. /\ Len(sent'[c]) = Len(sent[c]) + 1
       /\ sent'[c][Len(sent[c]) + 1] = tx[q]
       /\ \A k \in 1 .. Len(sent[c]) : sent'[c][k] = sent[c][k]
  BY <1>6, <1>9, <1>10
<1>12. UNCHANGED posted
  BY <1>7 DEF senderVars
<1>13. InOrder(c, q, t)'
  <2>1. \A k \in 1 .. Len(sent'[c]) : sent'[c][k] = posted'[c][k]
    <3>1. SUFFICES ASSUME NEW k \in 1 .. Len(sent'[c]) PROVE sent'[c][k] = posted[c][k]
      BY <1>12
    <3>2. CASE k \in 1 .. Len(sent[c])
      BY <1>3, <1>11, <3>2 DEF InOrder
    <3>3. CASE k = Len(sent[c]) + 1
      BY <1>4, <1>6, <1>11, <3>3
    <3> QED
      BY <1>4, <1>11, <3>2, <3>3
  <2>2. t = Len(sent'[c])
    BY <1>4, <1>11
  <2> QED
    BY <1>3, <1>7, <1>9, <1>12, <2>1, <2>2 DEF InOrder
<1>14. QueueInv'
  BY <1>2, <1>7, <1>9, <1>12, <1>13, OthersKept
<1>15. UnusedInv'
  BY <1>2, <1>7, <1>9 DEF UnusedInv
<1> QED
  BY <1>7, <1>8, <1>14, <1>15, SenderSideKept DEF IInv
-----------------------------------------------------------------------------
\* IInv is an inductive invariant.
LEMMA Invariance == ASSUME Exclusive PROVE Spec => []IInv
<1>1. Init => IInv
  BY InitInv
<1>2. IInv /\ [Next]_vars => IInv'
  <2>1. SUFFICES ASSUME IInv, [Next]_vars PROVE IInv'
    OBVIOUS
  <2>2. ASSUME NEW s \in Senders, Sender(s) PROVE IInv'
    BY <2>1, <2>2, TakeTokenInv, PostInv, LoadCountInv, StoreCountInv DEF Sender
  <2>3. ASSUME NEW q \in Queues, TxThread(q) PROVE IInv'
    BY <2>1, <2>3, TxDequeueInv, TxDeleteInv, TxSendInv DEF TxThread
  <2>4. CASE UNCHANGED vars
    BY <2>1, <2>4, StutterInv
  <2> QED
    BY <2>1, <2>2, <2>3, <2>4 DEF Next
<1> QED
  BY <1>1, <1>2, PTL DEF Spec

\* The senders, the kernel queues and the tx threads keep to their types, and
\* queryCount never counts more than was sent.
THEOREM TypeCorrect == ASSUME Exclusive PROVE Spec => []TypeOK
<1>1. IInv => TypeOK
  BY DEF IInv
<1> QED
  BY <1>1, Invariance, PTL

\* A connection used by one thread never sends two requests with one token,
\* although the token is read before the query is counted.
THEOREM TokensUnique == ASSUME Exclusive PROVE Spec => []UniqueTokens
<1>1. IInv => UniqueTokens
  <2>1. SUFFICES ASSUME IInv, NEW c \in Conns,
                        NEW i \in 1 .. Len(posted[c]), NEW j \in 1 .. Len(posted[c]),
                        posted[c][i].token = posted[c][j].token
        PROVE  i = j
    BY DEF UniqueTokens
  <2>2. posted[c][i].token = i - 1 /\ posted[c][j].token = j - 1
    <3>1. /\ posted[c][i] = [conn |-> c, n |-> i, token |-> i - 1]
          /\ posted[c][j] = [conn |-> c, n |-> j, token |-> j - 1]
      BY <2>1 DEF IInv, PostedInv
    <3> QED
      BY <3>1
  <2>3. Len(posted[c]) \in Nat
    BY <2>1, Lengths DEF IInv
  <2>4. i - 1 = j - 1
    BY <2>1, <2>2
  <2> QED
    BY <2>3, <2>4
<1> QED
  BY <1>1, Invariance, PTL

\* The tx thread writes the requests of a connection in the order of their
\* triggers, each at most once.
THEOREM OrderKept == ASSUME Exclusive PROVE Spec => []SentInOrder
<1>1. IInv => SentInOrder
  <2>1. SUFFICES ASSUME IInv, NEW c \in Conns, NEW k \in 1 .. Len(sent[c])
        PROVE  sent[c][k].conn = c /\ sent[c][k].n = k
    BY DEF SentInOrder
  <2>2. PICK t \in Nat : InOrder(c, QueueOf[c], t)
    BY <2>1 DEF IInv, QueueInv
  <2>3. /\ Len(posted[c]) \in Nat /\ Len(sent[c]) \in Nat /\ Len(txQueue[QueueOf[c]]) \in Nat
    BY <2>1, Lengths DEF IInv
  <2>4. Len(sent[c]) <= t /\ t <= Len(posted[c])
    BY <2>2, <2>3 DEF InOrder
  <2>5. sent[c][k] = posted[c][k] /\ k \in 1 .. Len(posted[c])
    BY <2>2, <2>3, <2>4 DEF InOrder
  <2>6. posted[c][k] = [conn |-> c, n |-> k, token |-> k - 1]
    BY <2>1, <2>5 DEF IInv, PostedInv
  <2> QED
    BY <2>5, <2>6
<1> QED
  BY <1>1, Invariance, PTL

\* Neither a later trigger nor the tx thread's EV_DELETE makes a request vanish.
THEOREM NeverLost == ASSUME Exclusive PROVE Spec => []NothingLost
<1>1. IInv => NothingLost
  <2>1. SUFFICES ASSUME IInv, NEW c \in Conns, NEW n \in 1 .. Len(posted[c]),
                        ~(n <= Len(sent[c]))
        PROVE  Pending(posted[c][n])
    BY DEF NothingLost
  <2>2. PICK q \in Queues : q = QueueOf[c]
    BY QueueOfAssumption
  <2>3. PICK t \in Nat : InOrder(c, q, t)
    BY <2>1, <2>2 DEF IInv, QueueInv
  <2>4. /\ Len(posted[c]) \in Nat /\ Len(sent[c]) \in Nat /\ Len(txQueue[q]) \in Nat
        /\ t + Len(txQueue[q]) = Len(posted[c])
    BY <2>1, <2>2, <2>3, Lengths DEF IInv, InOrder
  <2>5. CASE n > t
    <3>1. n - t \in 1 .. Len(txQueue[q]) /\ t + (n - t) = n
      BY <2>4, <2>5
    <3>2. txQueue[q][n - t] = [ident |-> t + (n - t) - 1, req |-> posted[c][t + (n - t)]]
      BY <2>3, <3>1 DEF InOrder
    <3>3. txQueue[q][n - t].req = posted[c][n]
      BY <3>1, <3>2
    <3> QED
      BY <3>1, <3>3 DEF Pending
  <2>6. CASE n <= t
    <3>1. txpc[q] # "wait" /\ n = t
      BY <2>1, <2>3, <2>4, <2>6 DEF InOrder
    <3>2. tx[q] = posted[c][n]
      BY <2>3, <3>1 DEF InOrder
    <3> QED
      BY <3>2 DEF Pending
  <2> QED
    BY <2>4, <2>5, <2>6
<1> QED
  BY <1>1, Invariance, PTL
==============================================================================
