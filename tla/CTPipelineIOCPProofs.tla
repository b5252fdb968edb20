------------------------- MODULE CTPipelineIOCPProofs -------------------------
(***************************************************************************)
(* Proofs about CTPipelineIOCP, for any number of cursors on either        *)
(* connection, any window and any lengths.                                 *)
(*                                                                         *)
(* With responses that outrun their cursors and headers that are cut:      *)
(* however the packets of the two connections and of the tx thread come to *)
(* the port, one cursor receives at a time, in the order of the requests.  *)
(* Without them: each cursor is called back with its own response, and the *)
(* steps are steps of CTPromise.                                           *)
(*                                                                         *)
(* Every step brings the callbacks closer; and where the cursors of the    *)
(* connections are not mixed, the threads never wait with one to come.     *)
(***************************************************************************)
EXTENDS CTPipelineIOCP, CTPipelineProofs, FiniteSetTheorems
-----------------------------------------------------------------------------
(***************************************************************************)
(* The inductive invariant.                                                *)
(***************************************************************************)

\* The cursor that is to be called back next, and the last one scheduled.
Oldest    == Len(delivered) + 1
Scheduled == Len(delivered) + responseCount

\* The port holds the cursors that are not scheduled yet, in their order, and
\* at place p, unless p is 0, the packet of the oldest cursor's WSARecv.
Packet(p, i) ==
  IF p = 0 \/ i < p THEN Scheduled + i
  ELSE IF i = p THEN Oldest ELSE Scheduled + i - 1

\* The last cursors that reached the port and the tx thread.
LastOnPort(p) == Scheduled + Len(rxPipe) - (IF p = 0 THEN 0 ELSE 1)
LastSent(p)   == LastOnPort(p) + (IF txCursor = None THEN 0 ELSE 1)

\* The oldest cursor receives: its WSARecv is under way, or its packet is in the
\* port, or the rx thread works on it.
Receiving(p) ==
  IF responseCount = 0 \/ p # 0 THEN rxQueue = {} /\ cursor = None
  ELSE \/ rxQueue = {Oldest} /\ cursor = None
       \/ rxQueue = {} /\ cursor = Oldest

Places(p) ==
  /\ p # 0 => responseCount # 0
  /\ \A i \in 1 .. Len(rxPipe) : rxPipe[i] = Packet(p, i)
  /\ Receiving(p)
  /\ txCursor \in {None, LastOnPort(p) + 1}
  /\ ContinuesFrom(txQueue, LastSent(p))
  /\ queryCount = LastSent(p) + Len(txQueue)

\* The other cursors that are scheduled wait as messages.
Waiting ==
  /\ ContinuesFrom(messages, Oldest)
  /\ Len(messages) = (IF responseCount = 0 THEN 0 ELSE responseCount - 1)

\* What the rx thread's state says of its cursor, and a cursor's of its place.
CursorInv ==
  /\ responseCount \in Nat
  /\ rxpc \in {"top", "process", "aborted"}
  /\ rxpc = "top" => cursor = None
  /\ rxpc = "process" => cursor # None
  /\ \A c \in Cursors : stage[c] = (IF c <= Scheduled THEN "RECEIVE" ELSE "SCHEDULE")

\* Callbacks come in the order of the requests, on both connections together.
CallbacksInOrder == \A i \in 1 .. Len(delivered) : delivered[i].cursor = i

IocpInv ==
  /\ IocpTypeOK /\ CursorInv /\ Waiting /\ CallbacksInOrder
  /\ \E p \in 0 .. Len(rxPipe) : Places(p)

-----------------------------------------------------------------------------
(***************************************************************************)
(* The types.                                                              *)
(***************************************************************************)

LEMMA NoneIsNoCursor == None \notin Cursors
BY NumCursorsAssumption DEF None, Cursors

LEMMA ElementType ==
  ASSUME NEW S, NEW s \in Seq(S), NEW i \in 1 .. Len(s)
  PROVE  Len(s) \in Nat /\ s[i] \in S
OBVIOUS

\* The application, the tx thread, and the network.
LEMMA IocpTypeOthers ==
  ASSUME IocpTypeOK,
         \/ (CTCursorSendOnQueue \/ TxThread \/ Deliver) /\ UNCHANGED iocpVars
         \/ IocpAnswer \/ DeliverSecond
  PROVE  IocpTypeOK'
<1> USE DEF IocpTypeOK
<1>1. CASE (CTCursorSendOnQueue \/ TxThread \/ Deliver) /\ UNCHANGED iocpVars
  BY <1>1, TypeTx, TypeNetwork DEF Network, iocpVars, rxAddedVars, net2Vars
<1>2. CASE IocpAnswer
  <2>1. PICK i \in 1 .. Len(requests) :
          /\ IF requests[i] \in Second
             THEN net2' = net2 \o Response(requests[i]) /\ UNCHANGED net
             ELSE net' = net \o Response(requests[i]) /\ UNCHANGED net2
          /\ requests' = RemoveAt(requests, i)
          /\ UNCHANGED <<appVars, txVars, sock, rxPipe, rxVars, rxAddedVars, sock2>>
    BY <1>2 DEF IocpAnswer
  <2>2. requests \in Seq(Cursors) /\ Len(requests) \in Nat /\ requests[i] \in Cursors
    <3>1. requests \in Seq(Cursors)
      BY DEF TypeOK
    <3> QED
      BY <3>1, ElementType
  <2>3. requests' \in Seq(Cursors)
    <3>1. /\ SubSeq(requests, 1, i - 1) \in Seq(Cursors)
          /\ SubSeq(requests, i + 1, Len(requests)) \in Seq(Cursors)
      BY <2>2, SubSeqType
    <3> QED
      BY <2>1, <3>1 DEF RemoveAt
  <2>4. Response(requests[i]) \in Seq(Bytes)
    BY <2>2, ResponseType
  <2>5. net' \in Seq(Bytes) /\ net2' \in Seq(Bytes)
    <3>1. net \in Seq(Bytes) /\ net2 \in Seq(Bytes)
      BY DEF TypeOK
    <3>2. net \o Response(requests[i]) \in Seq(Bytes) /\ net2 \o Response(requests[i]) \in Seq(Bytes)
      <4> DEFINE r == Response(requests[i])
      <4>1. r \in Seq(Bytes)
        BY <2>4
      <4> HIDE DEF r
      <4>2. net \o r \in Seq(Bytes) /\ net2 \o r \in Seq(Bytes)
        BY <3>1, <4>1
      <4> QED
        BY <4>2 DEF r
    <3>3. CASE requests[i] \in Second
      BY <2>1, <3>1, <3>2, <3>3
    <3>4. CASE requests[i] \notin Second
      BY <2>1, <3>1, <3>2, <3>4
    <3> QED
      BY <3>3, <3>4
  <2> QED
    BY <2>1, <2>3, <2>5 DEF TypeOK, appVars, txVars, rxVars, rxAddedVars
<1>3. CASE DeliverSecond
  <2>1. PICK n \in 1 .. Len(net2) :
          /\ sock2' = sock2 \o SubSeq(net2, 1, n)
          /\ net2' = SubSeq(net2, n + 1, Len(net2))
          /\ UNCHANGED <<vars, rxAddedVars>>
    BY <1>3 DEF DeliverSecond
  <2>2. net2 \in Seq(Bytes) /\ Len(net2) \in Nat /\ n \in Nat /\ n <= Len(net2)
    OBVIOUS
  <2>3. SubSeq(net2, 1, n) \in Seq(Bytes) /\ SubSeq(net2, n + 1, Len(net2)) \in Seq(Bytes)
    BY <2>2, SubSeqType
  <2>4. sock2' \in Seq(Bytes) /\ net2' \in Seq(Bytes)
    BY <2>1, <2>3
  <2>5. TypeOK'
    BY <2>1 DEF TypeOK, vars, appVars, txVars, netVars, rxVars
  <2> QED
    BY <2>1, <2>4, <2>5 DEF rxAddedVars
<1> QED
  BY <1>1, <1>2, <1>3

\* The kernel, and the packets the rx thread takes off the port.
LEMMA IocpTypePort ==
  ASSUME IocpTypeOK, WSARecvDone \/ Schedule \/ ReceiveDone
  PROVE  IocpTypeOK'
<1> USE DEF IocpTypeOK
<1>1. CASE WSARecvDone
  <2>1. PICK c \in rxQueue :
          /\ IF c \in Second
             THEN /\ sock2' = <<>> /\ UNCHANGED sock
                  /\ transferred' = [transferred EXCEPT ![c] = sock2]
             ELSE /\ sock' = <<>> /\ UNCHANGED sock2
                  /\ transferred' = [transferred EXCEPT ![c] = sock]
          /\ rxQueue' = rxQueue \ {c}
          /\ rxPipe' = Append(rxPipe, c)
          /\ UNCHANGED <<appVars, txVars, requests, net, rxpc, cursor, responseCount,
                         stage, header, data, delivered, messages, net2>>
    BY <1>1 DEF WSARecvDone
  <2>2. c \in Cursors /\ rxPipe' \in Seq(Cursors)
    BY <2>1 DEF TypeOK
  <2>3. /\ sock' \in Seq(Bytes) /\ sock2' \in Seq(Bytes)
        /\ transferred' \in [Cursors -> Seq(Bytes)]
    <3>1. sock \in Seq(Bytes) /\ sock2 \in Seq(Bytes) /\ <<>> \in Seq(Bytes)
      BY DEF TypeOK
    <3>2. CASE c \in Second
      BY <2>1, <2>2, <3>1, <3>2
    <3>3. CASE c \notin Second
      BY <2>1, <2>2, <3>1, <3>3
    <3> QED
      BY <3>2, <3>3
  <2> QED
    BY <2>1, <2>2, <2>3 DEF TypeOK, appVars, txVars
<1>2. CASE Schedule
  <2>1. Head(rxPipe) \in Cursors /\ Tail(rxPipe) \in Seq(Cursors)
    BY <1>2 DEF Schedule, TypeOK
  <2>2. messages' \in Seq(Cursors) /\ rxQueue' \subseteq Cursors
    <3>1. CASE responseCount > 0
      <4>1. messages' = Append(messages, Head(rxPipe)) /\ rxQueue' = rxQueue
        BY <1>2, <3>1 DEF Schedule
      <4>2. messages \in Seq(Cursors) /\ rxQueue \subseteq Cursors
        BY DEF TypeOK
      <4> QED
        BY <2>1, <4>1, <4>2
    <3>2. CASE ~(responseCount > 0)
      BY <1>2, <2>1, <3>2 DEF Schedule, TypeOK
    <3> QED
      BY <3>1, <3>2
  <2>3. /\ rxPipe' = Tail(rxPipe) /\ responseCount' = responseCount + 1
        /\ stage' = [stage EXCEPT ![Head(rxPipe)] = "RECEIVE"]
        /\ UNCHANGED <<appVars, txVars, netVars, rxpc, cursor, header, data, delivered,
                       transferred, net2Vars>>
    BY <1>2 DEF Schedule
  <2>4. /\ rxPipe' \in Seq(Cursors) /\ responseCount' \in Int
        /\ stage' \in [Cursors -> {"SCHEDULE", "RECEIVE"}]
    <3>1. responseCount \in Int /\ stage \in [Cursors -> {"SCHEDULE", "RECEIVE"}]
      BY DEF TypeOK
    <3> QED
      BY <2>1, <2>3, <3>1
  <2>5. TypeOK'
    BY <2>2, <2>3, <2>4 DEF TypeOK, appVars, txVars, netVars
  <2> QED
    BY <2>2, <2>3, <2>5 DEF net2Vars
<1>3. CASE ReceiveDone
  <2>1. Head(rxPipe) \in Cursors /\ Tail(rxPipe) \in Seq(Cursors)
    BY <1>3 DEF ReceiveDone, TypeOK
  <2>2. Receive(Head(rxPipe), transferred[Head(rxPipe)])
    BY <1>3 DEF ReceiveDone
  <2>3. transferred[Head(rxPipe)] \in Seq(Bytes)
    BY <2>1
  <2>4. /\ data' \in [Cursors -> Seq(Units)]
        /\ header' \in [Cursors -> Cursors \cup {None}]
        /\ rxpc' \in {"process", "aborted"}
    BY <2>1, <2>2, <2>3, ReceiveType
  <2> QED
    BY <1>3, <2>1, <2>4
    DEF ReceiveDone, TypeOK, RxStates, appVars, txVars, netVars, iocpVars, rxAddedVars, net2Vars
<1> QED
  BY <1>1, <1>2, <1>3

\* The end of a response, or of a read.
LEMMA HeirType ==
  ASSUME IocpTypeOK, messages # <<>>
  PROVE  NextOnConn \in Cursors /\ Head(messages) \in Cursors
<1>1. messages \in Seq(Cursors) /\ \A i \in 1 .. Len(messages) : messages[i] \in Cursors
  BY DEF IocpTypeOK
<1>2. Head(messages) \in Cursors
  BY <1>1
<1>3. ASSUME \E i \in 1 .. Len(messages) : FirstOnConn(i)
      PROVE  messages[CHOOSE i \in 1 .. Len(messages) : FirstOnConn(i)] \in Cursors
  BY <1>1, <1>3
<1> QED
  BY <1>2, <1>3 DEF NextOnConn

LEMMA IocpTypeClose ==
  ASSUME IocpTypeOK, cursor # None, ReceiveMore \/ Close \/ CloseAndSwitch
  PROVE  IocpTypeOK'
<1> USE DEF IocpTypeOK
<1>0. cursor \in Cursors
  BY DEF TypeOK
<1>1. CASE ReceiveMore
  BY <1>0, <1>1
  DEF ReceiveMore, TypeOK, RxStates, appVars, txVars, netVars, iocpVars, rxAddedVars, net2Vars
<1>2. CASE Close
  <2>1. Callback(cursor) \in Callbacks
    BY <1>0, <1>2, CallbackType DEF Close
  <2>2. delivered' \in Seq(Callbacks) /\ responseCount' \in Int
    BY <1>2, <2>1 DEF Close, TypeOK
  <2> QED
    BY <1>2, <2>2
    DEF Close, TypeOK, RxStates, appVars, txVars, netVars, iocpVars, rxAddedVars, net2Vars
<1>3. CASE CloseAndSwitch
  <2> DEFINE next == Head(messages)
             heir == NextOnConn
             over == Overlap(cursor)
             end  == IF header[heir] = None THEN HeaderEnd(over) ELSE 0
             more == Len(over) > end
  <2>1. next \in Cursors /\ heir \in Cursors
    BY <1>3, HeirType DEF CloseAndSwitch
  <2>2. Callback(cursor) \in Callbacks /\ over \in Seq(Units)
    BY <1>0, <1>3, CallbackType DEF CloseAndSwitch
  <2>3. end \in 0 .. Len(over) /\ Len(over) \in Nat
    BY <2>2, HeaderEndRange
  <2>4. end # 0 => over[end].req \in Cursors \cup {None}
    BY <2>2, OriginType
  <2>5. SubSeq(over, end + 1, Len(over)) \in Seq(Units)
    BY <2>2, <2>3, SubSeqType
  <2>6. /\ IF end = 0 THEN UNCHANGED <<header, data>>
           ELSE /\ header' = [header EXCEPT ![heir] = over[end].req]
                /\ data' = [data EXCEPT ![heir] = SubSeq(over, end + 1, Len(over))]
        /\ IF more /\ SameConn(next, cursor)
           THEN cursor' = next /\ UNCHANGED rxQueue
           ELSE cursor' = None /\ rxQueue' = rxQueue \cup {next}
        /\ rxpc' \in {"top", "process", "aborted"}
    BY <1>3 DEF CloseAndSwitch
  <2>7. /\ messages' = Tail(messages) /\ messages # <<>>
        /\ delivered' = Append(delivered, Callback(cursor))
        /\ responseCount' = responseCount - 1
        /\ UNCHANGED <<appVars, txVars, netVars, rxPipe, stage, transferred, net2Vars>>
    BY <1>3 DEF CloseAndSwitch
  <2> HIDE DEF next, heir, over, end, more
  <2>8. data' \in [Cursors -> Seq(Units)] /\ header' \in [Cursors -> Cursors \cup {None}]
    BY <2>1, <2>4, <2>5, <2>6 DEF TypeOK
  <2>9. cursor' \in Cursors \cup {None} /\ rxQueue' \subseteq Cursors /\ rxpc' \in RxStates
    BY <2>1, <2>6 DEF TypeOK, RxStates
  <2>10. /\ delivered' \in Seq(Callbacks) /\ responseCount' \in Int
         /\ messages' \in Seq(Cursors)
    BY <2>2, <2>7 DEF TypeOK
  <2> QED
    BY <2>7, <2>8, <2>9, <2>10 DEF TypeOK, appVars, txVars, netVars, net2Vars
<1> QED
  BY <1>1, <1>2, <1>3

-----------------------------------------------------------------------------
(***************************************************************************)
(* The order of the cursors.                                               *)
(***************************************************************************)

LEMMA Numbers ==
  ASSUME IocpTypeOK, CursorInv
  PROVE  /\ Len(delivered) \in Nat /\ Len(rxPipe) \in Nat /\ Len(txQueue) \in Nat
         /\ Len(messages) \in Nat /\ responseCount \in Nat
         /\ Oldest = Len(delivered) + 1 /\ Scheduled = Len(delivered) + responseCount
BY DEF IocpTypeOK, TypeOK, CursorInv, Oldest, Scheduled

LEMMA LastNumbers ==
  ASSUME IocpTypeOK, CursorInv, NEW p \in 0 .. Len(rxPipe)
  PROVE  /\ LastOnPort(p) \in Nat /\ LastSent(p) \in Nat
         /\ LastOnPort(p) >= Scheduled /\ LastSent(p) >= LastOnPort(p)
<1>1. Scheduled \in Nat /\ Len(rxPipe) \in Nat
  BY Numbers
<1>2. LastOnPort(p) \in Nat /\ LastOnPort(p) >= Scheduled
  <2>1. CASE p = 0
    BY <1>1, <2>1 DEF LastOnPort
  <2>2. CASE p # 0
    <3>1. Len(rxPipe) >= 1
      BY <1>1, <2>2
    <3> QED
      BY <1>1, <2>2, <3>1 DEF LastOnPort
  <2> QED
    BY <2>1, <2>2
<1>3. LastSent(p) = LastOnPort(p) \/ LastSent(p) = LastOnPort(p) + 1
  BY <1>2 DEF LastSent
<1> QED
  BY <1>2, <1>3

\* What does not depend on the tx thread, the port and the network.
LEMMA SameRx ==
  ASSUME IocpInv, UNCHANGED <<rxVars, messages>>
  PROVE  /\ CursorInv' /\ Waiting' /\ CallbacksInOrder'
         /\ UNCHANGED <<Oldest, Scheduled>>
         /\ \A p, i : Packet(p, i)' = Packet(p, i)
         /\ \A p : Receiving(p)' = Receiving(p)
<1>1. UNCHANGED <<Oldest, Scheduled>>
  BY DEF Oldest, Scheduled, rxVars
<1>2. CursorInv' /\ Waiting' /\ CallbacksInOrder'
  BY <1>1 DEF IocpInv, CursorInv, Waiting, CallbacksInOrder, ContinuesFrom, rxVars
<1>3. \A p, i : Packet(p, i)' = Packet(p, i)
  BY <1>1 DEF Packet
<1>4. \A p : Receiving(p)' = Receiving(p)
  BY <1>1 DEF Receiving, rxVars
<1> QED
  BY <1>1, <1>2, <1>3, <1>4

\* The places of the cursors, for steps that change nothing the places depend on.
LEMMA SamePlaces ==
  ASSUME IocpInv, IocpTypeOK',
         UNCHANGED <<queryCount, txQueue, txCursor, rxPipe, rxVars, messages>>
  PROVE  IocpInv'
<1>1. PICK p \in 0 .. Len(rxPipe) : Places(p)
  BY DEF IocpInv
<1>2. LastOnPort(p)' = LastOnPort(p) /\ LastSent(p)' = LastSent(p)
  BY SameRx DEF LastOnPort, LastSent
<1>3. ContinuesFrom(txQueue, LastSent(p))'
  BY <1>1, <1>2 DEF Places, ContinuesFrom
<1>4. Places(p)'
  BY <1>1, <1>2, <1>3, SameRx DEF Places, rxVars
<1> QED
  BY <1>1, <1>4, SameRx DEF IocpInv

\* The application asks for the next cursor.
LEMMA OrderSend ==
  ASSUME IocpInv, IocpTypeOK', CTCursorSendOnQueue, UNCHANGED iocpVars
  PROVE  IocpInv'
<1>0. /\ txQueue' = Append(txQueue, queryCount + 1) /\ queryCount' = queryCount + 1
      /\ UNCHANGED <<txCursor, rxPipe, rxVars, messages>>
  BY DEF CTCursorSendOnQueue, iocpVars, rxAddedVars
<1>3. PICK p \in 0 .. Len(rxPipe) : Places(p)
  BY DEF IocpInv
<1>4. LastOnPort(p)' = LastOnPort(p) /\ LastSent(p)' = LastSent(p)
  BY <1>0, SameRx DEF LastOnPort, LastSent
<1>7. ContinuesFrom(txQueue, LastSent(p))' /\ Len(txQueue') = Len(txQueue) + 1
  <2>1. txQueue \in Seq(Cursors) /\ queryCount + 1 \in Cursors
    BY <1>0, NumCursorsAssumption DEF IocpInv, IocpTypeOK, TypeOK, CTCursorSendOnQueue, Cursors
  <2>2. ContinuesFrom(txQueue, LastSent(p)) /\ queryCount = LastSent(p) + Len(txQueue)
    BY <1>3 DEF Places
  <2>3. LastSent(p) \in Nat
    BY LastNumbers DEF IocpInv
  <2> DEFINE k == LastSent(p)
  <2>4. LastSent(p)' = k
    BY <1>4
  <2>5. ContinuesFrom(txQueue, k) /\ queryCount = k + Len(txQueue) /\ k \in Nat
    BY <2>2, <2>3
  <2> HIDE DEF k
  <2>6. ContinuesFrom(Append(txQueue, k + Len(txQueue) + 1), k)
        /\ Len(Append(txQueue, k + Len(txQueue) + 1)) = Len(txQueue) + 1
    BY <2>1, <2>5, ContinuesAppend
  <2>7. txQueue' = Append(txQueue, k + Len(txQueue) + 1)
    BY <1>0, <2>5
  <2> QED
    BY <2>4, <2>6, <2>7 DEF ContinuesFrom
<1>9. queryCount' = LastSent(p)' + Len(txQueue')
  <2>1. queryCount = LastSent(p) + Len(txQueue) /\ LastSent(p) \in Nat /\ Len(txQueue) \in Nat
    BY <1>3, LastNumbers, Numbers DEF IocpInv, Places
  <2> QED
    BY <1>0, <1>4, <1>7, <2>1
<1>8. Places(p)'
  <2>1. \A i \in 1 .. Len(rxPipe') : rxPipe'[i] = Packet(p, i)'
    BY <1>0, <1>3, SameRx DEF Places
  <2>2. txCursor' \in {None, LastOnPort(p)' + 1} /\ (p # 0 => responseCount' # 0)
    BY <1>0, <1>3, <1>4 DEF Places, rxVars
  <2> QED
    BY <1>0, <1>3, <1>7, <1>9, <2>1, <2>2, SameRx DEF Places
<1> QED
  BY <1>0, <1>3, <1>8, SameRx DEF IocpInv

\* The tx thread sends a request.
LEMMA OrderTxSend ==
  ASSUME IocpInv, IocpTypeOK', TxSend, UNCHANGED iocpVars
  PROVE  IocpInv'
<1>1. /\ txCursor = None /\ txQueue # <<>>
      /\ txCursor' = Head(txQueue) /\ txQueue' = Tail(txQueue)
      /\ UNCHANGED <<queryCount, rxPipe, rxVars, messages>>
  BY DEF TxSend, appVars, iocpVars, rxAddedVars
<1>2. PICK p \in 0 .. Len(rxPipe) : Places(p)
  BY DEF IocpInv
<1> DEFINE k == LastOnPort(p)
<1>3. k \in Nat /\ txQueue \in Seq(Cursors)
  BY LastNumbers DEF IocpInv, IocpTypeOK, TypeOK
<1>4. LastSent(p) = k
  BY <1>1, <1>3 DEF LastSent
<1>5. ContinuesFrom(txQueue, k) /\ queryCount = k + Len(txQueue)
  BY <1>2, <1>4 DEF Places
<1>6. LastOnPort(p)' = k
  BY <1>1, SameRx DEF LastOnPort
<1> HIDE DEF k
<1>7. /\ Head(txQueue) = k + 1 /\ ContinuesFrom(Tail(txQueue), k + 1)
      /\ Len(txQueue) = Len(Tail(txQueue)) + 1
  BY <1>1, <1>3, <1>5, ContinuesTail
<1>8. LastSent(p)' = k + 1
  BY <1>1, <1>3, <1>6, <1>7 DEF LastSent, None
<1>9. ContinuesFrom(txQueue, LastSent(p))'
  BY <1>1, <1>7, <1>8 DEF ContinuesFrom
<1>10. Len(Tail(txQueue)) \in Nat
  BY <1>1, <1>3
<1>11. queryCount' = LastSent(p)' + Len(txQueue')
  BY <1>1, <1>3, <1>5, <1>7, <1>8, <1>10
<1>12. Places(p)'
  <2>1. \A i \in 1 .. Len(rxPipe') : rxPipe'[i] = Packet(p, i)'
    BY <1>1, <1>2, SameRx DEF Places
  <2>2. txCursor' \in {None, LastOnPort(p)' + 1} /\ (p # 0 => responseCount' # 0)
    BY <1>1, <1>2, <1>6, <1>7 DEF Places, rxVars
  <2> QED
    BY <1>1, <1>2, <1>9, <1>11, <2>1, <2>2, SameRx DEF Places
<1> QED
  BY <1>1, <1>2, <1>12, SameRx DEF IocpInv

\* The tx thread posts a cursor to the port.
LEMMA OrderTxPost ==
  ASSUME IocpInv, IocpTypeOK', CTCursorRecvOnQueue, UNCHANGED iocpVars
  PROVE  IocpInv'
<1>1. /\ txCursor # None /\ txCursor' = None
      /\ rxPipe' = Append(rxPipe, txCursor)
      /\ UNCHANGED <<queryCount, txQueue, rxVars, messages>>
  BY DEF CTCursorRecvOnQueue, appVars, iocpVars, rxAddedVars
<1>2. PICK p \in 0 .. Len(rxPipe) : Places(p)
  BY DEF IocpInv
<1>3. /\ LastOnPort(p) \in Nat /\ Scheduled \in Nat /\ Len(rxPipe) \in Nat
      /\ rxPipe \in Seq(Cursors) /\ txCursor \in Cursors
  <2>1. LastOnPort(p) \in Nat /\ Scheduled \in Nat /\ Len(rxPipe) \in Nat
    BY LastNumbers, Numbers DEF IocpInv
  <2>2. rxPipe \in Seq(Cursors) /\ txCursor \in Cursors
    BY <1>1 DEF IocpInv, IocpTypeOK, TypeOK
  <2> QED
    BY <2>1, <2>2
<1>4. txCursor = LastOnPort(p) + 1
  BY <1>1, <1>2 DEF Places
<1>5. /\ Len(rxPipe') = Len(rxPipe) + 1 /\ rxPipe'[Len(rxPipe) + 1] = txCursor
      /\ \A i \in 1 .. Len(rxPipe) : rxPipe'[i] = rxPipe[i]
  BY <1>1, <1>3
<1>6. LastOnPort(p)' = LastOnPort(p) + 1 /\ LastSent(p)' = LastSent(p)
  BY <1>1, <1>3, <1>5, SameRx DEF LastOnPort, LastSent
<1>7. txCursor = Packet(p, Len(rxPipe) + 1)
  BY <1>3, <1>4 DEF LastOnPort, Packet
<1>8. Places(p)'
  <2>1. \A i \in 1 .. Len(rxPipe') : rxPipe'[i] = Packet(p, i)'
    <3>1. \A i \in 1 .. Len(rxPipe) : rxPipe'[i] = Packet(p, i)
      BY <1>2, <1>5 DEF Places
    <3>2. rxPipe'[Len(rxPipe) + 1] = Packet(p, Len(rxPipe) + 1)
      BY <1>5, <1>7
    <3>3. \A i \in 1 .. Len(rxPipe') : i \in 1 .. Len(rxPipe) \/ i = Len(rxPipe) + 1
      BY <1>3, <1>5
    <3>4. \A i : Packet(p, i)' = Packet(p, i)
      BY <1>1, SameRx
    <3> QED
      BY <3>1, <3>2, <3>3, <3>4
  <2>2. ContinuesFrom(txQueue, LastSent(p))' /\ queryCount' = LastSent(p)' + Len(txQueue')
    BY <1>1, <1>2, <1>6 DEF Places, ContinuesFrom
  <2>3. p # 0 => responseCount' # 0
    BY <1>1, <1>2 DEF Places, rxVars
  <2> QED
    BY <1>1, <1>2, <2>1, <2>2, <2>3, SameRx DEF Places
<1>9. p \in 0 .. Len(rxPipe')
  BY <1>3, <1>5
<1> QED
  BY <1>8, <1>9, <1>1, SameRx DEF IocpInv

\* The kernel puts the packet of the WSARecv behind the cursors in the port.
LEMMA OrderRecvDone ==
  ASSUME IocpInv, IocpTypeOK', WSARecvDone
  PROVE  IocpInv'
<1>1. PICK c \in rxQueue :
        /\ rxQueue' = rxQueue \ {c} /\ rxPipe' = Append(rxPipe, c)
        /\ UNCHANGED <<queryCount, txQueue, txCursor, rxpc, cursor, responseCount, stage,
                       delivered, messages>>
  BY DEF WSARecvDone, appVars, txVars
<1>2. PICK p \in 0 .. Len(rxPipe) : Places(p)
  BY DEF IocpInv
<1>3. /\ p = 0 /\ responseCount # 0 /\ c = Oldest
      /\ rxQueue' = {} /\ cursor = None
  BY <1>1, <1>2 DEF Places, Receiving
<1>4. UNCHANGED <<Oldest, Scheduled>>
  BY <1>1 DEF Oldest, Scheduled
<1>5. CursorInv' /\ Waiting' /\ CallbacksInOrder'
  BY <1>1, <1>4 DEF IocpInv, CursorInv, Waiting, CallbacksInOrder, ContinuesFrom
<1>6. rxPipe \in Seq(Cursors) /\ c \in Cursors /\ Len(rxPipe) \in Nat /\ Scheduled \in Nat
  <2>1. rxPipe \in Seq(Cursors) /\ c \in Cursors
    BY <1>1 DEF IocpInv, IocpTypeOK, TypeOK
  <2> QED
    BY <2>1, Numbers DEF IocpInv
<1>11. PICK q \in Nat : q = Len(rxPipe) + 1
  BY <1>6
<1>7. /\ Len(rxPipe') = q /\ rxPipe'[q] = c
      /\ \A i \in 1 .. Len(rxPipe) : rxPipe'[i] = rxPipe[i]
  BY <1>1, <1>6, <1>11
<1>8. LastOnPort(q)' = LastOnPort(p) /\ LastSent(q)' = LastSent(p)
  BY <1>1, <1>3, <1>4, <1>6, <1>7, <1>11 DEF LastOnPort, LastSent
<1>9. \A i \in 1 .. Len(rxPipe') : rxPipe'[i] = Packet(q, i)'
  <2>1. ASSUME NEW i \in 1 .. Len(rxPipe)
        PROVE  rxPipe'[i] = Packet(q, i)'
    BY <1>2, <1>3, <1>4, <1>6, <1>7, <1>11 DEF Places, Packet
  <2>2. rxPipe'[q] = Packet(q, q)'
    BY <1>3, <1>4, <1>6, <1>7, <1>11 DEF Packet
  <2>3. \A i \in 1 .. Len(rxPipe') : i \in 1 .. Len(rxPipe) \/ i = q
    BY <1>6, <1>7, <1>11
  <2> QED
    BY <2>1, <2>2, <2>3
<1>10. Places(q)'
  <2>1. txCursor' \in {None, LastOnPort(q)' + 1}
    BY <1>1, <1>2, <1>8 DEF Places
  <2>2. ContinuesFrom(txQueue, LastSent(q))' /\ queryCount' = LastSent(q)' + Len(txQueue')
    BY <1>1, <1>2, <1>8 DEF Places, ContinuesFrom
  <2>3. responseCount' # 0 /\ q # 0
    BY <1>1, <1>3, <1>6, <1>11
  <2>4. Receiving(q)'
    BY <1>1, <1>3, <2>3 DEF Receiving
  <2> QED
    BY <1>9, <2>1, <2>2, <2>3, <2>4 DEF Places
<1> QED
  <2>1. q \in 0 .. Len(rxPipe')
    BY <1>7
  <2> QED
    BY <1>5, <1>10, <2>1 DEF IocpInv

\* The packet at the head of the port: a cursor that is not scheduled yet, the
\* next one, or the WSARecv of the oldest.
LEMMA HeadOfPort ==
  ASSUME IocpInv, rxPipe # <<>>, NEW p \in 0 .. Len(rxPipe), Places(p)
  PROVE  /\ Head(rxPipe) \in Cursors /\ Len(rxPipe) = Len(Tail(rxPipe)) + 1
         /\ Len(Tail(rxPipe)) \in Nat
         /\ \A i \in 1 .. Len(Tail(rxPipe)) : Tail(rxPipe)[i] = Packet(p, i + 1)
         /\ stage[Head(rxPipe)] = "SCHEDULE" => p # 1 /\ Head(rxPipe) = Scheduled + 1
         /\ stage[Head(rxPipe)] = "RECEIVE" => p = 1 /\ Head(rxPipe) = Oldest
<1>1. rxPipe \in Seq(Cursors) /\ Len(rxPipe) \in Nat /\ 1 \in 1 .. Len(rxPipe)
  <2>1. rxPipe \in Seq(Cursors)
    BY DEF IocpInv, IocpTypeOK, TypeOK
  <2> QED
    BY <2>1
<1>2. /\ Head(rxPipe) = rxPipe[1] /\ rxPipe[1] \in Cursors
      /\ Len(rxPipe) = Len(Tail(rxPipe)) + 1 /\ Len(Tail(rxPipe)) \in Nat
      /\ \A i \in 1 .. Len(Tail(rxPipe)) : Tail(rxPipe)[i] = rxPipe[i + 1]
  BY <1>1
<1>3. \A i \in 1 .. Len(Tail(rxPipe)) : Tail(rxPipe)[i] = Packet(p, i + 1)
  <2>1. ASSUME NEW i \in 1 .. Len(Tail(rxPipe))
        PROVE  Tail(rxPipe)[i] = Packet(p, i + 1)
    <3>1. i + 1 \in 1 .. Len(rxPipe)
      BY <1>2
    <3>2. rxPipe[i + 1] = Packet(p, i + 1)
      BY <3>1 DEF Places
    <3> QED
      BY <1>2, <3>2
  <2> QED
    BY <2>1
<1>4. Head(rxPipe) = Packet(p, 1)
  BY <1>1, <1>2 DEF Places
<1>5. /\ Scheduled \in Nat /\ Oldest = Len(delivered) + 1
      /\ Scheduled = Len(delivered) + responseCount
      /\ Len(delivered) \in Nat /\ responseCount \in Nat
  BY Numbers DEF IocpInv
<1>6. \A c \in Cursors : stage[c] = (IF c <= Scheduled THEN "RECEIVE" ELSE "SCHEDULE")
  BY DEF IocpInv, CursorInv
<1>7. CASE p = 1
  <2>1. Head(rxPipe) = Oldest
    BY <1>4, <1>7 DEF Packet
  <2>2. Oldest <= Scheduled
    BY <1>5, <1>7 DEF Places
  <2>3. stage[Head(rxPipe)] = "RECEIVE"
    BY <1>2, <1>6, <2>1, <2>2
  <2> QED
    BY <1>2, <1>3, <1>7, <2>1, <2>3
<1>8. CASE p # 1
  <2>1. Head(rxPipe) = Scheduled + 1
    BY <1>4, <1>8 DEF Packet
  <2>2. ~(Head(rxPipe) <= Scheduled)
    BY <1>5, <2>1
  <2>3. stage[Head(rxPipe)] = "SCHEDULE"
    BY <1>2, <1>6, <2>2
  <2> QED
    BY <1>2, <1>3, <1>8, <2>1, <2>3
<1> QED
  BY <1>7, <1>8

\* The rx thread schedules the next cursor, to receive or to wait.
LEMMA OrderSchedule ==
  ASSUME IocpInv, IocpTypeOK', Schedule
  PROVE  IocpInv'
<1>1. PICK c : c = Head(rxPipe)
  OBVIOUS
<1>2. /\ rxpc = "top" /\ rxPipe # <<>> /\ stage[c] = "SCHEDULE"
      /\ stage' = [stage EXCEPT ![c] = "RECEIVE"]
      /\ rxPipe' = Tail(rxPipe) /\ responseCount' = responseCount + 1
      /\ UNCHANGED <<queryCount, txQueue, txCursor, rxpc, cursor, delivered>>
  BY <1>1 DEF Schedule, appVars, txVars
<1>3. IF responseCount > 0 THEN messages' = Append(messages, c) /\ UNCHANGED rxQueue
                           ELSE rxQueue' = rxQueue \cup {c} /\ UNCHANGED messages
  BY <1>1 DEF Schedule
<1>4. PICK p \in 0 .. Len(rxPipe) : Places(p)
  BY DEF IocpInv
<1>5. /\ c \in Cursors /\ Len(rxPipe) = Len(Tail(rxPipe)) + 1 /\ Len(Tail(rxPipe)) \in Nat
      /\ \A i \in 1 .. Len(Tail(rxPipe)) : Tail(rxPipe)[i] = Packet(p, i + 1)
      /\ p # 1 /\ c = Scheduled + 1
  BY <1>1, <1>2, <1>4, HeadOfPort
<1>6. /\ Scheduled \in Nat /\ responseCount \in Nat /\ Len(delivered) \in Nat
      /\ Oldest = Len(delivered) + 1 /\ Scheduled = Len(delivered) + responseCount
  BY Numbers DEF IocpInv
<1>7. Oldest' = Oldest /\ Scheduled' = Scheduled + 1
  <2>1. Oldest' = Oldest
    BY <1>2 DEF Oldest
  <2>2. Scheduled' = Len(delivered) + (responseCount + 1)
    BY <1>2 DEF Scheduled
  <2> QED
    BY <1>6, <2>1, <2>2
<1>8. PICK q \in 0 .. Len(rxPipe') : q = IF p = 0 THEN 0 ELSE p - 1
  BY <1>2, <1>4, <1>5
<1>9. CursorInv'
  <2>1. \A d \in Cursors : stage'[d] = (IF d <= Scheduled' THEN "RECEIVE" ELSE "SCHEDULE")
    <3>1. \A d \in Cursors : stage[d] = (IF d <= Scheduled THEN "RECEIVE" ELSE "SCHEDULE")
      BY DEF IocpInv, CursorInv
    <3>2. \A d \in Cursors : stage'[d] = IF d = c THEN "RECEIVE" ELSE stage[d]
      BY <1>2, <1>5 DEF IocpInv, IocpTypeOK, TypeOK
    <3>3. \A d \in Cursors : d \in Nat
      BY NumCursorsAssumption DEF Cursors
    <3> QED
      BY <1>5, <1>6, <1>7, <3>1, <3>2, <3>3
  <2>2. responseCount' \in Nat
    BY <1>2, <1>6
  <2> QED
    BY <1>2, <2>1, <2>2 DEF IocpInv, CursorInv
<1>10. Waiting'
  <2>1. ContinuesFrom(messages, Oldest) /\ messages \in Seq(Cursors)
        /\ Len(messages) = (IF responseCount = 0 THEN 0 ELSE responseCount - 1)
    BY DEF IocpInv, Waiting, IocpTypeOK
  <2>2. CASE responseCount > 0
    <3>1. c = Oldest + Len(messages) + 1
      BY <1>5, <1>6, <2>1, <2>2
    <3>2. messages' = Append(messages, Oldest + Len(messages) + 1)
      BY <1>3, <2>2, <3>1
    <3>3. Oldest \in Nat
      BY <1>6
    <3>4. ContinuesFrom(messages', Oldest) /\ Len(messages') = Len(messages) + 1
      BY <2>1, <3>2, <3>3, ContinuesAppend
    <3> QED
      BY <1>2, <1>6, <1>7, <2>1, <2>2, <3>4 DEF Waiting
  <2>3. CASE ~(responseCount > 0)
    BY <1>2, <1>3, <1>6, <1>7, <2>1, <2>3 DEF Waiting, ContinuesFrom
  <2> QED
    BY <2>2, <2>3
<1>11. LastOnPort(q)' = LastOnPort(p) /\ LastSent(q)' = LastSent(p)
  <2>1. LastOnPort(q)' = Scheduled + 1 + Len(Tail(rxPipe)) - (IF q = 0 THEN 0 ELSE 1)
    BY <1>2, <1>7 DEF LastOnPort
  <2>2. q = 0 <=> p = 0
    BY <1>4, <1>5, <1>8
  <2>3. LastOnPort(q)' = LastOnPort(p)
    <3>1. PICK k \in Nat, n \in Nat : k = Scheduled /\ n = Len(Tail(rxPipe))
      BY <1>5, <1>6
    <3>2. Len(rxPipe) = n + 1
      BY <1>5, <3>1
    <3>3. LastOnPort(p) = k + (n + 1) - (IF p = 0 THEN 0 ELSE 1)
      BY <3>1, <3>2 DEF LastOnPort
    <3>4. LastOnPort(q)' = k + 1 + n - (IF p = 0 THEN 0 ELSE 1)
      BY <2>1, <2>2, <3>1
    <3>5. k + (n + 1) = k + 1 + n
      OBVIOUS
    <3> QED
      BY <3>3, <3>4, <3>5
  <2> QED
    BY <1>2, <2>3 DEF LastSent
<1>12. \A i \in 1 .. Len(rxPipe') : rxPipe'[i] = Packet(q, i)'
  <2>1. ASSUME NEW i \in 1 .. Len(rxPipe')
        PROVE  rxPipe'[i] = Packet(q, i)'
    <3>1. rxPipe'[i] = Packet(p, i + 1) /\ i \in Nat
      BY <1>2, <1>5
    <3>2. Packet(q, i)' = IF q = 0 \/ i < q THEN Scheduled + 1 + i
                          ELSE IF i = q THEN Oldest ELSE Scheduled + 1 + i - 1
      BY <1>7 DEF Packet
    <3> QED
      BY <1>4, <1>5, <1>6, <1>8, <3>1, <3>2 DEF Packet
  <2> QED
    BY <2>1
<1>13. Receiving(q)'
  <2>1. CASE responseCount = 0
    <3>1. p = 0 /\ q = 0 /\ rxQueue = {} /\ cursor = None
      BY <1>4, <1>8, <2>1 DEF Places, Receiving
    <3>2. rxQueue' = {Oldest} /\ responseCount' # 0
      BY <1>2, <1>3, <1>5, <1>6, <2>1, <3>1
    <3> QED
      BY <1>2, <1>7, <3>1, <3>2 DEF Receiving
  <2>2. CASE responseCount # 0
    <3>1. UNCHANGED <<rxQueue, cursor, Oldest>> /\ responseCount' # 0
      BY <1>2, <1>3, <1>6, <1>7, <2>2
    <3>2. q = 0 <=> p = 0
      BY <1>4, <1>5, <1>8
    <3> QED
      BY <1>4, <2>2, <3>1, <3>2 DEF Places, Receiving
  <2> QED
    BY <2>1, <2>2
<1>14. Places(q)'
  <2>1. txCursor' \in {None, LastOnPort(q)' + 1}
    BY <1>2, <1>4, <1>11 DEF Places
  <2>2. ContinuesFrom(txQueue, LastSent(q))' /\ queryCount' = LastSent(q)' + Len(txQueue')
    BY <1>2, <1>4, <1>11 DEF Places, ContinuesFrom
  <2>3. q # 0 => responseCount' # 0
    BY <1>2, <1>6
  <2> QED
    BY <1>12, <1>13, <2>1, <2>2, <2>3 DEF Places
<1>15. CallbacksInOrder'
  BY <1>2 DEF IocpInv, CallbacksInOrder
<1> QED
  BY <1>8, <1>9, <1>10, <1>14, <1>15 DEF IocpInv

\* The packet of the WSARecv is taken off the port.
LEMMA OrderReceiveDone ==
  ASSUME IocpInv, IocpTypeOK', ReceiveDone
  PROVE  IocpInv'
<1>1. PICK c : c = Head(rxPipe)
  OBVIOUS
<1>2. /\ rxPipe # <<>> /\ stage[c] = "RECEIVE"
      /\ cursor' = c /\ rxPipe' = Tail(rxPipe)
      /\ UNCHANGED <<queryCount, txQueue, txCursor, rxQueue, responseCount, stage, delivered,
                     messages>>
  BY <1>1 DEF ReceiveDone, appVars, txVars, iocpVars, rxAddedVars
<1>3. rxpc' \in {"process", "aborted"}
  BY DEF ReceiveDone, Receive
<1>4. PICK p \in 0 .. Len(rxPipe) : Places(p)
  BY DEF IocpInv
<1>5. /\ c \in Cursors /\ Len(rxPipe) = Len(Tail(rxPipe)) + 1 /\ Len(Tail(rxPipe)) \in Nat
      /\ \A i \in 1 .. Len(Tail(rxPipe)) : Tail(rxPipe)[i] = Packet(p, i + 1)
      /\ p = 1 /\ c = Oldest
  BY <1>1, <1>2, <1>4, HeadOfPort
<1>6. /\ Scheduled \in Nat /\ Oldest \in Nat \ {0}
  BY Numbers DEF IocpInv
<1>7. Oldest' = Oldest /\ Scheduled' = Scheduled
  BY <1>2 DEF Oldest, Scheduled
<1>8. responseCount # 0 /\ rxQueue = {} /\ cursor = None
  BY <1>4, <1>5 DEF Places, Receiving
<1>9. CursorInv'
  <2>1. cursor' # None
    BY <1>2, <1>5, <1>6 DEF None
  <2> QED
    BY <1>2, <1>3, <1>7, <2>1 DEF IocpInv, CursorInv
<1>10. Waiting' /\ CallbacksInOrder'
  BY <1>2, <1>7 DEF IocpInv, Waiting, CallbacksInOrder, ContinuesFrom
<1>11. LastOnPort(0)' = LastOnPort(p) /\ LastSent(0)' = LastSent(p)
  <2>1. LastOnPort(0)' = Scheduled + Len(Tail(rxPipe))
    BY <1>2, <1>5, <1>6, <1>7 DEF LastOnPort
  <2>2. LastOnPort(p) = Scheduled + Len(Tail(rxPipe))
    BY <1>5, <1>6 DEF LastOnPort
  <2> QED
    BY <1>2, <2>1, <2>2 DEF LastSent
<1>12. \A i \in 1 .. Len(rxPipe') : rxPipe'[i] = Packet(0, i)'
  <2>1. ASSUME NEW i \in 1 .. Len(rxPipe')
        PROVE  rxPipe'[i] = Packet(0, i)'
    <3>1. rxPipe'[i] = Packet(p, i + 1) /\ i \in Nat /\ i > 0
      BY <1>2, <1>5
    <3>2. Packet(0, i)' = Scheduled + i
      BY <1>7 DEF Packet
    <3>3. Packet(p, i + 1) = Scheduled + (i + 1) - 1
      BY <1>5, <3>1 DEF Packet
    <3> QED
      BY <1>6, <3>1, <3>2, <3>3
  <2> QED
    BY <2>1
<1>13. Receiving(0)'
  BY <1>2, <1>5, <1>7, <1>8 DEF Receiving
<1>14. Places(0)'
  <2>1. txCursor' \in {None, LastOnPort(0)' + 1}
    BY <1>2, <1>4, <1>11 DEF Places
  <2>2. ContinuesFrom(txQueue, LastSent(0))' /\ queryCount' = LastSent(0)' + Len(txQueue')
    BY <1>2, <1>4, <1>11 DEF Places, ContinuesFrom
  <2> QED
    BY <1>12, <1>13, <2>1, <2>2 DEF Places
<1>15. 0 \in 0 .. Len(rxPipe')
  BY <1>2, <1>5
<1> QED
  BY <1>9, <1>10, <1>14, <1>15 DEF IocpInv

\* A cursor the rx thread has is the oldest, and no packet is in the port.
LEMMA CursorIsOldest ==
  ASSUME IocpInv, cursor # None, NEW p \in 0 .. Len(rxPipe), Places(p)
  PROVE  p = 0 /\ responseCount \in Nat \ {0} /\ cursor = Oldest /\ rxQueue = {}
<1>1. responseCount \in Nat
  BY DEF IocpInv, CursorInv
<1> QED
  BY <1>1 DEF Places, Receiving

\* The places of the cursors in the port and before it, when only the rx thread's
\* cursor changes.
LEMMA PlacesKept ==
  ASSUME IocpInv, NEW p \in 0 .. Len(rxPipe), Places(p), Scheduled' = Scheduled,
         p # 0 => Oldest' = Oldest,
         p # 0 => responseCount' # 0,
         UNCHANGED <<queryCount, txQueue, txCursor, rxPipe>>,
         Receiving(p)'
  PROVE  Places(p)'
<1>1. LastOnPort(p)' = LastOnPort(p) /\ LastSent(p)' = LastSent(p)
  BY DEF LastOnPort, LastSent
<1>2. \A i : Packet(p, i)' = Packet(p, i)
  BY DEF Packet
<1>3. ContinuesFrom(txQueue, LastSent(p))'
  BY <1>1 DEF Places, ContinuesFrom
<1> QED
  BY <1>1, <1>2, <1>3 DEF Places

\* An incomplete response: the cursor receives again.
LEMMA OrderReceiveMore ==
  ASSUME IocpInv, IocpTypeOK', ReceiveMore
  PROVE  IocpInv'
<1>1. /\ rxpc = "process" /\ rxQueue' = rxQueue \cup {cursor} /\ cursor' = None /\ rxpc' = "top"
      /\ UNCHANGED <<queryCount, txQueue, txCursor, rxPipe, responseCount, stage, delivered,
                     messages>>
  BY DEF ReceiveMore, appVars, txVars, iocpVars, rxAddedVars
<1>2. PICK p \in 0 .. Len(rxPipe) : Places(p)
  BY DEF IocpInv
<1>3. p = 0 /\ responseCount \in Nat \ {0} /\ cursor = Oldest /\ rxQueue = {}
  BY <1>1, <1>2, CursorIsOldest DEF IocpInv, CursorInv
<1>4. Oldest' = Oldest /\ Scheduled' = Scheduled
  BY <1>1 DEF Oldest, Scheduled
<1>5. Receiving(p)'
  BY <1>1, <1>3, <1>4 DEF Receiving
<1>6. Places(p)'
  BY <1>1, <1>2, <1>3, <1>4, <1>5, PlacesKept
<1>7. CursorInv' /\ Waiting' /\ CallbacksInOrder'
  BY <1>1, <1>4 DEF IocpInv, CursorInv, Waiting, CallbacksInOrder, ContinuesFrom
<1> QED
  BY <1>1, <1>2, <1>6, <1>7 DEF IocpInv

\* The callback of the oldest cursor is the next in order.
LEMMA OldestCallback ==
  ASSUME IocpInv, cursor = Oldest, delivered' = Append(delivered, Callback(cursor))
  PROVE  Len(delivered') = Len(delivered) + 1 /\ CallbacksInOrder'
<1> DEFINE e == Callback(cursor)
<1>1. e.cursor = Len(delivered) + 1
  BY DEF Callback, Oldest
<1>2. delivered \in Seq(Callbacks) /\ delivered' = Append(delivered, e)
  BY DEF IocpInv, IocpTypeOK, TypeOK
<1>3. \A i \in 1 .. Len(delivered) : delivered[i].cursor = i
  BY DEF IocpInv, CallbacksInOrder
<1> HIDE DEF e
<1>4. /\ Len(delivered') = Len(delivered) + 1 /\ Len(delivered) \in Nat
      /\ delivered'[Len(delivered) + 1] = e
      /\ \A i \in 1 .. Len(delivered) : delivered'[i] = delivered[i]
  BY <1>2
<1>5. \A i \in 1 .. Len(delivered') : i \in 1 .. Len(delivered) \/ i = Len(delivered) + 1
  BY <1>4
<1> QED
  BY <1>1, <1>3, <1>4, <1>5 DEF CallbacksInOrder

\* A response is complete and no cursor waits as a message: none is in flight.
LEMMA OrderClose ==
  ASSUME IocpInv, IocpTypeOK', Close
  PROVE  IocpInv'
<1>1. /\ rxpc = "process" /\ messages = <<>>
      /\ delivered' = Append(delivered, Callback(cursor))
      /\ responseCount' = responseCount - 1 /\ cursor' = None /\ rxpc' = "top"
      /\ UNCHANGED <<queryCount, txQueue, txCursor, rxPipe, rxQueue, stage, messages>>
  BY DEF Close, appVars, txVars, iocpVars, rxAddedVars
<1>2. PICK p \in 0 .. Len(rxPipe) : Places(p)
  BY DEF IocpInv
<1>3. p = 0 /\ responseCount \in Nat \ {0} /\ cursor = Oldest /\ rxQueue = {}
  BY <1>1, <1>2, CursorIsOldest DEF IocpInv, CursorInv
<1>4. Len(delivered') = Len(delivered) + 1 /\ CallbacksInOrder'
  BY <1>1, <1>3, OldestCallback
<1>5. responseCount = 1
  <2>1. Len(messages) = 0
    BY <1>1
  <2>2. Len(messages) = responseCount - 1
    BY <1>3 DEF IocpInv, Waiting
  <2> QED
    BY <1>3, <2>1, <2>2
<1>6. responseCount' = 0
  BY <1>1, <1>5
<1>7. Scheduled' = Scheduled
  <2>1. Scheduled' = (Len(delivered) + 1) + 0
    BY <1>4, <1>6 DEF Scheduled
  <2>2. Scheduled = Len(delivered) + 1 /\ Len(delivered) \in Nat
    BY <1>5, Numbers DEF Scheduled, IocpInv
  <2> QED
    BY <2>1, <2>2
<1>8. Receiving(p)'
  BY <1>1, <1>3, <1>6 DEF Receiving
<1>9. Places(p)'
  BY <1>1, <1>2, <1>3, <1>7, <1>8, PlacesKept
<1>10. CursorInv'
  BY <1>1, <1>6, <1>7 DEF IocpInv, CursorInv
<1>11. Waiting'
  <2>1. messages' = <<>>
    BY <1>1
  <2> QED
    BY <1>6, <2>1 DEF Waiting, ContinuesFrom
<1> QED
  BY <1>1, <1>2, <1>4, <1>9, <1>10, <1>11 DEF IocpInv

\* A response is complete and cursors wait as messages: the first of them is the
\* oldest now, and receives.
LEMMA OrderCloseAndSwitch ==
  ASSUME IocpInv, IocpTypeOK', CloseAndSwitch
  PROVE  IocpInv'
<1>1. PICK next : next = Head(messages)
  OBVIOUS
<1>2. /\ rxpc = "process" /\ messages # <<>>
      /\ delivered' = Append(delivered, Callback(cursor))
      /\ responseCount' = responseCount - 1 /\ messages' = Tail(messages)
      /\ UNCHANGED <<queryCount, txQueue, txCursor, rxPipe, stage>>
  BY DEF CloseAndSwitch, appVars, txVars
<1>3. /\ rxpc' \in {"top", "process", "aborted"}
      /\ \/ cursor' = next /\ rxpc' = "process" /\ UNCHANGED rxQueue
         \/ cursor' = None /\ rxpc' # "process" /\ rxQueue' = rxQueue \cup {next}
  BY <1>1 DEF CloseAndSwitch
<1>4. PICK p \in 0 .. Len(rxPipe) : Places(p)
  BY DEF IocpInv
<1>5. p = 0 /\ responseCount \in Nat \ {0} /\ cursor = Oldest /\ rxQueue = {}
  BY <1>2, <1>4, CursorIsOldest DEF IocpInv, CursorInv
<1>6. Len(delivered') = Len(delivered) + 1 /\ CallbacksInOrder'
  BY <1>2, <1>5, OldestCallback
<1>7. /\ ContinuesFrom(messages, Oldest) /\ Len(messages) = responseCount - 1
      /\ messages \in Seq(Cursors) /\ Oldest = Len(delivered) + 1 /\ Len(delivered) \in Nat
      /\ Oldest \in Nat
  BY <1>5, Numbers DEF IocpInv, Waiting, IocpTypeOK
<1>8. /\ next = Oldest + 1 /\ ContinuesFrom(messages', Oldest + 1)
      /\ Len(messages) = Len(messages') + 1 /\ Len(messages') \in Nat
  <2>1. Len(Tail(messages)) \in Nat
    BY <1>2, <1>7
  <2> QED
    BY <1>1, <1>2, <1>7, <2>1, ContinuesTail
<1>9. Oldest' = Oldest + 1 /\ Oldest' = next
  BY <1>6, <1>7, <1>8 DEF Oldest
<1>10. responseCount' \in Nat \ {0} /\ Len(messages') = responseCount' - 1
  BY <1>2, <1>5, <1>7, <1>8
<1>11. Scheduled' = Scheduled
  <2>1. Scheduled' = (Len(delivered) + 1) + (responseCount - 1)
    BY <1>2, <1>6 DEF Scheduled
  <2> QED
    BY <1>5, <1>7, <2>1 DEF Scheduled
<1>12. Receiving(p)'
  <2>1. \/ cursor' = next /\ rxQueue' = {}
        \/ cursor' = None /\ rxQueue' = {next}
    BY <1>3, <1>5
  <2> QED
    BY <1>5, <1>9, <1>10, <2>1 DEF Receiving
<1>13. Places(p)'
  BY <1>2, <1>4, <1>5, <1>11, <1>12, PlacesKept
<1>14. CursorInv'
  <2>1. next # None
    BY <1>7, <1>8 DEF None
  <2>2. /\ rxpc' \in {"top", "process", "aborted"}
        /\ rxpc' = "top" => cursor' = None
        /\ rxpc' = "process" => cursor' # None
    BY <1>3, <2>1
  <2>3. \A c \in Cursors : stage'[c] = (IF c <= Scheduled' THEN "RECEIVE" ELSE "SCHEDULE")
    BY <1>2, <1>11 DEF IocpInv, CursorInv
  <2> QED
    BY <1>10, <2>2, <2>3 DEF CursorInv
<1>15. Waiting'
  <2>1. ContinuesFrom(messages', Oldest')
    BY <1>8, <1>9
  <2> QED
    BY <1>10, <2>1 DEF Waiting, ContinuesFrom
<1> QED
  BY <1>2, <1>4, <1>6, <1>13, <1>14, <1>15 DEF IocpInv

-----------------------------------------------------------------------------
(***************************************************************************)
(* The invariant holds.                                                    *)
(***************************************************************************)

LEMMA IocpInvInit == IocpInit => IocpInv
<1> SUFFICES ASSUME IocpInit PROVE IocpInv
  OBVIOUS
<1>1. /\ delivered = <<>> /\ responseCount = 0 /\ rxPipe = <<>> /\ rxQueue = {}
      /\ cursor = None /\ rxpc = "top" /\ txCursor = None /\ txQueue = <<>>
      /\ queryCount = 0 /\ messages = <<>>
      /\ stage = [c \in Cursors |-> "SCHEDULE"]
  BY DEF IocpInit, Init
<1>2. IocpTypeOK
  <2>1. TypeOK
    BY TypeInvInit DEF IocpInit, TypeInv
  <2>2. <<>> \in Seq(Bytes) /\ <<>> \in Seq(Cursors)
    OBVIOUS
  <2> QED
    BY <2>1, <2>2 DEF IocpInit, IocpTypeOK
<1>3. Scheduled = 0
  BY <1>1 DEF Scheduled
<1>4. CursorInv
  <2>1. \A c \in Cursors : ~(c <= 0)
    BY NumCursorsAssumption DEF Cursors
  <2> QED
    BY <1>1, <1>3, <2>1 DEF CursorInv
<1>5. Waiting /\ CallbacksInOrder
  BY <1>1 DEF Waiting, CallbacksInOrder, ContinuesFrom
<1>6. Places(0)
  <2>1. LastOnPort(0) = 0 /\ LastSent(0) = 0
    BY <1>1, <1>3 DEF LastOnPort, LastSent
  <2> QED
    BY <1>1, <2>1 DEF Places, Receiving, ContinuesFrom
<1>7. 0 \in 0 .. Len(rxPipe)
  BY <1>1
<1> QED
  BY <1>2, <1>4, <1>5, <1>6, <1>7 DEF IocpInv

LEMMA IocpInvStep == IocpInv /\ [IocpNext]_allVars => IocpInv'
<1> SUFFICES ASSUME IocpInv, [IocpNext]_allVars PROVE IocpInv'
  OBVIOUS
<1>0. IocpTypeOK /\ (rxpc = "process" => cursor # None)
  BY DEF IocpInv, CursorInv
<1>1. CASE UNCHANGED allVars \/ (Finished /\ UNCHANGED iocpVars)
  <2>1. UNCHANGED allVars
    BY <1>1 DEF Finished, allVars
  <2>2. IocpTypeOK'
    BY <1>0, <2>1
    DEF IocpTypeOK, TypeOK, allVars, vars, appVars, txVars, netVars, rxVars, iocpVars, rxAddedVars, net2Vars
  <2> QED
    BY <2>1, <2>2, SamePlaces DEF allVars, vars, appVars, txVars, iocpVars, rxAddedVars
<1>2. CASE CTCursorSendOnQueue /\ UNCHANGED iocpVars
  BY <1>0, <1>2, IocpTypeOthers, OrderSend
<1>3. CASE IocpTxThread
  BY <1>0, <1>3, IocpTypeOthers, OrderTxSend, OrderTxPost DEF IocpTxThread, TxThread
<1>4. CASE Deliver /\ UNCHANGED iocpVars
  <2>1. IocpTypeOK'
    BY <1>0, <1>4, IocpTypeOthers
  <2>2. UNCHANGED <<queryCount, txQueue, txCursor, rxPipe, rxVars, messages>>
    BY <1>4 DEF Deliver, appVars, txVars, iocpVars, rxAddedVars
  <2> QED
    BY <2>1, <2>2, SamePlaces
<1>5. CASE IocpAnswer \/ DeliverSecond
  <2>1. IocpTypeOK'
    BY <1>0, <1>5, IocpTypeOthers
  <2>2. UNCHANGED <<queryCount, txQueue, txCursor, rxPipe, rxVars, messages>>
    BY <1>5 DEF IocpAnswer, DeliverSecond, vars, appVars, txVars, rxAddedVars
  <2> QED
    BY <2>1, <2>2, SamePlaces
<1>6. CASE WSARecvDone
  BY <1>0, <1>6, IocpTypePort, OrderRecvDone
<1>7. CASE Schedule
  BY <1>0, <1>7, IocpTypePort, OrderSchedule
<1>8. CASE ReceiveDone
  BY <1>0, <1>8, IocpTypePort, OrderReceiveDone
<1>9. CASE ReceiveMore \/ Close \/ CloseAndSwitch
  <2>1. cursor # None
    BY <1>0, <1>9 DEF ReceiveMore, Close, CloseAndSwitch
  <2> QED
    BY <1>0, <1>9, <2>1, IocpTypeClose, OrderReceiveMore, OrderClose, OrderCloseAndSwitch
<1> QED
  BY <1>1, <1>2, <1>3, <1>4, <1>5, <1>6, <1>7, <1>8, <1>9
  DEF IocpNext, IocpRxThread, IocpNetwork

LEMMA IocpInvariance == IocpSpec => []IocpInv
BY IocpInvInit, IocpInvStep, PTL DEF IocpSpec

\* Every queue, port and buffer of the two connections holds what its type says,
\* in any interleaving of the packets, also when the process is about to die.
THEOREM IocpTypeCorrect == IocpSpec => []IocpTypeOK
<1>1. IocpInv => IocpTypeOK
  BY DEF IocpInv
<1> QED
  BY <1>1, IocpInvariance, PTL

\* The callbacks come in the order of the requests, each once, across both
\* connections: no packet makes the rx thread serve a cursor before its turn.
THEOREM IocpInOrder == IocpSpec => []CallbacksInOrder
<1>1. IocpInv => CallbacksInOrder
  BY DEF IocpInv
<1> QED
  BY <1>1, IocpInvariance, PTL

\* The cursors in flight are the ones after the last called back.
LEMMA FlightIsInterval ==
  ASSUME IocpInv
  PROVE  InFlight = Oldest .. Scheduled
<1>1. PICK p \in 0 .. Len(rxPipe) : Places(p)
  BY DEF IocpInv
<1>2. IocpTypeOK /\ CursorInv
  BY DEF IocpInv
<1>3. queryCount = LastSent(p) + Len(txQueue) /\ queryCount <= NumCursors /\ queryCount \in Nat
  BY <1>1, <1>2, NumCursorsAssumption DEF Places, IocpTypeOK, TypeOK
<1>4. LastOnPort(p) >= Scheduled /\ LastSent(p) >= LastOnPort(p) /\ LastSent(p) \in Nat
      /\ LastOnPort(p) \in Nat
  BY <1>2, LastNumbers
<1>5. Len(txQueue) \in Nat /\ Scheduled \in Nat /\ Len(delivered) \in Nat
      /\ Oldest = Len(delivered) + 1
  BY <1>2, Numbers
<1>6. Scheduled <= NumCursors
  BY <1>3, <1>4, <1>5, NumCursorsAssumption
<1>7. \A c \in Cursors : stage[c] = "RECEIVE" <=> c <= Scheduled
  BY <1>2 DEF CursorInv
<1>8. \A c : c \in InFlight <=> c \in Oldest .. Scheduled
  BY <1>5, <1>6, <1>7, NumCursorsAssumption DEF InFlight, Cursors
<1> QED
  BY <1>8

\* Of the packets in the port, only the oldest cursor's is that of a WSARecv.
LEMMA PacketStages ==
  ASSUME IocpInv, NEW p \in 0 .. Len(rxPipe), Places(p)
  PROVE  {c \in Range(rxPipe) : stage[c] = "RECEIVE"} = IF p = 0 THEN {} ELSE {Oldest}
<1>1. IocpTypeOK /\ CursorInv
  BY DEF IocpInv
<1>2. rxPipe \in Seq(Cursors) /\ Len(rxPipe) \in Nat /\ DOMAIN rxPipe = 1 .. Len(rxPipe)
  BY <1>1 DEF IocpTypeOK, TypeOK
<1>3. /\ Scheduled \in Nat /\ Len(delivered) \in Nat /\ responseCount \in Nat
      /\ Oldest = Len(delivered) + 1 /\ Scheduled = Len(delivered) + responseCount
  BY <1>1, Numbers DEF CursorInv, Scheduled
<1>4. \A i \in 1 .. Len(rxPipe) : rxPipe[i] \in Cursors /\ rxPipe[i] = Packet(p, i)
  BY <1>2 DEF Places
<1>5. \A c \in Cursors : stage[c] = "RECEIVE" <=> c <= Scheduled
  BY <1>1 DEF CursorInv
<1>6. \A i \in 1 .. Len(rxPipe) : stage[rxPipe[i]] = "RECEIVE" <=> (p # 0 /\ i = p)
  <2>1. SUFFICES ASSUME NEW i \in 1 .. Len(rxPipe)
                 PROVE  stage[rxPipe[i]] = "RECEIVE" <=> (p # 0 /\ i = p)
    OBVIOUS
  <2>2. p # 0 => responseCount # 0
    BY DEF Places
  <2>3. Packet(p, i) <= Scheduled <=> (p # 0 /\ i = p)
    BY <1>2, <1>3, <2>2 DEF Packet
  <2> QED
    BY <1>4, <1>5, <2>3
<1>7. p # 0 => rxPipe[p] = Oldest
  BY <1>2, <1>4 DEF Packet
<1>8. \A c : c \in Range(rxPipe) <=> \E i \in 1 .. Len(rxPipe) : c = rxPipe[i]
  BY <1>2 DEF Range
<1>9. CASE p = 0
  BY <1>6, <1>8, <1>9
<1>10. CASE p # 0
  <2>1. p \in 1 .. Len(rxPipe)
    BY <1>2, <1>10
  <2> QED
    BY <1>6, <1>7, <1>8, <1>10, <2>1
<1> QED
  BY <1>9, <1>10

\* The oldest cursor in flight receives, and no other.
LEMMA OldestReceives ==
  ASSUME IocpInv
  PROVE  Receivers = IF responseCount = 0 THEN {} ELSE {Oldest}
<1>1. PICK p \in 0 .. Len(rxPipe) : Places(p)
  BY DEF IocpInv
<1>2. {c \in Range(rxPipe) : stage[c] = "RECEIVE"} = IF p = 0 THEN {} ELSE {Oldest}
  BY <1>1, PacketStages
<1>3. Receivers = rxQueue \cup (IF p = 0 THEN {} ELSE {Oldest}) \cup ({cursor} \ {None})
  BY <1>2 DEF Receivers
<1>4. Oldest # None
  BY Numbers DEF IocpInv, None
<1>5. Receiving(p) /\ (p # 0 => responseCount # 0)
  BY <1>1 DEF Places
<1>6. CASE responseCount = 0
  BY <1>3, <1>5, <1>6 DEF Receiving
<1>7. CASE responseCount # 0 /\ p # 0
  BY <1>3, <1>5, <1>7 DEF Receiving
<1>8. CASE responseCount # 0 /\ p = 0
  BY <1>3, <1>4, <1>5, <1>8 DEF Receiving
<1> QED
  BY <1>6, <1>7, <1>8

\* What the counter counts, and who receives.
LEMMA OneReceiverOfInv == IocpInv => OneReceiver
<1> SUFFICES ASSUME IocpInv
             PROVE  OneReceiver
  OBVIOUS
<1>1. IocpTypeOK /\ CursorInv /\ Waiting
  BY DEF IocpInv
<1>2. /\ Scheduled \in Nat /\ Len(delivered) \in Nat /\ responseCount \in Nat
      /\ Oldest = Len(delivered) + 1 /\ Scheduled = Len(delivered) + responseCount
  BY <1>1, Numbers DEF CursorInv, Scheduled
<1>3. InFlight = Oldest .. Scheduled
  BY FlightIsInterval
<1>4. responseCount = Cardinality(InFlight)
  <2>1. Oldest \in Int /\ Scheduled \in Int
    BY <1>2
  <2>2. Cardinality(Oldest .. Scheduled) =
          IF Oldest > Scheduled THEN 0 ELSE Scheduled - Oldest + 1
    BY <2>1, FS_Interval
  <2>3. responseCount = IF Oldest > Scheduled THEN 0 ELSE Scheduled - Oldest + 1
    BY <1>2
  <2> QED
    BY <1>3, <2>2, <2>3
<1>5. Receivers = IF responseCount = 0 THEN {} ELSE {Oldest}
  BY OldestReceives
<1>6. (InFlight = {}) <=> (responseCount = 0)
  BY <1>2, <1>3
<1>7. /\ InFlight # {} => Receivers = {Len(delivered) + 1}
      /\ InFlight = {} => Receivers = {}
  BY <1>2, <1>5, <1>6
<1>8. ContinuesFrom(messages, Len(delivered) + 1)
  BY <1>1, <1>2 DEF Waiting
<1>9. Range(messages) = InFlight \ Receivers
  <2>1. messages \in Seq(Cursors) /\ Len(messages) \in Nat /\ DOMAIN messages = 1 .. Len(messages)
    BY <1>1 DEF IocpTypeOK
  <2>2. \A i \in 1 .. Len(messages) : messages[i] = Oldest + i
    BY <1>2, <1>8 DEF ContinuesFrom
  <2>3. Len(messages) = IF responseCount = 0 THEN 0 ELSE responseCount - 1
    BY <1>1 DEF Waiting
  <2>4. \A c : c \in Range(messages) <=> \E i \in 1 .. Len(messages) : c = Oldest + i
    BY <2>1, <2>2 DEF Range
  <2>5. \A c : (\E i \in 1 .. Len(messages) : c = Oldest + i) <=> c \in (Oldest + 1) .. Scheduled
    <3>1. ASSUME NEW c, c \in (Oldest + 1) .. Scheduled
          PROVE  c - Oldest \in 1 .. Len(messages) /\ c = Oldest + (c - Oldest)
      BY <1>2, <2>1, <2>3, <3>1
    <3>2. ASSUME NEW i \in 1 .. Len(messages)
          PROVE  Oldest + i \in (Oldest + 1) .. Scheduled
      BY <1>2, <2>1, <2>3
    <3> QED
      BY <3>1, <3>2
  <2>6. InFlight \ Receivers = (Oldest + 1) .. Scheduled
    <3>1. CASE responseCount = 0
      BY <1>2, <1>3, <1>5, <3>1
    <3>2. CASE responseCount # 0
      BY <1>2, <1>3, <1>5, <3>2
    <3> QED
      BY <3>1, <3>2
  <2> QED
    BY <2>4, <2>5, <2>6
<1> QED
  BY <1>4, <1>7, <1>8, <1>9 DEF OneReceiver

\* The counter that both connections share counts exactly the cursors scheduled
\* and not called back, one of them receives, and the rest wait as messages in
\* the order of the requests: with several connections on one completion port,
\* with responses that outrun their cursors, and with headers cut anywhere.
THEOREM OneCursorReceives == IocpSpec => []OneReceiver
BY OneReceiverOfInv, IocpInvariance, PTL

-----------------------------------------------------------------------------
(***************************************************************************)
(* The bytes of a connection.                                              *)
(***************************************************************************)

\* Cursor d is sent behind c on the same connection, with none between them.
NextSent(c, d) ==
  /\ c < d /\ SameConn(c, d)
  /\ \A e \in Cursors : c < e /\ e < d => ~SameConn(c, e)

\* Byte n comes after byte b in the stream of a connection.
FollowsOnConn(b, n) ==
  IF b.pos < Size(b.req)
  THEN n = [b EXCEPT !.pos = @ + 1]
  ELSE n.pos = 1 /\ NextSent(b.req, n.req)

\* s is the stream of c's connection from the response to c on, as far as it goes.
ConnStreamFrom(c, s) ==
  /\ s # <<>> => s[1] = [req |-> c, pos |-> 1]
  /\ \A i \in 1 .. (Len(s) - 1) : FollowsOnConn(s[i], s[i + 1])

\* s ends with the response to a, where it does not end before c.
EndsWith(c, a, s) ==
  /\ \A i \in 1 .. Len(s) : /\ s[i] \in Bytes /\ s[i].pos >= 1
                            /\ s[i].req <= a /\ SameConn(c, s[i].req)
  /\ IF s = <<>> THEN a < c ELSE s[Len(s)] = [req |-> a, pos |-> Size(a)]

\* s ends with no part of a header.
UncutHeader(s) == s # <<>> => s[Len(s)].pos >= HeaderLen

LEMMA SameConnEquiv ==
  /\ \A c : SameConn(c, c)
  /\ \A c, d : SameConn(c, d) => SameConn(d, c)
  /\ \A c, d, e : SameConn(c, d) /\ SameConn(d, e) => SameConn(c, e)
BY DEF SameConn

LEMMA NextIsUnique ==
  ASSUME NEW c \in Cursors, NEW d \in Cursors, NEW e \in Cursors, NextSent(c, d), NextSent(c, e)
  PROVE  d = e
BY DEF NextSent, Cursors

LEMMA ConnInResponses ==
  ASSUME NEW c, NEW s, ConnStreamFrom(c, s)
  PROVE  InResponses(c, s)
BY DEF ConnStreamFrom, InResponses, FollowsOnConn

\* What begins with a response begins with it also when its end is cut off.
LEMMA PrefixInResponses ==
  ASSUME NEW c, NEW s \in Seq(Units), NEW t \in Seq(Units), InResponses(c, s \o t)
  PROVE  InResponses(c, s)
<1> DEFINE u == s \o t
<1>1. Len(s) \in Nat /\ Len(t) \in Nat /\ Len(u) = Len(s) + Len(t)
  BY Joined
<1>2. \A i \in 1 .. Len(s) : u[i] = s[i]
  BY Joined
<1>3. InResponses(c, u)
  OBVIOUS
<1> HIDE DEF u
<1>4. s # <<>> => s[1] = [req |-> c, pos |-> 1]
  <2> SUFFICES ASSUME s # <<>> PROVE s[1] = [req |-> c, pos |-> 1]
    OBVIOUS
  <2>1. 1 \in 1 .. Len(s)
    BY <1>1
  <2>2. u # <<>>
    BY <1>1, <2>1
  <2> QED
    BY <1>2, <1>3, <2>1, <2>2 DEF InResponses
<1>5. ASSUME NEW i \in 1 .. (Len(s) - 1), s[i].pos < Size(s[i].req)
      PROVE  s[i + 1] = [s[i] EXCEPT !.pos = @ + 1]
  <2>1. i \in 1 .. Len(s) /\ i + 1 \in 1 .. Len(s) /\ i \in 1 .. (Len(u) - 1)
    BY <1>1
  <2> QED
    BY <1>2, <1>3, <1>5, <2>1 DEF InResponses
<1> QED
  BY <1>4, <1>5 DEF InResponses

\* Bytes that end with no part of a header hold the whole first header.
LEMMA UncutIsWhole ==
  ASSUME TypeOK, NEW c \in Cursors, NEW s \in Seq(Units), s # <<>>, InResponses(c, s),
         UncutHeader(s)
  PROVE  /\ Len(s) >= HeaderLen
         /\ \A i \in 1 .. HeaderLen : s[i] = [req |-> c, pos |-> i]
<1>1. Size(c) \in Nat /\ HeaderLen \in Nat /\ Size(c) >= HeaderLen /\ HeaderLen >= 1
  BY SizeType
<1>2. Len(s) \in Nat /\ Len(s) >= 1 /\ Len(s) \in 1 .. Len(s)
  OBVIOUS
<1>3. Len(s) >= HeaderLen
  <2> SUFFICES ASSUME Len(s) < HeaderLen PROVE FALSE
    BY <1>1, <1>2
  <2>1. Len(s) <= Size(c)
    BY <1>1, <1>2
  <2>2. s[Len(s)] = [req |-> c, pos |-> Len(s)]
    BY <1>2, <2>1, ResponseElement
  <2>3. s[Len(s)].pos = Len(s)
    BY <2>2
  <2> QED
    BY <1>1, <1>2, <2>3 DEF UncutHeader
<1>4. ASSUME NEW i \in 1 .. HeaderLen PROVE s[i] = [req |-> c, pos |-> i]
  <2>1. i \in 1 .. Len(s) /\ i <= Size(c)
    BY <1>1, <1>2, <1>3
  <2> QED
    BY <2>1, ResponseElement
<1> QED
  BY <1>3, <1>4

\* What is behind the first response of a stream: the response to the next cursor.
LEMMA BehindResponse ==
  ASSUME TypeOK, NEW c \in Cursors, NEW s \in Seq(Units), ConnStreamFrom(c, s),
         NEW a \in Nat, EndsWith(c, a, s), Size(c) < Len(s)
  PROVE  /\ s[Size(c) + 1].req \in Cursors /\ NextSent(c, s[Size(c) + 1].req)
         /\ s[Size(c) + 1] = [req |-> s[Size(c) + 1].req, pos |-> 1]
<1> DEFINE L == Size(c)
<1>1. L \in Nat /\ L >= 1 /\ Len(s) \in Nat
  BY SizeType
<1>2. L \in 1 .. (Len(s) - 1) /\ L \in 1 .. Len(s) /\ L + 1 \in 1 .. Len(s) /\ L <= Size(c)
  BY <1>1
<1>3. s[L] = [req |-> c, pos |-> L]
  BY <1>2, ConnInResponses, ResponseElement
<1>4. FollowsOnConn(s[L], s[L + 1])
  BY <1>2 DEF ConnStreamFrom
<1>5. s[L + 1].pos = 1 /\ NextSent(c, s[L + 1].req)
  <2>1. s[L].req = c /\ s[L].pos = L
    BY <1>3
  <2>2. ~(s[L].pos < Size(s[L].req))
    BY <1>1, <2>1
  <2> QED
    BY <1>4, <2>1, <2>2 DEF FollowsOnConn
<1>6. s[L + 1] \in Bytes
  BY <1>2 DEF EndsWith
<1> QED
  BY <1>5, <1>6 DEF Bytes

\* Without its first response, the stream is the one from the next cursor on.
LEMMA ConnTail ==
  ASSUME TypeOK, NEW c \in Cursors, NEW d \in Cursors, NextSent(c, d),
         NEW s \in Seq(Units), ConnStreamFrom(c, s), NEW a \in Nat, EndsWith(c, a, s),
         Size(c) <= Len(s), NEW t \in Seq(Units), Len(t) = Len(s) - Size(c),
         \A i \in 1 .. Len(t) : t[i] = s[Size(c) + i]
  PROVE  ConnStreamFrom(d, t) /\ EndsWith(d, a, t)
<1> DEFINE L == Size(c)
<1>1. L \in Nat /\ L >= 1 /\ Len(s) \in Nat /\ L <= Len(s)
  BY SizeType
<1> HIDE DEF L
<1>2. \A i \in 1 .. Len(t) : t[i] = s[L + i]
  BY DEF L
<1>2a. Len(t) = Len(s) - L /\ Len(t) \in Nat
  BY DEF L
<1>3. t # <<>> => t[1] = [req |-> d, pos |-> 1]
  <2> SUFFICES ASSUME t # <<>> PROVE t[1] = [req |-> d, pos |-> 1]
    OBVIOUS
  <2>1. Len(t) >= 1
    BY <1>2a
  <2>2. t[1] = s[L + 1] /\ L < Len(s)
    BY <1>1, <1>2, <1>2a, <2>1
  <2> DEFINE b == s[L + 1]
  <2>3. b.req \in Cursors /\ NextSent(c, b.req) /\ b = [req |-> b.req, pos |-> 1]
    BY <2>2, BehindResponse DEF L
  <2> HIDE DEF b
  <2>4. b.req = d
    BY <2>3, NextIsUnique
  <2> QED
    BY <2>2, <2>3, <2>4 DEF b
<1>4. ConnStreamFrom(d, t)
  <2>1. ASSUME NEW i \in 1 .. (Len(t) - 1)
        PROVE  FollowsOnConn(t[i], t[i + 1])
    <3>1. L + i \in 1 .. (Len(s) - 1) /\ (L + i) + 1 = L + (i + 1)
          /\ i \in 1 .. Len(t) /\ i + 1 \in 1 .. Len(t)
      BY <1>1, <1>2a
    <3>2. FollowsOnConn(s[L + i], s[(L + i) + 1])
      BY <3>1 DEF ConnStreamFrom
    <3> QED
      BY <1>2, <3>1, <3>2
  <2> QED
    BY <1>3, <2>1 DEF ConnStreamFrom
<1>5. s # <<>> /\ s[Len(s)] = [req |-> a, pos |-> Size(a)]
  BY <1>1 DEF EndsWith
<1>6. SameConn(c, d) /\ c < d
  BY DEF NextSent
<1>7. ASSUME NEW i \in 1 .. Len(t)
      PROVE  t[i] \in Bytes /\ t[i].pos >= 1 /\ t[i].req <= a /\ SameConn(d, t[i].req)
  <2>1. L + i \in 1 .. Len(s)
    BY <1>1, <1>2, <1>2a
  <2>2. /\ s[L + i] \in Bytes /\ s[L + i].pos >= 1
        /\ s[L + i].req <= a /\ SameConn(c, s[L + i].req)
    BY <2>1 DEF EndsWith
  <2> QED
    BY <1>2, <1>2a, <1>6, <2>2, SameConnEquiv
<1>8. t = <<>> => a < d
  <2> SUFFICES ASSUME t = <<>> PROVE a < d
    OBVIOUS
  <2>1. Len(s) = L /\ L \in 1 .. Len(s)
    BY <1>1, <1>2, <1>2a
  <2>2. s[L] = [req |-> c, pos |-> L]
    BY <1>1, <2>1, ConnInResponses, ResponseElement DEF L
  <2>3. a = c
    BY <1>5, <2>1, <2>2
  <2> QED
    BY <1>6, <2>3
<1>9. t # <<>> => t[Len(t)] = [req |-> a, pos |-> Size(a)]
  <2> SUFFICES ASSUME t # <<>> PROVE t[Len(t)] = [req |-> a, pos |-> Size(a)]
    OBVIOUS
  <2>1. Len(t) \in 1 .. Len(t) /\ L + Len(t) = Len(s)
    BY <1>1, <1>2, <1>2a
  <2> QED
    BY <1>2, <1>5, <2>1
<1> QED
  BY <1>4, <1>7, <1>8, <1>9 DEF EndsWith

\* t is s with the response to d behind it.
Extended(s, d, t) ==
  /\ t \in Seq(Units) /\ Len(t) = Len(s) + Size(d)
  /\ \A i \in 1 .. Len(s) : t[i] = s[i]
  /\ \A i \in 1 .. Size(d) : t[Len(s) + i] = [req |-> d, pos |-> i]

LEMMA ResponseExtends ==
  ASSUME TypeOK, NEW d \in Cursors, NEW s \in Seq(Units)
  PROVE  Extended(s, d, s \o Response(d))
<1> DEFINE w == Response(d)
           t == s \o w
           L == Size(d)
<1>1. /\ w \in Seq(Units) /\ Len(w) = L
      /\ \A i \in 1 .. L : w[i] = [req |-> d, pos |-> i]
  <2>1. /\ w \in Seq(Bytes) /\ Len(w) = L
        /\ \A i \in 1 .. L : w[i] = [req |-> d, pos |-> i]
    BY ResponseBytes
  <2> HIDE DEF w
  <2> QED
    BY <2>1 DEF Units
<1> HIDE DEF w, L
<1>2. t \in Seq(Units) /\ Len(t) = Len(s) + L
  BY <1>1, Joined
<1>3. \A i \in 1 .. Len(s) : t[i] = s[i]
  BY <1>1, Joined
<1>4. \A i \in 1 .. L : t[Len(s) + i] = w[i]
  BY <1>1, Joined
<1> QED
  BY <1>1, <1>2, <1>3, <1>4 DEF Extended, L, w

\* A stream that ends with a response goes on with that to the next cursor.
LEMMA ConnAppend ==
  ASSUME TypeOK, NEW c \in Cursors, NEW d \in Cursors, NEW a \in Nat,
         NEW s \in Seq(Units), ConnStreamFrom(c, s), EndsWith(c, a, s), SameConn(c, d),
         IF s = <<>> THEN d = c ELSE NextSent(a, d),
         NEW t, Extended(s, d, t)
  PROVE  /\ t \in Seq(Units) /\ ConnStreamFrom(c, t) /\ EndsWith(c, d, t)
         /\ \A i \in 1 .. Len(t) : t[i].req = d \/ (i \in 1 .. Len(s) /\ t[i] = s[i])
<1> DEFINE k == Len(s)
           L == Size(d)
<1>2. L \in Nat /\ L >= 1 /\ k \in Nat /\ d \in Nat
  BY SizeType DEF Cursors
<1>4. /\ t \in Seq(Units) /\ Len(t) = k + L
      /\ \A i \in 1 .. k : t[i] = s[i]
      /\ \A i \in 1 .. L : t[k + i] = [req |-> d, pos |-> i]
  BY DEF Extended
<1>5. ASSUME NEW i \in 1 .. Len(t)
      PROVE  i \in 1 .. k \/ (i - k \in 1 .. L /\ t[i] = [req |-> d, pos |-> i - k])
  <2>1. i \in 1 .. k \/ i - k \in 1 .. L
    BY <1>2, <1>4
  <2>2. i - k \in 1 .. L => t[k + (i - k)] = [req |-> d, pos |-> i - k]
    BY <1>4
  <2>3. k + (i - k) = i
    BY <1>2
  <2> QED
    BY <2>1, <2>2, <2>3
<1> HIDE DEF k, L
<1>6. ASSUME NEW i \in 1 .. Len(t)
      PROVE  t[i].req = d \/ (i \in 1 .. Len(s) /\ t[i] = s[i])
  <2>1. CASE i \in 1 .. k
    BY <1>4, <2>1 DEF k
  <2>2. CASE t[i] = [req |-> d, pos |-> i - k]
    BY <2>2
  <2> QED
    BY <1>5, <2>1, <2>2
<1>7. s # <<>> => /\ k \in 1 .. k /\ s[k] = [req |-> a, pos |-> Size(a)] /\ NextSent(a, d)
                  /\ a \in Cursors
  <2> SUFFICES ASSUME s # <<>>
               PROVE  k \in 1 .. k /\ s[k] = [req |-> a, pos |-> Size(a)] /\ NextSent(a, d)
                      /\ a \in Cursors
    OBVIOUS
  <2>1. k \in 1 .. k
    BY DEF k
  <2>2. s[k] = [req |-> a, pos |-> Size(a)] /\ s[k] \in Bytes
    BY <2>1 DEF EndsWith, k
  <2> QED
    BY <2>1, <2>2 DEF Bytes
<1>8. t[1] = [req |-> c, pos |-> 1]
  <2>1. CASE s = <<>>
    <3>1. k = 0 /\ d = c
      BY <2>1 DEF k
    <3> QED
      BY <1>2, <1>4, <3>1
  <2>2. CASE s # <<>>
    <3>1. 1 \in 1 .. k
      BY <1>2, <1>7, <2>2
    <3> QED
      BY <1>4, <2>2, <3>1 DEF ConnStreamFrom
  <2> QED
    BY <2>1, <2>2
<1>9. ASSUME NEW i \in 1 .. (Len(t) - 1)
      PROVE  FollowsOnConn(t[i], t[i + 1])
  <2>0. i \in Nat /\ i >= 1 /\ i < k + L
    BY <1>2, <1>4
  <2>1. CASE i < k
    <3>1. i \in 1 .. (k - 1) /\ i \in 1 .. k /\ i + 1 \in 1 .. k
      BY <1>2, <2>0, <2>1
    <3> QED
      BY <1>4, <3>1 DEF ConnStreamFrom, k
  <2>2. CASE i = k
    <3>1. s # <<>>
      BY <2>0, <2>2 DEF k
    <3>2. t[i] = [req |-> a, pos |-> Size(a)]
      BY <1>4, <1>7, <2>2, <3>1
    <3>3. t[i + 1] = [req |-> d, pos |-> 1]
      BY <1>2, <1>4, <2>2
    <3>4. Size(a) \in Nat /\ NextSent(a, d)
      BY <1>7, <3>1, SizeType
    <3>5. t[i].req = a /\ t[i].pos = Size(a) /\ t[i + 1].pos = 1 /\ t[i + 1].req = d
      BY <3>2, <3>3
    <3>6. ~(t[i].pos < Size(t[i].req))
      BY <3>4, <3>5
    <3> QED
      BY <3>4, <3>5, <3>6 DEF FollowsOnConn
  <2>3. CASE i > k
    <3> DEFINE j == i - k
    <3>1. /\ j \in 1 .. L /\ j + 1 \in 1 .. L
          /\ i = k + j /\ i + 1 = k + (j + 1) /\ j < L /\ j \in Nat
      BY <1>2, <2>0, <2>3
    <3> HIDE DEF j
    <3>2. t[i] = [req |-> d, pos |-> j] /\ t[i + 1] = [req |-> d, pos |-> j + 1]
      BY <1>4, <3>1
    <3>3. [t[i] EXCEPT !.pos = @ + 1] = [req |-> d, pos |-> j + 1]
      BY <3>2
    <3>4. t[i].req = d /\ t[i].pos = j
      BY <3>2
    <3> QED
      BY <3>1, <3>2, <3>3, <3>4 DEF FollowsOnConn, L
  <2> QED
    BY <1>2, <2>0, <2>1, <2>2, <2>3
<1>10. ASSUME NEW i \in 1 .. Len(t)
       PROVE  t[i] \in Bytes /\ t[i].pos >= 1 /\ t[i].req <= d /\ SameConn(c, t[i].req)
  <2>1. CASE i \in 1 .. k
    <3>1. t[i] = s[i] /\ s # <<>>
      BY <1>4, <2>1 DEF k
    <3>2. s[i] \in Bytes /\ s[i].pos >= 1 /\ s[i].req <= a /\ SameConn(c, s[i].req)
      BY <2>1 DEF EndsWith, k
    <3>3. s[i].req \in Nat
      BY <3>2 DEF Bytes, Cursors
    <3>4. a < d
      BY <1>7, <3>1 DEF NextSent
    <3> QED
      BY <1>2, <3>1, <3>2, <3>3, <3>4
  <2>2. CASE i - k \in 1 .. L /\ t[i] = [req |-> d, pos |-> i - k]
    <3> DEFINE j == i - k
    <3>1. j \in Nat /\ j >= 1 /\ t[i] = [req |-> d, pos |-> j]
      BY <1>2, <2>2
    <3> HIDE DEF j
    <3> QED
      BY <1>2, <3>1 DEF Bytes
  <2> QED
    BY <1>5, <2>1, <2>2
<1>11. t # <<>> /\ t[Len(t)] = [req |-> d, pos |-> Size(d)]
  <2>1. L \in 1 .. L /\ Len(t) = k + L /\ Len(t) # 0
    BY <1>2, <1>4
  <2> QED
    BY <1>4, <2>1 DEF L
<1> QED
  BY <1>4, <1>6, <1>8, <1>9, <1>10, <1>11 DEF ConnStreamFrom, EndsWith

-----------------------------------------------------------------------------
(***************************************************************************)
(* The bytes of the two connections, where no response outruns its cursor  *)
(* and no header is cut.  On each connection the bytes from the buffer of  *)
(* the cursor that is called back next to the end of the network are one   *)
(* stream of whole responses, whatever the cursors of the other connection *)
(* between them.                                                           *)
(***************************************************************************)

\* The numbers in s ascend; e is one of them.
Ascending(s) == \A i, j \in 1 .. Len(s) : i < j => s[i] < s[j]

Holds(s, e) == \E i \in 1 .. Len(s) : s[i] = e

\* The bytes of c's connection that the socket has, and that are under way.
SockOf(c) == IF c \in Second THEN sock2 ELSE sock
NetOf(c)  == IF c \in Second THEN net2 ELSE net

\* The bytes of the WSARecv whose packet is in the port.
Arrived(c) ==
  IF c = Oldest /\ responseCount # 0 /\ rxQueue = {} /\ cursor = None
  THEN transferred[c] ELSE <<>>

\* What is on its way to c, and all that its connection has for it.
Coming(c)     == Arrived(c) \o (SockOf(c) \o NetOf(c))
ConnStream(c) == Received(c) \o Coming(c)

\* c is the next of its connection to be called back.
FirstLeft(c) ==
  /\ c > Len(delivered)
  /\ \A d \in Cursors : SameConn(c, d) /\ d < c => d <= Len(delivered)

\* The last cursor whose request was sent.
Taken == queryCount - Len(txQueue)

\* Of the requests sent on c's connection, those behind a are not answered.
Unanswered(c, a) ==
  \A d \in Cursors : SameConn(c, d) /\ c <= d /\ d <= Taken =>
    (d > a <=> Holds(requests, d))

\* The bytes are of cursors that are scheduled, or of c.
ConnInTime(c, s) == \A i \in 1 .. Len(s) : s[i].req <= Scheduled \/ s[i].req = c

\* s is what the server has answered on c's connection from c on.
IsConnStream(c, s) ==
  /\ ConnStreamFrom(c, s)
  /\ \E a \in 0 .. Taken : EndsWith(c, a, s) /\ Unanswered(c, a)
  /\ ConnInTime(c, s)

ConnInv(c) ==
  /\ IsConnStream(c, ConnStream(c))
  /\ UncutHeader(Received(c)) /\ UncutHeader(Arrived(c)) /\ UncutHeader(SockOf(c))

\* Only the next cursor of a connection has bytes in its buffer, and its own header.
BuffersInv ==
  \A c \in Cursors : c > Len(delivered) =>
    /\ header[c] \in {None, c}
    /\ header[c] = None => data[c] = <<>>
    /\ ~FirstLeft(c) => header[c] = None

RequestsInv ==
  /\ Ascending(requests)
  /\ \A i \in 1 .. Len(requests) : Len(delivered) < requests[i] /\ requests[i] <= Taken

IocpStreamInv ==
  /\ IocpInv
  /\ BuffersInv /\ RequestsInv
  /\ \A c \in Cursors : FirstLeft(c) => ConnInv(c)
  /\ OwnResponse /\ NeverAborts

LEMMA ConnTypes ==
  ASSUME IocpTypeOK, NEW c \in Cursors
  PROVE  /\ Received(c) \in Seq(Units) /\ Arrived(c) \in Seq(Units)
         /\ SockOf(c) \in Seq(Units) /\ NetOf(c) \in Seq(Units)
         /\ SockOf(c) \o NetOf(c) \in Seq(Units)
         /\ Coming(c) \in Seq(Units) /\ ConnStream(c) \in Seq(Units)
<1>1. TypeOK
  BY DEF IocpTypeOK
<1>2. Received(c) \in Seq(Units)
  <2>1. data[c] \in Seq(Units) /\ header[c] \in Cursors \cup {None}
    BY <1>1 DEF TypeOK
  <2>2. header[c] # None => SubSeq(Response(header[c]), 1, HeaderLen) \in Seq(Units)
    BY <1>1, <2>1, HeaderBytes
  <2>3. CASE header[c] = None
    BY <2>1, <2>3 DEF Received
  <2>4. CASE header[c] # None
    <3> DEFINE h == SubSeq(Response(header[c]), 1, HeaderLen)
               d == data[c]
    <3>1. h \in Seq(Units) /\ d \in Seq(Units) /\ Received(c) = h \o d
      BY <2>1, <2>2, <2>4 DEF Received
    <3> HIDE DEF h, d
    <3> QED
      BY <3>1, Joined
  <2> QED
    BY <2>3, <2>4
<1>3. Arrived(c) \in Seq(Units)
  <2>1. transferred[c] \in Seq(Bytes)
    BY DEF IocpTypeOK
  <2>2. transferred[c] \in Seq(Units)
    BY <2>1 DEF Units
  <2> QED
    BY <2>2 DEF Arrived
<1>4. SockOf(c) \in Seq(Units) /\ NetOf(c) \in Seq(Units)
  <2>1. /\ sock \in Seq(Units) /\ net \in Seq(Units)
        /\ sock2 \in Seq(Units) /\ net2 \in Seq(Units)
    BY <1>1 DEF IocpTypeOK, TypeOK, Units
  <2> QED
    BY <2>1 DEF SockOf, NetOf
<1>5. SockOf(c) \o NetOf(c) \in Seq(Units)
  BY <1>4, Joined
<1>6. Coming(c) \in Seq(Units)
  BY <1>3, <1>5, Joined DEF Coming
<1>7. ConnStream(c) \in Seq(Units)
  BY <1>2, <1>6, Joined DEF ConnStream
<1> QED
  BY <1>2, <1>3, <1>4, <1>5, <1>6, <1>7

LEMMA FirstIsUnique ==
  ASSUME IocpTypeOK, NEW c \in Cursors, NEW d \in Cursors, FirstLeft(c), FirstLeft(d),
         SameConn(c, d)
  PROVE  c = d
<1>1. Len(delivered) \in Nat /\ c \in Nat /\ d \in Nat /\ SameConn(d, c)
  BY SameConnEquiv DEF IocpTypeOK, TypeOK, Cursors
<1> QED
  BY <1>1 DEF FirstLeft

LEMMA OldestIsFirst ==
  ASSUME IocpInv, Oldest \in Cursors
  PROVE  FirstLeft(Oldest)
<1>1. Len(delivered) \in Nat /\ Oldest = Len(delivered) + 1
  BY Numbers DEF IocpInv
<1> QED
  BY <1>1 DEF FirstLeft, Cursors

\* The cursor that receives.
LEMMA OldestInFlight ==
  ASSUME IocpInv, responseCount # 0
  PROVE  Oldest \in Cursors /\ FirstLeft(Oldest) /\ Oldest <= Scheduled
<1>1. Len(delivered) \in Nat /\ Oldest = Len(delivered) + 1 /\ responseCount \in Nat
      /\ Scheduled = Len(delivered) + responseCount
  BY Numbers DEF IocpInv
<1>2. Oldest \in Oldest .. Scheduled
  BY <1>1
<1>3. Oldest \in InFlight
  BY <1>2, FlightIsInterval
<1> QED
  BY <1>1, <1>3, OldestIsFirst DEF InFlight

\* What was sent, in numbers.
LEMMA TakenNumbers ==
  ASSUME IocpInv
  PROVE  /\ Taken \in Nat /\ Scheduled \in Nat /\ Len(delivered) \in Nat
         /\ Len(delivered) <= Scheduled /\ Scheduled <= Taken /\ Taken <= queryCount
         /\ ContinuesFrom(txQueue, Taken) /\ queryCount = Taken + Len(txQueue)
<1>1. PICK p \in 0 .. Len(rxPipe) : Places(p)
  BY DEF IocpInv
<1>2. /\ LastOnPort(p) \in Nat /\ LastSent(p) \in Nat
      /\ LastOnPort(p) >= Scheduled /\ LastSent(p) >= LastOnPort(p)
  BY LastNumbers DEF IocpInv
<1>3. Len(txQueue) \in Nat /\ Scheduled \in Nat /\ Len(delivered) \in Nat /\ responseCount \in Nat
      /\ Scheduled = Len(delivered) + responseCount
  BY Numbers DEF IocpInv
<1>4. queryCount = LastSent(p) + Len(txQueue) /\ ContinuesFrom(txQueue, LastSent(p))
  BY <1>1 DEF Places
<1>5. Taken = LastSent(p)
  BY <1>2, <1>3, <1>4 DEF Taken
<1> QED
  BY <1>2, <1>3, <1>4, <1>5

\* A stream stays what it is while the requests under way are the same.
LEMMA SameConnStream ==
  ASSUME IocpInv, IocpInv', NEW c, NEW s \in Seq(Units), IsConnStream(c, s),
         UNCHANGED <<bodyLen, requests, Taken>>, Scheduled' >= Scheduled
  PROVE  IsConnStream(c, s)'
<1>1. \A d : Size(d)' = Size(d)
  BY DEF Size
<1>2. ConnStreamFrom(c, s)'
  BY <1>1 DEF IsConnStream, ConnStreamFrom, FollowsOnConn
<1>3. PICK a \in 0 .. Taken : EndsWith(c, a, s) /\ Unanswered(c, a)
  BY DEF IsConnStream
<1>4. EndsWith(c, a, s)'
  BY <1>1, <1>3 DEF EndsWith
<1>5. Unanswered(c, a)'
  BY <1>3 DEF Unanswered, Holds
<1>6. ConnInTime(c, s)'
  <2>1. Scheduled \in Nat
    BY TakenNumbers
  <2>3. Scheduled' \in Nat
    <3>1. delivered' \in Seq(Callbacks)
      BY DEF IocpInv, IocpTypeOK, TypeOK
    <3>2. responseCount' \in Nat
      BY DEF IocpInv, CursorInv
    <3>3. Len(delivered') \in Nat
      BY <3>1
    <3> QED
      BY <3>2, <3>3 DEF Scheduled
  <2>2. \A i \in 1 .. Len(s) : s[i].req \in Nat
    BY <1>3 DEF EndsWith, Bytes, Cursors
  <2> QED
    BY <2>1, <2>2, <2>3 DEF IsConnStream, ConnInTime
<1> QED
  BY <1>2, <1>3, <1>4, <1>5, <1>6 DEF IsConnStream

\* What a step that moves no byte into or out of a buffer keeps.
LEMMA ConnKept ==
  ASSUME IocpStreamInv, IocpInv', UNCHANGED <<bodyLen, delivered, requests, header, data, Taken>>,
         Scheduled' >= Scheduled, rxpc' # "aborted",
         \A c \in Cursors : FirstLeft(c) =>
           /\ Coming(c)' = Coming(c)
           /\ UncutHeader(Arrived(c))' /\ UncutHeader(SockOf(c))'
  PROVE  IocpStreamInv'
<1>1. \A c : /\ Received(c)' = Received(c) /\ Response(c)' = Response(c)
             /\ FirstLeft(c)' <=> FirstLeft(c)
  BY DEF Received, Response, FirstLeft
<1>2. ASSUME NEW c \in Cursors, FirstLeft(c)
      PROVE  ConnInv(c)'
  <2>1. ConnInv(c) /\ IocpInv
    BY <1>2 DEF IocpStreamInv
  <2>2. PICK s \in Seq(Units) : s = ConnStream(c)
    BY <2>1, ConnTypes DEF IocpInv
  <2>3. ConnStream(c)' = s
    BY <1>1, <1>2, <2>2 DEF ConnStream
  <2>4. IsConnStream(c, s)'
    BY <2>1, <2>2, SameConnStream DEF ConnInv
  <2>5. IsConnStream(c, ConnStream(c))'
    BY <2>3, <2>4 DEF IsConnStream, ConnStreamFrom, EndsWith, ConnInTime
  <2>6. UncutHeader(Received(c))'
    BY <1>1, <2>1 DEF ConnInv, UncutHeader
  <2> QED
    BY <1>2, <2>5, <2>6 DEF ConnInv
<1>3. BuffersInv'
  BY <1>1 DEF IocpStreamInv, BuffersInv
<1>4. RequestsInv'
  BY DEF IocpStreamInv, RequestsInv, Ascending
<1>5. OwnResponse' /\ NeverAborts'
  BY <1>1 DEF IocpStreamInv, OwnResponse, NeverAborts
<1> QED
  BY <1>1, <1>2, <1>3, <1>4, <1>5 DEF IocpStreamInv

\* Steps that leave the rx thread, the network and the buffers alone.
LEMMA ConnUntouched ==
  ASSUME IocpStreamInv, IocpInv', UNCHANGED <<bodyLen, requests, Taken, rxVars, transferred>>,
         UNCHANGED <<net, sock, net2, sock2>>
  PROVE  IocpStreamInv'
<1>1. UNCHANGED <<Oldest, Scheduled>>
  BY DEF Oldest, Scheduled, rxVars
<1>2. Scheduled \in Nat /\ NeverAborts
  BY TakenNumbers DEF IocpStreamInv
<1>3. ASSUME NEW c \in Cursors
      PROVE  Arrived(c)' = Arrived(c) /\ SockOf(c)' = SockOf(c) /\ NetOf(c)' = NetOf(c)
  BY <1>1 DEF Arrived, SockOf, NetOf, rxVars
<1>4. ASSUME NEW c \in Cursors, FirstLeft(c)
      PROVE  /\ Coming(c)' = Coming(c)
             /\ UncutHeader(Arrived(c))' /\ UncutHeader(SockOf(c))'
  <2>1. ConnInv(c)
    BY <1>4 DEF IocpStreamInv
  <2> QED
    BY <1>3, <2>1 DEF Coming, ConnInv, UncutHeader
<1>5. UNCHANGED <<delivered, header, data>> /\ rxpc' # "aborted"
  BY <1>2 DEF rxVars, NeverAborts
<1> QED
  BY <1>1, <1>2, <1>4, <1>5, ConnKept

\* The application sends, and the tx thread writes to the port.
LEMMA StreamSend ==
  ASSUME IocpStreamInv, IocpInv', CTCursorSendOnQueue /\ UNCHANGED iocpVars
  PROVE  IocpStreamInv'
<1>1. /\ UNCHANGED <<bodyLen, requests, rxVars, transferred>> /\ UNCHANGED <<net, sock, net2, sock2>>
      /\ queryCount' = queryCount + 1 /\ txQueue' = Append(txQueue, queryCount + 1)
  BY DEF CTCursorSendOnQueue, netVars, iocpVars, rxAddedVars, net2Vars
<1>2. txQueue \in Seq(Cursors) /\ queryCount \in Nat
  BY NumCursorsAssumption DEF IocpStreamInv, IocpInv, IocpTypeOK, TypeOK
<1>3. Len(txQueue') = Len(txQueue) + 1 /\ Len(txQueue) \in Nat
  BY <1>1, <1>2
<1>4. Taken' = Taken
  BY <1>1, <1>2, <1>3 DEF Taken
<1> QED
  BY <1>1, <1>4, ConnUntouched

LEMMA StreamPost ==
  ASSUME IocpStreamInv, IocpInv', CTCursorRecvOnQueue, UNCHANGED iocpVars
  PROVE  IocpStreamInv'
<1>1. /\ UNCHANGED <<bodyLen, requests, rxVars, transferred>> /\ UNCHANGED <<net, sock, net2, sock2>>
      /\ UNCHANGED <<queryCount, txQueue>>
  BY DEF CTCursorRecvOnQueue, appVars, netVars, iocpVars, rxAddedVars, net2Vars
<1>2. Taken' = Taken
  BY <1>1 DEF Taken
<1> QED
  BY <1>1, <1>2, ConnUntouched

\* A cursor is scheduled: no byte moves, as its WSARecv is not done.
LEMMA StreamSchedule ==
  ASSUME IocpStreamInv, IocpInv', Schedule
  PROVE  IocpStreamInv'
<1>1. /\ responseCount' = responseCount + 1
      /\ \/ responseCount > 0 /\ UNCHANGED rxQueue
         \/ ~(responseCount > 0) /\ rxQueue' = rxQueue \cup {Head(rxPipe)}
      /\ UNCHANGED <<bodyLen, queryCount, txQueue, requests, net, sock, net2, sock2>>
      /\ UNCHANGED <<rxpc, cursor, header, data, delivered, transferred>>
  BY DEF Schedule, appVars, txVars, netVars, net2Vars
<1>2. responseCount \in Nat /\ Len(delivered) \in Nat /\ NeverAborts
  BY Numbers DEF IocpStreamInv, IocpInv
<1>3. Oldest' = Oldest /\ Taken' = Taken /\ Scheduled' >= Scheduled
  BY <1>1, <1>2 DEF Oldest, Taken, Scheduled
<1>4. ASSUME NEW c \in Cursors
      PROVE  Arrived(c)' = Arrived(c) /\ SockOf(c)' = SockOf(c) /\ NetOf(c)' = NetOf(c)
  <2>1. SockOf(c)' = SockOf(c) /\ NetOf(c)' = NetOf(c)
    BY <1>1 DEF SockOf, NetOf
  <2>2. CASE responseCount > 0
    BY <1>1, <1>2, <1>3, <2>1, <2>2 DEF Arrived
  <2>3. CASE ~(responseCount > 0)
    <3>1. responseCount = 0 /\ rxQueue' # {}
      BY <1>1, <1>2, <2>3
    <3> QED
      BY <2>1, <3>1 DEF Arrived
  <2> QED
    BY <2>2, <2>3
<1>5. ASSUME NEW c \in Cursors, FirstLeft(c)
      PROVE  /\ Coming(c)' = Coming(c)
             /\ UncutHeader(Arrived(c))' /\ UncutHeader(SockOf(c))'
  <2>1. ConnInv(c)
    BY <1>5 DEF IocpStreamInv
  <2> QED
    BY <1>4, <2>1 DEF Coming, ConnInv, UncutHeader
<1>6. rxpc' # "aborted"
  BY <1>1, <1>2 DEF NeverAborts
<1> QED
  BY <1>1, <1>3, <1>5, <1>6, ConnKept

\* The cursor receives again: it had no packet in the port, and has none.
LEMMA StreamReceiveMore ==
  ASSUME IocpStreamInv, IocpInv', ReceiveMore
  PROVE  IocpStreamInv'
<1>1. /\ rxpc = "process" /\ rxQueue' = rxQueue \cup {cursor} /\ rxpc' = "top"
      /\ UNCHANGED <<bodyLen, queryCount, txQueue, requests, net, sock, net2, sock2>>
      /\ UNCHANGED <<header, data, delivered, responseCount>>
  BY DEF ReceiveMore, appVars, txVars, netVars, iocpVars, net2Vars
<1>2. cursor # None /\ Scheduled \in Nat
  BY <1>1, TakenNumbers DEF IocpStreamInv, IocpInv, CursorInv
<1>3. UNCHANGED <<Taken, Scheduled>>
  BY <1>1 DEF Taken, Scheduled
<1>4. ASSUME NEW c \in Cursors
      PROVE  Arrived(c)' = Arrived(c) /\ SockOf(c)' = SockOf(c) /\ NetOf(c)' = NetOf(c)
  <2>1. SockOf(c)' = SockOf(c) /\ NetOf(c)' = NetOf(c)
    BY <1>1 DEF SockOf, NetOf
  <2>2. rxQueue' # {}
    BY <1>1
  <2> QED
    BY <1>2, <2>1, <2>2 DEF Arrived
<1>5. ASSUME NEW c \in Cursors, FirstLeft(c)
      PROVE  /\ Coming(c)' = Coming(c)
             /\ UncutHeader(Arrived(c))' /\ UncutHeader(SockOf(c))'
  <2>1. ConnInv(c)
    BY <1>5 DEF IocpStreamInv
  <2> QED
    BY <1>4, <2>1 DEF Coming, ConnInv, UncutHeader
<1> QED
  BY <1>1, <1>2, <1>3, <1>5, ConnKept

\* The last bytes of s are t.
Behind(s, t) ==
  \E k \in Nat : /\ Len(s) = k + Len(t) /\ Len(t) \in Nat
                 /\ \A i \in 1 .. Len(t) : s[k + i] = t[i]

LEMMA JoinedBehind ==
  ASSUME NEW S, NEW s \in Seq(S), NEW t \in Seq(S)
  PROVE  Behind(s \o t, t)
<1>1. Len(s \o t) = Len(s) + Len(t) /\ Len(s) \in Nat /\ Len(t) \in Nat
  BY Joined
<1>2. \A i \in 1 .. Len(t) : (s \o t)[Len(s) + i] = t[i]
  BY Joined
<1> QED
  BY <1>1, <1>2 DEF Behind

LEMMA BehindBehind ==
  ASSUME NEW s, NEW t, NEW u, Behind(s, t), Behind(t, u)
  PROVE  Behind(s, u)
<1>1. PICK k \in Nat : /\ Len(s) = k + Len(t) /\ Len(t) \in Nat
                       /\ \A i \in 1 .. Len(t) : s[k + i] = t[i]
  BY DEF Behind
<1>2. PICK l \in Nat : /\ Len(t) = l + Len(u) /\ Len(u) \in Nat
                       /\ \A i \in 1 .. Len(u) : t[l + i] = u[i]
  BY DEF Behind
<1>3. PICK m \in Nat : m = k + l
  OBVIOUS
<1>4. Len(s) = m + Len(u) /\ Len(u) \in Nat
  BY <1>1, <1>2, <1>3
<1>5. ASSUME NEW i \in 1 .. Len(u) PROVE s[m + i] = u[i]
  <2>1. l + i \in 1 .. Len(t) /\ k + (l + i) = m + i
    BY <1>1, <1>2, <1>3
  <2>2. s[k + (l + i)] = t[l + i] /\ t[l + i] = u[i]
    BY <1>1, <1>2, <2>1
  <2> QED
    BY <2>1, <2>2
<1> QED
  BY <1>4, <1>5 DEF Behind

\* Sequences one behind another, in whatever order they are put together.
Regrouped(s, t, w) == (s \o t) \o w = s \o (t \o w)

MovedOver(s, t, u, w) == s \o (t \o (u \o w)) = (s \o (t \o u)) \o w

MovedOut(r, s, t, u, w) == r \o (s \o (t \o (u \o w))) = (r \o (s \o (t \o u))) \o w

LEMMA ThreeRegrouped ==
  ASSUME NEW U, NEW s \in Seq(U), NEW t \in Seq(U), NEW w \in Seq(U)
  PROVE  Regrouped(s, t, w)
BY ConcatAssociative DEF Regrouped

\* The front of a sequence is moved to the end of another.
LEMMA FrontMoved ==
  ASSUME NEW U, NEW s \in Seq(U), NEW t \in Seq(U), NEW n \in 0 .. Len(t)
  PROVE  (s \o SubSeq(t, 1, n)) \o SubSeq(t, n + 1, Len(t)) = s \o t
<1>1. PICK x \in Seq(U), y \in Seq(U) : x = SubSeq(t, 1, n) /\ y = SubSeq(t, n + 1, Len(t))
  <2>1. SubSeq(t, 1, n) \in Seq(U)
    BY CutInTwo
  <2>2. SubSeq(t, n + 1, Len(t)) \in Seq(U)
    BY CutInTwo
  <2> QED
    BY <2>1, <2>2
<1>2. SubSeq(t, 1, n) \o SubSeq(t, n + 1, Len(t)) = t
  BY CutInTwo
<1>3. x \o y = t
  BY <1>1, <1>2
<1>4. Regrouped(s, x, y)
  BY ThreeRegrouped
<1>5. (s \o x) \o y = s \o t
  BY <1>3, <1>4 DEF Regrouped
<1> QED
  BY <1>1, <1>5

\* The network's bytes are the end of the stream.
LEMMA NetIsLast ==
  ASSUME IocpTypeOK, NEW c \in Cursors
  PROVE  Behind(ConnStream(c), NetOf(c))
<1>1. Behind(SockOf(c) \o NetOf(c), NetOf(c))
  BY ConnTypes, JoinedBehind
<1>2. Behind(Coming(c), SockOf(c) \o NetOf(c))
  <2>1. PICK x \in Seq(Units) : x = SockOf(c) \o NetOf(c)
    BY ConnTypes
  <2>2. Behind(Arrived(c) \o x, x)
    BY ConnTypes, JoinedBehind
  <2> QED
    BY <2>1, <2>2 DEF Coming
<1>3. Behind(ConnStream(c), Coming(c))
  BY ConnTypes, JoinedBehind DEF ConnStream
<1> QED
  BY <1>1, <1>2, <1>3, BehindBehind

LEMMA NextPlace ==
  ASSUME NEW k \in Nat, NEW l \in Nat, NEW n \in Nat, 1 <= n, n < l
  PROVE  n + 1 \in 1 .. l /\ k + n \in 1 .. (k + l - 1) /\ k + (n + 1) = (k + n) + 1
OBVIOUS

\* What the network brings to the socket, where it cuts no header.
LEMMA MovedToSocket ==
  ASSUME IocpStreamInv, NEW c \in Cursors, FirstLeft(c),
         NEW S \in Seq(Units), S = SockOf(c), NEW N \in Seq(Units), N = NetOf(c),
         NEW n \in 1 .. Len(N), n < Len(N) => N[n + 1].pos \notin 2 .. HeaderLen
  PROVE  /\ (S \o SubSeq(N, 1, n)) \o SubSeq(N, n + 1, Len(N)) = S \o N
         /\ UncutHeader(S \o SubSeq(N, 1, n))
<1>0. IocpTypeOK /\ TypeOK /\ ConnInv(c)
  BY DEF IocpStreamInv, IocpInv, IocpTypeOK
<1>1. S \in Seq(Units) /\ N \in Seq(Units) /\ Len(N) \in Nat
  OBVIOUS
<1>2. n \in Nat /\ n >= 1 /\ n <= Len(N) /\ n \in 0 .. Len(N)
  BY <1>1
<1> DEFINE x == SubSeq(N, 1, n)
           y == SubSeq(N, n + 1, Len(N))
<1>3. x \in Seq(Units) /\ y \in Seq(Units) /\ Len(x) = n /\ x \o y = N
  BY <1>1, <1>2, CutInTwo
<1>4. \A i \in 1 .. n : x[i] = N[i]
  BY <1>1, <1>2, CutInTwo
<1> HIDE DEF x, y
<1>5. (S \o x) \o y = S \o N
  BY <1>2, FrontMoved DEF x, y
<1>6. PICK s \in Seq(Units) : s = ConnStream(c)
  BY <1>0, ConnTypes
<1>7. PICK k \in Nat : /\ Len(s) = k + Len(N) /\ Len(s) \in Nat
                       /\ \A i \in 1 .. Len(N) : s[k + i] = N[i]
  <2>1. Behind(s, N)
    BY <1>0, <1>6, NetIsLast
  <2>2. Len(s) \in Nat
    OBVIOUS
  <2> QED
    BY <2>1, <2>2 DEF Behind
<1>8. PICK a \in 0 .. Taken : EndsWith(c, a, s)
  BY <1>0, <1>6 DEF ConnInv, IsConnStream
<1>9. ASSUME NEW i \in 1 .. Len(N)
      PROVE  N[i] \in Bytes /\ N[i].pos >= 1 /\ N[i].req \in Cursors /\ N[i].pos \in Nat
  <2>1. k + i \in 1 .. Len(s)
    BY <1>7
  <2>2. N[i] \in Bytes /\ N[i].pos >= 1
    BY <1>7, <1>8, <2>1 DEF EndsWith
  <2> QED
    BY <2>2 DEF Bytes
<1>10. N[n].pos >= HeaderLen
  <2>1. CASE n = Len(N)
    <3>1. s # <<>> /\ k + n = Len(s)
      BY <1>2, <1>7, <2>1
    <3>2. N[n] = [req |-> a, pos |-> Size(a)]
      BY <1>2, <1>7, <1>8, <3>1 DEF EndsWith
    <3>3. N[n].req = a /\ N[n].pos = Size(a)
      BY <3>2
    <3>4. a \in Cursors
      BY <1>9, <3>3
    <3> QED
      BY <1>0, <3>3, <3>4, SizeType
  <2>2. CASE n < Len(N)
    <3>1. n + 1 \in 1 .. Len(N) /\ k + n \in 1 .. (Len(s) - 1)
          /\ k + (n + 1) = (k + n) + 1
      <4>1. PICK l \in Nat : l = Len(N) /\ Len(s) = k + l
        BY <1>7
      <4>2. n \in Nat /\ 1 <= n /\ n < l
        BY <2>2, <4>1
      <4>3. n + 1 \in 1 .. l /\ k + n \in 1 .. (k + l - 1) /\ k + (n + 1) = (k + n) + 1
        BY <4>2, NextPlace
      <4> QED
        BY <4>1, <4>3
    <3>2. FollowsOnConn(N[n], N[n + 1])
      <4>1. FollowsOnConn(s[k + n], s[(k + n) + 1])
        BY <1>0, <1>6, <3>1 DEF ConnInv, IsConnStream, ConnStreamFrom
      <4>2. s[k + n] = N[n] /\ s[k + (n + 1)] = N[n + 1]
        BY <1>7, <3>1
      <4> QED
        BY <3>1, <4>1, <4>2
    <3> DEFINE b == N[n]
               e == N[n + 1]
    <3>3. b.pos >= 1 /\ b.req \in Cursors /\ b.pos \in Nat /\ b \in Bytes
      BY <1>9
    <3>4. HeaderLen \in Nat /\ Size(b.req) \in Nat /\ Size(b.req) >= HeaderLen
      BY <1>0, <3>3, SizeType
    <3>5. e.pos \notin 2 .. HeaderLen
      BY <2>2
    <3>6. FollowsOnConn(b, e)
      BY <3>2
    <3> HIDE DEF b, e
    <3>7. b.pos < HeaderLen => e.pos = b.pos + 1
      <4> SUFFICES ASSUME b.pos < HeaderLen PROVE e.pos = b.pos + 1
        OBVIOUS
      <4>1. b.pos < Size(b.req)
        BY <3>3, <3>4
      <4>2. e = [b EXCEPT !.pos = @ + 1]
        BY <3>6, <4>1 DEF FollowsOnConn
      <4> QED
        BY <3>3, <4>2 DEF Bytes
    <3>8. ~(b.pos < HeaderLen)
      BY <3>3, <3>4, <3>5, <3>7
    <3> QED
      BY <3>3, <3>4, <3>8 DEF b
  <2> QED
    BY <1>1, <1>2, <2>1, <2>2
<1>11. UncutHeader(S \o x)
  <2>1. Len(S \o x) = Len(S) + n /\ Len(S) \in Nat
    BY <1>1, <1>3, Joined
  <2>2. n \in 1 .. Len(x) /\ n \in 1 .. n
    BY <1>2, <1>3
  <2>3. (S \o x)[Len(S) + n] = N[n]
    <3>1. (S \o x)[Len(S) + n] = x[n]
      BY <1>1, <1>3, <2>2, Joined
    <3> QED
      BY <1>4, <2>2, <3>1
  <2> QED
    BY <1>10, <2>1, <2>3 DEF UncutHeader
<1> QED
  BY <1>5, <1>11 DEF x, y

\* The network delivers, on either connection.
LEMMA StreamDeliver ==
  ASSUME IocpStreamInv, IocpInv', WholeHeaders,
         (Deliver /\ UNCHANGED iocpVars) \/ DeliverSecond
  PROVE  IocpStreamInv'
<1>1. /\ UNCHANGED <<bodyLen, requests, queryCount, txQueue, rxQueue, rxpc, cursor>>
      /\ UNCHANGED <<responseCount, header, data, delivered, transferred>>
  BY DEF Deliver, DeliverSecond, vars, appVars, txVars, netVars, rxVars, iocpVars, rxAddedVars
<1>2. UNCHANGED <<Oldest, Scheduled, Taken>> /\ Scheduled \in Nat
  BY <1>1, TakenNumbers DEF Oldest, Scheduled, Taken, IocpStreamInv
<1>3. ASSUME NEW c \in Cursors
      PROVE  Arrived(c)' = Arrived(c)
  BY <1>1, <1>2 DEF Arrived
<1>4. ASSUME NEW c \in Cursors, FirstLeft(c)
      PROVE  SockOf(c)' \o NetOf(c)' = SockOf(c) \o NetOf(c) /\ UncutHeader(SockOf(c))'
  <2>0. ConnInv(c)
    BY <1>4 DEF IocpStreamInv
  <2>1. CASE UNCHANGED <<SockOf(c), NetOf(c)>>
    BY <2>0, <2>1 DEF ConnInv, UncutHeader
  <2>2. CASE \E n \in 1 .. Len(NetOf(c)) :
               /\ n < Len(NetOf(c)) => NetOf(c)[n + 1].pos \notin 2 .. HeaderLen
               /\ SockOf(c)' = SockOf(c) \o SubSeq(NetOf(c), 1, n)
               /\ NetOf(c)' = SubSeq(NetOf(c), n + 1, Len(NetOf(c)))
    <3>1. PICK S \in Seq(Units), N \in Seq(Units) : S = SockOf(c) /\ N = NetOf(c)
      BY ConnTypes DEF IocpStreamInv, IocpInv
    <3>2. PICK n \in 1 .. Len(N) : /\ n < Len(N) => N[n + 1].pos \notin 2 .. HeaderLen
                                   /\ SockOf(c)' = S \o SubSeq(N, 1, n)
                                   /\ NetOf(c)' = SubSeq(N, n + 1, Len(N))
      BY <2>2, <3>1
    <3>3. /\ (S \o SubSeq(N, 1, n)) \o SubSeq(N, n + 1, Len(N)) = S \o N
          /\ UncutHeader(S \o SubSeq(N, 1, n))
      <4>1. n \in 1 .. Len(N) /\ (n < Len(N) => N[n + 1].pos \notin 2 .. HeaderLen)
        BY <3>2
      <4> QED
        BY <1>4, <3>1, <4>1, MovedToSocket
    <3>4. UncutHeader(SockOf(c))'
      BY <3>2, <3>3 DEF UncutHeader
    <3> QED
      BY <3>1, <3>2, <3>3, <3>4
  <2>3. CASE Deliver /\ UNCHANGED iocpVars
    <3>1. CASE c \in Second
      BY <2>1, <2>3, <3>1 DEF SockOf, NetOf, iocpVars, net2Vars
    <3>2. CASE c \notin Second
      BY <2>2, <2>3, <3>2 DEF Deliver, MayCut, SockOf, NetOf
    <3> QED
      BY <3>1, <3>2
  <2>4. CASE DeliverSecond
    <3>1. CASE c \in Second
      BY <2>2, <2>4, <3>1 DEF DeliverSecond, SockOf, NetOf
    <3>2. CASE c \notin Second
      BY <2>1, <2>4, <3>2 DEF DeliverSecond, SockOf, NetOf, vars, netVars
    <3> QED
      BY <3>1, <3>2
  <2> QED
    BY <2>3, <2>4
<1>5. ASSUME NEW c \in Cursors, FirstLeft(c)
      PROVE  /\ Coming(c)' = Coming(c)
             /\ UncutHeader(Arrived(c))' /\ UncutHeader(SockOf(c))'
  <2>1. ConnInv(c)
    BY <1>5 DEF IocpStreamInv
  <2> QED
    BY <1>3, <1>4, <1>5, <2>1 DEF Coming, ConnInv, UncutHeader
<1>6. rxpc' # "aborted"
  BY <1>1 DEF IocpStreamInv, NeverAborts
<1> QED
  BY <1>1, <1>2, <1>5, <1>6, ConnKept

LEMMA EmptyJoined ==
  ASSUME NEW S, NEW s \in Seq(S)
  PROVE  <<>> \o s = s /\ s \o <<>> = s
BY ConcatEmptySeq

\* A WSARecv is done: its bytes are no longer the socket's, but the cursor's.
LEMMA StreamRecvDone ==
  ASSUME IocpStreamInv, IocpInv', WSARecvDone
  PROVE  IocpStreamInv'
<1>0. IocpInv /\ IocpTypeOK /\ TypeOK
  BY DEF IocpStreamInv, IocpInv, IocpTypeOK
<1>1. PICK c \in rxQueue :
        /\ IF c \in Second
           THEN /\ sock2' = <<>> /\ UNCHANGED sock
                /\ transferred' = [transferred EXCEPT ![c] = sock2]
           ELSE /\ sock' = <<>> /\ UNCHANGED sock2
                /\ transferred' = [transferred EXCEPT ![c] = sock]
        /\ rxQueue' = rxQueue \ {c}
        /\ UNCHANGED <<bodyLen, queryCount, txQueue, requests, net, rxpc, cursor, responseCount,
                       header, data, delivered, net2>>
  BY DEF WSARecvDone, appVars, txVars
<1>2. PICK p \in 0 .. Len(rxPipe) : Places(p)
  BY <1>0 DEF IocpInv
<1>3. responseCount # 0 /\ c = Oldest /\ rxQueue' = {} /\ rxQueue # {} /\ cursor = None
  BY <1>1, <1>2 DEF Places, Receiving
<1>4. UNCHANGED <<Oldest, Scheduled, Taken>> /\ Scheduled \in Nat
  BY <1>0, <1>1, TakenNumbers DEF Oldest, Scheduled, Taken
<1>5. c \in Cursors /\ FirstLeft(c)
  BY <1>0, <1>3, OldestInFlight
<1>6. transferred \in [Cursors -> Seq(Bytes)]
  BY <1>0 DEF IocpTypeOK
<1>7. ASSUME NEW d \in Cursors, FirstLeft(d)
      PROVE  /\ Coming(d)' = Coming(d)
             /\ UncutHeader(Arrived(d))' /\ UncutHeader(SockOf(d))'
  <2>0. ConnInv(d)
    BY <1>7 DEF IocpStreamInv
  <2>1. Arrived(d) = <<>>
    BY <1>3 DEF Arrived
  <2>2. NetOf(d)' = NetOf(d)
    BY <1>1 DEF NetOf
  <2>3. CASE ~SameConn(c, d)
    <3>1. SockOf(d)' = SockOf(d)
      BY <1>1, <2>3 DEF SockOf, SameConn
    <3>2. d # c
      BY <2>3, SameConnEquiv
    <3>3. Arrived(d)' = <<>>
      BY <1>3, <1>4, <3>2 DEF Arrived
    <3> QED
      BY <2>0, <2>1, <2>2, <3>1, <3>3 DEF Coming, ConnInv, UncutHeader
  <2>4. CASE SameConn(c, d)
    <3>1. d = c
      BY <1>0, <1>5, <1>7, <2>4, FirstIsUnique
    <3>2. SockOf(d)' = <<>>
      BY <1>1, <3>1 DEF SockOf
    <3>3. transferred'[c] = SockOf(d)
      BY <1>1, <1>5, <1>6, <3>1 DEF SockOf
    <3>4. Arrived(d)' = SockOf(d)
      BY <1>1, <1>3, <1>4, <3>1, <3>3 DEF Arrived
    <3>5. UncutHeader(Arrived(d))' /\ UncutHeader(SockOf(d))'
      BY <2>0, <3>2, <3>4 DEF ConnInv, UncutHeader
    <3>6. Coming(d) = SockOf(d) \o NetOf(d)
      BY <1>0, <2>1, ConnTypes, EmptyJoined DEF Coming
    <3>7. <<>> \o NetOf(d) = NetOf(d)
      BY <1>0, ConnTypes, EmptyJoined
    <3>8. Coming(d)' = SockOf(d) \o (<<>> \o NetOf(d))
      BY <2>2, <3>2, <3>4 DEF Coming
    <3> QED
      BY <3>5, <3>6, <3>7, <3>8
  <2> QED
    BY <2>3, <2>4
<1>8. rxpc' # "aborted"
  BY <1>1 DEF IocpStreamInv, NeverAborts
<1> QED
  BY <1>1, <1>4, <1>7, <1>8, ConnKept

\* A request is sent: it is one more that is not answered.
LEMMA StreamTxSend ==
  ASSUME IocpStreamInv, IocpInv', TxSend, UNCHANGED iocpVars
  PROVE  IocpStreamInv'
<1>0. IocpInv /\ IocpTypeOK /\ TypeOK
  BY DEF IocpStreamInv, IocpInv, IocpTypeOK
<1>1. /\ txQueue # <<>> /\ txQueue' = Tail(txQueue) /\ requests' = Append(requests, Head(txQueue))
      /\ UNCHANGED <<bodyLen, queryCount, net, sock, net2, sock2, rxQueue, rxpc, cursor>>
      /\ UNCHANGED <<responseCount, header, data, delivered, transferred>>
  BY DEF TxSend, appVars, rxVars, iocpVars, rxAddedVars, net2Vars
<1>2. /\ Taken \in Nat /\ Scheduled \in Nat /\ Scheduled <= Taken
      /\ Len(delivered) \in Nat /\ Len(delivered) <= Scheduled
      /\ ContinuesFrom(txQueue, Taken) /\ queryCount = Taken + Len(txQueue)
  BY <1>0, TakenNumbers
<1>3. txQueue \in Seq(Cursors) /\ requests \in Seq(Cursors)
  BY <1>0 DEF TypeOK
<1>4. Head(txQueue) = Taken + 1 /\ Len(txQueue') = Len(txQueue) - 1
      /\ Len(txQueue) \in Nat /\ Len(txQueue) >= 1
  <2>1. Len(txQueue) \in Nat /\ 1 \in 1 .. Len(txQueue) /\ Head(txQueue) = txQueue[1]
        /\ Len(txQueue') = Len(txQueue) - 1
    BY <1>1, <1>3
  <2> QED
    BY <1>2, <2>1 DEF ContinuesFrom
<1>5. Taken' = Taken + 1
  BY <1>1, <1>2, <1>4 DEF Taken
<1>6. UNCHANGED <<Oldest, Scheduled>>
  BY <1>1 DEF Oldest, Scheduled
<1>7. PICK k \in Nat : k = Len(requests)
  BY <1>3
<1>8. /\ Len(requests') = k + 1 /\ requests'[k + 1] = Taken + 1
      /\ \A i \in 1 .. k : requests'[i] = requests[i]
  <2>1. PICK x : x = Head(txQueue)
    OBVIOUS
  <2>2. requests' = Append(requests, x) /\ x = Taken + 1
    BY <1>1, <1>4, <2>1
  <2> HIDE <2>1
  <2> QED
    BY <1>3, <1>7, <2>2
<1>9. \A i \in 1 .. k : requests[i] \in Nat /\ Len(delivered) < requests[i] /\ requests[i] <= Taken
  <2>1. \A i \in 1 .. k : requests[i] \in Cursors
    BY <1>3, <1>7
  <2>2. \A i \in 1 .. k : Len(delivered) < requests[i] /\ requests[i] <= Taken
    BY <1>7 DEF IocpStreamInv, RequestsInv
  <2> QED
    BY <2>1, <2>2 DEF Cursors
<1>10. RequestsInv'
  <2>1. \A i, j \in 1 .. k : i < j => requests[i] < requests[j]
    BY <1>7 DEF IocpStreamInv, RequestsInv, Ascending
  <2>2. ASSUME NEW i \in 1 .. (k + 1), NEW j \in 1 .. (k + 1), i < j
        PROVE  requests'[i] < requests'[j]
    <3>1. i \in 1 .. k
      BY <1>7, <2>2
    <3>2. CASE j \in 1 .. k
      BY <1>8, <2>1, <2>2, <3>1, <3>2
    <3>3. CASE j = k + 1
      <4>1. requests'[i] <= Taken /\ requests'[i] \in Nat /\ requests'[j] = Taken + 1
        BY <1>8, <1>9, <3>1, <3>3
      <4> QED
        BY <1>2, <4>1
    <3>4. j \in 1 .. k \/ j = k + 1
      BY <1>7
    <3> QED
      BY <3>2, <3>3, <3>4
  <2>3. ASSUME NEW i \in 1 .. (k + 1)
        PROVE  Len(delivered) < requests'[i] /\ requests'[i] <= Taken + 1
    <3>1. i \in 1 .. k \/ i = k + 1
      BY <1>7
    <3> QED
      BY <1>2, <1>8, <1>9, <3>1
  <2> QED
    BY <1>1, <1>5, <1>8, <2>2, <2>3 DEF RequestsInv, Ascending
<1>11. \A c : /\ Received(c)' = Received(c) /\ Response(c)' = Response(c) /\ Size(c)' = Size(c)
              /\ FirstLeft(c)' <=> FirstLeft(c)
              /\ Coming(c)' = Coming(c)
              /\ Arrived(c)' = Arrived(c) /\ SockOf(c)' = SockOf(c)
  BY <1>1, <1>6 DEF Received, Response, Size, FirstLeft, Coming, Arrived, SockOf, NetOf
<1>12. ASSUME NEW c \in Cursors, FirstLeft(c)
       PROVE  ConnInv(c)'
  <2>1. ConnInv(c)
    BY <1>12 DEF IocpStreamInv
  <2>2. PICK s \in Seq(Units) : s = ConnStream(c)
    BY <1>0, ConnTypes
  <2>3. ConnStream(c)' = s
    BY <1>11, <2>2 DEF ConnStream
  <2>4. IsConnStream(c, s)
    BY <2>1, <2>2 DEF ConnInv
  <2>5. ConnStreamFrom(c, s)'
    BY <1>11, <2>4 DEF IsConnStream, ConnStreamFrom, FollowsOnConn
  <2>6. PICK a \in 0 .. Taken : EndsWith(c, a, s) /\ Unanswered(c, a)
    BY <2>4 DEF IsConnStream
  <2>7. EndsWith(c, a, s)' /\ a \in 0 .. Taken'
    BY <1>2, <1>5, <1>11, <2>6 DEF EndsWith
  <2>8. Unanswered(c, a)'
    <3>1. ASSUME NEW d \in Cursors, SameConn(c, d), c <= d, d <= Taken + 1
          PROVE  d > a <=> \E i \in 1 .. Len(requests') : requests'[i] = d
      <4>1. CASE d = Taken + 1
        <5>1. d > a /\ k + 1 \in 1 .. Len(requests')
          BY <1>2, <1>8, <2>6, <4>1
        <5> QED
          BY <1>8, <4>1, <5>1
      <4>2. CASE d # Taken + 1
        <5>1. d <= Taken
          BY <1>2, <3>1, <4>2 DEF Cursors
        <5>2. d > a <=> \E i \in 1 .. k : requests[i] = d
          BY <1>7, <2>6, <3>1, <5>1 DEF Unanswered, Holds
        <5>3. \A i : i \in 1 .. Len(requests') <=> i \in 1 .. k \/ i = k + 1
          BY <1>7, <1>8
        <5> QED
          BY <1>8, <4>2, <5>2, <5>3
      <4> QED
        BY <4>1, <4>2
    <3> QED
      BY <1>5, <3>1 DEF Unanswered, Holds
  <2>9. ConnInTime(c, s)'
    BY <1>6, <2>4 DEF IsConnStream, ConnInTime
  <2>10. IsConnStream(c, s)'
    BY <2>5, <2>7, <2>8, <2>9 DEF IsConnStream
  <2>11. IsConnStream(c, ConnStream(c))'
    BY <2>3, <2>10 DEF IsConnStream, ConnStreamFrom, EndsWith, ConnInTime
  <2> QED
    BY <1>11, <2>1, <2>11 DEF ConnInv, UncutHeader
<1>13. BuffersInv'
  BY <1>1, <1>11 DEF IocpStreamInv, BuffersInv
<1>14. OwnResponse' /\ NeverAborts'
  BY <1>1, <1>11 DEF IocpStreamInv, OwnResponse, NeverAborts
<1> QED
  BY <1>10, <1>11, <1>12, <1>13, <1>14 DEF IocpStreamInv

\* A sequence without one of its elements.
LEMMA WithoutOne ==
  ASSUME NEW S, NEW s \in Seq(S), NEW n \in 1 .. Len(s), NEW t, t = RemoveAt(s, n)
  PROVE  /\ t \in Seq(S) /\ Len(t) = Len(s) - 1
         /\ \A j \in 1 .. Len(t) : t[j] = IF j < n THEN s[j] ELSE s[j + 1]
<1>0. Len(s) \in Nat /\ n \in Nat /\ n >= 1 /\ n <= Len(s) /\ n - 1 \in Nat
  OBVIOUS
<1> DEFINE x == SubSeq(s, 1, n - 1)
           y == SubSeq(s, n + 1, Len(s))
<1>1. n - 1 \in 0 .. Len(s) /\ n \in 0 .. Len(s)
  BY <1>0
<1>2. x \in Seq(S) /\ Len(x) = n - 1 /\ \A i \in 1 .. (n - 1) : x[i] = s[i]
  BY <1>1, CutInTwo
<1>3. y \in Seq(S) /\ Len(y) = Len(s) - n /\ \A i \in 1 .. (Len(s) - n) : y[i] = s[n + i]
  BY <1>1, CutInTwo
<1>4. t = x \o y
  BY DEF RemoveAt
<1> HIDE DEF x, y
<1>5. t \in Seq(S) /\ Len(t) = Len(s) - 1
  <2>1. x \o y \in Seq(S) /\ Len(x \o y) = Len(x) + Len(y)
    BY <1>2, <1>3, Joined
  <2>2. t \in Seq(S) /\ Len(t) = Len(x) + Len(y)
    BY <1>4, <2>1
  <2> QED
    BY <1>0, <1>2, <1>3, <2>2
<1>6. ASSUME NEW j \in 1 .. Len(t)
      PROVE  t[j] = IF j < n THEN s[j] ELSE s[j + 1]
  <2>1. CASE j < n
    <3>1. j \in 1 .. Len(x) /\ j \in 1 .. (n - 1)
      BY <1>0, <1>2, <2>1
    <3>2. (x \o y)[j] = x[j]
      BY <1>2, <1>3, <3>1, Joined
    <3> QED
      BY <1>2, <1>4, <2>1, <3>1, <3>2
  <2>2. CASE ~(j < n)
    <3>1. PICK k \in 1 .. (Len(s) - n) : j = (n - 1) + k /\ n + k = j + 1
      <4>1. j - (n - 1) \in 1 .. (Len(s) - n)
        BY <1>0, <1>5, <2>2
      <4>2. j = (n - 1) + (j - (n - 1)) /\ n + (j - (n - 1)) = j + 1
        BY <1>0
      <4> QED
        BY <4>1, <4>2
    <3>2. k \in 1 .. Len(y)
      BY <1>3
    <3>3. (x \o y)[Len(x) + k] = y[k]
      BY <1>2, <1>3, <3>2, Joined
    <3> QED
      BY <1>2, <1>3, <1>4, <2>2, <3>1, <3>3
  <2> QED
    BY <2>1, <2>2
<1> QED
  BY <1>5, <1>6

\* A request that is answered leaves the others, in their order.
LEMMA OneRequestLess ==
  ASSUME NEW s \in Seq(Cursors), Ascending(s), NEW n \in 1 .. Len(s)
  PROVE  /\ Ascending(RemoveAt(s, n))
         /\ \A e : Holds(RemoveAt(s, n), e) <=> (e # s[n] /\ Holds(s, e))
<1> DEFINE t == RemoveAt(s, n)
<1>1. Len(t) = Len(s) - 1 /\ \A j \in 1 .. Len(t) : t[j] = IF j < n THEN s[j] ELSE s[j + 1]
  BY WithoutOne
<1> HIDE DEF t
<1>2. Len(s) \in Nat /\ n \in Nat /\ n >= 1 /\ n <= Len(s)
  OBVIOUS
<1>3. \A j \in 1 .. Len(s) : s[j] \in Nat
  <2>1. \A j \in 1 .. Len(s) : s[j] \in Cursors
    OBVIOUS
  <2> QED
    BY <2>1 DEF Cursors
<1> DEFINE from(i) == IF i < n THEN i ELSE i + 1
<1>4. ASSUME NEW i \in 1 .. Len(t)
      PROVE  from(i) \in 1 .. Len(s) /\ from(i) # n /\ t[i] = s[from(i)]
  <2>1. CASE i < n
    BY <1>1, <1>2, <2>1
  <2>2. CASE ~(i < n)
    BY <1>1, <1>2, <2>2
  <2> QED
    BY <2>1, <2>2
<1>5. ASSUME NEW i \in 1 .. Len(t), NEW j \in 1 .. Len(t), i < j
      PROVE  t[i] < t[j]
  <2>1. from(i) < from(j)
    BY <1>2, <1>5
  <2> HIDE DEF from
  <2>2. s[from(i)] < s[from(j)]
    BY <1>4, <2>1 DEF Ascending
  <2> QED
    BY <1>4, <2>2
<1> HIDE DEF from
<1>6. ASSUME NEW i \in 1 .. Len(t) PROVE t[i] # s[n]
  <2>1. PICK j \in 1 .. Len(s) : t[i] = s[j] /\ j # n
    BY <1>4
  <2>2. j < n \/ n < j
    BY <1>2, <2>1
  <2>3. s[j] < s[n] \/ s[n] < s[j]
    BY <2>2 DEF Ascending
  <2> QED
    BY <1>3, <2>1, <2>3
<1>7. ASSUME NEW j \in 1 .. Len(s), j # n PROVE \E i \in 1 .. Len(t) : t[i] = s[j]
  <2>1. CASE j < n
    <3>1. j \in 1 .. Len(t)
      BY <1>1, <1>2, <2>1
    <3> QED
      BY <1>1, <2>1, <3>1
  <2>2. CASE ~(j < n)
    <3>1. j - 1 \in 1 .. Len(t) /\ ~(j - 1 < n) /\ (j - 1) + 1 = j
      BY <1>1, <1>2, <1>7, <2>2
    <3>2. t[j - 1] = s[(j - 1) + 1]
      BY <1>1, <3>1
    <3> QED
      BY <3>1, <3>2
  <2> QED
    BY <2>1, <2>2
<1>8. \A i \in 1 .. Len(t) : \E j \in 1 .. Len(s) : t[i] = s[j]
  BY <1>4
<1>9. ASSUME NEW e
      PROVE  (\E i \in 1 .. Len(t) : t[i] = e) <=> (e # s[n] /\ \E i \in 1 .. Len(s) : s[i] = e)
  <2>1. ASSUME NEW i \in 1 .. Len(t), t[i] = e
        PROVE  e # s[n] /\ \E j \in 1 .. Len(s) : s[j] = e
    BY <1>6, <1>8, <2>1
  <2>2. ASSUME NEW j \in 1 .. Len(s), s[j] = e, e # s[n]
        PROVE  \E i \in 1 .. Len(t) : t[i] = e
    <3>1. j # n
      BY <2>2
    <3> QED
      BY <1>7, <2>2, <3>1
  <2> QED
    BY <2>1, <2>2
<1> QED
  BY <1>5, <1>9 DEF Ascending, Holds, t

LEMMA FourRegrouped ==
  ASSUME NEW U, NEW s \in Seq(U), NEW t \in Seq(U), NEW u \in Seq(U), NEW w \in Seq(U)
  PROVE  MovedOver(s, t, u, w)
<1>1. PICK x \in Seq(U) : x = t \o u
  BY Joined
<1>2. Regrouped(t, u, w) /\ Regrouped(s, x, w)
  BY ThreeRegrouped
<1>3. (t \o u) \o w = t \o (u \o w)
  BY <1>2 DEF Regrouped
<1>4. (s \o x) \o w = s \o (x \o w)
  BY <1>2 DEF Regrouped
<1> QED
  BY <1>1, <1>3, <1>4 DEF MovedOver

LEMMA FiveRegrouped ==
  ASSUME NEW U, NEW r \in Seq(U), NEW s \in Seq(U), NEW t \in Seq(U), NEW u \in Seq(U),
         NEW w \in Seq(U)
  PROVE  MovedOut(r, s, t, u, w)
<1>1. PICK x \in Seq(U) : x = t \o u
  BY Joined
<1>2. PICK y \in Seq(U) : y = s \o x
  BY Joined
<1>3. Regrouped(r, y, w)
  BY ThreeRegrouped
<1>4. MovedOver(s, t, u, w)
  BY FourRegrouped
<1>5. s \o (t \o (u \o w)) = y \o w
  BY <1>1, <1>2, <1>4 DEF MovedOver
<1>6. r \o (s \o (t \o (u \o w))) = r \o (y \o w)
  BY <1>5
<1>7. (r \o y) \o w = r \o (y \o w)
  BY <1>3 DEF Regrouped
<1>8. r \o (s \o (t \o u)) = r \o y
  BY <1>1, <1>2
<1> QED
  BY <1>6, <1>7, <1>8 DEF MovedOut

\* What the server answers comes at the end of the stream.
LEMMA AnswerIsLast ==
  ASSUME IocpTypeOK, NEW c \in Cursors, NEW w \in Seq(Units)
  PROVE  /\ UNCHANGED <<Received(c), Arrived(c), SockOf(c)>>
         /\ NetOf(c)' = NetOf(c) \o w
         => ConnStream(c)' = ConnStream(c) \o w
<1>1. MovedOut(Received(c), Arrived(c), SockOf(c), NetOf(c), w)
  BY ConnTypes, FiveRegrouped
<1> SUFFICES ASSUME UNCHANGED <<Received(c), Arrived(c), SockOf(c)>>, NetOf(c)' = NetOf(c) \o w
             PROVE  ConnStream(c)' = ConnStream(c) \o w
  OBVIOUS
<1>2. ConnStream(c)' = Received(c) \o (Arrived(c) \o (SockOf(c) \o (NetOf(c) \o w)))
  BY DEF ConnStream, Coming
<1> QED
  BY <1>1, <1>2 DEF MovedOut, ConnStream, Coming

\* The request that is answered is the first of its connection, and comes behind
\* the last response.
LEMMA AnswersNext ==
  ASSUME IocpStreamInv, NEW c \in Cursors, FirstLeft(c), NEW n \in 1 .. Len(requests),
         \A j \in 1 .. (n - 1) : ~SameConn(requests[n], requests[j]),
         NEW d \in Cursors, d = requests[n], SameConn(c, d),
         NEW a \in 0 .. Taken, NEW s \in Seq(Units), EndsWith(c, a, s), Unanswered(c, a),
         s # <<>> => s[1] = [req |-> c, pos |-> 1]
  PROVE  /\ c <= d /\ a < d
         /\ \A e \in Cursors : SameConn(c, e) /\ c <= e /\ e < d => e <= a
         /\ IF s = <<>> THEN d = c ELSE NextSent(a, d)
<1>0. IocpInv /\ TypeOK
  BY DEF IocpStreamInv, IocpInv, IocpTypeOK
<1>1. Taken \in Nat /\ Len(delivered) \in Nat /\ a \in Nat /\ c \in Nat /\ d \in Nat
  BY <1>0, TakenNumbers DEF Cursors
<1>2. Len(requests) \in Nat /\ n \in Nat /\ 1 <= n /\ n <= Len(requests)
  BY <1>0 DEF TypeOK
<1>3. Len(delivered) < d /\ d <= Taken
  BY DEF IocpStreamInv, RequestsInv
<1>4. c <= d
  BY <1>1, <1>3 DEF FirstLeft
<1>5. a < d
  <2>1. d > a <=> Holds(requests, d)
    BY <1>3, <1>4 DEF Unanswered
  <2> QED
    BY <1>1, <2>1 DEF Holds
<1>6. ASSUME NEW e \in Cursors, SameConn(c, e), c <= e, e < d
      PROVE  e <= a
  <2> SUFFICES ASSUME ~(e <= a) PROVE FALSE
    OBVIOUS
  <2>1. e \in Nat /\ e > a /\ e <= Taken
    BY <1>1, <1>3, <1>6 DEF Cursors
  <2>2. PICK i \in 1 .. Len(requests) : requests[i] = e
    BY <1>6, <2>1 DEF Unanswered, Holds
  <2>3. i # n /\ ~(n < i)
    <3>1. i # n
      BY <1>1, <1>6, <2>1, <2>2
    <3>2. n < i => requests[n] < requests[i]
      BY <1>2 DEF IocpStreamInv, RequestsInv, Ascending
    <3> QED
      BY <1>1, <1>6, <2>1, <2>2, <3>1, <3>2
  <2>4. i \in 1 .. (n - 1)
    BY <1>2, <2>3
  <2>5. ~SameConn(d, e)
    BY <2>2, <2>4
  <2> QED
    BY <1>6, <2>5, SameConnEquiv
<1>7. s = <<>> => d = c
  <2> SUFFICES ASSUME s = <<>> PROVE d = c
    OBVIOUS
  <2>1. a < c
    BY DEF EndsWith
  <2>2. c < d => c <= a
    BY <1>1, <1>6, SameConnEquiv
  <2> QED
    BY <1>1, <1>4, <2>1, <2>2
<1>8. s # <<>> => NextSent(a, d)
  <2> SUFFICES ASSUME s # <<>> PROVE NextSent(a, d)
    OBVIOUS
  <2>1. Len(s) \in 1 .. Len(s) /\ 1 \in 1 .. Len(s)
    OBVIOUS
  <2>2. s[Len(s)] = [req |-> a, pos |-> Size(a)]
    BY DEF EndsWith
  <2>3. s[Len(s)].req = a /\ s[1].req = c
    BY <2>2
  <2>4. SameConn(c, a) /\ c <= a
    BY <2>1, <2>3 DEF EndsWith
  <2>5. SameConn(a, d)
    BY <2>4, SameConnEquiv
  <2>6. ASSUME NEW e \in Cursors, a < e, e < d, SameConn(a, e)
        PROVE  FALSE
    <3>1. SameConn(c, e) /\ c <= e
      BY <1>1, <2>4, <2>6, SameConnEquiv DEF Cursors
    <3>2. e <= a
      BY <1>6, <2>6, <3>1
    <3> QED
      BY <1>1, <2>6, <3>2 DEF Cursors
  <2> QED
    BY <1>5, <2>5, <2>6 DEF NextSent
<1> QED
  BY <1>4, <1>5, <1>6, <1>7, <1>8

\* The stream of the connection whose server answers.
LEMMA AnswerStream ==
  ASSUME IocpStreamInv, IocpInv', NEW c \in Cursors, FirstLeft(c), NEW n \in 1 .. Len(requests),
         \A j \in 1 .. (n - 1) : ~SameConn(requests[n], requests[j]),
         NEW d \in Cursors, d = requests[n], SameConn(c, d), Expected(d),
         requests' = RemoveAt(requests, n), UNCHANGED <<bodyLen, Taken, Scheduled>>,
         NEW s \in Seq(Units), IsConnStream(c, s), NEW t, Extended(s, d, t)
  PROVE  IsConnStream(c, t)'
<1>0. IocpInv /\ TypeOK
  BY DEF IocpStreamInv, IocpInv, IocpTypeOK
<1>1. PICK a \in 0 .. Taken : EndsWith(c, a, s) /\ Unanswered(c, a)
  BY DEF IsConnStream
<1>2. ConnStreamFrom(c, s) /\ ConnInTime(c, s)
  BY DEF IsConnStream
<1>3. Taken \in Nat /\ a \in Nat /\ Len(delivered) \in Nat /\ Scheduled \in Nat
  BY <1>0, TakenNumbers
<1>4. /\ c <= d /\ a < d
      /\ \A e \in Cursors : SameConn(c, e) /\ c <= e /\ e < d => e <= a
      /\ IF s = <<>> THEN d = c ELSE NextSent(a, d)
  <2>1. s # <<>> => s[1] = [req |-> c, pos |-> 1]
    BY <1>2 DEF ConnStreamFrom
  <2> QED
    BY <1>1, <2>1, AnswersNext
<1>5. /\ t \in Seq(Units) /\ ConnStreamFrom(c, t) /\ EndsWith(c, d, t)
      /\ \A i \in 1 .. Len(t) : t[i].req = d \/ (i \in 1 .. Len(s) /\ t[i] = s[i])
  <2>1. EndsWith(c, a, s) /\ ConnStreamFrom(c, s) /\ a \in Nat /\ TypeOK
    BY <1>0, <1>1, <1>2, <1>3
  <2>2. IF s = <<>> THEN d = c ELSE NextSent(a, d)
    BY <1>4
  <2> QED
    BY <2>1, <2>2, ConnAppend
<1>6. \A e : Size(e)' = Size(e)
  BY DEF Size
<1>7. ConnStreamFrom(c, t)'
  BY <1>5, <1>6 DEF ConnStreamFrom, FollowsOnConn
<1>8. d \in 0 .. Taken' /\ EndsWith(c, d, t)'
  <2>1. d <= Taken
    BY DEF IocpStreamInv, RequestsInv
  <2>2. d \in 0 .. Taken'
    BY <1>3, <2>1 DEF Cursors
  <2>3. EndsWith(c, d, t)'
    BY <1>5, <1>6 DEF EndsWith
  <2> QED
    BY <2>2, <2>3
<1>9. Unanswered(c, d)'
  <2>1. ASSUME NEW e \in Cursors, SameConn(c, e), c <= e, e <= Taken
        PROVE  e > d <=> Holds(requests', e)
    <3>1. Holds(requests', e) <=> (e # d /\ Holds(requests, e))
      <4>1. requests \in Seq(Cursors) /\ Ascending(requests)
        BY <1>0 DEF TypeOK, IocpStreamInv, RequestsInv
      <4>2. Holds(RemoveAt(requests, n), e) <=> (e # requests[n] /\ Holds(requests, e))
        BY <4>1, OneRequestLess
      <4> QED
        BY <4>2
    <3>2. e > a <=> Holds(requests, e)
      BY <1>1, <2>1 DEF Unanswered
    <3>3. e \in Nat /\ d \in Nat
      BY DEF Cursors
    <3>4. e > d <=> (e # d /\ e > a)
      BY <1>3, <1>4, <2>1, <3>3
    <3> QED
      BY <3>1, <3>2, <3>4
  <2>2. \A e : Holds(requests', e) <=> Holds(requests, e)'
    BY DEF Holds
  <2> QED
    BY <2>1, <2>2 DEF Unanswered
<1>10. ConnInTime(c, t)'
  <2>1. d <= Scheduled \/ d = c
    <3>1. CASE stage[d] = "RECEIVE"
      BY <1>0, <3>1 DEF IocpInv, CursorInv
    <3>2. CASE \A e \in 1 .. (d - 1) : SameConn(d, e) => e <= Len(delivered)
      <4> SUFFICES ASSUME c # d PROVE FALSE
        OBVIOUS
      <4>1. c \in 1 .. (d - 1) /\ c \in Nat
        BY <1>4 DEF Cursors
      <4>2. SameConn(d, c)
        BY SameConnEquiv
      <4>3. c <= Len(delivered)
        BY <3>2, <4>1, <4>2
      <4> QED
        BY <1>3, <4>1, <4>3 DEF FirstLeft
    <3> QED
      BY <3>1, <3>2 DEF Expected
  <2>2. \A i \in 1 .. Len(s) : s[i].req <= Scheduled \/ s[i].req = c
    BY <1>2 DEF ConnInTime
  <2> QED
    BY <1>5, <2>1, <2>2 DEF ConnInTime
<1> QED
  BY <1>7, <1>8, <1>9, <1>10 DEF IsConnStream

\* A stream is not touched by an answer on the other connection.
LEMMA OtherAnswered ==
  ASSUME IocpStreamInv, NEW c \in Cursors, NEW n \in 1 .. Len(requests),
         ~SameConn(c, requests[n]), requests' = RemoveAt(requests, n),
         UNCHANGED <<bodyLen, Taken, Scheduled>>, NEW s \in Seq(Units), IsConnStream(c, s)
  PROVE  IsConnStream(c, s)'
<1>1. requests \in Seq(Cursors) /\ Ascending(requests)
  BY DEF IocpStreamInv, IocpInv, IocpTypeOK, TypeOK, RequestsInv
<1>2. \A e : Size(e)' = Size(e)
  BY DEF Size
<1>3. ConnStreamFrom(c, s)'
  BY <1>2 DEF IsConnStream, ConnStreamFrom, FollowsOnConn
<1>4. PICK a \in 0 .. Taken : EndsWith(c, a, s) /\ Unanswered(c, a)
  BY DEF IsConnStream
<1>5. EndsWith(c, a, s)' /\ a \in 0 .. Taken'
  BY <1>2, <1>4 DEF EndsWith
<1>6. Unanswered(c, a)'
  <2>1. ASSUME NEW e \in Cursors, SameConn(c, e), c <= e, e <= Taken
        PROVE  e > a <=> Holds(requests', e)
    <3>1. Holds(RemoveAt(requests, n), e) <=> (e # requests[n] /\ Holds(requests, e))
      BY <1>1, OneRequestLess
    <3>2. e # requests[n]
      BY <2>1
    <3>3. e > a <=> Holds(requests, e)
      BY <1>4, <2>1 DEF Unanswered
    <3> QED
      BY <3>1, <3>2, <3>3
  <2>2. \A e : Holds(requests', e) <=> Holds(requests, e)'
    BY DEF Holds
  <2> QED
    BY <2>1, <2>2 DEF Unanswered
<1>7. ConnInTime(c, s)'
  BY DEF IsConnStream, ConnInTime
<1> QED
  BY <1>3, <1>5, <1>6, <1>7 DEF IsConnStream

\* A server answers.
LEMMA StreamAnswer ==
  ASSUME IocpStreamInv, IocpInv', ~Outrun, IocpAnswer
  PROVE  IocpStreamInv'
<1>0. IocpInv /\ IocpTypeOK /\ TypeOK
  BY DEF IocpStreamInv, IocpInv, IocpTypeOK
<1>1. PICK n \in 1 .. Len(requests) :
        /\ \A j \in 1 .. (n - 1) : ~SameConn(requests[n], requests[j])
        /\ Expected(requests[n])
        /\ IF requests[n] \in Second
           THEN net2' = net2 \o Response(requests[n]) /\ UNCHANGED net
           ELSE net' = net \o Response(requests[n]) /\ UNCHANGED net2
        /\ requests' = RemoveAt(requests, n)
        /\ UNCHANGED <<appVars, txVars, sock, rxPipe, rxVars, rxAddedVars, sock2>>
  BY DEF IocpAnswer
<1>2. PICK d \in Cursors : d = requests[n]
  BY <1>0 DEF TypeOK
<1>3. /\ UNCHANGED <<bodyLen, queryCount, txQueue, sock, sock2, rxQueue, rxpc, cursor>>
      /\ UNCHANGED <<responseCount, header, data, delivered, transferred>>
  BY <1>1 DEF appVars, txVars, rxVars, rxAddedVars
<1>4. UNCHANGED <<Oldest, Scheduled, Taken>>
  BY <1>3 DEF Oldest, Scheduled, Taken
<1>5. \A c : /\ Received(c)' = Received(c) /\ Response(c)' = Response(c)
             /\ FirstLeft(c)' <=> FirstLeft(c)
             /\ Arrived(c)' = Arrived(c) /\ SockOf(c)' = SockOf(c)
  BY <1>3, <1>4 DEF Received, Response, FirstLeft, Arrived, SockOf
<1>6. requests \in Seq(Cursors) /\ Ascending(requests)
  BY <1>0 DEF TypeOK, IocpStreamInv, RequestsInv
<1>7. RequestsInv'
  <2>1. Ascending(requests')
    BY <1>1, <1>6, OneRequestLess
  <2>2. ASSUME NEW i \in 1 .. Len(requests')
        PROVE  Len(delivered) < requests'[i] /\ requests'[i] <= Taken
    <3>1. Holds(requests', requests'[i])
      BY DEF Holds
    <3>2. Holds(requests, requests'[i])
      BY <1>1, <1>6, <3>1, OneRequestLess
    <3> QED
      BY <3>2 DEF Holds, IocpStreamInv, RequestsInv
  <2> QED
    BY <1>3, <1>4, <2>1, <2>2 DEF RequestsInv, Ascending
<1>8. ASSUME NEW c \in Cursors, FirstLeft(c)
      PROVE  ConnInv(c)'
  <2>1. ConnInv(c)
    BY <1>8 DEF IocpStreamInv
  <2>2. PICK s \in Seq(Units) : s = ConnStream(c)
    BY <1>0, ConnTypes
  <2>3. IsConnStream(c, s)
    BY <2>1, <2>2 DEF ConnInv
  <2>4. IsConnStream(c, ConnStream(c))'
    <3>1. CASE ~SameConn(c, d)
      <4>1. NetOf(c)' = NetOf(c)
        BY <1>1, <1>2, <3>1 DEF NetOf, SameConn
      <4>2. ConnStream(c)' = s
        BY <1>5, <2>2, <4>1 DEF ConnStream, Coming
      <4>3. IsConnStream(c, s)'
        BY <1>1, <1>2, <1>3, <1>4, <2>3, <3>1, OtherAnswered
      <4> QED
        BY <4>2, <4>3 DEF IsConnStream, ConnStreamFrom, EndsWith, ConnInTime
    <3>2. CASE SameConn(c, d)
      <4>1. PICK w \in Seq(Units) : w = Response(d)
        <5>1. Response(d) \in Seq(Bytes)
          BY <1>0, ResponseBytes
        <5> QED
          BY <5>1 DEF Units
      <4>2. NetOf(c)' = NetOf(c) \o w
        BY <1>1, <1>2, <3>2, <4>1 DEF NetOf, SameConn
      <4>3. PICK t : t = ConnStream(c)'
        OBVIOUS
      <4>4. t = s \o w
        BY <1>0, <1>5, <2>2, <4>2, <4>3, AnswerIsLast
      <4>5. Extended(s, d, t)
        BY <1>0, <4>1, <4>4, ResponseExtends
      <4>6. IsConnStream(c, t)'
        BY <1>1, <1>2, <1>3, <1>4, <1>8, <2>3, <3>2, <4>5, AnswerStream
      <4> QED
        BY <4>3, <4>6 DEF IsConnStream, ConnStreamFrom, EndsWith, ConnInTime
    <3> QED
      BY <3>1, <3>2
  <2> QED
    BY <1>5, <2>1, <2>4 DEF ConnInv, UncutHeader
<1>9. BuffersInv'
  BY <1>3, <1>5 DEF IocpStreamInv, BuffersInv
<1>10. OwnResponse' /\ NeverAborts'
  BY <1>3, <1>5 DEF IocpStreamInv, OwnResponse, NeverAborts
<1> QED
  BY <1>5, <1>7, <1>8, <1>9, <1>10 DEF IocpStreamInv

LEMMA UncutJoined ==
  ASSUME NEW s \in Seq(Units), NEW t \in Seq(Units), UncutHeader(s), UncutHeader(t)
  PROVE  UncutHeader(s \o t)
<1>1. Len(s \o t) = Len(s) + Len(t) /\ Len(s) \in Nat /\ Len(t) \in Nat
  BY Joined
<1>2. CASE t = <<>>
  <2>1. s \o t = s
    BY <1>2, EmptyJoined
  <2> QED
    BY <2>1
<1>3. CASE t # <<>>
  <2>1. Len(t) \in 1 .. Len(t)
    BY <1>1, <1>3
  <2>2. (s \o t)[Len(s) + Len(t)] = t[Len(t)]
    BY <2>1, Joined
  <2> QED
    BY <1>1, <1>3, <2>2 DEF UncutHeader
<1> QED
  BY <1>2, <1>3

\* What came for the oldest cursor begins with its header, if it has none yet.
LEMMA FirstArrived ==
  ASSUME IocpStreamInv, NEW c \in Cursors, FirstLeft(c), header[c] = None,
         NEW A \in Seq(Units), A = Arrived(c), A # <<>>
  PROVE  /\ Len(A) >= HeaderLen
         /\ \A i \in 1 .. HeaderLen : A[i] = [req |-> c, pos |-> i]
<1>0. IocpTypeOK /\ TypeOK /\ ConnInv(c) /\ c > Len(delivered)
  BY DEF IocpStreamInv, IocpInv, IocpTypeOK, FirstLeft
<1>1. Received(c) = <<>>
  BY <1>0 DEF IocpStreamInv, BuffersInv, Received
<1>2. PICK u \in Seq(Units) : u = SockOf(c) \o NetOf(c)
  BY <1>0, ConnTypes
<1>3. ConnStream(c) = A \o u
  <2>1. Coming(c) \in Seq(Units) /\ Coming(c) = A \o u
    BY <1>0, <1>2, ConnTypes DEF Coming
  <2>2. <<>> \o Coming(c) = Coming(c)
    BY <2>1, EmptyJoined
  <2> QED
    BY <1>1, <2>1, <2>2 DEF ConnStream
<1>4. ConnStreamFrom(c, A \o u)
  BY <1>0, <1>3 DEF ConnInv, IsConnStream
<1>5. InResponses(c, A \o u)
  BY <1>4, ConnInResponses
<1>6. InResponses(c, A)
  BY <1>5, PrefixInResponses
<1>7. UncutHeader(A)
  BY <1>0 DEF ConnInv
<1> QED
  BY <1>0, <1>6, <1>7, UncutIsWhole

\* What the rx thread receives comes behind what the cursor had, without a loss.
LEMMA ReceivedGrows ==
  ASSUME IocpStreamInv, NEW c \in Cursors, FirstLeft(c), NEW A \in Seq(Units), A = Arrived(c),
         Receive(c, A), UNCHANGED bodyLen
  PROVE  /\ Received(c)' = Received(c) \o A /\ rxpc' = "process"
         /\ header'[c] \in {None, c} /\ (header'[c] = None => data'[c] = <<>>)
         /\ \A d \in Cursors : d # c => header'[d] = header[d] /\ data'[d] = data[d]
<1>0. IocpTypeOK /\ TypeOK /\ ConnInv(c) /\ c > Len(delivered) /\ c # None
  BY NoneIsNoCursor DEF IocpStreamInv, IocpInv, IocpTypeOK, FirstLeft
<1>1. header[c] \in {None, c} /\ (header[c] = None => data[c] = <<>>)
  BY <1>0 DEF IocpStreamInv, BuffersInv
<1>2. /\ header \in [Cursors -> Cursors \cup {None}] /\ data \in [Cursors -> Seq(Units)]
      /\ data[c] \in Seq(Units)
  BY <1>0 DEF TypeOK
<1>3. \A d \in Cursors : d # c => header'[d] = header[d] /\ data'[d] = data[d]
  BY <1>2 DEF Receive
<1>4. Response(c)' = Response(c)
  BY DEF Response
<1> DEFINE buf   == data[c] \o A
           end   == IF header[c] = None THEN HeaderEnd(buf) ELSE 0
           wraps == end > Len(A)
<1>5. /\ header' = [header EXCEPT ![c] = IF end = 0 \/ wraps THEN @ ELSE buf[end].req]
      /\ data' = [data EXCEPT ![c] =
                    IF end = 0 \/ wraps THEN buf ELSE MoveBody(buf, end, Len(A))]
      /\ rxpc' = IF wraps THEN "aborted" ELSE "process"
  BY DEF Receive
<1>6. Len(A) \in Nat /\ buf \in Seq(Units)
  BY <1>2, Joined
<1> HIDE DEF buf, end, wraps
<1>7. CASE end = 0
  <2>1. ~wraps
    BY <1>6, <1>7 DEF wraps
  <2>2. header'[c] = header[c] /\ data'[c] = buf /\ rxpc' = "process"
    BY <1>2, <1>5, <1>7, <2>1
  <2>3. CASE header[c] # None
    <3>1. Received(c) = SubSeq(Response(c), 1, HeaderLen) \o data[c]
      BY <1>1, <2>3 DEF Received
    <3>2. Received(c)' = SubSeq(Response(c), 1, HeaderLen) \o (data[c] \o A)
      BY <1>1, <1>4, <2>2, <2>3 DEF Received, buf
    <3>3. SubSeq(Response(c), 1, HeaderLen) \o (data[c] \o A)
            = (SubSeq(Response(c), 1, HeaderLen) \o data[c]) \o A
      BY <1>0, <1>2, MoreBytes
    <3> QED
      BY <1>1, <1>3, <2>2, <2>3, <3>1, <3>2, <3>3
  <2>4. CASE header[c] = None
    <3>1. data[c] = <<>> /\ buf = A
      BY <1>1, <2>4, EmptyJoined DEF buf
    <3>2. A = <<>>
      <4> SUFFICES ASSUME A # <<>> PROVE FALSE
        OBVIOUS
      <4>1. /\ Len(A) >= HeaderLen
            /\ \A i \in 1 .. HeaderLen : A[i] = [req |-> c, pos |-> i]
        BY <2>4, FirstArrived
      <4>2. HeaderEnd(A) = HeaderLen /\ HeaderLen # 0
        BY <1>0, <4>1, FirstRead
      <4> QED
        BY <1>7, <2>4, <3>1, <4>2 DEF end
    <3>3. Received(c) = <<>> /\ Received(c)' = <<>>
      BY <2>2, <2>4, <3>1, <3>2 DEF Received
    <3>4. <<>> \o A = <<>>
      BY <3>2, EmptyJoined
    <3> QED
      BY <1>3, <2>2, <2>4, <3>1, <3>2, <3>3, <3>4
  <2> QED
    BY <2>3, <2>4
<1>8. CASE end # 0
  <2>1. header[c] = None
    BY <1>8 DEF end
  <2>2. data[c] = <<>> /\ buf = A /\ end = HeaderEnd(A)
    BY <1>1, <2>1, EmptyJoined DEF buf, end
  <2>3. A # <<>>
    <3> SUFFICES ASSUME A = <<>> PROVE FALSE
      OBVIOUS
    <3>1. HeaderEnd(A) \in 0 .. Len(A) /\ Len(A) = 0
      BY HeaderEndRange
    <3> QED
      BY <1>8, <2>2, <3>1
  <2>4. /\ Len(A) >= HeaderLen
        /\ \A i \in 1 .. HeaderLen : A[i] = [req |-> c, pos |-> i]
    BY <2>1, <2>3, FirstArrived
  <2>5. end = HeaderLen /\ ~(HeaderLen > Len(A)) /\ A[HeaderLen].req = c
    BY <1>0, <2>2, <2>4, FirstRead
  <2>6. PICK m : m = MoveBody(A, HeaderLen, Len(A))
    OBVIOUS
  <2>7. SubSeq(Response(c), 1, HeaderLen) \o m = A
    BY <1>0, <2>4, <2>6, FirstRead
  <2>8. ~wraps
    BY <2>5 DEF wraps
  <2>9. header'[c] = c /\ data'[c] = m /\ rxpc' = "process"
    BY <1>2, <1>5, <1>8, <2>2, <2>5, <2>6, <2>8
  <2>10. Received(c)' = A
    BY <1>0, <1>4, <2>7, <2>9 DEF Received
  <2>11. Received(c) \o A = A
    <3>1. Received(c) = <<>>
      BY <2>1, <2>2 DEF Received
    <3> QED
      BY <3>1, EmptyJoined
  <2> QED
    BY <1>0, <1>3, <2>9, <2>10, <2>11
<1> QED
  BY <1>7, <1>8

\* The packet of a WSARecv is taken off the port.
LEMMA StreamReceiveDone ==
  ASSUME IocpStreamInv, IocpInv', ReceiveDone
  PROVE  IocpStreamInv'
<1>0. IocpInv /\ IocpTypeOK /\ TypeOK
  BY DEF IocpStreamInv, IocpInv, IocpTypeOK
<1>1. PICK c : c = Head(rxPipe)
  OBVIOUS
<1>2. /\ rxPipe # <<>> /\ stage[c] = "RECEIVE" /\ cursor' = c /\ Receive(c, transferred[c])
      /\ UNCHANGED <<bodyLen, queryCount, txQueue, requests, net, sock, net2, sock2, rxQueue>>
      /\ UNCHANGED <<responseCount, delivered, transferred>>
  BY <1>1 DEF ReceiveDone, appVars, txVars, netVars, iocpVars, rxAddedVars, net2Vars
<1>3. PICK p \in 0 .. Len(rxPipe) : Places(p)
  BY <1>0 DEF IocpInv
<1>4. c \in Cursors /\ p = 1 /\ c = Oldest
  BY <1>0, <1>1, <1>2, <1>3, HeadOfPort
<1>5. responseCount # 0 /\ rxQueue = {} /\ cursor = None
  BY <1>3, <1>4 DEF Places, Receiving
<1>6. FirstLeft(c) /\ c # None
  BY <1>0, <1>4, OldestIsFirst, NoneIsNoCursor
<1>7. UNCHANGED <<Oldest, Scheduled, Taken>> /\ Scheduled \in Nat
  BY <1>0, <1>2, TakenNumbers DEF Oldest, Scheduled, Taken
<1>8. PICK A \in Seq(Units) : A = Arrived(c) /\ A = transferred[c]
  BY <1>0, <1>4, <1>5, ConnTypes DEF Arrived
<1>9. /\ Received(c)' = Received(c) \o A /\ rxpc' = "process"
      /\ header'[c] \in {None, c} /\ (header'[c] = None => data'[c] = <<>>)
      /\ \A d \in Cursors : d # c => header'[d] = header[d] /\ data'[d] = data[d]
  <2>1. Receive(c, A)
    BY <1>2, <1>8
  <2> QED
    BY <1>2, <1>4, <1>6, <1>8, <2>1, ReceivedGrows
<1>10. \A d : /\ FirstLeft(d)' <=> FirstLeft(d)
              /\ Response(d)' = Response(d) /\ SockOf(d)' = SockOf(d) /\ NetOf(d)' = NetOf(d)
  BY <1>2 DEF FirstLeft, Response, SockOf, NetOf
<1>11. \A d : Arrived(d)' = <<>>
  BY <1>2, <1>6 DEF Arrived
<1>12. ASSUME NEW d \in Cursors, FirstLeft(d)
       PROVE  /\ ConnStream(d)' = ConnStream(d)
              /\ UncutHeader(Received(d))' /\ UncutHeader(Arrived(d))' /\ UncutHeader(SockOf(d))'
  <2>0. ConnInv(d)
    BY <1>12 DEF IocpStreamInv
  <2>1. UncutHeader(Arrived(d))' /\ UncutHeader(SockOf(d))'
    BY <1>10, <1>11, <2>0 DEF ConnInv, UncutHeader
  <2>2. CASE d # c
    <3>1. Received(d)' = Received(d)
      BY <1>9, <1>10, <2>2 DEF Received
    <3>2. Arrived(d) = <<>>
      BY <1>4, <2>2 DEF Arrived
    <3>3. ConnStream(d)' = ConnStream(d)
      BY <1>10, <1>11, <3>1, <3>2 DEF ConnStream, Coming
    <3>4. UncutHeader(Received(d))'
      BY <2>0, <3>1 DEF ConnInv, UncutHeader
    <3> QED
      BY <2>1, <3>3, <3>4
  <2>3. CASE d = c
    <3>1. PICK R \in Seq(Units), u \in Seq(Units) : R = Received(c) /\ u = SockOf(c) \o NetOf(c)
      BY <1>0, <1>4, ConnTypes
    <3>2. Regrouped(R, A, u)
      BY ThreeRegrouped
    <3>3. ConnStream(c) = R \o (A \o u)
      BY <1>8, <3>1 DEF ConnStream, Coming
    <3>4. ConnStream(c)' = (R \o A) \o (<<>> \o u)
      BY <1>9, <1>10, <1>11, <3>1 DEF ConnStream, Coming
    <3>5. <<>> \o u = u
      BY EmptyJoined
    <3>6. ConnStream(c)' = ConnStream(c)
      BY <3>2, <3>3, <3>4, <3>5 DEF Regrouped
    <3>7. UncutHeader(R \o A)
      BY <1>8, <2>0, <2>3, <3>1, UncutJoined DEF ConnInv
    <3>8. UncutHeader(Received(c))'
      BY <1>9, <3>1, <3>7 DEF UncutHeader
    <3> QED
      BY <2>1, <2>3, <3>6, <3>8
  <2> QED
    BY <2>2, <2>3
<1>13. ASSUME NEW d \in Cursors, FirstLeft(d)
       PROVE  ConnInv(d)'
  <2>1. ConnInv(d)
    BY <1>13 DEF IocpStreamInv
  <2>2. PICK s \in Seq(Units) : s = ConnStream(d)
    BY <1>0, ConnTypes
  <2>3. IsConnStream(d, s)
    BY <2>1, <2>2 DEF ConnInv
  <2>4. IsConnStream(d, s)'
    BY <1>0, <1>2, <1>7, <2>3, SameConnStream
  <2>5. ConnStream(d)' = s
    BY <1>12, <1>13, <2>2
  <2>6. IsConnStream(d, ConnStream(d))'
    BY <2>4, <2>5 DEF IsConnStream, ConnStreamFrom, EndsWith, ConnInTime
  <2> QED
    BY <1>12, <1>13, <2>6 DEF ConnInv
<1>14. BuffersInv'
  <2>1. ASSUME NEW d \in Cursors, d > Len(delivered)
        PROVE  /\ header'[d] \in {None, d}
               /\ header'[d] = None => data'[d] = <<>>
               /\ ~FirstLeft(d) => header'[d] = None
    <3>1. CASE d = c
      BY <1>6, <1>9, <3>1
    <3>2. CASE d # c
      BY <1>9, <2>1, <3>2 DEF IocpStreamInv, BuffersInv
    <3> QED
      BY <3>1, <3>2
  <2> QED
    BY <1>2, <1>10, <2>1 DEF BuffersInv
<1>15. RequestsInv'
  BY <1>2, <1>7 DEF IocpStreamInv, RequestsInv, Ascending
<1>16. OwnResponse' /\ NeverAborts'
  BY <1>2, <1>9, <1>10 DEF IocpStreamInv, OwnResponse, NeverAborts
<1> QED
  BY <1>10, <1>13, <1>14, <1>15, <1>16 DEF IocpStreamInv

-----------------------------------------------------------------------------
(***************************************************************************)
(* A response is complete.                                                 *)
(***************************************************************************)

LEMMA CompleteOldest ==
  ASSUME IocpStreamInv, rxpc = "process", NEW c, c = cursor
  PROVE  /\ c \in Cursors /\ c = Oldest /\ FirstLeft(c) /\ c <= Scheduled /\ cursor # None
         /\ c = Len(delivered) + 1 /\ c \in Nat /\ Len(delivered) \in Nat /\ Scheduled \in Nat
         /\ responseCount \in Nat \ {0} /\ rxQueue = {}
         /\ Scheduled = Len(delivered) + responseCount
         /\ \A d \in Cursors : Arrived(d) = <<>>
<1>0. IocpInv
  BY DEF IocpStreamInv
<1>1. cursor # None
  BY <1>0 DEF IocpInv, CursorInv
<1>2. PICK p \in 0 .. Len(rxPipe) : Places(p)
  BY <1>0 DEF IocpInv
<1>3. responseCount \in Nat \ {0} /\ cursor = Oldest /\ rxQueue = {}
  BY <1>0, <1>1, <1>2, CursorIsOldest
<1>4. Oldest \in Cursors /\ FirstLeft(Oldest) /\ Oldest <= Scheduled
  BY <1>0, <1>3, OldestInFlight
<1>5. /\ Len(delivered) \in Nat /\ Oldest = Len(delivered) + 1 /\ Scheduled \in Nat
      /\ Scheduled = Len(delivered) + responseCount
  BY <1>0, Numbers, TakenNumbers DEF IocpInv
<1>6. \A d \in Cursors : Arrived(d) = <<>>
  BY <1>1 DEF Arrived
<1> QED
  BY <1>1, <1>3, <1>4, <1>5, <1>6

\* The buffer of a complete cursor.
LEMMA OldestBuffer ==
  ASSUME IocpStreamInv, rxpc = "process", Complete(cursor), NEW c, c = cursor
  PROVE  /\ header[c] = c /\ ContentLength(c) = bodyLen[c]
         /\ SubSeq(data[c], 1, bodyLen[c]) = SubSeq(Response(c), HeaderLen + 1, Size(c))
         /\ Overlap(c) \in Seq(Units) /\ UncutHeader(Overlap(c))
         /\ Size(c) <= Len(ConnStream(c))
         /\ SubSeq(ConnStream(c), Size(c) + 1, Len(ConnStream(c))) = Overlap(c) \o Coming(c)
<1>0. IocpTypeOK /\ TypeOK
  BY DEF IocpStreamInv, IocpInv, IocpTypeOK
<1>1. c \in Cursors /\ FirstLeft(c) /\ c > Len(delivered) /\ c # None
  BY CompleteOldest, NoneIsNoCursor DEF FirstLeft
<1>2. ConnInv(c) /\ header[c] \in {None, c} /\ data[c] \in Seq(Units)
  BY <1>0, <1>1 DEF IocpStreamInv, BuffersInv, TypeOK
<1>3. PICK s \in Seq(Units), rest \in Seq(Units) : s = ConnStream(c) /\ rest = Coming(c)
  BY <1>0, <1>1, ConnTypes
<1>4. s = Received(c) \o rest
  BY <1>3 DEF ConnStream
<1>5. InResponses(c, s)
  BY <1>2, <1>3, ConnInResponses DEF ConnInv, IsConnStream
<1>6. /\ header[c] = c /\ ContentLength(c) = bodyLen[c] /\ bodyLen[c] >= 1
      /\ Overlap(c) \in Seq(Units) /\ Size(c) <= Len(s)
      /\ SubSeq(s, Size(c) + 1, Len(s)) = Overlap(c) \o rest
      /\ SubSeq(data[c], 1, bodyLen[c]) = SubSeq(Response(c), HeaderLen + 1, Size(c))
  BY <1>0, <1>1, <1>2, <1>4, <1>5, CompleteBuffer
<1>7. UncutHeader(Overlap(c))
  <2>1. PICK h \in Seq(Units), d \in Seq(Units) :
          /\ h = SubSeq(Response(c), 1, HeaderLen) /\ d = data[c]
    BY <1>0, <1>1, <1>2, HeaderBytes
  <2>2. Received(c) = h \o d
    BY <1>1, <1>6, <2>1 DEF Received
  <2>3. UncutHeader(h \o d)
    BY <1>2, <2>2 DEF ConnInv
  <2>4. PICK n \in Nat : n = bodyLen[c] /\ n <= Len(d)
    <3>1. bodyLen[c] \in 1 .. Len(d) /\ Len(d) \in Nat
      BY <1>6, <2>1 DEF Complete
    <3> QED
      BY <3>1
  <2>5. PICK o \in Seq(Units) : o = SubSeq(d, n + 1, Len(d))
    <3>1. n \in 0 .. Len(d)
      BY <2>4
    <3> QED
      BY <3>1, CutInTwo
  <2>6. Len(o) = Len(d) - n /\ Len(d) \in Nat /\ \A i \in 1 .. (Len(d) - n) : o[i] = d[n + i]
    <3>1. n \in 0 .. Len(d)
      BY <2>4
    <3>2. Len(o) = Len(d) - n
      BY <2>5, <3>1, CutInTwo
    <3>3. \A i \in 1 .. (Len(d) - n) : o[i] = d[n + i]
      BY <2>5, <3>1, CutInTwo
    <3> QED
      BY <3>2, <3>3
  <2>7. UncutHeader(o)
    <3> SUFFICES ASSUME o # <<>> PROVE o[Len(o)].pos >= HeaderLen
      BY DEF UncutHeader
    <3>1. Len(o) \in Nat /\ Len(o) >= 1
      OBVIOUS
    <3>2. Len(o) \in 1 .. (Len(d) - n) /\ n + Len(o) = Len(d) /\ Len(d) \in 1 .. Len(d)
      BY <2>4, <2>6, <3>1
    <3>3. o[Len(o)] = d[Len(d)]
      BY <2>6, <3>2
    <3>4. (h \o d)[Len(h) + Len(d)] = d[Len(d)]
      BY <3>2, Joined
    <3>5. Len(h \o d) = Len(h) + Len(d) /\ Len(h) \in Nat
      BY Joined
    <3>6. h \o d # <<>>
      <4>1. Len(h \o d) # 0
        BY <3>2, <3>5
      <4> QED
        BY <4>1
    <3> QED
      BY <2>3, <3>3, <3>4, <3>5, <3>6 DEF UncutHeader
  <2>8. Overlap(c) = o
    BY <1>6, <2>1, <2>4, <2>5 DEF Overlap
  <2> QED
    BY <2>7, <2>8
<1> QED
  BY <1>3, <1>6, <1>7

\* t is what the connection of the complete cursor c has behind its response.
IsRest(c, t) == t = Overlap(c) \o Coming(c)

LEMMA RestElements ==
  ASSUME IocpStreamInv, rxpc = "process", Complete(cursor), NEW c, c = cursor,
         NEW s \in Seq(Units), s = ConnStream(c), NEW t \in Seq(Units), IsRest(c, t)
  PROVE  /\ Size(c) <= Len(s) /\ Len(t) = Len(s) - Size(c)
         /\ \A i \in 1 .. Len(t) : t[i] = s[Size(c) + i]
<1>0. TypeOK /\ c \in Cursors
  BY CompleteOldest DEF IocpStreamInv, IocpInv, IocpTypeOK
<1>1. PICK n \in Nat : n = Size(c)
  BY <1>0, SizeType
<1>2. n <= Len(s) /\ t = SubSeq(s, n + 1, Len(s))
  BY <1>1, OldestBuffer DEF IsRest
<1>3. n \in 0 .. Len(s)
  BY <1>2
<1>4. Len(t) = Len(s) - n
  BY <1>2, <1>3, CutInTwo
<1>5. \A i \in 1 .. (Len(s) - n) : t[i] = s[n + i]
  BY <1>2, <1>3, CutInTwo
<1> QED
  BY <1>1, <1>2, <1>4, <1>5

\* It is the stream from the next cursor of the connection on.
LEMMA RestIsStream ==
  ASSUME IocpStreamInv, rxpc = "process", Complete(cursor), NEW c, c = cursor,
         NEW t \in Seq(Units), IsRest(c, t), NEW d \in Cursors, NextSent(c, d),
         UNCHANGED <<bodyLen, requests, Taken>>, Scheduled' = Scheduled
  PROVE  IsConnStream(d, t)'
<1>0. TypeOK /\ IocpTypeOK /\ c \in Cursors /\ FirstLeft(c) /\ c <= Scheduled
  BY CompleteOldest DEF IocpStreamInv, IocpInv, IocpTypeOK
<1>1. PICK s \in Seq(Units) : s = ConnStream(c)
  BY <1>0, ConnTypes
<1>2. IsConnStream(c, s)
  BY <1>0, <1>1 DEF IocpStreamInv, ConnInv
<1>3. PICK a \in 0 .. Taken : EndsWith(c, a, s) /\ Unanswered(c, a)
  BY <1>2 DEF IsConnStream
<1>4. /\ Size(c) <= Len(s) /\ Len(t) = Len(s) - Size(c)
      /\ \A i \in 1 .. Len(t) : t[i] = s[Size(c) + i]
  BY <1>1, RestElements
<1>5. ConnStreamFrom(d, t) /\ EndsWith(d, a, t)
  <2>1. a \in Nat /\ ConnStreamFrom(c, s)
    BY <1>2 DEF IsConnStream
  <2> QED
    BY <1>0, <1>3, <1>4, <2>1, ConnTail
<1>6. \A e : Size(e)' = Size(e)
  BY DEF Size
<1>7. ConnStreamFrom(d, t)'
  BY <1>5, <1>6 DEF ConnStreamFrom, FollowsOnConn
<1>8. EndsWith(d, a, t)'
  BY <1>5, <1>6 DEF EndsWith
<1>9. SameConn(c, d) /\ c <= d /\ d \in Nat /\ c \in Nat
  BY <1>0 DEF NextSent, Cursors
<1>10. Unanswered(d, a)'
  <2>1. ASSUME NEW e \in Cursors, SameConn(d, e), d <= e, e <= Taken
        PROVE  e > a <=> Holds(requests, e)
    <3>1. e \in Nat
      BY DEF Cursors
    <3>2. SameConn(c, e) /\ c <= e
      BY <1>9, <2>1, <3>1, SameConnEquiv
    <3> QED
      BY <1>3, <2>1, <3>2 DEF Unanswered
  <2> QED
    BY <2>1 DEF Unanswered, Holds
<1>11. ConnInTime(d, t)'
  <2>1. ASSUME NEW i \in 1 .. Len(t)
        PROVE  t[i].req <= Scheduled
    <3>1. Size(c) + i \in 1 .. Len(s)
      BY <1>0, <1>4, SizeType
    <3>2. s[Size(c) + i].req <= Scheduled \/ s[Size(c) + i].req = c
      BY <1>2, <3>1 DEF IsConnStream, ConnInTime
    <3> QED
      BY <1>0, <1>4, <3>2
  <2> QED
    BY <2>1 DEF ConnInTime
<1> QED
  BY <1>7, <1>8, <1>10, <1>11 DEF IsConnStream

\* The overlap is of the next cursor sent on the connection, which is scheduled,
\* and holds the whole header of its response.
LEMMA OverlapWaits ==
  ASSUME IocpStreamInv, rxpc = "process", Complete(cursor), NEW c, c = cursor,
         NEW over \in Seq(Units), over = Overlap(c), over # <<>>
  PROVE  \E d \in Cursors : /\ NextSent(c, d) /\ d <= Scheduled
                            /\ Len(over) >= HeaderLen
                            /\ \A i \in 1 .. HeaderLen : over[i] = [req |-> d, pos |-> i]
<1>0. /\ TypeOK /\ IocpTypeOK /\ c \in Cursors /\ FirstLeft(c) /\ c <= Scheduled
      /\ Scheduled \in Nat
  BY CompleteOldest DEF IocpStreamInv, IocpInv, IocpTypeOK
<1>1. PICK s \in Seq(Units), rest \in Seq(Units) : s = ConnStream(c) /\ rest = Coming(c)
  BY <1>0, ConnTypes
<1>2. PICK t \in Seq(Units) : t = over \o rest
  BY Joined
<1>3. IsRest(c, t)
  BY <1>1, <1>2 DEF IsRest
<1>4. /\ Size(c) <= Len(s) /\ Len(t) = Len(s) - Size(c)
      /\ \A i \in 1 .. Len(t) : t[i] = s[Size(c) + i]
  BY <1>1, <1>3, RestElements
<1>5. Len(t) = Len(over) + Len(rest) /\ Len(over) \in Nat /\ Len(rest) \in Nat /\ Len(over) >= 1
  <2>1. Len(over) \in Nat /\ Len(over) >= 1
    OBVIOUS
  <2> QED
    BY <1>2, <2>1, Joined
<1>6. Size(c) < Len(s) /\ Size(c) + 1 \in 1 .. Len(s)
  BY <1>0, <1>4, <1>5, SizeType
<1>7. IsConnStream(c, s)
  BY <1>0, <1>1 DEF IocpStreamInv, ConnInv
<1>8. PICK a \in 0 .. Taken : EndsWith(c, a, s)
  BY <1>7 DEF IsConnStream
<1>9. ConnStreamFrom(c, s) /\ a \in Nat
  BY <1>7, <1>8 DEF IsConnStream
<1>10. PICK d : d = s[Size(c) + 1].req
  OBVIOUS
<1>11. d \in Cursors /\ NextSent(c, d)
  BY <1>0, <1>6, <1>8, <1>9, <1>10, BehindResponse
<1>12. d <= Scheduled
  <2>1. d <= Scheduled \/ d = c
    BY <1>6, <1>7, <1>10 DEF IsConnStream, ConnInTime
  <2> QED
    BY <1>0, <2>1
<1>13. ConnStreamFrom(d, t)
  BY <1>0, <1>4, <1>8, <1>9, <1>11, ConnTail
<1>14. InResponses(d, over)
  <2>1. InResponses(d, over \o rest)
    BY <1>2, <1>13, ConnInResponses
  <2> QED
    BY <2>1, PrefixInResponses
<1>15. UncutHeader(over)
  BY OldestBuffer
<1> QED
  BY <1>0, <1>11, <1>12, <1>14, <1>15, UncutIsWhole

\* Who is next on a connection once c was called back.
LEMMA NextFirst ==
  ASSUME NEW c \in Cursors, Len(delivered) \in Nat, c = Len(delivered) + 1, Len(delivered)' = c,
         NEW d \in Cursors
  PROVE  /\ FirstLeft(d)' /\ SameConn(c, d) => NextSent(c, d)
         /\ NextSent(c, d) => FirstLeft(d)'
         /\ FirstLeft(d)' /\ ~SameConn(c, d) => FirstLeft(d)
         /\ FirstLeft(d) /\ d > c => FirstLeft(d)'
<1>1. \A e \in Cursors : e \in Nat
  BY DEF Cursors
<1>2. FirstLeft(d)' <=> /\ d > c
                        /\ \A e \in Cursors : SameConn(d, e) /\ e < d => e <= c
  BY DEF FirstLeft
<1>3. FirstLeft(d)' /\ SameConn(c, d) => NextSent(c, d)
  <2> SUFFICES ASSUME FirstLeft(d)', SameConn(c, d) PROVE NextSent(c, d)
    OBVIOUS
  <2>1. ASSUME NEW e \in Cursors, c < e /\ e < d PROVE ~SameConn(c, e)
    <3> SUFFICES ASSUME SameConn(c, e) PROVE FALSE
      OBVIOUS
    <3>1. SameConn(d, e)
      BY SameConnEquiv
    <3> QED
      BY <1>1, <1>2, <2>1, <3>1
  <2> QED
    BY <1>1, <1>2, <2>1 DEF NextSent
<1>4. NextSent(c, d) => FirstLeft(d)'
  <2> SUFFICES ASSUME NextSent(c, d) PROVE FirstLeft(d)'
    OBVIOUS
  <2>1. c < d /\ SameConn(c, d)
    BY DEF NextSent
  <2>2. ASSUME NEW e \in Cursors, SameConn(d, e), e < d PROVE e <= c
    <3>1. SameConn(c, e)
      BY <2>1, <2>2, SameConnEquiv
    <3>2. ~(c < e)
      BY <2>2, <3>1 DEF NextSent
    <3> QED
      BY <1>1, <3>2
  <2> QED
    BY <1>1, <1>2, <2>1, <2>2
<1>5. FirstLeft(d)' /\ ~SameConn(c, d) => FirstLeft(d)
  <2> SUFFICES ASSUME FirstLeft(d)', ~SameConn(c, d) PROVE FirstLeft(d)
    OBVIOUS
  <2>1. ASSUME NEW e \in Cursors, SameConn(d, e), e < d PROVE e <= Len(delivered)
    <3>1. e <= c /\ e # c
      BY <1>2, <2>1, SameConnEquiv
    <3> QED
      BY <1>1, <3>1
  <2> QED
    BY <1>1, <1>2, <2>1 DEF FirstLeft
<1>6. FirstLeft(d) /\ d > c => FirstLeft(d)'
  <2> SUFFICES ASSUME FirstLeft(d), d > c PROVE FirstLeft(d)'
    OBVIOUS
  <2>1. \A e \in Cursors : SameConn(d, e) /\ e < d => e <= c
    BY <1>1 DEF FirstLeft
  <2> QED
    BY <1>2, <2>1
<1> QED
  BY <1>3, <1>4, <1>5, <1>6

\* A cursor is called back, and the next of its connection has the overlap.
LEMMA CalledBackInv ==
  ASSUME IocpStreamInv, IocpInv', rxpc = "process", Complete(cursor), NEW c, c = cursor,
         delivered' = Append(delivered, Callback(cursor)),
         UNCHANGED <<bodyLen, requests, net, sock, net2, sock2, Taken>>,
         Scheduled' = Scheduled, rxpc' # "aborted",
         \A d \in Cursors : Arrived(d)' = <<>>,
         NEW over \in Seq(Units), over = Overlap(c),
         \A d \in Cursors : NextSent(c, d) =>
           /\ Received(d)' = over /\ header'[d] \in {None, d}
           /\ header'[d] = None => data'[d] = <<>>,
         \A d \in Cursors : ~NextSent(c, d) => header'[d] = header[d] /\ data'[d] = data[d]
  PROVE  IocpStreamInv'
<1>0. TypeOK /\ IocpTypeOK /\ IocpInv
  BY DEF IocpStreamInv, IocpInv, IocpTypeOK
<1>1. /\ c \in Cursors /\ FirstLeft(c) /\ c <= Scheduled
      /\ c = Len(delivered) + 1 /\ c \in Nat /\ Len(delivered) \in Nat /\ Scheduled \in Nat
      /\ \A d \in Cursors : Arrived(d) = <<>>
  BY CompleteOldest
<1>2. /\ header[c] = c /\ ContentLength(c) = bodyLen[c]
      /\ SubSeq(data[c], 1, bodyLen[c]) = SubSeq(Response(c), HeaderLen + 1, Size(c))
      /\ UncutHeader(over)
  BY OldestBuffer
<1>3. OwnResponse' /\ Len(delivered)' = c
  BY <1>0, <1>1, <1>2, CallbackIsOwn DEF IocpStreamInv
<1>4. \A d : /\ Response(d)' = Response(d)
             /\ SockOf(d)' = SockOf(d) /\ NetOf(d)' = NetOf(d)
  BY DEF Response, SockOf, NetOf
<1>5. ASSUME NEW d \in Cursors, NextSent(c, d)
      PROVE  ConnInv(d)'
  <2>1. PICK u \in Seq(Units) : u = SockOf(c) \o NetOf(c)
    BY <1>0, <1>1, ConnTypes
  <2>2. PICK rest \in Seq(Units) : rest = Coming(c)
    BY <1>0, <1>1, ConnTypes
  <2>3. rest = u
    <3>1. Coming(c) = <<>> \o u
      BY <1>1, <2>1 DEF Coming
    <3>2. <<>> \o u = u
      BY EmptyJoined
    <3> QED
      BY <2>2, <3>1, <3>2
  <2>4. PICK t \in Seq(Units) : t = over \o rest
    BY Joined
  <2>5. IsRest(c, t)
    BY <2>2, <2>4 DEF IsRest
  <2>6. IsConnStream(d, t)'
    BY <1>5, <2>5, RestIsStream
  <2>7. SockOf(d) = SockOf(c) /\ NetOf(d) = NetOf(c)
    BY <1>5 DEF NextSent, SameConn, SockOf, NetOf
  <2>8. ConnStream(d)' = over \o (<<>> \o u)
    BY <1>4, <1>5, <2>1, <2>7 DEF ConnStream, Coming
  <2>9. ConnStream(d)' = t
    <3>1. <<>> \o u = u
      BY EmptyJoined
    <3> QED
      BY <2>3, <2>4, <2>8, <3>1
  <2>10. IsConnStream(d, ConnStream(d))'
    BY <2>6, <2>9 DEF IsConnStream, ConnStreamFrom, EndsWith, ConnInTime
  <2>11. UncutHeader(Received(d))' /\ UncutHeader(Arrived(d))'
    BY <1>2, <1>5 DEF UncutHeader
  <2>12. UncutHeader(SockOf(d))'
    BY <1>1, <1>4, <2>7 DEF IocpStreamInv, ConnInv, UncutHeader
  <2> QED
    BY <2>10, <2>11, <2>12 DEF ConnInv
<1>6. ASSUME NEW d \in Cursors, FirstLeft(d), ~NextSent(c, d)
      PROVE  ConnInv(d)'
  <2>1. ConnInv(d)
    BY <1>6 DEF IocpStreamInv
  <2>2. PICK s \in Seq(Units) : s = ConnStream(d)
    BY <1>0, ConnTypes
  <2>3. IsConnStream(d, s)
    BY <2>1, <2>2 DEF ConnInv
  <2>4. IsConnStream(d, s)'
    BY <1>0, <1>1, <2>3, SameConnStream
  <2>5. Received(d)' = Received(d)
    BY <1>4, <1>6 DEF Received
  <2>6. ConnStream(d)' = s
    BY <1>1, <1>4, <2>2, <2>5 DEF ConnStream, Coming
  <2>7. IsConnStream(d, ConnStream(d))'
    BY <2>4, <2>6 DEF IsConnStream, ConnStreamFrom, EndsWith, ConnInTime
  <2>8. UncutHeader(Received(d))' /\ UncutHeader(Arrived(d))' /\ UncutHeader(SockOf(d))'
    BY <1>1, <1>4, <2>1, <2>5 DEF ConnInv, UncutHeader
  <2> QED
    BY <2>7, <2>8 DEF ConnInv
<1>7. ASSUME NEW d \in Cursors, FirstLeft(d)'
      PROVE  ConnInv(d)'
  <2>1. NextSent(c, d) \/ FirstLeft(d)
    BY <1>1, <1>3, <1>7, NextFirst
  <2> QED
    BY <1>5, <1>6, <2>1
<1>8. BuffersInv'
  <2>1. ASSUME NEW d \in Cursors, d > c
        PROVE  /\ header'[d] \in {None, d}
               /\ header'[d] = None => data'[d] = <<>>
               /\ ~FirstLeft(d)' => header'[d] = None
    <3>1. CASE NextSent(c, d)
      BY <1>1, <1>3, <3>1, NextFirst
    <3>2. CASE ~NextSent(c, d)
      <4>1. ~FirstLeft(d)' => ~FirstLeft(d)
        BY <1>1, <1>3, <2>1, NextFirst
      <4>2. d > Len(delivered)
        BY <1>1, <2>1 DEF Cursors
      <4> QED
        BY <3>2, <4>1, <4>2 DEF IocpStreamInv, BuffersInv
    <3> QED
      BY <3>1, <3>2
  <2> QED
    BY <1>3, <2>1 DEF BuffersInv
<1>9. RequestsInv'
  <2>1. ~Holds(requests, c)
    <3>1. IsConnStream(c, ConnStream(c))
      BY <1>1 DEF IocpStreamInv, ConnInv
    <3>2. PICK s \in Seq(Units) : s = ConnStream(c)
      BY <1>0, <1>1, ConnTypes
    <3>3. IsConnStream(c, s)
      BY <3>1, <3>2
    <3>4. PICK a \in 0 .. Taken : EndsWith(c, a, s) /\ Unanswered(c, a)
      BY <3>3 DEF IsConnStream
    <3>5. Size(c) <= Len(s) /\ Size(c) \in Nat /\ Size(c) >= 1
      BY <1>0, <1>1, <3>2, OldestBuffer, SizeType
    <3>6. s # <<>> /\ 1 \in 1 .. Len(s)
      BY <3>5
    <3>7. s[1] = [req |-> c, pos |-> 1] /\ s[1].req <= a
      BY <3>3, <3>4, <3>6 DEF IsConnStream, ConnStreamFrom, EndsWith
    <3>8. c <= a /\ a \in Nat
      BY <3>7
    <3>9. c <= Taken
      BY <1>0, <1>1, TakenNumbers
    <3>10. SameConn(c, c) /\ c <= c /\ ~(c > a)
      BY <1>1, <3>8, SameConnEquiv
    <3> QED
      BY <1>1, <3>4, <3>9, <3>10 DEF Unanswered
  <2>2. requests \in Seq(Cursors)
    BY <1>0 DEF TypeOK
  <2>3. ASSUME NEW i \in 1 .. Len(requests)
        PROVE  c < requests[i] /\ requests[i] <= Taken
    <3>1. requests[i] \in Cursors
      BY <2>2
    <3>2. requests[i] \in Nat /\ requests[i] # c
      BY <2>1, <3>1 DEF Cursors, Holds
    <3>3. Len(delivered) < requests[i] /\ requests[i] <= Taken
      BY DEF IocpStreamInv, RequestsInv
    <3> QED
      BY <1>1, <3>2, <3>3
  <2> QED
    BY <1>3, <2>3 DEF IocpStreamInv, RequestsInv, Ascending
<1> QED
  BY <1>3, <1>7, <1>8, <1>9 DEF IocpStreamInv, NeverAborts

\* The next cursor of the connection has no byte before it gets the overlap.
LEMMA NextIsEmpty ==
  ASSUME IocpStreamInv, NEW c \in Cursors, c > Len(delivered), NEW d \in Cursors, NextSent(c, d)
  PROVE  header[d] = None /\ data[d] = <<>> /\ Received(d) = <<>>
<1>1. Len(delivered) \in Nat /\ c \in Nat /\ d \in Nat /\ c < d /\ SameConn(d, c)
  BY TakenNumbers, SameConnEquiv DEF IocpStreamInv, NextSent, Cursors
<1>2. ~FirstLeft(d) /\ d > Len(delivered)
  BY <1>1 DEF FirstLeft
<1>3. header[d] = None /\ data[d] = <<>>
  BY <1>2 DEF IocpStreamInv, BuffersInv
<1> QED
  BY <1>3 DEF Received

\* No cursor waits as a message: no byte of a later response has come.
LEMMA StreamClose ==
  ASSUME IocpStreamInv, IocpInv', Close
  PROVE  IocpStreamInv'
<1>1. PICK c : c = cursor
  OBVIOUS
<1>2. /\ rxpc = "process" /\ Complete(cursor) /\ messages = <<>>
      /\ delivered' = Append(delivered, Callback(cursor)) /\ responseCount' = responseCount - 1
      /\ UNCHANGED <<bodyLen, requests, net, sock, net2, sock2, queryCount, txQueue>>
      /\ UNCHANGED <<header, data>> /\ rxpc' = "top"
  BY DEF Close, appVars, txVars, netVars, iocpVars, net2Vars
<1>3. /\ c \in Cursors /\ c = Oldest /\ c = Len(delivered) + 1 /\ c \in Nat
      /\ Len(delivered) \in Nat /\ Scheduled \in Nat /\ responseCount \in Nat \ {0}
      /\ Scheduled = Len(delivered) + responseCount
  BY <1>1, <1>2, CompleteOldest
<1>4. responseCount = 1
  <2>1. Len(messages) = 0
    BY <1>2
  <2>2. Len(messages) = responseCount - 1
    BY <1>3 DEF IocpStreamInv, IocpInv, Waiting
  <2> QED
    BY <1>3, <2>1, <2>2
<1>5. Len(delivered') = Len(delivered) + 1
  BY <1>1, <1>2, <1>3, OldestCallback DEF IocpStreamInv
<1>6. Scheduled' = Scheduled /\ Scheduled = c
  <2>1. Scheduled' = (Len(delivered) + 1) + (responseCount - 1)
    BY <1>2, <1>5 DEF Scheduled
  <2> QED
    BY <1>3, <1>4, <2>1
<1>7. UNCHANGED Taken
  BY <1>2 DEF Taken
<1>8. PICK over \in Seq(Units) : over = Overlap(c)
  BY <1>1, <1>2, OldestBuffer
<1>9. over = <<>>
  <2> SUFFICES ASSUME over # <<>> PROVE FALSE
    OBVIOUS
  <2>1. PICK d \in Cursors : NextSent(c, d) /\ d <= Scheduled
    BY <1>1, <1>2, <1>8, OverlapWaits
  <2>2. d \in Nat /\ c < d
    BY <2>1 DEF NextSent, Cursors
  <2> QED
    BY <1>3, <1>6, <2>1, <2>2
<1>10. \A d \in Cursors : Arrived(d)' = <<>>
  BY <1>2, <1>4 DEF Arrived
<1>11. ASSUME NEW d \in Cursors, NextSent(c, d)
       PROVE  Received(d)' = over /\ header'[d] \in {None, d} /\ (header'[d] = None => data'[d] = <<>>)
  <2>1. header[d] = None /\ data[d] = <<>>
    <3>1. c > Len(delivered)
      BY <1>3
    <3> QED
      BY <1>3, <1>11, <3>1, NextIsEmpty
  <2> QED
    BY <1>2, <1>9, <2>1 DEF Received
<1> QED
  BY <1>1, <1>2, <1>6, <1>7, <1>8, <1>10, <1>11, CalledBackInv

\* The cursor that gets the overlap is the one it is of.
LEMMA HeirIsNext ==
  ASSUME IocpStreamInv, rxpc = "process", NEW c, c = cursor,
         NEW d \in Cursors, NextSent(c, d), d <= Scheduled
  PROVE  NextOnConn = d
<1>1. /\ c \in Cursors /\ c = Oldest /\ c \in Nat /\ Len(delivered) \in Nat
      /\ c = Len(delivered) + 1 /\ responseCount \in Nat \ {0}
      /\ Scheduled = Len(delivered) + responseCount
  BY CompleteOldest
<1>2. /\ messages \in Seq(Cursors) /\ Len(messages) = responseCount - 1
      /\ \A i \in 1 .. Len(messages) : messages[i] = c + i
  BY <1>1 DEF IocpStreamInv, IocpInv, IocpTypeOK, Waiting, ContinuesFrom
<1>3. c < d /\ d \in Nat /\ SameConn(d, c)
  BY SameConnEquiv DEF NextSent, Cursors
<1>4. PICK k \in 1 .. Len(messages) : k = d - c
  <2>1. d - c \in 1 .. (responseCount - 1)
    BY <1>1, <1>3
  <2> QED
    BY <1>2, <2>1
<1>5. messages[k] = d
  BY <1>1, <1>2, <1>3, <1>4
<1>6. ASSUME NEW j \in 1 .. (k - 1)
      PROVE  ~SameConn(messages[j], c)
  <2>1. j \in 1 .. Len(messages) /\ j < k
    BY <1>2, <1>4
  <2>2. messages[j] \in Cursors /\ messages[j] = c + j
    BY <1>2, <2>1
  <2>3. c < messages[j] /\ messages[j] < d
    BY <1>1, <1>3, <1>4, <2>1, <2>2
  <2> QED
    BY <2>2, <2>3, SameConnEquiv DEF NextSent
<1>7. FirstOnConn(k)
  BY <1>3, <1>5, <1>6 DEF FirstOnConn
<1>8. ASSUME NEW i \in 1 .. Len(messages), FirstOnConn(i)
      PROVE  i = k
  <2>1. SameConn(messages[i], c) /\ \A j \in 1 .. (i - 1) : ~SameConn(messages[j], c)
    BY <1>8 DEF FirstOnConn
  <2>2. ~(i < k)
    BY <1>6, <2>1
  <2>3. ~(k < i)
    BY <1>3, <1>5, <2>1
  <2> QED
    BY <2>2, <2>3
<1> QED
  BY <1>5, <1>7, <1>8 DEF NextOnConn

\* The overlap is the header and the body of d.
GivenTo(d, body, over) ==
  /\ header' = [header EXCEPT ![d] = d] /\ data' = [data EXCEPT ![d] = body]
  /\ SubSeq(Response(d), 1, HeaderLen) \o body = over

\* What a completed cursor hands over: nothing, or the header and the body of the
\* response to the next cursor of the connection, which then has just that.
LEMMA SwitchIs ==
  ASSUME IocpStreamInv, CloseAndSwitch, NEW c, c = cursor,
         NEW over \in Seq(Units), over = Overlap(c)
  PROVE  /\ rxpc' # "aborted" /\ (cursor' # None \/ rxQueue' # {})
         /\ \/ over = <<>> /\ UNCHANGED <<header, data>>
            \/ \E d \in Cursors, body \in Seq(Units) :
                 /\ NextSent(c, d) /\ d <= Scheduled /\ GivenTo(d, body, over)
                 /\ rxpc' = "top" /\ SameConn(Head(messages), c) => body = <<>>
<1>1. PICK next, heir : next = Head(messages) /\ heir = NextOnConn
  OBVIOUS
<1>2. rxpc = "process" /\ Complete(cursor) /\ messages # <<>>
  BY DEF CloseAndSwitch
<1>3. c \in Cursors /\ c > Len(delivered)
  BY <1>2, CompleteOldest
<1>4. IocpTypeOK /\ TypeOK /\ next \in Cursors /\ next # None
  <2>1. IocpTypeOK /\ TypeOK
    BY DEF IocpStreamInv, IocpInv, IocpTypeOK
  <2>2. messages \in Seq(Cursors)
    BY <2>1 DEF IocpTypeOK
  <2> QED
    BY <1>1, <1>2, <2>1, <2>2, NoneIsNoCursor
<1> DEFINE end  == IF header[heir] = None THEN HeaderEnd(over) ELSE 0
           more == Len(over) > end
<1>5. /\ \/ end = 0 /\ UNCHANGED <<header, data>>
         \/ /\ end # 0
            /\ header' = [header EXCEPT ![heir] = over[end].req]
            /\ data' = [data EXCEPT ![heir] = SubSeq(over, end + 1, Len(over))]
      /\ \/ more /\ SameConn(next, c) /\ cursor' = next /\ rxpc' = "process"
         \/ more /\ ~SameConn(next, c) /\ rxQueue' = rxQueue \cup {next}
            /\ rxpc' = IF SameConn(heir, c) THEN "top" ELSE "aborted"
         \/ ~more /\ rxQueue' = rxQueue \cup {next} /\ rxpc' = "top"
  <2>1. /\ IF end = 0
           THEN UNCHANGED <<header, data>>
           ELSE /\ header' = [header EXCEPT ![heir] = over[end].req]
                /\ data' = [data EXCEPT ![heir] = SubSeq(over, end + 1, Len(over))]
        /\ IF more /\ SameConn(next, c)
           THEN cursor' = next /\ UNCHANGED rxQueue
           ELSE cursor' = None /\ rxQueue' = rxQueue \cup {next}
        /\ rxpc' = CASE ~more -> "top"
                     [] more /\ SameConn(next, c) -> "process"
                     [] more /\ ~SameConn(next, c) ->
                          IF SameConn(heir, c) THEN "top" ELSE "aborted"
    BY <1>1 DEF CloseAndSwitch
  <2> HIDE DEF end, more
  <2> QED
    BY <2>1
<1>6. cursor' # None \/ rxQueue' # {}
  <2> HIDE DEF more, end
  <2> QED
    BY <1>4, <1>5
<1>7. CASE over = <<>>
  <2>1. HeaderEnd(<<>>) = 0
    BY DEF HeaderEnd
  <2>2. end = 0 /\ ~more
    BY <1>7, <2>1
  <2>3. UNCHANGED <<header, data>> /\ rxpc' = "top"
    BY <1>5, <2>2
  <2> QED
    BY <1>6, <1>7, <2>3
<1>8. CASE over # <<>>
  <2>1. PICK d \in Cursors : /\ NextSent(c, d) /\ d <= Scheduled
                             /\ Len(over) >= HeaderLen
                             /\ \A i \in 1 .. HeaderLen : over[i] = [req |-> d, pos |-> i]
    BY <1>2, <1>8, OverlapWaits
  <2>2. heir = d /\ SameConn(heir, c)
    <3>1. NextOnConn = d
      BY <1>2, <2>1, HeirIsNext
    <3> QED
      BY <1>1, <2>1, <3>1, SameConnEquiv DEF NextSent
  <2>3. HeaderEnd(over) = HeaderLen
    BY <2>1, HeaderEndsThere
  <2>4. end = HeaderLen /\ end # 0 /\ HeaderLen \in Nat /\ HeaderLen >= 1
    <3>1. header[d] = None
      BY <1>3, <2>1, NextIsEmpty
    <3> QED
      BY <2>2, <2>3, <3>1, LengthAssumption
  <2>5. over[HeaderLen].req = d
    <3>1. HeaderLen \in 1 .. HeaderLen
      BY <2>4
    <3>2. over[HeaderLen] = [req |-> d, pos |-> HeaderLen]
      BY <2>1, <3>1
    <3> QED
      BY <3>2
  <2>6. PICK body \in Seq(Units) : body = SubSeq(over, HeaderLen + 1, Len(over))
    <3>1. /\ HeaderLen + 1 \in Nat /\ HeaderLen + 1 >= 1
          /\ Len(over) \in Nat /\ Len(over) <= Len(over)
      BY <2>4, LenProperties
    <3>2. SubSeq(over, HeaderLen + 1, Len(over)) \in Seq(Units)
      BY <3>1, SubSeqType
    <3> QED
      BY <3>2
  <2>7. header' = [header EXCEPT ![d] = d] /\ data' = [data EXCEPT ![d] = body]
    BY <1>5, <2>2, <2>4, <2>5, <2>6
  <2>8. SubSeq(Response(d), 1, HeaderLen) \o body = over
    BY <1>4, <2>1, <2>6, Rejoined
  <2>9. rxpc' # "aborted"
    BY <1>5, <2>2
  <2>10. rxpc' = "top" /\ SameConn(next, c) => body = <<>>
    <3> SUFFICES ASSUME rxpc' = "top", SameConn(next, c) PROVE body = <<>>
      OBVIOUS
    <3>1. ~more
      <4> HIDE DEF more, end
      <4> QED
        BY <1>5
    <3>2. Len(over) = HeaderLen
      <4>1. Len(over) \in Nat
        BY LenProperties
      <4> QED
        BY <2>1, <2>4, <3>1, <4>1
    <3> QED
      BY <2>4, <2>6, <3>2
  <2> QED
    BY <1>1, <1>6, <2>1, <2>7, <2>8, <2>9, <2>10 DEF GivenTo
<1> QED
  BY <1>7, <1>8

\* The overlap goes to the next cursor of the connection, and the first message
\* receives next, whatever its connection.
LEMMA StreamCloseAndSwitch ==
  ASSUME IocpStreamInv, IocpInv', CloseAndSwitch
  PROVE  IocpStreamInv'
<1>1. PICK c : c = cursor
  OBVIOUS
<1>2. /\ rxpc = "process" /\ Complete(cursor)
      /\ delivered' = Append(delivered, Callback(cursor)) /\ responseCount' = responseCount - 1
      /\ UNCHANGED <<bodyLen, requests, net, sock, net2, sock2, queryCount, txQueue>>
  BY DEF CloseAndSwitch, appVars, txVars, netVars, net2Vars
<1>3. /\ c \in Cursors /\ c = Len(delivered) + 1 /\ c \in Nat /\ c > Len(delivered)
      /\ Len(delivered) \in Nat /\ Scheduled \in Nat /\ responseCount \in Nat \ {0}
      /\ Scheduled = Len(delivered) + responseCount /\ c = Oldest
  <2>1. /\ c \in Cursors /\ c = Len(delivered) + 1 /\ c \in Nat
        /\ Len(delivered) \in Nat /\ Scheduled \in Nat /\ responseCount \in Nat \ {0}
        /\ Scheduled = Len(delivered) + responseCount /\ c = Oldest
    BY <1>1, <1>2, CompleteOldest
  <2> QED
    BY <2>1
<1>4. TypeOK
  BY DEF IocpStreamInv, IocpInv, IocpTypeOK
<1>5. PICK over \in Seq(Units) : over = Overlap(c)
  BY <1>1, <1>2, OldestBuffer
<1>6. /\ rxpc' # "aborted" /\ (cursor' # None \/ rxQueue' # {})
      /\ \/ over = <<>> /\ UNCHANGED <<header, data>>
         \/ \E d \in Cursors, body \in Seq(Units) : NextSent(c, d) /\ GivenTo(d, body, over)
  BY <1>1, <1>5, SwitchIs
<1>7. Len(delivered') = Len(delivered) + 1
  BY <1>1, <1>2, <1>3, OldestCallback DEF IocpStreamInv
<1>8. Scheduled' = Scheduled
  <2>1. Scheduled' = (Len(delivered) + 1) + (responseCount - 1)
    BY <1>2, <1>7 DEF Scheduled
  <2> QED
    BY <1>3, <2>1
<1>9. UNCHANGED Taken
  BY <1>2 DEF Taken
<1>10. \A d \in Cursors : Arrived(d)' = <<>>
  BY <1>6 DEF Arrived
<1>11. CASE over = <<>> /\ UNCHANGED <<header, data>>
  <2>1. ASSUME NEW d \in Cursors, NextSent(c, d)
        PROVE  /\ Received(d)' = over /\ header'[d] \in {None, d}
               /\ header'[d] = None => data'[d] = <<>>
    <3>1. header[d] = None /\ data[d] = <<>>
      BY <1>3, <2>1, NextIsEmpty
    <3> QED
      BY <1>11, <3>1 DEF Received
  <2> QED
    BY <1>1, <1>2, <1>5, <1>6, <1>8, <1>9, <1>10, <1>11, <2>1, CalledBackInv
<1>12. ASSUME NEW d \in Cursors, NEW body \in Seq(Units), NextSent(c, d), GivenTo(d, body, over)
       PROVE  IocpStreamInv'
  <2>0. /\ header' = [header EXCEPT ![d] = d] /\ data' = [data EXCEPT ![d] = body]
        /\ SubSeq(Response(d), 1, HeaderLen) \o body = over
    BY <1>12 DEF GivenTo
  <2>1. header \in [Cursors -> Cursors \cup {None}] /\ data \in [Cursors -> Seq(Units)]
    BY <1>4 DEF TypeOK
  <2>2. /\ header'[d] = d /\ data'[d] = body
        /\ \A e \in Cursors : e # d => header'[e] = header[e] /\ data'[e] = data[e]
    BY <2>0, <2>1
  <2>3. Received(d)' = over
    <3>1. Response(d)' = Response(d) /\ d # None
      BY <1>2, NoneIsNoCursor DEF Response
    <3> QED
      BY <2>0, <2>2, <3>1 DEF Received
  <2>4. ASSUME NEW e \in Cursors, NextSent(c, e)
        PROVE  /\ Received(e)' = over /\ header'[e] \in {None, e}
               /\ header'[e] = None => data'[e] = <<>>
    <3>1. e = d
      BY <1>3, <1>12, <2>4, NextIsUnique
    <3> QED
      BY <2>2, <2>3, <3>1, NoneIsNoCursor
  <2>5. \A e \in Cursors : ~NextSent(c, e) => header'[e] = header[e] /\ data'[e] = data[e]
    BY <1>12, <2>2
  <2> QED
    BY <1>1, <1>2, <1>5, <1>6, <1>8, <1>9, <1>10, <2>4, <2>5, CalledBackInv
<1> QED
  BY <1>6, <1>11, <1>12

-----------------------------------------------------------------------------
(***************************************************************************)
(* The invariant holds.                                                    *)
(***************************************************************************)

LEMMA IocpStreamInit == IocpInit => IocpStreamInv
<1> SUFFICES ASSUME IocpInit PROVE IocpStreamInv
  OBVIOUS
<1>1. /\ delivered = <<>> /\ responseCount = 0 /\ queryCount = 0 /\ txQueue = <<>>
      /\ requests = <<>> /\ net = <<>> /\ sock = <<>> /\ net2 = <<>> /\ sock2 = <<>>
      /\ rxpc = "top" /\ header = [c \in Cursors |-> None] /\ data = [c \in Cursors |-> <<>>]
  BY DEF IocpInit, Init
<1>2. IocpInv
  BY IocpInvInit
<1>3. ASSUME NEW c \in Cursors
      PROVE  /\ Received(c) = <<>> /\ Arrived(c) = <<>> /\ SockOf(c) = <<>> /\ NetOf(c) = <<>>
  BY <1>1 DEF Received, Arrived, SockOf, NetOf
<1>4. ASSUME NEW c \in Cursors
      PROVE  ConnInv(c)
  <2>1. ConnStream(c) = <<>>
    <3>1. <<>> \o <<>> = <<>>
      OBVIOUS
    <3> QED
      BY <1>3, <3>1 DEF ConnStream, Coming
  <2>2. ConnStreamFrom(c, <<>>) /\ ConnInTime(c, <<>>)
    BY DEF ConnStreamFrom, ConnInTime
  <2>3. Taken = 0 /\ c > 0
    <3>1. c > 0
      BY DEF Cursors
    <3>2. Len(txQueue) = 0 /\ queryCount = 0
      BY <1>1
    <3> QED
      BY <3>1, <3>2 DEF Taken
  <2>4. EndsWith(c, 0, <<>>)
    BY <2>3 DEF EndsWith, Cursors
  <2>5. Unanswered(c, 0)
    BY <2>3 DEF Unanswered, Cursors
  <2>6. IsConnStream(c, <<>>)
    BY <2>2, <2>3, <2>4, <2>5 DEF IsConnStream
  <2> QED
    BY <1>3, <2>1, <2>6 DEF ConnInv, UncutHeader
<1>5. BuffersInv /\ RequestsInv /\ OwnResponse /\ NeverAborts
  BY <1>1 DEF BuffersInv, RequestsInv, Ascending, OwnResponse, NeverAborts
<1> QED
  BY <1>2, <1>4, <1>5 DEF IocpStreamInv

LEMMA IocpStreamStep ==
  ASSUME ~Outrun, WholeHeaders
  PROVE  IocpStreamInv /\ [IocpNext]_allVars => IocpStreamInv'
<1> SUFFICES ASSUME IocpStreamInv, [IocpNext]_allVars PROVE IocpStreamInv'
  OBVIOUS
<1>0. IocpInv'
  BY IocpInvStep DEF IocpStreamInv
<1>1. CASE UNCHANGED allVars \/ (Finished /\ UNCHANGED iocpVars)
  <2>1. UNCHANGED allVars
    BY <1>1 DEF Finished, allVars
  <2>2. UNCHANGED <<bodyLen, requests, Taken, rxVars, transferred>> /\ UNCHANGED <<net, sock, net2, sock2>>
    BY <2>1 DEF allVars, vars, appVars, txVars, netVars, iocpVars, rxAddedVars, net2Vars, Taken
  <2> QED
    BY <1>0, <2>2, ConnUntouched
<1>2. CASE (CTCursorSendOnQueue /\ UNCHANGED iocpVars) \/ IocpTxThread
  BY <1>0, <1>2, StreamSend, StreamPost, StreamTxSend DEF IocpTxThread, TxThread
<1>3. CASE IocpNetwork
  BY <1>0, <1>3, StreamAnswer, StreamDeliver, StreamRecvDone DEF IocpNetwork
<1>4. CASE IocpRxThread
  BY <1>0, <1>4, StreamSchedule, StreamReceiveDone, StreamReceiveMore, StreamClose,
     StreamCloseAndSwitch DEF IocpRxThread
<1> QED
  BY <1>1, <1>2, <1>3, <1>4 DEF IocpNext

LEMMA IocpStreamInvariance ==
  ASSUME ~Outrun, WholeHeaders
  PROVE  IocpSpec => []IocpStreamInv
<1>1. IocpInit => IocpStreamInv
  BY IocpStreamInit
<1>2. IocpStreamInv /\ [IocpNext]_allVars => IocpStreamInv'
  BY IocpStreamStep
<1> QED
  BY <1>1, <1>2, PTL DEF IocpSpec

\* Every response callback is given the header and the body of the response to
\* its own request, whichever connection the rx thread receives from between
\* the cursors of a connection, and wherever a WSARecv ends.
THEOREM IocpResponsesAreOwn ==
  ASSUME ~Outrun, WholeHeaders
  PROVE  IocpSpec => []OwnResponse
<1>1. IocpStreamInv => OwnResponse
  BY DEF IocpStreamInv
<1>2. IocpSpec => []IocpStreamInv
  BY IocpStreamInvariance
<1> QED
  BY <1>1, <1>2, PTL

\* The overlap of a response always finds the cursor it is of among the messages,
\* and its header whole: the body's move does not wrap around, and no bytes are
\* left to a cursor of the other connection.
THEOREM IocpNeverAborts ==
  ASSUME ~Outrun, WholeHeaders
  PROVE  IocpSpec => []NeverAborts
<1>1. IocpStreamInv => NeverAborts
  BY DEF IocpStreamInv
<1>2. IocpSpec => []IocpStreamInv
  BY IocpStreamInvariance
<1> QED
  BY <1>1, <1>2, PTL

-----------------------------------------------------------------------------
(***************************************************************************)
(* Both connections together keep CTPromise, but for its liveness.         *)
(***************************************************************************)

LEMMA IocpStepIsPromised ==
  ASSUME IocpStreamInv, AnswersOwn, AnswersOwn', [IocpNext]_allVars
  PROVE  [Promise!Next]_(Promise!vars)
<1>0. IocpInv /\ TypeOK
  BY DEF IocpStreamInv, IocpInv, IocpTypeOK
<1>1. CASE UNCHANGED <<queryCount, delivered, bodyLen>>
  <2>1. Answers' = Answers
    BY <1>1 DEF Answers, Origin, Response
  <2> QED
    BY <1>1, <2>1 DEF Promise!vars, Answers
<1>2. CASE CTCursorSendOnQueue
  <2>1. UNCHANGED <<delivered, bodyLen>>
    BY <1>2 DEF CTCursorSendOnQueue, rxVars
  <2>2. Answers' = Answers
    BY <2>1 DEF Answers, Origin, Response
  <2>3. Promise!Ask
    BY <1>2, <2>2 DEF CTCursorSendOnQueue, Promise!Ask, Answers
  <2> QED
    BY <2>3 DEF Promise!Next
<1>3. CASE Close \/ CloseAndSwitch
  <2>1. rxpc = "process" /\ delivered' = Append(delivered, Callback(cursor))
        /\ queryCount' = queryCount
    BY <1>3 DEF Close, CloseAndSwitch, appVars
  <2>2. PICK c : c = cursor
    OBVIOUS
  <2>3. Len(delivered) < queryCount
    <3>1. /\ c = Len(delivered) + 1 /\ c <= Scheduled /\ c \in Nat /\ Len(delivered) \in Nat
          /\ Scheduled \in Nat
      BY <2>1, <2>2, CompleteOldest
    <3>2. Scheduled <= Taken /\ Taken <= queryCount /\ Taken \in Nat /\ queryCount \in Nat
      BY <1>0, TakenNumbers DEF TypeOK
    <3> QED
      BY <3>1, <3>2
  <2> QED
    BY <1>0, <2>1, <2>3, CallbackIsAnswer DEF Promise!Next
<1>4. CASE IocpTxThread \/ IocpNetwork
  BY <1>1, <1>4
  DEF IocpTxThread, TxThread, TxSend, CTCursorRecvOnQueue, IocpNetwork, IocpAnswer, Deliver,
      DeliverSecond, WSARecvDone, vars, appVars, rxVars
<1>5. CASE Schedule \/ ReceiveDone \/ ReceiveMore
  BY <1>1, <1>5 DEF Schedule, ReceiveDone, ReceiveMore, appVars
<1>6. CASE UNCHANGED vars
  BY <1>1, <1>6 DEF vars, appVars, rxVars
<1> QED
  BY <1>2, <1>3, <1>4, <1>5, <1>6 DEF IocpNext, IocpRxThread, Finished, allVars

\* What the ports, packets and messages of the Win32 threads do looks to the
\* application like CTPromise, on one connection or two: each step is a request,
\* the answer to the oldest request with its own response, or nothing.
THEOREM IocpImplementsPromise ==
  ASSUME ~Outrun, WholeHeaders
  PROVE  IocpSpec => Promise!Init /\ [][Promise!Next]_(Promise!vars)
<1>1. IocpInit => Promise!Init
  <2> SUFFICES ASSUME IocpInit PROVE Promise!Init
    OBVIOUS
  <2>1. delivered = <<>> /\ queryCount = 0
    BY DEF IocpInit, Init
  <2>2. [i \in 1 .. Len(delivered) |-> <<delivered[i].cursor, Origin(delivered[i])>>] = <<>>
    BY <2>1
  <2> QED
    BY <2>1, <2>2 DEF Promise!Init
<1>2. IocpStreamInv /\ AnswersOwn /\ AnswersOwn' /\ [IocpNext]_allVars => [Promise!Next]_(Promise!vars)
  BY IocpStepIsPromised
<1>3. IocpStreamInv => AnswersOwn
  BY AnswersAreOwn DEF IocpStreamInv, IocpInv, CallbacksInOrder
<1>4. IocpSpec => []IocpStreamInv
  BY IocpStreamInvariance
<1> QED
  BY <1>1, <1>2, <1>3, <1>4, PTL DEF IocpSpec

-----------------------------------------------------------------------------
(***************************************************************************)
(* No step is in vain.  A cursor is sent, taken by the tx thread, answered *)
(* by its server, posted to the port, scheduled and called back; between   *)
(* two of these steps bytes move, or a packet, or the rx thread.           *)
(***************************************************************************)

\* The last cursor the tx thread posted to the port.
Posted == Taken - (IF txCursor = None THEN 0 ELSE 1)

\* The steps the cursors of both connections still have before them.
IocpWork ==
  (NumCursors - queryCount) + (NumCursors - Taken) + (NumCursors - (Taken - Len(requests)))
    + (NumCursors - Posted) + (NumCursors - Scheduled) + (NumCursors - Len(delivered))

\* A cursor gets ahead, or bytes leave a network, or a socket, or a packet leaves
\* the port, or the rx thread gets closer to waiting for one.
IocpProgress ==
  \/ IocpWork' < IocpWork
  \/ IocpWork' = IocpWork /\ Len(net') + Len(net2') < Len(net) + Len(net2)
  \/ UNCHANGED <<IocpWork, net, net2>> /\ Len(sock') + Len(sock2') < Len(sock) + Len(sock2)
  \/ UNCHANGED <<IocpWork, net, net2, sock, sock2>> /\ Len(rxPipe') < Len(rxPipe)
  \/ UNCHANGED <<IocpWork, net, net2, sock, sock2, rxPipe>> /\ Phase' < Phase

\* IocpWork as a function of what it depends on.
IocpWorkOf(q, t, x, r, n, d) ==
  (NumCursors - q) + (NumCursors - (q - t)) + (NumCursors - ((q - t) - r))
    + (NumCursors - ((q - t) - (IF x = None THEN 0 ELSE 1)))
    + (NumCursors - (d + n)) + (NumCursors - d)

LEMMA IocpWorkIs ==
  /\ IocpWork = IocpWorkOf(queryCount, Len(txQueue), txCursor, Len(requests), responseCount,
                           Len(delivered))
  /\ IocpWork' = IocpWorkOf(queryCount', Len(txQueue'), txCursor', Len(requests'),
                            responseCount', Len(delivered'))
BY DEF IocpWork, IocpWorkOf, Taken, Posted, Scheduled

LEMMA IocpWorkTypes ==
  ASSUME IocpInv
  PROVE  /\ IocpTypeOK /\ TypeOK /\ Len(delivered) \in Nat /\ Len(txQueue) \in Nat
         /\ Len(rxPipe) \in Nat /\ Len(requests) \in Nat /\ queryCount \in Nat
         /\ responseCount \in Nat
<1>1. IocpTypeOK /\ TypeOK /\ responseCount \in Nat
  BY DEF IocpInv, IocpTypeOK, CursorInv
<1>2. TypeOK
  BY <1>1
<1>3. /\ Len(delivered) \in Nat /\ Len(txQueue) \in Nat /\ Len(rxPipe) \in Nat
      /\ Len(requests) \in Nat /\ queryCount \in Nat
  BY <1>2 DEF TypeOK
<1> QED
  BY <1>1, <1>3

\* The numbers of cursors that are at most so far.
LEMMA SumOfSteps ==
  ASSUME NEW q \in Nat, NEW t \in Nat, NEW r \in Nat, NEW o \in Nat, NEW n \in Nat, NEW d \in Nat,
         d <= n, n <= o, o <= t, t <= q, q <= NumCursors
  PROVE  (NumCursors - q) + (NumCursors - t) + (NumCursors - (t - r))
           + (NumCursors - o) + (NumCursors - n) + (NumCursors - d) \in Nat
BY NumCursorsAssumption

\* No cursor has more steps behind it than there are: a cursor is posted before it
\* is scheduled.
LEMMA IocpWorkNat ==
  ASSUME IocpInv
  PROVE  IocpWork \in Nat
<1>1. PICK p \in 0 .. Len(rxPipe) : Places(p)
  BY DEF IocpInv
<1>2. /\ TypeOK /\ Len(delivered) \in Nat /\ Len(txQueue) \in Nat /\ Len(rxPipe) \in Nat
      /\ Len(requests) \in Nat /\ queryCount \in Nat /\ responseCount \in Nat
  BY IocpWorkTypes
<1>3. queryCount <= NumCursors
  BY <1>2, NumCursorsAssumption DEF TypeOK
<1>4. PICK x \in {0, 1} : x = IF txCursor = None THEN 0 ELSE 1
  OBVIOUS
<1>5. Taken = LastOnPort(p) + x /\ LastOnPort(p) \in Nat /\ LastOnPort(p) >= Scheduled
  <2>1. LastOnPort(p) \in Nat /\ LastOnPort(p) >= Scheduled
    BY LastNumbers DEF IocpInv
  <2>2. queryCount = LastSent(p) + Len(txQueue) /\ LastSent(p) = LastOnPort(p) + x
    BY <1>1, <1>4 DEF Places, LastSent
  <2> QED
    BY <1>2, <2>1, <2>2 DEF Taken
<1>6. PICK o \in Nat : o = LastOnPort(p)
  BY <1>5
<1>7. Taken = o + x /\ Posted = o /\ Scheduled <= o
  BY <1>4, <1>5, <1>6 DEF Posted
<1>8. /\ Taken \in Nat /\ Scheduled \in Nat /\ Len(delivered) <= Scheduled /\ Taken <= queryCount
  BY TakenNumbers
<1>9. Posted \in Nat /\ Scheduled <= Posted /\ Posted <= Taken
  BY <1>4, <1>6, <1>7
<1> QED
  BY <1>2, <1>3, <1>8, <1>9, SumOfSteps DEF IocpWork

\* A step that leaves the cursors where they are.
LEMMA SameIocpWork ==
  ASSUME UNCHANGED <<queryCount, txQueue, txCursor, requests, responseCount, delivered>>
  PROVE  IocpWork' = IocpWork
BY IocpWorkIs

\* The arithmetic of a cursor's step.
LEMMA IocpStepLess ==
  ASSUME NEW q \in Nat, NEW t \in Nat, NEW x, NEW r \in Nat, NEW n \in Nat, NEW d \in Nat
  PROVE  /\ IocpWorkOf(q + 1, t + 1, x, r, n, d) < IocpWorkOf(q, t, x, r, n, d)
         /\ IocpWorkOf(q, t, x, r, n, d) < IocpWorkOf(q, t, x, r + 1, n, d)
         /\ IocpWorkOf(q, t, x, r, n + 1, d) < IocpWorkOf(q, t, x, r, n, d)
         /\ IocpWorkOf(q, t, x, r, n, d + 1) < IocpWorkOf(q, t, x, r, n + 1, d)
<1>1. PICK k \in {0, 1} : k = IF x = None THEN 0 ELSE 1
  OBVIOUS
<1> QED
  BY <1>1, NumCursorsAssumption DEF IocpWorkOf

LEMMA IocpTxStepLess ==
  ASSUME NEW q \in Nat, NEW t \in Nat, NEW r \in Nat, NEW n \in Nat, NEW d \in Nat,
         NEW c, c # None
  PROVE  /\ IocpWorkOf(q, t, c, r + 1, n, d) < IocpWorkOf(q, t + 1, None, r, n, d)
         /\ IocpWorkOf(q, t, None, r, n, d) < IocpWorkOf(q, t, c, r, n, d)
BY NumCursorsAssumption DEF IocpWorkOf

LEMMA IocpWorkOfTx ==
  ASSUME IocpInv, CTCursorSendOnQueue \/ TxThread
  PROVE  IocpWork' < IocpWork
<1>1. /\ TypeOK /\ Len(delivered) \in Nat /\ Len(txQueue) \in Nat
      /\ Len(requests) \in Nat /\ queryCount \in Nat /\ responseCount \in Nat
  BY IocpWorkTypes
<1>2. CASE CTCursorSendOnQueue
  <2>1. /\ queryCount' = queryCount + 1 /\ Len(txQueue') = Len(txQueue) + 1
        /\ UNCHANGED <<txCursor, requests, responseCount, delivered>>
    BY <1>1, <1>2 DEF CTCursorSendOnQueue, netVars, rxVars, TypeOK
  <2>2. IocpWorkOf(queryCount + 1, Len(txQueue) + 1, txCursor, Len(requests), responseCount,
                   Len(delivered))
        < IocpWorkOf(queryCount, Len(txQueue), txCursor, Len(requests), responseCount,
                     Len(delivered))
    BY <1>1, IocpStepLess
  <2> QED
    BY <2>1, <2>2, IocpWorkIs
<1>3. CASE TxSend
  <2>1. /\ txQueue \in Seq(Cursors) /\ requests \in Seq(Cursors) /\ txQueue # <<>>
        /\ txQueue' = Tail(txQueue) /\ requests' = Append(requests, Head(txQueue))
        /\ txCursor = None /\ txCursor' = Head(txQueue)
        /\ UNCHANGED <<queryCount, responseCount, delivered>>
    BY <1>1, <1>3 DEF TxSend, TypeOK, appVars, rxVars
  <2>2. /\ Head(txQueue) \in Cursors /\ Len(txQueue') \in Nat
        /\ Len(txQueue) = Len(txQueue') + 1
    BY <2>1, QueueLengths
  <2>3. Len(requests') = Len(requests) + 1
    BY <2>1, <2>2, QueueLengths
  <2>4. txCursor' # None
    BY <2>1, <2>2, NoneIsNoCursor
  <2>5. IocpWorkOf(queryCount, Len(txQueue'), txCursor', Len(requests) + 1, responseCount,
                   Len(delivered))
        < IocpWorkOf(queryCount, Len(txQueue') + 1, None, Len(requests), responseCount,
                     Len(delivered))
    BY <1>1, <2>2, <2>4, IocpTxStepLess
  <2> QED
    BY <2>1, <2>2, <2>3, <2>5, IocpWorkIs
<1>4. CASE CTCursorRecvOnQueue
  <2>1. /\ txCursor # None /\ txCursor' = None
        /\ UNCHANGED <<queryCount, txQueue, requests, responseCount, delivered>>
    BY <1>4 DEF CTCursorRecvOnQueue, appVars, netVars, rxVars
  <2>2. IocpWorkOf(queryCount, Len(txQueue), None, Len(requests), responseCount, Len(delivered))
        < IocpWorkOf(queryCount, Len(txQueue), txCursor, Len(requests), responseCount,
                     Len(delivered))
    BY <1>1, <2>1, IocpTxStepLess
  <2> QED
    BY <2>1, <2>2, IocpWorkIs
<1> QED
  BY <1>2, <1>3, <1>4 DEF TxThread

\* A server answers, the network delivers, a WSARecv is done.
LEMMA ProgressIocpNetwork ==
  ASSUME IocpInv, IocpNetwork
  PROVE  IocpProgress
<1>1. /\ IocpTypeOK /\ TypeOK /\ Len(delivered) \in Nat /\ Len(txQueue) \in Nat
      /\ Len(requests) \in Nat /\ queryCount \in Nat /\ responseCount \in Nat
  BY IocpWorkTypes
<1>2. /\ requests \in Seq(Cursors) /\ net \in Seq(Bytes) /\ sock \in Seq(Bytes)
  BY <1>1 DEF TypeOK
<1>3. net2 \in Seq(Bytes) /\ sock2 \in Seq(Bytes)
  BY <1>1 DEF IocpTypeOK
<1>4. Len(net) \in Nat /\ Len(net2) \in Nat /\ Len(sock) \in Nat /\ Len(sock2) \in Nat
  BY <1>2, <1>3
<1>5. CASE IocpAnswer
  <2>1. PICK i \in 1 .. Len(requests) : requests' = RemoveAt(requests, i)
    BY <1>5 DEF IocpAnswer
  <2>2. UNCHANGED <<queryCount, txQueue, txCursor, responseCount, delivered>>
    BY <1>5 DEF IocpAnswer, appVars, txVars, rxVars
  <2>3. Len(requests') = Len(requests) - 1
    BY <1>2, <2>1, WithoutOne
  <2>4. Len(requests') \in Nat /\ Len(requests) = Len(requests') + 1
    BY <1>1, <2>1, <2>3
  <2>5. IocpWorkOf(queryCount, Len(txQueue), txCursor, Len(requests'), responseCount,
                   Len(delivered))
        < IocpWorkOf(queryCount, Len(txQueue), txCursor, Len(requests') + 1, responseCount,
                     Len(delivered))
    BY <1>1, <2>4, IocpStepLess
  <2>6. IocpWork' < IocpWork
    BY <2>2, <2>4, <2>5, IocpWorkIs
  <2> QED
    BY <2>6 DEF IocpProgress
<1>6. CASE Deliver /\ UNCHANGED iocpVars
  <2>1. IocpWork' = IocpWork
    BY <1>6, SameIocpWork DEF Deliver, appVars, txVars, rxVars
  <2>2. PICK n \in 1 .. Len(net) : net' = SubSeq(net, n + 1, Len(net))
    BY <1>6 DEF Deliver
  <2>3. Len(net') = Len(net) - n
    BY <1>2, <2>2, CutInTwo
  <2>4. net2' = net2
    BY <1>6 DEF iocpVars, net2Vars
  <2> QED
    BY <1>4, <2>1, <2>2, <2>3, <2>4 DEF IocpProgress
<1>7. CASE DeliverSecond
  <2>1. IocpWork' = IocpWork /\ net' = net
    BY <1>7, SameIocpWork DEF DeliverSecond, vars, appVars, txVars, netVars, rxVars
  <2>2. PICK n \in 1 .. Len(net2) : net2' = SubSeq(net2, n + 1, Len(net2))
    BY <1>7 DEF DeliverSecond
  <2>3. Len(net2') = Len(net2) - n
    BY <1>3, <2>2, CutInTwo
  <2> QED
    BY <1>4, <2>1, <2>2, <2>3 DEF IocpProgress
<1>8. CASE WSARecvDone
  <2>1. IocpWork' = IocpWork /\ net' = net /\ net2' = net2
    BY <1>8, SameIocpWork DEF WSARecvDone, appVars, txVars
  <2>2. \/ sock2 # <<>> /\ sock2' = <<>> /\ sock' = sock
        \/ sock # <<>> /\ sock' = <<>> /\ sock2' = sock2
    BY <1>8 DEF WSARecvDone
  <2>3. Len(sock') + Len(sock2') < Len(sock) + Len(sock2)
    <3>1. /\ sock # <<>> => Len(sock) > 0
          /\ sock2 # <<>> => Len(sock2) > 0
      BY <1>2, <1>3
    <3>2. Len(<<>>) = 0
      OBVIOUS
    <3> QED
      BY <1>4, <2>2, <3>1, <3>2
  <2> QED
    BY <2>1, <2>3 DEF IocpProgress
<1> QED
  BY <1>5, <1>6, <1>7, <1>8 DEF IocpNetwork

\* The rx thread schedules a cursor, takes a packet, receives again, or issues a
\* callback.
LEMMA ProgressIocpRx ==
  ASSUME IocpInv, IocpRxThread
  PROVE  IocpProgress
<1>1. /\ IocpTypeOK /\ TypeOK /\ Len(delivered) \in Nat /\ Len(txQueue) \in Nat
      /\ Len(requests) \in Nat /\ queryCount \in Nat /\ responseCount \in Nat
      /\ Len(rxPipe) \in Nat
  BY IocpWorkTypes
<1>2. CASE Schedule
  <2>1. /\ responseCount' = responseCount + 1
        /\ UNCHANGED <<queryCount, txQueue, txCursor, requests, delivered>>
    BY <1>2 DEF Schedule, appVars, txVars, netVars
  <2>2. IocpWorkOf(queryCount, Len(txQueue), txCursor, Len(requests), responseCount + 1,
                   Len(delivered))
        < IocpWorkOf(queryCount, Len(txQueue), txCursor, Len(requests), responseCount,
                     Len(delivered))
    BY <1>1, IocpStepLess
  <2>3. IocpWork' < IocpWork
    BY <2>1, <2>2, IocpWorkIs
  <2> QED
    BY <2>3 DEF IocpProgress
<1>3. CASE ReceiveDone
  <2>1. IocpWork' = IocpWork /\ UNCHANGED <<net, net2, sock, sock2>>
    BY <1>3, SameIocpWork DEF ReceiveDone, appVars, txVars, netVars, iocpVars, net2Vars
  <2>2. rxPipe \in Seq(Cursors) /\ rxPipe # <<>> /\ rxPipe' = Tail(rxPipe)
    BY <1>1, <1>3 DEF ReceiveDone, TypeOK
  <2>3. Len(rxPipe') \in Nat /\ Len(rxPipe) = Len(rxPipe') + 1
    BY <2>2, QueueLengths
  <2> QED
    BY <2>1, <2>3 DEF IocpProgress
<1>4. CASE ReceiveMore
  <2>1. IocpWork' = IocpWork /\ UNCHANGED <<net, net2, sock, sock2, rxPipe>>
    BY <1>4, SameIocpWork DEF ReceiveMore, appVars, txVars, netVars, iocpVars, net2Vars
  <2>2. Phase' < Phase
    BY <1>4 DEF ReceiveMore, Phase
  <2> QED
    BY <2>1, <2>2 DEF IocpProgress
<1>5. CASE Close \/ CloseAndSwitch
  <2>1. /\ cursor = Oldest /\ responseCount \in Nat \ {0}
    <3>1. cursor # None
      BY <1>5 DEF Close, CloseAndSwitch, IocpInv, CursorInv
    <3> QED
      BY <3>1, CursorIsOldest DEF IocpInv
  <2>2. /\ delivered' = Append(delivered, Callback(cursor)) /\ responseCount' = responseCount - 1
        /\ UNCHANGED <<queryCount, txQueue, txCursor, requests>>
    BY <1>5 DEF Close, CloseAndSwitch, appVars, txVars, netVars
  <2>3. Len(delivered') = Len(delivered) + 1
    BY <2>1, <2>2, OldestCallback
  <2>4. responseCount' \in Nat /\ responseCount = responseCount' + 1
    BY <2>1, <2>2
  <2>5. IocpWorkOf(queryCount, Len(txQueue), txCursor, Len(requests), responseCount',
                   Len(delivered) + 1)
        < IocpWorkOf(queryCount, Len(txQueue), txCursor, Len(requests), responseCount' + 1,
                     Len(delivered))
    BY <1>1, <2>4, IocpStepLess
  <2>6. IocpWork' < IocpWork
    BY <2>2, <2>3, <2>4, <2>5, IocpWorkIs
  <2> QED
    BY <2>6 DEF IocpProgress
<1> QED
  BY <1>2, <1>3, <1>4, <1>5 DEF IocpRxThread

LEMMA IocpProgressStep ==
  ASSUME IocpInv, [IocpNext]_allVars
  PROVE  IocpProgress \/ UNCHANGED allVars
<1>1. CASE (CTCursorSendOnQueue /\ UNCHANGED iocpVars) \/ IocpTxThread
  BY <1>1, IocpWorkOfTx DEF IocpProgress, IocpTxThread
<1>2. CASE IocpNetwork
  BY <1>2, ProgressIocpNetwork
<1>3. CASE IocpRxThread
  BY <1>3, ProgressIocpRx
<1>4. CASE (Finished /\ UNCHANGED iocpVars) \/ UNCHANGED allVars
  BY <1>4 DEF Finished, allVars
<1> QED
  BY <1>1, <1>2, <1>3, <1>4 DEF IocpNext

\* With one connection or two on a port, with outrun responses and headers cut
\* anywhere, no step is in vain and the steps are bounded: no packet comes back
\* to the port for nothing, and no cursor is scheduled or called back again.
THEOREM IocpEveryStepProgresses ==
  IocpSpec => [](IocpWork \in Nat) /\ [][IocpProgress]_allVars
<1>1. IocpInv => IocpWork \in Nat
  BY IocpWorkNat
<1>2. IocpInv /\ [IocpNext]_allVars => [IocpProgress]_allVars
  BY IocpProgressStep
<1>3. IocpSpec => []IocpInv
  BY IocpInvariance
<1> QED
  BY <1>1, <1>2, <1>3, PTL DEF IocpSpec

-----------------------------------------------------------------------------
(***************************************************************************)
(* The threads do not wait for nothing, where the cursors of the second    *)
(* connection are sent behind those of the first.                          *)
(***************************************************************************)

\* One of the guards of the tx thread, the rx thread, the servers, the networks
\* and the kernel holds.
IocpCanMove ==
  \/ txCursor # None \/ txQueue # <<>>
  \/ \E i \in 1 .. Len(requests) :
       /\ \A j \in 1 .. (i - 1) : ~SameConn(requests[i], requests[j])
       /\ Outrun \/ Expected(requests[i])
  \/ net # <<>> \/ net2 # <<>>
  \/ \E c \in rxQueue : SockOf(c) # <<>>
  \/ rxpc = "top" /\ rxPipe # <<>>
  \/ rxpc = "process"

\* No cursor of the first connection is sent behind one of the second.
Grouped == \A c \in Second, d \in Cursors : d > c => d \in Second

\* Only the cursor that receives has bytes, and with the rx thread at the top of
\* its loop it has not got its response: it is not left complete.
OnlyOldest ==
  \A c \in Cursors : c > Len(delivered) /\ (c # Oldest \/ responseCount = 0) => header[c] = None

OldestWaits == rxpc = "top" /\ responseCount # 0 => ~Complete(Oldest)

RestInv == OnlyOldest /\ OldestWaits

LEMMA NoHeader ==
  ASSUME NEW c, header[c] = None
  PROVE  ~Complete(c)
BY DEF Complete, ContentLength

LEMMA RestUntouched ==
  ASSUME RestInv, UNCHANGED <<bodyLen, header, data, delivered, responseCount, rxpc>>
  PROVE  RestInv'
<1>1. \A c : Complete(c)' <=> Complete(c)
  BY DEF Complete, ContentLength
<1>2. Oldest' = Oldest
  BY DEF Oldest
<1>3. OnlyOldest'
  BY <1>2 DEF RestInv, OnlyOldest
<1>4. OldestWaits'
  BY <1>1, <1>2 DEF RestInv, OldestWaits
<1> QED
  BY <1>3, <1>4 DEF RestInv

LEMMA RestSchedule ==
  ASSUME IocpInv, RestInv, Schedule
  PROVE  RestInv'
<1>1. /\ rxPipe # <<>> /\ stage[Head(rxPipe)] = "SCHEDULE" /\ responseCount' = responseCount + 1
      /\ UNCHANGED <<bodyLen, header, data, delivered, rxpc>> /\ rxpc = "top"
  BY DEF Schedule, appVars
<1>2. responseCount \in Nat /\ responseCount' # 0 /\ Oldest' = Oldest
  BY <1>1, IocpWorkTypes DEF Oldest
<1>3. OnlyOldest'
  BY <1>1, <1>2 DEF RestInv, OnlyOldest
<1>4. ~Complete(Oldest)
  <2>1. CASE responseCount = 0
    <3>1. PICK p \in 0 .. Len(rxPipe) : Places(p)
      BY DEF IocpInv
    <3>2. Head(rxPipe) \in Cursors /\ Head(rxPipe) = Scheduled + 1
      BY <1>1, <3>1, HeadOfPort
    <3>3. Scheduled + 1 = Oldest /\ Oldest > Len(delivered)
      BY <2>1, Numbers DEF IocpInv
    <3>4. header[Oldest] = None
      BY <2>1, <3>2, <3>3 DEF RestInv, OnlyOldest
    <3> QED
      BY <3>4, NoHeader
  <2>2. CASE responseCount # 0
    BY <1>1, <2>2 DEF RestInv, OldestWaits
  <2> QED
    BY <2>1, <2>2
<1>5. ~Complete(Oldest)'
  BY <1>1, <1>2, <1>4 DEF Complete, ContentLength
<1>6. OldestWaits'
  BY <1>5 DEF OldestWaits
<1> QED
  BY <1>3, <1>6 DEF RestInv

LEMMA RestReceiveDone ==
  ASSUME IocpInv, RestInv, ReceiveDone
  PROVE  RestInv'
<1>1. /\ rxPipe # <<>> /\ stage[Head(rxPipe)] = "RECEIVE" /\ cursor' = Head(rxPipe)
      /\ Receive(cursor', transferred[cursor'])
      /\ UNCHANGED <<delivered, responseCount>>
  BY DEF ReceiveDone
<1>2. PICK p \in 0 .. Len(rxPipe) : Places(p)
  BY DEF IocpInv
<1>3. cursor' = Oldest /\ responseCount # 0
  <2>1. p = 1 /\ Head(rxPipe) = Oldest
    BY <1>1, <1>2, HeadOfPort
  <2> QED
    BY <1>1, <1>2, <2>1 DEF Places
<1>4. rxpc' # "top" /\ \A c \in Cursors : c # Oldest => header'[c] = header[c]
  <2>1. header \in [Cursors -> Cursors \cup {None}]
    BY DEF IocpInv, IocpTypeOK, TypeOK
  <2> QED
    BY <1>1, <1>3, <2>1 DEF Receive
<1>5. Oldest' = Oldest
  BY <1>1 DEF Oldest
<1>6. OnlyOldest'
  BY <1>1, <1>3, <1>4, <1>5 DEF RestInv, OnlyOldest
<1>7. OldestWaits'
  BY <1>4 DEF OldestWaits
<1> QED
  BY <1>6, <1>7 DEF RestInv

LEMMA RestReceiveMore ==
  ASSUME IocpInv, RestInv, ReceiveMore
  PROVE  RestInv'
<1>1. /\ ~Complete(cursor) /\ rxpc = "process"
      /\ UNCHANGED <<bodyLen, header, data, delivered, responseCount>>
  BY DEF ReceiveMore, appVars
<1>2. cursor = Oldest /\ Oldest' = Oldest
  <2>1. cursor # None
    BY <1>1 DEF IocpInv, CursorInv
  <2> QED
    BY <1>1, <2>1, CursorIsOldest DEF IocpInv, Oldest
<1>3. ~Complete(Oldest)'
  BY <1>1, <1>2 DEF Complete, ContentLength
<1>4. OnlyOldest'
  BY <1>1, <1>2 DEF RestInv, OnlyOldest
<1> QED
  BY <1>3, <1>4 DEF RestInv, OldestWaits

\* A callback: the next cursor, if one is scheduled, is the one behind it.
LEMMA RestCalledBack ==
  ASSUME IocpInv, RestInv, cursor = Oldest, delivered' = Append(delivered, Callback(cursor)),
         responseCount \in Nat \ {0}, responseCount' = responseCount - 1,
         \A c \in Cursors : c > Oldest + 1 => header'[c] = header[c],
         responseCount' = 0 => header' = header
  PROVE  OnlyOldest'
<1>1. Len(delivered') = Len(delivered) + 1 /\ Len(delivered) \in Nat /\ Oldest = Len(delivered) + 1
  BY OldestCallback, Numbers DEF IocpInv
<1>2. Oldest' = Oldest + 1
  BY <1>1 DEF Oldest
<1>3. \A c \in Cursors : c \in Nat
  BY DEF Cursors
<1>4. \A c \in Cursors : c > Oldest => header[c] = None
  BY <1>1, <1>3 DEF RestInv, OnlyOldest
<1>5. ASSUME NEW c \in Cursors, c > Len(delivered'), c # Oldest + 1 \/ responseCount' = 0
      PROVE  header'[c] = None
  <2>1. c > Oldest /\ header[c] = None
    BY <1>1, <1>4, <1>5
  <2>2. CASE c # Oldest + 1
    <3>1. c > Oldest + 1
      BY <1>1, <1>3, <2>1, <2>2
    <3> QED
      BY <2>1, <3>1
  <2>3. CASE responseCount' = 0
    BY <2>1, <2>3
  <2> QED
    BY <1>5, <2>2, <2>3
<1> QED
  BY <1>2, <1>5 DEF OnlyOldest

LEMMA RestClose ==
  ASSUME IocpInv, RestInv, Close
  PROVE  RestInv'
<1>1. /\ rxpc = "process" /\ messages = <<>>
      /\ delivered' = Append(delivered, Callback(cursor))
      /\ responseCount' = responseCount - 1 /\ header' = header
  BY DEF Close
<1>2. responseCount \in Nat \ {0} /\ cursor = Oldest
  <2>1. cursor # None
    BY <1>1 DEF IocpInv, CursorInv
  <2> QED
    BY <2>1, CursorIsOldest DEF IocpInv
<1>3. responseCount' = 0
  <2>1. Len(messages) = 0
    BY <1>1
  <2>2. Len(messages) = responseCount - 1
    BY <1>2 DEF IocpInv, Waiting
  <2> QED
    BY <1>1, <1>2, <2>1, <2>2
<1>4. OnlyOldest'
  BY <1>1, <1>2, RestCalledBack
<1> QED
  BY <1>3, <1>4 DEF RestInv, OldestWaits

\* In groups, the next cursor of a connection that is scheduled is the next of all.
LEMMA GroupedNext ==
  ASSUME Grouped, NEW c \in Cursors, NEW d \in Cursors, NextSent(c, d), c + 1 \in Cursors
  PROVE  d = c + 1
<1>1. c \in Nat /\ d \in Nat /\ c < d /\ SameConn(c, d)
  BY DEF NextSent, Cursors
<1>2. SameConn(c, c + 1)
  <2>1. CASE c \in Second
    <3>1. c + 1 \in Second
      BY <1>1, <2>1 DEF Grouped
    <3> QED
      BY <2>1, <3>1 DEF SameConn
  <2>2. CASE c \notin Second
    <3>1. d \notin Second
      BY <1>1, <2>2 DEF SameConn
    <3>2. c + 1 \notin Second
      BY <1>1, <3>1 DEF Grouped
    <3> QED
      BY <2>2, <3>2 DEF SameConn
  <2> QED
    BY <2>1, <2>2
<1> QED
  BY <1>1, <1>2 DEF NextSent

LEMMA RestCloseAndSwitch ==
  ASSUME IocpStreamInv, RestInv, Grouped, CloseAndSwitch
  PROVE  RestInv'
<1>1. PICK c : c = cursor
  OBVIOUS
<1>2. /\ rxpc = "process" /\ Complete(cursor) /\ messages # <<>>
      /\ delivered' = Append(delivered, Callback(cursor)) /\ responseCount' = responseCount - 1
      /\ UNCHANGED bodyLen
  BY DEF CloseAndSwitch, appVars
<1>3. /\ c \in Cursors /\ c = Oldest /\ c = Len(delivered) + 1 /\ c \in Nat
      /\ Len(delivered) \in Nat /\ responseCount \in Nat \ {0}
  BY <1>1, <1>2, CompleteOldest
<1>4. IocpInv /\ TypeOK /\ messages \in Seq(Cursors)
  BY DEF IocpStreamInv, IocpInv, IocpTypeOK
<1>5. Head(messages) = c + 1 /\ c + 1 \in Cursors /\ responseCount' # 0
  <2>1. Head(messages) \in Cursors /\ Head(messages) = messages[1] /\ Len(messages) \in Nat \ {0}
    BY <1>2, <1>4
  <2>2. ContinuesFrom(messages, Oldest) /\ Len(messages) = responseCount - 1
    BY <1>3, <1>4 DEF IocpInv, Waiting
  <2>3. messages[1] = Oldest + 1
    <3>1. 1 \in 1 .. Len(messages)
      BY <2>1
    <3> QED
      BY <2>2, <3>1 DEF ContinuesFrom
  <2> QED
    BY <1>2, <1>3, <2>1, <2>2, <2>3
<1>6. PICK over \in Seq(Units) : over = Overlap(c)
  BY <1>1, <1>2, OldestBuffer
<1>7. \/ over = <<>> /\ UNCHANGED <<header, data>>
      \/ \E d \in Cursors, body \in Seq(Units) :
           /\ NextSent(c, d) /\ GivenTo(d, body, over)
           /\ rxpc' = "top" /\ SameConn(Head(messages), c) => body = <<>>
  BY <1>1, <1>6, SwitchIs
<1>8. Oldest' = c + 1
  <2>1. Len(delivered') = Len(delivered) + 1
    BY <1>1, <1>2, <1>3, <1>4, OldestCallback
  <2> QED
    BY <1>3, <2>1 DEF Oldest
<1>9. header[c + 1] = None
  <2>1. c + 1 > Len(delivered) /\ c + 1 # Oldest
    BY <1>3
  <2> QED
    BY <1>5, <2>1 DEF RestInv, OnlyOldest
<1>10. CASE UNCHANGED <<header, data>>
  <2>1. OnlyOldest'
    BY <1>1, <1>2, <1>3, <1>4, <1>10, RestCalledBack
  <2>2. ~Complete(c + 1)'
    BY <1>9, <1>10 DEF Complete, ContentLength
  <2> QED
    BY <1>8, <2>1, <2>2 DEF RestInv, OldestWaits
<1>11. ASSUME NEW d \in Cursors, NEW body \in Seq(Units), NextSent(c, d), GivenTo(d, body, over),
              rxpc' = "top" /\ SameConn(Head(messages), c) => body = <<>>
       PROVE  RestInv'
  <2>1. d = c + 1 /\ SameConn(Head(messages), c)
    <3>1. d = c + 1
      BY <1>3, <1>5, <1>11, GroupedNext
    <3> QED
      BY <1>5, <1>11, <3>1, SameConnEquiv DEF NextSent
  <2>2. /\ header \in [Cursors -> Cursors \cup {None}] /\ data \in [Cursors -> Seq(Units)]
        /\ header' = [header EXCEPT ![d] = d] /\ data' = [data EXCEPT ![d] = body]
    BY <1>4, <1>11 DEF TypeOK, GivenTo
  <2>3. data'[d] = body /\ \A e \in Cursors : e # d => header'[e] = header[e]
    BY <2>2
  <2>4. \A e \in Cursors : e > Oldest + 1 => header'[e] = header[e]
    BY <1>3, <2>1, <2>3
  <2>5. OnlyOldest'
    BY <1>1, <1>2, <1>3, <1>4, <1>5, <2>4, RestCalledBack
  <2>6. rxpc' = "top" => ~Complete(d)'
    <3>1. body = <<>> => ~Complete(d)'
      BY <2>3 DEF Complete
    <3> QED
      BY <1>11, <2>1, <3>1
  <2> QED
    BY <1>8, <2>1, <2>5, <2>6 DEF RestInv, OldestWaits
<1> QED
  BY <1>7, <1>10, <1>11

LEMMA RestStep ==
  ASSUME IocpStreamInv, RestInv, Grouped, [IocpNext]_allVars
  PROVE  RestInv'
<1>0. IocpInv
  BY DEF IocpStreamInv
<1>1. CASE (CTCursorSendOnQueue /\ UNCHANGED iocpVars) \/ IocpTxThread
  BY <1>1, RestUntouched
  DEF CTCursorSendOnQueue, IocpTxThread, TxThread, TxSend, CTCursorRecvOnQueue, appVars, rxVars
<1>2. CASE IocpAnswer \/ (Deliver /\ UNCHANGED iocpVars)
  BY <1>2, RestUntouched DEF IocpAnswer, Deliver, appVars, rxVars
<1>3. CASE DeliverSecond \/ WSARecvDone
  BY <1>3, RestUntouched DEF DeliverSecond, WSARecvDone, vars, appVars, rxVars
<1>4. CASE IocpRxThread
  BY <1>0, <1>4, RestSchedule, RestReceiveDone, RestReceiveMore, RestClose, RestCloseAndSwitch
  DEF IocpRxThread
<1>5. CASE (Finished /\ UNCHANGED iocpVars) \/ UNCHANGED allVars
  BY <1>5, RestUntouched DEF Finished, allVars, vars, appVars, rxVars
<1> QED
  BY <1>1, <1>2, <1>3, <1>4, <1>5 DEF IocpNext, IocpNetwork

\* Nothing moves: every cursor that was sent is scheduled and every request
\* answered, and the oldest cursor waits for bytes that do not come.
LEMMA OldestIsStuck ==
  ASSUME IocpStreamInv, ~IocpCanMove, Len(delivered) < queryCount, NEW c, c = Oldest
  PROVE  /\ c \in Cursors /\ FirstLeft(c) /\ rxpc = "top" /\ responseCount # 0
         /\ requests = <<>> /\ c <= Taken /\ ConnStream(c) = Received(c)
<1>1. IocpInv /\ TypeOK
  BY DEF IocpStreamInv, IocpInv, IocpTypeOK
<1>2. /\ Len(delivered) \in Nat /\ queryCount \in Nat /\ responseCount \in Nat
  BY <1>1, IocpWorkTypes
<1>3. /\ txCursor = None /\ txQueue = <<>> /\ net = <<>> /\ net2 = <<>>
      /\ \A d \in rxQueue : SockOf(d) = <<>>
  BY DEF IocpCanMove
<1>4. rxpc = "top" /\ rxPipe = <<>>
  BY <1>1 DEF IocpCanMove, IocpInv, CursorInv, IocpStreamInv, NeverAborts
<1>5. Len(rxPipe) = 0 /\ Len(txQueue) = 0
  BY <1>3, <1>4
<1>6. Places(0)
  BY <1>1, <1>5 DEF IocpInv
<1>7. Scheduled = queryCount /\ Taken = queryCount
  <2>1. queryCount = LastSent(0) + Len(txQueue) /\ LastSent(0) = Scheduled + Len(rxPipe) - 0 + 0
    BY <1>3, <1>6 DEF Places, LastSent, LastOnPort
  <2>2. Scheduled \in Nat
    BY <1>1, Numbers DEF IocpInv
  <2> QED
    BY <1>2, <1>5, <2>1, <2>2 DEF Taken
<1>8. responseCount # 0
  BY <1>2, <1>7 DEF Scheduled
<1>9. c \in Cursors /\ FirstLeft(c) /\ c <= Scheduled
  BY <1>1, <1>8, OldestInFlight
<1>10. cursor = None /\ rxQueue = {c}
  <2>1. Receiving(0) /\ cursor = None
    BY <1>1, <1>4, <1>6 DEF Places, IocpInv, CursorInv
  <2>2. c # None
    BY <1>9, NoneIsNoCursor
  <2> QED
    BY <1>8, <2>1, <2>2 DEF Receiving
<1>11. requests = <<>>
  <2> SUFFICES ASSUME requests # <<>> PROVE FALSE
    OBVIOUS
  <2>1. requests \in Seq(Cursors)
    BY <1>1 DEF TypeOK
  <2>2. Len(requests) \in Nat \ {0} /\ 1 \in 1 .. Len(requests) /\ requests[1] \in Cursors
    BY <2>1
  <2>3. requests[1] <= Scheduled
    BY <1>7, <2>2 DEF IocpStreamInv, RequestsInv
  <2>4. stage[requests[1]] = "RECEIVE"
    BY <1>1, <2>2, <2>3 DEF IocpInv, CursorInv
  <2>5. Expected(requests[1]) /\ \A j \in 1 .. (1 - 1) : ~SameConn(requests[1], requests[j])
    BY <2>4 DEF Expected
  <2> QED
    BY <2>2, <2>5 DEF IocpCanMove
<1>12. ConnStream(c) = Received(c)
  <2>1. Arrived(c) = <<>> /\ SockOf(c) = <<>> /\ NetOf(c) = <<>>
    BY <1>3, <1>10 DEF Arrived, NetOf
  <2>2. Coming(c) = <<>>
    <3>1. <<>> \o <<>> = <<>>
      OBVIOUS
    <3> QED
      BY <2>1, <3>1 DEF Coming
  <2>3. Received(c) \in Seq(Units)
    BY <1>1, <1>9, ConnTypes DEF IocpInv
  <2> QED
    BY <2>2, <2>3, EmptyJoined DEF ConnStream
<1> QED
  BY <1>4, <1>7, <1>8, <1>9, <1>11, <1>12

\* But it has its whole response.
LEMMA IocpNotStuck ==
  ASSUME IocpStreamInv, RestInv, 0 \notin BodyLens, Len(delivered) < queryCount
  PROVE  IocpCanMove
<1> SUFFICES ASSUME ~IocpCanMove PROVE FALSE
  OBVIOUS
<1>1. PICK c : c = Oldest
  OBVIOUS
<1>2. /\ c \in Cursors /\ FirstLeft(c) /\ rxpc = "top" /\ responseCount # 0
      /\ requests = <<>> /\ c <= Taken /\ ConnStream(c) = Received(c)
  BY <1>1, OldestIsStuck
<1>3. IocpTypeOK /\ TypeOK /\ c \in Nat /\ c # None
  BY <1>2, NoneIsNoCursor DEF IocpStreamInv, IocpInv, IocpTypeOK, Cursors
<1> PICK s \in Seq(Units) : s = Received(c)
  BY <1>2, <1>3, ConnTypes
<1>4. IsConnStream(c, s)
  BY <1>2 DEF IocpStreamInv, ConnInv
<1>5. PICK a \in 0 .. Taken : EndsWith(c, a, s) /\ Unanswered(c, a)
  BY <1>4 DEF IsConnStream
<1>6. s # <<>> /\ s[Len(s)] = [req |-> a, pos |-> Size(a)]
  <2>1. ~Holds(requests, c)
    BY <1>2 DEF Holds
  <2>2. ~(c > a)
    BY <1>2, <1>3, <1>5, <2>1, SameConnEquiv DEF Unanswered
  <2>3. Taken \in Nat /\ a \in Nat
    BY <1>5, TakenNumbers DEF IocpStreamInv
  <2> QED
    BY <1>3, <1>5, <2>2, <2>3 DEF EndsWith
<1>7. Len(s) >= Size(c)
  <2>1. InResponses(c, s)
    BY <1>4, ConnInResponses DEF IsConnStream
  <2> QED
    BY <1>2, <1>3, <1>6, <2>1, HasWholeResponse
<1>8. header[c] = c /\ data[c] \in Seq(Units)
  <2>1. header[c] \in {None, c} /\ (header[c] = None => data[c] = <<>>)
    BY <1>2 DEF IocpStreamInv, BuffersInv, FirstLeft
  <2>2. header[c] # None
    BY <1>6, <2>1 DEF Received
  <2> QED
    BY <1>2, <1>3, <2>1, <2>2 DEF TypeOK
<1>9. Len(s) = HeaderLen + Len(data[c])
  <2> DEFINE h == SubSeq(Response(c), 1, HeaderLen)
  <2>1. h \in Seq(Units) /\ Len(h) = HeaderLen
    BY <1>2, <1>3, HeaderBytes
  <2>2. s = h \o data[c]
    BY <1>3, <1>8 DEF Received
  <2> HIDE DEF h
  <2>3. PICK b \in Seq(Units) : b = data[c]
    BY <1>8
  <2>4. Len(h \o b) = Len(h) + Len(b)
    BY <2>1, Joined
  <2> QED
    BY <2>1, <2>2, <2>3, <2>4
<1>10. bodyLen[c] \in Nat /\ bodyLen[c] # 0
  BY <1>2, <1>3, SizeType DEF TypeOK
<1>11. Len(data[c]) >= bodyLen[c] /\ Len(data[c]) \in Nat
  <2>1. Size(c) = HeaderLen + bodyLen[c] /\ HeaderLen \in Nat
    BY <1>2, <1>3, SizeType
  <2>2. Len(data[c]) \in Nat
    BY <1>8, LenProperties
  <2> QED
    BY <1>7, <1>9, <1>10, <2>1, <2>2
<1>12. ContentLength(c) = bodyLen[c]
  BY <1>3, <1>8 DEF ContentLength
<1>13. Complete(c)
  BY <1>10, <1>11, <1>12 DEF Complete
<1> QED
  BY <1>1, <1>2, <1>13 DEF RestInv, OldestWaits

\* Where no response outruns its cursor, no header is cut, no body is empty and no
\* cursor of the first connection is sent behind one of the second, the threads,
\* the servers, the networks and the kernel never all wait while a cursor that
\* was sent is without its callback.  (With the cursors of the two connections
\* mixed they may: the run "iocp_shared".)
THEOREM IocpNeverStuck ==
  ASSUME ~Outrun, WholeHeaders, 0 \notin BodyLens, Grouped
  PROVE  IocpSpec => [](Len(delivered) < queryCount => IocpCanMove)
<1>1. IocpInit => RestInv
  BY DEF IocpInit, Init, RestInv, OnlyOldest, OldestWaits
<1>2. IocpStreamInv /\ RestInv /\ [IocpNext]_allVars => RestInv'
  BY RestStep
<1>3. IocpStreamInv /\ RestInv => (Len(delivered) < queryCount => IocpCanMove)
  BY IocpNotStuck
<1>4. IocpSpec => []IocpStreamInv
  BY IocpStreamInvariance
<1> QED
  BY <1>1, <1>2, <1>3, <1>4, PTL DEF IocpSpec
==============================================================================
