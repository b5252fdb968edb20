--------------------------- MODULE CTPipelineProofs ---------------------------
(***************************************************************************)
(* Proofs about CTPipeline, for every number of cursors, every window, and *)
(* every header and body length.                                           *)
(*                                                                         *)
(* The first half is about the cursors, whether or not the server outruns  *)
(* the tx thread or the network cuts headers.  The inductive invariant     *)
(* IInv is the conjunction of the type invariant, CursorOrder,             *)
(* ResponseCountExact and two facts they need: the rx thread is at the top *)
(* of its loop exactly when it has no cursor, and a cursor it has not seen *)
(* yet is still to be scheduled.                                           *)
(*                                                                         *)
(* The second half is about the bytes, where no response outruns its       *)
(* cursor and no header is cut: every callback is given its own response,  *)
(* and the pipeline takes no step that CTPromise does not allow.           *)
(*                                                                         *)
(* The last part is what can be proved of liveness: every step brings the  *)
(* callbacks closer, and the pipeline never waits with none to come.       *)
(***************************************************************************)
EXTENDS CTPipeline, WellFoundedInduction, SequenceTheorems, TLAPS
-----------------------------------------------------------------------------
(***************************************************************************)
(* The buffers.                                                            *)
(***************************************************************************)

\* headerLengthCallback returns a position of the buffer, or nothing.
LEMMA HeaderEndRange ==
  ASSUME NEW buf \in Seq(Units)
  PROVE  HeaderEnd(buf) \in 0 .. Len(buf)
BY DEF HeaderEnd

\* What is received behind the bytes of a cursor makes a buffer.
LEMMA BufferGrows ==
  ASSUME NEW buf \in Seq(Units), NEW more \in Seq(Bytes)
  PROVE  /\ buf \o more \in Seq(Units)
         /\ Len(buf \o more) = Len(buf) + Len(more)
<1>1. more \in Seq(Units)
  BY DEF Units
<1> QED
  BY <1>1

\* A part of a sequence is a sequence of the same elements.
LEMMA SubSeqType ==
  ASSUME NEW S, NEW s \in Seq(S), NEW m \in Nat, NEW n \in Nat,
         m >= 1, n <= Len(s)
  PROVE  SubSeq(s, m, n) \in Seq(S)
OBVIOUS

\* A move of the body leaves a buffer, the one the header was cut from.
LEMMA MoveBodyType ==
  ASSUME NEW buf \in Seq(Units), NEW end \in Nat, NEW lastRead \in 0 .. Len(buf)
  PROVE  MoveBody(buf, end, lastRead) \in Seq(Units)
<1> DEFINE rest == [i \in 1 .. (Len(buf) - lastRead) |-> Junk]
<1>1. SubSeq(buf, end + 1, lastRead) \in Seq(Units)
  BY SubSeqType
<1>2. rest \in Seq(Units)
  <2>1. Len(buf) - lastRead \in Nat /\ Junk \in Units
    BY DEF Units
  <2> QED
    BY <2>1
<1> QED
  BY <1>1, <1>2 DEF MoveBody

\* The server's response is a sequence of bytes.
LEMMA ResponseType ==
  ASSUME TypeOK, NEW c \in Cursors
  PROVE  Response(c) \in Seq(Bytes)
<1>1. HeaderLen + bodyLen[c] \in Nat
  <2>1. bodyLen[c] \in BodyLens
    BY DEF TypeOK
  <2>2. bodyLen[c] \in Nat
    BY <2>1, LengthAssumption
  <2>3. HeaderLen \in Nat
    BY LengthAssumption
  <2> QED
    BY <2>2, <2>3
<1>2. \A p \in 1 .. (HeaderLen + bodyLen[c]) : [req |-> c, pos |-> p] \in Bytes
  BY <1>1 DEF Bytes
<1> QED
  BY <1>1, <1>2 DEF Response
-----------------------------------------------------------------------------
(***************************************************************************)
(* The type invariant.                                                     *)
(***************************************************************************)

\* What the rx thread's state says of its cursor.
RxHasCursor == rxpc = "top" <=> cursor = None

TypeInv == TypeOK /\ RxHasCursor

LEMMA TypeInvInit == Init => TypeInv
<1> SUFFICES ASSUME Init PROVE TypeInv
  OBVIOUS
<1>1. 0 \in 0 .. NumCursors
  BY NumCursorsAssumption
<1>2. <<>> \in Seq(Cursors) /\ <<>> \in Seq(Bytes) /\ <<>> \in Seq(Units)
      /\ <<>> \in Seq(Callbacks)
  OBVIOUS
<1> QED
  BY <1>1, <1>2 DEF Init, TypeInv, TypeOK, RxHasCursor, RxStates

\* The application and the tx thread.
LEMMA TypeTx ==
  ASSUME TypeOK, CTCursorSendOnQueue \/ TxThread
  PROVE  TypeOK' /\ UNCHANGED rxVars
<1> USE DEF TypeOK
<1>1. CASE CTCursorSendOnQueue
  <2>1. queryCount + 1 \in Cursors /\ queryCount' \in 0 .. NumCursors
    BY <1>1, NumCursorsAssumption DEF CTCursorSendOnQueue, Cursors
  <2>2. txQueue' \in Seq(Cursors)
    BY <1>1, <2>1 DEF CTCursorSendOnQueue
  <2> QED
    BY <1>1, <2>1, <2>2 DEF CTCursorSendOnQueue, rxVars, netVars
<1>2. CASE TxSend
  <2>1. Head(txQueue) \in Cursors /\ Tail(txQueue) \in Seq(Cursors)
    BY <1>2 DEF TxSend
  <2>2. requests' \in Seq(Cursors)
    BY <1>2, <2>1 DEF TxSend
  <2> QED
    BY <1>2, <2>1, <2>2 DEF TxSend, rxVars, appVars
<1>3. CASE CTCursorRecvOnQueue
  <2>1. rxPipe' \in Seq(Cursors)
    BY <1>3 DEF CTCursorRecvOnQueue
  <2> QED
    BY <1>3, <2>1 DEF CTCursorRecvOnQueue, rxVars, appVars, netVars
<1> QED
  BY <1>1, <1>2, <1>3 DEF TxThread

\* The server and the network.
LEMMA TypeNetwork ==
  ASSUME TypeOK, Network
  PROVE  TypeOK' /\ UNCHANGED rxVars
<1> USE DEF TypeOK
<1>1. CASE Answer
  <2>1. Head(requests) \in Cursors /\ requests' \in Seq(Cursors)
    BY <1>1 DEF Answer
  <2>2. net' \in Seq(Bytes)
    BY <1>1, <2>1, ResponseType DEF Answer
  <2> QED
    BY <1>1, <2>1, <2>2 DEF Answer, rxVars, appVars, txVars
<1>2. CASE Deliver
  <2>1. PICK n \in 1 .. Len(net) :
          /\ sock' = sock \o SubSeq(net, 1, n)
          /\ net' = SubSeq(net, n + 1, Len(net))
          /\ UNCHANGED <<appVars, txVars, requests, rxPipe, rxVars>>
    BY <1>2 DEF Deliver
  <2>2. net \in Seq(Bytes) /\ Len(net) \in Nat
    OBVIOUS
  <2>3. n \in Nat /\ n <= Len(net) /\ n + 1 \in Nat
    BY <2>2
  <2>4. SubSeq(net, 1, n) \in Seq(Bytes)
    BY <2>2, <2>3, SubSeqType
  <2>5. SubSeq(net, n + 1, Len(net)) \in Seq(Bytes)
    BY <2>2, <2>3, SubSeqType
  <2> QED
    BY <2>1, <2>4, <2>5 DEF rxVars, appVars, txVars
<1> QED
  BY <1>1, <1>2 DEF Network

\* The callback of a cursor is a callback.
LEMMA CallbackType ==
  ASSUME TypeOK, NEW c \in Cursors, Complete(c)
  PROVE  Callback(c) \in Callbacks /\ Overlap(c) \in Seq(Units)
<1>1. data[c] \in Seq(Units) /\ header[c] \in Cursors \cup {None}
  BY DEF TypeOK
<1>2. ContentLength(c) \in Nat /\ ContentLength(c) <= Len(data[c])
  BY <1>1 DEF Complete
<1>3. SubSeq(data[c], 1, ContentLength(c)) \in Seq(Units)
  BY <1>1, <1>2, SubSeqType
<1>4. Overlap(c) \in Seq(Units)
  BY <1>1, <1>2, SubSeqType DEF Overlap
<1> QED
  BY <1>1, <1>3, <1>4 DEF Callback, Callbacks

\* The header found in a buffer names a request, or is junk.
LEMMA OriginType ==
  ASSUME NEW buf \in Seq(Units), HeaderEnd(buf) # 0
  PROVE  buf[HeaderEnd(buf)].req \in Cursors \cup {None}
<1>1. HeaderEnd(buf) \in 1 .. Len(buf)
  BY HeaderEndRange
<1>2. buf[HeaderEnd(buf)] \in Units
  BY <1>1
<1> QED
  BY <1>2 DEF Units, Bytes, Junk

\* What a read does to its cursor's buffer leaves a buffer.
LEMMA ReceiveType ==
  ASSUME TypeOK, NEW c \in Cursors, NEW bytes \in Seq(Bytes), Receive(c, bytes)
  PROVE  /\ data' \in [Cursors -> Seq(Units)]
         /\ header' \in [Cursors -> Cursors \cup {None}]
         /\ rxpc' \in {"process", "aborted"}
<1> USE DEF TypeOK
<1> DEFINE buf   == data[c] \o bytes
           end   == IF header[c] = None THEN HeaderEnd(buf) ELSE 0
           wraps == end > Len(bytes)
<1>1. buf \in Seq(Units) /\ Len(bytes) \in 0 .. Len(buf)
  BY BufferGrows
<1>2. end \in 0 .. Len(buf)
  <2> HIDE DEF buf
  <2>1. HeaderEnd(buf) \in 0 .. Len(buf)
    BY <1>1, HeaderEndRange
  <2>2. Len(buf) \in Nat
    BY <1>1
  <2> QED
    BY <2>1, <2>2
<1>3. end # 0 => buf[end].req \in Cursors \cup {None}
  BY <1>1, OriginType
<1>4. MoveBody(buf, end, Len(bytes)) \in Seq(Units)
  <2>1. end \in Nat
    BY <1>1, <1>2
  <2> HIDE DEF buf, end
  <2> QED
    BY <1>1, <2>1, MoveBodyType
<1>5. /\ header' = [header EXCEPT ![c] = IF end = 0 \/ wraps THEN @ ELSE buf[end].req]
      /\ data' = [data EXCEPT ![c] =
                    IF end = 0 \/ wraps THEN buf ELSE MoveBody(buf, end, Len(bytes))]
      /\ rxpc' = IF wraps THEN "aborted" ELSE "process"
  BY DEF Receive
<1> HIDE DEF buf, end, wraps
<1>6. header' \in [Cursors -> Cursors \cup {None}]
  BY <1>3, <1>5
<1>7. data' \in [Cursors -> Seq(Units)]
  BY <1>1, <1>4, <1>5
<1> QED
  BY <1>5, <1>6, <1>7

\* The rx thread.
LEMMA TypeInvRx ==
  ASSUME TypeInv, RxThread
  PROVE  TypeInv'
<1> USE DEF TypeInv, TypeOK, RxHasCursor
<1>0. None \notin Cursors
  BY NumCursorsAssumption DEF None, Cursors
<1>1. CASE RxTakeEvent
  BY <1>0, <1>1 DEF RxTakeEvent, netVars, appVars, txVars, RxStates
<1>2. CASE RxTakePipe
  <2>1. Head(rxPipe) \in Cursors /\ Tail(rxPipe) \in Seq(Cursors)
    BY <1>2 DEF RxTakePipe
  <2> QED
    BY <1>0, <1>2, <2>1 DEF RxTakePipe, netVars, appVars, txVars, RxStates
<1>3. CASE RxRecv
  <2>1. cursor \in Cursors /\ rxpc = "taken"
    BY <1>3 DEF RxRecv
  <2>2. /\ data' \in [Cursors -> Seq(Units)]
        /\ header' \in [Cursors -> Cursors \cup {None}]
        /\ rxpc' \in {"process", "aborted"}
    BY <1>3, <2>1, ReceiveType DEF RxRecv
  <2>9. responseCount' \in Int /\ stage' \in [Cursors -> {"SCHEDULE", "RECEIVE"}]
    BY <1>3, <2>1 DEF RxRecv
  <2>10. sock' \in Seq(Bytes)
    BY <1>3 DEF RxRecv
  <2> QED
    BY <1>3, <2>1, <2>2, <2>9, <2>10 DEF RxRecv, appVars, txVars, RxStates
<1>4. CASE CTCursorAsyncRecv
  <2>1. cursor \in Cursors
    BY <1>4 DEF CTCursorAsyncRecv
  <2> QED
    BY <1>4, <2>1 DEF CTCursorAsyncRecv, netVars, appVars, txVars, RxStates
<1>5. CASE RxClose
  <2>1. cursor \in Cursors
    BY <1>5 DEF RxClose
  <2>2. Callback(cursor) \in Callbacks
    BY <1>5, <2>1, CallbackType DEF RxClose
  <2>3. delivered' \in Seq(Callbacks)
    BY <1>5, <2>2 DEF RxClose
  <2>4. responseCount' \in Int
    BY <1>5 DEF RxClose
  <2> QED
    BY <1>5, <2>3, <2>4 DEF RxClose, netVars, appVars, txVars, RxStates
<1>6. CASE RxCloseAndSwitch
  <2> DEFINE next == Head(rxPipe)
             over == Overlap(cursor)
             end  == HeaderEnd(over)
             body == IF end = 0 THEN <<>> ELSE SubSeq(over, end + 1, Len(over))
             more == IF end = 0 THEN Len(over) ELSE Len(body)
  <2>1. cursor \in Cursors /\ next \in Cursors /\ rxPipe' \in Seq(Cursors)
    BY <1>6 DEF RxCloseAndSwitch
  <2>2. Callback(cursor) \in Callbacks /\ over \in Seq(Units)
    BY <1>6, <2>1, CallbackType DEF RxCloseAndSwitch
  <2>3. end \in 0 .. Len(over)
    BY <2>2, HeaderEndRange
  <2>4. body \in Seq(Units)
    BY <2>2, <2>3, SubSeqType
  <2>5. end # 0 => over[end].req \in Cursors \cup {None}
    BY <2>2, OriginType
  <2>6. /\ data' = [data EXCEPT ![next] = body]
        /\ header' = [header EXCEPT ![next] = IF end = 0 THEN None ELSE over[end].req]
        /\ cursor' = IF more > 0 THEN next ELSE None
        /\ rxpc' = IF more > 0 THEN "process" ELSE "top"
        /\ rxQueue' = (rxQueue \cup (IF more > 0 THEN {} ELSE {next})) \ {cursor}
    BY <1>6 DEF RxCloseAndSwitch
  <2>7. delivered' \in Seq(Callbacks) /\ responseCount' \in Int
    BY <1>6, <2>2 DEF RxCloseAndSwitch
  <2>10. UNCHANGED <<appVars, txVars, netVars, stage>>
    BY <1>6 DEF RxCloseAndSwitch
  <2> HIDE DEF next, over, end, body, more
  <2>8. data' \in [Cursors -> Seq(Units)] /\ header' \in [Cursors -> Cursors \cup {None}]
    BY <2>1, <2>4, <2>5, <2>6
  <2>9. rxQueue' \subseteq Cursors /\ RxHasCursor'
    BY <1>0, <2>1, <2>6
  <2> QED
    BY <2>1, <2>6, <2>7, <2>8, <2>9, <2>10 DEF netVars, appVars, txVars, RxStates
<1> QED
  BY <1>1, <1>2, <1>3, <1>4, <1>5, <1>6 DEF RxThread

\* The other threads, the server and the network.
LEMMA TypeInvOthers ==
  ASSUME TypeInv, CTCursorSendOnQueue \/ TxThread \/ Network
  PROVE  TypeInv'
<1>1. TypeOK' /\ UNCHANGED rxVars
  BY TypeTx, TypeNetwork DEF TypeInv
<1> QED
  BY <1>1 DEF TypeInv, RxHasCursor, rxVars

LEMMA TypeInvStep == TypeInv /\ [Next]_vars => TypeInv'
<1> SUFFICES ASSUME TypeInv, [Next]_vars PROVE TypeInv'
  OBVIOUS
<1>1. CASE UNCHANGED vars
  BY <1>1 DEF TypeInv, TypeOK, RxHasCursor, vars, appVars, txVars, netVars, rxVars
<1>2. CASE Finished
  BY <1>1, <1>2 DEF Finished
<1> QED
  BY <1>1, <1>2, TypeInvOthers, TypeInvRx DEF Next

\* Whatever the threads, the server and the network do, every queue and buffer
\* holds what its type says: no cursor is invented and no header points outside
\* its buffer.
THEOREM TypeCorrect == Spec => []TypeOK
<1>1. TypeInv => TypeOK
  BY DEF TypeInv
<1> QED
  BY TypeInvInit, TypeInvStep, <1>1, PTL DEF Spec
-----------------------------------------------------------------------------
(***************************************************************************)
(* The order of the cursors.                                               *)
(***************************************************************************)

\* A cursor the rx thread has not held yet is still to be scheduled.
FreshStage == \A c \in Cursors : c > LastHeld => stage[c] = "SCHEDULE"

IInv == TypeInv /\ CursorOrder /\ ResponseCountExact /\ FreshStage

\* Taking the first element, and appending the next one.
LEMMA ContinuesTail ==
  ASSUME NEW s \in Seq(Cursors), NEW k \in Nat, ContinuesFrom(s, k), s # <<>>
  PROVE  Head(s) = k + 1 /\ ContinuesFrom(Tail(s), k + 1) /\ Len(s) = Len(Tail(s)) + 1
<1>1. Len(s) \in Nat /\ Len(s) >= 1
  OBVIOUS
<1>2. Head(s) = s[1] /\ Len(Tail(s)) = Len(s) - 1
  BY <1>1
<1>3. \A i \in 1 .. Len(Tail(s)) : Tail(s)[i] = s[i + 1]
  BY <1>1
<1>4. \A i \in 1 .. Len(s) : s[i] = k + i
  BY DEF ContinuesFrom
<1>5. \A i \in 1 .. Len(Tail(s)) : Tail(s)[i] = (k + 1) + i
  BY <1>1, <1>2, <1>3, <1>4
<1> QED
  BY <1>1, <1>2, <1>4, <1>5 DEF ContinuesFrom

LEMMA ContinuesAppend ==
  ASSUME NEW s \in Seq(Cursors), NEW k \in Nat, ContinuesFrom(s, k)
  PROVE  /\ ContinuesFrom(Append(s, k + Len(s) + 1), k)
         /\ Len(Append(s, k + Len(s) + 1)) = Len(s) + 1
BY DEF ContinuesFrom

LEMMA IInvInit == Init => IInv
<1> SUFFICES ASSUME Init PROVE IInv
  OBVIOUS
<1>1. Held = {} /\ LastHeld = 0 /\ LastPiped = 0 /\ LastTaken = 0
  BY DEF Init, Held, LastHeld, LastPiped, LastTaken
<1>2. CursorOrder
  BY <1>1 DEF Init, CursorOrder, ContinuesFrom
<1>3. ResponseCountExact /\ FreshStage
  BY <1>1 DEF Init, ResponseCountExact, FreshStage
<1> QED
  BY <1>2, <1>3, TypeInvInit DEF IInv

\* The numbers are numbers.
LEMMA LastTypes ==
  ASSUME TypeOK
  PROVE  LastHeld \in Nat /\ LastPiped \in Nat /\ LastTaken \in Nat
<1>1. Len(delivered) \in Nat /\ Len(rxPipe) \in Nat
  BY DEF TypeOK
<1>2. LastHeld \in Nat
  BY <1>1 DEF LastHeld
<1>3. LastPiped \in Nat
  BY <1>1, <1>2 DEF LastPiped
<1> QED
  BY <1>2, <1>3 DEF LastTaken

\* A step that leaves the rx thread alone.
LEMMA RxUntouched ==
  ASSUME UNCHANGED rxVars, ResponseCountExact, FreshStage
  PROVE  /\ Held' = Held /\ LastHeld' = LastHeld
         /\ ResponseCountExact' /\ FreshStage'
BY DEF rxVars, Held, LastHeld, ResponseCountExact, FreshStage

LEMMA IInvTx ==
  ASSUME IInv, CTCursorSendOnQueue \/ TxThread
  PROVE  IInv'
<1>0. TypeInv'
  BY TypeInvOthers DEF IInv
<1>t. /\ TypeOK /\ LastHeld \in Nat /\ LastPiped \in Nat /\ LastTaken \in Nat
      /\ None \notin Cursors
  BY LastTypes, NumCursorsAssumption DEF IInv, TypeInv, None, Cursors
<1>r. /\ UNCHANGED <<rxVars, delivered, cursor, rxQueue>>
      /\ Held' = Held /\ LastHeld' = LastHeld /\ ResponseCountExact' /\ FreshStage'
  BY RxUntouched DEF IInv, TxThread, CTCursorSendOnQueue, TxSend, CTCursorRecvOnQueue,
     rxVars
<1>1. CASE CTCursorSendOnQueue
  <2>1. UNCHANGED <<rxPipe, txCursor, LastPiped, LastTaken>>
    BY <1>1, <1>r DEF CTCursorSendOnQueue, LastPiped, LastTaken
  <2>2. queryCount + 1 = LastTaken + Len(txQueue) + 1
    BY DEF IInv, CursorOrder
  <2>3. ContinuesFrom(txQueue, LastTaken) /\ txQueue \in Seq(Cursors)
    BY <1>t DEF IInv, CursorOrder, TypeOK
  <2>4. ContinuesFrom(txQueue', LastTaken) /\ Len(txQueue') = Len(txQueue) + 1
    BY <1>1, <1>t, <2>2, <2>3, ContinuesAppend DEF CTCursorSendOnQueue
  <2>5. queryCount' = LastTaken + Len(txQueue')
    BY <1>1, <1>t, <2>2, <2>3, <2>4 DEF CTCursorSendOnQueue
  <2> QED
    BY <1>0, <1>r, <2>1, <2>4, <2>5 DEF IInv, CursorOrder
<1>2. CASE TxSend
  <2>1. UNCHANGED <<rxPipe, queryCount, LastPiped>>
    BY <1>2, <1>r DEF TxSend, appVars, LastPiped
  <2>2. txCursor = None /\ LastTaken = LastPiped
    BY <1>2, <1>t DEF TxSend, LastTaken
  <2>3. /\ Head(txQueue) = LastPiped + 1
        /\ ContinuesFrom(Tail(txQueue), LastPiped + 1)
        /\ Len(txQueue) = Len(Tail(txQueue)) + 1
        /\ Tail(txQueue) \in Seq(Cursors)
    BY <1>2, <1>t, <2>2, ContinuesTail DEF IInv, CursorOrder, TypeOK, TxSend
  <2>4. txCursor' = LastPiped + 1 /\ txQueue' = Tail(txQueue)
    BY <1>2, <2>3 DEF TxSend
  <2>5. LastTaken' = LastPiped + 1
    BY <1>t, <2>1, <2>4 DEF LastTaken, None
  <2>6. queryCount' = LastTaken' + Len(txQueue')
    BY <1>t, <2>1, <2>2, <2>3, <2>4, <2>5 DEF IInv, CursorOrder
  <2> QED
    BY <1>0, <1>r, <2>1, <2>3, <2>4, <2>5, <2>6 DEF IInv, CursorOrder
<1>3. CASE CTCursorRecvOnQueue
  <2>1. UNCHANGED <<txQueue, queryCount>>
    BY <1>3 DEF CTCursorRecvOnQueue, appVars
  <2>2. txCursor = LastHeld + Len(rxPipe) + 1 /\ txCursor' = None
    BY <1>3 DEF CTCursorRecvOnQueue, IInv, CursorOrder, LastPiped
  <2>3. ContinuesFrom(rxPipe', LastHeld) /\ Len(rxPipe') = Len(rxPipe) + 1
    BY <1>3, <1>t, <2>2, ContinuesAppend
    DEF CTCursorRecvOnQueue, IInv, CursorOrder, TypeOK
  <2>4. LastTaken' = LastTaken
    BY <1>3, <1>r, <1>t, <2>2, <2>3
    DEF CTCursorRecvOnQueue, LastPiped, LastTaken, TypeOK
  <2> QED
    BY <1>0, <1>r, <2>1, <2>2, <2>3, <2>4 DEF IInv, CursorOrder
<1> QED
  BY <1>1, <1>2, <1>3 DEF TxThread

LEMMA IInvNetwork ==
  ASSUME IInv, Network
  PROVE  IInv'
<1>1. TypeInv'
  BY TypeInvOthers DEF IInv
<1>2. UNCHANGED <<rxVars, appVars, txVars, rxPipe>>
  BY DEF Network, Answer, Deliver
<1>3. Held' = Held /\ LastHeld' = LastHeld /\ ResponseCountExact' /\ FreshStage'
  BY <1>2, RxUntouched DEF IInv
<1>4. CursorOrder'
  BY <1>2, <1>3
  DEF IInv, CursorOrder, LastPiped, LastTaken, rxVars, appVars, txVars
<1> QED
  BY <1>1, <1>3, <1>4 DEF IInv

\* A step of the rx thread that takes nothing from the pipe disturbs neither
\* what is behind LastHeld nor, when LastHeld stays, the stages behind it.
LEMMA BehindUntouched ==
  ASSUME UNCHANGED <<txQueue, txCursor, queryCount, rxPipe>>, LastHeld' = LastHeld,
         CursorOrder
  PROVE  /\ ContinuesFrom(rxPipe, LastHeld)'
         /\ (txCursor \in {None, LastPiped + 1})'
         /\ ContinuesFrom(txQueue, LastTaken)'
         /\ (queryCount = LastTaken + Len(txQueue))'
BY DEF CursorOrder, LastPiped, LastTaken

\* The rx thread holds its cursor and no other.
LEMMA CursorHeld ==
  ASSUME IInv, rxpc # "top"
  PROVE  /\ cursor \in Cursors /\ rxQueue = {} /\ Held = {cursor}
         /\ LastHeld = Len(delivered) + 1 /\ cursor = LastHeld
<1>1. cursor \in Cursors /\ cursor # None
  BY DEF IInv, TypeInv, RxHasCursor, TypeOK
<1>2. rxQueue = {} /\ Held = {cursor}
  BY <1>1 DEF IInv, CursorOrder, Held
<1>3. LastHeld = Len(delivered) + 1
  BY <1>2 DEF LastHeld
<1>4. cursor = LastHeld
  BY <1>2 DEF IInv, CursorOrder
<1> QED
  BY <1>1, <1>2, <1>3, <1>4

LEMMA IInvTakeEvent ==
  ASSUME IInv, RxTakeEvent
  PROVE  IInv'
<1>1. TypeInv'
  BY TypeInvRx DEF IInv, RxThread
<1>2. PICK c \in rxQueue : cursor' = c /\ rxQueue' = rxQueue \ {c}
  BY DEF RxTakeEvent
<1>3. None \notin Cursors /\ c \in Cursors
  BY <1>2, NumCursorsAssumption DEF None, Cursors, IInv, TypeInv, TypeOK
<1>4. cursor = None /\ rxQueue = {c} /\ Held = {c} /\ Held' = {c} /\ rxQueue' = {}
  BY <1>2, <1>3
  DEF RxTakeEvent, IInv, TypeInv, RxHasCursor, CursorOrder, Held
<1>5. LastHeld' = LastHeld
  BY <1>4 DEF RxTakeEvent, LastHeld
<1>6. CursorOrder'
  BY <1>4, <1>5, BehindUntouched DEF RxTakeEvent, IInv, CursorOrder, appVars, txVars
<1>7. ResponseCountExact' /\ FreshStage'
  BY <1>4, <1>5 DEF RxTakeEvent, IInv, ResponseCountExact, FreshStage
<1> QED
  BY <1>1, <1>6, <1>7 DEF IInv

LEMMA IInvTakePipe ==
  ASSUME IInv, RxTakePipe
  PROVE  IInv'
<1>1. TypeInv'
  BY TypeInvRx DEF IInv, RxThread
<1>2. /\ TypeOK /\ LastHeld \in Nat /\ LastPiped \in Nat /\ Len(delivered) \in Nat
      /\ None \notin Cursors
  <2>1. TypeOK /\ None \notin Cursors
    BY NumCursorsAssumption DEF None, Cursors, IInv, TypeInv
  <2>2. Len(delivered) \in Nat
    BY <2>1 DEF TypeOK
  <2> QED
    BY <2>1, <2>2, LastTypes
<1>3. cursor = None /\ Held = {} /\ LastHeld = Len(delivered)
  BY <1>2 DEF RxTakePipe, IInv, TypeInv, RxHasCursor, Held, LastHeld
<1>4. /\ Head(rxPipe) = LastHeld + 1 /\ ContinuesFrom(Tail(rxPipe), LastHeld + 1)
      /\ Len(rxPipe) = Len(Tail(rxPipe)) + 1 /\ Tail(rxPipe) \in Seq(Cursors)
      /\ Head(rxPipe) \in Cursors
  BY <1>2, ContinuesTail DEF RxTakePipe, IInv, CursorOrder, TypeOK
<1>5. Held' = {cursor'} /\ cursor' = LastHeld + 1 /\ LastHeld' = LastHeld + 1
  BY <1>2, <1>3, <1>4 DEF RxTakePipe, Held, LastHeld, None
<1>6. LastPiped' = LastPiped
  BY <1>2, <1>4, <1>5 DEF RxTakePipe, LastPiped
<1>7. LastTaken' = LastTaken
  BY <1>6 DEF RxTakePipe, LastTaken, txVars
<1>8. CursorOrder'
  BY <1>4, <1>5, <1>6, <1>7 DEF RxTakePipe, IInv, CursorOrder, appVars, txVars
<1>9. ResponseCountExact'
  <2>1. responseCount' = 0
    BY <1>3 DEF RxTakePipe, IInv, ResponseCountExact
  <2>2. cursor' \in Cursors /\ stage'[cursor'] = "SCHEDULE"
    BY <1>2, <1>4, <1>5 DEF RxTakePipe, IInv, FreshStage
  <2> QED
    BY <2>1, <2>2 DEF RxTakePipe, ResponseCountExact
<1>10. FreshStage'
  BY <1>2, <1>5 DEF RxTakePipe, IInv, FreshStage, Cursors
<1> QED
  BY <1>1, <1>8, <1>9, <1>10 DEF IInv

\* The rx thread has received bytes for its cursor, which is counted once.
LEMMA IInvReceived ==
  ASSUME IInv, TypeInv', rxpc = "taken",
         UNCHANGED <<appVars, txVars, rxPipe, rxQueue, cursor, delivered>>,
         stage' = [stage EXCEPT ![cursor] = "RECEIVE"],
         responseCount' =
           IF stage[cursor] = "SCHEDULE" /\ ~(responseCount > 0)
           THEN responseCount + 1 ELSE responseCount
  PROVE  IInv'
<1>1. /\ cursor \in Cursors /\ rxQueue = {} /\ Held = {cursor}
      /\ LastHeld = Len(delivered) + 1 /\ cursor = LastHeld
  BY CursorHeld
<1>2. Held' = Held /\ LastHeld' = LastHeld
  BY DEF Held, LastHeld
<1>3. CursorOrder'
  BY <1>1, <1>2, BehindUntouched DEF IInv, CursorOrder, appVars, txVars
<1>4. responseCount' = 1
  BY <1>1 DEF IInv, ResponseCountExact
<1>5. ResponseCountExact'
  BY <1>1, <1>2, <1>4 DEF ResponseCountExact
<1>6. FreshStage'
  <2>1. stage \in [Cursors -> {"SCHEDULE", "RECEIVE"}]
    BY DEF IInv, TypeInv, TypeOK
  <2>2. \A c \in Cursors : c > LastHeld => c # cursor
    BY <1>1 DEF Cursors
  <2> QED
    BY <1>2, <2>1, <2>2 DEF IInv, FreshStage
<1> QED
  BY <1>3, <1>5, <1>6 DEF IInv

LEMMA IInvRecv ==
  ASSUME IInv, RxRecv
  PROVE  IInv'
<1>1. TypeInv'
  BY TypeInvRx DEF IInv, RxThread
<1> QED
  BY <1>1, IInvReceived DEF RxRecv

\* The rx thread asks to be woken with its cursor, once it has counted it.
LEMMA IInvAsked ==
  ASSUME IInv, TypeInv', rxpc \notin {"top", "taken"}, rxpc' = "top",
         rxQueue' = rxQueue \cup {cursor}, cursor' = None,
         UNCHANGED <<appVars, txVars, rxPipe, responseCount, stage, delivered>>
  PROVE  IInv' /\ Held' = Held
<1>1. cursor \in Cursors /\ rxQueue = {} /\ Held = {cursor} /\ cursor = LastHeld
  BY CursorHeld
<1>2. Held' = Held
  BY <1>1 DEF Held
<1>3. LastHeld' = LastHeld
  BY <1>2 DEF LastHeld
<1>4. CursorOrder'
  BY <1>1, <1>2, <1>3, BehindUntouched DEF IInv, CursorOrder, appVars, txVars
<1>5. ResponseCountExact' /\ FreshStage'
  BY <1>2, <1>3 DEF IInv, ResponseCountExact, FreshStage
<1> QED
  BY <1>2, <1>4, <1>5 DEF IInv

LEMMA IInvAsyncRecv ==
  ASSUME IInv, CTCursorAsyncRecv
  PROVE  IInv'
<1>1. TypeInv'
  BY TypeInvRx DEF IInv, RxThread
<1>2. rxpc \notin {"top", "taken"}
  BY DEF CTCursorAsyncRecv
<1> QED
  BY <1>1, <1>2, IInvAsked DEF CTCursorAsyncRecv

\* A callback for the cursor held is the next one.
LEMMA NextCallback ==
  ASSUME IInv, rxpc = "process", delivered' = Append(delivered, Callback(cursor))
  PROVE  /\ Len(delivered') = LastHeld
         /\ \A i \in 1 .. Len(delivered') : delivered'[i].cursor = i
<1>1. LastHeld = Len(delivered) + 1 /\ cursor = LastHeld /\ cursor \in Cursors
  BY CursorHeld
<1>2. delivered \in Seq(Callbacks)
  BY DEF IInv, TypeInv, TypeOK
<1>3. Len(delivered') = LastHeld /\ Len(delivered) \in Nat
  BY <1>1, <1>2
<1>4. \A i \in 1 .. Len(delivered) : delivered[i].cursor = i
  BY DEF IInv, CursorOrder
<1>5. ASSUME NEW i \in 1 .. Len(delivered')
      PROVE  delivered'[i].cursor = i
  <2>1. CASE i = LastHeld
    <3>1. delivered'[i] = Callback(cursor)
      BY <1>1, <1>2, <1>3, <2>1
    <3> QED
      BY <1>1, <2>1, <3>1 DEF Callback
  <2>2. CASE i # LastHeld
    <3>1. i \in 1 .. Len(delivered)
      BY <1>1, <1>3, <2>2
    <3>2. delivered'[i] = delivered[i]
      BY <1>2, <3>1
    <3> QED
      BY <1>4, <3>1, <3>2
  <2> QED
    BY <2>1, <2>2
<1> QED
  BY <1>3, <1>5

LEMMA IInvClose ==
  ASSUME IInv, RxClose
  PROVE  IInv'
<1>1. TypeInv'
  BY TypeInvRx DEF IInv, RxThread
<1>2. /\ rxpc = "process" /\ rxpc' = "top"
      /\ delivered' = Append(delivered, Callback(cursor))
      /\ responseCount' = responseCount - 1
      /\ rxQueue' = rxQueue \ {cursor} /\ cursor' = None
      /\ UNCHANGED <<appVars, txVars, rxPipe, stage>>
  BY DEF RxClose
<1>3. cursor \in Cursors /\ rxQueue = {} /\ Held = {cursor} /\ cursor = LastHeld
  BY <1>2, CursorHeld
<1>4. Held' = {} /\ rxQueue' = {}
  BY <1>2, <1>3 DEF Held
<1>5. Len(delivered') = LastHeld /\ \A i \in 1 .. Len(delivered') : delivered'[i].cursor = i
  BY <1>2, NextCallback
<1>6. LastHeld' = LastHeld
  BY <1>3, <1>4, <1>5 DEF LastHeld, Cursors
<1>7. CursorOrder'
  BY <1>2, <1>4, <1>5, <1>6, BehindUntouched DEF IInv, CursorOrder, appVars, txVars
<1>8. responseCount' = 0
  BY <1>2 DEF IInv, ResponseCountExact
<1>9. ResponseCountExact' /\ FreshStage'
  BY <1>2, <1>4, <1>6, <1>8 DEF IInv, ResponseCountExact, FreshStage
<1> QED
  BY <1>1, <1>7, <1>9 DEF IInv

\* The rx thread hands over from a complete cursor to the next in rxPipe.
LEMMA IInvHandover ==
  ASSUME IInv, TypeInv', NEW next, next = Head(rxPipe),
         rxpc = "process", rxPipe # <<>>, rxPipe' = Tail(rxPipe),
         delivered' = Append(delivered, Callback(cursor)),
         responseCount' = (responseCount + 1) - 1,
         UNCHANGED <<appVars, txVars, stage>>,
         \/ cursor' = next /\ rxQueue' = (rxQueue \cup {}) \ {cursor}
         \/ cursor' = None /\ rxQueue' = (rxQueue \cup {next}) \ {cursor}
  PROVE  IInv' /\ Held' = {next}
<1>1. /\ cursor \in Cursors /\ rxQueue = {} /\ Held = {cursor}
      /\ cursor = LastHeld /\ LastHeld \in Nat
  BY CursorHeld DEF Cursors
<1>2. /\ next = LastHeld + 1 /\ ContinuesFrom(Tail(rxPipe), LastHeld + 1)
      /\ Len(rxPipe) = Len(Tail(rxPipe)) + 1 /\ Tail(rxPipe) \in Seq(Cursors)
  BY <1>1, ContinuesTail DEF IInv, TypeInv, TypeOK, CursorOrder
<1>3. /\ Held' = {next} /\ (cursor' # None => rxQueue' = {})
  BY <1>1, <1>2 DEF Held, None
<1>4. Len(delivered') = LastHeld /\ \A i \in 1 .. Len(delivered') : delivered'[i].cursor = i
  BY NextCallback
<1>5. LastHeld' = LastHeld + 1
  BY <1>3, <1>4 DEF LastHeld
<1>6. LastPiped' = LastPiped
  <2>1. Len(Tail(rxPipe)) \in Nat
    BY <1>2
  <2> QED
    BY <1>1, <1>2, <1>5, <2>1 DEF LastPiped
<1>7. LastTaken' = LastTaken
  BY <1>6 DEF LastTaken, txVars
<1>8. CursorOrder'
  BY <1>2, <1>3, <1>4, <1>5, <1>6, <1>7 DEF IInv, CursorOrder, appVars, txVars
<1>9. responseCount = 1
  BY DEF IInv, ResponseCountExact
<1>10. ResponseCountExact'
  <2>1. responseCount' = 1
    BY <1>9
  <2>2. Held' # {}
    BY <1>3
  <2> QED
    BY <2>1, <2>2 DEF ResponseCountExact
<1>11. FreshStage'
  BY <1>1, <1>5 DEF IInv, FreshStage, Cursors
<1> QED
  BY <1>3, <1>8, <1>10, <1>11 DEF IInv

LEMMA IInvCloseAndSwitch ==
  ASSUME IInv, RxCloseAndSwitch
  PROVE  IInv'
<1> DEFINE next == Head(rxPipe)
<1>1. TypeInv'
  BY TypeInvRx DEF IInv, RxThread
<1>2. /\ rxpc = "process" /\ rxPipe # <<>> /\ rxPipe' = Tail(rxPipe)
      /\ delivered' = Append(delivered, Callback(cursor))
      /\ responseCount' = (responseCount + 1) - 1
      /\ UNCHANGED <<appVars, txVars, stage>>
  BY DEF RxCloseAndSwitch
<1>3. \/ cursor' = next /\ rxQueue' = (rxQueue \cup {}) \ {cursor}
      \/ cursor' = None /\ rxQueue' = (rxQueue \cup {next}) \ {cursor}
  BY DEF RxCloseAndSwitch
<1> QED
  BY <1>1, <1>2, <1>3, IInvHandover

LEMMA IInvStep == IInv /\ [Next]_vars => IInv'
<1> SUFFICES ASSUME IInv, [Next]_vars PROVE IInv'
  OBVIOUS
<1>1. CASE UNCHANGED vars
  <2>1. TypeInv'
    BY <1>1, TypeInvStep DEF IInv
  <2>2. UNCHANGED <<rxVars, appVars, txVars, rxPipe>>
    BY <1>1 DEF vars
  <2>3. Held' = Held /\ LastHeld' = LastHeld /\ ResponseCountExact' /\ FreshStage'
    BY <2>2, RxUntouched DEF IInv
  <2>4. CursorOrder'
    BY <2>2, <2>3
    DEF IInv, CursorOrder, LastPiped, LastTaken, rxVars, appVars, txVars
  <2> QED
    BY <2>1, <2>3, <2>4 DEF IInv
<1>2. CASE Finished
  BY <1>1, <1>2 DEF Finished
<1>3. CASE RxThread
  BY <1>3, IInvTakeEvent, IInvTakePipe, IInvRecv, IInvAsyncRecv, IInvClose,
     IInvCloseAndSwitch DEF RxThread
<1> QED
  BY <1>1, <1>2, <1>3, IInvTx, IInvNetwork DEF Next

LEMMA Invariance == Spec => []IInv
BY IInvInit, IInvStep, PTL DEF Spec

\* No interleaving of the application, the two threads and the network loses,
\* doubles or reorders a cursor on its way through the queue, the pipe and the
\* rx thread: for any number of cursors, and even where the server outruns the
\* tx thread or headers arrive in pieces.
THEOREM CursorsInOrder == Spec => []CursorOrder
<1>1. IInv => CursorOrder
  BY DEF IInv
<1> QED
  BY Invariance, <1>1, PTL

\* responseCount counts the cursor being received, so the code's assertion that
\* it stays above -1 never fails, and no cursor is counted twice when one
\* response hands over to the next.
THEOREM ResponsesCounted == Spec => []ResponseCountExact
<1>1. IInv => ResponseCountExact
  BY DEF IInv
<1> QED
  BY Invariance, <1>1, PTL
-----------------------------------------------------------------------------
(***************************************************************************)
(* Streams of responses.                                                   *)
(***************************************************************************)

\* A set of natural numbers has a smallest one.
LEMMA LeastNatural ==
  ASSUME NEW D, D \subseteq Nat, D # {}
  PROVE  \E m \in D : \A n \in D : m <= n
<1> DEFINE R == {ss \in Nat \X Nat : ss[1] < ss[2]}
<1>1. IsWellFoundedOn(R, Nat)
  BY NatLessThanWellFounded DEF OpToRel
<1>2. PICK m \in D : \A n \in D : <<n, m>> \notin R
  <2> HIDE DEF R
  <2> QED
    BY <1>1, WFMin
<1>3. \A n \in D : ~(n < m)
  BY <1>2
<1> QED
  BY <1>3

\* One sequence behind another.
LEMMA Joined ==
  ASSUME NEW S, NEW s \in Seq(S), NEW t \in Seq(S)
  PROVE  /\ s \o t \in Seq(S) /\ Len(s \o t) = Len(s) + Len(t)
         /\ Len(s) \in Nat /\ Len(t) \in Nat
         /\ \A i \in 1 .. Len(s) : (s \o t)[i] = s[i]
         /\ \A i \in 1 .. Len(t) : (s \o t)[Len(s) + i] = t[i]
OBVIOUS

\* A sequence cut in two, and put together again.
LEMMA CutInTwo ==
  ASSUME NEW S, NEW s \in Seq(S), NEW n \in 0 .. Len(s)
  PROVE  /\ SubSeq(s, 1, n) \in Seq(S) /\ SubSeq(s, n + 1, Len(s)) \in Seq(S)
         /\ Len(SubSeq(s, 1, n)) = n /\ Len(SubSeq(s, n + 1, Len(s))) = Len(s) - n
         /\ \A i \in 1 .. n : SubSeq(s, 1, n)[i] = s[i]
         /\ \A i \in 1 .. (Len(s) - n) : SubSeq(s, n + 1, Len(s))[i] = s[n + i]
         /\ Len(s) \in Nat /\ n \in Nat /\ n <= Len(s)
         /\ SubSeq(s, 1, n) \o SubSeq(s, n + 1, Len(s)) = s
<1> DEFINE a == SubSeq(s, 1, n)
           b == SubSeq(s, n + 1, Len(s))
           w == a \o b
<1>1. Len(s) \in Nat /\ n \in Nat /\ n <= Len(s)
  OBVIOUS
<1>2. a \in Seq(S) /\ b \in Seq(S)
  BY <1>1, SubSeqType
<1>3. Len(a) = n /\ Len(b) = Len(s) - n
  BY <1>1
<1>4. (\A i \in 1 .. n : a[i] = s[i]) /\ (\A i \in 1 .. (Len(s) - n) : b[i] = s[n + i])
  BY <1>1
<1>5. w \in Seq(S) /\ Len(w) = Len(a) + Len(b)
  BY <1>2, Joined
<1> HIDE DEF a, b
<1>6. ASSUME NEW i \in 1 .. Len(s) PROVE w[i] = s[i]
  <2>1. CASE i <= n
    <3>1. i \in 1 .. n /\ i \in 1 .. Len(a)
      BY <1>1, <1>3, <2>1
    <3>2. w[i] = a[i]
      BY <1>2, <3>1, Joined
    <3> QED
      BY <1>4, <3>1, <3>2
  <2>2. CASE i > n
    <3> DEFINE j == i - n
    <3>1. j \in 1 .. (Len(s) - n) /\ j \in 1 .. Len(b) /\ i = n + j /\ i = Len(a) + j
      BY <1>1, <1>3, <2>2
    <3> HIDE DEF j
    <3>2. w[Len(a) + j] = b[j]
      BY <1>2, <3>1, Joined
    <3> QED
      BY <1>4, <3>1, <3>2
  <2>3. i <= n \/ i > n
    BY <1>1
  <2> QED
    BY <2>1, <2>2, <2>3
<1> HIDE DEF w
<1>7. Len(w) = Len(s)
  BY <1>1, <1>3, <1>5
<1>8. w = s
  BY <1>5, <1>6, <1>7, SeqEqual
<1> QED
  BY <1>1, <1>2, <1>3, <1>4, <1>8 DEF a, b, w

\* The length of the response to request c.
Size(c) == HeaderLen + bodyLen[c]

LEMMA SizeType ==
  ASSUME TypeOK, NEW c \in Cursors
  PROVE  /\ Size(c) \in Nat /\ bodyLen[c] \in Nat /\ HeaderLen \in Nat
         /\ Size(c) >= HeaderLen /\ HeaderLen >= 1 /\ Size(c) = HeaderLen + bodyLen[c]
<1>1. bodyLen[c] \in Nat
  BY LengthAssumption DEF TypeOK
<1> QED
  BY <1>1, LengthAssumption DEF Size

\* s begins with the response to r, as far as it goes; its bytes are in order
\* within each response.
InResponses(r, s) ==
  /\ s # <<>> => s[1] = [req |-> r, pos |-> 1]
  /\ \A i \in 1 .. (Len(s) - 1) :
       s[i].pos < Size(s[i].req) => s[i + 1] = [s[i] EXCEPT !.pos = @ + 1]

LEMMA ResponseElement ==
  ASSUME TypeOK, NEW r \in Cursors, NEW s \in Seq(Units), InResponses(r, s),
         NEW i \in 1 .. Len(s), i <= Size(r)
  PROVE  s[i] = [req |-> r, pos |-> i]
<1> DEFINE D == {n \in 1 .. Len(s) : n <= Size(r) /\ s[n] # [req |-> r, pos |-> n]}
<1>0. Len(s) \in Nat /\ Size(r) \in Nat
  BY SizeType
<1>1. CASE D = {}
  BY <1>1
<1>2. CASE D # {}
  <2>1. D \subseteq Nat
    BY <1>0
  <2>2. PICK m \in D : \A n \in D : m <= n
    <3> HIDE DEF D
    <3> QED
      BY <1>2, <2>1, LeastNatural
  <2>3. m \in 1 .. Len(s) /\ m <= Size(r) /\ s[m] # [req |-> r, pos |-> m]
    OBVIOUS
  <2>4. m # 1
    <3>1. s # <<>>
      BY <2>3
    <3>2. s[1] = [req |-> r, pos |-> 1]
      BY <3>1 DEF InResponses
    <3> QED
      BY <2>3, <3>2
  <2>5. m - 1 \in 1 .. Len(s) /\ m - 1 < Size(r) /\ m - 1 \in 1 .. (Len(s) - 1)
    BY <1>0, <2>3, <2>4
  <2>6. s[m - 1] = [req |-> r, pos |-> m - 1]
    <3>1. m - 1 \notin D
      BY <1>0, <2>2, <2>3
    <3>2. m - 1 <= Size(r)
      BY <1>0, <2>5
    <3> QED
      BY <2>5, <3>1, <3>2
  <2>7. s[m - 1].pos < Size(s[m - 1].req)
        => s[m - 1 + 1] = [s[m - 1] EXCEPT !.pos = @ + 1]
    BY <2>5 DEF InResponses
  <2>8. m - 1 + 1 = m /\ m - 1 \in Nat
    BY <2>5
  <2>9. s[m] = [req |-> r, pos |-> m - 1 + 1]
    <3> DEFINE b == s[m - 1]
    <3>1. b.req = r /\ b.pos = m - 1 /\ [b EXCEPT !.pos = @ + 1] = [req |-> r, pos |-> m - 1 + 1]
      BY <2>6
    <3> HIDE DEF b, D
    <3> QED
      BY <2>5, <2>7, <2>8, <3>1 DEF b
  <2> QED
    BY <2>3, <2>8, <2>9
<1> QED
  BY <1>1, <1>2

\* What comes after a byte of the stream.
LEMMA FollowsByte ==
  ASSUME TypeOK, NEW r \in Cursors, NEW p \in Nat, NEW b, b = [req |-> r, pos |-> p],
         NEW n, Follows(b, n)
  PROVE  /\ p < Size(r) => n = [req |-> r, pos |-> p + 1]
         /\ p = Size(r) => n = [req |-> r + 1, pos |-> 1]
<1>1. b.req = r /\ b.pos = p /\ Size(r) \in Nat
  BY SizeType
<1>2. [b EXCEPT !.pos = @ + 1] = [req |-> r, pos |-> p + 1]
  OBVIOUS
<1> QED
  BY <1>1, <1>2 DEF Follows, Size

\* A stream begins with the bytes of its first response, in order.
LEMMA StreamElement ==
  ASSUME TypeOK, NEW r \in Cursors, NEW s \in Seq(Units), IsStreamFrom(r, s),
         NEW i \in 1 .. Len(s), i <= Size(r)
  PROVE  s[i] = [req |-> r, pos |-> i]
<1>1. InResponses(r, s)
  BY DEF InResponses, IsStreamFrom, Follows, Size
<1> QED
  BY <1>1, ResponseElement

\* Without its first response, a stream is one of the next response.
LEMMA StreamTail ==
  ASSUME TypeOK, NEW r \in Cursors, NEW s \in Seq(Units), IsStreamFrom(r, s),
         Size(r) <= Len(s)
  PROVE  IsStreamFrom(r + 1, SubSeq(s, Size(r) + 1, Len(s)))
<1> DEFINE L == Size(r)
           t == SubSeq(s, L + 1, Len(s))
<1>0. Len(s) \in Nat /\ L \in Nat /\ L >= 1 /\ L <= Len(s)
  BY SizeType
<1> HIDE DEF L
<1>1. /\ t \in Seq(Units) /\ Len(t) = Len(s) - L
      /\ \A i \in 1 .. Len(t) : t[i] = s[L + i]
  BY <1>0
<1>2. \A i \in 1 .. (Len(s) - 1) : Follows(s[i], s[i + 1])
  BY DEF IsStreamFrom
<1> HIDE DEF t
<1>3. t # <<>> => t[1] = [req |-> r + 1, pos |-> 1]
  <2> SUFFICES ASSUME t # <<>> PROVE t[1] = [req |-> r + 1, pos |-> 1]
    OBVIOUS
  <2>1. Len(t) >= 1
    BY <1>1
  <2>2. L \in 1 .. (Len(s) - 1) /\ L \in 1 .. Len(s)
    BY <1>0, <1>1, <2>1
  <2>3. Follows(s[L], s[L + 1]) /\ t[1] = s[L + 1]
    BY <1>1, <1>2, <2>1, <2>2
  <2>4. s[L] = [req |-> r, pos |-> L]
    BY <1>0, <2>2, StreamElement DEF L
  <2> QED
    BY <1>0, <2>3, <2>4, FollowsByte DEF L
<1>4. \A i \in 1 .. (Len(t) - 1) : Follows(t[i], t[i + 1])
  <2> SUFFICES ASSUME NEW i \in 1 .. (Len(t) - 1) PROVE Follows(t[i], t[i + 1])
    OBVIOUS
  <2>1. Len(t) \in Nat /\ L + i \in 1 .. (Len(s) - 1) /\ (L + i) + 1 = L + (i + 1)
        /\ i \in 1 .. Len(t) /\ i + 1 \in 1 .. Len(t)
    BY <1>0, <1>1
  <2> QED
    BY <1>1, <1>2, <2>1
<1> QED
  BY <1>3, <1>4 DEF IsStreamFrom, t, L

\* The server's response, byte by byte.
LEMMA ResponseBytes ==
  ASSUME TypeOK, NEW c \in Cursors
  PROVE  /\ Response(c) \in Seq(Bytes) /\ Len(Response(c)) = Size(c)
         /\ \A i \in 1 .. Size(c) : Response(c)[i] = [req |-> c, pos |-> i]
<1> DEFINE t == Response(c)
<1>1. t \in Seq(Bytes) /\ Size(c) \in Nat
  BY ResponseType, SizeType
<1>2. t = [p \in 1 .. Size(c) |-> [req |-> c, pos |-> p]]
  BY DEF Response, Size
<1>3. DOMAIN t = 1 .. Size(c)
  BY <1>2
<1>4. Len(t) = Size(c)
  <2> HIDE DEF t
  <2> QED
    BY <1>1, <1>3
<1> QED
  BY <1>1, <1>2, <1>4

\* A stream that ends with a response goes on with the next.
LEMMA StreamAppend ==
  ASSUME TypeOK, NEW c \in Cursors, NEW r \in Nat, NEW s \in Seq(Units), IsStreamFrom(r, s),
         s = <<>> => r = c,
         s # <<>> => /\ c - 1 \in Cursors
                     /\ s[Len(s)] = [req |-> c - 1, pos |-> Size(c - 1)],
         NEW t \in Seq(Units), Len(t) = Size(c),
         \A i \in 1 .. Size(c) : t[i] = [req |-> c, pos |-> i]
  PROVE  IsStreamFrom(r, s \o t)
<1> DEFINE u == s \o t
<1>0. Len(s) \in Nat /\ Size(c) \in Nat /\ Size(c) >= 1 /\ c \in Nat
  BY SizeType DEF Cursors
<1>1. \A i \in 1 .. Size(c) : t[i] = [req |-> c, pos |-> i]
  OBVIOUS
<1>2. /\ u \in Seq(Units) /\ Len(u) = Len(s) + Size(c)
      /\ \A i \in 1 .. Len(s) : u[i] = s[i]
      /\ \A i \in 1 .. Size(c) : u[Len(s) + i] = t[i]
  <2>1. /\ u \in Seq(Units) /\ Len(u) = Len(s) + Len(t)
        /\ \A i \in 1 .. Len(s) : u[i] = s[i]
        /\ \A i \in 1 .. Len(t) : u[Len(s) + i] = t[i]
    <3>1. u \in Seq(Units) /\ Len(u) = Len(s) + Len(t)
      BY Joined
    <3>2. \A i \in 1 .. Len(s) : u[i] = s[i]
      BY Joined
    <3>3. \A i \in 1 .. Len(t) : u[Len(s) + i] = t[i]
      BY Joined
    <3> QED
      BY <3>1, <3>2, <3>3
  <2> HIDE DEF u
  <2> QED
    BY <2>1
<1> HIDE DEF u
<1>3. u # <<>> => u[1] = [req |-> r, pos |-> 1]
  <2>1. CASE s = <<>>
    <3>1. Len(s) = 0 /\ r = c
      BY <2>1
    <3> QED
      BY <1>0, <1>1, <1>2, <3>1
  <2>2. CASE s # <<>>
    <3>1. 1 \in 1 .. Len(s)
      BY <2>2
    <3> QED
      BY <1>2, <2>2, <3>1 DEF IsStreamFrom
  <2> QED
    BY <2>1, <2>2
<1>4. ASSUME NEW i \in 1 .. (Len(u) - 1)
      PROVE  Follows(u[i], u[i + 1])
  <2>0. i \in Nat /\ i >= 1 /\ i < Len(s) + Size(c)
    BY <1>0, <1>2
  <2>1. CASE i < Len(s)
    <3>1. i \in 1 .. (Len(s) - 1) /\ i \in 1 .. Len(s) /\ i + 1 \in 1 .. Len(s)
      BY <1>0, <2>0, <2>1
    <3> QED
      BY <1>2, <3>1 DEF IsStreamFrom
  <2>2. CASE i = Len(s)
    <3>1. s # <<>> /\ i \in 1 .. Len(s)
      BY <1>0, <2>0, <2>2
    <3>2. u[i] = [req |-> c - 1, pos |-> Size(c - 1)]
      BY <1>2, <2>2, <3>1
    <3>3. u[i + 1] = [req |-> c, pos |-> 1]
      BY <1>0, <1>1, <1>2, <2>2
    <3>4. c - 1 \in Cursors /\ Size(c - 1) \in Nat /\ (c - 1) + 1 = c
      BY <1>0, <3>1, SizeType
    <3>5. u[i].req = c - 1 /\ u[i].pos = Size(c - 1)
      BY <3>2
    <3> QED
      BY <3>3, <3>4, <3>5 DEF Follows, Size
  <2>3. CASE i > Len(s)
    <3> DEFINE j == i - Len(s)
    <3>1. /\ j \in 1 .. Size(c) /\ j + 1 \in 1 .. Size(c)
          /\ i = Len(s) + j /\ i + 1 = Len(s) + (j + 1) /\ j < Size(c) /\ j \in Nat
      BY <1>0, <2>0, <2>3
    <3> HIDE DEF j
    <3>2. u[i] = [req |-> c, pos |-> j] /\ u[i + 1] = [req |-> c, pos |-> j + 1]
      BY <1>1, <1>2, <3>1
    <3>3. [u[i] EXCEPT !.pos = @ + 1] = [req |-> c, pos |-> j + 1]
      BY <3>2
    <3>4. u[i].req = c /\ u[i].pos = j
      BY <3>2
    <3> QED
      BY <3>1, <3>2, <3>3, <3>4 DEF Follows, Size
  <2> QED
    BY <1>0, <2>0, <2>1, <2>2, <2>3
<1> QED
  BY <1>3, <1>4 DEF IsStreamFrom, u

\* Without the first elements of s, s \o t is the rest of s and then t.
LEMMA TailOfFirst ==
  ASSUME NEW S, NEW s \in Seq(S), NEW t \in Seq(S), NEW n \in Nat, n <= Len(s)
  PROVE  SubSeq(s \o t, n + 1, Len(s \o t)) = SubSeq(s, n + 1, Len(s)) \o t
<1> DEFINE a == SubSeq(s \o t, n + 1, Len(s \o t))
           x == SubSeq(s, n + 1, Len(s))
<1>1. s \o t \in Seq(S) /\ Len(s \o t) = Len(s) + Len(t) /\ Len(s) \in Nat /\ Len(t) \in Nat
  BY Joined
<1>2. x \in Seq(S) /\ Len(x) = Len(s) - n /\ \A i \in 1 .. Len(x) : x[i] = s[n + i]
  BY <1>1
<1>3. /\ a \in Seq(S) /\ Len(a) = Len(s) + Len(t) - n
      /\ \A i \in 1 .. Len(a) : a[i] = (s \o t)[n + i]
  <2> DEFINE u == s \o t
  <2> HIDE DEF u
  <2>1. SubSeq(u, n + 1, Len(u)) \in Seq(S) /\ Len(SubSeq(u, n + 1, Len(u))) = Len(u) - n
        /\ \A i \in 1 .. (Len(u) - n) : SubSeq(u, n + 1, Len(u))[i] = u[n + i]
    BY <1>1 DEF u
  <2> QED
    BY <1>1, <2>1 DEF u
<1> HIDE DEF a, x
<1>4. x \o t \in Seq(S) /\ Len(x \o t) = Len(x) + Len(t)
  BY <1>2, Joined
<1>5. ASSUME NEW i \in 1 .. Len(a) PROVE a[i] = (x \o t)[i]
  <2>0. i \in Nat /\ i >= 1 /\ i <= Len(s) + Len(t) - n
    BY <1>1, <1>3
  <2>1. CASE i <= Len(x)
    <3>1. i \in 1 .. Len(x) /\ n + i \in 1 .. Len(s)
      BY <1>1, <1>2, <2>0, <2>1
    <3>2. (x \o t)[i] = x[i]
      BY <1>2, <3>1, Joined
    <3>3. (s \o t)[n + i] = s[n + i]
      BY <3>1, Joined
    <3> QED
      BY <1>2, <1>3, <3>1, <3>2, <3>3
  <2>2. CASE i > Len(x)
    <3> DEFINE j == i - Len(x)
    <3>1. j \in 1 .. Len(t) /\ i = Len(x) + j /\ n + i = Len(s) + j
      BY <1>1, <1>2, <2>0, <2>2
    <3> HIDE DEF j
    <3>2. (x \o t)[Len(x) + j] = t[j]
      BY <1>2, <3>1, Joined
    <3>3. (s \o t)[Len(s) + j] = t[j]
      BY <3>1, Joined
    <3> QED
      BY <1>3, <3>1, <3>2, <3>3
  <2> QED
    BY <1>1, <1>2, <2>0, <2>1, <2>2
<1> QED
  <2>1. Len(a) = Len(x \o t)
    BY <1>1, <1>2, <1>3, <1>4
  <2>2. a = x \o t
    BY <1>3, <1>4, <1>5, <2>1, SeqEqual
  <2> QED
    BY <2>2 DEF a, x

\* Without s and the first elements of t, s \o t is the rest of t.
LEMMA TailOfSecond ==
  ASSUME NEW S, NEW s \in Seq(S), NEW t \in Seq(S), NEW n \in Nat, n <= Len(t)
  PROVE  SubSeq(s \o t, Len(s) + n + 1, Len(s \o t)) = SubSeq(t, n + 1, Len(t))
<1> DEFINE u == s \o t
           a == SubSeq(u, Len(s) + n + 1, Len(u))
           x == SubSeq(t, n + 1, Len(t))
<1>1. u \in Seq(S) /\ Len(u) = Len(s) + Len(t) /\ Len(s) \in Nat /\ Len(t) \in Nat
      /\ \A i \in 1 .. Len(t) : u[Len(s) + i] = t[i]
  <2>1. \A i \in 1 .. Len(t) : u[Len(s) + i] = t[i]
    BY Joined
  <2> QED
    BY <2>1, Joined
<1>2. x \in Seq(S) /\ Len(x) = Len(t) - n /\ \A i \in 1 .. Len(x) : x[i] = t[n + i]
  BY <1>1
<1> HIDE DEF u
<1>3. a \in Seq(S) /\ Len(a) = Len(t) - n /\ \A i \in 1 .. Len(a) : a[i] = u[Len(s) + (n + i)]
  BY <1>1
<1>4. \A i \in 1 .. Len(a) : n + i \in 1 .. Len(t)
  BY <1>1, <1>3
<1> HIDE DEF a, x
<1>5. \A i \in 1 .. Len(a) : a[i] = x[i]
  BY <1>1, <1>2, <1>3, <1>4
<1>6. a = x
  BY <1>2, <1>3, <1>5, SeqEqual
<1> QED
  BY <1>6 DEF a, x, u

\* A header and what was behind it, put together again.
LEMMA Rejoined ==
  ASSUME TypeOK, NEW c \in Cursors, NEW s \in Seq(Units), Len(s) >= HeaderLen,
         \A i \in 1 .. HeaderLen : s[i] = [req |-> c, pos |-> i]
  PROVE  SubSeq(Response(c), 1, HeaderLen) \o SubSeq(s, HeaderLen + 1, Len(s)) = s
<1> DEFINE h == SubSeq(Response(c), 1, HeaderLen)
           x == SubSeq(s, HeaderLen + 1, Len(s))
<1>0. HeaderLen \in Nat /\ Size(c) \in Nat /\ Size(c) >= HeaderLen /\ Len(s) \in Nat
  BY SizeType
<1>1. h \in Seq(Units) /\ Len(h) = HeaderLen
      /\ \A i \in 1 .. HeaderLen : h[i] = [req |-> c, pos |-> i]
  <2> DEFINE t == Response(c)
  <2>1. /\ t \in Seq(Bytes) /\ Len(t) = Size(c)
        /\ \A i \in 1 .. Size(c) : t[i] = [req |-> c, pos |-> i]
    BY ResponseBytes
  <2> HIDE DEF t
  <2>2. /\ SubSeq(t, 1, HeaderLen) \in Seq(Bytes) /\ Len(SubSeq(t, 1, HeaderLen)) = HeaderLen
        /\ \A i \in 1 .. HeaderLen : SubSeq(t, 1, HeaderLen)[i] = t[i]
    BY <1>0, <2>1
  <2>3. SubSeq(t, 1, HeaderLen) \in Seq(Units)
    BY <2>2 DEF Units
  <2>4. \A i \in 1 .. HeaderLen : i \in 1 .. Size(c)
    BY <1>0
  <2> QED
    BY <2>1, <2>2, <2>3, <2>4 DEF t
<1>2. /\ x \in Seq(Units) /\ Len(x) = Len(s) - HeaderLen
      /\ \A i \in 1 .. Len(x) : x[i] = s[HeaderLen + i]
  BY <1>0
<1> HIDE DEF h, x
<1>3. h \o x \in Seq(Units) /\ Len(h \o x) = Len(s)
  <2>1. h \o x \in Seq(Units) /\ Len(h \o x) = Len(h) + Len(x)
    BY <1>1, <1>2, Joined
  <2> QED
    BY <1>0, <1>1, <1>2, <2>1
<1>4. ASSUME NEW i \in 1 .. Len(s) PROVE (h \o x)[i] = s[i]
  <2>1. CASE i <= HeaderLen
    <3>1. i \in 1 .. Len(h) /\ i \in 1 .. HeaderLen
      BY <1>0, <1>1, <2>1
    <3>2. (h \o x)[i] = h[i]
      BY <1>1, <1>2, <3>1, Joined
    <3> QED
      BY <1>1, <3>1, <3>2
  <2>2. CASE i > HeaderLen
    <3> DEFINE j == i - HeaderLen
    <3>1. j \in 1 .. Len(x) /\ i = HeaderLen + j
      BY <1>0, <1>2, <2>2
    <3> HIDE DEF j
    <3>2. (h \o x)[Len(h) + j] = x[j]
      BY <1>1, <1>2, <3>1, Joined
    <3> QED
      BY <1>1, <1>2, <3>1, <3>2
  <2>3. i <= HeaderLen \/ i > HeaderLen
    BY <1>0
  <2> QED
    BY <2>1, <2>2, <2>3
<1>5. h \o x = s
  BY <1>3, <1>4, SeqEqual
<1> QED
  BY <1>5 DEF h, x

\* The header of a buffer that begins with a response ends where it should.
LEMMA HeaderEndsThere ==
  ASSUME NEW r \in Cursors, NEW s \in Seq(Units), Len(s) >= HeaderLen,
         \A i \in 1 .. HeaderLen : s[i] = [req |-> r, pos |-> i]
  PROVE  HeaderEnd(s) = HeaderLen
<1>0. HeaderLen \in Nat /\ HeaderLen >= 1 /\ Len(s) \in Nat /\ Len(s) >= HeaderLen
  BY LengthAssumption
<1>1. ASSUME NEW i \in 1 .. HeaderLen PROVE s[i].pos = i
  <2>1. s[i] = [req |-> r, pos |-> i]
    OBVIOUS
  <2> QED
    BY <2>1
<1>2. HeaderEndsAt(s, HeaderLen) /\ HeaderLen \in 1 .. Len(s)
  BY <1>0, <1>1 DEF HeaderEndsAt
<1>3. ASSUME NEW i \in 1 .. Len(s), HeaderEndsAt(s, i) PROVE i = HeaderLen
  <2>1. ~(i < HeaderLen)
    BY <1>0, <1>1, <1>3 DEF HeaderEndsAt
  <2>2. ~(HeaderLen < i)
    <3> SUFFICES ASSUME HeaderLen < i PROVE FALSE
      OBVIOUS
    <3>1. HeaderLen \in 1 .. (i - 1)
      BY <1>0
    <3> QED
      BY <1>2, <1>3, <3>1 DEF HeaderEndsAt
  <2> QED
    BY <1>0, <2>1, <2>2
<1> QED
  BY <1>2, <1>3 DEF HeaderEnd

\* The bytes read of a stream hold the whole first header, where no header is
\* cut and the stream ends with a response.
LEMMA HeaderIsWhole ==
  ASSUME TypeOK, NEW r \in Cursors, NEW s \in Seq(Units), NEW rest \in Seq(Units),
         s # <<>>, IsStreamFrom(r, s \o rest),
         rest # <<>> => rest[1].pos \notin 2 .. HeaderLen,
         NEW a \in Cursors,
         rest = <<>> => s[Len(s)] = [req |-> a, pos |-> Size(a)]
  PROVE  /\ Len(s) >= HeaderLen /\ HeaderEnd(s) = HeaderLen
         /\ \A i \in 1 .. HeaderLen : s[i] = [req |-> r, pos |-> i]
<1> DEFINE u == s \o rest
<1>0. /\ HeaderLen \in Nat /\ HeaderLen >= 1
      /\ Size(r) \in Nat /\ Size(r) >= HeaderLen /\ Size(a) \in Nat /\ Size(a) >= HeaderLen
      /\ Len(s) \in Nat /\ Len(s) >= 1 /\ Len(rest) \in Nat
  <2>1. Len(s) \in Nat /\ Len(s) >= 1 /\ Len(rest) \in Nat
    OBVIOUS
  <2> QED
    BY <2>1, SizeType
<1>1. /\ u \in Seq(Units) /\ Len(u) = Len(s) + Len(rest)
      /\ \A i \in 1 .. Len(s) : u[i] = s[i]
  <2>1. \A i \in 1 .. Len(s) : u[i] = s[i]
    BY Joined
  <2> QED
    BY <2>1, Joined
<1>1a. rest # <<>> => u[Len(s) + 1] = rest[1]
  <2> SUFFICES ASSUME rest # <<>> PROVE u[Len(s) + 1] = rest[1]
    OBVIOUS
  <2>1. 1 \in 1 .. Len(rest)
    BY <1>0
  <2> QED
    BY <2>1, Joined
<1> HIDE DEF u
<1>2. ASSUME NEW i \in 1 .. Len(u), i <= Size(r) PROVE u[i] = [req |-> r, pos |-> i]
  BY <1>1, <1>2, StreamElement DEF u
<1>3. Len(s) >= HeaderLen
  <2> SUFFICES ASSUME Len(s) < HeaderLen PROVE FALSE
    BY <1>0
  <2>1. CASE rest = <<>>
    <3>1. Len(s) \in 1 .. Len(u) /\ Len(s) <= Size(r) /\ Len(s) \in 1 .. Len(s)
      BY <1>0, <1>1
    <3>2. s[Len(s)] = [req |-> r, pos |-> Len(s)]
      BY <1>1, <1>2, <3>1
    <3>3. Len(s) = Size(a)
      BY <2>1, <3>2
    <3> QED
      BY <1>0, <3>3
  <2>2. CASE rest # <<>>
    <3>1. Len(rest) >= 1
      BY <1>0, <2>2
    <3>2. Len(s) + 1 \in 1 .. Len(u) /\ Len(s) + 1 <= Size(r)
      BY <1>0, <1>1, <3>1
    <3>3. rest[1] = [req |-> r, pos |-> Len(s) + 1]
      BY <1>1a, <1>2, <2>2, <3>2
    <3>4. rest[1].pos = Len(s) + 1
      BY <3>3
    <3> QED
      BY <1>0, <2>2, <3>4
  <2> QED
    BY <2>1, <2>2
<1>4. ASSUME NEW i \in 1 .. HeaderLen PROVE s[i] = [req |-> r, pos |-> i]
  <2>1. i \in 1 .. Len(s) /\ i \in 1 .. Len(u) /\ i <= Size(r)
    BY <1>0, <1>1, <1>3
  <2> QED
    BY <1>1, <1>2, <2>1
<1>5. HeaderEnd(s) = HeaderLen
  BY <1>3, <1>4, HeaderEndsThere
<1> QED
  BY <1>3, <1>4, <1>5
-----------------------------------------------------------------------------
(***************************************************************************)
(* Streams of whole responses.                                             *)
(***************************************************************************)

\* s is the responses to the requests behind the n-th, up to the a-th.
StreamOf(n, a, s) ==
  /\ IsStreamFrom(n + 1, s)
  /\ \A i \in 1 .. Len(s) : s[i] \in Bytes /\ s[i].req <= a
  /\ s = <<>> => a = n
  /\ s # <<>> => s[Len(s)] = [req |-> a, pos |-> Size(a)]

\* The next response behind a stream.
LEMMA OneMoreResponse ==
  ASSUME TypeOK, NEW n \in Nat, NEW a \in Nat, NEW c \in Cursors, c = a + 1,
         NEW s \in Seq(Units), StreamOf(n, a, s),
         NEW t, t = Response(c)
  PROVE  s \o t \in Seq(Units) /\ StreamOf(n, c, s \o t)
<1>1. Size(c) \in Nat /\ Size(c) >= 1
  BY SizeType
<1>2. /\ t \in Seq(Units) /\ Len(t) = Size(c)
      /\ \A i \in 1 .. Size(c) : t[i] = [req |-> c, pos |-> i]
  <2>1. /\ t \in Seq(Bytes) /\ Len(t) = Size(c)
        /\ \A i \in 1 .. Size(c) : t[i] = [req |-> c, pos |-> i]
    BY ResponseBytes
  <2>2. t \in Seq(Units)
    BY <2>1 DEF Units
  <2> QED
    BY <2>1, <2>2
<1>3. /\ IsStreamFrom(n + 1, s) /\ (s = <<>> => a = n)
      /\ (s # <<>> => s[Len(s)] = [req |-> a, pos |-> Size(a)])
      /\ \A i \in 1 .. Len(s) : s[i] \in Bytes /\ s[i].req <= a
  BY DEF StreamOf
<1>4. Len(s) \in Nat
  BY LenProperties
<1>5. s # <<>> => c - 1 \in Cursors /\ s[Len(s)] = [req |-> c - 1, pos |-> Size(c - 1)]
  <2> SUFFICES ASSUME s # <<>>
               PROVE  c - 1 \in Cursors /\ s[Len(s)] = [req |-> c - 1, pos |-> Size(c - 1)]
    OBVIOUS
  <2>1. Len(s) \in 1 .. Len(s)
    BY <1>4
  <2>2. s[Len(s)] \in Bytes /\ s[Len(s)] = [req |-> a, pos |-> Size(a)]
    BY <1>3, <2>1
  <2>3. a \in Cursors
    BY <2>2 DEF Bytes
  <2>4. c - 1 = a
    OBVIOUS
  <2> QED
    BY <2>2, <2>3, <2>4
<1>6. IsStreamFrom(n + 1, s \o t)
  BY <1>2, <1>3, <1>5, StreamAppend
<1>7. /\ s \o t \in Seq(Units) /\ Len(s \o t) = Len(s) + Size(c)
      /\ \A i \in 1 .. Len(s) : (s \o t)[i] = s[i]
      /\ \A i \in 1 .. Size(c) : (s \o t)[Len(s) + i] = [req |-> c, pos |-> i]
  <2>1. s \o t \in Seq(Units) /\ Len(s \o t) = Len(s) + Len(t)
    BY <1>2, Joined
  <2>2. \A i \in 1 .. Len(s) : (s \o t)[i] = s[i]
    BY <1>2, Joined
  <2>3. \A i \in 1 .. Len(t) : (s \o t)[Len(s) + i] = t[i]
    BY <1>2, Joined
  <2> QED
    BY <1>2, <2>1, <2>2, <2>3
<1> DEFINE u == s \o t
<1>8. /\ u \in Seq(Units) /\ Len(u) = Len(s) + Size(c)
      /\ \A i \in 1 .. Len(s) : u[i] = s[i]
      /\ \A i \in 1 .. Size(c) : u[Len(s) + i] = [req |-> c, pos |-> i]
      /\ IsStreamFrom(n + 1, u)
  BY <1>6, <1>7
<1> HIDE DEF u
<1>9. ASSUME NEW i \in 1 .. Len(u)
      PROVE  u[i] \in Bytes /\ u[i].req <= c
  <2>1. CASE i \in 1 .. Len(s)
    <3>1. u[i] \in Bytes /\ u[i].req <= a
      BY <1>3, <1>8, <2>1
    <3>2. u[i].req \in Nat
      BY <3>1 DEF Bytes, Cursors
    <3> QED
      BY <3>1, <3>2
  <2>2. CASE i \notin 1 .. Len(s)
    <3> DEFINE j == i - Len(s)
    <3>1. j \in 1 .. Size(c) /\ i = Len(s) + j
      BY <1>1, <1>4, <1>8, <2>2
    <3> HIDE DEF j
    <3>2. u[i] = [req |-> c, pos |-> j] /\ j \in Nat
      BY <1>8, <3>1
    <3>3. u[i] \in Bytes /\ u[i].req = c
      BY <3>2 DEF Bytes
    <3> QED
      BY <3>3
  <2> QED
    BY <2>1, <2>2
<1>10. u # <<>> /\ u[Len(u)] = [req |-> c, pos |-> Size(c)]
  <2>1. u # <<>> /\ Size(c) \in 1 .. Size(c)
    BY <1>1, <1>4, <1>8
  <2> QED
    BY <1>8, <2>1
<1> QED
  BY <1>8, <1>9, <1>10 DEF StreamOf, u

\* A stream without its first response.
LEMMA OneResponseLess ==
  ASSUME TypeOK, NEW n \in Nat, NEW a \in Nat, NEW c \in Cursors, c = n + 1,
         NEW s \in Seq(Units), StreamOf(n, a, s), Size(c) <= Len(s)
  PROVE  /\ SubSeq(s, Size(c) + 1, Len(s)) \in Seq(Units)
         /\ StreamOf(c, a, SubSeq(s, Size(c) + 1, Len(s)))
<1> DEFINE m == Size(c)
           t == SubSeq(s, m + 1, Len(s))
<1>1. m \in Nat /\ Len(s) \in Nat /\ m >= 1 /\ m = Size(c) /\ m <= Len(s)
  BY SizeType, LenProperties
<1>2. /\ IsStreamFrom(c, s)
      /\ s # <<>> => s[Len(s)] = [req |-> a, pos |-> Size(a)]
      /\ \A i \in 1 .. Len(s) : s[i] \in Bytes /\ s[i].req <= a
  BY DEF StreamOf
<1>3. IsStreamFrom(c + 1, t)
  BY <1>2, StreamTail
<1>4. s[m] = [req |-> c, pos |-> m]
  <2>1. m \in 1 .. Len(s) /\ m <= Size(c)
    BY <1>1
  <2> HIDE DEF m
  <2> QED
    BY <1>2, <2>1, StreamElement
<1> HIDE DEF m
<1>5. /\ t \in Seq(Units) /\ Len(t) = Len(s) - m
      /\ \A i \in 1 .. Len(t) : t[i] = s[m + i]
  BY <1>1
<1> HIDE DEF t
<1>6. ASSUME NEW i \in 1 .. Len(t) PROVE t[i] \in Bytes /\ t[i].req <= a
  <2>1. m + i \in 1 .. Len(s)
    BY <1>1, <1>5
  <2> QED
    BY <1>2, <1>5, <2>1
<1>7. t = <<>> => a = c
  <2> SUFFICES ASSUME t = <<>> PROVE a = c
    OBVIOUS
  <2>0. Len(t) = 0
    OBVIOUS
  <2>1. Len(s) = m /\ s # <<>>
    BY <1>1, <1>5, <2>0
  <2> QED
    BY <1>2, <1>4, <2>1
<1>8. t # <<>> => t[Len(t)] = [req |-> a, pos |-> Size(a)]
  <2> SUFFICES ASSUME t # <<>> PROVE t[Len(t)] = [req |-> a, pos |-> Size(a)]
    OBVIOUS
  <2>0. Len(t) \in Nat /\ Len(t) # 0
    BY <1>5, EmptySeq
  <2>1. Len(t) \in 1 .. Len(t) /\ m + Len(t) = Len(s)
    BY <1>1, <1>5, <2>0
  <2>2. s # <<>>
    BY <1>1
  <2> QED
    BY <1>2, <1>5, <2>1, <2>2
<1> QED
  BY <1>3, <1>5, <1>6, <1>7, <1>8 DEF StreamOf, t, m

\* There is nothing behind the last response.
LEMMA NothingBehind ==
  ASSUME NEW n \in Nat, NEW a \in Nat, a <= n, NEW s \in Seq(Units), StreamOf(n, a, s)
  PROVE  s = <<>>
<1> SUFFICES ASSUME s # <<>> PROVE FALSE
  OBVIOUS
<1>1. s[1] = [req |-> n + 1, pos |-> 1]
  BY DEF StreamOf, IsStreamFrom
<1>2. 1 \in 1 .. Len(s)
  OBVIOUS
<1>3. s[1].req = n + 1 /\ s[1].req <= a
  BY <1>1, <1>2 DEF StreamOf
<1> QED
  BY <1>3
-----------------------------------------------------------------------------
(***************************************************************************)
(* The invariant.                                                          *)
(***************************************************************************)

\* The bytes the current cursor has, and those still to be read.
Stream == Have \o sock \o net

\* The last request the server has answered.
Answered == LastTaken - Len(requests)

\* The server answers in the order of the requests, and no response is on its
\* way before its cursor is in rxPipe, but for one the rx thread waits for.
AnswersInTime ==
  /\ Answered \in Nat /\ ContinuesFrom(requests, Answered)
  /\ \/ Answered <= LastPiped
     \/ Answered = LastPiped + 1 /\ LastPiped = Len(delivered)

\* The stream holds responses of requests that were answered, and ends with
\* the last of them.
StreamBytes == \A i \in 1 .. Len(Stream) : Stream[i] \in Bytes /\ Stream[i].req <= Answered

StreamEnds ==
  /\ Stream = <<>> => Answered = Len(delivered)
  /\ Stream # <<>> => Stream[Len(Stream)] = [req |-> Answered, pos |-> Size(Answered)]

\* No header is cut where bytes wait to be read.
HeadersWhole ==
  /\ sock # <<>> => sock[1].pos \notin 2 .. HeaderLen
  /\ net # <<>> => net[1].pos \notin 2 .. HeaderLen

\* A cursor has no bytes before its header, which is its own; one that has not
\* reached the rx thread has neither.
OwnHeader ==
  /\ \A c \in Held : header[c] \in {None, c} /\ (header[c] = None => data[c] = <<>>)
  /\ \A c \in Cursors : c > LastHeld => header[c] = None /\ data[c] = <<>>

\* What the application got and will get.
BytesInv == StreamIntact /\ StreamBytes /\ StreamEnds

StreamInv ==
  /\ IInv
  /\ AnswersInTime /\ BytesInv
  /\ HeadersWhole /\ OwnHeader
  /\ OwnResponse /\ NeverAborts

\* What does not depend on how the bytes get into the cursors' buffers.
OwnInv == IInv /\ AnswersInTime /\ OwnHeader /\ OwnResponse

\* The bytes the rx thread has not read.
Rest == sock \o net

LEMMA HeldCursor ==
  ASSUME IInv, Held # {}
  PROVE  /\ Len(delivered) + 1 \in Cursors /\ LastHeld = Len(delivered) + 1
         /\ Held = {Len(delivered) + 1}
<1>1. LastHeld = Len(delivered) + 1 /\ Held = {LastHeld}
  BY DEF IInv, CursorOrder, LastHeld
<1>2. rxQueue \subseteq Cursors /\ cursor \in Cursors \cup {None}
  BY DEF IInv, TypeInv, TypeOK
<1>3. Held \subseteq Cursors
  BY <1>2 DEF Held
<1> QED
  BY <1>1, <1>3

\* The header of the response to c.
LEMMA HeaderBytes ==
  ASSUME TypeOK, NEW c \in Cursors
  PROVE  /\ SubSeq(Response(c), 1, HeaderLen) \in Seq(Units)
         /\ Len(SubSeq(Response(c), 1, HeaderLen)) = HeaderLen
<1> DEFINE t == Response(c)
<1>0. HeaderLen \in Nat /\ Size(c) \in Nat /\ Size(c) >= HeaderLen
  BY SizeType
<1>1. t \in Seq(Bytes) /\ Len(t) = Size(c)
  BY ResponseBytes
<1> HIDE DEF t
<1>2. SubSeq(t, 1, HeaderLen) \in Seq(Bytes) /\ Len(SubSeq(t, 1, HeaderLen)) = HeaderLen
  BY <1>0, <1>1
<1>3. SubSeq(t, 1, HeaderLen) \in Seq(Units)
  BY <1>2 DEF Units
<1> QED
  BY <1>2, <1>3 DEF t

LEMMA StreamTypes ==
  ASSUME IInv
  PROVE  /\ Len(delivered) \in Nat /\ TypeOK
         /\ sock \in Seq(Units) /\ net \in Seq(Units) /\ Rest \in Seq(Units)
         /\ Have \in Seq(Units) /\ Stream \in Seq(Units) /\ Stream = Have \o Rest
<1>1. TypeOK
  BY DEF IInv, TypeInv
<1>2. Len(delivered) \in Nat
  BY <1>1 DEF TypeOK
<1>3. sock \in Seq(Units) /\ net \in Seq(Units)
  BY <1>1 DEF TypeOK, Units
<1>4. Rest \in Seq(Units)
  BY <1>3 DEF Rest
<1>5. Have \in Seq(Units)
  <2>1. CASE Held = {}
    BY <2>1 DEF Have
  <2>2. CASE Held # {}
    <3> DEFINE c == Len(delivered) + 1
    <3>1. c \in Cursors
      BY <2>2, HeldCursor
    <3> HIDE DEF c
    <3>2. data[c] \in Seq(Units) /\ header[c] \in Cursors \cup {None}
      BY <1>1, <3>1 DEF TypeOK
    <3>3. header[c] # None => SubSeq(Response(header[c]), 1, HeaderLen) \in Seq(Units)
      BY <1>1, <3>2, HeaderBytes
    <3>4. Received(c) \in Seq(Units)
      BY <3>2, <3>3 DEF Received
    <3> QED
      BY <2>2, <3>4 DEF Have, c
  <2> QED
    BY <2>1, <2>2
<1>6. Stream = Have \o Rest
  BY <1>3, <1>5, ConcatAssociative DEF Stream, Rest
<1>7. Stream \in Seq(Units)
  <2> HIDE DEF Stream, Rest, Have
  <2> QED
    BY <1>4, <1>5, <1>6, Joined
<1> QED
  BY <1>1, <1>2, <1>3, <1>4, <1>5, <1>6, <1>7

\* A step that leaves the cursor's buffer alone.
LEMMA SameHave ==
  ASSUME UNCHANGED <<bodyLen, delivered, header, data, Held>>
  PROVE  /\ Have' = Have /\ LastHeld' = LastHeld
         /\ OwnHeader => OwnHeader'
         /\ OwnResponse => OwnResponse'
<1>1. \A c : Response(c)' = Response(c)
  BY DEF Response
<1>2. Have' = Have
  BY DEF Have, Received, Response
<1>3. LastHeld' = LastHeld
  BY DEF LastHeld
<1>4. OwnHeader => OwnHeader'
  BY <1>3 DEF OwnHeader
<1>5. OwnResponse => OwnResponse'
  BY DEF OwnResponse, Response
<1> QED
  BY <1>2, <1>3, <1>4, <1>5

\* The three parts of BytesInv say which stream of responses Stream is.
LEMMA BytesAreStream == BytesInv <=> StreamOf(Len(delivered), Answered, Stream)
BY DEF BytesInv, StreamIntact, StreamBytes, StreamEnds, StreamOf, Stream

\* What the stream is after a step.
LEMMA NextStream ==
  ASSUME bodyLen' = bodyLen, NEW s, Stream' = s, NEW n, Len(delivered)' = n,
         NEW a, Answered' = a, StreamOf(n, a, s)
  PROVE  BytesInv'
<1>1. StreamIntact' <=> IsStreamFrom(Len(delivered) + 1, Stream)'
  BY DEF StreamIntact, Stream
<1>2. StreamIntact'
  BY <1>1 DEF StreamOf, IsStreamFrom, Follows
<1>3. StreamBytes'
  BY DEF StreamOf, StreamBytes
<1>4. StreamEnds'
  BY DEF StreamOf, StreamEnds, Size
<1> QED
  BY <1>2, <1>3, <1>4 DEF BytesInv

\* A step that leaves the stream alone.
LEMMA SameStream ==
  ASSUME UNCHANGED <<bodyLen, delivered, Stream, Answered>>, BytesInv
  PROVE  BytesInv'
BY BytesAreStream, NextStream

LEMMA StreamInvInit == Init => StreamInv
<1> SUFFICES ASSUME Init PROVE StreamInv
  OBVIOUS
<1>1. IInv
  BY IInvInit
<1>2. Held = {} /\ LastHeld = 0 /\ LastPiped = 0 /\ LastTaken = 0 /\ Answered = 0
  BY DEF Init, Held, LastHeld, LastPiped, LastTaken, Answered
<1>3. Stream = <<>> /\ delivered = <<>> /\ requests = <<>>
  BY <1>2 DEF Init, Stream, Have
<1>4. AnswersInTime /\ StreamBytes /\ StreamEnds
  BY <1>2, <1>3 DEF AnswersInTime, ContinuesFrom, StreamBytes, StreamEnds
<1>5. StreamIntact
  BY <1>3 DEF StreamIntact, IsStreamFrom, Stream
<1>6. HeadersWhole /\ OwnHeader /\ OwnResponse /\ NeverAborts
  BY <1>2 DEF Init, HeadersWhole, OwnHeader, OwnResponse, NeverAborts
<1> QED
  BY <1>1, <1>4, <1>5, <1>6 DEF StreamInv, BytesInv

\* The application and the tx thread.
LEMMA OwnInvTx ==
  ASSUME OwnInv, CTCursorSendOnQueue \/ TxThread
  PROVE  /\ OwnInv' /\ Have' = Have /\ Answered' = Answered
         /\ UNCHANGED <<bodyLen, delivered, sock, net, rxpc, Held>>
<1>0. IInv' /\ IInv
  BY IInvTx DEF OwnInv
<1>t. /\ TypeOK /\ LastHeld \in Nat /\ LastPiped \in Nat /\ LastTaken \in Nat
      /\ Len(requests) \in Nat /\ Len(rxPipe) \in Nat /\ None \notin Cursors
  <2>1. TypeOK
    BY <1>0 DEF IInv, TypeInv
  <2>2. Len(requests) \in Nat /\ Len(rxPipe) \in Nat
    BY <2>1 DEF TypeOK
  <2>3. None \notin Cursors
    BY DEF None, Cursors
  <2> QED
    BY <2>1, <2>2, <2>3, LastTypes
<1>1. UNCHANGED <<bodyLen, net, sock, rxVars>>
  BY DEF TxThread, CTCursorSendOnQueue, TxSend, CTCursorRecvOnQueue, appVars, netVars
<1>2. UNCHANGED <<delivered, header, data, Held, rxpc, LastHeld>>
  BY <1>1 DEF rxVars, Held, LastHeld
<1>3. Have' = Have /\ OwnHeader' /\ OwnResponse'
  BY <1>1, <1>2, SameHave DEF OwnInv
<1>5. AnswersInTime' /\ Answered' = Answered
  <2>1. CASE CTCursorSendOnQueue
    <3>1. UNCHANGED <<rxPipe, txCursor, requests, LastPiped, LastTaken, Answered>>
      BY <1>2, <2>1 DEF CTCursorSendOnQueue, netVars, LastPiped, LastTaken, Answered
    <3> QED
      BY <1>2, <3>1 DEF OwnInv, AnswersInTime
  <2>2. CASE TxSend
    <3>1. UNCHANGED <<rxPipe, LastPiped>> /\ LastTaken = LastPiped
      BY <1>2, <1>t, <2>2 DEF TxSend, LastPiped, LastTaken
    <3>2. Head(txQueue) = LastTaken + 1
      BY <1>0, <1>t, <2>2, ContinuesTail DEF IInv, CursorOrder, TypeOK, TxSend
    <3>3. LastTaken' = LastTaken + 1
      BY <1>t, <2>2, <3>1, <3>2 DEF TxSend, LastTaken, None
    <3>4. Answered \in Nat /\ ContinuesFrom(requests, Answered) /\ LastTaken = Answered + Len(requests)
      BY <1>t DEF OwnInv, AnswersInTime, Answered
    <3>5. requests' = Append(requests, Answered + Len(requests) + 1)
      BY <2>2, <3>2, <3>4 DEF TxSend
    <3>6. requests \in Seq(Cursors)
      BY <1>t DEF TypeOK
    <3>7. ContinuesFrom(requests', Answered) /\ Len(requests') = Len(requests) + 1
      BY <3>4, <3>5, <3>6, ContinuesAppend
    <3>8. Answered' = Answered
      BY <1>t, <3>3, <3>7 DEF Answered
    <3> QED
      BY <1>2, <3>1, <3>4, <3>7, <3>8 DEF OwnInv, AnswersInTime
  <2>3. CASE CTCursorRecvOnQueue
    <3>1. txCursor = LastPiped + 1 /\ txCursor' = None /\ UNCHANGED requests
      BY <2>3 DEF CTCursorRecvOnQueue, IInv, CursorOrder, OwnInv, netVars
    <3>2. Len(rxPipe') = Len(rxPipe) + 1
      BY <1>t, <2>3 DEF CTCursorRecvOnQueue, TypeOK
    <3>3. LastPiped' = LastPiped + 1
      BY <1>2, <1>t, <3>2 DEF LastPiped
    <3>4. LastTaken' = LastTaken
      BY <1>t, <3>1, <3>3, <2>3 DEF LastTaken, CTCursorRecvOnQueue
    <3>5. Answered' = Answered
      BY <3>1, <3>4 DEF Answered
    <3>6. Answered \in Nat /\ (Answered <= LastPiped \/ Answered = LastPiped + 1)
      BY DEF OwnInv, AnswersInTime
    <3>7. Answered' <= LastPiped'
      BY <1>t, <3>3, <3>5, <3>6
    <3> QED
      BY <3>1, <3>5, <3>7 DEF OwnInv, AnswersInTime
  <2> QED
    BY <2>1, <2>2, <2>3 DEF TxThread
<1> QED
  BY <1>0, <1>1, <1>2, <1>3, <1>5 DEF OwnInv

LEMMA StreamInvTx ==
  ASSUME StreamInv, CTCursorSendOnQueue \/ TxThread
  PROVE  StreamInv'
<1>1. /\ OwnInv' /\ Have' = Have /\ Answered' = Answered
      /\ UNCHANGED <<bodyLen, delivered, sock, net, rxpc, Held>>
  BY OwnInvTx DEF StreamInv, OwnInv
<1>2. Stream' = Stream
  BY <1>1 DEF Stream
<1>3. BytesInv'
  BY <1>1, <1>2, SameStream DEF StreamInv
<1>4. HeadersWhole' /\ NeverAborts'
  BY <1>1 DEF StreamInv, HeadersWhole, NeverAborts
<1> QED
  BY <1>1, <1>3, <1>4 DEF StreamInv, OwnInv

\* The server answers the next request, in time for its cursor.
LEMMA OwnInvAnswer ==
  ASSUME OwnInv, Answer, ~Outrun
  PROVE  /\ OwnInv' /\ Have' = Have
         /\ Head(requests) \in Cursors /\ Head(requests) = Answered + 1
         /\ Answered \in Nat /\ Answered' = Answered + 1
         /\ net' = net \o Response(Head(requests))
         /\ UNCHANGED <<bodyLen, delivered, sock, rxpc, Held>>
<1> DEFINE c == Head(requests)
<1>0. IInv' /\ IInv
  BY IInvNetwork DEF OwnInv, Network
<1>1. TypeOK /\ Len(delivered) \in Nat
  BY <1>0, StreamTypes
<1>2. /\ requests # <<>> /\ InTime(c) /\ net' = net \o Response(c)
      /\ requests' = Tail(requests)
      /\ UNCHANGED <<bodyLen, txCursor, sock, rxPipe, rxVars>>
  BY DEF Answer, appVars, txVars
<1>3. Answered \in Nat /\ ContinuesFrom(requests, Answered)
  BY DEF OwnInv, AnswersInTime
<1>4. /\ c \in Cursors /\ c = Answered + 1 /\ ContinuesFrom(requests', Answered + 1)
      /\ Len(requests) = Len(requests') + 1 /\ Len(requests') \in Nat
  <2>1. requests \in Seq(Cursors)
    BY <1>1 DEF TypeOK
  <2>2. Head(requests) \in Cursors /\ Len(Tail(requests)) \in Nat
    BY <1>2, <2>1
  <2> QED
    BY <1>2, <1>3, <2>1, <2>2, ContinuesTail
<1> HIDE DEF c
<1>5. UNCHANGED <<delivered, header, data, Held, LastHeld, rxpc, LastPiped, LastTaken>>
  BY <1>2 DEF rxVars, Held, LastHeld, LastPiped, LastTaken
<1>6. LastTaken \in Nat /\ LastPiped \in Nat /\ None \notin Cursors
  BY <1>1, LastTypes DEF None, Cursors
<1>7. Answered' = Answered + 1
  BY <1>3, <1>4, <1>5, <1>6 DEF Answered
<1>8. AnswersInTime'
  <2>1. LastTaken = Answered + Len(requests)
    BY <1>3, <1>4, <1>6 DEF Answered
  <2>2. Answered' <= LastPiped \/ (Answered' = LastPiped + 1 /\ LastPiped = Len(delivered))
    <3>1. CASE txCursor = None
      <4>1. LastTaken = LastPiped
        BY <1>6, <3>1 DEF LastTaken
      <4> QED
        BY <1>3, <1>4, <1>6, <1>7, <2>1, <4>1
    <3>2. CASE txCursor # None
      <4>1. txCursor = LastPiped + 1 /\ LastTaken = LastPiped + 1
        BY <1>0, <3>2 DEF LastTaken, IInv, CursorOrder
      <4>2. CASE c # txCursor
        BY <1>3, <1>4, <1>6, <1>7, <2>1, <4>1, <4>2
      <4>3. CASE c = txCursor
        <5>1. Len(delivered) = c - 1
          BY <1>2, <4>3 DEF InTime
        <5> QED
          BY <1>1, <1>3, <1>4, <1>6, <1>7, <4>1, <4>3, <5>1
      <4> QED
        BY <4>2, <4>3
    <3> QED
      BY <3>1, <3>2
  <2> QED
    BY <1>3, <1>4, <1>5, <1>7, <2>2 DEF AnswersInTime
<1>9. Have' = Have /\ OwnHeader' /\ OwnResponse'
  BY <1>2, <1>5, SameHave DEF OwnInv
<1> QED
  BY <1>0, <1>2, <1>3, <1>4, <1>5, <1>7, <1>8, <1>9 DEF OwnInv, c

LEMMA StreamInvAnswer ==
  ASSUME StreamInv, Answer, ~Outrun
  PROVE  StreamInv'
<1>1. /\ TypeOK /\ Len(delivered) \in Nat /\ Have \in Seq(Units) /\ sock \in Seq(Units)
      /\ net \in Seq(Units) /\ Stream \in Seq(Units)
  BY StreamTypes DEF StreamInv
<1>2. PICK c \in Cursors :
        /\ c = Answered + 1 /\ Answered \in Nat /\ Answered' = Answered + 1
        /\ OwnInv' /\ Have' = Have /\ net' = net \o Response(c)
        /\ UNCHANGED <<bodyLen, delivered, sock, rxpc, Held>>
  BY OwnInvAnswer DEF StreamInv, OwnInv
<1> DEFINE t == Response(c)
<1>3. t \in Seq(Units) /\ Len(t) >= 1 /\ t[1] = [req |-> c, pos |-> 1] /\ net' = net \o t
  <2>1. Size(c) \in Nat /\ Size(c) >= 1
    BY <1>1, SizeType
  <2>2. /\ t \in Seq(Bytes) /\ Len(t) = Size(c)
        /\ \A i \in 1 .. Size(c) : t[i] = [req |-> c, pos |-> i]
    BY <1>1, ResponseBytes
  <2>3. net' = net \o t
    BY <1>2
  <2> HIDE DEF t
  <2>4. t \in Seq(Units)
    BY <2>2 DEF Units
  <2> QED
    BY <2>1, <2>2, <2>3, <2>4
<1>4. BytesInv'
  <2>1. StreamOf(Len(delivered), Answered, Stream)
    BY BytesAreStream DEF StreamInv
  <2>2. StreamOf(Len(delivered), c, Stream \o t)
    BY <1>1, <1>2, <2>1, OneMoreResponse
  <2> HIDE DEF t
  <2>3. Have \o sock \in Seq(Units)
    BY <1>1, Joined
  <2>4. Stream' = (Have \o sock) \o (net \o t)
    BY <1>2, <1>3 DEF Stream
  <2> DEFINE h == Have \o sock
  <2>5. h \in Seq(Units) /\ Stream = h \o net /\ Stream' = h \o (net \o t)
    BY <2>3, <2>4 DEF Stream
  <2> HIDE DEF h
  <2>6. (h \o net) \o t = h \o (net \o t)
    <3>1. h \in Seq(Units) /\ net \in Seq(Units) /\ t \in Seq(Units)
      BY <1>1, <1>3, <2>5
    <3> QED
      BY <3>1, ConcatAssociative
  <2>7. Stream' = Stream \o t
    BY <2>5, <2>6
  <2> QED
    BY <1>2, <2>2, <2>7, NextStream
<1> HIDE DEF t
<1>5. HeadersWhole'
  <2>1. CASE net = <<>>
    <3>1. net' = t
      BY <1>3, <2>1, ConcatEmptySeq
    <3>2. net'[1].pos = 1
      BY <1>3, <3>1
    <3> QED
      BY <1>2, <3>2, LengthAssumption DEF StreamInv, HeadersWhole
  <2>2. CASE net # <<>>
    <3>1. 1 \in 1 .. Len(net)
      BY <1>1, <2>2
    <3>2. net'[1] = net[1]
      BY <1>1, <1>3, <3>1, Joined
    <3> QED
      BY <1>2, <2>2, <3>2 DEF StreamInv, HeadersWhole
  <2> QED
    BY <2>1, <2>2
<1> QED
  BY <1>2, <1>4, <1>5 DEF StreamInv, OwnInv, NeverAborts

\* A delivery loses no byte.
LEMMA RestDelivered ==
  ASSUME TypeOK, Deliver
  PROVE  Rest' = Rest
<1>1. sock \in Seq(Bytes) /\ net \in Seq(Bytes)
  BY DEF TypeOK
<1>2. PICK n \in 1 .. Len(net) :
        sock' = sock \o SubSeq(net, 1, n) /\ net' = SubSeq(net, n + 1, Len(net))
  BY DEF Deliver
<1> DEFINE a == SubSeq(net, 1, n)
           b == SubSeq(net, n + 1, Len(net))
<1>3. a \in Seq(Bytes) /\ b \in Seq(Bytes) /\ a \o b = net
  <2>1. Len(net) \in Nat /\ n \in 0 .. Len(net)
    BY <1>1
  <2> QED
    BY <1>1, <2>1, CutInTwo
<1>4. sock' = sock \o a /\ net' = b
  BY <1>2
<1> HIDE DEF a, b
<1>5. (sock \o a) \o b = sock \o (a \o b)
  <2>1. sock \in Seq(Bytes) /\ a \in Seq(Bytes) /\ b \in Seq(Bytes)
    BY <1>1, <1>3
  <2> QED
    BY <2>1, ConcatAssociative
<1> QED
  BY <1>3, <1>4, <1>5 DEF Rest

\* The network delivers a piece of the stream, cutting no header.
LEMMA StreamInvDeliver ==
  ASSUME StreamInv, Deliver, WholeHeaders
  PROVE  StreamInv'
<1>0. IInv' /\ IInv
  BY IInvNetwork DEF StreamInv, Network
<1>1. TypeOK /\ Have \in Seq(Units) /\ sock \in Seq(Units) /\ net \in Seq(Units)
  BY <1>0, StreamTypes
<1>2. PICK n \in 1 .. Len(net) :
        /\ MayCut(n)
        /\ sock' = sock \o SubSeq(net, 1, n)
        /\ net' = SubSeq(net, n + 1, Len(net))
        /\ UNCHANGED <<appVars, txVars, requests, rxPipe, rxVars>>
  BY DEF Deliver
<1>3. UNCHANGED <<delivered, header, data, Held, LastHeld, rxpc, LastPiped, LastTaken,
                  Answered, bodyLen, requests>>
  BY <1>2 DEF rxVars, appVars, txVars, Held, LastHeld, LastPiped, LastTaken, Answered
<1>4. Have' = Have /\ OwnInv'
  BY <1>0, <1>3, SameHave DEF StreamInv, OwnInv, AnswersInTime
<1> DEFINE a == SubSeq(net, 1, n)
           b == SubSeq(net, n + 1, Len(net))
<1>5. Len(net) \in Nat /\ n \in Nat /\ n >= 1 /\ n <= Len(net) /\ n \in 0 .. Len(net)
  BY <1>1
<1>6. /\ a \in Seq(Units) /\ b \in Seq(Units) /\ Len(a) = n /\ Len(b) = Len(net) - n
      /\ a[1] = net[1] /\ (n < Len(net) => b[1] = net[n + 1])
  <2>1. a \in Seq(Units) /\ b \in Seq(Units)
    BY <1>1, <1>5, SubSeqType
  <2>2. Len(a) = n /\ Len(b) = Len(net) - n
    BY <1>1, <1>5
  <2>3. a[1] = net[1]
    BY <1>1, <1>5
  <2>4. n < Len(net) => b[1] = net[n + 1]
    BY <1>1, <1>5
  <2> QED
    BY <2>1, <2>2, <2>3, <2>4
<1>8. sock' = sock \o a /\ net' = b
  BY <1>2
<1> HIDE DEF a, b
<1>9. Stream' = Stream
  <2>1. Stream' = (Have \o (sock \o a)) \o b
    BY <1>4, <1>8 DEF Stream
  <2>2. sock \o a \in Seq(Units)
    BY <1>1, <1>6, Joined
  <2>3. Stream' = Have \o ((sock \o a) \o b)
    <3> DEFINE k == sock \o a
    <3> HIDE DEF k
    <3>1. (Have \o k) \o b = Have \o (k \o b)
      <4>1. Have \in Seq(Units) /\ k \in Seq(Units) /\ b \in Seq(Units)
        BY <1>1, <1>6, <2>2 DEF k
      <4> QED
        BY <4>1, ConcatAssociative
    <3> QED
      BY <2>1, <3>1 DEF k
  <2>4. (sock \o a) \o b = sock \o net
    BY <1>1, <1>8, RestDelivered DEF Rest
  <2>5. Have \o (sock \o net) = (Have \o sock) \o net
    BY <1>1, ConcatAssociative
  <2> QED
    BY <2>3, <2>4, <2>5 DEF Stream
<1>10. BytesInv'
  BY <1>3, <1>9, SameStream DEF StreamInv
<1>11. NeverAborts'
  BY <1>3 DEF StreamInv, NeverAborts
<1>12. HeadersWhole'
  <2>0. net # <<>>
    BY <1>5
  <2>1. CASE sock = <<>>
    <3>1. sock' = a
      BY <1>6, <1>8, <2>1, ConcatEmptySeq
    <3> QED
      BY <1>2, <1>5, <1>6, <1>8, <2>0, <3>1 DEF StreamInv, HeadersWhole, MayCut
  <2>2. CASE sock # <<>>
    <3>1. 1 \in 1 .. Len(sock)
      BY <1>1, <2>2
    <3>2. sock'[1] = sock[1]
      BY <1>1, <1>6, <1>8, <3>1, Joined
    <3> QED
      BY <1>6, <3>2, <2>2, <1>8, <1>2, <1>5 DEF StreamInv, HeadersWhole, MayCut
  <2> QED
    BY <2>1, <2>2
<1> QED
  BY <1>4, <1>10, <1>11, <1>12 DEF StreamInv, OwnInv

\* The rx thread is woken with its cursor, or asks to be.
LEMMA OwnInvWait ==
  ASSUME OwnInv, RxTakeEvent \/ CTCursorAsyncRecv
  PROVE  /\ OwnInv' /\ Have' = Have /\ Answered' = Answered
         /\ UNCHANGED <<bodyLen, delivered, sock, net, Held>>
<1>0. IInv' /\ IInv
  BY IInvTakeEvent, IInvAsyncRecv DEF OwnInv
<1>1. UNCHANGED <<bodyLen, delivered, header, data, net, sock, requests, rxPipe, txCursor>>
  BY DEF RxTakeEvent, CTCursorAsyncRecv, netVars, appVars, txVars
<1>2. Held' = Held
  <2>1. None \notin Cursors /\ rxQueue \subseteq Cursors /\ cursor \in Cursors \cup {None}
    BY <1>0 DEF IInv, TypeInv, TypeOK, None, Cursors
  <2>2. CASE RxTakeEvent
    <3>1. PICK c \in rxQueue : cursor' = c /\ rxQueue' = rxQueue \ {c}
      BY <2>2 DEF RxTakeEvent
    <3>2. cursor = None /\ rxQueue = {c}
      BY <1>0, <2>1, <2>2, <3>1 DEF RxTakeEvent, IInv, TypeInv, RxHasCursor, CursorOrder, Held
    <3> QED
      BY <2>1, <3>1, <3>2 DEF Held
  <2>3. CASE CTCursorAsyncRecv
    <3>1. cursor \in Cursors
      BY <1>0, <2>3, CursorHeld DEF CTCursorAsyncRecv
    <3> QED
      BY <2>1, <2>3, <3>1 DEF CTCursorAsyncRecv, Held
  <2> QED
    BY <2>2, <2>3
<1>3. Have' = Have /\ OwnHeader' /\ OwnResponse' /\ LastHeld' = LastHeld
  BY <1>1, <1>2, SameHave DEF OwnInv
<1>4. UNCHANGED <<LastPiped, Answered>>
  BY <1>1, <1>3 DEF LastPiped, LastTaken, Answered
<1>5. AnswersInTime'
  BY <1>1, <1>4 DEF OwnInv, AnswersInTime
<1> QED
  BY <1>0, <1>1, <1>2, <1>3, <1>4, <1>5 DEF OwnInv

LEMMA StreamInvWait ==
  ASSUME StreamInv, RxTakeEvent \/ CTCursorAsyncRecv
  PROVE  StreamInv'
<1>1. /\ OwnInv' /\ Have' = Have /\ Answered' = Answered
      /\ UNCHANGED <<bodyLen, delivered, sock, net, Held>>
  BY OwnInvWait DEF StreamInv, OwnInv
<1>2. Stream' = Stream
  BY <1>1 DEF Stream
<1>3. BytesInv'
  BY <1>1, <1>2, SameStream DEF StreamInv
<1>4. HeadersWhole'
  BY <1>1 DEF StreamInv, HeadersWhole
<1>5. NeverAborts'
  BY DEF NeverAborts, RxTakeEvent, CTCursorAsyncRecv
<1> QED
  BY <1>1, <1>3, <1>4, <1>5 DEF StreamInv, OwnInv

\* The rx thread takes a new cursor: it has no byte yet.
LEMMA OwnInvTakePipe ==
  ASSUME OwnInv, RxTakePipe
  PROVE  /\ OwnInv' /\ Have = <<>> /\ Have' = <<>> /\ Answered' = Answered
         /\ UNCHANGED <<bodyLen, delivered, sock, net>>
<1> DEFINE c == Len(delivered) + 1
<1>0. IInv' /\ IInv
  BY IInvTakePipe DEF OwnInv
<1>1. UNCHANGED <<bodyLen, delivered, header, data, net, sock, requests, txCursor>>
  BY DEF RxTakePipe, netVars, appVars, txVars
<1>2. TypeOK /\ Len(delivered) \in Nat /\ LastHeld \in Nat /\ None \notin Cursors
  BY <1>0, StreamTypes, LastTypes DEF None, Cursors
<1>3. Held = {} /\ LastHeld = Len(delivered)
  BY <1>0 DEF RxTakePipe, IInv, TypeInv, RxHasCursor, Held, LastHeld
<1>4. Head(rxPipe) = c /\ c \in Cursors /\ Len(rxPipe) = Len(rxPipe') + 1
      /\ Len(rxPipe') \in Nat
  <2>1. rxPipe \in Seq(Cursors) /\ rxPipe # <<>> /\ rxPipe' = Tail(rxPipe)
        /\ ContinuesFrom(rxPipe, LastHeld)
    BY <1>0, <1>2 DEF TypeOK, RxTakePipe, IInv, CursorOrder
  <2>2. Head(rxPipe) \in Cursors /\ Len(Tail(rxPipe)) \in Nat
    BY <2>1
  <2> QED
    BY <1>2, <1>3, <2>1, <2>2, ContinuesTail
<1>5. Held' = {c} /\ LastHeld' = LastHeld + 1
  <2>1. cursor' = c /\ rxQueue' = {}
    BY <1>4 DEF RxTakePipe
  <2>2. Held' = {c}
    BY <1>2, <1>4, <2>1 DEF Held
  <2> QED
    BY <1>1, <1>3, <2>2 DEF LastHeld
<1>6. LastPiped' = LastPiped
  BY <1>2, <1>4, <1>5 DEF LastPiped
<1>7. UNCHANGED <<LastTaken, Answered>>
  BY <1>1, <1>6 DEF LastTaken, Answered
<1>8. header[c] = None /\ data[c] = <<>>
  <2>1. c > LastHeld
    BY <1>2, <1>3
  <2> QED
    BY <1>4, <2>1 DEF OwnInv, OwnHeader
<1>9. Have' = <<>> /\ Have = <<>>
  <2>1. Have = <<>>
    BY <1>3 DEF Have
  <2>2. Have' = Received(c)'
    BY <1>1, <1>5 DEF Have
  <2>3. Received(c)' = <<>>
    BY <1>1, <1>8 DEF Received
  <2> QED
    BY <2>1, <2>2, <2>3
<1>10. AnswersInTime'
  BY <1>1, <1>6, <1>7 DEF OwnInv, AnswersInTime
<1>11. OwnHeader'
  <2>1. \A k \in Cursors : k > LastHeld' => k > LastHeld
    BY <1>2, <1>5 DEF Cursors
  <2> HIDE DEF c
  <2> QED
    BY <1>1, <1>5, <1>8, <2>1 DEF OwnInv, OwnHeader
<1>12. OwnResponse'
  BY <1>1 DEF OwnInv, OwnResponse, Response
<1> QED
  BY <1>0, <1>1, <1>7, <1>9, <1>10, <1>11, <1>12 DEF OwnInv

LEMMA StreamInvTakePipe ==
  ASSUME StreamInv, RxTakePipe
  PROVE  StreamInv'
<1>1. /\ OwnInv' /\ Have = <<>> /\ Have' = <<>> /\ Answered' = Answered
      /\ UNCHANGED <<bodyLen, delivered, sock, net>>
  BY OwnInvTakePipe DEF StreamInv, OwnInv
<1>2. Stream' = Stream
  BY <1>1 DEF Stream
<1>3. BytesInv'
  BY <1>1, <1>2, SameStream DEF StreamInv
<1>4. HeadersWhole' /\ NeverAborts'
  BY <1>1 DEF StreamInv, HeadersWhole, NeverAborts, RxTakePipe
<1> QED
  BY <1>1, <1>3, <1>4 DEF StreamInv, OwnInv

\* What the cursor has is its header, if it was found, and its data.
LEMMA HaveOfCursor ==
  ASSUME IInv, OwnHeader, rxpc # "top"
  PROVE  /\ cursor = Len(delivered) + 1 /\ cursor \in Cursors /\ Held = {cursor}
         /\ data[cursor] \in Seq(Units)
         /\ \/ header[cursor] = None /\ data[cursor] = <<>> /\ Have = <<>>
            \/ /\ header[cursor] = cursor /\ cursor # None
               /\ Have = SubSeq(Response(cursor), 1, HeaderLen) \o data[cursor]
<1>1. cursor = Len(delivered) + 1 /\ cursor \in Cursors /\ Held = {cursor} /\ cursor # None
  BY CursorHeld DEF Cursors, None
<1>2. data[cursor] \in Seq(Units)
  BY <1>1 DEF IInv, TypeInv, TypeOK
<1>3. header[cursor] \in {None, cursor} /\ (header[cursor] = None => data[cursor] = <<>>)
  BY <1>1 DEF OwnHeader
<1>4. Have = Received(cursor)
  BY <1>1 DEF Have
<1> QED
  BY <1>1, <1>2, <1>3, <1>4 DEF Received

\* Where a cursor's first bytes hold its whole header, the move of the body does
\* not wrap around, and loses no byte.
LEMMA FirstRead ==
  ASSUME TypeOK, NEW c \in Cursors, NEW s \in Seq(Units), Len(s) >= HeaderLen,
         \A i \in 1 .. HeaderLen : s[i] = [req |-> c, pos |-> i]
  PROVE  /\ HeaderEnd(s) = HeaderLen /\ HeaderLen # 0 /\ ~(HeaderLen > Len(s))
         /\ s[HeaderLen].req = c
         /\ MoveBody(s, HeaderLen, Len(s)) \in Seq(Units)
         /\ SubSeq(Response(c), 1, HeaderLen) \o MoveBody(s, HeaderLen, Len(s)) = s
<1>1. HeaderEnd(s) = HeaderLen
  BY HeaderEndsThere
<1>2. Len(s) \in Nat /\ HeaderLen \in Nat /\ HeaderLen # 0 /\ ~(HeaderLen > Len(s))
  BY LengthAssumption, LenProperties
<1>3. s[HeaderLen].req = c
  <2>1. HeaderLen \in 1 .. HeaderLen
    BY <1>2
  <2>2. s[HeaderLen] = [req |-> c, pos |-> HeaderLen]
    BY <2>1
  <2> QED
    BY <2>2
<1> DEFINE d == MoveBody(s, HeaderLen, Len(s))
<1>4. d = SubSeq(s, HeaderLen + 1, Len(s)) /\ d \in Seq(Units)
  <2>1. SubSeq(s, HeaderLen + 1, Len(s)) \in Seq(Units)
    BY <1>2, SubSeqType
  <2>2. [i \in 1 .. (Len(s) - Len(s)) |-> Junk] = <<>>
    BY <1>2
  <2>3. SubSeq(s, HeaderLen + 1, Len(s)) \o <<>> = SubSeq(s, HeaderLen + 1, Len(s))
    BY <2>1, ConcatEmptySeq
  <2> QED
    BY <2>1, <2>2, <2>3 DEF MoveBody
<1> HIDE DEF d
<1>5. SubSeq(Response(c), 1, HeaderLen) \o d = s
  BY <1>4, Rejoined
<1> QED
  BY <1>1, <1>2, <1>3, <1>4, <1>5 DEF d

\* Bytes that follow those a cursor had.
LEMMA MoreBytes ==
  ASSUME TypeOK, NEW c \in Cursors, NEW d \in Seq(Units), NEW s \in Seq(Units)
  PROVE  /\ d \o s \in Seq(Units)
         /\ SubSeq(Response(c), 1, HeaderLen) \o (d \o s)
              = (SubSeq(Response(c), 1, HeaderLen) \o d) \o s
<1> DEFINE h == SubSeq(Response(c), 1, HeaderLen)
<1>1. h \in Seq(Units)
  BY HeaderBytes
<1> HIDE DEF h
<1>2. (h \o d) \o s = h \o (d \o s)
  BY <1>1, ConcatAssociative
<1>3. d \o s \in Seq(Units)
  BY Joined
<1> QED
  BY <1>2, <1>3 DEF h

\* The rx thread's cursor has its header, and got some bytes.
LEMMA HaveGrows ==
  ASSUME OwnInv, IInv', rxpc # "top", NEW c, c = cursor, NEW d \in Seq(Units), NEW have,
         SubSeq(Response(c), 1, HeaderLen) \o d = have,
         header' = [header EXCEPT ![c] = c], data' = [data EXCEPT ![c] = d],
         UNCHANGED <<bodyLen, delivered, requests, rxPipe, txCursor, cursor, rxQueue>>
  PROVE  OwnInv' /\ Have' = have /\ Answered' = Answered /\ Held' = Held
<1>1. IInv /\ OwnHeader /\ TypeOK
  BY DEF OwnInv, IInv, TypeInv
<1>2. c = Len(delivered) + 1 /\ c \in Cursors /\ Held = {c} /\ LastHeld = c
  BY <1>1, HaveOfCursor, CursorHeld
<1>3. c # None
  BY <1>2 DEF None, Cursors
<1>4. UNCHANGED <<Held, LastHeld, LastPiped, LastTaken, Answered>>
  BY DEF Held, LastHeld, LastPiped, LastTaken, Answered
<1>5. header \in [Cursors -> Cursors \cup {None}] /\ data \in [Cursors -> Seq(Units)]
  BY <1>1 DEF TypeOK
<1>6. header'[c] = c /\ data'[c] = d
  BY <1>2, <1>5
<1>7. Have' = have
  <2>1. Response(c)' = Response(c)
    BY DEF Response
  <2>2. Received(c)' = have
    BY <1>3, <1>6, <2>1 DEF Received
  <2>3. Have' = Received(c)'
    BY <1>2, <1>4 DEF Have
  <2> QED
    BY <2>2, <2>3
<1>8. AnswersInTime'
  BY <1>4 DEF OwnInv, AnswersInTime
<1>9. OwnHeader'
  <2>1. \A k \in Cursors : k > LastHeld => k # c
    BY <1>2 DEF Cursors
  <2>2. \A k \in Cursors : k # c => header'[k] = header[k] /\ data'[k] = data[k]
    BY <1>5
  <2>3. \A k \in Cursors : k > LastHeld' => header'[k] = None /\ data'[k] = <<>>
    BY <1>1, <1>4, <2>1, <2>2 DEF OwnHeader
  <2>4. \A k \in Held' : header'[k] \in {None, k} /\ (header'[k] = None => data'[k] = <<>>)
    BY <1>2, <1>3, <1>4, <1>6
  <2> QED
    BY <2>3, <2>4 DEF OwnHeader
<1>10. OwnResponse'
  BY DEF OwnInv, OwnResponse, Response
<1> QED
  BY <1>4, <1>7, <1>8, <1>9, <1>10 DEF OwnInv

\* The socket is read: where no header is cut, the first read of a cursor
\* brings its whole header, and the move of the body does not wrap around.
LEMMA StreamInvRecv ==
  ASSUME StreamInv, RxRecv, WholeHeaders
  PROVE  StreamInv'
<1> DEFINE c == cursor
<1>0. IInv' /\ IInv /\ OwnInv
  BY IInvRecv DEF StreamInv, OwnInv
<1>1. /\ UNCHANGED <<bodyLen, delivered, net, requests, rxPipe, txCursor, cursor, rxQueue>>
      /\ rxpc = "taken" /\ sock # <<>> /\ sock' = <<>> /\ Receive(c, sock)
  BY DEF RxRecv, appVars, txVars
<1>2. /\ TypeOK /\ sock \in Seq(Units) /\ net \in Seq(Units) /\ Have \in Seq(Units)
      /\ Rest \in Seq(Units) /\ Stream = Have \o Rest
  BY <1>0, StreamTypes
<1>3. /\ c = Len(delivered) + 1 /\ c \in Cursors /\ Held = {c} /\ data[c] \in Seq(Units)
      /\ \/ header[c] = None /\ data[c] = <<>> /\ Have = <<>>
         \/ /\ header[c] = c /\ c # None
            /\ Have = SubSeq(Response(c), 1, HeaderLen) \o data[c]
  BY <1>0, <1>1, HaveOfCursor DEF StreamInv
<1>4. c # None
  BY <1>3 DEF None, Cursors
<1>6. header \in [Cursors -> Cursors \cup {None}] /\ data \in [Cursors -> Seq(Units)]
  BY <1>2 DEF TypeOK
<1>7. /\ header' = [header EXCEPT ![c] = c]
      /\ \E d \in Seq(Units) :
           /\ data' = [data EXCEPT ![c] = d]
           /\ SubSeq(Response(c), 1, HeaderLen) \o d = Have \o sock
      /\ rxpc' = "process"
  <2>1. CASE header[c] = c
    <3>1. /\ header' = header /\ data' = [data EXCEPT ![c] = data[c] \o sock]
          /\ rxpc' = "process"
      <4> HIDE DEF c
      <4>1. ~(0 > Len(sock))
        BY <1>2
      <4> QED
        BY <1>1, <1>3, <1>4, <1>6, <2>1, <4>1 DEF Receive
    <3> HIDE DEF c
    <3>2. /\ data[c] \o sock \in Seq(Units)
          /\ SubSeq(Response(c), 1, HeaderLen) \o (data[c] \o sock) = Have \o sock
      <4> DEFINE dd == data[c]
      <4>1. TypeOK /\ c \in Cursors /\ sock \in Seq(Units) /\ dd \in Seq(Units)
        BY <1>2, <1>3
      <4>2. Have = SubSeq(Response(c), 1, HeaderLen) \o dd
        BY <1>3, <1>4, <2>1
      <4> HIDE DEF dd
      <4>3. /\ dd \o sock \in Seq(Units)
            /\ SubSeq(Response(c), 1, HeaderLen) \o (dd \o sock)
                 = (SubSeq(Response(c), 1, HeaderLen) \o dd) \o sock
        BY <4>1, MoreBytes
      <4> QED
        BY <4>2, <4>3 DEF dd
    <3>3. header = [header EXCEPT ![c] = c]
      BY <1>3, <1>6, <2>1
    <3> QED
      BY <3>1, <3>2, <3>3
  <2>2. CASE header[c] # c
    <3>1. header[c] = None /\ data[c] = <<>> /\ Have = <<>>
      BY <1>3, <2>2
    <3> HIDE DEF c
    <3>2. <<>> \o sock = sock
      BY <1>2, ConcatEmptySeq
    <3>3. IsStreamFrom(c, sock \o net)
      BY <1>3, <3>1, <3>2 DEF StreamInv, BytesInv, StreamIntact
    <3>4. net # <<>> => net[1].pos \notin 2 .. HeaderLen
      BY DEF StreamInv, HeadersWhole
    <3>5. net = <<>> => Answered \in Cursors /\ sock[Len(sock)] = [req |-> Answered, pos |-> Size(Answered)]
      <4> SUFFICES ASSUME net = <<>>
                   PROVE  Answered \in Cursors
                          /\ sock[Len(sock)] = [req |-> Answered, pos |-> Size(Answered)]
        OBVIOUS
      <4>1. Stream = sock
        <5>1. sock \o <<>> = sock
          BY <1>2, ConcatEmptySeq
        <5> QED
          BY <3>1, <3>2, <5>1 DEF Stream
      <4>2. Len(sock) \in 1 .. Len(sock)
        BY <1>1, <1>2
      <4>3. sock[Len(sock)] \in Bytes
        BY <4>1, <4>2 DEF StreamInv, BytesInv, StreamBytes
      <4>4. sock[Len(sock)] = [req |-> Answered, pos |-> Size(Answered)]
        BY <1>1, <4>1 DEF StreamInv, BytesInv, StreamEnds
      <4> QED
        BY <4>3, <4>4 DEF Bytes
    <3>6. PICK a \in Cursors : net = <<>> => sock[Len(sock)] = [req |-> a, pos |-> Size(a)]
      BY <1>3, <3>5
    <3>7. /\ Len(sock) >= HeaderLen
          /\ \A i \in 1 .. HeaderLen : sock[i] = [req |-> c, pos |-> i]
      BY <1>1, <1>2, <1>3, <3>3, <3>4, <3>6, HeaderIsWhole
    <3> DEFINE d == MoveBody(sock, HeaderLen, Len(sock))
    <3>8. /\ HeaderEnd(sock) = HeaderLen /\ HeaderLen # 0 /\ ~(HeaderLen > Len(sock))
          /\ sock[HeaderLen].req = c /\ d \in Seq(Units)
          /\ SubSeq(Response(c), 1, HeaderLen) \o d = sock
      <4>1. TypeOK /\ c \in Cursors /\ sock \in Seq(Units)
        BY <1>2, <1>3
      <4> QED
        BY <3>7, <4>1, FirstRead
    <3>9. /\ header' = [header EXCEPT ![c] = c] /\ data' = [data EXCEPT ![c] = d]
          /\ rxpc' = "process"
      <4> HIDE DEF d
      <4> USE <1>1, <3>1, <3>2, <3>8 DEF Receive, d
      <4>1. header' = [header EXCEPT ![c] = c]
        OBVIOUS
      <4>2. data' = [data EXCEPT ![c] = d]
        OBVIOUS
      <4>3. rxpc' = "process"
        OBVIOUS
      <4> QED
        BY <4>1, <4>2, <4>3
    <3> HIDE DEF d
    <3>10. Have \o sock = sock
      BY <3>1, <3>2
    <3> QED
      BY <3>8, <3>9, <3>10
  <2> QED
    BY <2>1, <2>2
<1>8. OwnInv' /\ Have' = Have \o sock /\ Answered' = Answered
  <2>1. PICK d \in Seq(Units) :
          /\ data' = [data EXCEPT ![c] = d]
          /\ SubSeq(Response(c), 1, HeaderLen) \o d = Have \o sock
    BY <1>7
  <2>2. rxpc # "top"
    BY <1>1
  <2> QED
    BY <1>0, <1>1, <1>7, <2>1, <2>2, HaveGrows
<1>9. Stream' = Stream
  <2>1. Have \o sock \in Seq(Units)
    BY <1>2, Joined
  <2>2. (Have \o sock) \o <<>> = Have \o sock
    BY <2>1, ConcatEmptySeq
  <2> QED
    BY <1>1, <1>8, <2>2 DEF Stream
<1>10. BytesInv'
  BY <1>1, <1>8, <1>9, SameStream DEF StreamInv
<1>11. HeadersWhole' /\ NeverAborts'
  BY <1>1, <1>7 DEF StreamInv, HeadersWhole, NeverAborts
<1> QED
  BY <1>8, <1>10, <1>11 DEF StreamInv, OwnInv
-----------------------------------------------------------------------------
(***************************************************************************)
(* A response is complete.                                                 *)
(***************************************************************************)

\* The stream begins with the response of a complete cursor, and goes on with
\* the overlap in its buffer.
LEMMA CompleteBuffer ==
  ASSUME TypeOK, NEW c \in Cursors, header[c] \in {None, c}, Complete(c),
         NEW rest \in Seq(Units), NEW s \in Seq(Units), s = Received(c) \o rest, InResponses(c, s)
  PROVE  /\ header[c] = c /\ ContentLength(c) = bodyLen[c] /\ bodyLen[c] >= 1
         /\ Overlap(c) \in Seq(Units) /\ Size(c) <= Len(s)
         /\ SubSeq(s, Size(c) + 1, Len(s)) = Overlap(c) \o rest
         /\ SubSeq(data[c], 1, bodyLen[c]) = SubSeq(Response(c), HeaderLen + 1, Size(c))
         /\ Len(Received(c)) = HeaderLen + Len(data[c])
         /\ Len(Overlap(c)) = Len(data[c]) - bodyLen[c]
<1>3. data[c] \in Seq(Units)
  BY DEF TypeOK
<1>4. ContentLength(c) \in 1 .. Len(data[c])
  BY DEF Complete
<1>5. header[c] = c /\ c # None /\ ContentLength(c) = bodyLen[c]
      /\ Received(c) = SubSeq(Response(c), 1, HeaderLen) \o data[c]
  <2>1. header[c] # None
    <3>1. ContentLength(c) # 0
      BY <1>4
    <3> QED
      BY <3>1 DEF ContentLength
  <2> QED
    BY <2>1 DEF ContentLength, Received
<1> DEFINE h  == SubSeq(Response(c), 1, HeaderLen)
           d  == data[c]
           bl == bodyLen[c]
<1>6. /\ Size(c) \in Nat /\ bl \in Nat /\ HeaderLen \in Nat /\ HeaderLen >= 1
      /\ Size(c) = HeaderLen + bl
  BY SizeType
<1>7. h \in Seq(Units) /\ Len(h) = HeaderLen
  BY HeaderBytes
<1>8. d \in Seq(Units) /\ Len(d) \in Nat /\ bl <= Len(d) /\ Received(c) = h \o d
  <2>1. d \in Seq(Units) /\ Received(c) = h \o d
    BY <1>3, <1>5
  <2>2. Len(d) \in Nat
    BY <2>1, LenProperties
  <2> QED
    BY <1>4, <1>5, <1>6, <2>1, <2>2
<1>8a. bl >= 1
  BY <1>4, <1>5
<1>9. Overlap(c) = SubSeq(d, bl + 1, Len(d))
  BY <1>5 DEF Overlap
<1> HIDE DEF h, d, bl
<1>2. Received(c) \in Seq(Units)
  BY <1>7, <1>8, Joined
<1>10. Len(Received(c)) = HeaderLen + Len(d)
  BY <1>7, <1>8, Joined
<1>11. Overlap(c) \in Seq(Units) /\ Len(Overlap(c)) = Len(d) - bl
  <2>1. bl \in 0 .. Len(d)
    BY <1>6, <1>8
  <2> QED
    BY <1>8, <1>9, <2>1, CutInTwo
<1>12. SubSeq(Received(c), Size(c) + 1, Len(Received(c))) = Overlap(c)
  <2>1. SubSeq(h \o d, Len(h) + bl + 1, Len(h \o d)) = SubSeq(d, bl + 1, Len(d))
    BY <1>6, <1>7, <1>8, TailOfSecond
  <2> QED
    BY <1>6, <1>7, <1>8, <1>9, <2>1
<1>13. Size(c) <= Len(Received(c))
  BY <1>6, <1>8, <1>10
<1>14. SubSeq(s, Size(c) + 1, Len(s)) = Overlap(c) \o rest
  <2>1. SubSeq(Received(c) \o rest, Size(c) + 1, Len(Received(c) \o rest))
        = SubSeq(Received(c), Size(c) + 1, Len(Received(c))) \o rest
    BY <1>2, <1>6, <1>13, TailOfFirst
  <2> QED
    BY <1>12, <2>1
<1>15. /\ Size(c) <= Len(s) /\ Len(s) \in Nat /\ Len(Received(c)) <= Len(s)
       /\ \A i \in 1 .. Len(Received(c)) : s[i] = Received(c)[i]
  <2>1. Len(Received(c) \o rest) = Len(Received(c)) + Len(rest) /\ Len(Received(c)) \in Nat /\ Len(rest) \in Nat
    BY <1>2, Joined
  <2>2. \A i \in 1 .. Len(Received(c)) : (Received(c) \o rest)[i] = Received(c)[i]
    BY <1>2, Joined
  <2> QED
    BY <1>6, <1>13, <2>1, <2>2
<1>16. ASSUME NEW i \in 1 .. Size(c) PROVE s[i] = [req |-> c, pos |-> i]
  <2>1. i \in 1 .. Len(s) /\ i <= Size(c)
    BY <1>6, <1>15
  <2> QED
    BY <2>1, ResponseElement
<1>17. SubSeq(d, 1, bl) = SubSeq(Response(c), HeaderLen + 1, Size(c))
  <2> DEFINE t == Response(c)
             x == SubSeq(d, 1, bl)
             y == SubSeq(t, HeaderLen + 1, Size(c))
  <2>1. /\ t \in Seq(Bytes) /\ Len(t) = Size(c)
        /\ \A i \in 1 .. Size(c) : t[i] = [req |-> c, pos |-> i]
    BY ResponseBytes
  <2> HIDE DEF t
  <2>2. x \in Seq(Units) /\ Len(x) = bl /\ \A i \in 1 .. bl : x[i] = d[i]
    BY <1>6, <1>8
  <2>3. y \in Seq(Bytes) /\ Len(y) = bl /\ \A i \in 1 .. bl : y[i] = t[HeaderLen + i]
    <3>1. HeaderLen \in 0 .. Len(t) /\ y = SubSeq(t, HeaderLen + 1, Len(t)) /\ bl = Len(t) - HeaderLen
      BY <1>6, <2>1
    <3> HIDE DEF y
    <3> QED
      BY <2>1, <3>1, CutInTwo
  <2> HIDE DEF x, y
  <2>4. y \in Seq(Units)
    BY <2>3 DEF Units
  <2>5. ASSUME NEW i \in 1 .. bl PROVE x[i] = y[i]
    <3>1. /\ HeaderLen + i \in 1 .. Size(c) /\ HeaderLen + i \in 1 .. Len(Received(c))
          /\ i \in 1 .. Len(d)
      BY <1>6, <1>8, <1>10
    <3>2. d[i] = Received(c)[HeaderLen + i]
      <4>1. (h \o d)[Len(h) + i] = d[i]
        BY <1>7, <1>8, <3>1, Joined
      <4> QED
        BY <1>7, <1>8, <4>1
    <3>3. Received(c)[HeaderLen + i] = [req |-> c, pos |-> HeaderLen + i]
      BY <1>15, <1>16, <3>1
    <3>4. y[i] = [req |-> c, pos |-> HeaderLen + i]
      BY <2>1, <2>3, <3>1
    <3> QED
      BY <2>2, <3>2, <3>3, <3>4
  <2>6. x = y
    BY <2>2, <2>3, <2>4, <2>5, SeqEqual
  <2> QED
    BY <2>6 DEF x, y, t
<1> QED
  BY <1>5, <1>8a, <1>10, <1>11, <1>14, <1>15, <1>17 DEF d, bl

LEMMA CompleteResponse ==
  ASSUME IInv, OwnHeader, rxpc = "process", Complete(cursor), NEW c, c = cursor,
         NEW rest \in Seq(Units), NEW s \in Seq(Units), s = Have \o rest, IsStreamFrom(c, s)
  PROVE  /\ header[c] = c /\ ContentLength(c) = bodyLen[c] /\ bodyLen[c] >= 1
         /\ Overlap(c) \in Seq(Units) /\ Size(c) <= Len(s)
         /\ SubSeq(s, Size(c) + 1, Len(s)) = Overlap(c) \o rest
         /\ SubSeq(data[c], 1, bodyLen[c]) = SubSeq(Response(c), HeaderLen + 1, Size(c))
         /\ Len(Have) = HeaderLen + Len(data[c])
         /\ Len(Overlap(c)) = Len(data[c]) - bodyLen[c]
<1>1. TypeOK /\ c \in Cursors /\ header[c] \in {None, c} /\ Have = Received(c)
  BY StreamTypes, HaveOfCursor DEF Received
<1>2. InResponses(c, s)
  BY DEF InResponses, IsStreamFrom, Follows, Size
<1> QED
  BY <1>1, <1>2, CompleteBuffer

LEMMA CompleteCursor ==
  ASSUME StreamInv, rxpc = "process", Complete(cursor), NEW c, c = cursor
  PROVE  /\ c = Len(delivered) + 1 /\ c \in Cursors /\ Held = {c}
         /\ header[c] = c /\ ContentLength(c) = bodyLen[c]
         /\ Overlap(c) \in Seq(Units) /\ Size(c) <= Len(Stream)
         /\ SubSeq(Stream, Size(c) + 1, Len(Stream)) = Overlap(c) \o Rest
         /\ SubSeq(data[c], 1, bodyLen[c]) = SubSeq(Response(c), HeaderLen + 1, Size(c))
<1>1. IInv /\ OwnHeader
  BY DEF StreamInv
<1>2. Rest \in Seq(Units) /\ Stream \in Seq(Units) /\ Stream = Have \o Rest
  BY <1>1, StreamTypes
<1>3. c = Len(delivered) + 1 /\ c \in Cursors /\ Held = {c}
  BY <1>1, HaveOfCursor
<1>4. IsStreamFrom(c, Stream)
  BY <1>3 DEF StreamInv, BytesInv, StreamIntact, Stream
<1> QED
  BY <1>1, <1>2, <1>3, <1>4, CompleteResponse

\* The callback of a complete cursor is given the cursor's own response.
LEMMA CallbackIsOwn ==
  ASSUME TypeOK, OwnResponse, NEW c \in Cursors, c = cursor, c = Len(delivered) + 1,
         header[c] = c, ContentLength(c) = bodyLen[c],
         SubSeq(data[c], 1, bodyLen[c]) = SubSeq(Response(c), HeaderLen + 1, Size(c)),
         bodyLen' = bodyLen, delivered' = Append(delivered, Callback(cursor))
  PROVE  OwnResponse' /\ Len(delivered)' = c
<1> DEFINE n == Len(delivered)
<1>2. delivered \in Seq(Callbacks) /\ n \in Nat /\ c = n + 1
  BY DEF TypeOK
<1>3. /\ Len(delivered') = n + 1 /\ delivered'[n + 1] = Callback(c)
      /\ \A i \in 1 .. n : delivered'[i] = delivered[i]
  <2> DEFINE e == Callback(cursor)
  <2>1. delivered' = Append(delivered, e)
    OBVIOUS
  <2> HIDE DEF e
  <2>2. Len(delivered') = n + 1 /\ delivered'[n + 1] = e
    BY <1>2, <2>1
  <2>3. \A i \in 1 .. n : delivered'[i] = delivered[i]
    BY <1>2, <2>1
  <2> QED
    BY <2>2, <2>3 DEF e
<1>4. Callback(c).cursor = c /\ Callback(c).header = c
      /\ Callback(c).body = SubSeq(Response(c), HeaderLen + 1, HeaderLen + bodyLen[c])
  BY DEF Callback, Size
<1> HIDE DEF n
<1>6. ASSUME NEW i \in 1 .. (n + 1)
      PROVE  LET d == delivered'[i]
             IN /\ d.header = d.cursor
                /\ d.body = SubSeq(Response(d.cursor), HeaderLen + 1, HeaderLen + bodyLen[d.cursor])
  <2>1. CASE i \in 1 .. n
    BY <1>3, <2>1 DEF OwnResponse, n
  <2>2. CASE i = n + 1
    BY <1>3, <1>4, <2>2
  <2>3. i \in 1 .. n \/ i = n + 1
    BY <1>2
  <2> QED
    BY <2>1, <2>2, <2>3
<1>7. OwnResponse'
  BY <1>3, <1>6 DEF OwnResponse, Response
<1> QED
  BY <1>2, <1>3, <1>7 DEF n

\* A response that is called back leaves the stream.
LEMMA CalledBack ==
  ASSUME StreamInv, rxpc = "process", Complete(cursor), bodyLen' = bodyLen,
         delivered' = Append(delivered, Callback(cursor)), NEW c, c = cursor
  PROVE  /\ OwnResponse' /\ Len(delivered)' = c
         /\ Answered \in Nat /\ Overlap(c) \o Rest \in Seq(Units)
         /\ StreamOf(c, Answered, Overlap(c) \o Rest)
<1>1. /\ c = Len(delivered) + 1 /\ c \in Cursors
      /\ header[c] = c /\ ContentLength(c) = bodyLen[c] /\ Size(c) <= Len(Stream)
      /\ SubSeq(Stream, Size(c) + 1, Len(Stream)) = Overlap(c) \o Rest
      /\ SubSeq(data[c], 1, bodyLen[c]) = SubSeq(Response(c), HeaderLen + 1, Size(c))
  BY CompleteCursor
<1>2. TypeOK /\ Stream \in Seq(Units) /\ Len(delivered) \in Nat
  BY StreamTypes DEF StreamInv
<1>3. Answered \in Nat /\ StreamOf(Len(delivered), Answered, Stream)
  BY BytesAreStream DEF StreamInv, AnswersInTime
<1>4. OwnResponse' /\ Len(delivered)' = c
  BY <1>1, <1>2, CallbackIsOwn DEF StreamInv
<1>5. /\ SubSeq(Stream, Size(c) + 1, Len(Stream)) \in Seq(Units)
      /\ StreamOf(c, Answered, SubSeq(Stream, Size(c) + 1, Len(Stream)))
  BY <1>1, <1>2, <1>3, OneResponseLess
<1> QED
  BY <1>1, <1>3, <1>4, <1>5

\* Complete, with no cursor in rxPipe: no byte of a later response can have been
\* read, so nothing is left behind in the closed cursor.
LEMMA StreamInvClose ==
  ASSUME StreamInv, RxClose
  PROVE  StreamInv'
<1> DEFINE c == cursor
<1>0. IInv' /\ IInv
  BY IInvClose DEF StreamInv
<1>1. /\ rxpc = "process" /\ Complete(cursor) /\ rxPipe = <<>>
      /\ delivered' = Append(delivered, Callback(cursor))
      /\ rxQueue' = rxQueue \ {cursor} /\ cursor' = None /\ rxpc' = "top"
      /\ UNCHANGED <<bodyLen, header, data, net, sock, requests, rxPipe, txCursor>>
  BY DEF RxClose, appVars, txVars, netVars
<1>2. /\ TypeOK /\ Len(delivered) \in Nat /\ sock \in Seq(Units) /\ net \in Seq(Units)
      /\ Rest \in Seq(Units) /\ Stream \in Seq(Units)
  BY <1>0, StreamTypes
<1>3. /\ c = Len(delivered) + 1 /\ c \in Cursors /\ Held = {c} /\ Overlap(c) \in Seq(Units)
  BY <1>1, CompleteCursor
<1>4. /\ OwnResponse' /\ Len(delivered)' = c
      /\ Overlap(c) \o Rest \in Seq(Units) /\ StreamOf(c, Answered, Overlap(c) \o Rest)
  BY <1>1, CalledBack
<1>5. Held' = {} /\ LastHeld = c /\ LastHeld' = c
  <2>1. rxQueue = {} /\ LastHeld = c
    BY <1>0, <1>1, CursorHeld
  <2>2. Held' = {}
    BY <1>1, <2>1 DEF Held
  <2>3. LastHeld' = c
    BY <1>2, <1>3, <1>4, <2>2 DEF LastHeld
  <2> QED
    BY <2>1, <2>2, <2>3
<1>6. UNCHANGED <<LastHeld, LastPiped, LastTaken, Answered>>
  BY <1>1, <1>5 DEF LastPiped, LastTaken, Answered
<1>7. LastPiped = c /\ Answered \in Nat /\ Answered <= c
  <2>1. LastPiped = c
    BY <1>1, <1>2, <1>3, <1>5 DEF LastPiped
  <2> QED
    BY <1>2, <1>3, <2>1 DEF StreamInv, AnswersInTime
<1>8. Overlap(c) \o Rest = <<>>
  <2>1. c \in Nat
    BY <1>3 DEF Cursors
  <2> HIDE DEF c
  <2> QED
    BY <1>4, <1>7, <2>1, NothingBehind
<1>9. sock = <<>> /\ net = <<>>
  <2>1. Rest = <<>>
    BY <1>2, <1>3, <1>8, ConcatEqualIffEmpty
  <2> QED
    BY <1>2, <2>1, ConcatEqualIffEmpty DEF Rest
<1>10. Stream' = <<>>
  <2>1. Have' = <<>>
    BY <1>5 DEF Have
  <2> QED
    BY <1>1, <1>9, <2>1 DEF Stream
<1>11. BytesInv'
  BY <1>1, <1>4, <1>6, <1>8, <1>10, NextStream
<1>12. AnswersInTime'
  BY <1>1, <1>6, <1>7 DEF StreamInv, AnswersInTime
<1>13. HeadersWhole' /\ NeverAborts'
  BY <1>1 DEF StreamInv, HeadersWhole, NeverAborts
<1>14. OwnHeader'
  BY <1>1, <1>5 DEF StreamInv, OwnHeader
<1> QED
  BY <1>0, <1>4, <1>11, <1>12, <1>13, <1>14 DEF StreamInv

\* Complete, with a cursor in rxPipe: the overlap is that cursor's, and holds its
\* whole header, or is empty.
LEMMA StreamInvCloseAndSwitch ==
  ASSUME StreamInv, RxCloseAndSwitch, WholeHeaders
  PROVE  StreamInv'
<1> DEFINE c    == cursor
           next == Head(rxPipe)
           over == Overlap(c)
           end  == HeaderEnd(over)
           body == IF end = 0 THEN <<>> ELSE SubSeq(over, end + 1, Len(over))
           more == IF end = 0 THEN Len(over) ELSE Len(body)
<1>0. IInv' /\ IInv
  BY IInvCloseAndSwitch DEF StreamInv
<1>1. /\ rxpc = "process" /\ Complete(cursor) /\ rxPipe # <<>> /\ rxPipe' = Tail(rxPipe)
      /\ delivered' = Append(delivered, Callback(cursor))
      /\ UNCHANGED <<bodyLen, net, sock, requests, txCursor>>
  BY DEF RxCloseAndSwitch, appVars, txVars, netVars
<1>2. /\ data' = [data EXCEPT ![next] = body]
      /\ header' = [header EXCEPT ![next] = IF end = 0 THEN None ELSE over[end].req]
      /\ cursor' = IF more > 0 THEN next ELSE None
      /\ rxpc' = IF more > 0 THEN "process" ELSE "top"
      /\ rxQueue' = (rxQueue \cup (IF more > 0 THEN {} ELSE {next})) \ {cursor}
  BY DEF RxCloseAndSwitch
<1>3. /\ TypeOK /\ Len(delivered) \in Nat /\ sock \in Seq(Units) /\ net \in Seq(Units)
      /\ Rest \in Seq(Units) /\ Stream \in Seq(Units)
  BY <1>0, StreamTypes
<1>4. /\ c = Len(delivered) + 1 /\ c \in Cursors /\ Held = {c}
      /\ over \in Seq(Units) /\ Size(c) <= Len(Stream)
      /\ SubSeq(Stream, Size(c) + 1, Len(Stream)) = over \o Rest
  BY <1>1, CompleteCursor
<1>5. /\ OwnResponse' /\ Len(delivered)' = c
      /\ StreamOf(c, Answered, over \o Rest)
  BY <1>1, CalledBack
<1>6. rxQueue = {} /\ LastHeld = c
  BY <1>0, <1>1, CursorHeld
<1>7. next = c + 1 /\ next \in Cursors /\ next # None
      /\ Len(rxPipe) = Len(rxPipe') + 1 /\ Len(rxPipe') \in Nat
  <2>1. rxPipe \in Seq(Cursors) /\ rxPipe # <<>> /\ rxPipe' = Tail(rxPipe)
        /\ ContinuesFrom(rxPipe, LastHeld)
    BY <1>0, <1>1, <1>3 DEF TypeOK, IInv, CursorOrder
  <2>2. Head(rxPipe) \in Cursors /\ Len(Tail(rxPipe)) \in Nat
    BY <2>1
  <2>3. c \in Nat
    BY <1>4 DEF Cursors
  <2>4. Head(rxPipe) = c + 1 /\ Len(rxPipe) = Len(Tail(rxPipe)) + 1
    BY <1>6, <2>1, <2>3, ContinuesTail
  <2> HIDE DEF c
  <2> QED
    BY <2>1, <2>2, <2>4 DEF None, Cursors
<1>8. IsStreamFrom(next, over \o Rest)
  BY <1>5, <1>7 DEF StreamOf
<1>9. Rest # <<>> => Rest[1].pos \notin 2 .. HeaderLen
  <2> SUFFICES ASSUME Rest # <<>> PROVE Rest[1].pos \notin 2 .. HeaderLen
    OBVIOUS
  <2>1. CASE sock = <<>>
    <3>1. Rest = net
      BY <1>3, <2>1, ConcatEmptySeq DEF Rest
    <3> QED
      BY <3>1 DEF StreamInv, HeadersWhole
  <2>2. CASE sock # <<>>
    <3>1. 1 \in 1 .. Len(sock)
      BY <1>3, <2>2
    <3>2. Rest[1] = sock[1]
      BY <1>3, <3>1, Joined DEF Rest
    <3> QED
      BY <2>2, <3>2 DEF StreamInv, HeadersWhole
  <2> QED
    BY <2>1, <2>2
<1>10. over # <<>> /\ Rest = <<>>
       => Answered \in Cursors /\ over[Len(over)] = [req |-> Answered, pos |-> Size(Answered)]
  <2> DEFINE o == over
  <2>1. o \o <<>> = o /\ (o # <<>> => Len(o) \in 1 .. Len(o))
    BY <1>4, ConcatEmptySeq, LenProperties
  <2> HIDE DEF o
  <2>2. o # <<>> /\ Rest = <<>> => o[Len(o)] \in Bytes
                                 /\ o[Len(o)] = [req |-> Answered, pos |-> Size(Answered)]
    BY <1>5, <2>1 DEF StreamOf, o
  <2>3. o # <<>> /\ Rest = <<>> => Answered \in Cursors
    BY <2>2 DEF Bytes
  <2> QED
    BY <2>2, <2>3 DEF o
<1> HIDE DEF over
<1>11. /\ (IF end = 0 THEN None ELSE over[end].req) \in {None, next}
       /\ body \in Seq(Units)
       /\ (IF end = 0 THEN None ELSE over[end].req) = None => body = <<>> /\ over = <<>>
       /\ (IF end = 0 THEN None ELSE over[end].req) = next
            => SubSeq(Response(next), 1, HeaderLen) \o body = over
  <2> HIDE DEF next
  <2>1. CASE over = <<>>
    <3>1. HeaderEnd(<<>>) = 0
      BY DEF HeaderEnd
    <3>2. end = 0
      BY <2>1, <3>1
    <3> QED
      BY <1>7, <2>1, <3>2
  <2>2. CASE over # <<>>
    <3>1. PICK a \in Cursors : Rest = <<>> => over[Len(over)] = [req |-> a, pos |-> Size(a)]
      BY <1>4, <1>10, <2>2
    <3>2. /\ Len(over) >= HeaderLen /\ HeaderEnd(over) = HeaderLen
          /\ \A i \in 1 .. HeaderLen : over[i] = [req |-> next, pos |-> i]
      BY <1>3, <1>4, <1>7, <1>8, <1>9, <2>2, <3>1, HeaderIsWhole
    <3>3. end = HeaderLen /\ HeaderLen \in Nat /\ HeaderLen >= 1 /\ HeaderLen # 0
      BY <3>2, LengthAssumption
    <3>4. over[HeaderLen].req = next
      <4>1. HeaderLen \in 1 .. HeaderLen
        BY <3>3
      <4>2. over[HeaderLen] = [req |-> next, pos |-> HeaderLen]
        BY <3>2, <4>1
      <4> QED
        BY <4>2
    <3>5. body = SubSeq(over, HeaderLen + 1, Len(over))
      BY <3>3
    <3>6. SubSeq(over, HeaderLen + 1, Len(over)) \in Seq(Units)
      <4>1. Len(over) \in Nat
        BY <1>4, LenProperties
      <4> QED
        BY <1>4, <3>3, <4>1, SubSeqType
    <3>7. SubSeq(Response(next), 1, HeaderLen) \o SubSeq(over, HeaderLen + 1, Len(over)) = over
      BY <1>3, <1>4, <1>7, <3>2, Rejoined
    <3> HIDE DEF end, body
    <3>8. (IF end = 0 THEN None ELSE over[end].req) = next
      BY <3>3, <3>4
    <3> QED
      BY <1>7, <3>5, <3>6, <3>7, <3>8
  <2> QED
    BY <2>1, <2>2
<1> DEFINE hdr == IF end = 0 THEN None ELSE over[end].req
<1>12. /\ data' = [data EXCEPT ![next] = body] /\ header' = [header EXCEPT ![next] = hdr]
       /\ data \in [Cursors -> Seq(Units)] /\ header \in [Cursors -> Cursors \cup {None}]
  BY <1>2, <1>3 DEF TypeOK
<1>13. /\ hdr \in {None, next} /\ body \in Seq(Units)
       /\ hdr = None => body = <<>> /\ over = <<>>
       /\ hdr = next => SubSeq(Response(next), 1, HeaderLen) \o body = over
  BY <1>11
<1>14. Held' = {next}
  <2>1. \/ cursor' = next /\ rxQueue' = {}
        \/ cursor' = None /\ rxQueue' = {next} \ {c}
    <3> HIDE DEF more
    <3> QED
      BY <1>2, <1>6
  <2>2. next # c
    BY <1>3, <1>4, <1>7
  <2> HIDE DEF next, c
  <2> QED
    BY <1>7, <2>1, <2>2 DEF Held
<1> HIDE DEF end, body, more, hdr
<1>15. LastHeld' = next
  BY <1>5, <1>7, <1>14 DEF LastHeld
<1>16. UNCHANGED <<LastPiped, LastTaken, Answered>>
  <2>1. LastPiped = c + Len(rxPipe) /\ LastPiped' = next + Len(rxPipe')
    BY <1>6, <1>15 DEF LastPiped
  <2>2. LastPiped' = LastPiped
    <3>1. c \in Nat
      BY <1>4 DEF Cursors
    <3> DEFINE k == Len(rxPipe')
    <3>2. k \in Nat /\ Len(rxPipe) = k + 1 /\ LastPiped' = next + k
      BY <1>7, <2>1
    <3> HIDE DEF k, next, c
    <3> QED
      BY <1>7, <2>1, <3>1, <3>2
  <2> QED
    BY <1>1, <2>2 DEF LastTaken, Answered
<1>17. Have' = over
  <2> PICK k \in Cursors : k = next
    BY <1>7
  <2>1. header'[k] = hdr /\ data'[k] = body
    BY <1>7, <1>12
  <2>2. Response(k)' = Response(k)
    BY <1>1 DEF Response
  <2>3. Have' = Received(k)'
    BY <1>5, <1>7, <1>14 DEF Have
  <2>4. k # None
    BY <1>7
  <2> HIDE DEF next
  <2>5. Received(k)' = over
    BY <1>13, <2>1, <2>2, <2>4 DEF Received
  <2> QED
    BY <2>3, <2>5
<1>18. Stream' = over \o Rest
  <2>1. (over \o sock) \o net = over \o (sock \o net)
    <3>1. over \in Seq(Units) /\ sock \in Seq(Units) /\ net \in Seq(Units)
      BY <1>3, <1>4
    <3> QED
      BY <3>1, ConcatAssociative
  <2> QED
    BY <1>1, <1>17, <2>1 DEF Stream, Rest
<1>19. BytesInv'
  BY <1>1, <1>5, <1>16, <1>18, NextStream
<1>20. AnswersInTime'
  <2>1. c \in Nat /\ LastPiped = c + Len(rxPipe)
    BY <1>4, <1>6 DEF Cursors, LastPiped
  <2>2. LastPiped # Len(delivered)
    BY <1>3, <1>4, <1>7, <2>1
  <2>3. Answered \in Nat /\ ContinuesFrom(requests, Answered) /\ Answered <= LastPiped
    BY <2>2 DEF StreamInv, AnswersInTime
  <2> QED
    BY <1>1, <1>16, <2>3 DEF AnswersInTime
<1>21. HeadersWhole'
  BY <1>1 DEF StreamInv, HeadersWhole
<1>22. NeverAborts'
  BY <1>2 DEF NeverAborts
<1>23. OwnHeader'
  <2>1. header'[next] = hdr /\ data'[next] = body
    BY <1>7, <1>12
  <2>2. \A k \in Cursors : k # next => header'[k] = header[k] /\ data'[k] = data[k]
    BY <1>12
  <2>3. \A k \in Cursors : k > LastHeld' => k > LastHeld /\ k # next
    BY <1>4, <1>6, <1>7, <1>15 DEF Cursors
  <2>4. \A k \in Cursors : k > LastHeld' => header'[k] = None /\ data'[k] = <<>>
    BY <2>2, <2>3 DEF StreamInv, OwnHeader
  <2>5. \A k \in Held' : header'[k] \in {None, k} /\ (header'[k] = None => data'[k] = <<>>)
    BY <1>13, <1>14, <2>1
  <2> QED
    BY <2>4, <2>5 DEF OwnHeader
<1> QED
  BY <1>0, <1>5, <1>19, <1>20, <1>21, <1>22, <1>23 DEF StreamInv

LEMMA StreamInvStep ==
  ASSUME ~Outrun, WholeHeaders
  PROVE  StreamInv /\ [Next]_vars => StreamInv'
<1> SUFFICES ASSUME StreamInv, [Next]_vars PROVE StreamInv'
  OBVIOUS
<1>1. CASE UNCHANGED vars
  <2>1. IInv'
    BY <1>1, IInvStep DEF StreamInv
  <2>2. /\ UNCHANGED <<bodyLen, delivered, header, data, net, sock, requests, rxPipe,
                       txCursor, rxpc, Held>>
    BY <1>1 DEF vars, appVars, txVars, netVars, rxVars, Held
  <2>3. Have' = Have /\ OwnHeader' /\ OwnResponse' /\ LastHeld' = LastHeld
    BY <2>2, SameHave DEF StreamInv
  <2>4. UNCHANGED <<LastPiped, LastTaken, Answered, Stream>>
    BY <2>2, <2>3 DEF LastPiped, LastTaken, Answered, Stream
  <2>5. BytesInv'
    BY <2>2, <2>4, SameStream DEF StreamInv
  <2>6. AnswersInTime' /\ HeadersWhole' /\ NeverAborts'
    BY <2>2, <2>4 DEF StreamInv, AnswersInTime, HeadersWhole, NeverAborts
  <2> QED
    BY <2>1, <2>3, <2>5, <2>6 DEF StreamInv
<1>2. CASE Finished
  BY <1>1, <1>2 DEF Finished
<1>3. CASE CTCursorSendOnQueue \/ TxThread
  BY <1>3, StreamInvTx
<1>4. CASE Network
  BY <1>4, StreamInvAnswer, StreamInvDeliver DEF Network
<1>5. CASE RxThread
  BY <1>5, StreamInvWait, StreamInvTakePipe, StreamInvRecv, StreamInvClose,
     StreamInvCloseAndSwitch DEF RxThread
<1> QED
  BY <1>1, <1>2, <1>3, <1>4, <1>5 DEF Next

LEMMA StreamInvariance ==
  ASSUME ~Outrun, WholeHeaders
  PROVE  Spec => []StreamInv
<1>1. Init => StreamInv
  BY StreamInvInit
<1>2. StreamInv /\ [Next]_vars => StreamInv'
  BY StreamInvStep
<1> QED
  BY <1>1, <1>2, PTL DEF Spec
-----------------------------------------------------------------------------
(***************************************************************************)
(* What the application can rely on.                                       *)
(***************************************************************************)

\* No byte is lost, doubled or reordered between the server and the cursors'
\* buffers, however many responses a read returns and wherever it ends.
THEOREM NoByteLost ==
  ASSUME ~Outrun, WholeHeaders
  PROVE  Spec => []StreamIntact
<1>1. StreamInv => StreamIntact
  BY DEF StreamInv, BytesInv
<1>2. Spec => []StreamInv
  BY StreamInvariance
<1> QED
  BY <1>1, <1>2, PTL

\* Every response callback is given the header and the body of the response to
\* the request its cursor sent.
THEOREM ResponsesAreOwn ==
  ASSUME ~Outrun, WholeHeaders
  PROVE  Spec => []OwnResponse
<1>1. StreamInv => OwnResponse
  BY DEF StreamInv
<1>2. Spec => []StreamInv
  BY StreamInvariance
<1> QED
  BY <1>1, <1>2, PTL

\* The length of the body's move, computed from the last read only, does not
\* wrap around below zero.
THEOREM MoveNeverWraps ==
  ASSUME ~Outrun, WholeHeaders
  PROVE  Spec => []NeverAborts
<1>1. StreamInv => NeverAborts
  BY DEF StreamInv
<1>2. Spec => []StreamInv
  BY StreamInvariance
<1> QED
  BY <1>1, <1>2, PTL
-----------------------------------------------------------------------------
(***************************************************************************)
(* The pipeline implements CTPromise, but for its liveness.                *)
(***************************************************************************)

\* The callbacks, as CTPromise sees them.
Answers == [i \in 1 .. Len(delivered) |-> <<delivered[i].cursor, Origin(delivered[i])>>]

\* Each was for the cursor in its turn, with that cursor's response.
AnswersOwn == Answers = [i \in 1 .. Len(delivered) |-> <<i, i>>]

LEMMA AnswersAreOwn ==
  ASSUME \A i \in 1 .. Len(delivered) : delivered[i].cursor = i, OwnResponse
  PROVE  AnswersOwn
<1>1. ASSUME NEW i \in 1 .. Len(delivered)
      PROVE  delivered[i].cursor = i /\ Origin(delivered[i]) = i
  <2>1. delivered[i].cursor = i
    OBVIOUS
  <2>2. Origin(delivered[i]) = delivered[i].cursor
    BY DEF OwnResponse, Origin
  <2> QED
    BY <2>1, <2>2
<1> QED
  BY <1>1 DEF Answers, AnswersOwn

\* The cursor the rx thread works on was sent.
LEMMA CursorWasSent ==
  ASSUME IInv, rxpc = "process"
  PROVE  Len(delivered) < queryCount
<1>1. TypeOK /\ LastHeld \in Nat /\ LastPiped \in Nat /\ LastTaken \in Nat
  BY LastTypes DEF IInv, TypeInv
<1>2. Len(delivered) \in Nat /\ Len(txQueue) \in Nat /\ Len(rxPipe) \in Nat
  BY <1>1 DEF TypeOK
<1>3. LastHeld = Len(delivered) + 1
  BY CursorHeld
<1>4. queryCount = LastTaken + Len(txQueue)
  BY DEF IInv, CursorOrder
<1>5. LastPiped >= LastHeld /\ LastTaken >= LastPiped
  BY <1>1, <1>2 DEF LastPiped, LastTaken
<1> QED
  BY <1>1, <1>2, <1>3, <1>4, <1>5

\* A callback is the answer of CTPromise.
LEMMA CallbackIsAnswer ==
  ASSUME TypeOK, Len(delivered) < queryCount, AnswersOwn, AnswersOwn',
         queryCount' = queryCount, delivered' = Append(delivered, Callback(cursor))
  PROVE  Promise!Answer
<1> DEFINE n == Len(delivered)
<1>2. n \in Nat /\ Len(delivered') = n + 1
  BY DEF TypeOK
<1>3. Answers = [i \in 1 .. n |-> <<i, i>>]
  BY DEF AnswersOwn
<1>4. Answers' = [i \in 1 .. (n + 1) |-> <<i, i>>]
  BY <1>2 DEF AnswersOwn
<1>5. n < queryCount
  OBVIOUS
<1> HIDE DEF n
<1> DEFINE s == [i \in 1 .. n |-> <<i, i>>]
           t == [i \in 1 .. (n + 1) |-> <<i, i>>]
<1>6. s \in Seq(Nat \X Nat) /\ Len(s) = n
  BY <1>2
<1>7. t = Append(s, <<n + 1, n + 1>>)
  BY <1>2
<1>8. Answers = s /\ Answers' = t
  BY <1>3, <1>4
<1> HIDE DEF s, t
<1> QED
  BY <1>5, <1>6, <1>7, <1>8 DEF Promise!Answer, Answers

LEMMA StepIsPromised ==
  ASSUME IInv, AnswersOwn, AnswersOwn', [Next]_vars
  PROVE  [Promise!Next]_(Promise!vars)
<1>1. CASE UNCHANGED <<queryCount, delivered, bodyLen>>
  <2>1. Answers' = Answers
    BY <1>1 DEF Answers, Origin, Response
  <2> QED
    BY <1>1, <2>1 DEF Promise!vars, Answers
<1>2. CASE CTCursorSendOnQueue
  <2>1. UNCHANGED <<delivered, bodyLen>>
    BY <1>2 DEF CTCursorSendOnQueue, rxVars
  <2>2. Answers' = Answers
    BY <2>1 DEF Answers, Origin, Response
  <2>3. Promise!Ask
    BY <1>2, <2>2 DEF CTCursorSendOnQueue, Promise!Ask, Answers
  <2> QED
    BY <2>3 DEF Promise!Next
<1>3. CASE RxClose \/ RxCloseAndSwitch
  <2>1. rxpc = "process" /\ delivered' = Append(delivered, Callback(cursor))
        /\ queryCount' = queryCount
    BY <1>3 DEF RxClose, RxCloseAndSwitch, appVars
  <2> QED
    BY <2>1, CursorWasSent, CallbackIsAnswer DEF Promise!Next, IInv, TypeInv
<1>4. CASE TxThread \/ Network
  BY <1>1, <1>4
  DEF TxThread, TxSend, CTCursorRecvOnQueue, Network, Answer, Deliver, appVars, rxVars
<1>5. CASE RxTakeEvent \/ RxTakePipe \/ RxRecv \/ CTCursorAsyncRecv
  BY <1>1, <1>5 DEF RxTakeEvent, RxTakePipe, RxRecv, CTCursorAsyncRecv, appVars
<1>6. CASE UNCHANGED vars
  BY <1>1, <1>6 DEF vars, appVars, rxVars
<1> QED
  BY <1>2, <1>3, <1>4, <1>5, <1>6 DEF Next, RxThread, Finished

\* What the threads, queues, buffers and packets do looks to the application
\* like CTPromise: each step is a request, the answer to the oldest request
\* with its own response, or nothing.
THEOREM ImplementsPromise ==
  ASSUME ~Outrun, WholeHeaders
  PROVE  Spec => Promise!Init /\ [][Promise!Next]_(Promise!vars)
<1>1. Init => Promise!Init
  <2> SUFFICES ASSUME Init PROVE Promise!Init
    OBVIOUS
  <2>1. delivered = <<>> /\ queryCount = 0
    BY DEF Init
  <2>2. [i \in 1 .. Len(delivered) |-> <<delivered[i].cursor, Origin(delivered[i])>>] = <<>>
    BY <2>1
  <2> QED
    BY <2>1, <2>2 DEF Promise!Init
<1>2. StreamInv /\ AnswersOwn /\ AnswersOwn' /\ [Next]_vars => [Promise!Next]_(Promise!vars)
  BY StepIsPromised DEF StreamInv
<1>3. StreamInv => AnswersOwn
  BY AnswersAreOwn DEF StreamInv, IInv, CursorOrder
<1>4. Spec => []StreamInv
  BY StreamInvariance
<1> QED
  BY <1>1, <1>2, <1>3, <1>4, PTL DEF Spec

-----------------------------------------------------------------------------
(***************************************************************************)
(* No step is in vain.  A cursor is sent, taken by the tx thread, answered *)
(* by the server, written to rxPipe, held by the rx thread and called      *)
(* back; between two of these steps of a cursor the threads and the        *)
(* network can only move bytes closer to it.                               *)
(***************************************************************************)

\* The steps the cursors still have before them.
Work ==
  (NumCursors - queryCount) + (NumCursors - LastTaken) + (NumCursors - Answered)
    + (NumCursors - LastPiped) + (NumCursors - LastHeld) + (NumCursors - Len(delivered))

\* A cursor without bytes to read goes to the top of the loop, and is taken.
Phase ==
  IF rxpc \in {"decrypt", "process"} THEN 2 ELSE IF rxpc = "top" THEN 1 ELSE 0

\* A cursor gets ahead, or bytes leave the network, or the socket, or the rx
\* thread gets closer to waiting for the socket.
Progress ==
  \/ Work' < Work
  \/ Work' = Work /\ Len(net') < Len(net)
  \/ UNCHANGED <<Work, net>> /\ Len(sock') < Len(sock)
  \/ UNCHANGED <<Work, net, sock>> /\ Phase' < Phase

\* Work as a function of the variables.
WorkOf(q, t, x, r, p, d) ==
  LET taken == q - t
      piped == taken - (IF x = None THEN 0 ELSE 1)
  IN (NumCursors - q) + (NumCursors - taken) + (NumCursors - (taken - r))
       + (NumCursors - piped) + (NumCursors - (piped - p)) + (NumCursors - d)

LEMMA WorkIs ==
  ASSUME IInv
  PROVE  /\ Work = WorkOf(queryCount, Len(txQueue), txCursor, Len(requests), Len(rxPipe),
                          Len(delivered))
         /\ Work \in Nat
<1>1. TypeOK /\ LastHeld \in Nat /\ LastPiped \in Nat /\ LastTaken \in Nat
  BY LastTypes DEF IInv, TypeInv
<1>2. /\ Len(delivered) \in Nat /\ Len(txQueue) \in Nat /\ Len(rxPipe) \in Nat
      /\ Len(requests) \in Nat /\ queryCount \in 0 .. NumCursors
  BY <1>1 DEF TypeOK
<1>3. /\ queryCount = LastTaken + Len(txQueue)
      /\ LastTaken = LastPiped + (IF txCursor = None THEN 0 ELSE 1)
      /\ LastPiped = LastHeld + Len(rxPipe)
      /\ LastHeld >= Len(delivered)
  BY <1>2 DEF IInv, CursorOrder, LastTaken, LastPiped, LastHeld
<1>4. Work = WorkOf(queryCount, Len(txQueue), txCursor, Len(requests), Len(rxPipe),
                    Len(delivered))
  BY <1>1, <1>2, <1>3 DEF Work, WorkOf, Answered
<1>5. Work \in Nat
  BY <1>1, <1>2, <1>3, NumCursorsAssumption DEF Work, Answered
<1> QED
  BY <1>4, <1>5

\* The numbers are determined by the lengths of the queues.
LEMMA Lengths ==
  ASSUME NEW d \in Nat, NEW p \in Nat, NEW t \in Nat, NEW h \in {0, 1}, NEW x \in {0, 1},
         NEW held, held = d + h, NEW piped, piped = held + p,
         NEW taken, taken = piped + x, NEW q, q = taken + t
  PROVE  /\ held = q - t - x - p /\ piped = q - t - x /\ taken = q - t
OBVIOUS

LEMMA WorkIsNext ==
  ASSUME IInv'
  PROVE  Work' = WorkOf(queryCount', Len(txQueue'), txCursor', Len(requests'), Len(rxPipe'),
                        Len(delivered'))
<1>1. TypeOK'
  BY DEF IInv, TypeInv
<1>2. Len(delivered') \in Nat /\ Len(txQueue') \in Nat /\ Len(rxPipe') \in Nat
  BY <1>1 DEF TypeOK
<1>3. /\ queryCount' = LastTaken' + Len(txQueue')
      /\ LastTaken' = LastPiped' + (IF txCursor' = None THEN 0 ELSE 1)
      /\ LastPiped' = LastHeld' + Len(rxPipe')
      /\ LastHeld' = Len(delivered') + (IF Held' = {} THEN 0 ELSE 1)
  BY DEF IInv, CursorOrder, LastTaken, LastPiped, LastHeld
<1>4. Work' = (NumCursors - queryCount') + (NumCursors - LastTaken')
                + (NumCursors - (LastTaken' - Len(requests'))) + (NumCursors - LastPiped')
                + (NumCursors - LastHeld') + (NumCursors - Len(delivered'))
  BY DEF Work, Answered
<1>5. PICK x \in {0, 1} : x = IF txCursor' = None THEN 0 ELSE 1
  OBVIOUS
<1>6. PICK h \in {0, 1} : h = IF Held' = {} THEN 0 ELSE 1
  OBVIOUS
<1>7. LastTaken' = LastPiped' + x /\ LastHeld' = Len(delivered') + h
  BY <1>3, <1>5, <1>6
<1>8. /\ LastTaken' = queryCount' - Len(txQueue')
      /\ LastPiped' = queryCount' - Len(txQueue') - x
      /\ LastHeld' = queryCount' - Len(txQueue') - x - Len(rxPipe')
  <2> PICK d \in Nat, p \in Nat, t \in Nat :
        d = Len(delivered') /\ p = Len(rxPipe') /\ t = Len(txQueue')
    BY <1>2
  <2> PICK held : held = LastHeld'
    OBVIOUS
  <2> PICK piped : piped = LastPiped'
    OBVIOUS
  <2> PICK taken, q : taken = LastTaken' /\ q = queryCount'
    OBVIOUS
  <2>1. held = d + h /\ piped = held + p /\ taken = piped + x /\ q = taken + t
    BY <1>3, <1>7
  <2>2. held = q - t - x - p /\ piped = q - t - x /\ taken = q - t
    BY <2>1, Lengths
  <2> QED
    BY <2>2
<1> QED
  BY <1>4, <1>5, <1>8 DEF WorkOf

\* A step that leaves the cursors where they are.
LEMMA SameWork ==
  ASSUME IInv, IInv',
         UNCHANGED <<queryCount, txQueue, txCursor, requests, rxPipe, delivered>>
  PROVE  Work' = Work
BY WorkIs, WorkIsNext

\* The arithmetic of a cursor's step.
LEMMA OneStepLess ==
  ASSUME NEW q \in Nat, NEW t \in Nat, NEW x, NEW r \in Nat, NEW p \in Nat, NEW d \in Nat
  PROVE  /\ WorkOf(q + 1, t + 1, x, r, p, d) < WorkOf(q, t, x, r, p, d)
         /\ WorkOf(q, t, x, r, p, d) < WorkOf(q, t, x, r + 1, p, d)
         /\ WorkOf(q, t, x, r, p, d) < WorkOf(q, t, x, r, p + 1, d)
         /\ WorkOf(q, t, x, r, p, d + 1) < WorkOf(q, t, x, r, p, d)
         /\ WorkOf(q, t, x, r, p, d + 1) < WorkOf(q, t, x, r, p + 1, d)
<1>1. PICK k \in {0, 1} : k = IF x = None THEN 0 ELSE 1
  OBVIOUS
<1> QED
  BY <1>1, NumCursorsAssumption DEF WorkOf

LEMMA OneTxStepLess ==
  ASSUME NEW q \in Nat, NEW t \in Nat, NEW r \in Nat, NEW p \in Nat, NEW d \in Nat,
         NEW c, c # None
  PROVE  /\ WorkOf(q, t, c, r + 1, p, d) < WorkOf(q, t + 1, None, r, p, d)
         /\ WorkOf(q, t, None, r, p + 1, d) < WorkOf(q, t, c, r, p, d)
BY NumCursorsAssumption DEF WorkOf

\* The lengths of the queues after a step.
LEMMA QueueLengths ==
  ASSUME NEW S, NEW s \in Seq(S), NEW e \in S
  PROVE  /\ Len(s) \in Nat /\ Len(Append(s, e)) = Len(s) + 1
         /\ s # <<>> => Head(s) \in S /\ Len(Tail(s)) \in Nat /\ Len(s) = Len(Tail(s)) + 1
OBVIOUS

LEMMA WorkTypes ==
  ASSUME IInv
  PROVE  /\ TypeOK /\ Len(delivered) \in Nat /\ Len(txQueue) \in Nat /\ Len(rxPipe) \in Nat
         /\ Len(requests) \in Nat /\ queryCount \in Nat
<1>1. TypeOK
  BY DEF IInv, TypeInv
<1> QED
  BY <1>1 DEF TypeOK

LEMMA WorkOfTx ==
  ASSUME IInv, IInv', CTCursorSendOnQueue \/ TxThread
  PROVE  Work' < Work
<1>1. /\ TypeOK /\ Len(delivered) \in Nat /\ Len(txQueue) \in Nat /\ Len(rxPipe) \in Nat
      /\ Len(requests) \in Nat /\ queryCount \in Nat
  BY WorkTypes
<1>2. /\ Work = WorkOf(queryCount, Len(txQueue), txCursor, Len(requests), Len(rxPipe),
                       Len(delivered))
      /\ Work' = WorkOf(queryCount', Len(txQueue'), txCursor', Len(requests'), Len(rxPipe'),
                        Len(delivered'))
  BY WorkIs, WorkIsNext
<1>3. CASE CTCursorSendOnQueue
  <2>1. /\ queryCount' = queryCount + 1 /\ Len(txQueue') = Len(txQueue) + 1
        /\ UNCHANGED <<txCursor, requests, rxPipe, delivered>>
    BY <1>1, <1>3 DEF CTCursorSendOnQueue, netVars, rxVars, TypeOK
  <2>3. WorkOf(queryCount + 1, Len(txQueue) + 1, txCursor, Len(requests), Len(rxPipe),
               Len(delivered))
        < WorkOf(queryCount, Len(txQueue), txCursor, Len(requests), Len(rxPipe),
                 Len(delivered))
    BY <1>1, OneStepLess
  <2> QED
    BY <1>2, <2>1, <2>3
<1>4. CASE TxSend
  <2>1. /\ txQueue \in Seq(Cursors) /\ requests \in Seq(Cursors) /\ txQueue # <<>>
        /\ txQueue' = Tail(txQueue) /\ requests' = Append(requests, Head(txQueue))
        /\ txCursor = None /\ txCursor' = Head(txQueue)
        /\ UNCHANGED <<queryCount, rxPipe, delivered>>
    BY <1>1, <1>4 DEF TxSend, TypeOK, appVars, rxVars
  <2>2. /\ Head(txQueue) \in Cursors /\ Len(txQueue') \in Nat
        /\ Len(txQueue) = Len(txQueue') + 1
    BY <2>1, QueueLengths
  <2>3. Len(requests') = Len(requests) + 1
    BY <2>1, <2>2, QueueLengths
  <2>4. txCursor' # None
    BY <2>1, <2>2 DEF Cursors, None
  <2> QED
    BY <1>1, <1>2, <2>1, <2>2, <2>3, <2>4, OneTxStepLess
<1>5. CASE CTCursorRecvOnQueue
  <2>1. /\ rxPipe \in Seq(Cursors) /\ txCursor \in Cursors /\ txCursor # None
        /\ rxPipe' = Append(rxPipe, txCursor) /\ txCursor' = None
        /\ UNCHANGED <<queryCount, txQueue, requests, delivered>>
    BY <1>1, <1>5 DEF CTCursorRecvOnQueue, TypeOK, appVars, netVars, rxVars
  <2>2. Len(rxPipe') = Len(rxPipe) + 1
    BY <2>1, QueueLengths
  <2> QED
    BY <1>1, <1>2, <2>1, <2>2, OneTxStepLess
<1> QED
  BY <1>3, <1>4, <1>5 DEF TxThread

LEMMA WorkOfNetwork ==
  ASSUME IInv, IInv', Network
  PROVE  \/ Work' < Work
         \/ Work' = Work /\ Len(net') < Len(net)
<1>1. /\ TypeOK /\ Len(delivered) \in Nat /\ Len(txQueue) \in Nat /\ Len(rxPipe) \in Nat
      /\ Len(requests) \in Nat /\ queryCount \in Nat
  BY WorkTypes
<1>2. CASE Answer
  <2>1. /\ Work = WorkOf(queryCount, Len(txQueue), txCursor, Len(requests), Len(rxPipe),
                         Len(delivered))
        /\ Work' = WorkOf(queryCount', Len(txQueue'), txCursor', Len(requests'), Len(rxPipe'),
                          Len(delivered'))
    BY WorkIs, WorkIsNext
  <2>2. /\ requests \in Seq(Cursors) /\ requests # <<>> /\ requests' = Tail(requests)
        /\ UNCHANGED <<queryCount, txQueue, txCursor, rxPipe, delivered>>
    BY <1>1, <1>2 DEF Answer, TypeOK, appVars, txVars, rxVars
  <2>3. Len(requests') \in Nat /\ Len(requests) = Len(requests') + 1
    BY <2>2, QueueLengths
  <2>5. WorkOf(queryCount, Len(txQueue), txCursor, Len(requests'), Len(rxPipe),
               Len(delivered))
        < WorkOf(queryCount, Len(txQueue), txCursor, Len(requests') + 1, Len(rxPipe),
                 Len(delivered))
    BY <1>1, <2>3, OneStepLess
  <2> QED
    BY <2>1, <2>2, <2>3, <2>5
<1>3. CASE Deliver
  <2>1. Work' = Work
    BY <1>3, SameWork DEF Deliver, appVars, txVars, rxVars
  <2>2. PICK n \in 1 .. Len(net) : net' = SubSeq(net, n + 1, Len(net))
    BY <1>3 DEF Deliver
  <2>3. net \in Seq(Bytes)
    BY <1>1 DEF TypeOK
  <2>4. Len(net') = Len(net) - n
    BY <2>2, <2>3, CutInTwo
  <2>5. Len(net) \in Nat
    BY <2>3
  <2> QED
    BY <2>1, <2>2, <2>4, <2>5
<1> QED
  BY <1>2, <1>3 DEF Network

LEMMA WorkOfClose ==
  ASSUME IInv, IInv', delivered' = Append(delivered, Callback(cursor)),
         UNCHANGED <<queryCount, txQueue, txCursor, requests>>,
         rxPipe' = rxPipe \/ (rxPipe # <<>> /\ rxPipe' = Tail(rxPipe))
  PROVE  Work' < Work
<1>1. /\ TypeOK /\ Len(delivered) \in Nat /\ Len(txQueue) \in Nat /\ Len(rxPipe) \in Nat
      /\ Len(requests) \in Nat /\ queryCount \in Nat
  BY WorkTypes
<1>2. /\ Work = WorkOf(queryCount, Len(txQueue), txCursor, Len(requests), Len(rxPipe),
                       Len(delivered))
      /\ Work' = WorkOf(queryCount', Len(txQueue'), txCursor', Len(requests'), Len(rxPipe'),
                        Len(delivered'))
  BY WorkIs, WorkIsNext
<1>3. \/ rxPipe' = rxPipe
      \/ Len(rxPipe') \in Nat /\ Len(rxPipe) = Len(rxPipe') + 1
  <2>1. rxPipe \in Seq(Cursors)
    BY <1>1 DEF TypeOK
  <2> QED
    BY <2>1, QueueLengths
<1>4. Len(delivered') = Len(delivered) + 1
  <2> PICK e : e = Callback(cursor)
    OBVIOUS
  <2>1. delivered' = Append(delivered, e)
    OBVIOUS
  <2>2. delivered \in Seq(Callbacks)
    BY <1>1 DEF TypeOK
  <2> QED
    BY <2>1, <2>2
<1> DEFINE w(p, d) == WorkOf(queryCount, Len(txQueue), txCursor, Len(requests), p, d)
<1>5. \A p \in Nat : /\ w(p, Len(delivered) + 1) < w(p, Len(delivered))
                     /\ w(p, Len(delivered) + 1) < w(p + 1, Len(delivered))
  BY <1>1, OneStepLess
<1>6. w(Len(rxPipe'), Len(delivered) + 1) < w(Len(rxPipe), Len(delivered))
  BY <1>1, <1>3, <1>5
<1> QED
  BY <1>2, <1>4, <1>6

LEMMA ProgressRx ==
  ASSUME IInv, IInv', RxThread
  PROVE  Progress
<1>1. /\ TypeOK /\ Len(delivered) \in Nat /\ Len(txQueue) \in Nat /\ Len(rxPipe) \in Nat
      /\ Len(requests) \in Nat /\ queryCount \in Nat
  BY WorkTypes
<1>2. /\ Work = WorkOf(queryCount, Len(txQueue), txCursor, Len(requests), Len(rxPipe),
                       Len(delivered))
      /\ Work' = WorkOf(queryCount', Len(txQueue'), txCursor', Len(requests'), Len(rxPipe'),
                        Len(delivered'))
  BY WorkIs, WorkIsNext
<1>3. CASE RxTakeEvent \/ CTCursorAsyncRecv
  <2>1. Work' = Work
    BY <1>3, SameWork DEF RxTakeEvent, CTCursorAsyncRecv, appVars, txVars, netVars
  <2>2. UNCHANGED <<net, sock>>
    BY <1>3 DEF RxTakeEvent, CTCursorAsyncRecv, netVars
  <2>3. Phase' < Phase
    BY <1>3 DEF RxTakeEvent, CTCursorAsyncRecv, Phase
  <2> QED
    BY <2>1, <2>2, <2>3 DEF Progress
<1>4. CASE RxRecv
  <2>1. Work' = Work /\ net' = net
    BY <1>4, SameWork DEF RxRecv, appVars, txVars
  <2>2. Len(sock') < Len(sock)
    BY <1>1, <1>4 DEF RxRecv, TypeOK
  <2> QED
    BY <2>1, <2>2 DEF Progress
<1>5. CASE RxTakePipe
  <2>1. /\ rxPipe \in Seq(Cursors) /\ rxPipe # <<>> /\ rxPipe' = Tail(rxPipe)
        /\ UNCHANGED <<queryCount, txQueue, txCursor, requests, delivered>>
    BY <1>1, <1>5 DEF RxTakePipe, TypeOK, appVars, txVars, netVars
  <2>2. Len(rxPipe') \in Nat /\ Len(rxPipe) = Len(rxPipe') + 1
    BY <2>1, QueueLengths
  <2>4. WorkOf(queryCount, Len(txQueue), txCursor, Len(requests), Len(rxPipe'),
               Len(delivered))
        < WorkOf(queryCount, Len(txQueue), txCursor, Len(requests), Len(rxPipe') + 1,
                 Len(delivered))
    BY <1>1, <2>2, OneStepLess
  <2>5. Work' < Work
    BY <1>2, <2>1, <2>2, <2>4
  <2> QED
    BY <2>5 DEF Progress
<1>6. CASE RxClose \/ RxCloseAndSwitch
  <2>1. Work' < Work
    BY <1>6, WorkOfClose DEF RxClose, RxCloseAndSwitch, appVars, txVars, netVars
  <2> QED
    BY <2>1 DEF Progress
<1> QED
  BY <1>3, <1>4, <1>5, <1>6 DEF RxThread

LEMMA ProgressStep ==
  ASSUME IInv, IInv', [Next]_vars
  PROVE  Progress \/ UNCHANGED vars
<1>1. CASE CTCursorSendOnQueue \/ TxThread
  BY <1>1, WorkOfTx DEF Progress
<1>2. CASE Network
  BY <1>2, WorkOfNetwork DEF Progress
<1>3. CASE RxThread
  BY <1>3, ProgressRx
<1> QED
  BY <1>1, <1>2, <1>3 DEF Next, Finished

\* Whatever the threads' order, the cuts of the stream and the responses that
\* outrun their cursors, no step is in vain and the steps are bounded: the rx
\* thread does not pass a cursor round between rxQueue and its loop without
\* reading a byte, and nothing a cursor went through is done again.
THEOREM EveryStepProgresses == Spec => []IInv /\ [](Work \in Nat) /\ [][Progress]_vars
<1>1. Init => IInv
  BY IInvInit
<1>2. IInv /\ [Next]_vars => IInv'
  BY IInvStep
<1>3. IInv => Work \in Nat
  BY WorkIs
<1>4. IInv /\ IInv' /\ [Next]_vars => [Progress]_vars
  BY ProgressStep
<1> QED
  BY <1>1, <1>2, <1>3, <1>4, PTL DEF Spec
-----------------------------------------------------------------------------
(***************************************************************************)
(* The pipeline does not wait for nothing: while a cursor that was sent is *)
(* not called back, one of the threads, the server or the network has a    *)
(* step to take.                                                           *)
(***************************************************************************)

\* One of the guards of TxThread, Answer, Deliver and RxThread holds.
CanMove ==
  \/ txCursor # None \/ txQueue # <<>>
  \/ requests # <<>> /\ (Outrun \/ InTime(Head(requests)))
  \/ net # <<>>
  \/ rxpc = "top" /\ (rxQueue # {} \/ rxPipe # <<>>)
  \/ rxpc = "taken" /\ sock # <<>>
  \/ rxpc = "process"

\* The cursor the rx thread waits for bytes with has not got its response: its
\* event was not triggered for nothing, and no complete cursor is left waiting.
WaitsForBytes ==
  /\ rxpc # "decrypt"
  /\ rxpc # "process" => \A c \in Held : ~Complete(c)

LEMMA WaitsUntouched ==
  ASSUME WaitsForBytes, UNCHANGED <<bodyLen, header, data, Held>>, rxpc' # "decrypt",
         rxpc = "process" => rxpc' = "process"
  PROVE  WaitsForBytes'
<1>1. \A c : Complete(c)' <=> Complete(c)
  BY DEF Complete, ContentLength
<1> QED
  BY <1>1 DEF WaitsForBytes

LEMMA WaitsRx ==
  ASSUME StreamInv, StreamInv', WaitsForBytes, RxThread
  PROVE  WaitsForBytes'
<1>0. IInv /\ IInv' /\ TypeOK /\ TypeOK'
  BY DEF StreamInv, IInv, TypeInv
<1>1. CASE RxTakeEvent
  <2>1. Held' = Held
    <3>1. PICK c \in rxQueue : cursor' = c /\ rxQueue' = rxQueue \ {c}
      BY <1>1 DEF RxTakeEvent
    <3>2. c \in Cursors /\ c # None /\ cursor = None
      BY <1>0, <1>1, <3>1 DEF RxTakeEvent, TypeOK, Cursors, None, IInv, TypeInv, RxHasCursor
    <3> QED
      BY <3>1, <3>2 DEF Held
  <2> QED
    BY <1>1, <2>1, WaitsUntouched DEF RxTakeEvent, appVars
<1>2. CASE RxTakePipe
  <2>1. rxpc' = "taken" /\ header' = header
    BY <1>2 DEF RxTakePipe
  <2>2. Held' = {cursor'} /\ cursor' \in Cursors /\ cursor' = LastHeld'
        /\ LastHeld' = Len(delivered') + 1
    BY <1>0, <2>1 DEF IInv, TypeInv, RxHasCursor, TypeOK, CursorOrder, Held, LastHeld
  <2>3. LastHeld = Len(delivered) /\ delivered' = delivered /\ Len(delivered) \in Nat
    BY <1>0, <1>2 DEF RxTakePipe, IInv, TypeInv, RxHasCursor, Held, LastHeld, TypeOK
  <2> PICK c \in Cursors : c = cursor'
    BY <2>2
  <2>4. header[c] = None
    <3>1. c > LastHeld
      BY <2>2, <2>3
    <3> QED
      BY <3>1 DEF StreamInv, OwnHeader
  <2>5. ~Complete(c)'
    <3>1. ContentLength(c)' = 0
      BY <2>1, <2>4 DEF ContentLength
    <3> QED
      BY <3>1 DEF Complete
  <2> QED
    BY <2>1, <2>2, <2>5 DEF WaitsForBytes
<1>3. CASE RxRecv
  <2>1. rxpc' \in {"aborted", "process"}
    BY <1>3 DEF RxRecv, Receive
  <2>2. rxpc' # "aborted"
    BY DEF StreamInv, NeverAborts
  <2> QED
    BY <2>1, <2>2 DEF WaitsForBytes
<1>4. CASE CTCursorAsyncRecv
  <2>1. rxQueue = {} /\ rxQueue' = {cursor} /\ cursor' = None
    BY <1>0, <1>4, CursorHeld DEF CTCursorAsyncRecv
  <2>2. Held' = {cursor}
    BY <2>1 DEF Held
  <2>3. ~Complete(cursor) /\ UNCHANGED <<bodyLen, header, data>> /\ rxpc' = "top"
    BY <1>4 DEF CTCursorAsyncRecv, appVars
  <2>4. \A c : Complete(c)' <=> Complete(c)
    BY <2>3 DEF Complete, ContentLength
  <2> QED
    BY <2>2, <2>3, <2>4 DEF WaitsForBytes
<1>5. CASE RxClose
  <2>1. rxQueue = {} /\ rxQueue' = {} /\ cursor' = None /\ rxpc' = "top"
    BY <1>0, <1>5, CursorHeld DEF RxClose
  <2>2. Held' = {}
    BY <2>1 DEF Held
  <2> QED
    BY <2>1, <2>2 DEF WaitsForBytes
<1>6. CASE RxCloseAndSwitch
  <2>0. Head(rxPipe) \in Cursors
    BY <1>0, <1>6, QueueLengths DEF RxCloseAndSwitch, TypeOK
  <2> PICK next \in Cursors : next = Head(rxPipe)
    BY <2>0
  <2> DEFINE over == Overlap(cursor)
             end  == HeaderEnd(over)
             body == IF end = 0 THEN <<>> ELSE SubSeq(over, end + 1, Len(over))
             more == IF end = 0 THEN Len(over) ELSE Len(body)
  <2>1. /\ data' = [data EXCEPT ![next] = body]
        /\ header' = [header EXCEPT ![next] = IF end = 0 THEN None ELSE over[end].req]
        /\ cursor' = IF more > 0 THEN next ELSE None
        /\ rxpc' = IF more > 0 THEN "process" ELSE "top"
        /\ rxQueue' = (rxQueue \cup (IF more > 0 THEN {} ELSE {next})) \ {cursor}
    BY <1>6 DEF RxCloseAndSwitch
  <2>2. rxQueue = {}
    BY <1>0, <1>6, CursorHeld DEF RxCloseAndSwitch
  <2>3. data \in [Cursors -> Seq(Units)] /\ header \in [Cursors -> Cursors \cup {None}]
    BY <1>0 DEF TypeOK
  <2>4. end = 0 => header'[next] = None
    BY <2>1, <2>2, <2>3
  <2>5. end # 0 => data'[next] = body /\ more = Len(body)
    BY <2>1, <2>2, <2>3
  <2>6. Len(data'[next]) \in Nat
    <3>1. data' \in [Cursors -> Seq(Units)]
      BY <1>0 DEF TypeOK
    <3>2. data'[next] \in Seq(Units)
      BY <3>1
    <3> QED
      BY <3>2, LenProperties
  <2> HIDE DEF body, end
  <2>7. ASSUME ~(more > 0) PROVE ~Complete(next)'
    <3>1. CASE end = 0
      <4>1. ContentLength(next)' = 0
        BY <2>4, <3>1 DEF ContentLength
      <4> QED
        BY <4>1 DEF Complete
    <3>2. CASE end # 0
      <4>1. ~(Len(data'[next]) > 0)
        BY <2>5, <2>7, <3>2
      <4> QED
        BY <2>6, <4>1 DEF Complete
    <3> QED
      BY <3>1, <3>2
  <2> HIDE DEF more
  <2>8. CASE more > 0
    BY <2>1, <2>8 DEF WaitsForBytes
  <2>9. CASE ~(more > 0)
    <3>1. Held' \subseteq {next} /\ rxpc' = "top"
      BY <2>1, <2>2, <2>9 DEF Held
    <3> QED
      BY <2>7, <2>9, <3>1 DEF WaitsForBytes
  <2> QED
    BY <2>8, <2>9
<1> QED
  BY <1>1, <1>2, <1>3, <1>4, <1>5, <1>6 DEF RxThread

LEMMA WaitsStep ==
  ASSUME StreamInv, StreamInv', WaitsForBytes, [Next]_vars
  PROVE  WaitsForBytes'
<1>1. CASE RxThread
  BY <1>1, WaitsRx
<1>2. CASE CTCursorSendOnQueue \/ TxThread
  BY <1>2, WaitsUntouched
  DEF CTCursorSendOnQueue, TxThread, TxSend, CTCursorRecvOnQueue, appVars, rxVars, Held,
      WaitsForBytes
<1>3. CASE Network
  BY <1>3, WaitsUntouched DEF Network, Answer, Deliver, appVars, rxVars, Held, WaitsForBytes
<1>4. CASE Finished \/ UNCHANGED vars
  BY <1>4, WaitsUntouched DEF Finished, vars, appVars, rxVars, Held, WaitsForBytes
<1> QED
  BY <1>1, <1>2, <1>3, <1>4 DEF Next

\* A buffer that ends with the end of a response has all of the first one.
LEMMA HasWholeResponse ==
  ASSUME TypeOK, NEW c \in Cursors, NEW s \in Seq(Units), s # <<>>, InResponses(c, s),
         NEW a, s[Len(s)] = [req |-> a, pos |-> Size(a)]
  PROVE  Len(s) >= Size(c)
<1>1. Len(s) \in Nat /\ Len(s) \in 1 .. Len(s) /\ Size(c) \in Nat
  BY SizeType, LenProperties
<1> SUFFICES ASSUME Len(s) < Size(c) PROVE FALSE
  BY <1>1
<1>2. s[Len(s)] = [req |-> c, pos |-> Len(s)]
  BY <1>1, ResponseElement
<1>3. a = c /\ Size(a) = Len(s)
  BY <1>2
<1> QED
  BY <1>1, <1>3

\* Nothing moves: every request was answered, and the answers have left the
\* network.
LEMMA AllAnswered ==
  ASSUME IInv, ~CanMove, Len(delivered) < queryCount
  PROVE  /\ rxpc \notin {"top", "process"} /\ Len(delivered) < Answered
         /\ net = <<>> /\ (rxpc = "taken" => sock = <<>>)
<1>1. TypeOK /\ Len(delivered) \in Nat /\ Len(rxPipe) \in Nat /\ LastHeld \in Nat
  BY WorkTypes, LastTypes
<1>2. txCursor = None /\ txQueue = <<>> /\ net = <<>> /\ rxpc # "process"
  BY DEF CanMove
<1>3. requests = <<>>
  <2> SUFFICES ASSUME requests # <<>> PROVE FALSE
    OBVIOUS
  <2>1. Head(requests) \in Cursors
    BY <1>1, QueueLengths DEF TypeOK
  <2>2. Head(requests) # txCursor
    BY <1>2, <2>1 DEF Cursors, None
  <2> QED
    BY <2>2 DEF CanMove, InTime
<1>4. Len(requests) = 0 /\ Len(txQueue) = 0
  BY <1>2, <1>3
<1>5. /\ LastTaken = queryCount /\ LastTaken = LastPiped /\ Answered = LastTaken
      /\ LastPiped = LastHeld + Len(rxPipe)
  BY <1>1, <1>2, <1>4, LastTypes DEF IInv, CursorOrder, LastTaken, LastPiped, Answered
<1>6. rxpc # "top"
  <2> SUFFICES ASSUME rxpc = "top" PROVE FALSE
    OBVIOUS
  <2>1. rxQueue = {} /\ rxPipe = <<>> /\ cursor = None
    BY <1>1 DEF CanMove, IInv, TypeInv, RxHasCursor
  <2>2. Held = {} /\ Len(rxPipe) = 0
    BY <2>1 DEF Held
  <2>3. LastHeld = Len(delivered)
    BY <1>1, <2>2 DEF LastHeld
  <2> QED
    BY <1>1, <1>5, <2>2, <2>3
<1> QED
  BY <1>2, <1>5, <1>6 DEF CanMove

\* Then the cursor at the socket has its whole response.
LEMMA NotStuck ==
  ASSUME StreamInv, WaitsForBytes, 0 \notin BodyLens, Len(delivered) < queryCount
  PROVE  CanMove
<1> SUFFICES ASSUME ~CanMove PROVE FALSE
  OBVIOUS
<1>1. /\ IInv /\ OwnHeader /\ TypeOK /\ Len(delivered) \in Nat /\ Answered \in Nat
      /\ Have \in Seq(Units)
  BY StreamTypes DEF StreamInv, AnswersInTime
<1>2. rxpc = "taken" /\ Len(delivered) < Answered /\ Stream = Have
  <2>1. /\ rxpc \notin {"top", "process"} /\ Len(delivered) < Answered
        /\ net = <<>> /\ (rxpc = "taken" => sock = <<>>)
    BY <1>1, AllAnswered
  <2>2. rxpc = "taken"
    BY <1>1, <2>1 DEF TypeOK, RxStates, WaitsForBytes, StreamInv, NeverAborts
  <2> HIDE DEF Have
  <2>3. Have \o <<>> = Have
    BY <1>1, ConcatEmptySeq
  <2> QED
    BY <2>1, <2>2, <2>3 DEF Stream
<1> PICK c \in Cursors : c = cursor
  BY <1>1, <1>2, HaveOfCursor
<1>3. /\ c = Len(delivered) + 1 /\ Held = {c} /\ data[c] \in Seq(Units)
      /\ \/ Have = <<>>
         \/ /\ header[c] = c /\ c # None
            /\ Have = SubSeq(Response(c), 1, HeaderLen) \o data[c]
  BY <1>1, <1>2, HaveOfCursor
<1>4. Have # <<>> /\ Have[Len(Have)] = [req |-> Answered, pos |-> Size(Answered)]
  BY <1>1, <1>2 DEF StreamInv, BytesInv, StreamEnds
<1>5. InResponses(c, Have)
  <2>1. IsStreamFrom(c, Stream)
    BY <1>3 DEF StreamInv, BytesInv, StreamIntact, Stream
  <2>2. IsStreamFrom(c, Have)
    BY <1>2, <2>1
  <2> HIDE DEF Have
  <2> QED
    BY <2>2 DEF InResponses, IsStreamFrom, Follows, Size
<1>6. Len(Have) >= Size(c)
  <2> HIDE DEF Have
  <2> QED
    BY <1>1, <1>4, <1>5, HasWholeResponse
<1>7. Len(Have) = HeaderLen + Len(data[c]) /\ header[c] = c /\ c # None
  <2> DEFINE h == SubSeq(Response(c), 1, HeaderLen)
  <2>1. h \in Seq(Units) /\ Len(h) = HeaderLen
    BY <1>1, HeaderBytes
  <2> HIDE DEF h
  <2>2. Len(h \o data[c]) = Len(h) + Len(data[c])
    BY <1>3, <2>1, Joined
  <2>3. Have = h \o data[c] /\ header[c] = c /\ c # None
    BY <1>3, <1>4 DEF h
  <2> QED
    BY <2>1, <2>2, <2>3
<1>8. bodyLen[c] \in Nat /\ bodyLen[c] # 0
  BY <1>1, SizeType DEF TypeOK
<1>9. Len(data[c]) >= bodyLen[c] /\ Len(data[c]) \in Nat
  <2>1. Size(c) = HeaderLen + bodyLen[c] /\ HeaderLen \in Nat
    BY <1>1, SizeType
  <2>2. Len(data[c]) \in Nat
    BY <1>3, LenProperties
  <2> QED
    BY <1>6, <1>7, <1>8, <2>1, <2>2
<1>10. ContentLength(c) = bodyLen[c]
  BY <1>7 DEF ContentLength
<1>11. Complete(c)
  BY <1>8, <1>9, <1>10 DEF Complete
<1>12. ~Complete(c)
  BY <1>2, <1>3 DEF WaitsForBytes
<1> QED
  BY <1>11, <1>12

\* Where no response outruns its cursor, no header is cut and no body is empty,
\* the threads, the server and the network never all wait while a cursor that
\* was sent is without its callback.  (An empty body never satisfies
\* contentLength > 0, and its cursor does wait for ever.)
THEOREM NeverStuck ==
  ASSUME ~Outrun, WholeHeaders, 0 \notin BodyLens
  PROVE  Spec => [](Len(delivered) < queryCount => CanMove)
<1>1. Init => WaitsForBytes
  BY DEF Init, WaitsForBytes, Held
<1>2. StreamInv /\ StreamInv' /\ WaitsForBytes /\ [Next]_vars => WaitsForBytes'
  BY WaitsStep
<1>3. StreamInv /\ WaitsForBytes => (Len(delivered) < queryCount => CanMove)
  BY NotStuck
<1>4. Spec => []StreamInv
  BY StreamInvariance
<1> QED
  BY <1>1, <1>2, <1>3, <1>4, PTL DEF Spec
==============================================================================
