---------------------------- MODULE CTPipelineIOCP ----------------------------
(***************************************************************************)
(* The request/response pipeline of the Win32 build, plain connections     *)
(* (CT_OVERLAPPED_RECV), one or two of them on one rxQueue.  The tx and rx *)
(* queues are completion ports.  What is another than in CTPipeline, which *)
(* this module extends:                                                    *)
(*                                                                         *)
(*   tx thread --packet--> rxQueue <--packet-- the kernel, when a WSARecv  *)
(*                            |                has put bytes in a buffer   *)
(*                            v                                            *)
(*                        rx thread --message--> its own message queue     *)
(*                                                                         *)
(* A packet only names a cursor; the stage of the cursor says what it is.  *)
(* The rx thread keeps the cursors it has scheduled while another one was  *)
(* receiving in its thread message queue, and one cursor at a time         *)
(* receives, whatever its connection.                                      *)
(*                                                                         *)
(* Variables of CTPipeline that stand for something else here: rxPipe is   *)
(* the port of the rxQueue, rxQueue the cursors with a WSARecv under way,  *)
(* and responseCount *(rq->pnInflightCursors), which is the sum of what    *)
(* the connections count and what the code decides by.  net and sock are   *)
(* those of the first connection, net2 and sock2 those of the second.      *)
(***************************************************************************)
EXTENDS CTPipeline, FiniteSets, SequencesExt

CONSTANT Second   \* the cursors that are sent on the second connection

ASSUME SecondAssumption == Second \subseteq Cursors

VARIABLES
  messages,     \* the rx thread's message queue
  transferred,  \* cursor -> bytes its last WSARecv has put behind buf
  net2, sock2   \* net and sock of the second connection

rxAddedVars == <<messages, transferred>>
net2Vars == <<net2, sock2>>
iocpVars == <<rxAddedVars, net2Vars>>
allVars == <<vars, iocpVars>>

SameConn(c, d) == (c \in Second) = (d \in Second)

IocpInit ==
  /\ Init
  /\ messages = <<>>
  /\ transferred = [c \in Cursors |-> <<>>]
  /\ net2 = <<>> /\ sock2 = <<>>
-----------------------------------------------------------------------------
(***************************************************************************)
(* The servers, the network and the kernel.                                *)
(***************************************************************************)

\* A response that comes before the rx thread has scheduled its cursor is
\* harmless when every earlier response of its connection was called back.
Expected(c) ==
  \/ stage[c] = "RECEIVE"
  \/ \A d \in 1 .. (c - 1) : SameConn(c, d) => d <= Len(delivered)

\* Each server answers its requests in their order.
IocpAnswer ==
  \E i \in 1 .. Len(requests) :
    /\ \A j \in 1 .. (i - 1) : ~SameConn(requests[i], requests[j])
    /\ Outrun \/ Expected(requests[i])
    /\ IF requests[i] \in Second
       THEN net2' = net2 \o Response(requests[i]) /\ UNCHANGED net
       ELSE net' = net \o Response(requests[i]) /\ UNCHANGED net2
    /\ requests' = RemoveAt(requests, i)
    /\ UNCHANGED <<appVars, txVars, sock, rxPipe, rxVars, rxAddedVars, sock2>>

\* Deliver, on the second connection.
DeliverSecond ==
  \E n \in 1 .. Len(net2) :
    /\ WholeHeaders /\ n < Len(net2) => net2[n + 1].pos \notin 2 .. HeaderLen
    /\ sock2' = sock2 \o SubSeq(net2, 1, n)
    /\ net2' = SubSeq(net2, n + 1, Len(net2))
    /\ UNCHANGED <<vars, rxAddedVars>>

\* A WSARecv is done when its socket has bytes: they are in the cursor's
\* buffer, and the port gets a packet for it.
WSARecvDone ==
  \E c \in rxQueue :
    /\ IF c \in Second
       THEN /\ sock2 # <<>> /\ sock2' = <<>> /\ UNCHANGED sock
            /\ transferred' = [transferred EXCEPT ![c] = sock2]
       ELSE /\ sock # <<>> /\ sock' = <<>> /\ UNCHANGED sock2
            /\ transferred' = [transferred EXCEPT ![c] = sock]
    /\ rxQueue' = rxQueue \ {c}
    /\ rxPipe' = Append(rxPipe, c)
    /\ UNCHANGED <<appVars, txVars, requests, net, rxpc, cursor, responseCount,
                   stage, header, data, delivered, messages, net2>>
-----------------------------------------------------------------------------
(***************************************************************************)
(* The rx thread, the Win32 CT_Dequeue_Recv_Decrypt.                       *)
(***************************************************************************)

\* Mutant: the counter is not looked at, every cursor starts to receive.
ScheduleEager ==
  /\ rxpc = "top" /\ rxPipe # <<>>
  /\ LET c == Head(rxPipe)
     IN /\ stage[c] = "SCHEDULE"
        /\ stage' = [stage EXCEPT ![c] = "RECEIVE"]
        /\ rxQueue' = rxQueue \cup {c}
  /\ rxPipe' = Tail(rxPipe)
  /\ responseCount' = responseCount + 1
  /\ UNCHANGED <<appVars, txVars, netVars, rxpc, cursor, header, data, delivered,
                 iocpVars>>

\* The packet of a cursor that comes from the tx thread: it receives at once,
\* or waits as a message when cursors are in flight.
Schedule ==
  /\ rxpc = "top" /\ rxPipe # <<>>
  /\ LET c == Head(rxPipe)
     IN /\ stage[c] = "SCHEDULE"
        /\ stage' = [stage EXCEPT ![c] = "RECEIVE"]
        /\ IF responseCount > 0
           THEN messages' = Append(messages, c) /\ UNCHANGED rxQueue
           ELSE rxQueue' = rxQueue \cup {c} /\ UNCHANGED messages
  /\ rxPipe' = Tail(rxPipe)
  /\ responseCount' = responseCount + 1
  /\ UNCHANGED <<appVars, txVars, netVars, rxpc, cursor, header, data, delivered,
                 transferred, net2Vars>>

\* The packet of a WSARecv.
ReceiveDone ==
  /\ rxpc = "top" /\ rxPipe # <<>>
  /\ stage[Head(rxPipe)] = "RECEIVE"
  /\ cursor' = Head(rxPipe)
  /\ rxPipe' = Tail(rxPipe)
  /\ Receive(cursor', transferred[cursor'])
  /\ UNCHANGED <<appVars, txVars, netVars, rxQueue, responseCount, stage, delivered,
                 iocpVars>>

\* Incomplete: another WSARecv behind the bytes there are.
ReceiveMore ==
  /\ rxpc = "process" /\ ~Complete(cursor)
  /\ rxQueue' = rxQueue \cup {cursor}
  /\ cursor' = None
  /\ rxpc' = "top"
  /\ UNCHANGED <<appVars, txVars, netVars, rxPipe, responseCount, stage, header, data,
                 delivered, iocpVars>>

\* Mutant: the cursor stays counted, the next one waits as a message.
CloseUncounted ==
  /\ rxpc = "process" /\ Complete(cursor)
  /\ messages = <<>>
  /\ delivered' = Append(delivered, Callback(cursor))
  /\ cursor' = None
  /\ rxpc' = "top"
  /\ UNCHANGED <<appVars, txVars, netVars, rxPipe, rxQueue, responseCount, stage, header,
                 data, iocpVars>>

\* Complete, and no message: the overlap, if any, stays behind.
Close ==
  /\ rxpc = "process" /\ Complete(cursor)
  /\ messages = <<>>
  /\ delivered' = Append(delivered, Callback(cursor))
  /\ responseCount' = responseCount - 1
  /\ cursor' = None
  /\ rxpc' = "top"
  /\ UNCHANGED <<appVars, txVars, netVars, rxPipe, rxQueue, stage, header, data, iocpVars>>

\* The cursor that gets the overlap: the first message of the same connection,
\* which is left in the queue when it is not the first of all.
FirstOnConn(i) ==
  /\ SameConn(messages[i], cursor)
  /\ \A j \in 1 .. (i - 1) : ~SameConn(messages[j], cursor)

NextOnConn ==
  IF \E i \in 1 .. Len(messages) : FirstOnConn(i)
  THEN messages[CHOOSE i \in 1 .. Len(messages) : FirstOnConn(i)]
  ELSE Head(messages)

\* Complete, and the first message names the cursor that receives next.  With
\* bytes of its own in its buffer already, the loop goes on with it, if it is
\* of the same connection.
CloseAndSwitch ==
  /\ rxpc = "process" /\ Complete(cursor)
  /\ messages # <<>>
  /\ LET next == Head(messages)
         heir == NextOnConn
         over == Overlap(cursor)
         end  == IF header[heir] = None THEN HeaderEnd(over) ELSE 0
         more == Len(over) > end
     IN /\ IF end = 0
           THEN UNCHANGED <<header, data>>
           ELSE /\ header' = [header EXCEPT ![heir] = over[end].req]
                /\ data' = [data EXCEPT ![heir] = SubSeq(over, end + 1, Len(over))]
        /\ IF more /\ SameConn(next, cursor)
           THEN cursor' = next /\ UNCHANGED rxQueue
           ELSE cursor' = None /\ rxQueue' = rxQueue \cup {next}
        /\ rxpc' = CASE ~more -> "top"
                     [] more /\ SameConn(next, cursor) -> "process"
                     [] more /\ ~SameConn(next, cursor) ->
                          IF SameConn(heir, cursor) THEN "top" ELSE "aborted"
  /\ messages' = Tail(messages)
  /\ delivered' = Append(delivered, Callback(cursor))
  /\ responseCount' = responseCount - 1
  /\ UNCHANGED <<appVars, txVars, netVars, rxPipe, stage, transferred, net2Vars>>
-----------------------------------------------------------------------------
IocpRxThread == Schedule \/ ReceiveDone \/ ReceiveMore \/ Close \/ CloseAndSwitch

IocpTxThread == TxThread /\ UNCHANGED iocpVars

IocpNetwork == IocpAnswer \/ (Deliver /\ UNCHANGED iocpVars) \/ DeliverSecond \/ WSARecvDone

IocpNext ==
  \/ CTCursorSendOnQueue /\ UNCHANGED iocpVars
  \/ IocpTxThread \/ IocpRxThread \/ IocpNetwork
  \/ Finished /\ UNCHANGED iocpVars

\* As in CTPipeline; the kernel completes a WSARecv that has bytes.
IocpFairness ==
  /\ WF_allVars(IocpTxThread) /\ WF_allVars(IocpRxThread)
  /\ WF_allVars(IocpAnswer) /\ WF_allVars(Deliver /\ UNCHANGED iocpVars)
  /\ WF_allVars(DeliverSecond) /\ WF_allVars(WSARecvDone)

IocpSpec == IocpInit /\ [][IocpNext]_allVars

IocpFairSpec == IocpSpec /\ IocpFairness
-----------------------------------------------------------------------------
IocpTypeOK ==
  /\ TypeOK
  /\ messages \in Seq(Cursors)
  /\ transferred \in [Cursors -> Seq(Bytes)]
  /\ net2 \in Seq(Bytes) /\ sock2 \in Seq(Bytes)

\* The cursors the rx thread has scheduled and not called back.
InFlight == {c \in Cursors : stage[c] = "RECEIVE" /\ c > Len(delivered)}

\* The one that receives: its WSARecv is under way, or its packet, or the rx
\* thread works on it.
Receivers ==
  rxQueue \cup {c \in Range(rxPipe) : stage[c] = "RECEIVE"} \cup ({cursor} \ {None})

\* Across both connections the counter that decides whether a cursor starts to
\* receive counts exactly the cursors scheduled and not called back; one of
\* them receives, and the others wait as messages in the order of the requests.
\* With none receiving, the thread would sleep for ever; with two, the bytes of
\* a stream would be spread over two buffers.
OneReceiver ==
  /\ responseCount = Cardinality(InFlight)
  /\ InFlight # {} => Receivers = {Len(delivered) + 1}
  /\ InFlight = {} => Receivers = {}
  /\ ContinuesFrom(messages, Len(delivered) + 1)
  /\ Range(messages) = InFlight \ Receivers
==============================================================================
