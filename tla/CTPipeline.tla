------------------------------ MODULE CTPipeline ------------------------------
(***************************************************************************)
(* The request/response pipeline of one plain (CTSSL_NONE) connection in   *)
(* the kqueue build without AIO (CTRANSPORT_SANS_AIO, the Apple build):    *)
(*                                                                         *)
(*   application --txQueue--> tx thread --socket--> server                 *)
(*                               |                    |                    *)
(*                             rxPipe              socket                  *)
(*                               v                    v                    *)
(*   application <--callback-- rx thread <------------+                    *)
(*                                                                         *)
(* The application posts a cursor on txQueue (CTCursorSendOnQueue).  The   *)
(* tx thread (CT_Dequeue_Encrypt_Send) sends its request and THEN writes   *)
(* the cursor to rxPipe (CTCursorRecvOnQueue).  The rx thread              *)
(* (CT_Dequeue_Recv_Decrypt) pairs a cursor with readable bytes, finds the *)
(* end of the header, and completes the cursor or asks to be woken with it *)
(* again (CTCursorAsyncRecv, a USER event on rxQueue).  Bytes read beyond  *)
(* the response of the cursor belong to the next one, the cursor that is   *)
(* next in rxPipe at that moment.                                          *)
(*                                                                         *)
(* Cursors are numbered 1, 2, ... in the order they are sent (the code's   *)
(* queryToken plus one).  A byte of a response is the record of the        *)
(* request it answers and of its place in the response.                    *)
(***************************************************************************)
EXTENDS Integers, Sequences

CONSTANTS
  NumCursors,   \* cursors the application sends (bounds the model)
  HeaderLen,    \* length of a response header
  BodyLens,     \* the lengths a response body may have
  Window,       \* requests the application keeps outstanding
  Outrun,       \* may a response be read behind an earlier one before the cursor
                \* of its request is in rxPipe?
  WholeHeaders  \* does every header reach the socket in one piece?

ASSUME NumCursorsAssumption == NumCursors \in Nat
ASSUME LengthAssumption == HeaderLen \in Nat \ {0} /\ BodyLens \subseteq Nat
ASSUME WindowAssumption == Window \in Nat \ {0}
ASSUME EnvironmentAssumption == Outrun \in BOOLEAN /\ WholeHeaders \in BOOLEAN

Cursors == 1 .. NumCursors

None == 0       \* the NULL cursor

Bytes == [req : Cursors, pos : Nat]

\* What a byte of the buffer is after a copy that left it out.
Junk == [req |-> None, pos |-> 0]

\* What a cursor's buffer is made of.
Units == Bytes \cup {Junk}

\* What the application gets to see of a completed cursor.
Callbacks == [cursor : Cursors, header : Cursors \cup {None}, body : Seq(Units)]

VARIABLES
  bodyLen,        \* cursor -> length of the body the server answers with
  queryCount,     \* conn->queryCount
  txQueue,        \* USER events of txQueue, in the order of their trigger
  txCursor,       \* the tx thread's cursor between send() and the pipe write
  requests,       \* requests on their way to the server
  net,            \* response bytes on their way to the client
  sock,           \* response bytes readable on the socket
  rxPipe,         \* overlapped structures in rxPipe
  rxQueue,        \* cursors with a triggered USER event on rxQueue
  rxpc,           \* where the rx thread is ("decrypt" in CTPipelineTLS only)
  cursor,         \* the rx thread's current cursor
  responseCount,  \* conn->responseCount
  stage,          \* overlappedResponse.stage of a cursor: scheduled or being
                  \* received (CT_OVERLAPPED_SCHEDULE_RECV and CT_OVERLAPPED_RECV;
                  \* on a TLS connection CT_OVERLAPPED_SCHEDULE and _EXECUTE)
  header,         \* request whose header the cursor holds (None: headerLength = 0)
  data,           \* file.buffer up to overlappedResponse.buf
  delivered       \* the response callbacks issued, in order

appVars == <<bodyLen, queryCount>>
txVars  == <<txQueue, txCursor>>
netVars == <<requests, net, sock>>
rxVars  == <<rxQueue, rxpc, cursor, responseCount, stage, header, data, delivered>>
vars    == <<appVars, txVars, netVars, rxPipe, rxVars>>

RxStates == {"top", "taken", "decrypt", "process", "aborted"}

Init ==
  /\ bodyLen \in [Cursors -> BodyLens]
  /\ queryCount = 0
  /\ txQueue = <<>> /\ txCursor = None
  /\ requests = <<>> /\ net = <<>> /\ sock = <<>>
  /\ rxPipe = <<>>
  /\ rxQueue = {} /\ rxpc = "top" /\ cursor = None
  /\ responseCount = 0
  /\ stage = [c \in Cursors |-> "SCHEDULE"]
  /\ header = [c \in Cursors |-> None]
  /\ data = [c \in Cursors |-> <<>>]
  /\ delivered = <<>>
-----------------------------------------------------------------------------
(***************************************************************************)
(* The application.                                                        *)
(***************************************************************************)

\* CTCursorSendOnQueue: the application triggers a USER event for its next
\* cursor on txQueue and counts the query.  The library bounds nothing: the
\* application chooses how many cursors it keeps outstanding.
CTCursorSendOnQueue ==
  /\ queryCount < NumCursors
  /\ queryCount - Len(delivered) < Window
  /\ txQueue' = Append(txQueue, queryCount + 1)
  /\ queryCount' = queryCount + 1
  /\ UNCHANGED <<bodyLen, txCursor, netVars, rxPipe, rxVars>>
-----------------------------------------------------------------------------
(***************************************************************************)
(* The tx thread, CT_Dequeue_Encrypt_Send.                                 *)
(***************************************************************************)

\* A cursor event is taken off txQueue and its request sent to the server.
TxSend ==
  /\ txCursor = None
  /\ txQueue # <<>>
  /\ txCursor' = Head(txQueue)
  /\ txQueue' = Tail(txQueue)
  /\ requests' = Append(requests, Head(txQueue))
  /\ UNCHANGED <<appVars, net, sock, rxPipe, rxVars>>

\* Mutant: the pipe is written before a cursor was dequeued.
CTCursorRecvOnQueueEarly ==
  /\ rxPipe' = Append(rxPipe, txCursor)
  /\ txCursor' = None
  /\ UNCHANGED <<appVars, txQueue, netVars, rxVars>>

\* CTCursorRecvOnQueue: only now is the cursor written to the rx thread's pipe.
CTCursorRecvOnQueue ==
  /\ txCursor # None
  /\ rxPipe' = Append(rxPipe, txCursor)
  /\ txCursor' = None
  /\ UNCHANGED <<appVars, txQueue, netVars, rxVars>>
-----------------------------------------------------------------------------
(***************************************************************************)
(* The server and the network: answers in the order of the requests, a     *)
(* byte stream that is delivered in pieces.                                *)
(***************************************************************************)

Response(c) ==
  [p \in 1 .. (HeaderLen + bodyLen[c]) |-> [req |-> c, pos |-> p]]

\* A response that comes before its cursor is in rxPipe is harmless while every
\* earlier response was called back: nothing is read until the pipe is written.
InTime(c) == c # txCursor \/ Len(delivered) = c - 1

Answer ==
  /\ requests # <<>>
  /\ Outrun \/ InTime(Head(requests))
  /\ net' = net \o Response(Head(requests))
  /\ requests' = Tail(requests)
  /\ UNCHANGED <<appVars, txVars, sock, rxPipe, rxVars>>

\* The stream may be cut after its n-th byte.
MayCut(n) ==
  WholeHeaders /\ n < Len(net) => net[n + 1].pos \notin 2 .. HeaderLen

Deliver ==
  \E n \in 1 .. Len(net) :
    /\ MayCut(n)
    /\ sock' = sock \o SubSeq(net, 1, n)
    /\ net' = SubSeq(net, n + 1, Len(net))
    /\ UNCHANGED <<appVars, txVars, requests, rxPipe, rxVars>>
-----------------------------------------------------------------------------
(***************************************************************************)
(* The rx thread, CT_Dequeue_Recv_Decrypt.                                 *)
(***************************************************************************)

\* The first header in a buffer ends at its i-th byte.
HeaderEndsAt(buf, i) ==
  /\ buf[i].pos = HeaderLen
  /\ \A j \in 1 .. (i - 1) : buf[j].pos # HeaderLen

\* Mutant: the pointer returned is one byte behind the header.
HeaderEndPastIt(buf) ==
  IF \E i \in 1 .. Len(buf) : HeaderEndsAt(buf, i)
  THEN 1 + CHOOSE i \in 1 .. Len(buf) : HeaderEndsAt(buf, i)
  ELSE 0

\* End of the first header in a buffer, 0 when there is none: the client's
\* headerLengthCallback, which searches for the blank line.
HeaderEnd(buf) ==
  IF \E i \in 1 .. Len(buf) : HeaderEndsAt(buf, i)
  THEN CHOOSE i \in 1 .. Len(buf) : HeaderEndsAt(buf, i)
  ELSE 0

\* The callback also sets contentLength, from the header it found.
ContentLength(c) == IF header[c] = None THEN 0 ELSE bodyLen[header[c]]

\* Mutant: the last byte of the header is taken for the body's first.
MoveBodyEarly(buf, end, lastRead) ==
  SubSeq(buf, end, lastRead) \o [i \in 1 .. (Len(buf) - lastRead) |-> Junk]

\* The body is moved over the header.  The length of the move is computed
\* from the bytes of the last read only.
MoveBody(buf, end, lastRead) ==
  SubSeq(buf, end + 1, lastRead) \o [i \in 1 .. (Len(buf) - lastRead) |-> Junk]

\* Top of the loop: a cursor that waits for more bytes comes first.
RxTakeEvent ==
  /\ rxpc = "top"
  /\ \E c \in rxQueue :
       /\ cursor' = c
       /\ rxQueue' = rxQueue \ {c}
  /\ rxpc' = "taken"
  /\ UNCHANGED <<appVars, txVars, netVars, rxPipe, responseCount, stage,
                 header, data, delivered>>

\* Mutant: a new cursor is taken although one waits for more bytes.
RxTakePipeEager ==
  /\ rxpc = "top"
  /\ rxPipe # <<>>
  /\ cursor' = Head(rxPipe)
  /\ rxPipe' = Tail(rxPipe)
  /\ rxpc' = "taken"
  /\ UNCHANGED <<appVars, txVars, netVars, rxQueue, responseCount, stage,
                 header, data, delivered>>

\* Otherwise the thread blocks on rxPipe for a new cursor.
RxTakePipe ==
  /\ rxpc = "top"
  /\ rxQueue = {}
  /\ rxPipe # <<>>
  /\ cursor' = Head(rxPipe)
  /\ rxPipe' = Tail(rxPipe)
  /\ rxpc' = "taken"
  /\ UNCHANGED <<appVars, txVars, netVars, rxQueue, responseCount, stage,
                 header, data, delivered>>

\* What a read of bytes for cursor c does to its buffer: the bytes go behind
\* those the cursor has, and the end of its header is looked for.  When the
\* header came in two reads the length of the move may wrap around below zero,
\* and the process dies in memmove.
Receive(c, bytes) ==
  LET buf   == data[c] \o bytes
      end   == IF header[c] = None THEN HeaderEnd(buf) ELSE 0
      wraps == end > Len(bytes)
  IN /\ header' = [header EXCEPT ![c] = IF end = 0 \/ wraps THEN @ ELSE buf[end].req]
     /\ data' = [data EXCEPT ![c] =
                   IF end = 0 \/ wraps THEN buf ELSE MoveBody(buf, end, Len(bytes))]
     /\ rxpc' = IF wraps THEN "aborted" ELSE "process"

\* The socket is readable: schedule the cursor if it is new, and read what
\* there is.
RxRecv ==
  /\ rxpc = "taken"
  /\ sock # <<>>
  /\ sock' = <<>>
  /\ stage' = [stage EXCEPT ![cursor] = "RECEIVE"]
  /\ responseCount' =
       IF stage[cursor] = "SCHEDULE" /\ ~(responseCount > 0)
       THEN responseCount + 1 ELSE responseCount
  /\ Receive(cursor, sock)
  /\ UNCHANGED <<appVars, txVars, requests, net, rxPipe, rxQueue, cursor, delivered>>

\* contentLength > 0 && contentLength <= buf - file.buffer
Complete(c) == ContentLength(c) \in 1 .. Len(data[c])

\* Mutant: no event is triggered for the bytes still missing.
CTCursorAsyncRecvLost ==
  /\ rxpc = "process"
  /\ ~Complete(cursor)
  /\ cursor' = None
  /\ rxpc' = "top"
  /\ UNCHANGED <<appVars, txVars, netVars, rxPipe, rxQueue, responseCount, stage,
                 header, data, delivered>>

\* Incomplete: CTCursorAsyncRecv triggers a USER event on rxQueue that brings
\* the cursor back with the next readable bytes.
CTCursorAsyncRecv ==
  /\ rxpc = "process"
  /\ ~Complete(cursor)
  /\ rxQueue' = rxQueue \cup {cursor}
  /\ cursor' = None
  /\ rxpc' = "top"
  /\ UNCHANGED <<appVars, txVars, netVars, rxPipe, responseCount, stage,
                 header, data, delivered>>

\* What the response callback of a completed cursor is given.
Callback(c) ==
  [cursor |-> c, header |-> header[c], body |-> SubSeq(data[c], 1, ContentLength(c))]

\* Mutant: the header is counted, although the body was moved over it.
OverlapPastHeader(c) == SubSeq(data[c], HeaderLen + ContentLength(c) + 1, Len(data[c]))

\* The bytes in the buffer of a completed cursor that follow its response.
Overlap(c) == SubSeq(data[c], ContentLength(c) + 1, Len(data[c]))

\* Mutant: the connection's response count is not taken down.
RxCloseUncounted ==
  /\ rxpc = "process"
  /\ Complete(cursor)
  /\ rxPipe = <<>>
  /\ delivered' = Append(delivered, Callback(cursor))
  /\ rxQueue' = rxQueue \ {cursor}
  /\ cursor' = None
  /\ rxpc' = "top"
  /\ UNCHANGED <<appVars, txVars, netVars, rxPipe, responseCount, stage, header, data>>

\* Complete, and no cursor is waiting in rxPipe: the callback is issued and the
\* loop left; the overlap stays behind in the closed cursor's buffer.
RxClose ==
  /\ rxpc = "process"
  /\ Complete(cursor)
  /\ rxPipe = <<>>
  /\ delivered' = Append(delivered, Callback(cursor))
  /\ responseCount' = responseCount - 1
  /\ rxQueue' = rxQueue \ {cursor}
  /\ cursor' = None
  /\ rxpc' = "top"
  /\ UNCHANGED <<appVars, txVars, netVars, rxPipe, stage, header, data>>

\* Complete, and a cursor is waiting in rxPipe: the overlap is copied to that
\* cursor, whose header is looked for in it.  With bytes left the loop goes on
\* with that cursor; without, it is queued for the next readable bytes.  When
\* the overlap holds no header end, buf is not moved behind the copied bytes.
RxCloseAndSwitch ==
  /\ rxpc = "process"
  /\ Complete(cursor)
  /\ rxPipe # <<>>
  /\ LET next == Head(rxPipe)
         over == Overlap(cursor)
         end  == HeaderEnd(over)
         body == IF end = 0 THEN <<>> ELSE SubSeq(over, end + 1, Len(over))
         more == IF end = 0 THEN Len(over) ELSE Len(body)
     IN /\ data' = [data EXCEPT ![next] = body]
        /\ header' = [header EXCEPT ![next] = IF end = 0 THEN None ELSE over[end].req]
        /\ cursor' = IF more > 0 THEN next ELSE None
        /\ rxpc' = IF more > 0 THEN "process" ELSE "top"
        /\ rxQueue' = (rxQueue \cup (IF more > 0 THEN {} ELSE {next})) \ {cursor}
  /\ rxPipe' = Tail(rxPipe)
  /\ delivered' = Append(delivered, Callback(cursor))
  /\ responseCount' = (responseCount + 1) - 1
  /\ UNCHANGED <<appVars, txVars, netVars, stage>>
-----------------------------------------------------------------------------
TxThread == TxSend \/ CTCursorRecvOnQueue

RxThread ==
  RxTakeEvent \/ RxTakePipe \/ RxRecv \/ CTCursorAsyncRecv \/ RxClose \/ RxCloseAndSwitch

Network == Answer \/ Deliver

\* Every cursor was called back: the threads wait for ever.
Finished == Len(delivered) = NumCursors /\ UNCHANGED vars

Next == CTCursorSendOnQueue \/ TxThread \/ RxThread \/ Network \/ Finished

\* The two threads run, the server answers, the network delivers; the
\* application need not send.
Fairness == WF_vars(TxThread) /\ WF_vars(RxThread) /\ WF_vars(Answer) /\ WF_vars(Deliver)

Spec == Init /\ [][Next]_vars

FairSpec == Spec /\ Fairness
-----------------------------------------------------------------------------
TypeOK ==
  /\ bodyLen \in [Cursors -> BodyLens]
  /\ queryCount \in 0 .. NumCursors
  /\ txQueue \in Seq(Cursors) /\ txCursor \in Cursors \cup {None}
  /\ requests \in Seq(Cursors) /\ net \in Seq(Bytes) /\ sock \in Seq(Bytes)
  /\ rxPipe \in Seq(Cursors)
  /\ rxQueue \subseteq Cursors /\ rxpc \in RxStates
  /\ cursor \in Cursors \cup {None}
  /\ responseCount \in Int
  /\ stage \in [Cursors -> {"SCHEDULE", "RECEIVE"}]
  /\ header \in [Cursors -> Cursors \cup {None}]
  /\ data \in [Cursors -> Seq(Units)]
  /\ delivered \in Seq(Callbacks)

\* The cursor the rx thread works on or will be woken with.
Held == rxQueue \cup ({cursor} \ {None})

\* The elements of s go on with the numbers after k.
ContinuesFrom(s, k) == \A i \in 1 .. Len(s) : s[i] = k + i

\* The last cursors that reached the rx thread, rxPipe, and the tx thread.
LastHeld  == Len(delivered) + (IF Held = {} THEN 0 ELSE 1)
LastPiped == LastHeld + Len(rxPipe)
LastTaken == LastPiped + (IF txCursor = None THEN 0 ELSE 1)

\* Whatever the order of the threads' steps and of the packets, every cursor
\* that was sent is in one place (called back, held by the rx thread, in
\* rxPipe, in the tx thread's hands, on txQueue) and none overtakes another:
\* callbacks come in the order of the requests, each once.  The rx thread holds
\* at most one cursor, which is why one READ event can only mean that cursor.
CursorOrder ==
  /\ \A i \in 1 .. Len(delivered) : delivered[i].cursor = i
  /\ Held \subseteq {LastHeld}
  /\ cursor # None => rxQueue = {}
  /\ ContinuesFrom(rxPipe, LastHeld)
  /\ txCursor \in {None, LastPiped + 1}
  /\ ContinuesFrom(txQueue, LastTaken)
  /\ queryCount = LastTaken + Len(txQueue)

\* responseCount decides whether the connection is free for a new cursor, and
\* the code asserts that it never gets below zero.  It is one while a cursor is
\* being received and zero again whenever the rx thread holds none; a cursor
\* handed over from one response to the next is counted exactly once.
ResponseCountExact ==
  /\ responseCount = (IF Held = {} THEN 0 ELSE 1)
       \/ (rxpc = "taken" /\ stage[cursor] = "SCHEDULE" /\ responseCount = 0)
  /\ rxpc = "process" => responseCount = 1

\* A response callback is given the header of the request its cursor sent and
\* that response's body, byte for byte: no byte is lost or given to another
\* cursor where one read returns the bytes of several responses.
OwnResponse ==
  \A i \in 1 .. Len(delivered) :
    LET d == delivered[i]
    IN /\ d.header = d.cursor
       /\ d.body = SubSeq(Response(d.cursor), HeaderLen + 1, HeaderLen + bodyLen[d.cursor])

\* The bytes received for cursor c.
Received(c) ==
  IF header[c] = None THEN data[c]
  ELSE SubSeq(Response(header[c]), 1, HeaderLen) \o data[c]

\* Byte n comes after byte b in the stream of responses.
Follows(b, n) ==
  IF b.pos < HeaderLen + bodyLen[b.req]
  THEN n = [b EXCEPT !.pos = @ + 1]
  ELSE n = [req |-> b.req + 1, pos |-> 1]

\* s is the stream of responses from that to request r on, as far as it goes.
IsStreamFrom(r, s) ==
  /\ s # <<>> => s[1] = [req |-> r, pos |-> 1]
  /\ \A i \in 1 .. (Len(s) - 1) : Follows(s[i], s[i + 1])

\* What the cursor that is received next has of the stream.
Have == IF Held = {} THEN <<>> ELSE Received(Len(delivered) + 1)

\* However the network cuts the stream into reads and the rx thread hands the
\* overlaps on, no byte is lost, doubled or reordered between the socket and the
\* cursors: what the current cursor has, what is readable and what is under way
\* are the stream of responses that starts with the cursor's own.
StreamIntact == IsStreamFrom(Len(delivered) + 1, Have \o sock \o net)

\* The length the body is moved by never wraps around.
NeverAborts == rxpc # "aborted"

\* The pipeline keeps the promise of CTPromise: a callback answers the oldest
\* cursor, with data of its own, and every cursor sent is called back.
Origin(d) ==
  IF /\ d.header = d.cursor
     /\ d.body = SubSeq(Response(d.cursor), HeaderLen + 1, HeaderLen + bodyLen[d.cursor])
  THEN d.cursor ELSE None

Promise == INSTANCE CTPromise WITH
  asked    <- queryCount,
  answered <- [i \in 1 .. Len(delivered) |-> <<delivered[i].cursor, Origin(delivered[i])>>]

KeepsPromise == Promise!Spec
==============================================================================
