--------------------------- MODULE CTTLSHandshake ---------------------------
(***************************************************************************)
(* The asynchronous TLS handshake (version 1.2) over an established        *)
(* connection, from CTSSLRoutine to the client's connect callback:         *)
(*                                                                         *)
(*    client                                      server                   *)
(*      client hello       ------------------->                            *)
(*                         <-------------------   first flight             *)
(*      key exchange       ------------------->                            *)
(*      finished           ------------------->                            *)
(*                         <-------------------   second flight            *)
(*                                                                         *)
(* The TLS library does not touch the socket.  What it wants to send is    *)
(* sent by the tx thread, with a cursor; what it wants to read it takes    *)
(* from the cursor's buffer, in pieces of its own choice (a record's       *)
(* header, then its body), and a piece that is not there in full makes it  *)
(* give up with "want read" until it is called again.  The cursor's        *)
(* response callback then has to keep the bytes the library has not taken, *)
(* and to read more behind them.                                           *)
(*                                                                         *)
(* Two builds: SecureTransport with kqueue, and WolfSSL with Windows'      *)
(* completion ports.  The query counts of the messages are modelled in     *)
(* CTConnectQueue; a library that refuses what it is given is not modelled *)
(* here.                                                                   *)
(***************************************************************************)
EXTENDS Integers, Sequences, FiniteSetsExt

CONSTANTS
  Backends,    \* the builds: a subset of {"SecureTransport", "WolfSSL"}
  FirstReads,  \* positions of the server's stream at which a read of the TLS
  LastReads,   \* library ends, in the first and in the second flight
  Stale        \* what contentLength of a cursor taken from the pool may be

ASSUME BackendsAssumption == Backends \subseteq {"SecureTransport", "WolfSSL"}
ASSUME ReadsAssumption ==
  /\ FirstReads \subseteq Nat \ {0} /\ LastReads \subseteq Nat
  /\ \E e \in FirstReads : \A i \in FirstReads : i <= e
  /\ \E e \in LastReads : \A i \in LastReads : i <= e
  /\ \A i \in FirstReads, j \in LastReads : i < j
ASSUME StaleAssumption == Stale \subseteq Nat

FirstEnd == Max(FirstReads)
LastEnd == Max(LastReads)
Messages == {"hello", "key exchange", "finished"}

VARIABLES
  backend,        \* the build
  cxpc,           \* has CTSSLRoutine sent the client hello?
  txQueue,        \* messages whose event is triggered on txQueue
  tx,             \* the message the tx thread has sent, until it is done with it
  txpc,           \* where the tx thread is
  requests,       \* messages on their way to the server
  sent,           \* the number of bytes the server has sent
  net, sock,      \* bytes on their way to the client, and readable
  rxPipe,         \* cursors given to the rx thread
  rxpc,           \* where the rx thread is
  reading,        \* is a read for the cursor posted (its event triggered)?
  awaits,         \* the flight the cursor's callbacks handle
  contentLength,  \* cursor->contentLength
  base,           \* overlappedResponse.buf - file.buffer of the posted read
  data,           \* file.buffer up to where the next read goes
  fed,            \* the bytes the TLS library has taken
  responseCount,  \* conn->responseCount
  answers         \* the calls of the client's callback: did it succeed?

txVars == <<txQueue, tx, txpc>>
serverVars == <<requests, sent, net, sock>>
cursorVars == <<awaits, contentLength, base, data>>
rxVars == <<rxpc, reading, cursorVars, fed, responseCount, answers>>
vars == <<backend, cxpc, txVars, serverVars, rxPipe, rxVars>>

Init ==
  /\ backend \in Backends
  /\ cxpc = "connected"
  /\ txQueue = <<>> /\ tx = <<>> /\ txpc = "top"
  /\ requests = <<>> /\ sent = 0 /\ net = <<>> /\ sock = <<>>
  /\ rxPipe = <<>> /\ rxpc = "top" /\ reading = FALSE
  /\ awaits = "first" /\ contentLength \in Stale /\ base = 0 /\ data = <<>>
  /\ fed = <<>> /\ responseCount = 0 /\ answers = <<>>
-----------------------------------------------------------------------------
\* The library has put the client hello into a buffer and wants it written:
\* CTSSLRoutine sends it with a cursor from the pool.  The cursor it clears is
\* another one.
CTSSLRoutine ==
  /\ cxpc = "connected"
  /\ cxpc' = "done"
  /\ txQueue' = Append(txQueue, "hello")
  /\ UNCHANGED <<backend, tx, txpc, serverVars, rxPipe, rxVars>>
-----------------------------------------------------------------------------
(***************************************************************************)
(* The tx thread.                                                          *)
(***************************************************************************)
TxSend ==
  /\ txpc = "top" /\ txQueue # <<>>
  /\ txpc' = "sent"
  /\ tx' = <<Head(txQueue)>>
  /\ txQueue' = Tail(txQueue)
  /\ requests' = Append(requests, Head(txQueue))
  /\ UNCHANGED <<backend, cxpc, sent, net, sock, rxPipe, rxVars>>

\* SSLSecondMessageQueryCallback: the key exchange is sent.  The library goes
\* on, writes the rest of its messages to the socket itself, and gives up
\* wanting to read.
SSLSecondMessageQueryCallback ==
  /\ txpc = "sent" /\ tx = <<"key exchange">>
  /\ txpc' = "queried"
  /\ requests' = Append(requests, "finished")
  /\ UNCHANGED <<backend, cxpc, txQueue, tx, sent, net, sock, rxPipe, rxVars>>

CTCursorRecvOnQueue ==
  /\ txpc = IF tx = <<"key exchange">> THEN "queried" ELSE "sent"
  /\ txpc' = "top" /\ tx' = <<>>
  /\ rxPipe' = rxPipe \o tx
  /\ UNCHANGED <<backend, cxpc, txQueue, serverVars, rxVars>>
-----------------------------------------------------------------------------
(***************************************************************************)
(* The server and the network.                                             *)
(***************************************************************************)
Flight(from, to) == [i \in 1 .. to - from |-> from + i]

ServerAnswers ==
  /\ requests # <<>>
  /\ requests' = Tail(requests)
  /\ LET to == CASE Head(requests) = "hello" -> FirstEnd
                 [] Head(requests) = "key exchange" -> sent
                 [] Head(requests) = "finished" -> LastEnd
     IN  net' = net \o Flight(sent, to) /\ sent' = to
  /\ UNCHANGED <<backend, cxpc, txVars, sock, rxPipe, rxVars>>

Deliver ==
  \E n \in 1 .. Len(net) :
    /\ sock' = sock \o SubSeq(net, 1, n)
    /\ net' = SubSeq(net, n + 1, Len(net))
    /\ UNCHANGED <<backend, cxpc, txVars, requests, sent, rxPipe, rxVars>>
-----------------------------------------------------------------------------
(***************************************************************************)
(* The rx thread.                                                          *)
(***************************************************************************)

\* A cursor comes from the tx thread: the Windows build posts a read for it,
\* the other one waits for readable bytes first and reads at once.
RxSchedule ==
  /\ rxpc = "top" /\ rxPipe # <<>> /\ ~reading
  /\ backend = "SecureTransport" => sock # <<>>
  /\ rxPipe' = Tail(rxPipe)
  /\ responseCount' = responseCount + 1
  /\ reading' = TRUE /\ base' = 0 /\ data' = <<>>
  /\ UNCHANGED <<backend, cxpc, txVars, serverVars, rxpc, awaits, contentLength, fed, answers>>

\* SSLFirstMessageHeaderLengthCallback and SSLSecondMessageHeaderLengthCallback
\* for length bytes: there is no header, and everything read is content.  What
\* is left of the first flight was counted when it was left.
ContentLength(length) ==
  IF awaits = "first" THEN contentLength + length ELSE length

\* Bytes are read behind those in the buffer; those from base on are shown to the
\* header length callback.  When the content is not complete, the cursor reads
\* on behind it.
RxRecv ==
  /\ rxpc = "top" /\ reading /\ sock # <<>>
  /\ sock' = <<>>
  /\ data' = data \o sock
  /\ contentLength' = ContentLength(Len(data) - base + Len(sock))
  /\ IF contentLength' <= Len(data')
     THEN rxpc' = "received" /\ reading' = FALSE /\ UNCHANGED base
     ELSE base' = Len(data') /\ UNCHANGED <<rxpc, reading>>
  /\ UNCHANGED <<backend, cxpc, txVars, requests, sent, net, rxPipe, awaits, fed,
                 responseCount, answers>>

\* CTWolfSSLRecv and CTSecureTransportRecv: how many of n bytes the library takes,
\* read by read, until one asks for more than is left.
CTSSLRecv(n) ==
  LET ends == {e \in FirstReads \cup LastReads : e <= Len(fed) + n}
  IN  Max(ends \cup {Len(fed)}) - Len(fed)

Taken == SubSeq(data, 1, CTSSLRecv(Len(data)))

\* Mutant: the bytes taken stay in the buffer.
LeftAll == data

Left == SubSeq(data, CTSSLRecv(Len(data)) + 1, Len(data))

\* The response is closed before its callback is called, which gives the library
\* what is in the buffer.
Respond(flight) ==
  /\ rxpc = "received" /\ awaits = flight
  /\ rxpc' = "top"
  /\ fed' = fed \o Taken

\* Mutant: the bytes left are an offset of the read as well as counted.
FirstResponseIncompleteTwice ==
  /\ Respond("first")
  /\ Len(fed') < FirstEnd
  /\ data' = Left /\ contentLength' = Len(Left) /\ base' = 0
  /\ reading' = TRUE
  /\ UNCHANGED <<backend, cxpc, txVars, serverVars, rxPipe, awaits, responseCount, answers>>

\* CTSSLHandshakeProcessFirstResponse, the library wants to read: what it has left
\* is moved to the front and counted in contentLength, the next read goes behind
\* it, and the cursor is counted as if it were a new one.
FirstResponseIncomplete ==
  /\ Respond("first")
  /\ Len(fed') < FirstEnd
  /\ data' = Left /\ contentLength' = Len(Left) /\ base' = Len(Left)
  /\ reading' = TRUE
  /\ UNCHANGED <<backend, cxpc, txVars, serverVars, rxPipe, awaits, responseCount, answers>>

\* CTSSLHandshakeProcessFirstResponse, the library wants to write: the cursor is
\* set up for the second flight and sent with the key exchange.
FirstResponseComplete ==
  /\ Respond("first")
  /\ Len(fed') = FirstEnd
  /\ responseCount' = responseCount - 1
  /\ awaits' = "second" /\ contentLength' = 0
  /\ txQueue' = Append(txQueue, "key exchange")
  /\ UNCHANGED <<backend, cxpc, tx, txpc, serverVars, rxPipe, reading, base, data, answers>>

\* CTSSLHandshakeProcessSecondResponse, the library wants to read: what it has
\* left is moved to the front, and is the offset of the next read.
ReadOnBehind ==
  /\ data' = Left /\ contentLength' = 0 /\ base' = 0
  /\ reading' = TRUE

\* Mutant: the cursor is not counted again.
SecondResponseIncompleteUncounted ==
  /\ backend = "WolfSSL"
  /\ Respond("second")
  /\ Len(fed') < LastEnd
  /\ ReadOnBehind
  /\ responseCount' = responseCount - 1
  /\ UNCHANGED <<backend, cxpc, txVars, serverVars, rxPipe, awaits, answers>>

\* Mutant: the callback goes on when the library wants to read.
SecondResponseIncompleteGoesOn ==
  /\ backend = "WolfSSL"
  /\ Respond("second")
  /\ Len(fed') < LastEnd
  /\ ReadOnBehind
  /\ responseCount' = 0
  /\ answers' = Append(answers, TRUE)
  /\ UNCHANGED <<backend, cxpc, txVars, serverVars, rxPipe, awaits>>

\* WolfSSL: the cursor is counted again, and the callback returns.
SecondResponseIncomplete ==
  /\ backend = "WolfSSL"
  /\ Respond("second")
  /\ Len(fed') < LastEnd
  /\ ReadOnBehind
  /\ UNCHANGED <<backend, cxpc, txVars, serverVars, rxPipe, awaits, responseCount, answers>>

\* SecureTransport: for SSLSecondMessageResponseCallback every result but success
\* is an error.  It closes the socket, clears the counts and calls the client back
\* with the error.
SecondResponseFails ==
  /\ backend = "SecureTransport"
  /\ Respond("second")
  /\ Len(fed') < LastEnd
  /\ ReadOnBehind
  /\ responseCount' = 0
  /\ answers' = Append(answers, FALSE)
  /\ net' = <<>> /\ sock' = <<>>
  /\ UNCHANGED <<backend, cxpc, txVars, requests, sent, rxPipe, awaits>>

\* Mutant: the counts are not cleared, and the response is not uncounted.
SecondResponseCompleteCounted ==
  /\ Respond("second")
  /\ Len(fed') = LastEnd
  /\ answers' = Append(answers, TRUE)
  /\ UNCHANGED <<backend, cxpc, txVars, serverVars, rxPipe, reading, cursorVars, responseCount>>

\* The handshake is complete: the counts are cleared for the client, and it is
\* called back.
SecondResponseComplete ==
  /\ Respond("second")
  /\ Len(fed') = LastEnd
  /\ responseCount' = 0
  /\ answers' = Append(answers, TRUE)
  /\ UNCHANGED <<backend, cxpc, txVars, serverVars, rxPipe, reading, cursorVars>>
-----------------------------------------------------------------------------
TxThread == TxSend \/ SSLSecondMessageQueryCallback \/ CTCursorRecvOnQueue

RxThread ==
  \/ RxSchedule \/ RxRecv
  \/ FirstResponseIncomplete \/ FirstResponseComplete
  \/ SecondResponseIncomplete \/ SecondResponseFails \/ SecondResponseComplete

Next == CTSSLRoutine \/ TxThread \/ RxThread \/ ServerAnswers \/ Deliver

\* All threads run, the server answers and the network delivers.
Fairness ==
  /\ WF_vars(CTSSLRoutine) /\ WF_vars(TxThread) /\ WF_vars(RxThread)
  /\ WF_vars(ServerAnswers) /\ WF_vars(Deliver)

Spec == Init /\ [][Next]_vars

FairSpec == Spec /\ Fairness
-----------------------------------------------------------------------------
Bytes == 1 .. LastEnd

TypeOK ==
  /\ backend \in Backends /\ cxpc \in {"connected", "done"}
  /\ txQueue \in Seq(Messages) /\ tx \in Seq(Messages)
  /\ txpc \in {"top", "sent", "queried"}
  /\ requests \in Seq(Messages) /\ sent \in 0 .. LastEnd
  /\ net \in Seq(Bytes) /\ sock \in Seq(Bytes)
  /\ rxPipe \in Seq(Messages) /\ rxpc \in {"top", "received"} /\ reading \in BOOLEAN
  /\ awaits \in {"first", "second"}
  /\ contentLength \in Nat /\ base \in 0 .. Len(data) /\ data \in Seq(Bytes)
  /\ fed \in Seq(Bytes) /\ responseCount \in Nat /\ answers \in Seq(BOOLEAN)

\* The bytes in the cursor's buffer the library has not been given.
Pending == IF reading \/ rxpc = "received" THEN data ELSE <<>>

\* However the flights are cut into reads and into the pieces the library asks
\* for, the bytes it has taken, those kept for it, and those still to be read
\* are together what the server has sent: none is lost, given twice or
\* overtaken.
FlightsIntact ==
  answers = <<>> => fed \o Pending \o sock \o net = Flight(0, sent)

\* While the handshake goes on, its response is counted exactly as long as the rx
\* thread has the cursor, however often its callback reads on, and at the end the
\* count is zero: one more, and the cursors of the next connection on the queue
\* would never be read for (Windows); one less, and the assertion that the count
\* is not negative fails.
ResponseCounted ==
  responseCount = IF answers = <<>> /\ (reading \/ rxpc = "received") THEN 1 ELSE 0

\* The client is called back at most once, and when it is told that it is
\* connected, the library has the server's messages to the end and nothing of
\* the handshake is left under way: the next byte read from the socket will be
\* the start of the answer to the client's first request.
CleanHandover ==
  /\ Len(answers) <= 1
  /\ answers = <<TRUE>> =>
       /\ fed = Flight(0, LastEnd)
       /\ txQueue = <<>> /\ tx = <<>> /\ rxPipe = <<>> /\ ~reading
       /\ requests = <<>> /\ net = <<>> /\ sock = <<>>

\* A handshake that was started is answered.
HandshakeAnswered == (cxpc # "connected") ~> (answers # <<>>)
==============================================================================
