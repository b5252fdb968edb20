--------------------------- MODULE CTReQLHandshake ---------------------------
(***************************************************************************)
(* The RethinkDB handshake over an established connection, as the          *)
(* asynchronous API runs it in the kqueue build (CTReQLAsyncHandshake):    *)
(*                                                                         *)
(*    client                                      server                   *)
(*      magic number       ------------------->                            *)
(*      client first       ------------------->                            *)
(*                         <-------------------   magic response           *)
(*                         <-------------------   server first             *)
(*      client final       ------------------->                            *)
(*                         <-------------------   server final             *)
(*                                                                         *)
(* The thread of the connect callback sends the first two messages without *)
(* waiting in between, each with a cursor of its own.  The magic number's  *)
(* cursor has no headerLengthCallback and is never given to the rx thread: *)
(* the other one receives the magic response as the "header" of the server *)
(* first message.  Its response callback, in the rx thread, sends the      *)
(* client final message with the same cursor and token.                    *)
(*                                                                         *)
(* Nothing in the stream says how long a message is.  The header callbacks *)
(* guess: what the first read returned behind the magic response, or       *)
(* GuessLen bytes when it returned nothing behind it; and for the server   *)
(* final message whatever the first read returned.                         *)
(***************************************************************************)
EXTENDS Integers, Sequences

CONSTANTS
  MagicLen,   \* length of the magic response
  FirstLens,  \* the lengths the server first message may have
  FinalLen,   \* length of the server final message
  GuessLen,   \* the length of the server first message the code counts on (113)
  Whole,      \* does the read that returns the magic response, or the server
              \* final message, never return part of a message?
  Refusals,   \* the messages the server may refuse, a subset of Messages
  Unsigned    \* may the server final message lack the signature?

Messages == {"magic", "first", "final"}

\* What the server says of the client's message.  It accepts or refuses it.  Its
\* final message is "refused" when it holds no authentication value, or another
\* signature than the client expects; it is "unsigned", whatever it says of
\* success, when that value does not start with v=, or when only the beginning of
\* the signature follows, or nothing.
AllVerdicts == {"accepted", "refused", "unsigned"}

Verdicts(msg) ==
  {"accepted"} \cup (IF msg \in Refusals THEN {"refused"} ELSE {})
               \cup (IF msg = "final" /\ Unsigned THEN {"unsigned"} ELSE {})

ASSUME LengthsAssumption ==
  /\ MagicLen \in Nat \ {0} /\ FinalLen \in Nat \ {0} /\ GuessLen \in Nat \ {0}
  /\ FirstLens \subseteq Nat \ {0}
ASSUME EnvironmentAssumption ==
  Whole \in BOOLEAN /\ Unsigned \in BOOLEAN /\ Refusals \subseteq Messages

\* A byte of the server's answer to a message.
Bytes == [msg : Messages, pos : Nat \ {0}, says : AllVerdicts]

VARIABLES
  cxpc,           \* where the thread that starts the handshake is
  queryCount,     \* conn->queryCount
  txQueue,        \* messages whose USER event is triggered on txQueue
  tx,             \* the message the tx thread has sent, until it is done with it
  requests,       \* messages on their way to the server
  firstLen,       \* length of the server first message
  net, sock,      \* bytes on their way to the client, and readable
  rxPipe,         \* overlapped structures in rxPipe, by their message
  rxpc,           \* where the rx thread is
  waiting,        \* is the cursor's USER event triggered on rxQueue?
  awaits,         \* the message whose answer the cursor's callbacks handle
  headerFound,    \* cursor->headerLength > 0
  contentLength,  \* cursor->contentLength
  data,           \* file.buffer up to overlappedResponse.buf
  responseCount,  \* conn->responseCount
  processed,      \* the bytes given to the functions that process a message
  answers         \* the calls of the client's callback: did it succeed?

clientVars == <<cxpc, queryCount, txQueue, tx>>
serverVars == <<requests, firstLen, net, sock>>
rxVars == <<rxpc, waiting, awaits, headerFound, contentLength, data, responseCount,
            processed, answers>>
vars == <<clientVars, serverVars, rxPipe, rxVars>>

Init ==
  /\ cxpc = "connected" /\ queryCount = 0
  /\ txQueue = <<>> /\ tx = <<>>
  /\ requests = <<>> /\ firstLen \in FirstLens /\ net = <<>> /\ sock = <<>>
  /\ rxPipe = <<>>
  /\ rxpc = "top" /\ waiting = FALSE /\ awaits = "first"
  /\ headerFound = FALSE /\ contentLength = 0 /\ data = <<>>
  /\ responseCount = 0
  /\ processed = <<>> /\ answers = <<>>
-----------------------------------------------------------------------------
(***************************************************************************)
(* The thread of the connect callback.  The query of a message is counted  *)
(* after its event was triggered, a step of its own.                       *)
(***************************************************************************)

\* No random bytes for the nonce: the client is called back at once.
NonceFails ==
  /\ cxpc = "connected"
  /\ cxpc' = "done"
  /\ answers' = Append(answers, FALSE)
  /\ UNCHANGED <<queryCount, txQueue, tx, serverVars, rxPipe, rxpc, waiting, awaits,
                 headerFound, contentLength, data, responseCount, processed>>

Trigger(from, msg, to) ==
  /\ cxpc = from
  /\ cxpc' = to
  /\ txQueue' = Append(txQueue, msg)
  /\ UNCHANGED <<queryCount, tx, serverVars, rxPipe, rxVars>>

Count(from, to) ==
  /\ cxpc = from
  /\ cxpc' = to
  /\ queryCount' = queryCount + 1
  /\ UNCHANGED <<txQueue, tx, serverVars, rxPipe, rxVars>>

CTReQLAsyncHandshake ==
  \/ NonceFails
  \/ Trigger("connected", "magic", "magicSent")
  \/ Count("magicSent", "magicCounted")
  \/ Trigger("magicCounted", "first", "firstSent")
  \/ Count("firstSent", "done")
-----------------------------------------------------------------------------
(***************************************************************************)
(* The tx thread.                                                          *)
(***************************************************************************)
TxSend ==
  /\ tx = <<>>
  /\ txQueue # <<>>
  /\ tx' = <<Head(txQueue)>>
  /\ txQueue' = Tail(txQueue)
  /\ requests' = Append(requests, Head(txQueue))
  /\ UNCHANGED <<cxpc, queryCount, firstLen, net, sock, rxPipe, rxVars>>

\* A cursor without a headerLengthCallback is not given to the rx thread.
CTCursorRecvOnQueue ==
  /\ tx # <<>>
  /\ tx' = <<>>
  /\ rxPipe' = IF tx[1] = "magic" THEN rxPipe ELSE rxPipe \o tx
  /\ UNCHANGED <<cxpc, queryCount, txQueue, serverVars, rxVars>>
-----------------------------------------------------------------------------
(***************************************************************************)
(* The server and the network.  The server answers every message it gets,  *)
(* until it has refused one.                                               *)
(***************************************************************************)
LengthOf(msg) ==
  CASE msg = "magic" -> MagicLen [] msg = "first" -> firstLen [] msg = "final" -> FinalLen

Reply(msg, says) == [p \in 1 .. LengthOf(msg) |-> [msg |-> msg, pos |-> p, says |-> says]]

ServerAnswers ==
  /\ requests # <<>>
  /\ \E says \in Verdicts(Head(requests)) :
       /\ net' = net \o Reply(Head(requests), says)
       /\ requests' = IF says = "refused" THEN <<>> ELSE Tail(requests)
  /\ UNCHANGED <<clientVars, firstLen, sock, rxPipe, rxVars>>

\* The stream may be cut behind its n-th byte.
MayCut(n) ==
  \/ ~Whole
  \/ net[n].pos = LengthOf(net[n].msg)
  \/ net[n].msg = "first" /\ headerFound

Deliver ==
  \E n \in 1 .. Len(net) :
    /\ MayCut(n)
    /\ sock' = sock \o SubSeq(net, 1, n)
    /\ net' = SubSeq(net, n + 1, Len(net))
    /\ UNCHANGED <<clientVars, requests, firstLen, rxPipe, rxVars>>
-----------------------------------------------------------------------------
(***************************************************************************)
(* The rx thread.                                                          *)
(***************************************************************************)

\* The cursor comes back for more bytes, or is read from rxPipe.
RxTake ==
  /\ rxpc = "top"
  /\ IF waiting
     THEN waiting' = FALSE /\ UNCHANGED rxPipe
     ELSE rxPipe # <<>> /\ rxPipe' = Tail(rxPipe) /\ UNCHANGED waiting
  /\ rxpc' = "taken"
  /\ UNCHANGED <<clientVars, serverVars, awaits, headerFound, contentLength, data,
                 responseCount, processed, answers>>

\* The magic response is at the start of the buffer, and the server accepted.
MagicAccepted(buf) ==
  /\ Len(buf) >= MagicLen
  /\ \A p \in 1 .. MagicLen : buf[p] = [msg |-> "magic", pos |-> p, says |-> "accepted"]

\* Mutant: the null character behind the magic response is counted twice.
BodyLengthShort(buf) == Len(buf) - (MagicLen + 1)

\* What the first read returned behind the magic response.
BodyLength(buf) == Len(buf) - MagicLen

\* Mutant: the magic response stays in front of the message.
BodyKept(buf) == buf

\* What is left in the buffer when the magic response, its header, is not.
Body(buf) == SubSeq(buf, MagicLen + 1, Len(buf))

\* Readable bytes, for the first time since the client first message: the
\* header callback looks for an accepted magic response, and without one the
\* process dies, in the callback's assertion or in the move of the body.
RxRecvFirst ==
  /\ rxpc = "taken" /\ sock # <<>>
  /\ awaits = "first" /\ ~headerFound
  /\ sock' = <<>>
  /\ responseCount' = responseCount + 1
  /\ IF MagicAccepted(sock)
     THEN /\ headerFound' = TRUE
          /\ contentLength' = IF BodyLength(sock) = 0 THEN GuessLen ELSE BodyLength(sock)
          /\ data' = Body(sock)
          /\ rxpc' = "received"
     ELSE rxpc' = "aborted" /\ UNCHANGED <<headerFound, contentLength, data>>
  /\ UNCHANGED <<clientVars, requests, firstLen, net, rxPipe, waiting, awaits,
                 processed, answers>>

\* More bytes of the server first message.
RxRecvMore ==
  /\ rxpc = "taken" /\ sock # <<>>
  /\ awaits = "first" /\ headerFound
  /\ sock' = <<>>
  /\ data' = data \o sock
  /\ rxpc' = "received"
  /\ UNCHANGED <<clientVars, requests, firstLen, net, rxPipe, waiting, awaits,
                 headerFound, contentLength, responseCount, processed, answers>>

\* The server final message is what the first read returns.
RxRecvFinal ==
  /\ rxpc = "taken" /\ sock # <<>>
  /\ awaits = "final"
  /\ sock' = <<>>
  /\ responseCount' = responseCount + 1
  /\ data' = sock
  /\ contentLength' = Len(sock)
  /\ rxpc' = "received"
  /\ UNCHANGED <<clientVars, requests, firstLen, net, rxPipe, waiting, awaits,
                 headerFound, processed, answers>>

Complete == contentLength \in 1 .. Len(data)

\* Mutant: no event is triggered for the bytes still missing.
CTCursorAsyncRecvLost ==
  /\ rxpc = "received"
  /\ ~Complete
  /\ rxpc' = "top"
  /\ UNCHANGED <<clientVars, serverVars, rxPipe, waiting, awaits, headerFound,
                 contentLength, data, responseCount, processed, answers>>

CTCursorAsyncRecv ==
  /\ rxpc = "received"
  /\ ~Complete
  /\ waiting' = TRUE
  /\ rxpc' = "top"
  /\ UNCHANGED <<clientVars, serverVars, rxPipe, awaits, headerFound, contentLength,
                 data, responseCount, processed, answers>>

\* The buffer holds the server first message to its end, and "success":true.
AcceptsFirst(buf) ==
  buf[Len(buf)] = [msg |-> "first", pos |-> firstLen, says |-> "accepted"]

\* Mutant: the result of the comparison of the signatures is lost.
AcceptsFinalAny(buf) == {TRUE}

\* Does the client accept the server final message?  It looks for an authentication
\* value, whatever the message says of success, and compares it with the signature
\* it expects; a value that is no signature it does not compare.  When only part
\* of the message was read, what the buffer holds behind it is left from the
\* message sent.
AcceptsFinal(buf) ==
  IF Len(buf) < FinalLen THEN BOOLEAN
  ELSE {buf[FinalLen] \in [msg : {"final"}, pos : {FinalLen}, says : {"accepted", "unsigned"}]}

\* Mutant: the function goes on after it has called the client back.
FirstMessageRefusedGoesOn ==
  /\ rxpc = "received" /\ Complete
  /\ awaits = "first" /\ ~AcceptsFirst(data)
  /\ processed' = Append(processed, data)
  /\ responseCount' = responseCount - 1
  /\ answers' = Append(answers, FALSE)
  /\ awaits' = "final"
  /\ headerFound' = FALSE /\ contentLength' = 0 /\ data' = <<>>
  /\ txQueue' = Append(txQueue, "final")
  /\ queryCount' = queryCount + 1
  /\ rxpc' = "top"
  /\ UNCHANGED <<cxpc, tx, serverVars, rxPipe, waiting>>

\* ReQLFirstMessageResponseCallback: no "success":true in the buffer, the client
\* is called back with an error.
FirstMessageRefused ==
  /\ rxpc = "received" /\ Complete
  /\ awaits = "first" /\ ~AcceptsFirst(data)
  /\ processed' = Append(processed, data)
  /\ responseCount' = responseCount - 1
  /\ answers' = Append(answers, FALSE)
  /\ rxpc' = "top"
  /\ UNCHANGED <<clientVars, serverVars, rxPipe, waiting, awaits, headerFound,
                 contentLength, data>>

\* ReQLFirstMessageResponseCallback: the cursor is set up for the server final
\* message, and sent again with the client final message.
FirstMessageAccepted ==
  /\ rxpc = "received" /\ Complete
  /\ awaits = "first" /\ AcceptsFirst(data)
  /\ processed' = Append(processed, data)
  /\ responseCount' = responseCount - 1
  /\ awaits' = "final"
  /\ headerFound' = FALSE /\ contentLength' = 0 /\ data' = <<>>
  /\ txQueue' = Append(txQueue, "final")
  /\ queryCount' = queryCount + 1
  /\ rxpc' = "top"
  /\ UNCHANGED <<cxpc, tx, serverVars, rxPipe, waiting, answers>>

\* ReQLFinalMessageResponseCallback: the counts are cleared for the client, and
\* it is called back with the result.
FinalMessage ==
  /\ rxpc = "received" /\ Complete
  /\ awaits = "final"
  /\ processed' = Append(processed, data)
  /\ \E ok \in AcceptsFinal(data) : answers' = Append(answers, ok)
  /\ responseCount' = 0 /\ queryCount' = 0
  /\ rxpc' = "top"
  /\ UNCHANGED <<cxpc, txQueue, tx, serverVars, rxPipe, waiting, awaits, headerFound,
                 contentLength, data>>
-----------------------------------------------------------------------------
TxThread == TxSend \/ CTCursorRecvOnQueue

RxThread ==
  \/ RxTake \/ RxRecvFirst \/ RxRecvMore \/ RxRecvFinal
  \/ CTCursorAsyncRecv
  \/ FirstMessageRefused \/ FirstMessageAccepted \/ FinalMessage

Next == CTReQLAsyncHandshake \/ TxThread \/ RxThread \/ ServerAnswers \/ Deliver

\* All threads run, the server answers and the network delivers.
Fairness ==
  /\ WF_vars(CTReQLAsyncHandshake) /\ WF_vars(TxThread) /\ WF_vars(RxThread)
  /\ WF_vars(ServerAnswers) /\ WF_vars(Deliver)

Spec == Init /\ [][Next]_vars

FairSpec == Spec /\ Fairness
-----------------------------------------------------------------------------
TypeOK ==
  /\ cxpc \in {"connected", "magicSent", "magicCounted", "firstSent", "done"}
  /\ queryCount \in Nat
  /\ txQueue \in Seq(Messages) /\ tx \in Seq(Messages)
  /\ requests \in Seq(Messages) /\ firstLen \in FirstLens
  /\ net \in Seq(Bytes) /\ sock \in Seq(Bytes)
  /\ rxPipe \in Seq(Messages)
  /\ rxpc \in {"top", "taken", "received", "aborted"} /\ waiting \in BOOLEAN
  /\ awaits \in {"first", "final"}
  /\ headerFound \in BOOLEAN /\ contentLength \in Nat /\ data \in Seq(Bytes)
  /\ responseCount \in Int
  /\ processed \in Seq(Seq(Bytes)) /\ answers \in Seq(BOOLEAN)

\* Whichever of the reads returns the magic response alone or together with the
\* server first message, and however far the starting thread has come, every
\* function that processes a message is given exactly the server's answer to
\* that message, in the order of the protocol.
OwnMessages ==
  /\ Len(processed) <= 2
  /\ \A i \in 1 .. Len(processed) :
       \E says \in AllVerdicts : processed[i] = Reply(<<"first", "final">>[i], says)

\* The client is called back at most once, and after that the handshake has
\* nothing under way: no message to be sent, no byte to be read, no cursor held
\* by the rx thread.  The connection is the client's, and the next byte it reads
\* will be the answer to its own first query.
CleanHandover ==
  answers # <<>> =>
    /\ Len(answers) = 1
    /\ txQueue = <<>> /\ requests = <<>> /\ net = <<>> /\ sock = <<>>
    /\ rxPipe = <<>> /\ ~waiting /\ rxpc = "top" /\ responseCount = 0

\* Success is reported only when the server has accepted the client's first message
\* and has not refused its final one: both answers are in the client's hands to
\* their ends, and none of an earlier message is taken for them.  The code does not
\* promise more: an authentication value that is no signature will do for it.
SuccessMeansNotRefused ==
  answers = <<TRUE>> =>
    \E says \in {"accepted", "unsigned"} :
      processed = <<Reply("first", "accepted"), Reply("final", says)>>

\* A handshake that was started is answered, whether the server accepts its
\* messages or refuses one.
HandshakeAnswered == (cxpc # "connected") ~> (answers # <<>>)
==============================================================================
