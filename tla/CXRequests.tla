------------------------------ MODULE CXRequests ------------------------------
(***************************************************************************)
(* The requests of the C++ wrapper over one plain connection, ReQL queries *)
(* in the first place (CXReQLQuery, CXReQLCursor, CXConnection, CXQueue).  *)
(* Its tx and rx threads are copies of those of CTPipeline, which this     *)
(* module extends.  What the wrapper adds:                                 *)
(*                                                                         *)
(*   run, Continue ---- insert ---> maps: query token -> cursor, callback  *)
(*                                    |                                    *)
(*   rx thread: header found -- find -+                                    *)
(*              response complete -- find, erase, call the callback        *)
(*                                                                         *)
(* A callback may send from within: a new query, or, when the response was *)
(* a partial sequence, Continue, which sends the same cursor again with    *)
(* the same query token.  The connection's own callback runs in the rx     *)
(* thread as well, at the end of the handshake.  Nothing has a lock, so    *)
(* the client of this module sends from its callbacks only, which keeps    *)
(* the maps and the query count in one thread.                             *)
(*                                                                         *)
(* A cursor of CTPipeline is one exchange here, a message and its answer:  *)
(* Continue clears the cursor's header and content length and the send     *)
(* its overlapped structure, so that it starts over.                       *)
(***************************************************************************)
EXTENDS CTPipeline, FiniteSets

CONSTANT Partial   \* exchanges whose answer is a partial sequence

ASSUME PartialAssumption == Partial \subseteq Cursors

VARIABLES
  requestCount, \* conn->requestCount, which is conn->queryCount
  token,        \* exchange -> the query token of its message and cursor
  cxCursor,     \* exchange -> its CXCursor, by the exchange it was made for
  cursors,      \* the connection's map: query token -> CXCursor
  callbacks,    \* its map _queries: query token -> callback, by the exchange
                \* it was given for
  inCallback,   \* is the rx thread in a callback?
  current,      \* the exchange whose response it was given, until it Continues
  called        \* the calls of callbacks: the callback and the cursor given to it

cxVars == <<requestCount, token, cxCursor, cursors, callbacks, inCallback, current, called>>
allVars == <<vars, cxVars>>

\* The connection's own callback is running.
CXInit ==
  /\ Init
  /\ requestCount = 0
  /\ token = <<>> /\ cxCursor = <<>>
  /\ cursors = <<>> /\ callbacks = <<>>
  /\ inCallback = TRUE /\ current = None /\ called = <<>>
-----------------------------------------------------------------------------
(***************************************************************************)
(* Maps, with the operations of std::map: insert keeps the entry there is. *)
(***************************************************************************)
Insert(map, key, value) ==
  IF key \in DOMAIN map THEN map
  ELSE [k \in DOMAIN map \cup {key} |-> IF k = key THEN value ELSE map[k]]

Erase(map, key) == [k \in DOMAIN map \ {key} |-> map[k]]
-----------------------------------------------------------------------------
(***************************************************************************)
(* The client.                                                             *)
(***************************************************************************)

\* Client code may send.
MaySend ==
  /\ inCallback /\ rxpc # "aborted"
  /\ queryCount < NumCursors /\ queryCount - Len(delivered) < Window

\* The process dies in an assertion or in std::map::at.
Abort ==
  /\ rxpc' = "aborted"
  /\ UNCHANGED <<appVars, txVars, netVars, rxPipe, rxQueue, cursor, responseCount, stage,
                 header, data, delivered, cxVars>>

\* Mutant: the message is counted twice.
CountedTwice == requestCount + 2

\* Mutant: a message sent from the callback of a response is not counted.
CountedOutside == IF current = None THEN requestCount + 1 ELSE requestCount

\* CTCursorSendOnQueue ends with conn->queryCount++.
Counted == requestCount + 1

\* The cursor and the callback are registered under the token, where the code
\* asserts that there is no cursor, and the cursor is sent and counted.
SendWithToken(tok, object) ==
  IF tok \in DOMAIN cursors
  THEN Abort
  ELSE /\ cursors' = Insert(cursors, tok, object)
       /\ callbacks' = Insert(callbacks, tok, queryCount + 1)
       /\ token' = Append(token, tok)
       /\ cxCursor' = Append(cxCursor, object)
       /\ CTCursorSendOnQueue
       /\ requestCount' = Counted
       /\ current' = IF object = queryCount + 1 THEN current ELSE None
       /\ UNCHANGED <<inCallback, called>>

\* CXReQLQuery::run, CXURLRequest::send: a new cursor, and the token the
\* connection's count says.
Run == MaySend /\ SendWithToken(requestCount, queryCount + 1)

\* Mutant: the query is sent with a token of its own.
ContinueAnew ==
  /\ MaySend
  /\ current \in Partial
  /\ SendWithToken(requestCount, cxCursor[current])

\* CXReQLQuery::Continue, in the callback of a partial response: the cursor
\* and its token once more.
Continue ==
  /\ MaySend
  /\ current \in Partial
  /\ SendWithToken(token[current], cxCursor[current])

\* The callback returns to the rx thread's loop.
Return ==
  /\ inCallback
  /\ inCallback' = FALSE
  /\ current' = None
  /\ UNCHANGED <<vars, requestCount, token, cxCursor, cursors, callbacks, called>>
-----------------------------------------------------------------------------
(***************************************************************************)
(* The rx thread, CX_Dequeue_Recv_Decrypt: where it differs from the one   *)
(* of CTPipeline.                                                          *)
(***************************************************************************)
InLoop == ~inCallback /\ rxpc # "aborted"

\* getRequestCursorForKey finds the cursor c under its token, and
\* ProcessResponseHeader its token in the header of the response to e.
Finds(c, e) ==
  /\ token[c] \in DOMAIN cursors
  /\ cursors[token[c]] = cxCursor[c]
  /\ token[e] = token[c]

CXTake == InLoop /\ (RxTakeEvent \/ RxTakePipe) /\ UNCHANGED cxVars

\* The header of the response is processed by the cursor found in the map.
CXRecv ==
  /\ InLoop
  /\ rxpc = "taken" /\ sock # <<>>
  /\ IF header[cursor] = None => Finds(cursor, sock[1].req)
     THEN RxRecv /\ UNCHANGED cxVars
     ELSE Abort

CXAsyncRecv == InLoop /\ CTCursorAsyncRecv /\ UNCHANGED cxVars

\* Mutant: the cursor is not erased.
DistributeCursorKept(tok) ==
  /\ called' = Append(called, [callback |-> callbacks[tok], cursor |-> cursors[tok]])
  /\ callbacks' = Erase(callbacks, tok)
  /\ UNCHANGED cursors

\* Mutant: the callback is not erased.
DistributeCallbackKept(tok) ==
  /\ called' = Append(called, [callback |-> callbacks[tok], cursor |-> cursors[tok]])
  /\ cursors' = Erase(cursors, tok)
  /\ UNCHANGED callbacks

\* distributeResponseWithCursorForToken: cursor and callback are taken out of
\* the maps before the callback is called, which may register the token again.
Distribute(tok) ==
  /\ called' = Append(called, [callback |-> callbacks[tok], cursor |-> cursors[tok]])
  /\ cursors' = Erase(cursors, tok)
  /\ callbacks' = Erase(callbacks, tok)

Registered(tok) == tok \in DOMAIN cursors /\ tok \in DOMAIN callbacks

\* A complete response, with or without a cursor to hand the overlap to, whose
\* header is then processed by that cursor: the client is called back.
CXClose ==
  /\ InLoop
  /\ rxpc = "process" /\ Complete(cursor)
  /\ IF /\ Registered(token[cursor])
        /\ (rxPipe # <<>> /\ Overlap(cursor) # <<>>) =>
             Finds(Head(rxPipe), Overlap(cursor)[1].req)
     THEN /\ RxClose \/ RxCloseAndSwitch
          /\ Distribute(token[cursor])
          /\ inCallback' = TRUE
          /\ current' = cursor
          /\ UNCHANGED <<requestCount, token, cxCursor>>
     ELSE Abort
-----------------------------------------------------------------------------
CXClient == Run \/ Continue

CXRxThread == CXTake \/ CXRecv \/ CXAsyncRecv \/ CXClose \/ Return

CXTxThread == TxThread /\ UNCHANGED cxVars

CXNetwork == Network /\ UNCHANGED cxVars

\* Every exchange is over, and no callback sends another message.
CXFinished ==
  Len(called) = queryCount /\ InLoop /\ UNCHANGED allVars

CXNext ==
  CXClient \/ CXTxThread \/ CXRxThread \/ CXNetwork \/ CXFinished

\* As in CTPipeline; the client's callbacks return.
CXFairness ==
  /\ WF_allVars(CXTxThread)
  /\ WF_allVars(CXRxThread)
  /\ WF_allVars(Answer /\ UNCHANGED cxVars)
  /\ WF_allVars(Deliver /\ UNCHANGED cxVars)

CXSpec == CXInit /\ [][CXNext]_allVars

CXFairSpec == CXSpec /\ CXFairness
-----------------------------------------------------------------------------
(***************************************************************************)
(* Properties                                                              *)
(***************************************************************************)
Tokens == 0 .. (NumCursors - 1)

CXTypeOK ==
  /\ TypeOK
  /\ requestCount = queryCount
  /\ token \in Seq(Tokens) /\ Len(token) = queryCount
  /\ cxCursor \in Seq(Cursors) /\ Len(cxCursor) = queryCount
  /\ DOMAIN cursors \subseteq Tokens /\ DOMAIN callbacks \subseteq Tokens
  /\ \A tok \in DOMAIN cursors : cursors[tok] \in Cursors
  /\ \A tok \in DOMAIN callbacks : callbacks[tok] \in Cursors
  /\ inCallback \in BOOLEAN
  /\ current \in Cursors \cup {None}
  /\ called \in Seq([callback : Cursors, cursor : Cursors])

\* The exchanges under way: sent, and not called back.
UnderWay == (Len(called) + 1) .. queryCount

\* The maps say exactly what is under way, through every registration from a
\* callback: each message has its cursor and its callback under its token, no
\* two messages share one, and nothing of a finished exchange stays behind.
MapsExact ==
  /\ DOMAIN cursors = {token[e] : e \in UnderWay}
  /\ DOMAIN callbacks = DOMAIN cursors
  /\ \A e \in UnderWay : cursors[token[e]] = cxCursor[e] /\ callbacks[token[e]] = e
  /\ Cardinality(DOMAIN cursors) = Cardinality(UnderWay)

\* "Each cursor request gets sent with a unique query token id": messages have
\* the same token exactly when they continue one query, with one cursor,
\* although Continue counts a message without taking a token.
TokensOfQueries ==
  \A e, f \in 1 .. queryCount : token[e] = token[f] <=> cxCursor[e] = cxCursor[f]

\* The callback given with a message is called with the cursor the message was
\* sent with, which holds that message's response; a response to a continued
\* query goes to the callback given to that Continue.
OwnCallback ==
  /\ OwnResponse
  /\ Len(called) = Len(delivered)
  /\ \A i \in 1 .. Len(called) : called[i] = [callback |-> i, cursor |-> cxCursor[i]]

\* Every message sent, first or continued, is called back.
EveryMessageAnswered == \A e \in Cursors : (queryCount >= e) ~> (Len(called) >= e)
==============================================================================
