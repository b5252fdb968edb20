--------------------------- MODULE CXRequestsProofs ---------------------------
(***************************************************************************)
(* Proofs about CXRequests, for any number of exchanges, any of them       *)
(* continued or not, any window and any lengths.                           *)
(*                                                                         *)
(* The maps and the tokens are right whatever the server and the network   *)
(* do.  Where no response outruns its cursor and no header is cut, no      *)
(* message of the wrapper ever fails to find its cursor: each step is one  *)
(* of CTPipeline or a callback's return, so what is proved of the pipeline *)
(* holds of the wrapper's requests.                                        *)
(***************************************************************************)
EXTENDS CXRequests, CTPipelineProofs, FiniteSetTheorems
-----------------------------------------------------------------------------
(***************************************************************************)
(* The inductive invariant.                                                *)
(***************************************************************************)

\* The types of what the wrapper adds.
CXTypes ==
  /\ requestCount = queryCount
  /\ token \in Seq(Tokens) /\ Len(token) = queryCount
  /\ cxCursor \in Seq(Cursors) /\ Len(cxCursor) = queryCount
  /\ inCallback \in BOOLEAN
  /\ current \in Cursors \cup {None}
  /\ called \in Seq([callback : Cursors, cursor : Cursors])

\* A token is the number of the exchange its cursor was made for.
QueryTokens == \A e \in 1 .. queryCount : cxCursor[e] \in 1 .. e /\ token[e] = cxCursor[e] - 1

\* The entries of the maps, as one expects them.
Entries ==
  /\ DOMAIN cursors = {token[e] : e \in UnderWay}
  /\ DOMAIN callbacks = DOMAIN cursors
  /\ \A e \in UnderWay : cursors[token[e]] = cxCursor[e] /\ callbacks[token[e]] = e

OwnTokens == \A e, f \in UnderWay : token[e] = token[f] => e = f

\* The exchange that may be continued is over, and no other has its token.
CurrentIsOver ==
  current # None =>
    /\ current \in 1 .. Len(called)
    /\ \A e \in UnderWay : token[e] # token[current]

\* What a callback is called with.
CallOf(i) == [callback |-> i, cursor |-> cxCursor[i]]
Calls ==
  /\ Len(called) = Len(delivered)
  /\ \A i \in 1 .. Len(called) : called[i] = CallOf(i)

Maps == CXTypes /\ QueryTokens /\ Entries /\ OwnTokens /\ CurrentIsOver /\ Calls

\* The pipeline is in order until the process dies.
InOrder == TypeInv /\ (rxpc # "aborted" => IInv)

CXInv == InOrder /\ Maps
-----------------------------------------------------------------------------
(***************************************************************************)
(* Facts about the maps, and about the numbers of the exchanges.           *)
(***************************************************************************)
LEMMA InsertDomain ==
  \A map, key, value :
    key \notin DOMAIN map => DOMAIN Insert(map, key, value) = DOMAIN map \cup {key}
BY DEF Insert

LEMMA InsertedValue ==
  \A map, key, value : key \notin DOMAIN map => Insert(map, key, value)[key] = value
BY DEF Insert

LEMMA InsertKeeps ==
  \A map, key, value :
    key \notin DOMAIN map => \A k \in DOMAIN map : Insert(map, key, value)[k] = map[k]
BY DEF Insert

LEMMA EraseDomain == \A map, key : DOMAIN Erase(map, key) = DOMAIN map \ {key}
BY DEF Erase

LEMMA EraseKeeps ==
  \A map, key : \A k \in DOMAIN map : k # key => Erase(map, key)[k] = map[k]
BY DEF Erase

\* Every exchange called back was sent, and so was the one the rx thread holds.
LEMMA ExchangeNumbers ==
  ASSUME IInv
  PROVE  /\ Len(delivered) \in Nat /\ queryCount \in Nat /\ Len(delivered) <= queryCount
         /\ queryCount <= NumCursors /\ NumCursors \in Nat
         /\ rxpc # "top" => cursor = Len(delivered) + 1 /\ cursor <= queryCount
         /\ rxpc # "top" /\ rxPipe # <<>> =>
              Head(rxPipe) = cursor + 1 /\ cursor + 1 <= queryCount
<1>1. TypeOK /\ CursorOrder
  BY DEF IInv, TypeInv
<1>2. /\ Len(delivered) \in Nat /\ Len(rxPipe) \in Nat /\ Len(txQueue) \in Nat
      /\ queryCount \in Nat /\ queryCount <= NumCursors /\ NumCursors \in Nat
  BY <1>1, NumCursorsAssumption DEF TypeOK
<1>3. /\ LastHeld \in Nat /\ LastPiped = LastHeld + Len(rxPipe) /\ LastTaken \in Nat
      /\ LastTaken >= LastPiped /\ queryCount = LastTaken + Len(txQueue)
      /\ LastHeld >= Len(delivered)
  <2>1. LastHeld \in Nat /\ LastPiped \in Nat /\ LastTaken \in Nat
    BY <1>1, LastTypes
  <2>2. LastTaken >= LastPiped
    BY <2>1 DEF LastTaken
  <2>3. LastHeld >= Len(delivered)
    BY <1>2 DEF LastHeld
  <2> QED
    BY <1>1, <2>1, <2>2, <2>3 DEF LastPiped, CursorOrder
<1>4. rxpc # "top" => cursor = Len(delivered) + 1 /\ cursor = LastHeld
  BY CursorHeld
<1>5. rxPipe # <<>> => Head(rxPipe) = LastHeld + 1 /\ Len(rxPipe) >= 1
  <2> SUFFICES ASSUME rxPipe # <<>>
               PROVE  Head(rxPipe) = LastHeld + 1 /\ Len(rxPipe) >= 1
    OBVIOUS
  <2>1. rxPipe \in Seq(Cursors) /\ ContinuesFrom(rxPipe, LastHeld)
    BY <1>1 DEF TypeOK, CursorOrder
  <2> QED
    BY <1>2, <1>3, <2>1, ContinuesTail
<1> QED
  BY <1>2, <1>3, <1>4, <1>5
-----------------------------------------------------------------------------
(***************************************************************************)
(* The maps.                                                               *)
(***************************************************************************)
LEMMA MapsInit == CXInit => Maps
<1> SUFFICES ASSUME CXInit
             PROVE  Maps
  OBVIOUS
<1>1. /\ requestCount = 0 /\ token = <<>> /\ cxCursor = <<>> /\ cursors = <<>>
      /\ callbacks = <<>> /\ inCallback = TRUE /\ current = None /\ called = <<>>
      /\ queryCount = 0 /\ delivered = <<>>
  BY DEF CXInit, Init
<1>2. Len(called) = 0 /\ UnderWay = {} /\ DOMAIN cursors = {} /\ DOMAIN callbacks = {}
  BY <1>1 DEF UnderWay
<1>3. CXTypes
  BY <1>1 DEF CXTypes
<1>4. Entries /\ OwnTokens
  BY <1>2 DEF Entries, OwnTokens
<1>5. QueryTokens /\ CurrentIsOver /\ Calls
  BY <1>1, <1>2 DEF QueryTokens, CurrentIsOver, Calls
<1> QED
  BY <1>3, <1>4, <1>5 DEF Maps

\* A step that neither sends nor calls back.
LEMMA MapsQuiet ==
  ASSUME Maps, queryCount' = queryCount, Len(delivered)' = Len(delivered), UNCHANGED cxVars
  PROVE  Maps'
BY DEF Maps, cxVars, CXTypes, QueryTokens, Entries, OwnTokens, CurrentIsOver, Calls, CallOf,
       UnderWay

\* A callback returns.
LEMMA MapsReturn ==
  ASSUME Maps, Return
  PROVE  Maps'
<1>1. /\ inCallback' = FALSE /\ current' = None
      /\ UNCHANGED <<queryCount, delivered, requestCount, token, cxCursor, cursors,
                     callbacks, called>>
  BY DEF Return, vars, appVars, rxVars
<1>2. UnderWay' = UnderWay
  BY <1>1 DEF UnderWay
<1>3. CXTypes'
  BY <1>1 DEF Maps, CXTypes
<1>4. QueryTokens' /\ Entries' /\ OwnTokens'
  BY <1>1, <1>2 DEF Maps, QueryTokens, Entries, OwnTokens
<1>5. CurrentIsOver' /\ Calls'
  BY <1>1 DEF Maps, CurrentIsOver, Calls, CallOf
<1> QED
  BY <1>3, <1>4, <1>5 DEF Maps

\* A message is sent under the number of its cursor, which no message under way has.
LEMMA MapsSend ==
  ASSUME Maps, IInv, NEW object \in 1 .. queryCount + 1, NEW tok, tok = object - 1,
         tok \notin DOMAIN cursors, SendWithToken(tok, object)
  PROVE  Maps'
<1> DEFINE q == queryCount
           n == Len(called)
<1>1. /\ cursors' = Insert(cursors, tok, object)
      /\ callbacks' = Insert(callbacks, tok, q + 1)
      /\ token' = Append(token, tok) /\ cxCursor' = Append(cxCursor, object)
      /\ q < NumCursors /\ q' = q + 1 /\ delivered' = delivered
      /\ requestCount' = requestCount + 1
      /\ current' = (IF object = q + 1 THEN current ELSE None)
      /\ inCallback' = inCallback /\ called' = called
  BY DEF SendWithToken, CTCursorSendOnQueue, Counted, rxVars
<1>2. /\ q \in Nat /\ n \in Nat /\ n <= q /\ NumCursors \in Nat /\ n' = n
      /\ called \in Seq([callback : Cursors, cursor : Cursors])
  BY <1>1, ExchangeNumbers DEF Maps, Calls, CXTypes
<1>3. /\ token \in Seq(Tokens) /\ Len(token) = q
      /\ cxCursor \in Seq(Cursors) /\ Len(cxCursor) = q
  BY DEF Maps, CXTypes
<1>4. tok \in Tokens /\ object \in Cursors
  BY <1>1, <1>2 DEF Tokens, Cursors
<1>5. /\ token' \in Seq(Tokens) /\ Len(token') = q + 1 /\ token'[q + 1] = tok
      /\ \A e \in 1 .. q : token'[e] = token[e]
  BY <1>1, <1>3, <1>4, AppendProperties
<1>6. /\ cxCursor' \in Seq(Cursors) /\ Len(cxCursor') = q + 1 /\ cxCursor'[q + 1] = object
      /\ \A e \in 1 .. q : cxCursor'[e] = cxCursor[e]
  BY <1>1, <1>3, <1>4, AppendProperties
<1>7. UnderWay' = UnderWay \cup {q + 1} /\ UnderWay \subseteq 1 .. q
  BY <1>1, <1>2 DEF UnderWay
<1>8. CXTypes'
  <2>1. current' \in Cursors \cup {None}
    BY <1>1 DEF Maps, CXTypes
  <2> QED
    BY <1>1, <1>5, <1>6, <2>1 DEF Maps, CXTypes
<1>9. QueryTokens'
  <2>1. \A e \in 1 .. q : cxCursor[e] \in 1 .. e /\ token[e] = cxCursor[e] - 1
    BY DEF Maps, QueryTokens
  <2>2. \A e \in 1 .. q + 1 : e \in 1 .. q \/ e = q + 1
    BY <1>2
  <2>3. \A e \in 1 .. q + 1 : cxCursor'[e] \in 1 .. e /\ token'[e] = cxCursor'[e] - 1
    BY <1>5, <1>6, <2>1, <2>2
  <2> QED
    BY <1>1, <2>3 DEF QueryTokens
<1>10. /\ DOMAIN cursors = {token[e] : e \in UnderWay}
       /\ DOMAIN callbacks = DOMAIN cursors
       /\ \A e \in UnderWay : cursors[token[e]] = cxCursor[e] /\ callbacks[token[e]] = e
  BY DEF Maps, Entries
<1> HIDE DEF q, n
<1>11. Entries'
  <2>1. tok \notin DOMAIN callbacks /\ tok \notin DOMAIN cursors
    BY <1>10
  <2>2. DOMAIN cursors' = DOMAIN cursors \cup {tok} /\ DOMAIN callbacks' = DOMAIN cursors \cup {tok}
    <3>1. cursors' = Insert(cursors, tok, object) /\ callbacks' = Insert(callbacks, tok, q + 1)
      BY <1>1 DEF q
    <3>2. DOMAIN cursors' = DOMAIN cursors \cup {tok}
      BY <2>1, <3>1, InsertDomain
    <3>3. DOMAIN callbacks' = DOMAIN callbacks \cup {tok}
      BY <2>1, <3>1, InsertDomain
    <3> QED
      BY <1>10, <3>2, <3>3
  <2>7. cursors'[tok] = object /\ callbacks'[tok] = q + 1
    BY <1>1, <2>1, InsertedValue DEF q
  <2>8. \A k \in DOMAIN cursors : cursors'[k] = cursors[k] /\ callbacks'[k] = callbacks[k]
    <3>1. cursors' = Insert(cursors, tok, object) /\ callbacks' = Insert(callbacks, tok, q + 1)
      BY <1>1 DEF q
    <3>2. \A k \in DOMAIN cursors : cursors'[k] = cursors[k]
      BY <2>1, <3>1, InsertKeeps
    <3>3. \A k \in DOMAIN callbacks : callbacks'[k] = callbacks[k]
      BY <2>1, <3>1, InsertKeeps
    <3> QED
      BY <1>10, <3>2, <3>3
  <2>3. \A e \in UnderWay : token'[e] = token[e] /\ token[e] \in DOMAIN cursors
    BY <1>5, <1>7, <1>10
  <2>4. DOMAIN cursors' = {token'[e] : e \in UnderWay'}
    BY <1>5, <1>7, <1>10, <2>2, <2>3
  <2>5. \A e \in UnderWay' : cursors'[token'[e]] = cxCursor'[e] /\ callbacks'[token'[e]] = e
    <3> TAKE e \in UnderWay'
    <3>1. CASE e \in UnderWay
      <4>1. token'[e] = token[e] /\ token[e] \in DOMAIN cursors /\ cxCursor'[e] = cxCursor[e]
        BY <1>6, <1>7, <2>3, <3>1
      <4>2. cursors[token[e]] = cxCursor[e] /\ callbacks[token[e]] = e
        BY <1>10, <3>1
      <4> QED
        BY <2>8, <4>1, <4>2
    <3>2. CASE e = q + 1
      BY <1>5, <1>6, <2>7, <3>2
    <3> QED
      BY <1>7, <3>1, <3>2
  <2> QED
    BY <2>2, <2>4, <2>5 DEF Entries
<1>12. \A e \in UnderWay : token'[e] = token[e] /\ token[e] # tok
  BY <1>5, <1>7, <1>10
<1>13. OwnTokens'
  <2>1. \A e, f \in UnderWay : token[e] = token[f] => e = f
    BY DEF Maps, OwnTokens
  <2> QED
    BY <1>5, <1>7, <1>12, <2>1 DEF OwnTokens
<1>14. CurrentIsOver'
  <2>1. CASE current' = None
    BY <2>1 DEF CurrentIsOver
  <2>2. CASE current' # None
    <3>1. current' = current /\ tok = q /\ current # None
      <4>1. object = q + 1
        BY <1>1, <2>2
      <4>2. tok = q
        BY <1>2, <4>1
      <4> QED
        BY <1>1, <2>2, <4>1, <4>2
    <3>2. /\ current \in 1 .. n
          /\ \A e \in UnderWay : token[e] # token[current]
      BY <3>1 DEF Maps, CurrentIsOver, n
    <3>3. current \in 1 .. q /\ token'[current] = token[current]
      BY <1>2, <1>5, <3>2
    <3>4. token[current] # q
      BY <1>2, <3>3 DEF Maps, QueryTokens, q
    <3>5. \A e \in UnderWay' : token'[e] # token'[current]
      BY <1>5, <1>7, <1>12, <3>1, <3>2, <3>3, <3>4
    <3> QED
      BY <1>1, <3>1, <3>2, <3>5 DEF CurrentIsOver, n
  <2> QED
    BY <2>1, <2>2
<1>15. Calls'
  <2>1. Len(called) = Len(delivered) /\ \A i \in 1 .. n : called[i] = CallOf(i)
    BY DEF Maps, Calls, n
  <2>2. \A i \in 1 .. n : CallOf(i)' = CallOf(i)
    BY <1>2, <1>6 DEF CallOf
  <2> QED
    BY <1>1, <2>1, <2>2 DEF Calls, n
<1> QED
  BY <1>8, <1>9, <1>11, <1>13, <1>14, <1>15 DEF Maps

\* The client's messages are sent like that: a new query, whose token no message
\* has had, and a continued one, whose response was taken out of the maps.
LEMMA ClientSends ==
  ASSUME Maps, IInv, CXClient
  PROVE  \E object \in 1 .. queryCount + 1 :
           /\ object - 1 \notin DOMAIN cursors
           /\ SendWithToken(object - 1, object)
<1>1. /\ queryCount \in Nat /\ requestCount = queryCount /\ Len(called) <= queryCount
      /\ Len(called) \in Nat
  BY ExchangeNumbers DEF Maps, CXTypes, Calls
<1>2. \A e \in 1 .. queryCount : cxCursor[e] \in 1 .. e /\ token[e] = cxCursor[e] - 1
  BY DEF Maps, QueryTokens
<1>3. DOMAIN cursors = {token[e] : e \in UnderWay} /\ UnderWay \subseteq 1 .. queryCount
  BY <1>1 DEF Maps, Entries, UnderWay
<1>4. CASE Run
  <2> DEFINE object == queryCount + 1
  <2>1. object \in 1 .. queryCount + 1 /\ object - 1 = requestCount
    BY <1>1
  <2>2. SendWithToken(object - 1, object)
    BY <1>4, <2>1 DEF Run
  <2>3. \A e \in 1 .. queryCount : token[e] # queryCount
    BY <1>1, <1>2
  <2>4. object - 1 \notin DOMAIN cursors
    BY <1>1, <1>3, <2>3
  <2> QED
    BY <2>1, <2>2, <2>4
<1>5. CASE Continue
  <2> DEFINE object == cxCursor[current]
  <2>1. SendWithToken(token[current], object) /\ current \in Partial
    BY <1>5 DEF Continue
  <2>2. current # None
    BY <2>1, PartialAssumption DEF Cursors, None
  <2>3. current \in 1 .. Len(called) /\ \A e \in UnderWay : token[e] # token[current]
    BY <2>2 DEF Maps, CurrentIsOver
  <2>4. current \in 1 .. queryCount
    BY <1>1, <2>3
  <2>5. object \in 1 .. queryCount + 1 /\ token[current] = object - 1
    BY <1>1, <1>2, <2>4
  <2>6. token[current] \notin DOMAIN cursors
    BY <1>3, <2>3
  <2> HIDE DEF object
  <2> QED
    BY <2>1, <2>5, <2>6
<1> QED
  BY <1>4, <1>5 DEF CXClient

\* A response is complete: its entries are taken out, and its callback called.
LEMMA MapsClose ==
  ASSUME Maps, IInv, CXClose, rxpc' # "aborted"
  PROVE  Maps'
<1> DEFINE c == cursor
           n == Len(called)
<1>1. rxpc = "process"
  BY DEF CXClose
<1>2. /\ delivered' = Append(delivered, Callback(cursor)) /\ queryCount' = queryCount
      /\ Distribute(token[cursor]) /\ inCallback' = TRUE /\ current' = cursor
      /\ UNCHANGED <<requestCount, token, cxCursor>>
  BY DEF CXClose, Abort, RxClose, RxCloseAndSwitch, appVars
<1>3. /\ n \in Nat /\ queryCount \in Nat /\ c = n + 1 /\ c <= queryCount
      /\ queryCount <= NumCursors /\ NumCursors \in Nat
  BY <1>1, ExchangeNumbers DEF Maps, Calls
<1>4. Len(called) = Len(delivered) /\ Len(delivered') = Len(delivered) + 1
  <2>1. delivered \in Seq(Callbacks)
    BY DEF IInv, TypeInv, TypeOK
  <2> QED
    BY <1>2, <2>1 DEF Maps, Calls
<1>5. c \in UnderWay /\ c \in Cursors /\ c \in 1 .. queryCount
  BY <1>3 DEF UnderWay, Cursors
<1>6. /\ DOMAIN cursors = {token[e] : e \in UnderWay}
      /\ DOMAIN callbacks = DOMAIN cursors
      /\ \A e \in UnderWay : cursors[token[e]] = cxCursor[e] /\ callbacks[token[e]] = e
  BY DEF Maps, Entries
<1>7. cxCursor[c] \in Cursors
  BY <1>5 DEF Maps, CXTypes
<1>8. called' = Append(called, [callback |-> c, cursor |-> cxCursor[c]])
  <2>1. callbacks[token[c]] = c /\ cursors[token[c]] = cxCursor[c]
    BY <1>5, <1>6
  <2>2. called' = Append(called, [callback |-> callbacks[token[c]], cursor |-> cursors[token[c]]])
    BY <1>2 DEF Distribute
  <2> QED
    BY <2>1, <2>2
<1>9. /\ called' \in Seq([callback : Cursors, cursor : Cursors]) /\ Len(called') = n + 1
      /\ called'[n + 1] = CallOf(c) /\ \A i \in 1 .. n : called'[i] = called[i]
  <2>1. called \in Seq([callback : Cursors, cursor : Cursors])
    BY DEF Maps, CXTypes
  <2>2. [callback |-> c, cursor |-> cxCursor[c]] \in [callback : Cursors, cursor : Cursors]
    BY <1>5, <1>7
  <2> DEFINE r == [callback |-> c, cursor |-> cxCursor[c]]
  <2>3. r = CallOf(c) /\ called' = Append(called, r)
    BY <1>8 DEF CallOf
  <2> HIDE DEF r
  <2> QED
    BY <2>1, <2>2, <2>3, AppendProperties DEF r
<1> HIDE DEF n
<1>10. UnderWay' = UnderWay \ {c}
  BY <1>2, <1>3, <1>9 DEF UnderWay, n
<1>11. CXTypes'
  BY <1>2, <1>5, <1>9 DEF Maps, CXTypes
<1>12. QueryTokens'
  BY <1>2 DEF Maps, QueryTokens
<1>13. \A e, f \in UnderWay : token[e] = token[f] => e = f
  BY DEF Maps, OwnTokens
<1>14. OwnTokens'
  BY <1>2, <1>10, <1>13 DEF OwnTokens
<1>15. Entries'
  <2>1. cursors' = Erase(cursors, token[c]) /\ callbacks' = Erase(callbacks, token[c])
    BY <1>2 DEF Distribute
  <2>2. DOMAIN cursors' = DOMAIN cursors \ {token[c]}
    BY <2>1, EraseDomain
  <2>3. DOMAIN callbacks' = DOMAIN callbacks \ {token[c]}
    BY <2>1, EraseDomain
  <2>4. \A k \in DOMAIN cursors : k # token[c] => cursors'[k] = cursors[k]
    BY <2>1, EraseKeeps
  <2>5. \A k \in DOMAIN callbacks : k # token[c] => callbacks'[k] = callbacks[k]
    BY <2>1, EraseKeeps
  <2>6. \A e \in UnderWay' : e \in UnderWay /\ token[e] # token[c]
    BY <1>5, <1>10, <1>13
  <2>7. DOMAIN cursors' = {token'[e] : e \in UnderWay'}
    BY <1>2, <1>6, <1>10, <2>2, <2>6
  <2>8. \A e \in UnderWay' : token[e] \in DOMAIN cursors /\ token[e] \in DOMAIN callbacks
    BY <1>6, <2>6
  <2>9. \A e \in UnderWay' : cursors'[token'[e]] = cxCursor'[e] /\ callbacks'[token'[e]] = e
    <3> TAKE e \in UnderWay'
    <3>1. cursors[token[e]] = cxCursor[e] /\ callbacks[token[e]] = e
      BY <1>6, <2>6
    <3>2. token' = token /\ cxCursor' = cxCursor
      BY <1>2
    <3> QED
      BY <2>4, <2>5, <2>6, <2>8, <3>1, <3>2
  <2> QED
    BY <1>6, <2>2, <2>3, <2>7, <2>9 DEF Entries
<1>16. CurrentIsOver'
  <2>1. current' = c /\ c \in 1 .. Len(called')
    BY <1>2, <1>3, <1>9 DEF n
  <2>2. \A e \in UnderWay' : token'[e] # token'[c]
    BY <1>2, <1>5, <1>10, <1>13
  <2> QED
    BY <2>1, <2>2 DEF CurrentIsOver
<1>17. Calls'
  <2>1. \A i \in 1 .. n : called[i] = CallOf(i)
    BY DEF Maps, Calls, n
  <2>2. \A i : CallOf(i)' = CallOf(i)
    BY <1>2 DEF CallOf
  <2>3. \A i \in 1 .. n + 1 : i \in 1 .. n \/ i = n + 1
    BY <1>3 DEF n
  <2>4. \A i \in 1 .. n + 1 : called'[i] = CallOf(i)
    BY <1>3, <1>9, <2>1, <2>3 DEF n
  <2> QED
    BY <1>4, <1>9, <2>2, <2>4 DEF Calls, n
<1> QED
  BY <1>11, <1>12, <1>14, <1>15, <1>16, <1>17 DEF Maps
-----------------------------------------------------------------------------
(***************************************************************************)
(* The pipeline below: each step is one of CTPipeline's, leaves it alone,  *)
(* or ends the process.                                                    *)
(***************************************************************************)

\* A step of the pipeline, as the threads of the wrapper take it.
PipelineStep == CTCursorSendOnQueue \/ TxThread \/ RxThread \/ Network

LEMMA StepsOfPipeline ==
  ASSUME CXInv, CXNext
  PROVE  PipelineStep \/ UNCHANGED vars \/ (rxpc \in {"taken", "process"} /\ Abort)
<1>1. CASE CXClient
  <2>1. rxpc # "aborted"
    BY <1>1 DEF CXClient, Run, Continue, MaySend
  <2>2. PICK object \in 1 .. queryCount + 1 :
          /\ object - 1 \notin DOMAIN cursors /\ SendWithToken(object - 1, object)
    BY <1>1, <2>1, ClientSends DEF CXInv, InOrder
  <2> QED
    BY <2>2 DEF SendWithToken, PipelineStep
<1>2. CASE CXTxThread
  BY <1>2 DEF CXTxThread, PipelineStep
<1>3. CASE CXRxThread
  BY <1>3 DEF CXRxThread, CXTake, CXRecv, CXAsyncRecv, CXClose, Return, RxThread,
              PipelineStep
<1>4. CASE CXNetwork
  BY <1>4 DEF CXNetwork, PipelineStep
<1>5. CASE CXFinished
  BY <1>5 DEF CXFinished, allVars
<1> QED
  BY <1>1, <1>2, <1>3, <1>4, <1>5 DEF CXNext

\* After the process's end only its tx thread and the network are left, which the
\* model lets go on.
LEMMA StepsAfterEnd ==
  ASSUME CXInv, CXNext, rxpc = "aborted"
  PROVE  /\ TxThread \/ Network \/ UNCHANGED vars
         /\ rxpc' = "aborted"
<1>1. ~CXClient
  BY DEF CXClient, Run, Continue, MaySend
<1>2. CXRxThread => Return
  BY DEF CXRxThread, CXTake, CXRecv, CXAsyncRecv, CXClose, InLoop
<1>3. TxThread \/ Network \/ UNCHANGED vars
  BY <1>1, <1>2 DEF CXNext, CXTxThread, CXNetwork, Return, CXFinished, allVars
<1> QED
  BY <1>3 DEF TxThread, TxSend, CTCursorRecvOnQueue, Network, Answer, Deliver, vars, rxVars

LEMMA OrderKept ==
  ASSUME CXInv, [CXNext]_allVars
  PROVE  InOrder'
<1>1. TypeInv /\ (rxpc # "aborted" => IInv)
  BY DEF CXInv, InOrder
<1>2. CASE UNCHANGED vars
  <2>1. TypeInv'
    BY <1>1, <1>2, TypeInvStep
  <2>2. rxpc' = rxpc
    BY <1>2 DEF vars, rxVars
  <2>3. rxpc # "aborted" => IInv'
    BY <1>1, <1>2, IInvStep
  <2> QED
    BY <2>1, <2>2, <2>3 DEF InOrder
<1>3. CASE rxpc # "aborted" /\ PipelineStep
  <2>1. IInv'
    BY <1>1, <1>3, IInvStep DEF PipelineStep, Next
  <2> QED
    BY <2>1 DEF InOrder, IInv
<1>4. CASE rxpc = "aborted" /\ (TxThread \/ Network) /\ rxpc' = "aborted"
  <2>1. TypeInv'
    BY <1>1, <1>4, TypeInvStep DEF Next
  <2> QED
    BY <1>4, <2>1 DEF InOrder
<1>5. CASE rxpc \in {"taken", "process"} /\ Abort
  <2>1. /\ rxpc' = "aborted"
        /\ UNCHANGED <<bodyLen, queryCount, txQueue, txCursor, requests, net, sock, rxPipe,
                       rxQueue, cursor, responseCount, stage, header, data, delivered>>
    BY <1>5 DEF Abort, appVars, txVars, netVars
  <2>2. TypeOK'
    BY <1>1, <2>1 DEF TypeInv, TypeOK, RxStates
  <2>3. RxHasCursor'
    BY <1>1, <1>5, <2>1 DEF TypeInv, RxHasCursor
  <2> QED
    BY <2>1, <2>2, <2>3 DEF InOrder, TypeInv
<1>6. CASE CXNext
  BY <1>2, <1>3, <1>4, <1>5, <1>6, StepsOfPipeline, StepsAfterEnd
<1>7. CASE UNCHANGED allVars
  BY <1>2, <1>7 DEF allVars
<1> QED
  BY <1>6, <1>7

LEMMA MapsKept ==
  ASSUME CXInv, [CXNext]_allVars
  PROVE  Maps'
<1>1. Maps /\ (rxpc # "aborted" => IInv)
  BY DEF CXInv, InOrder
<1>2. CASE CXClient
  <2>1. IInv
    BY <1>1, <1>2 DEF CXClient, Run, Continue, MaySend
  <2> QED
    BY <1>1, <1>2, <2>1, ClientSends, MapsSend
<1>3. CASE CXTxThread \/ CXNetwork
  <2>1. UNCHANGED <<queryCount, delivered, cxVars>>
    BY <1>3 DEF CXTxThread, CXNetwork, TxThread, TxSend, CTCursorRecvOnQueue, Network,
                Answer, Deliver, appVars, rxVars
  <2> QED
    BY <1>1, <2>1, MapsQuiet
<1>4. CASE CXTake \/ CXRecv \/ CXAsyncRecv
  <2>1. UNCHANGED <<queryCount, delivered, cxVars>>
    BY <1>4 DEF CXTake, CXRecv, CXAsyncRecv, RxTakeEvent, RxTakePipe, RxRecv,
                CTCursorAsyncRecv, Abort, appVars
  <2> QED
    BY <1>1, <2>1, MapsQuiet
<1>5. CASE CXClose
  <2>1. IInv
    BY <1>1, <1>5 DEF CXClose, InLoop
  <2>2. CASE rxpc' # "aborted"
    BY <1>1, <1>5, <2>1, <2>2, MapsClose
  <2>3. CASE rxpc' = "aborted"
    <3>1. Abort
      BY <1>5, <2>3 DEF CXClose, RxClose, RxCloseAndSwitch
    <3>2. UNCHANGED <<queryCount, delivered, cxVars>>
      BY <3>1 DEF Abort, appVars
    <3> QED
      BY <1>1, <3>2, MapsQuiet
  <2> QED
    BY <2>2, <2>3
<1>6. CASE Return
  BY <1>1, <1>6, MapsReturn
<1>7. CASE CXFinished \/ UNCHANGED allVars
  <2>1. UNCHANGED <<queryCount, delivered, cxVars>>
    BY <1>7 DEF CXFinished, allVars, vars, appVars, rxVars
  <2> QED
    BY <1>1, <2>1, MapsQuiet
<1> QED
  BY <1>2, <1>3, <1>4, <1>5, <1>6, <1>7 DEF CXNext, CXRxThread

LEMMA CXInvariance == CXSpec => []CXInv
<1>1. CXInit => CXInv
  BY MapsInit, IInvInit DEF CXInv, InOrder, CXInit, IInv
<1>2. CXInv /\ [CXNext]_allVars => CXInv'
  BY OrderKept, MapsKept DEF CXInv
<1> QED
  BY <1>1, <1>2, PTL DEF CXSpec
-----------------------------------------------------------------------------
(***************************************************************************)
(* What the client can rely on, whatever the server and the network do.    *)
(***************************************************************************)

\* The two counts of messages are one, and every token and cursor in the maps is
\* one there is.
THEOREM CXTypeCorrect == CXSpec => []CXTypeOK
<1>1. CXInv => CXTypeOK
  <2> SUFFICES ASSUME CXInv
               PROVE  CXTypeOK
    OBVIOUS
  <2>1. TypeOK /\ CXTypes /\ Entries
    BY DEF CXInv, InOrder, TypeInv, Maps
  <2>2. UnderWay \subseteq 1 .. queryCount /\ queryCount <= NumCursors /\ queryCount \in Nat
        /\ NumCursors \in Nat
    BY <2>1, NumCursorsAssumption DEF UnderWay, TypeOK, CXTypes
  <2>3. \A e \in UnderWay : token[e] \in Tokens /\ cxCursor[e] \in Cursors /\ e \in Cursors
    BY <2>1, <2>2 DEF CXTypes, Cursors
  <2>4. DOMAIN cursors = {token[e] : e \in UnderWay} /\ DOMAIN callbacks = DOMAIN cursors
        /\ \A e \in UnderWay : cursors[token[e]] = cxCursor[e] /\ callbacks[token[e]] = e
    BY <2>1 DEF Entries
  <2>5. \A tok \in DOMAIN cursors : \E e \in UnderWay : tok = token[e]
    BY <2>4
  <2>6. /\ DOMAIN cursors \subseteq Tokens /\ DOMAIN callbacks \subseteq Tokens
        /\ \A tok \in DOMAIN cursors : cursors[tok] \in Cursors
        /\ \A tok \in DOMAIN callbacks : callbacks[tok] \in Cursors
    BY <2>3, <2>4, <2>5
  <2> QED
    BY <2>1, <2>6 DEF CXTypeOK, CXTypes
<1> QED
  BY <1>1, CXInvariance, PTL

\* Whatever was sent from whichever callback, the maps hold the messages under way
\* and nothing else, and no two of these share a token.
THEOREM MapsAreExact == CXSpec => []MapsExact
<1>1. CXInv => MapsExact
  <2> SUFFICES ASSUME CXInv
               PROVE  MapsExact
    OBVIOUS
  <2>1. Entries /\ OwnTokens /\ CXTypes /\ TypeOK
    BY DEF CXInv, InOrder, TypeInv, Maps
  <2>2. IsFiniteSet(UnderWay)
    <3>1. Len(called) + 1 \in Int /\ queryCount \in Int
      BY <2>1, NumCursorsAssumption DEF TypeOK, CXTypes
    <3> QED
      BY <3>1, FS_Interval DEF UnderWay
  <2> DEFINE f == [e \in UnderWay |-> token[e]]
  <2>3. DOMAIN cursors = {token[e] : e \in UnderWay}
    BY <2>1 DEF Entries
  <2>4. f \in Bijection(UnderWay, DOMAIN cursors)
    <3>1. f \in [UnderWay -> DOMAIN cursors]
      BY <2>3
    <3>2. \A e, g \in UnderWay : f[e] = f[g] => e = g
      BY <2>1 DEF OwnTokens
    <3>3. \A t \in DOMAIN cursors : \E e \in UnderWay : f[e] = t
      BY <2>3
    <3>4. DOMAIN f = UnderWay
      OBVIOUS
    <3> HIDE DEF f
    <3> QED
      BY <3>1, <3>2, <3>3, <3>4 DEF Bijection, Injection, IsInjective, Surjection
  <2>5. ExistsBijection(UnderWay, DOMAIN cursors)
    BY <2>4 DEF ExistsBijection
  <2>6. Cardinality(DOMAIN cursors) = Cardinality(UnderWay)
    BY <2>2, <2>5, FS_Bijection
  <2> QED
    BY <2>1, <2>6 DEF Entries, MapsExact
<1> QED
  BY <1>1, CXInvariance, PTL

\* Messages have the same token exactly when they continue one query.
THEOREM TokensAreOfQueries == CXSpec => []TokensOfQueries
<1>1. CXInv => TokensOfQueries
  <2> SUFFICES ASSUME CXInv, NEW e \in 1 .. queryCount, NEW f \in 1 .. queryCount
               PROVE  token[e] = token[f] <=> cxCursor[e] = cxCursor[f]
    BY DEF TokensOfQueries
  <2>1. /\ cxCursor[e] \in 1 .. e /\ token[e] = cxCursor[e] - 1
        /\ cxCursor[f] \in 1 .. f /\ token[f] = cxCursor[f] - 1
    BY DEF CXInv, Maps, QueryTokens
  <2>2. cxCursor[e] \in Int /\ cxCursor[f] \in Int
    BY <2>1
  <2> QED
    BY <2>1, <2>2
<1> QED
  BY <1>1, CXInvariance, PTL
-----------------------------------------------------------------------------
(***************************************************************************)
(* Where no response outruns its cursor and no header is cut: the header   *)
(* of every response finds its cursor in the map.                          *)
(***************************************************************************)

\* The exchange that is received next, and the one behind it, find their cursors.
LEMMA UnderWayIsFound ==
  ASSUME Maps, NEW e \in UnderWay
  PROVE  Finds(e, e)
<1>1. /\ DOMAIN cursors = {token[d] : d \in UnderWay}
      /\ \A d \in UnderWay : cursors[token[d]] = cxCursor[d]
  BY DEF Maps, Entries
<1> QED
  BY <1>1 DEF Finds

LEMMA HeadersFindCursor ==
  ASSUME StreamInv, Maps, CXRecv
  PROVE  RxRecv
<1>1. rxpc = "taken" /\ sock # <<>> /\ IInv
  BY DEF CXRecv, StreamInv
<1>2. cursor \in UnderWay
  BY <1>1, ExchangeNumbers DEF UnderWay, Maps, Calls
<1>3. ASSUME header[cursor] = None
      PROVE  Finds(cursor, sock[1].req)
  <2>1. cursor = Len(delivered) + 1 /\ cursor \in Cursors /\ Have = <<>>
    BY <1>1, <1>3, HaveOfCursor DEF StreamInv, Cursors, None
  <2>2. sock \in Seq(Units) /\ net \in Seq(Units)
    BY <1>1, StreamTypes
  <2>3. Stream = sock \o net
    <3>1. <<>> \o sock = sock
      BY <2>2, ConcatEmptySeq
    <3> QED
      BY <2>1, <3>1 DEF Stream
  <2>4. Len(sock) >= 1 /\ Len(sock) \in Nat
    BY <1>1, <2>2, EmptySeq
  <2>5. (sock \o net)[1] = sock[1] /\ sock \o net # <<>>
    <3>1. /\ \A i \in 1 .. Len(sock) : (sock \o net)[i] = sock[i]
          /\ Len(sock \o net) = Len(sock) + Len(net) /\ Len(net) \in Nat
      BY <2>2, ConcatProperties, LenProperties
    <3>2. Len(<<>>) = 0
      OBVIOUS
    <3> QED
      BY <2>4, <3>1, <3>2
  <2>6. Stream # <<>> => Stream[1] = [req |-> cursor, pos |-> 1]
    BY <2>1 DEF StreamInv, BytesInv, StreamIntact, Stream, IsStreamFrom
  <2>7. sock[1] = [req |-> cursor, pos |-> 1]
    BY <2>3, <2>5, <2>6
  <2>8. sock[1].req = cursor
    BY <2>7
  <2> QED
    BY <1>2, <2>8, UnderWayIsFound
<1> QED
  BY <1>3 DEF CXRecv

LEMMA ClosesFindCursor ==
  ASSUME StreamInv, Maps, CXClose
  PROVE  RxClose \/ RxCloseAndSwitch
<1> DEFINE c == cursor
<1>1. rxpc = "process" /\ Complete(c) /\ IInv
  BY DEF CXClose, StreamInv
<1>2. Len(called) = Len(delivered)
  BY DEF Maps, Calls
<1>3. c \in UnderWay /\ c = Len(delivered) + 1 /\ Len(delivered) \in Nat
  BY <1>1, <1>2, ExchangeNumbers DEF UnderWay
<1>4. Registered(token[c])
  <2>1. DOMAIN cursors = {token[d] : d \in UnderWay} /\ DOMAIN callbacks = DOMAIN cursors
    BY DEF Maps, Entries
  <2> QED
    BY <1>3, <2>1 DEF Registered
<1>5. ASSUME rxPipe # <<>>, Overlap(c) # <<>>
      PROVE  Finds(Head(rxPipe), Overlap(c)[1].req)
  <2>1. Head(rxPipe) = c + 1 /\ c + 1 \in UnderWay
    BY <1>1, <1>2, <1>5, ExchangeNumbers DEF UnderWay
  <2>2. /\ c \in Cursors /\ Overlap(c) \in Seq(Units) /\ Size(c) <= Len(Stream)
        /\ SubSeq(Stream, Size(c) + 1, Len(Stream)) = Overlap(c) \o Rest
    BY <1>1, CompleteCursor
  <2>3. TypeOK /\ Stream \in Seq(Units) /\ Rest \in Seq(Units)
    BY <1>1, StreamTypes
  <2>4. IsStreamFrom(c, Stream)
    BY <1>3 DEF StreamInv, BytesInv, StreamIntact, Stream
  <2>5. IsStreamFrom(c + 1, Overlap(c) \o Rest)
    <3> HIDE DEF c
    <3>1. IsStreamFrom(c + 1, SubSeq(Stream, Size(c) + 1, Len(Stream)))
      BY <2>2, <2>3, <2>4, StreamTail
    <3> QED
      BY <2>2, <3>1
  <2>6. (Overlap(c) \o Rest)[1] = Overlap(c)[1] /\ Overlap(c) \o Rest # <<>>
    <3> DEFINE o == Overlap(c)
    <3>0. o \in Seq(Units) /\ o # <<>>
      BY <1>5, <2>2
    <3> HIDE DEF o
    <3>1. Len(o) >= 1 /\ Len(o) \in Nat
      BY <3>0, EmptySeq
    <3>2. /\ \A i \in 1 .. Len(o) : (o \o Rest)[i] = o[i]
          /\ Len(o \o Rest) = Len(o) + Len(Rest) /\ Len(Rest) \in Nat
      BY <2>3, <3>0, ConcatProperties, LenProperties
    <3>3. Len(<<>>) = 0
      OBVIOUS
    <3>4. (o \o Rest)[1] = o[1] /\ o \o Rest # <<>>
      BY <3>1, <3>2, <3>3
    <3> QED
      BY <3>4 DEF o
  <2>7. Overlap(c)[1] = [req |-> c + 1, pos |-> 1]
    BY <2>5, <2>6 DEF IsStreamFrom
  <2>8. Overlap(c)[1].req = c + 1
    BY <2>7
  <2> QED
    BY <2>1, <2>8, UnderWayIsFound
<1> QED
  BY <1>4, <1>5 DEF CXClose

\* Every step of the wrapper is one of the pipeline, or a callback's return.
LEMMA StepWraps ==
  ASSUME CXInv, StreamInv, [CXNext]_allVars
  PROVE  [Next]_vars
<1>1. Maps /\ IInv
  BY DEF CXInv, StreamInv
<1>2. CASE CXClient
  <2>1. PICK object \in 1 .. queryCount + 1 :
          /\ object - 1 \notin DOMAIN cursors /\ SendWithToken(object - 1, object)
    BY <1>1, <1>2, ClientSends
  <2> QED
    BY <2>1 DEF SendWithToken, Next
<1>3. CASE CXRxThread
  BY <1>1, <1>3, HeadersFindCursor, ClosesFindCursor
     DEF CXRxThread, CXTake, CXAsyncRecv, Return, RxThread, Next
<1>4. CASE CXTxThread \/ CXNetwork
  BY <1>4 DEF CXTxThread, CXNetwork, Next
<1>5. CASE CXFinished \/ UNCHANGED allVars
  BY <1>5 DEF CXFinished, allVars
<1> QED
  BY <1>2, <1>3, <1>4, <1>5 DEF CXNext

LEMMA WrapperInvariance ==
  ASSUME ~Outrun, WholeHeaders
  PROVE  CXSpec => [](CXInv /\ StreamInv)
<1>1. CXInit => CXInv /\ StreamInv
  BY MapsInit, IInvInit, StreamInvInit DEF CXInv, InOrder, CXInit, IInv
<1>2. CXInv /\ StreamInv /\ [CXNext]_allVars => (CXInv /\ StreamInv)'
  <2> SUFFICES ASSUME CXInv, StreamInv, [CXNext]_allVars
               PROVE  CXInv' /\ StreamInv'
    OBVIOUS
  <2>1. CXInv'
    BY OrderKept, MapsKept DEF CXInv
  <2>2. StreamInv'
    BY StepWraps, StreamInvStep
  <2> QED
    BY <2>1, <2>2
<1> QED
  BY <1>1, <1>2, PTL DEF CXSpec

\* What the wrapper does with its connection is what CTPipeline specifies: no
\* assertion and no std::map::at ends the process.
THEOREM WrapsPipeline ==
  ASSUME ~Outrun, WholeHeaders
  PROVE  CXSpec => Spec
<1>1. CXInit => Init
  BY DEF CXInit
<1>2. (CXInv /\ StreamInv) /\ [CXNext]_allVars => [Next]_vars
  BY StepWraps
<1>3. CXSpec => [](CXInv /\ StreamInv)
  BY WrapperInvariance
<1> QED
  BY <1>1, <1>2, <1>3, PTL DEF CXSpec, Spec

\* The callback given with a message is called with the cursor the message was sent
\* with, which holds that message's response.
THEOREM CallbacksAreOwn ==
  ASSUME ~Outrun, WholeHeaders
  PROVE  CXSpec => []OwnCallback
<1>1. CXInv /\ StreamInv => OwnCallback
  BY DEF CXInv, Maps, Calls, CallOf, StreamInv, OwnCallback
<1>2. CXSpec => [](CXInv /\ StreamInv)
  BY WrapperInvariance
<1> QED
  BY <1>1, <1>2, PTL

\* The process does not die in an assertion, in std::map::at or in memmove.
THEOREM WrapperNeverAborts ==
  ASSUME ~Outrun, WholeHeaders
  PROVE  CXSpec => []NeverAborts
<1>1. CXInv /\ StreamInv => NeverAborts
  BY DEF StreamInv
<1>2. CXSpec => [](CXInv /\ StreamInv)
  BY WrapperInvariance
<1> QED
  BY <1>1, <1>2, PTL

\* So the client of the wrapper is promised what an application of the pipeline is:
\* each step of the whole is a message, the response to the oldest one, or nothing.
THEOREM WrapperImplementsPromise ==
  ASSUME ~Outrun, WholeHeaders
  PROVE  CXSpec => Promise!Init /\ [][Promise!Next]_(Promise!vars)
BY WrapsPipeline, ImplementsPromise
==============================================================================
