-------------------------- MODULE CTPipelineTLSProofs --------------------------
(***************************************************************************)
(* Proofs about CTPipelineTLS, for any number of cursors, any window and   *)
(* any lengths.                                                            *)
(*                                                                         *)
(* The type invariant holds whatever the server puts in a record.  The     *)
(* bytes stay in order, and CTPromise is kept, where no response outruns   *)
(* its cursor, each record belongs to one response, and a record is long   *)
(* enough for a header; headers may be cut anywhere, since the rx thread   *)
(* looks at whole records only.  Every step brings the callbacks closer, and the    *)
(* connection never waits with none to come.                               *)
(***************************************************************************)
EXTENDS CTPipelineTLS, CTPipelineProofs
-----------------------------------------------------------------------------
(***************************************************************************)
(* Records.                                                                *)
(***************************************************************************)

\* The first record of a stream ends where a record ends for the first time.
LEMMA FirstRecordEnds ==
  ASSUME NEW s, Len(s) \in Nat
  PROVE  /\ FirstRecord(s) \in 0 .. Len(s)
         /\ FirstRecord(s) > 0 => /\ EndsRecord(s[FirstRecord(s)])
                                  /\ \A j \in 1 .. (FirstRecord(s) - 1) : ~EndsRecord(s[j])
<1> DEFINE Ends(i) == EndsRecord(s[i]) /\ \A j \in 1 .. (i - 1) : ~EndsRecord(s[j])
<1>1. CASE \E i \in 1 .. Len(s) : Ends(i)
  <2>1. FirstRecord(s) \in 1 .. Len(s) /\ Ends(FirstRecord(s))
    BY <1>1 DEF FirstRecord
  <2> QED
    BY <2>1
<1>2. CASE ~\E i \in 1 .. Len(s) : Ends(i)
  <2>1. FirstRecord(s) = 0
    BY <1>2 DEF FirstRecord
  <2> QED
    BY <2>1
<1> QED
  BY <1>1, <1>2

\* Less than a full record does not end at a multiple of its length.
LEMMA FullRecord ==
  ASSUME NEW n \in Nat, n > 0, n % RecordLen = 0
  PROVE  n >= RecordLen
BY RecordLenAssumption
-----------------------------------------------------------------------------
(***************************************************************************)
(* The type invariant.                                                     *)
(***************************************************************************)

TlsTypeInv == TlsTypeOK /\ RxHasCursor

\* A record is received into a buffer.
LEMMA RecordType ==
  ASSUME TlsTypeOK, FirstRecord(cipher) > 0
  PROVE  /\ FirstRecord(cipher) \in 1 .. Len(cipher)
         /\ SubSeq(cipher, 1, FirstRecord(cipher)) \in Seq(Bytes)
         /\ Len(SubSeq(cipher, 1, FirstRecord(cipher))) = FirstRecord(cipher)
         /\ SubSeq(cipher, FirstRecord(cipher) + 1, Len(cipher)) \in Seq(Bytes)
         /\ SubSeq(cipher, 1, FirstRecord(cipher))
              \o SubSeq(cipher, FirstRecord(cipher) + 1, Len(cipher)) = cipher
<1> DEFINE n == FirstRecord(cipher)
<1>1. cipher \in Seq(Bytes) /\ Len(cipher) \in Nat
  BY DEF TlsTypeOK
<1>2. n \in 0 .. Len(cipher) /\ n > 0
  BY <1>1, FirstRecordEnds
<1> HIDE DEF n
<1>3. n \in 1 .. Len(cipher)
  BY <1>1, <1>2
<1> QED
  BY <1>1, <1>2, <1>3, CutInTwo DEF n

LEMMA TlsTypeDecrypt ==
  ASSUME TlsTypeInv, TlsDecrypt
  PROVE  TlsTypeInv'
<1> DEFINE n     == FirstRecord(cipher)
           rec   == SubSeq(cipher, 1, n)
           buf   == data[cursor] \o rec
           end   == IF header[cursor] = None THEN HeaderEnd(buf) ELSE 0
           wraps == end > n
           found == IF end = 0 \/ wraps THEN header[cursor] ELSE buf[end].req
<1>1. TypeOK /\ TlsTypeOK /\ RxHasCursor /\ None \notin Cursors
  BY DEF TlsTypeInv, TlsTypeOK, None, Cursors
<1>2. /\ rec \in Seq(Bytes) /\ Len(rec) = n /\ n \in Nat
      /\ SubSeq(cipher, n + 1, Len(cipher)) \in Seq(Bytes)
  <2>1. FirstRecord(cipher) > 0
    BY DEF TlsDecrypt
  <2>2. /\ n \in 1 .. Len(cipher) /\ rec \in Seq(Bytes) /\ Len(rec) = n
        /\ SubSeq(cipher, n + 1, Len(cipher)) \in Seq(Bytes)
    BY <1>1, <2>1, RecordType
  <2> HIDE DEF n, rec
  <2>3. n \in Nat
    BY <2>2
  <2> QED
    BY <2>2, <2>3
<1>3. cursor \in Cursors /\ cursor # None
  <2>1. rxpc # "top"
    BY DEF TlsDecrypt, Decrypts
  <2> QED
    BY <1>1, <2>1 DEF RxHasCursor, TypeOK
<1>4. data[cursor] \in Seq(Units) /\ header[cursor] \in Cursors \cup {None}
  BY <1>1, <1>3 DEF TypeOK
<1>5. /\ header' = [header EXCEPT ![cursor] = found]
      /\ data' = [data EXCEPT ![cursor] = IF end = 0 \/ wraps THEN buf ELSE MoveBody(buf, end, n)]
      /\ cipher' = SubSeq(cipher, n + 1, Len(cipher))
      /\ rxpc' = IF wraps \/ NoBody(found) THEN "aborted" ELSE "process"
      /\ UNCHANGED <<appVars, txVars, netVars, rxPipe, rxQueue, cursor, responseCount,
                     stage, delivered>>
  BY DEF TlsDecrypt
<1> HIDE DEF rec, n
<1>6. buf \in Seq(Units) /\ n \in 0 .. Len(buf) /\ Len(buf) \in Nat
  <2>1. buf \in Seq(Units) /\ Len(buf) = Len(data[cursor]) + Len(rec)
    BY <1>2, <1>4, BufferGrows
  <2> DEFINE d == data[cursor]
  <2>2. Len(d) \in Nat /\ Len(buf) = Len(d) + n
    BY <1>2, <1>4, <2>1, LenProperties
  <2> HIDE DEF d, buf
  <2> QED
    BY <1>2, <2>1, <2>2
<1> HIDE DEF buf
<1>7. end \in 0 .. Len(buf)
  BY <1>6, HeaderEndRange
<1>8. found \in Cursors \cup {None}
  BY <1>4, <1>6, OriginType
<1>9. MoveBody(buf, end, n) \in Seq(Units)
  <2>1. end \in Nat
    BY <1>6, <1>7
  <2> HIDE DEF end
  <2> QED
    BY <1>6, <2>1, MoveBodyType
<1> HIDE DEF end, wraps, found
<1>10. header' \in [Cursors -> Cursors \cup {None}] /\ data' \in [Cursors -> Seq(Units)]
  <2>1. header' \in [Cursors -> Cursors \cup {None}]
    BY <1>1, <1>3, <1>5, <1>8 DEF TypeOK
  <2>2. data' \in [Cursors -> Seq(Units)]
    BY <1>1, <1>3, <1>5, <1>6, <1>9 DEF TypeOK
  <2> QED
    BY <2>1, <2>2
<1>11. cipher' \in Seq(Bytes)
  BY <1>2, <1>5
<1>12. RxHasCursor' /\ rxpc' \in RxStates
  BY <1>3, <1>5 DEF RxHasCursor, RxStates
<1>13. TypeOK'
  BY <1>1, <1>5, <1>10, <1>12 DEF TypeOK, appVars, txVars, netVars
<1> QED
  BY <1>11, <1>12, <1>13 DEF TlsTypeInv, TlsTypeOK

\* The socket is read, and the cursor is scheduled.
LEMMA TlsTypeRecv ==
  ASSUME TlsTypeInv, TlsRecv
  PROVE  TlsTypeInv'
<1>1. TypeOK /\ TlsTypeOK /\ RxHasCursor /\ sock \in Seq(Bytes) /\ cipher \in Seq(Bytes)
  BY DEF TlsTypeInv, TlsTypeOK, TypeOK
<1>2. /\ rxpc = "taken" /\ sock' = <<>> /\ cipher' = cipher \o sock /\ rxpc' = "decrypt"
      /\ stage' = [stage EXCEPT ![cursor] = "RECEIVE"]
      /\ responseCount' =
           IF stage[cursor] = "SCHEDULE" /\ ~(responseCount > 0)
           THEN responseCount + 1 ELSE responseCount
      /\ UNCHANGED <<appVars, txVars, requests, net, rxPipe, rxQueue, cursor, header,
                     data, delivered>>
  BY DEF TlsRecv
<1>3. cipher \o sock \in Seq(Bytes)
  BY <1>1, Joined
<1>4. sock' \in Seq(Bytes) /\ cipher' \in Seq(Bytes)
  BY <1>2, <1>3
<1>5. responseCount' \in Int /\ stage' \in [Cursors -> {"SCHEDULE", "RECEIVE"}]
  <2>1. responseCount \in Int /\ stage \in [Cursors -> {"SCHEDULE", "RECEIVE"}]
    BY <1>1 DEF TypeOK
  <2>2. responseCount' \in {responseCount, responseCount + 1}
    BY <1>2
  <2>3. stage' = [stage EXCEPT ![cursor] = "RECEIVE"]
    BY <1>2
  <2>4. responseCount' \in Int
    BY <2>1, <2>2
  <2>5. stage' \in [Cursors -> {"SCHEDULE", "RECEIVE"}]
    BY <2>1, <2>3
  <2> QED
    BY <2>4, <2>5
<1>6. RxHasCursor' /\ rxpc' \in RxStates
  BY <1>1, <1>2 DEF RxHasCursor, RxStates
<1>7. TypeOK'
  BY <1>1, <1>2, <1>4, <1>5, <1>6 DEF TypeOK, appVars, txVars
<1> QED
  BY <1>4, <1>6, <1>7 DEF TlsTypeInv, TlsTypeOK

\* The rx thread asks to be woken with its cursor, for the rest of a record or
\* for the next one.
LEMMA TlsTypeWait ==
  ASSUME TlsTypeInv, TlsIncomplete \/ TlsReadMore
  PROVE  TlsTypeInv'
<1>1. TypeOK /\ RxHasCursor /\ cipher \in Seq(Bytes)
  BY DEF TlsTypeInv, TlsTypeOK
<1>2. cursor \in Cursors /\ rxQueue \subseteq Cursors
  <2>1. rxpc # "top"
    BY DEF TlsIncomplete, TlsReadMore, Decrypts
  <2> QED
    BY <1>1, <2>1 DEF RxHasCursor, TypeOK
<1>3. /\ rxQueue' = rxQueue \cup {cursor} /\ cursor' = None /\ rxpc' = "top"
      /\ UNCHANGED <<appVars, txVars, netVars, rxPipe, responseCount, stage, header,
                     data, delivered, cipher>>
  BY DEF TlsIncomplete, TlsReadMore
<1>4. TypeOK' /\ RxHasCursor'
  BY <1>1, <1>2, <1>3 DEF TypeOK, RxHasCursor, RxStates, appVars, txVars, netVars
<1> QED
  BY <1>1, <1>3, <1>4 DEF TlsTypeInv, TlsTypeOK

\* A response is called back.
LEMMA TlsTypeClose ==
  ASSUME TlsTypeInv, TlsClose
  PROVE  TlsTypeInv'
<1>1. TypeOK /\ RxHasCursor /\ cipher \in Seq(Bytes) /\ None \notin Cursors
  BY DEF TlsTypeInv, TlsTypeOK, None, Cursors
<1>2. rxpc = "process" /\ Complete(cursor)
  BY DEF TlsClose
<1>3. cursor \in Cursors /\ cursor # None
  BY <1>1, <1>2 DEF RxHasCursor, TypeOK
<1>4. Callback(cursor) \in Callbacks
  BY <1>1, <1>2, <1>3, CallbackType
<1>5. Append(delivered, Callback(cursor)) \in Seq(Callbacks) /\ responseCount - 1 \in Int
  BY <1>1, <1>4 DEF TypeOK
<1>6. /\ rxQueue' = rxQueue \ {cursor} /\ responseCount' = responseCount - 1
      /\ delivered' \in {delivered, Append(delivered, Callback(cursor))}
      /\ \/ rxpc' \in {"aborted", "decrypt"} /\ cursor' = cursor
         \/ rxpc' = "top" /\ cursor' = None
      /\ UNCHANGED <<appVars, txVars, netVars, rxPipe, stage, header, data, cipher>>
  BY DEF TlsClose
<1>7. TypeOK'
  BY <1>1, <1>3, <1>5, <1>6 DEF TypeOK, RxStates, appVars, txVars, netVars
<1>8. RxHasCursor'
  BY <1>3, <1>6 DEF RxHasCursor
<1> QED
  BY <1>1, <1>6, <1>7, <1>8 DEF TlsTypeInv, TlsTypeOK

LEMMA TlsTypeCloseAndSwitch ==
  ASSUME TlsTypeInv, TlsCloseAndSwitch
  PROVE  TlsTypeInv'
<1> DEFINE next == Head(rxPipe)
           over == Overlap(cursor)
           end  == HeaderEnd(over)
           body == IF end = 0 \/ cipher = <<>> THEN <<>> ELSE SubSeq(over, end + 1, Len(over))
           hdr  == IF end = 0 THEN None ELSE over[end].req
<1>1. TypeOK /\ RxHasCursor /\ cipher \in Seq(Bytes) /\ None \notin Cursors
  BY DEF TlsTypeInv, TlsTypeOK, None, Cursors
<1>2. /\ rxpc = "process" /\ Complete(cursor) /\ rxPipe # <<>>
      /\ data' = [data EXCEPT ![next] = body] /\ header' = [header EXCEPT ![next] = hdr]
      /\ cursor' = IF cipher = <<>> THEN None ELSE next
      /\ rxpc' = IF cipher = <<>> THEN "top" ELSE "decrypt"
      /\ rxQueue' = (rxQueue \cup (IF cipher = <<>> THEN {next} ELSE {})) \ {cursor}
      /\ rxPipe' = Tail(rxPipe) /\ delivered' = Append(delivered, Callback(cursor))
      /\ responseCount' = (responseCount + 1) - 1
      /\ UNCHANGED <<appVars, txVars, netVars, stage, cipher>>
  BY DEF TlsCloseAndSwitch
<1>3. cursor \in Cursors /\ next \in Cursors /\ next # None /\ rxPipe' \in Seq(Cursors)
  <2>1. cursor \in Cursors
    BY <1>1, <1>2 DEF RxHasCursor, TypeOK
  <2>2. rxPipe \in Seq(Cursors)
    BY <1>1 DEF TypeOK
  <2> QED
    BY <1>1, <1>2, <2>1, <2>2
<1>4. Callback(cursor) \in Callbacks /\ over \in Seq(Units)
  BY <1>1, <1>2, <1>3, CallbackType
<1>5. delivered' \in Seq(Callbacks) /\ responseCount' \in Int
  BY <1>1, <1>2, <1>4 DEF TypeOK
<1> HIDE DEF over, next
<1>6. end \in 0 .. Len(over) /\ Len(over) \in Nat
  BY <1>4, HeaderEndRange, LenProperties
<1>7. body \in Seq(Units)
  BY <1>4, <1>6, SubSeqType
<1>8. hdr \in Cursors \cup {None}
  BY <1>4, OriginType
<1> HIDE DEF end, body, hdr
<1>9. data' \in [Cursors -> Seq(Units)] /\ header' \in [Cursors -> Cursors \cup {None}]
  BY <1>1, <1>2, <1>3, <1>7, <1>8 DEF TypeOK
<1>10. rxQueue' \subseteq Cursors /\ RxHasCursor' /\ rxpc' \in RxStates
       /\ cursor' \in Cursors \cup {None}
  BY <1>1, <1>2, <1>3 DEF RxHasCursor, TypeOK, RxStates
<1>11. TypeOK'
  BY <1>1, <1>2, <1>3, <1>5, <1>9, <1>10 DEF TypeOK, appVars, txVars, netVars
<1> QED
  BY <1>1, <1>2, <1>10, <1>11 DEF TlsTypeInv, TlsTypeOK

LEMMA TlsTypeInvStep == TlsTypeInv /\ [TlsNext]_tlsVars => TlsTypeInv'
<1> SUFFICES ASSUME TlsTypeInv, [TlsNext]_tlsVars PROVE TlsTypeInv'
  OBVIOUS
<1>1. TypeInv /\ cipher \in Seq(Bytes)
  BY DEF TlsTypeInv, TlsTypeOK, TypeInv
<1>2. ASSUME TypeInv', cipher' = cipher PROVE TlsTypeInv'
  BY <1>1, <1>2 DEF TlsTypeInv, TlsTypeOK, TypeInv
<1>3. CASE UNCHANGED tlsVars \/ TlsFinished
  BY <1>1, <1>2, <1>3, TypeInvStep DEF tlsVars, TlsFinished
<1>4. CASE (CTCursorSendOnQueue \/ TxThread \/ Network) /\ UNCHANGED cipher
  BY <1>1, <1>2, <1>4, TypeInvOthers
<1>5. CASE (RxTakeEvent \/ RxTakePipe) /\ UNCHANGED cipher
  BY <1>1, <1>2, <1>5, TypeInvRx DEF RxThread
<1> QED
  BY <1>3, <1>4, <1>5, TlsTypeRecv, TlsTypeDecrypt, TlsTypeWait, TlsTypeClose,
     TlsTypeCloseAndSwitch
  DEF TlsNext, TlsRxThread

\* Whatever the server puts in a record, and wherever reads and records cut the
\* stream, every queue and buffer holds what its type says, the extra buffer of
\* undecrypted bytes too.
THEOREM TlsTypeCorrect == TlsSpec => []TlsTypeOK
<1>1. TlsInit => TlsTypeInv
  <2>1. <<>> \in Seq(Bytes)
    OBVIOUS
  <2> QED
    BY <2>1, TypeInvInit DEF TlsInit, TlsTypeInv, TlsTypeOK, TypeInv
<1>2. TlsTypeInv => TlsTypeOK
  BY DEF TlsTypeInv
<1> QED
  BY <1>1, <1>2, TlsTypeInvStep, PTL DEF TlsSpec

-----------------------------------------------------------------------------
(***************************************************************************)
(* The stream of bytes, now with the undecrypted records in it.            *)
(***************************************************************************)

\* The bytes the rx thread has not decrypted, and all bytes.
TlsRest   == cipher \o Rest
TlsStream == Have \o TlsRest

\* A record never brings bytes of the next response: the current cursor has at
\* most its own response, and less while it goes on receiving.
Underway ==
  LET c == Len(delivered) + 1
  IN Held # {} /\ bodyLen[c] > 0 =>
       IF rxpc = "process" THEN Len(Have) <= Size(c) ELSE Len(Have) < Size(c)

TlsInv ==
  /\ OwnInv
  /\ cipher \in Seq(Bytes)
  /\ StreamOf(Len(delivered), Answered, TlsStream)
  /\ Underway
  /\ NeverAborts

LEMMA TlsTypes ==
  ASSUME IInv, cipher \in Seq(Bytes)
  PROVE  /\ TlsTypeInv /\ TypeOK /\ Len(delivered) \in Nat
         /\ Have \in Seq(Units) /\ Rest \in Seq(Units) /\ cipher \in Seq(Units)
         /\ TlsRest \in Seq(Units) /\ TlsStream \in Seq(Units)
<1>1. TypeOK /\ Len(delivered) \in Nat /\ Have \in Seq(Units) /\ Rest \in Seq(Units)
  BY StreamTypes
<1>2. cipher \in Seq(Units)
  BY DEF Units
<1>3. TlsRest \in Seq(Units)
  BY <1>1, <1>2, Joined DEF TlsRest
<1>4. TlsStream \in Seq(Units)
  BY <1>1, <1>3, Joined DEF TlsStream
<1>5. TlsTypeInv
  BY DEF IInv, TypeInv, TlsTypeInv, TlsTypeOK
<1> QED
  BY <1>1, <1>2, <1>3, <1>4, <1>5

\* TlsStreamIntact speaks of the same bytes.
LEMMA TlsStreamIs ==
  ASSUME IInv, cipher \in Seq(Bytes)
  PROVE  TlsStream = Have \o cipher \o sock \o net
<1>1. /\ Have \in Seq(Units) /\ cipher \in Seq(Units) /\ sock \in Seq(Units)
      /\ net \in Seq(Units)
  BY StreamTypes, TlsTypes
<1> DEFINE h == Have
<1>2. h \in Seq(Units)
  BY <1>1
<1> HIDE DEF h
<1> DEFINE r == sock \o net
           k == h \o cipher
<1>3. r \in Seq(Units) /\ k \in Seq(Units)
  BY <1>1, <1>2, Joined
<1> HIDE DEF r
<1>4. h \o (cipher \o r) = (h \o cipher) \o r
  <2>1. h \in Seq(Units) /\ cipher \in Seq(Units) /\ r \in Seq(Units)
    BY <1>1, <1>2, <1>3
  <2> QED
    BY <2>1, ConcatAssociative
<1> HIDE DEF k
<1>6. k \o (sock \o net) = (k \o sock) \o net
  <2>1. k \in Seq(Units) /\ sock \in Seq(Units) /\ net \in Seq(Units)
    BY <1>1, <1>3
  <2> QED
    BY <2>1, ConcatAssociative
<1> QED
  BY <1>4, <1>6 DEF TlsStream, TlsRest, Rest, h, k, r

\* What the stream is after a step.
LEMMA NextTlsStream ==
  ASSUME bodyLen' = bodyLen, NEW s, TlsStream' = s, NEW n, Len(delivered)' = n,
         NEW a, Answered' = a, StreamOf(n, a, s)
  PROVE  StreamOf(Len(delivered), Answered, TlsStream)'
<1>1. IsStreamFrom(Len(delivered) + 1, TlsStream)'
  BY DEF StreamOf, IsStreamFrom, Follows
<1>2. (\A i \in 1 .. Len(TlsStream) : TlsStream[i] \in Bytes /\ TlsStream[i].req <= Answered)'
  BY DEF StreamOf
<1>3. /\ TlsStream' = <<>> => Answered' = Len(delivered)'
      /\ TlsStream' # <<>>
           => TlsStream'[Len(TlsStream')] = [req |-> Answered', pos |-> HeaderLen + bodyLen'[Answered']]
  BY DEF StreamOf, Size
<1> QED
  BY <1>1, <1>2, <1>3 DEF StreamOf, Size

\* A step that leaves the stream, and how far it got, alone.
LEMMA SameTlsStream ==
  ASSUME TlsInv, UNCHANGED <<bodyLen, delivered, Answered, TlsStream>>
  PROVE  StreamOf(Len(delivered), Answered, TlsStream)'
BY NextTlsStream DEF TlsInv

LEMMA SameUnderway ==
  ASSUME Underway, UNCHANGED <<bodyLen, delivered, Held, Have, rxpc>>
  PROVE  Underway'
BY DEF Underway, Size

\* While the decryption loop goes on the cursor lacks a part of its response.
LEMMA StillMissing ==
  ASSUME TlsInv, Decrypts \/ TlsReadMore, NEW c, c = cursor
  PROVE  /\ rxpc \notin {"top", "taken"}
         /\ c = Len(delivered) + 1 /\ c \in Cursors /\ Held = {c}
         /\ bodyLen[c] > 0 => Len(Have) < Size(c)
<1>1. rxpc = "decrypt" \/ (rxpc = "process" /\ ~Complete(cursor))
  <2>1. CASE Decrypts
    BY <2>1 DEF Decrypts
  <2>2. CASE TlsReadMore
    BY <2>2 DEF TlsReadMore
  <2> QED
    BY <2>1, <2>2
<1>2. IInv /\ OwnHeader /\ rxpc # "top" /\ rxpc # "taken"
  BY <1>1 DEF TlsInv, OwnInv
<1>3. /\ c = Len(delivered) + 1 /\ c \in Cursors /\ Held = {c} /\ data[c] \in Seq(Units)
      /\ \/ header[c] = None /\ data[c] = <<>> /\ Have = <<>>
         \/ /\ header[c] = c /\ c # None
            /\ Have = SubSeq(Response(c), 1, HeaderLen) \o data[c]
  BY <1>2, HaveOfCursor
<1>4. TypeOK
  BY <1>2, StreamTypes
<1>5. Size(c) \in Nat /\ bodyLen[c] \in Nat /\ Size(c) = HeaderLen + bodyLen[c]
      /\ HeaderLen \in Nat /\ HeaderLen >= 1
  BY <1>3, <1>4, SizeType
<1>6. ASSUME bodyLen[c] > 0 PROVE Len(Have) < Size(c)
  <2>1. CASE rxpc = "decrypt"
    BY <1>3, <1>6, <2>1 DEF TlsInv, Underway
  <2>2. CASE header[c] = None
    <3>1. Len(Have) = 0
      <4>1. Have = <<>>
        BY <1>3, <2>2
      <4> QED
        BY <4>1
    <3> QED
      BY <1>5, <3>1
  <2>3. CASE header[c] # None /\ ~Complete(cursor)
    <3> DEFINE h == SubSeq(Response(c), 1, HeaderLen)
               d == data[c]
    <3>1. h \in Seq(Units) /\ Len(h) = HeaderLen /\ d \in Seq(Units) /\ Have = h \o d
      BY <1>3, <1>4, <2>3, HeaderBytes
    <3>2. ~(bodyLen[c] \in 1 .. Len(d))
      BY <1>3, <2>3 DEF Complete, ContentLength
    <3> HIDE DEF h, d
    <3>3. Len(Have) = HeaderLen + Len(d) /\ Len(d) \in Nat
      BY <3>1, Joined
    <3> QED
      BY <1>5, <1>6, <3>2, <3>3
  <2> QED
    BY <1>1, <2>1, <2>2, <2>3
<1> QED
  BY <1>2, <1>3, <1>6

\* Where no record holds the end of one response and the start of the next, a
\* record ends with the response at the latest, and the first one is long enough
\* for the header.
LEMMA RecordOfCursor ==
  ASSUME TypeOK, Coalesced = {}, HeaderLen <= RecordLen, NEW c \in Cursors,
         NEW h \in Seq(Units), NEW s \in Seq(Units), NEW rest \in Seq(Units),
         IsStreamFrom(c, h \o (s \o rest)), FirstRecord(s) > 0,
         Len(h) < Size(c) \/ h = <<>>
  PROVE  /\ FirstRecord(s) \in 1 .. Len(s) /\ Len(s) \in Nat /\ Len(h) \in Nat
         /\ Len(h) + FirstRecord(s) <= Size(c)
         /\ \A i \in 1 .. FirstRecord(s) : s[i] = [req |-> c, pos |-> Len(h) + i]
         /\ h = <<>> => FirstRecord(s) >= HeaderLen
<1> DEFINE n == FirstRecord(s)
           w == h \o (s \o rest)
           k == Len(h)
<1>1. Size(c) \in Nat /\ Size(c) >= HeaderLen /\ HeaderLen \in Nat /\ HeaderLen >= 1
  BY SizeType
<1>2. Len(s) \in Nat /\ k \in Nat /\ k < Size(c) /\ (h = <<>> => k = 0)
  <2>1. Len(s) \in Nat /\ Len(h) \in Nat /\ Len(<<>>) = 0
    BY LenProperties
  <2> QED
    BY <1>1, <2>1
<1>3. n \in 1 .. Len(s) /\ EndsRecord(s[n]) /\ \A j \in 1 .. (n - 1) : ~EndsRecord(s[j])
  BY <1>2, FirstRecordEnds
<1>4. /\ w \in Seq(Units) /\ Len(w) \in Nat /\ Len(w) >= k + Len(s)
      /\ \A i \in 1 .. Len(s) : w[k + i] = s[i]
  <2> DEFINE t == s \o rest
  <2>1. /\ t \in Seq(Units) /\ Len(t) = Len(s) + Len(rest) /\ Len(rest) \in Nat
        /\ \A i \in 1 .. Len(s) : t[i] = s[i]
    BY Joined
  <2> HIDE DEF t
  <2>2. /\ h \o t \in Seq(Units) /\ Len(h \o t) = Len(h) + Len(t)
        /\ \A i \in 1 .. Len(t) : (h \o t)[Len(h) + i] = t[i]
    <3>1. h \in Seq(Units) /\ t \in Seq(Units)
      BY <2>1
    <3> QED
      BY <3>1, Joined
  <2>3. \A i \in 1 .. Len(s) : i \in 1 .. Len(t)
    BY <1>2, <2>1
  <2>4. \A i \in 1 .. Len(s) : (h \o t)[Len(h) + i] = s[i]
    BY <2>1, <2>2, <2>3
  <2>5. Len(h \o t) \in Nat /\ Len(h \o t) >= k + Len(s)
    BY <1>2, <2>1, <2>2
  <2> QED
    BY <2>2, <2>4, <2>5 DEF t
<1>5. IsStreamFrom(c, w)
  OBVIOUS
<1> HIDE DEF n, w, k
<1>6. ASSUME NEW i \in 1 .. Len(s), k + i <= Size(c)
      PROVE  s[i] = [req |-> c, pos |-> k + i]
  <2>1. k + i \in 1 .. Len(w)
    BY <1>2, <1>4
  <2>2. w[k + i] = [req |-> c, pos |-> k + i]
    BY <1>4, <1>5, <1>6, <2>1, StreamElement
  <2> QED
    BY <1>4, <2>2
<1>7. k + n <= Size(c)
  <2> SUFFICES ASSUME ~(k + n <= Size(c)) PROVE FALSE
    OBVIOUS
  <2> DEFINE m == Size(c) - k
  <2>1. m \in 1 .. (n - 1) /\ m \in 1 .. Len(s) /\ k + m = Size(c)
    BY <1>1, <1>2, <1>3
  <2> HIDE DEF m
  <2>2. s[m] = [req |-> c, pos |-> Size(c)]
    <3>1. k + m <= Size(c)
      BY <1>1, <2>1
    <3>2. s[m] = [req |-> c, pos |-> k + m]
      BY <1>6, <2>1, <3>1
    <3> QED
      BY <2>1, <3>2
  <2>3. s[m].req = c /\ s[m].pos = HeaderLen + bodyLen[c]
    BY <2>2 DEF Size
  <2>4. EndsRecord(s[m])
    BY <2>3 DEF EndsRecord
  <2> QED
    BY <1>3, <2>1, <2>4
<1>8. \A i \in 1 .. n : s[i] = [req |-> c, pos |-> k + i]
  <2> SUFFICES ASSUME NEW i \in 1 .. n PROVE s[i] = [req |-> c, pos |-> k + i]
    OBVIOUS
  <2>1. i \in 1 .. Len(s) /\ k + i <= Size(c)
    BY <1>1, <1>2, <1>3, <1>7
  <2> QED
    BY <1>6, <2>1
<1>9. ASSUME h = <<>> PROVE n >= HeaderLen
  <2>1. k = 0 /\ n \in 1 .. n /\ n \in Nat /\ n > 0
    BY <1>2, <1>3, <1>9
  <2>2. s[n] = [req |-> c, pos |-> n]
    BY <1>8, <2>1
  <2>3. s[n].req = c /\ s[n].pos = n
    BY <2>2
  <2>4. n % RecordLen = 0 \/ n = Size(c)
    BY <1>3, <2>3 DEF EndsRecord, Size
  <2>5. CASE n % RecordLen = 0
    <3>1. n >= RecordLen
      BY <2>1, <2>5, FullRecord
    <3> QED
      BY <1>1, <2>1, <3>1, RecordLenAssumption
  <2>6. CASE n = Size(c)
    BY <1>1, <2>6
  <2> QED
    BY <2>4, <2>5, <2>6
<1> QED
  BY <1>2, <1>3, <1>7, <1>8, <1>9 DEF n, k

-----------------------------------------------------------------------------
(***************************************************************************)
(* Steps that decrypt nothing.                                             *)
(***************************************************************************)

LEMMA TlsInvInit == TlsInit => TlsInv
<1> SUFFICES ASSUME TlsInit PROVE TlsInv
  OBVIOUS
<1>1. Init /\ cipher = <<>> /\ StreamInv
  BY StreamInvInit DEF TlsInit
<1>2. OwnInv /\ NeverAborts /\ Held = {}
  BY <1>1 DEF StreamInv, OwnInv, Init, Held
<1>3. cipher \in Seq(Bytes) /\ Underway
  <2>1. <<>> \in Seq(Bytes)
    OBVIOUS
  <2> QED
    BY <1>1, <1>2, <2>1 DEF Underway
<1>4. TlsStream = <<>> /\ Answered = 0 /\ Len(delivered) = 0
  <2>1. LastHeld = 0 /\ LastPiped = 0 /\ LastTaken = 0 /\ Answered = 0
    BY <1>1, <1>2 DEF Init, LastHeld, LastPiped, LastTaken, Answered
  <2>2. Have = <<>>
    BY <1>2 DEF Have
  <2> QED
    BY <1>1, <2>1, <2>2 DEF Init, TlsStream, TlsRest, Rest
<1>5. StreamOf(Len(delivered), Answered, TlsStream)
  BY <1>4 DEF StreamOf, IsStreamFrom
<1> QED
  BY <1>2, <1>3, <1>5 DEF TlsInv

LEMMA TlsInvTx ==
  ASSUME TlsInv, CTCursorSendOnQueue \/ TxThread, cipher' = cipher
  PROVE  TlsInv'
<1>1. /\ OwnInv' /\ Have' = Have /\ Answered' = Answered
      /\ UNCHANGED <<bodyLen, delivered, sock, net, rxpc, Held>>
  BY OwnInvTx DEF TlsInv
<1>2. TlsStream' = TlsStream
  BY <1>1 DEF TlsStream, TlsRest, Rest
<1>3. StreamOf(Len(delivered), Answered, TlsStream)'
  BY <1>1, <1>2, SameTlsStream
<1>4. Underway' /\ NeverAborts' /\ cipher' \in Seq(Bytes)
  BY <1>1, SameUnderway DEF TlsInv, NeverAborts
<1> QED
  BY <1>1, <1>3, <1>4 DEF TlsInv

\* A response comes behind everything that is not decrypted.
LEMMA TlsInvAnswer ==
  ASSUME TlsInv, Answer, ~Outrun, cipher' = cipher
  PROVE  TlsInv'
<1>0. IInv /\ cipher \in Seq(Bytes)
  BY DEF TlsInv, OwnInv
<1>1. /\ TypeOK /\ Len(delivered) \in Nat /\ Have \in Seq(Units) /\ Rest \in Seq(Units)
      /\ cipher \in Seq(Units) /\ TlsRest \in Seq(Units) /\ TlsStream \in Seq(Units)
      /\ sock \in Seq(Units) /\ net \in Seq(Units)
  BY <1>0, TlsTypes, StreamTypes
<1>2. PICK c \in Cursors :
        /\ c = Answered + 1 /\ Answered \in Nat /\ Answered' = Answered + 1
        /\ OwnInv' /\ Have' = Have /\ net' = net \o Response(c)
        /\ UNCHANGED <<bodyLen, delivered, sock, rxpc, Held>>
  BY OwnInvAnswer DEF TlsInv
<1> DEFINE t == Response(c)
<1>3. t \in Seq(Units) /\ net' = net \o t
  <2>1. t \in Seq(Bytes)
    BY <1>1, ResponseBytes
  <2>2. net' = net \o t
    BY <1>2
  <2> HIDE DEF t
  <2> QED
    BY <2>1, <2>2 DEF Units
<1>4. StreamOf(Len(delivered), c, TlsStream \o t)
  BY <1>1, <1>2, OneMoreResponse DEF TlsInv
<1> HIDE DEF t
<1>5. Rest' = Rest \o t
  <2>1. (sock \o net) \o t = sock \o (net \o t)
    <3>1. sock \in Seq(Units) /\ net \in Seq(Units) /\ t \in Seq(Units)
      BY <1>1, <1>3
    <3> QED
      BY <3>1, ConcatAssociative
  <2> QED
    BY <1>2, <1>3, <2>1 DEF Rest
<1>6. TlsRest' = TlsRest \o t
  <2> DEFINE h == cipher
             r == Rest
  <2>1. h \in Seq(Units) /\ r \in Seq(Units) /\ t \in Seq(Units)
    BY <1>1, <1>3
  <2>2. TlsRest' = h \o (r \o t) /\ TlsRest = h \o r
    BY <1>5 DEF TlsRest
  <2> HIDE DEF h, r
  <2>3. (h \o r) \o t = h \o (r \o t)
    BY <2>1, ConcatAssociative
  <2> QED
    BY <2>2, <2>3
<1>7. TlsStream' = TlsStream \o t
  <2> DEFINE h == Have
             r == TlsRest
  <2>1. h \in Seq(Units) /\ r \in Seq(Units) /\ t \in Seq(Units)
    BY <1>1, <1>3
  <2>2. TlsStream' = h \o (r \o t) /\ TlsStream = h \o r
    BY <1>2, <1>6 DEF TlsStream
  <2> HIDE DEF h, r
  <2>3. (h \o r) \o t = h \o (r \o t)
    BY <2>1, ConcatAssociative
  <2> QED
    BY <2>2, <2>3
<1>8. StreamOf(Len(delivered), Answered, TlsStream)'
  BY <1>2, <1>4, <1>7, NextTlsStream
<1>9. Underway' /\ NeverAborts' /\ cipher' \in Seq(Bytes)
  BY <1>0, <1>2, SameUnderway DEF TlsInv, NeverAborts
<1> QED
  BY <1>2, <1>8, <1>9 DEF TlsInv

LEMMA TlsInvDeliver ==
  ASSUME TlsInv, Deliver, cipher' = cipher
  PROVE  TlsInv'
<1>0. IInv /\ TypeOK /\ IInv'
  BY IInvNetwork DEF TlsInv, OwnInv, IInv, TypeInv, Network
<1>1. UNCHANGED <<bodyLen, delivered, header, data, requests, rxPipe, txCursor, rxpc,
                  rxQueue, cursor>>
  BY DEF Deliver, appVars, txVars, rxVars
<1>2. Held' = Held
  BY <1>1 DEF Held
<1>3. Have' = Have /\ OwnHeader' /\ OwnResponse' /\ LastHeld' = LastHeld
  BY <1>1, <1>2, SameHave DEF TlsInv, OwnInv
<1>4. UNCHANGED <<LastPiped, LastTaken, Answered>>
  BY <1>1, <1>3 DEF LastPiped, LastTaken, Answered
<1>5. AnswersInTime'
  BY <1>1, <1>4 DEF TlsInv, OwnInv, AnswersInTime
<1>6. TlsStream' = TlsStream
  BY <1>0, <1>3, RestDelivered DEF TlsStream, TlsRest
<1>7. StreamOf(Len(delivered), Answered, TlsStream)'
  BY <1>1, <1>4, <1>6, SameTlsStream
<1>8. Underway' /\ NeverAborts' /\ cipher' \in Seq(Bytes)
  BY <1>1, <1>2, <1>3, SameUnderway DEF TlsInv, NeverAborts
<1> QED
  BY <1>0, <1>3, <1>5, <1>7, <1>8 DEF TlsInv, OwnInv

\* The rx thread is woken with its cursor, or takes a new one.
LEMMA TlsInvTake ==
  ASSUME TlsInv, RxTakeEvent \/ RxTakePipe, cipher' = cipher
  PROVE  TlsInv'
<1>0. TypeOK /\ IInv
  BY DEF TlsInv, OwnInv, IInv, TypeInv
<1>1. /\ OwnInv' /\ Have' = Have /\ Answered' = Answered
      /\ UNCHANGED <<bodyLen, delivered, sock, net>>
      /\ Held' = Held \/ Have = <<>>
  BY OwnInvWait, OwnInvTakePipe DEF TlsInv
<1>2. rxpc = "top" /\ rxpc' = "taken"
  BY DEF RxTakeEvent, RxTakePipe
<1>3. TlsStream' = TlsStream
  BY <1>1 DEF TlsStream, TlsRest, Rest
<1>4. StreamOf(Len(delivered), Answered, TlsStream)'
  BY <1>1, <1>3, SameTlsStream
<1>5. Underway'
  <2>1. CASE Held' = Held
    BY <1>1, <1>2, <2>1 DEF TlsInv, Underway, Size
  <2>2. CASE Have = <<>>
    <3> DEFINE c == Len(delivered) + 1
    <3>1. Len(Have') = 0 /\ Len(delivered') + 1 = c
      BY <1>1, <2>2
    <3>2. HeaderLen \in Nat \ {0}
      BY LengthAssumption
    <3>3. Held' # {} => c \in Cursors
      <4>1. rxQueue' \subseteq Cursors /\ cursor' \in Cursors \cup {None}
        BY <1>1 DEF OwnInv, IInv, TypeInv, TypeOK
      <4>2. Held' # {} => Held' = {c}
        BY <1>1 DEF OwnInv, IInv, CursorOrder, LastHeld
      <4> QED
        BY <4>1, <4>2 DEF Held
    <3>4. Held' # {} => 0 < HeaderLen + bodyLen'[c]
      <4>1. Held' # {} => bodyLen[c] \in Nat
        BY <1>0, <3>3, SizeType
      <4> HIDE DEF c
      <4> QED
        BY <1>1, <3>2, <4>1
    <3> QED
      BY <1>2, <3>1, <3>4 DEF Underway, Size
  <2> QED
    BY <1>1, <2>1, <2>2
<1>6. NeverAborts' /\ cipher' \in Seq(Bytes)
  BY <1>2 DEF TlsInv, NeverAborts
<1> QED
  BY <1>1, <1>4, <1>5, <1>6 DEF TlsInv

\* A part of a record, or of the response, is missing.
LEMMA TlsInvWait ==
  ASSUME TlsInv, TlsIncomplete \/ TlsReadMore
  PROVE  TlsInv'
<1> DEFINE c == cursor
<1>0. IInv /\ TlsTypeInv
  BY TlsTypes DEF TlsInv, OwnInv
<1>1. /\ rxQueue' = rxQueue \cup {cursor} /\ cursor' = None /\ rxpc' = "top"
      /\ UNCHANGED <<appVars, txVars, netVars, rxPipe, responseCount, stage, header,
                     data, delivered, cipher>>
  BY DEF TlsIncomplete, TlsReadMore
<1>2. /\ rxpc \notin {"top", "taken"}
      /\ c = Len(delivered) + 1 /\ c \in Cursors /\ Held = {c}
      /\ bodyLen[c] > 0 => Len(Have) < Size(c)
  BY StillMissing DEF TlsIncomplete
<1>3. TypeInv'
  BY <1>0, TlsTypeWait DEF TlsTypeInv, TlsTypeOK, TypeInv
<1>4. IInv' /\ Held' = Held
  BY <1>0, <1>1, <1>2, <1>3, IInvAsked
<1>5. UNCHANGED <<bodyLen, sock, net, requests, txCursor>>
  BY <1>1 DEF appVars, txVars, netVars
<1>6. Have' = Have /\ OwnHeader' /\ OwnResponse' /\ LastHeld' = LastHeld
  BY <1>1, <1>4, <1>5, SameHave DEF TlsInv, OwnInv
<1>7. UNCHANGED <<LastPiped, LastTaken, Answered>>
  BY <1>1, <1>5, <1>6 DEF LastPiped, LastTaken, Answered
<1>8. AnswersInTime'
  BY <1>1, <1>5, <1>7 DEF TlsInv, OwnInv, AnswersInTime
<1>9. StreamOf(Len(delivered), Answered, TlsStream)'
  BY <1>1, <1>5, <1>6, <1>7, SameTlsStream DEF TlsStream, TlsRest, Rest
<1>10. Underway'
  BY <1>1, <1>2, <1>5, <1>6 DEF Underway, Size
<1>11. NeverAborts' /\ cipher' \in Seq(Bytes)
  BY <1>1 DEF TlsInv, NeverAborts
<1> QED
  BY <1>4, <1>6, <1>8, <1>9, <1>10, <1>11 DEF TlsInv, OwnInv

\* What is readable goes behind the undecrypted bytes.
LEMMA TlsInvRecv ==
  ASSUME TlsInv, TlsRecv
  PROVE  TlsInv'
<1>0. IInv /\ TlsTypeInv /\ cipher \in Seq(Units) /\ sock \in Seq(Units) /\ net \in Seq(Units)
  BY TlsTypes, StreamTypes DEF TlsInv, OwnInv
<1>1. /\ rxpc = "taken" /\ sock' = <<>> /\ cipher' = cipher \o sock /\ rxpc' = "decrypt"
      /\ UNCHANGED <<appVars, txVars, requests, net, rxPipe, rxQueue, cursor, header,
                     data, delivered>>
  BY DEF TlsRecv
<1>2. TypeInv' /\ cipher' \in Seq(Bytes)
  BY <1>0, TlsTypeRecv DEF TlsTypeInv, TlsTypeOK, TypeInv
<1>3. IInv'
  BY <1>0, <1>2, IInvReceived DEF TlsRecv
<1>4. UNCHANGED <<bodyLen, txCursor, Held>>
  BY <1>1 DEF appVars, txVars, Held
<1>5. Have' = Have /\ OwnHeader' /\ OwnResponse' /\ LastHeld' = LastHeld
  BY <1>1, <1>4, SameHave DEF TlsInv, OwnInv
<1>6. UNCHANGED <<LastPiped, LastTaken, Answered>>
  BY <1>1, <1>4, <1>5 DEF LastPiped, LastTaken, Answered
<1>7. AnswersInTime'
  BY <1>1, <1>4, <1>6 DEF TlsInv, OwnInv, AnswersInTime
<1>8. TlsStream' = TlsStream
  <2>1. (cipher \o sock) \o net = cipher \o (sock \o net)
    <3>1. cipher \in Seq(Units) /\ sock \in Seq(Units) /\ net \in Seq(Units)
      BY <1>0
    <3> QED
      BY <3>1, ConcatAssociative
  <2>2. <<>> \o net = net
    BY <1>0, ConcatEmptySeq
  <2> QED
    BY <1>1, <1>5, <2>1, <2>2 DEF TlsStream, TlsRest, Rest
<1>9. StreamOf(Len(delivered), Answered, TlsStream)'
  BY <1>1, <1>4, <1>6, <1>8, SameTlsStream
<1>10. Underway'
  BY <1>1, <1>4, <1>5 DEF TlsInv, Underway, Size
<1>11. NeverAborts'
  BY <1>1 DEF NeverAborts
<1> QED
  BY <1>2, <1>3, <1>5, <1>7, <1>9, <1>10, <1>11 DEF TlsInv, OwnInv

-----------------------------------------------------------------------------
(***************************************************************************)
(* A record is decrypted.                                                  *)
(***************************************************************************)

\* The bytes of the record go to the cursor, and its header is found when the
\* cursor had none.
LEMMA RecordReceived ==
  ASSUME TlsInv, TlsDecrypt, Coalesced = {}, HeaderLen <= RecordLen, 0 \notin BodyLens,
         NEW c, c = cursor, NEW n, n = FirstRecord(cipher),
         NEW rec, rec = SubSeq(cipher, 1, n)
  PROVE  /\ rec \in Seq(Units) /\ n \in 1 .. Len(cipher) /\ Len(rec) = n
         /\ bodyLen[c] > 0 => Len(Have) + n <= Size(c)
         /\ header' = [header EXCEPT ![c] = c]
         /\ \E d \in Seq(Units) :
              /\ data' = [data EXCEPT ![c] = d]
              /\ SubSeq(Response(c), 1, HeaderLen) \o d = Have \o rec
         /\ rxpc' = "process"
<1>0. IInv /\ OwnHeader /\ cipher \in Seq(Bytes) /\ TypeOK /\ TlsTypeOK
      /\ cipher \in Seq(Units) /\ Rest \in Seq(Units) /\ Have \in Seq(Units)
  BY TlsTypes DEF TlsInv, OwnInv, TlsTypeInv
<1>1. Decrypts /\ n > 0
  BY DEF TlsDecrypt
<1>2. /\ rxpc \notin {"top", "taken"}
      /\ c = Len(delivered) + 1 /\ c \in Cursors /\ Held = {c}
      /\ bodyLen[c] > 0 => Len(Have) < Size(c)
  BY <1>1, StillMissing
<1>3. /\ data[c] \in Seq(Units)
      /\ \/ header[c] = None /\ data[c] = <<>> /\ Have = <<>>
         \/ /\ header[c] = c /\ c # None
            /\ Have = SubSeq(Response(c), 1, HeaderLen) \o data[c]
  BY <1>0, <1>2, HaveOfCursor
<1>4. rec \in Seq(Units) /\ n \in 1 .. Len(cipher) /\ Len(rec) = n /\ n \in Nat
  <2>1. rec \in Seq(Bytes) /\ n \in 1 .. Len(cipher) /\ Len(rec) = n
    BY <1>0, <1>1, RecordType
  <2>2. n \in Nat
    BY <2>1
  <2> QED
    BY <2>1, <2>2 DEF Units
<1>5. Len(Have) < Size(c) \/ Have = <<>>
      => /\ Len(Have) + n <= Size(c)
         /\ \A i \in 1 .. n : cipher[i] = [req |-> c, pos |-> Len(Have) + i]
         /\ Have = <<>> => n >= HeaderLen
  <2> DEFINE h == Have
             r == Rest
  <2>1. h \in Seq(Units) /\ r \in Seq(Units)
    BY <1>0
  <2>2. IsStreamFrom(c, h \o (cipher \o r))
    BY <1>2 DEF TlsInv, StreamOf, TlsStream, TlsRest
  <2> HIDE DEF h, r
  <2>3. Len(h) < Size(c) \/ h = <<>>
        => /\ Len(h) + n <= Size(c)
           /\ \A i \in 1 .. n : cipher[i] = [req |-> c, pos |-> Len(h) + i]
           /\ h = <<>> => n >= HeaderLen
    BY <1>0, <1>1, <1>2, <2>1, <2>2, RecordOfCursor
  <2> QED
    BY <2>3 DEF h
<1>6. header \in [Cursors -> Cursors \cup {None}] /\ data \in [Cursors -> Seq(Units)]
  BY <1>0 DEF TypeOK
<1>7. c # None
  BY <1>2 DEF None, Cursors
<1> DEFINE buf   == data[c] \o rec
           end   == IF header[c] = None THEN HeaderEnd(buf) ELSE 0
           wraps == end > n
           found == IF end = 0 \/ wraps THEN header[c] ELSE buf[end].req
<1>8. /\ header' = [header EXCEPT ![c] = found]
      /\ data' = [data EXCEPT ![c] = IF end = 0 \/ wraps THEN buf ELSE MoveBody(buf, end, n)]
      /\ rxpc' = IF wraps \/ NoBody(found) THEN "aborted" ELSE "process"
  BY DEF TlsDecrypt
<1>body. ~NoBody(c)
  BY <1>0, <1>2 DEF NoBody, TypeOK
<1>9. CASE header[c] = c
  <2>1. end = 0 /\ ~wraps
    <3>1. end = 0
      BY <1>7, <1>9
    <3> QED
      BY <1>4, <3>1
  <2>2. header = [header EXCEPT ![c] = c] /\ found = c
    BY <1>2, <1>6, <1>9, <2>1
  <2> HIDE DEF end, wraps, found
  <2>3. header' = header /\ data' = [data EXCEPT ![c] = buf] /\ rxpc' = "process"
    BY <1>2, <1>6, <1>8, <1>body, <2>1, <2>2
  <2>4. buf \in Seq(Units) /\ SubSeq(Response(c), 1, HeaderLen) \o buf = Have \o rec
    <3> DEFINE d == data[c]
    <3>1. d \in Seq(Units) /\ Have = SubSeq(Response(c), 1, HeaderLen) \o d
      BY <1>3, <1>7, <1>9
    <3> HIDE DEF d
    <3>2. /\ d \o rec \in Seq(Units)
          /\ SubSeq(Response(c), 1, HeaderLen) \o (d \o rec)
               = (SubSeq(Response(c), 1, HeaderLen) \o d) \o rec
      <4>1. TypeOK /\ c \in Cursors /\ rec \in Seq(Units)
        BY <1>0, <1>2, <1>4
      <4> QED
        BY <3>1, <4>1, MoreBytes
    <3> QED
      BY <3>1, <3>2 DEF d
  <2> HIDE DEF buf
  <2> QED
    BY <1>2, <1>4, <1>5, <2>2, <2>3, <2>4
<1>10. CASE header[c] # c
  <2>1. header[c] = None /\ data[c] = <<>> /\ Have = <<>>
    BY <1>3, <1>10
  <2>2. /\ Len(Have) + n <= Size(c) /\ n >= HeaderLen /\ Len(Have) = 0
        /\ \A i \in 1 .. n : cipher[i] = [req |-> c, pos |-> i]
    <3>1. Len(Have) = 0
      BY <2>1
    <3> QED
      BY <1>5, <2>1, <3>1
  <2>3. \A i \in 1 .. HeaderLen : rec[i] = [req |-> c, pos |-> i]
    <3>1. n \in 0 .. Len(cipher)
      BY <1>4
    <3>2. \A i \in 1 .. n : rec[i] = cipher[i]
      <4>1. cipher \in Seq(Bytes)
        BY <1>0
      <4>2. \A i \in 1 .. n : SubSeq(cipher, 1, n)[i] = cipher[i]
        BY <3>1, <4>1, CutInTwo
      <4> QED
        BY <4>2
    <3>3. \A i \in 1 .. HeaderLen : i \in 1 .. n
      BY <1>4, <2>2, LengthAssumption
    <3> QED
      BY <2>2, <3>2, <3>3
  <2> DEFINE d == MoveBody(rec, HeaderLen, n)
  <2>4. /\ HeaderEnd(rec) = HeaderLen /\ HeaderLen # 0 /\ ~(HeaderLen > n)
        /\ rec[HeaderLen].req = c /\ d \in Seq(Units)
        /\ SubSeq(Response(c), 1, HeaderLen) \o d = rec
    <3>1. TypeOK /\ c \in Cursors /\ rec \in Seq(Units) /\ Len(rec) = n /\ Len(rec) >= HeaderLen
      BY <1>0, <1>2, <1>4, <2>2
    <3> QED
      BY <2>3, <3>1, FirstRead
  <2>5. <<>> \o rec = rec
    BY <1>4, ConcatEmptySeq
  <2>6. buf = rec /\ Have \o rec = rec
    BY <2>1, <2>5
  <2>7. end = HeaderLen /\ ~wraps
    <3>1. end = HeaderLen
      BY <2>1, <2>4, <2>6
    <3> QED
      BY <2>4, <3>1
  <2>found. found = c
    BY <2>4, <2>6, <2>7
  <2> HIDE DEF end, wraps, buf, d, found
  <2>8. /\ header' = [header EXCEPT ![c] = c] /\ rxpc' = "process"
    BY <1>8, <1>body, <2>7, <2>found
  <2>9. data' = [data EXCEPT ![c] = d]
    BY <1>8, <2>4, <2>6, <2>7 DEF d
  <2> QED
    BY <1>4, <2>2, <2>4, <2>6, <2>8, <2>9
<1> QED
  BY <1>9, <1>10

LEMMA TlsInvDecrypt ==
  ASSUME TlsInv, TlsDecrypt, Coalesced = {}, HeaderLen <= RecordLen, 0 \notin BodyLens
  PROVE  TlsInv'
<1> DEFINE c   == cursor
           n   == FirstRecord(cipher)
           rec == SubSeq(cipher, 1, n)
           cut == SubSeq(cipher, n + 1, Len(cipher))
<1>0. IInv /\ TlsTypeInv /\ TypeOK /\ cipher \in Seq(Bytes)
      /\ cipher \in Seq(Units) /\ Rest \in Seq(Units) /\ Have \in Seq(Units)
  BY TlsTypes DEF TlsInv, OwnInv
<1>1. /\ rec \in Seq(Units) /\ n \in 1 .. Len(cipher) /\ Len(rec) = n
      /\ bodyLen[c] > 0 => Len(Have) + n <= Size(c)
      /\ header' = [header EXCEPT ![c] = c]
      /\ \E d \in Seq(Units) :
           /\ data' = [data EXCEPT ![c] = d]
           /\ SubSeq(Response(c), 1, HeaderLen) \o d = Have \o rec
      /\ rxpc' = "process"
  BY RecordReceived
<1>2. /\ rxpc \notin {"top", "taken"}
      /\ c = Len(delivered) + 1 /\ c \in Cursors /\ Held = {c}
  BY StillMissing DEF TlsDecrypt
<1>3. /\ cipher' = cut
      /\ UNCHANGED <<bodyLen, delivered, requests, sock, net, rxPipe, txCursor, cursor,
                     rxQueue, queryCount, txQueue, responseCount, stage>>
  BY DEF TlsDecrypt, appVars, txVars, netVars
<1>4. cut \in Seq(Units) /\ cut \in Seq(Bytes) /\ rec \o cut = cipher
  <2>1. n \in 0 .. Len(cipher)
    BY <1>1
  <2> HIDE DEF n
  <2>2. cut \in Seq(Bytes) /\ rec \o cut = cipher
    BY <1>0, <2>1, CutInTwo
  <2> HIDE DEF rec, cut
  <2>3. cut \in Seq(Units)
    BY <2>2 DEF Units
  <2> QED
    BY <2>2, <2>3
<1> HIDE DEF n, rec, cut
<1>5. TypeInv'
  BY <1>0, TlsTypeDecrypt DEF TlsTypeInv, TlsTypeOK, TypeInv
<1>6. IInv'
  <2>1. UNCHANGED <<Held, LastHeld, LastPiped, LastTaken>>
    BY <1>3 DEF Held, LastHeld, LastPiped, LastTaken
  <2>2. CursorOrder' /\ FreshStage'
    BY <1>0, <1>3, <2>1 DEF IInv, CursorOrder, FreshStage
  <2>3. responseCount = 1
    BY <1>0, <1>2 DEF IInv, ResponseCountExact
  <2>4. ResponseCountExact'
    BY <1>2, <1>3, <2>1, <2>3 DEF ResponseCountExact
  <2> QED
    BY <1>5, <2>2, <2>4 DEF IInv
<1>7. OwnInv' /\ Have' = Have \o rec /\ Answered' = Answered /\ Held' = Held
  <2>1. PICK d \in Seq(Units) :
          /\ data' = [data EXCEPT ![c] = d]
          /\ SubSeq(Response(c), 1, HeaderLen) \o d = Have \o rec
    BY <1>1
  <2>2. rxpc # "top" /\ OwnInv
    BY <1>2 DEF TlsInv
  <2> QED
    BY <1>1, <1>3, <1>6, <2>1, <2>2, HaveGrows
<1>8. TlsStream' = TlsStream
  <2> DEFINE h == Have
             r == Rest
  <2>1. h \in Seq(Units) /\ r \in Seq(Units)
    BY <1>0
  <2>2. TlsStream' = (h \o rec) \o (cut \o r) /\ TlsStream = h \o (cipher \o r)
    BY <1>3, <1>7 DEF TlsStream, TlsRest, Rest
  <2> HIDE DEF h, r
  <2>3. (rec \o cut) \o r = rec \o (cut \o r)
    <3>1. rec \in Seq(Units) /\ cut \in Seq(Units) /\ r \in Seq(Units)
      BY <1>1, <1>4, <2>1
    <3> QED
      BY <3>1, ConcatAssociative
  <2> DEFINE t == cut \o r
  <2>4. h \in Seq(Units) /\ rec \in Seq(Units) /\ t \in Seq(Units)
    BY <1>1, <1>4, <2>1, Joined
  <2>5. TlsStream' = (h \o rec) \o t /\ TlsStream = h \o (rec \o t)
    BY <1>4, <2>2, <2>3
  <2> HIDE DEF t
  <2>6. (h \o rec) \o t = h \o (rec \o t)
    BY <2>4, ConcatAssociative
  <2> QED
    BY <2>5, <2>6
<1>9. StreamOf(Len(delivered), Answered, TlsStream)'
  BY <1>3, <1>7, <1>8, SameTlsStream
<1>10. Underway'
  <2>1. Len(Have') = Len(Have) + n
    BY <1>0, <1>1, <1>7, Joined
  <2> QED
    BY <1>1, <1>2, <1>3, <1>7, <2>1 DEF Underway, Size
<1>11. NeverAborts' /\ cipher' \in Seq(Bytes)
  BY <1>1, <1>3, <1>4 DEF NeverAborts
<1> QED
  BY <1>7, <1>9, <1>10, <1>11 DEF TlsInv

-----------------------------------------------------------------------------
(***************************************************************************)
(* A response is complete.                                                 *)
(***************************************************************************)

\* The cursor has its response and nothing else: no plain text is handed on.
LEMMA WholeResponse ==
  ASSUME TlsInv, rxpc = "process", Complete(cursor), bodyLen' = bodyLen, NEW c, c = cursor
  PROVE  /\ c = Len(delivered) + 1 /\ c \in Cursors /\ Held = {c} /\ LastHeld = c
         /\ rxQueue = {} /\ responseCount = 1 /\ Overlap(c) = <<>>
         /\ Answered \in Nat /\ TlsRest \in Seq(Units) /\ StreamOf(c, Answered, TlsRest)
         /\ delivered' = Append(delivered, Callback(cursor))
              => OwnResponse' /\ Len(delivered)' = c
<1>0. IInv /\ OwnHeader /\ OwnResponse /\ TypeOK /\ Len(delivered) \in Nat
      /\ TlsRest \in Seq(Units) /\ TlsStream \in Seq(Units) /\ TlsStream = Have \o TlsRest
  BY TlsTypes DEF TlsInv, OwnInv, TlsStream
<1>1. /\ c = Len(delivered) + 1 /\ c \in Cursors /\ Held = {c} /\ LastHeld = c
      /\ rxQueue = {} /\ responseCount = 1
  BY <1>0, HaveOfCursor, CursorHeld DEF IInv, ResponseCountExact
<1>2. StreamOf(Len(delivered), Answered, TlsStream) /\ Answered \in Nat
  BY DEF TlsInv, OwnInv, AnswersInTime
<1>3. IsStreamFrom(c, TlsStream)
  BY <1>1, <1>2 DEF StreamOf
<1>4. /\ header[c] = c /\ ContentLength(c) = bodyLen[c] /\ bodyLen[c] >= 1
      /\ Overlap(c) \in Seq(Units) /\ Size(c) <= Len(TlsStream)
      /\ SubSeq(TlsStream, Size(c) + 1, Len(TlsStream)) = Overlap(c) \o TlsRest
      /\ SubSeq(data[c], 1, bodyLen[c]) = SubSeq(Response(c), HeaderLen + 1, Size(c))
      /\ Len(Have) = HeaderLen + Len(data[c])
      /\ Len(Overlap(c)) = Len(data[c]) - bodyLen[c]
  BY <1>0, <1>3, CompleteResponse
<1>5. Overlap(c) = <<>>
  <2> DEFINE b == bodyLen[c]
             k == Len(data[c])
             o == Len(Overlap(c))
  <2>1. Size(c) \in Nat /\ b \in Nat /\ HeaderLen \in Nat /\ Size(c) = HeaderLen + b
    BY <1>0, <1>1, SizeType
  <2>2. b >= 1 /\ Len(Have) = HeaderLen + k /\ o = k - b
    BY <1>4
  <2>3. k \in Nat /\ o \in Nat
    BY <1>0, <1>1, <1>4 DEF TypeOK
  <2>4. b > 0 => Len(Have) <= Size(c)
    BY <1>1 DEF TlsInv, Underway
  <2> HIDE DEF b, k, o
  <2>5. o = 0
    BY <2>1, <2>2, <2>3, <2>4
  <2> QED
    BY <1>4, <2>5 DEF o
<1>6. <<>> \o TlsRest = TlsRest
  BY <1>0, ConcatEmptySeq
<1>7. StreamOf(c, Answered, TlsRest)
  <2>1. StreamOf(c, Answered, SubSeq(TlsStream, Size(c) + 1, Len(TlsStream)))
    BY <1>0, <1>1, <1>2, <1>4, OneResponseLess
  <2> QED
    BY <1>4, <1>5, <1>6, <2>1
<1>8. ASSUME delivered' = Append(delivered, Callback(cursor))
      PROVE  OwnResponse' /\ Len(delivered)' = c
  BY <1>0, <1>1, <1>4, <1>8, CallbackIsOwn
<1> QED
  BY <1>0, <1>1, <1>2, <1>5, <1>7, <1>8

\* Complete, with rxPipe empty: nothing can be left of later responses, neither
\* readable nor undecrypted, so the step is RxClose and the assertion on
\* responseCount holds.
LEMMA CloseIsLast ==
  ASSUME TlsInv, TlsClose
  PROVE  RxClose /\ cipher = <<>> /\ Rest = <<>> /\ Answered <= cursor
<1> DEFINE c == cursor
<1>1. rxpc = "process" /\ Complete(cursor) /\ rxPipe = <<>> /\ bodyLen' = bodyLen
  BY DEF TlsClose, appVars
<1>2. /\ c = Len(delivered) + 1 /\ c \in Cursors /\ LastHeld = c /\ responseCount = 1
      /\ Answered \in Nat /\ TlsRest \in Seq(Units) /\ StreamOf(c, Answered, TlsRest)
  BY <1>1, WholeResponse
<1>3. IInv /\ cipher \in Seq(Units) /\ Rest \in Seq(Units) /\ Len(delivered) \in Nat
  BY TlsTypes DEF TlsInv, OwnInv
<1>4. Answered <= c /\ c \in Nat
  <2>1. LastPiped = c /\ c \in Nat
    BY <1>1, <1>2 DEF LastPiped, Cursors
  <2> QED
    BY <1>2, <1>3, <2>1 DEF TlsInv, OwnInv, AnswersInTime
<1>5. TlsRest = <<>>
  <2> HIDE DEF c
  <2> QED
    BY <1>2, <1>4, NothingBehind
<1>6. cipher = <<>> /\ Rest = <<>>
  BY <1>3, <1>5, ConcatEqualIffEmpty DEF TlsRest
<1>7. RxClose
  <2>1. responseCount' = responseCount - 1 /\ ~(responseCount' < 0)
    BY <1>2 DEF TlsClose
  <2>2. delivered' = Append(delivered, Callback(cursor)) /\ rxpc' = "top" /\ cursor' = None
    BY <1>6, <2>1 DEF TlsClose
  <2> QED
    BY <1>1, <2>1, <2>2 DEF TlsClose, RxClose
<1> QED
  BY <1>4, <1>6, <1>7

LEMMA TlsInvClose ==
  ASSUME TlsInv, TlsClose
  PROVE  TlsInv'
<1> DEFINE c == cursor
<1>0. RxClose /\ cipher = <<>> /\ Rest = <<>> /\ Answered <= c /\ IInv /\ IInv'
  BY CloseIsLast, IInvClose DEF TlsInv, OwnInv
<1>1. /\ rxpc = "process" /\ Complete(cursor) /\ rxPipe = <<>>
      /\ delivered' = Append(delivered, Callback(cursor))
      /\ rxQueue' = rxQueue \ {cursor} /\ cursor' = None /\ rxpc' = "top"
      /\ UNCHANGED <<bodyLen, header, data, net, sock, requests, rxPipe, txCursor>>
  BY <1>0 DEF RxClose, appVars, txVars, netVars
<1>2. cipher' = cipher
  BY DEF TlsClose
<1>3. /\ c = Len(delivered) + 1 /\ c \in Cursors /\ Held = {c} /\ LastHeld = c
      /\ rxQueue = {} /\ Answered \in Nat /\ StreamOf(c, Answered, TlsRest)
      /\ OwnResponse' /\ Len(delivered)' = c
  BY <1>1, WholeResponse
<1>4. Held' = {} /\ LastHeld' = LastHeld
  <2>1. Held' = {}
    BY <1>1, <1>3 DEF Held
  <2>2. LastHeld' = c
    BY <1>3, <2>1 DEF LastHeld, Cursors
  <2> QED
    BY <1>3, <2>1, <2>2
<1>5. UNCHANGED <<LastPiped, LastTaken, Answered>>
  BY <1>1, <1>4 DEF LastPiped, LastTaken, Answered
<1>6. LastPiped = c
  BY <1>1, <1>3 DEF LastPiped, Cursors
<1>7. AnswersInTime'
  BY <1>0, <1>1, <1>5, <1>6 DEF TlsInv, OwnInv, AnswersInTime
<1>8. OwnHeader'
  BY <1>1, <1>4 DEF TlsInv, OwnInv, OwnHeader
<1>9. TlsStream' = TlsRest
  <2>1. Have' = <<>>
    BY <1>4 DEF Have
  <2> QED
    BY <1>0, <1>1, <1>2, <2>1 DEF TlsStream, TlsRest, Rest
<1>10. StreamOf(Len(delivered), Answered, TlsStream)'
  BY <1>1, <1>3, <1>5, <1>9, NextTlsStream
<1>11. Underway' /\ NeverAborts' /\ cipher' \in Seq(Bytes)
  BY <1>1, <1>2, <1>4 DEF TlsInv, Underway, NeverAborts
<1> QED
  BY <1>0, <1>3, <1>7, <1>8, <1>10, <1>11 DEF TlsInv, OwnInv

\* Complete, with a cursor in rxPipe: that one has nothing yet, and the records
\* that are not decrypted are its own.
LEMMA TlsInvCloseAndSwitch ==
  ASSUME TlsInv, TlsCloseAndSwitch
  PROVE  TlsInv'
<1> DEFINE c    == cursor
           next == Head(rxPipe)
<1>0. IInv /\ TlsTypeInv /\ TypeOK /\ cipher \in Seq(Units) /\ Len(delivered) \in Nat
  BY TlsTypes DEF TlsInv, OwnInv
<1>1. /\ rxpc = "process" /\ Complete(cursor) /\ rxPipe # <<>> /\ rxPipe' = Tail(rxPipe)
      /\ delivered' = Append(delivered, Callback(cursor))
      /\ responseCount' = (responseCount + 1) - 1
      /\ UNCHANGED <<appVars, txVars, netVars, stage, cipher>>
  BY DEF TlsCloseAndSwitch
<1>2. UNCHANGED <<bodyLen, net, sock, requests, txCursor>>
  BY <1>1 DEF appVars, txVars, netVars
<1>3. /\ c = Len(delivered) + 1 /\ c \in Cursors /\ Held = {c} /\ LastHeld = c
      /\ rxQueue = {} /\ Overlap(c) = <<>>
      /\ Answered \in Nat /\ TlsRest \in Seq(Units) /\ StreamOf(c, Answered, TlsRest)
      /\ OwnResponse' /\ Len(delivered)' = c
  BY <1>1, <1>2, WholeResponse
<1>4. next = c + 1 /\ next \in Cursors /\ next # None
      /\ Len(rxPipe) = Len(rxPipe') + 1 /\ Len(rxPipe') \in Nat
  <2>1. rxPipe \in Seq(Cursors) /\ rxPipe # <<>> /\ rxPipe' = Tail(rxPipe)
        /\ ContinuesFrom(rxPipe, LastHeld)
    BY <1>0, <1>1 DEF TypeOK, IInv, CursorOrder
  <2>2. Head(rxPipe) \in Cursors /\ Len(Tail(rxPipe)) \in Nat
    BY <2>1
  <2>3. c \in Nat
    BY <1>3 DEF Cursors
  <2>4. Head(rxPipe) = c + 1 /\ Len(rxPipe) = Len(Tail(rxPipe)) + 1
    BY <1>3, <2>1, <2>3, ContinuesTail
  <2> HIDE DEF c
  <2> QED
    BY <2>1, <2>2, <2>4 DEF None, Cursors
<1>5. header[next] = None /\ data[next] = <<>>
  <2>1. next > LastHeld
    BY <1>3, <1>4 DEF Cursors
  <2> QED
    BY <1>4, <2>1 DEF TlsInv, OwnInv, OwnHeader
<1>6. header' = header /\ data' = data
  <2>1. HeaderEnd(<<>>) = 0
    BY DEF HeaderEnd
  <2>2. HeaderEnd(Overlap(cursor)) = 0
    BY <1>3, <2>1
  <2>3. header' = [header EXCEPT ![next] = None] /\ data' = [data EXCEPT ![next] = <<>>]
    BY <2>2 DEF TlsCloseAndSwitch
  <2>4. header \in [Cursors -> Cursors \cup {None}] /\ data \in [Cursors -> Seq(Units)]
    BY <1>0 DEF TypeOK
  <2> HIDE DEF next
  <2> QED
    BY <1>4, <1>5, <2>3, <2>4
<1>7. \/ cursor' = next /\ rxQueue' = (rxQueue \cup {}) \ {cursor}
      \/ cursor' = None /\ rxQueue' = (rxQueue \cup {next}) \ {cursor}
  BY DEF TlsCloseAndSwitch
<1>8. rxpc' \in {"top", "decrypt"}
  BY DEF TlsCloseAndSwitch
<1>9. TypeInv'
  BY <1>0, TlsTypeCloseAndSwitch DEF TlsTypeInv, TlsTypeOK, TypeInv
<1>10. IInv' /\ Held' = {next}
  BY <1>0, <1>1, <1>7, <1>9, IInvHandover
<1>11. LastHeld' = next
  BY <1>3, <1>4, <1>10 DEF LastHeld
<1>12. UNCHANGED <<LastPiped, LastTaken, Answered>>
  <2>1. LastPiped = c + Len(rxPipe) /\ LastPiped' = next + Len(rxPipe') /\ c \in Nat
    BY <1>3, <1>11 DEF LastPiped, Cursors
  <2>2. LastPiped' = LastPiped
    <3> DEFINE k == Len(rxPipe')
    <3>1. k \in Nat /\ Len(rxPipe) = k + 1 /\ LastPiped' = next + k
      BY <1>4, <2>1
    <3> HIDE DEF k, next, c
    <3> QED
      BY <1>4, <2>1, <3>1
  <2> QED
    BY <1>2, <2>2 DEF LastTaken, Answered
<1>13. AnswersInTime'
  <2>1. c \in Nat /\ LastPiped = c + Len(rxPipe)
    BY <1>3 DEF Cursors, LastPiped
  <2>2. LastPiped # Len(delivered)
    BY <1>0, <1>3, <1>4, <2>1
  <2>3. Answered \in Nat /\ ContinuesFrom(requests, Answered) /\ Answered <= LastPiped
    BY <2>2 DEF TlsInv, OwnInv, AnswersInTime
  <2> QED
    BY <1>2, <1>12, <2>3 DEF AnswersInTime
<1>14. OwnHeader'
  <2>1. \A k \in Cursors : k > LastHeld' => k > LastHeld
    BY <1>3, <1>4, <1>11 DEF Cursors
  <2> HIDE DEF next
  <2> QED
    BY <1>5, <1>6, <1>10, <2>1 DEF TlsInv, OwnInv, OwnHeader
<1>15. Have' = <<>>
  <2> PICK k \in Cursors : k = next
    BY <1>4
  <2>1. Have' = Received(k)'
    BY <1>3, <1>4, <1>10 DEF Have
  <2>2. header'[k] = None /\ data'[k] = <<>>
    BY <1>5, <1>6
  <2> QED
    BY <2>1, <2>2 DEF Received
<1>16. TlsStream' = TlsRest
  <2>1. TlsRest' = TlsRest
    BY <1>1, <1>2 DEF TlsRest, Rest
  <2>2. <<>> \o TlsRest = TlsRest
    BY <1>3, ConcatEmptySeq
  <2> QED
    BY <1>15, <2>1, <2>2 DEF TlsStream
<1>17. StreamOf(Len(delivered), Answered, TlsStream)'
  BY <1>2, <1>3, <1>12, <1>16, NextTlsStream
<1>18. Underway'
  <2>1. Len(delivered') + 1 = next /\ Len(Have') = 0
    BY <1>3, <1>4, <1>15
  <2>2. HeaderLen \in Nat /\ HeaderLen >= 1
    BY LengthAssumption
  <2>3. bodyLen'[next] \in Nat
    BY <1>0, <1>2, <1>4, SizeType
  <2> HIDE DEF next
  <2> QED
    BY <1>8, <2>1, <2>2, <2>3 DEF Underway, Size
<1>19. NeverAborts' /\ cipher' \in Seq(Bytes)
  BY <1>1, <1>8 DEF TlsInv, NeverAborts
<1> QED
  BY <1>3, <1>10, <1>13, <1>14, <1>17, <1>18, <1>19 DEF TlsInv, OwnInv

-----------------------------------------------------------------------------
(***************************************************************************)
(* What the application can rely on.                                       *)
(***************************************************************************)

LEMMA TlsInvStep ==
  ASSUME ~Outrun, Coalesced = {}, HeaderLen <= RecordLen, 0 \notin BodyLens
  PROVE  TlsInv /\ [TlsNext]_tlsVars => TlsInv'
<1> SUFFICES ASSUME TlsInv, [TlsNext]_tlsVars PROVE TlsInv'
  OBVIOUS
<1>1. CASE UNCHANGED tlsVars \/ TlsFinished
  <2>1. UNCHANGED vars /\ cipher' = cipher
    BY <1>1 DEF TlsFinished, tlsVars
  <2>2. UNCHANGED <<bodyLen, delivered, header, data, net, sock, requests, rxPipe,
                    txCursor, rxpc, Held>>
    BY <2>1 DEF vars, appVars, txVars, netVars, rxVars, Held
  <2>3. IInv'
    BY <2>1, IInvStep DEF TlsInv, OwnInv
  <2>4. Have' = Have /\ OwnHeader' /\ OwnResponse' /\ LastHeld' = LastHeld
    BY <2>2, SameHave DEF TlsInv, OwnInv
  <2>5. UNCHANGED <<LastPiped, LastTaken, Answered, TlsStream>>
    BY <2>1, <2>2, <2>4 DEF LastPiped, LastTaken, Answered, TlsStream, TlsRest, Rest
  <2>6. AnswersInTime'
    BY <2>2, <2>5 DEF TlsInv, OwnInv, AnswersInTime
  <2>7. StreamOf(Len(delivered), Answered, TlsStream)'
    BY <2>2, <2>5, SameTlsStream
  <2>8. Underway' /\ NeverAborts' /\ cipher' \in Seq(Bytes)
    BY <2>1, <2>2, <2>4, SameUnderway DEF TlsInv, NeverAborts
  <2> QED
    BY <2>3, <2>4, <2>6, <2>7, <2>8 DEF TlsInv, OwnInv
<1>2. CASE (CTCursorSendOnQueue \/ TxThread) /\ UNCHANGED cipher
  BY <1>2, TlsInvTx
<1>3. CASE Network /\ UNCHANGED cipher
  BY <1>3, TlsInvAnswer, TlsInvDeliver DEF Network
<1>4. CASE TlsRxThread
  BY <1>4, TlsInvTake, TlsInvRecv, TlsInvDecrypt, TlsInvWait, TlsInvClose,
     TlsInvCloseAndSwitch DEF TlsRxThread
<1> QED
  BY <1>1, <1>2, <1>3, <1>4 DEF TlsNext

LEMMA TlsInvariance ==
  ASSUME ~Outrun, Coalesced = {}, HeaderLen <= RecordLen, 0 \notin BodyLens
  PROVE  TlsSpec => []TlsInv
<1>1. TlsInit => TlsInv
  BY TlsInvInit
<1>2. TlsInv /\ [TlsNext]_tlsVars => TlsInv'
  BY TlsInvStep
<1> QED
  BY <1>1, <1>2, PTL DEF TlsSpec

\* No byte is lost, doubled or reordered between the server and the cursors
\* where reads cut records, and records headers and bodies, anywhere: what waits
\* for the rest of its record is kept, and given to the cursor it belongs to.
THEOREM TlsNoByteLost ==
  ASSUME ~Outrun, Coalesced = {}, HeaderLen <= RecordLen, 0 \notin BodyLens
  PROVE  TlsSpec => []TlsStreamIntact
<1>1. TlsInv => TlsStreamIntact
  <2> SUFFICES ASSUME TlsInv PROVE TlsStreamIntact
    OBVIOUS
  <2>1. TlsStream = Have \o cipher \o sock \o net
    BY TlsStreamIs DEF TlsInv, OwnInv
  <2>2. IsStreamFrom(Len(delivered) + 1, TlsStream)
    BY DEF TlsInv, StreamOf
  <2> QED
    BY <2>1, <2>2 DEF TlsStreamIntact
<1>2. TlsSpec => []TlsInv
  BY TlsInvariance
<1> QED
  BY <1>1, <1>2, PTL

\* The loop that goes on with a closed cursor while records are left never
\* closes it twice: responseCount stays exact, and the assertion on it holds.
THEOREM TlsResponsesCounted ==
  ASSUME ~Outrun, Coalesced = {}, HeaderLen <= RecordLen, 0 \notin BodyLens
  PROVE  TlsSpec => []ResponseCountExact
<1>1. TlsInv => ResponseCountExact
  BY DEF TlsInv, OwnInv, IInv
<1>2. TlsSpec => []TlsInv
  BY TlsInvariance
<1> QED
  BY <1>1, <1>2, PTL

\* Neither the assertion on responseCount nor the move of a body ends the
\* process.
THEOREM TlsNeverAborts ==
  ASSUME ~Outrun, Coalesced = {}, HeaderLen <= RecordLen, 0 \notin BodyLens
  PROVE  TlsSpec => []NeverAborts
<1>1. TlsInv => NeverAborts
  BY DEF TlsInv
<1>2. TlsSpec => []TlsInv
  BY TlsInvariance
<1> QED
  BY <1>1, <1>2, PTL

\* Every response callback is given its own request's header and body.
THEOREM TlsResponsesAreOwn ==
  ASSUME ~Outrun, Coalesced = {}, HeaderLen <= RecordLen, 0 \notin BodyLens
  PROVE  TlsSpec => []OwnResponse
<1>1. TlsInv => OwnResponse
  BY DEF TlsInv, OwnInv
<1>2. TlsSpec => []TlsInv
  BY TlsInvariance
<1> QED
  BY <1>1, <1>2, PTL

LEMMA TlsStepIsPromised ==
  ASSUME TlsInv, AnswersOwn, AnswersOwn', [TlsNext]_tlsVars
  PROVE  [Promise!Next]_(Promise!vars)
<1>0. IInv
  BY DEF TlsInv, OwnInv
<1>1. CASE UNCHANGED <<queryCount, delivered, bodyLen>>
  <2>1. Answers' = Answers
    BY <1>1 DEF Answers, Origin, Response
  <2> QED
    BY <1>1, <2>1 DEF Promise!vars, Answers
<1>2. CASE CTCursorSendOnQueue \/ TxThread \/ Network
  <2>1. [Next]_vars
    BY <1>2 DEF Next
  <2> QED
    BY <1>0, <2>1, StepIsPromised
<1>3. CASE TlsClose
  <2>1. [Next]_vars
    BY <1>3, CloseIsLast DEF Next, RxThread
  <2> QED
    BY <1>0, <2>1, StepIsPromised
<1>4. CASE TlsCloseAndSwitch
  <2>1. rxpc = "process" /\ delivered' = Append(delivered, Callback(cursor))
        /\ queryCount' = queryCount
    BY <1>4 DEF TlsCloseAndSwitch, appVars
  <2> QED
    BY <1>0, <2>1, CursorWasSent, CallbackIsAnswer DEF Promise!Next, IInv, TypeInv
<1>5. CASE RxTakeEvent \/ RxTakePipe
  BY <1>1, <1>5 DEF RxTakeEvent, RxTakePipe, appVars
<1>6. CASE TlsRecv \/ TlsDecrypt \/ TlsIncomplete \/ TlsReadMore
  BY <1>1, <1>6 DEF TlsRecv, TlsDecrypt, TlsIncomplete, TlsReadMore, appVars
<1>7. CASE UNCHANGED tlsVars \/ TlsFinished
  BY <1>1, <1>7 DEF TlsFinished, tlsVars, vars, appVars, rxVars
<1> QED
  BY <1>2, <1>3, <1>4, <1>5, <1>6, <1>7 DEF TlsNext, TlsRxThread

\* With decryption in between the pipeline still looks like CTPromise: each step
\* is a request, the answer to the oldest request with its own response, or
\* nothing.
THEOREM TlsImplementsPromise ==
  ASSUME ~Outrun, Coalesced = {}, HeaderLen <= RecordLen, 0 \notin BodyLens
  PROVE  TlsSpec => Promise!Init /\ [][Promise!Next]_(Promise!vars)
<1>1. TlsInit => Promise!Init
  <2> SUFFICES ASSUME TlsInit PROVE Promise!Init
    OBVIOUS
  <2>1. delivered = <<>> /\ queryCount = 0
    BY DEF TlsInit, Init
  <2>2. [i \in 1 .. Len(delivered) |-> <<delivered[i].cursor, Origin(delivered[i])>>] = <<>>
    BY <2>1
  <2> QED
    BY <2>1, <2>2 DEF Promise!Init
<1>2. TlsInv /\ AnswersOwn /\ AnswersOwn' /\ [TlsNext]_tlsVars
      => [Promise!Next]_(Promise!vars)
  BY TlsStepIsPromised
<1>3. TlsInv => AnswersOwn
  BY AnswersAreOwn DEF TlsInv, OwnInv, IInv, CursorOrder
<1>4. TlsSpec => []TlsInv
  BY TlsInvariance
<1> QED
  BY <1>1, <1>2, <1>3, <1>4, PTL DEF TlsSpec

-----------------------------------------------------------------------------
(***************************************************************************)
(* No step is in vain, and the pipeline does not wait for nothing.  Bytes  *)
(* have one more place to leave: the undecrypted records.                  *)
(***************************************************************************)

\* A cursor gets ahead, or bytes leave the network, the socket or the records,
\* or the rx thread gets closer to waiting for the socket.
TlsProgress ==
  \/ Work' < Work
  \/ Work' = Work /\ Len(net') < Len(net)
  \/ UNCHANGED <<Work, net>> /\ Len(sock') < Len(sock)
  \/ UNCHANGED <<Work, net, sock>> /\ Len(cipher') < Len(cipher)
  \/ UNCHANGED <<Work, net, sock, cipher>> /\ Phase' < Phase

LEMMA TlsProgressRx ==
  ASSUME TlsInv, TlsInv', TlsRxThread
  PROVE  TlsProgress
<1>0. IInv /\ IInv' /\ TypeOK
  BY DEF TlsInv, OwnInv, IInv, TypeInv
<1>1. CASE (RxTakeEvent \/ RxTakePipe) /\ UNCHANGED cipher
  <2>1. Progress
    BY <1>0, <1>1, ProgressRx DEF RxThread
  <2>2. sock' = sock
    BY <1>1 DEF RxTakeEvent, RxTakePipe, netVars
  <2>3. ~(Len(sock') < Len(sock))
    <3>1. Len(sock) \in Nat
      BY <1>0 DEF TypeOK
    <3> QED
      BY <2>2, <3>1
  <2> QED
    BY <1>1, <2>1, <2>3 DEF Progress, TlsProgress
<1>2. CASE TlsRecv
  <2>1. Work' = Work /\ net' = net
    BY <1>0, <1>2, SameWork DEF TlsRecv, appVars, txVars
  <2>2. Len(sock') < Len(sock)
    BY <1>0, <1>2 DEF TlsRecv, TypeOK
  <2> QED
    BY <2>1, <2>2 DEF TlsProgress
<1>3. CASE TlsDecrypt
  <2>1. Work' = Work /\ UNCHANGED <<net, sock>>
    BY <1>0, <1>3, SameWork DEF TlsDecrypt, appVars, txVars, netVars
  <2>2. cipher \in Seq(Bytes) /\ Len(cipher) \in Nat
    BY DEF TlsInv
  <2> PICK n : n = FirstRecord(cipher)
    OBVIOUS
  <2>3. n \in 1 .. Len(cipher) /\ cipher' = SubSeq(cipher, n + 1, Len(cipher))
    BY <1>3, <2>2, FirstRecordEnds DEF TlsDecrypt
  <2>4. Len(cipher') = Len(cipher) - n
    BY <2>2, <2>3, CutInTwo
  <2>5. Len(cipher') < Len(cipher)
    BY <2>2, <2>3, <2>4
  <2> QED
    BY <2>1, <2>5 DEF TlsProgress
<1>4. CASE TlsIncomplete \/ TlsReadMore
  <2>1. Work' = Work /\ UNCHANGED <<net, sock, cipher>>
    BY <1>0, <1>4, SameWork DEF TlsIncomplete, TlsReadMore, appVars, txVars, netVars
  <2>2. rxpc \in {"decrypt", "process"} /\ rxpc' = "top"
    BY <1>4 DEF TlsIncomplete, TlsReadMore, Decrypts
  <2>3. Phase' < Phase
    BY <2>2 DEF Phase
  <2> QED
    BY <2>1, <2>3 DEF TlsProgress
<1>5. CASE TlsClose
  <2>1. RxClose
    BY <1>5, CloseIsLast
  <2>2. /\ delivered' = Append(delivered, Callback(cursor))
        /\ UNCHANGED <<queryCount, txQueue, txCursor, requests, rxPipe>>
    BY <2>1 DEF RxClose, appVars, txVars, netVars
  <2>3. Work' < Work
    BY <1>0, <2>2, WorkOfClose
  <2> QED
    BY <2>3 DEF TlsProgress
<1>6. CASE TlsCloseAndSwitch
  <2>1. Work' < Work
    BY <1>0, <1>6, WorkOfClose DEF TlsCloseAndSwitch, appVars, txVars, netVars
  <2> QED
    BY <2>1 DEF TlsProgress
<1> QED
  BY <1>1, <1>2, <1>3, <1>4, <1>5, <1>6 DEF TlsRxThread

LEMMA TlsProgressStep ==
  ASSUME TlsInv, TlsInv', [TlsNext]_tlsVars
  PROVE  TlsProgress \/ UNCHANGED tlsVars
<1>0. IInv /\ IInv'
  BY DEF TlsInv, OwnInv
<1>1. CASE CTCursorSendOnQueue \/ TxThread
  BY <1>0, <1>1, WorkOfTx DEF TlsProgress
<1>2. CASE Network
  BY <1>0, <1>2, WorkOfNetwork DEF TlsProgress
<1>3. CASE TlsRxThread
  BY <1>3, TlsProgressRx
<1> QED
  BY <1>1, <1>2, <1>3 DEF TlsNext, TlsFinished

\* No step of the TLS pipeline is in vain and the steps are bounded: the
\* decryption loop, and the cursor that goes round between rxQueue and the loop
\* for the rest of a record, use up bytes or end.
THEOREM TlsEveryStepProgresses ==
  ASSUME ~Outrun, Coalesced = {}, HeaderLen <= RecordLen, 0 \notin BodyLens
  PROVE  TlsSpec => [](Work \in Nat) /\ [][TlsProgress]_tlsVars
<1>1. TlsInv => Work \in Nat
  BY WorkIs DEF TlsInv, OwnInv
<1>2. TlsInv /\ TlsInv' /\ [TlsNext]_tlsVars => [TlsProgress]_tlsVars
  BY TlsProgressStep
<1>3. TlsSpec => []TlsInv
  BY TlsInvariance
<1> QED
  BY <1>1, <1>2, <1>3, PTL DEF TlsSpec

\* One of the guards of the threads, the server and the network holds.
TlsCanMove == CanMove \/ rxpc = "decrypt"

\* A cursor that waits for readable bytes does not wait with a whole record
\* undecrypted.
NoRecordWaits == rxpc \in {"top", "taken"} => FirstRecord(cipher) = 0

LEMMA NoRecordStep ==
  ASSUME TlsInv, NoRecordWaits, [TlsNext]_tlsVars
  PROVE  NoRecordWaits'
<1>1. bodyLen' = bodyLen
  <2>1. CASE RxTakeEvent \/ RxTakePipe \/ Answer \/ Deliver
    BY <2>1 DEF RxTakeEvent, RxTakePipe, Answer, Deliver, appVars
  <2>2. CASE CTCursorSendOnQueue \/ TxSend \/ CTCursorRecvOnQueue
    BY <2>2 DEF CTCursorSendOnQueue, TxSend, CTCursorRecvOnQueue, appVars
  <2>3. CASE TlsRecv \/ TlsDecrypt \/ TlsIncomplete
    BY <2>3 DEF TlsRecv, TlsDecrypt, TlsIncomplete, appVars
  <2>4. CASE TlsReadMore \/ TlsClose \/ TlsCloseAndSwitch
    BY <2>4 DEF TlsReadMore, TlsClose, TlsCloseAndSwitch, appVars
  <2>5. CASE TlsFinished \/ UNCHANGED tlsVars
    BY <2>5 DEF TlsFinished, tlsVars, vars, appVars
  <2> QED
    BY <2>1, <2>2, <2>3, <2>4, <2>5 DEF TlsNext, TlsRxThread, TxThread, Network
<1>2. FirstRecord(cipher)' = FirstRecord(cipher')
  BY <1>1 DEF FirstRecord, EndsRecord
<1> PICK s : s = cipher'
  OBVIOUS
<1>3. (s = <<>> \/ FirstRecord(s) = 0) => NoRecordWaits'
  <2>1. FirstRecord(<<>>) = 0
    BY DEF FirstRecord
  <2> QED
    BY <1>2, <2>1 DEF NoRecordWaits
<1>4. CASE rxpc' \notin {"top", "taken"}
  BY <1>4 DEF NoRecordWaits
<1>5. CASE rxpc \in {"top", "taken"} /\ cipher' = cipher
  BY <1>3, <1>5 DEF NoRecordWaits
<1>6. CASE (CTCursorSendOnQueue \/ TxThread \/ Network) /\ UNCHANGED cipher
  <2>1. rxpc' = rxpc
    BY <1>6 DEF CTCursorSendOnQueue, TxThread, TxSend, CTCursorRecvOnQueue, Network, Answer,
                Deliver, rxVars
  <2> QED
    BY <1>4, <1>5, <1>6, <2>1
<1>7. CASE (RxTakeEvent \/ RxTakePipe) /\ UNCHANGED cipher
  BY <1>5, <1>7 DEF RxTakeEvent, RxTakePipe
<1>8. CASE TlsRecv \/ TlsDecrypt
  BY <1>4, <1>8 DEF TlsRecv, TlsDecrypt
<1>9. CASE TlsIncomplete \/ TlsReadMore
  BY <1>3, <1>9 DEF TlsIncomplete, TlsReadMore
<1>10. CASE TlsClose
  BY <1>3, <1>10, CloseIsLast DEF TlsClose
<1>11. CASE TlsCloseAndSwitch
  BY <1>3, <1>4, <1>11 DEF TlsCloseAndSwitch
<1>12. CASE TlsFinished \/ UNCHANGED tlsVars
  <2>1. rxpc' = rxpc /\ cipher' = cipher
    BY <1>12 DEF TlsFinished, tlsVars, vars, rxVars
  <2> QED
    BY <1>4, <1>5, <2>1
<1> QED
  BY <1>6, <1>7, <1>8, <1>9, <1>10, <1>11, <1>12 DEF TlsNext, TlsRxThread

\* The undecrypted bytes at the end of the stream end with a record.
LEMMA LastRecord ==
  ASSUME NEW s \in Seq(Units), s # <<>>, EndsRecord(s[Len(s)])
  PROVE  FirstRecord(s) # 0
<1> DEFINE D == {i \in 1 .. Len(s) : EndsRecord(s[i])}
<1>1. Len(s) \in Nat /\ Len(s) \in D
  OBVIOUS
<1>2. PICK m \in D : \A n \in D : m <= n
  <2>1. D \subseteq Nat /\ D # {}
    BY <1>1
  <2> HIDE DEF D
  <2> QED
    BY <2>1, LeastNatural
<1>3. EndsRecord(s[m]) /\ \A j \in 1 .. (m - 1) : ~EndsRecord(s[j])
  <2>1. \A j \in 1 .. (m - 1) : j \in 1 .. Len(s) /\ ~(m <= j)
    BY <1>1
  <2> QED
    BY <1>2, <2>1
<1>4. m \in 1 .. Len(s)
  OBVIOUS
<1> HIDE DEF D
<1>5. FirstRecord(s) \in 1 .. Len(s)
  BY <1>3, <1>4 DEF FirstRecord
<1> QED
  BY <1>1, <1>5

LEMMA TlsNotStuck ==
  ASSUME TlsInv, NoRecordWaits, Coalesced = {}, 0 \notin BodyLens,
         Len(delivered) < queryCount
  PROVE  TlsCanMove
<1> SUFFICES ASSUME ~TlsCanMove PROVE FALSE
  OBVIOUS
<1>1. /\ IInv /\ OwnHeader /\ TypeOK /\ Len(delivered) \in Nat /\ Answered \in Nat
      /\ Have \in Seq(Units) /\ cipher \in Seq(Units) /\ Rest \in Seq(Units)
      /\ TlsRest \in Seq(Units) /\ TlsStream \in Seq(Units)
  BY TlsTypes DEF TlsInv, OwnInv, AnswersInTime
<1>2. rxpc = "taken" /\ Len(delivered) < Answered /\ net = <<>> /\ sock = <<>>
  <2>1. ~CanMove /\ rxpc # "decrypt"
    BY DEF TlsCanMove
  <2>2. /\ rxpc \notin {"top", "process"} /\ Len(delivered) < Answered
        /\ net = <<>> /\ (rxpc = "taken" => sock = <<>>)
    BY <1>1, <2>1, AllAnswered
  <2>3. rxpc = "taken"
    BY <1>1, <2>1, <2>2 DEF TypeOK, RxStates, TlsInv, NeverAborts
  <2> QED
    BY <2>2, <2>3
<1>3. TlsStream = Have \o cipher
  <2>1. Rest = <<>>
    BY <1>2 DEF Rest
  <2>2. cipher \o <<>> = cipher
    BY <1>1, ConcatEmptySeq
  <2> QED
    BY <2>1, <2>2 DEF TlsStream, TlsRest
<1> PICK c \in Cursors : c = cursor
  BY <1>1, <1>2, HaveOfCursor
<1>4. c = Len(delivered) + 1 /\ Held = {c}
  BY <1>1, <1>2, HaveOfCursor
<1>5. /\ TlsStream # <<>> /\ IsStreamFrom(c, TlsStream)
      /\ TlsStream[Len(TlsStream)] = [req |-> Answered, pos |-> Size(Answered)]
  BY <1>2, <1>4 DEF TlsInv, StreamOf
<1>6. cipher = <<>>
  <2> SUFFICES ASSUME cipher # <<>> PROVE FALSE
    OBVIOUS
  <2>1. cipher[Len(cipher)] = TlsStream[Len(TlsStream)]
    <3> HIDE DEF Have
    <3>1. Len(cipher) \in 1 .. Len(cipher) /\ Len(cipher) \in Nat /\ Len(Have) \in Nat
      BY <1>1
    <3>2. /\ Len(Have \o cipher) = Len(Have) + Len(cipher)
          /\ (Have \o cipher)[Len(Have) + Len(cipher)] = cipher[Len(cipher)]
      BY <1>1, <3>1, Joined
    <3> QED
      BY <1>3, <3>2
  <2>2. EndsRecord(cipher[Len(cipher)])
    BY <1>5, <2>1 DEF EndsRecord, Size
  <2>3. FirstRecord(cipher) # 0
    BY <1>1, <2>2, LastRecord
  <2> QED
    BY <1>2, <2>3 DEF NoRecordWaits
<1>7. TlsStream = Have
  <2> HIDE DEF Have
  <2> QED
    BY <1>1, <1>3, <1>6, ConcatEmptySeq
<1>8. Len(Have) >= Size(c)
  <2>1. InResponses(c, Have)
    <3> HIDE DEF Have
    <3> QED
      BY <1>5, <1>7 DEF InResponses, IsStreamFrom, Follows, Size
  <2> HIDE DEF Have
  <2> QED
    BY <1>1, <1>5, <1>7, <2>1, HasWholeResponse
<1>9. Len(Have) < Size(c)
  <2>1. bodyLen[c] \in Nat /\ bodyLen[c] # 0
    BY <1>1, SizeType DEF TypeOK
  <2> QED
    BY <1>2, <1>4, <2>1 DEF TlsInv, Underway
<1>10. Len(Have) \in Nat /\ Size(c) \in Nat
  BY <1>1, SizeType, LenProperties
<1> QED
  BY <1>8, <1>9, <1>10

\* Where no response outruns its cursor, each record belongs to one response and
\* is long enough for a header, and no body is empty, the threads, the server and
\* the network never all wait while a cursor that was sent is without its
\* callback, however the reads cut the records.
THEOREM TlsNeverStuck ==
  ASSUME ~Outrun, Coalesced = {}, HeaderLen <= RecordLen, 0 \notin BodyLens
  PROVE  TlsSpec => [](Len(delivered) < queryCount => TlsCanMove)
<1>1. TlsInit => NoRecordWaits
  BY DEF TlsInit, NoRecordWaits, FirstRecord
<1>2. TlsInv /\ NoRecordWaits /\ [TlsNext]_tlsVars => NoRecordWaits'
  BY NoRecordStep
<1>3. TlsInv /\ NoRecordWaits => (Len(delivered) < queryCount => TlsCanMove)
  BY TlsNotStuck
<1>4. TlsSpec => []TlsInv
  BY TlsInvariance
<1> QED
  BY <1>1, <1>2, <1>3, <1>4, PTL DEF TlsSpec
==============================================================================
