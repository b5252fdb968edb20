---------------------------- MODULE CTPipelineTLS ----------------------------
(***************************************************************************)
(* The pipeline of CTPipeline on a TLS connection, where the rx thread     *)
(* decrypts what it receives record by record (CT_OVERLAPPED_EXECUTE) and  *)
(* handles each record's plain text before it decrypts the next.           *)
(*                                                                         *)
(* There are two overlaps now.  Plain text behind the response of a cursor *)
(* is copied to the next cursor as in CTPipeline; records that are not yet *)
(* decrypted are carried over to it as well.  The application, tx thread,  *)
(* server and network are those of CTPipeline.                             *)
(***************************************************************************)
EXTENDS CTPipeline

CONSTANTS
  RecordLen,  \* plain bytes the server puts in a record at most
  Coalesced   \* requests whose response ends in the record in which the next
              \* one starts

ASSUME RecordLenAssumption == RecordLen \in Nat \ {0}
ASSUME CoalescedAssumption == Coalesced \subseteq Cursors

VARIABLE
  cipher  \* received and not yet decrypted: the extra buffer

tlsVars == <<vars, cipher>>

TlsInit == Init /\ cipher = <<>>
-----------------------------------------------------------------------------
\* The server closes a record when it is full and, unless it coalesces, at the
\* end of a response.
EndsRecord(b) ==
  \/ b.pos % RecordLen = 0
  \/ b.pos = HeaderLen + bodyLen[b.req] /\ b.req \notin Coalesced

\* The length of the first record of a stream, 0 when it is incomplete.
FirstRecord(s) ==
  LET Ends(i) == EndsRecord(s[i]) /\ \A j \in 1 .. (i - 1) : ~EndsRecord(s[j])
  IN IF \E i \in 1 .. Len(s) : Ends(i) THEN CHOOSE i \in 1 .. Len(s) : Ends(i) ELSE 0

\* The socket is readable: schedule the cursor if it is new and append what
\* there is to the records that wait for decryption.
TlsRecv ==
  /\ rxpc = "taken"
  /\ sock # <<>>
  /\ sock' = <<>>
  /\ cipher' = cipher \o sock
  /\ stage' = [stage EXCEPT ![cursor] = "RECEIVE"]
  /\ responseCount' =
       IF stage[cursor] = "SCHEDULE" /\ ~(responseCount > 0)
       THEN responseCount + 1 ELSE responseCount
  /\ rxpc' = "decrypt"
  /\ UNCHANGED <<appVars, txVars, requests, net, rxPipe, rxQueue, cursor, header,
                 data, delivered>>

\* The decryption loop goes on while there are undecrypted bytes.
Decrypts ==
  \/ rxpc = "decrypt"
  \/ rxpc = "process" /\ ~Complete(cursor) /\ cipher # <<>>

\* The header found is one of a response without a body.
NoBody(found) == found # None /\ bodyLen[found] = 0

\* One complete record is decrypted behind the bytes the cursor has, and the
\* end of its header looked for.  The process dies in memmove as in Receive, or in
\* the assertion that a header announces a body.
TlsDecrypt ==
  /\ Decrypts
  /\ FirstRecord(cipher) > 0
  /\ LET n     == FirstRecord(cipher)
         buf   == data[cursor] \o SubSeq(cipher, 1, n)
         end   == IF header[cursor] = None THEN HeaderEnd(buf) ELSE 0
         wraps == end > n
         found == IF end = 0 \/ wraps THEN header[cursor] ELSE buf[end].req
     IN /\ header' = [header EXCEPT ![cursor] = found]
        /\ data' = [data EXCEPT ![cursor] =
                      IF end = 0 \/ wraps THEN buf ELSE MoveBody(buf, end, n)]
        /\ cipher' = SubSeq(cipher, n + 1, Len(cipher))
        /\ rxpc' = IF wraps \/ NoBody(found) THEN "aborted" ELSE "process"
  /\ UNCHANGED <<appVars, txVars, netVars, rxPipe, rxQueue, cursor, responseCount,
                 stage, delivered>>

\* Mutant: the part of the record that has arrived is thrown away.
TlsIncompleteDropped ==
  /\ Decrypts
  /\ FirstRecord(cipher) = 0
  /\ rxQueue' = rxQueue \cup {cursor}
  /\ cursor' = None
  /\ cipher' = <<>>
  /\ rxpc' = "top"
  /\ UNCHANGED <<appVars, txVars, netVars, rxPipe, responseCount, stage, header,
                 data, delivered>>

\* SEC_E_INCOMPLETE_MESSAGE: the part of the record that has arrived is kept,
\* and the cursor comes back with the next readable bytes.
TlsIncomplete ==
  /\ Decrypts
  /\ FirstRecord(cipher) = 0
  /\ rxQueue' = rxQueue \cup {cursor}
  /\ cursor' = None
  /\ rxpc' = "top"
  /\ UNCHANGED <<appVars, txVars, netVars, rxPipe, responseCount, stage, header,
                 data, delivered, cipher>>

\* Mutant: no event is triggered for the rest of the response.
TlsReadMoreLost ==
  /\ rxpc = "process"
  /\ ~Complete(cursor)
  /\ cipher = <<>>
  /\ cursor' = None
  /\ rxpc' = "top"
  /\ UNCHANGED <<appVars, txVars, netVars, rxPipe, rxQueue, responseCount, stage,
                 header, data, delivered, cipher>>

\* Everything received is decrypted, and the response still incomplete.
TlsReadMore ==
  /\ rxpc = "process"
  /\ ~Complete(cursor)
  /\ cipher = <<>>
  /\ rxQueue' = rxQueue \cup {cursor}
  /\ cursor' = None
  /\ rxpc' = "top"
  /\ UNCHANGED <<appVars, txVars, netVars, rxPipe, responseCount, stage, header,
                 data, delivered, cipher>>

\* Mutant: rxPipe is not polled for the next cursor.
TlsCloseUnpolled ==
  /\ rxpc = "process"
  /\ Complete(cursor)
  /\ responseCount' = responseCount - 1
  /\ rxQueue' = rxQueue \ {cursor}
  /\ IF responseCount' < 0
     THEN rxpc' = "aborted" /\ UNCHANGED <<delivered, cursor>>
     ELSE /\ delivered' = Append(delivered, Callback(cursor))
          /\ rxpc' = IF cipher = <<>> THEN "top" ELSE "decrypt"
          /\ cursor' = IF cipher = <<>> THEN None ELSE cursor
  /\ UNCHANGED <<appVars, txVars, netVars, rxPipe, stage, header, data, cipher>>

\* Complete, and no cursor is waiting in rxPipe: the callback is issued.  When
\* there are undecrypted records left the loop goes on with the closed cursor,
\* and a cursor closed twice takes responseCount below zero, where the code
\* asserts, before its callback.
TlsClose ==
  /\ rxpc = "process"
  /\ Complete(cursor)
  /\ rxPipe = <<>>
  /\ responseCount' = responseCount - 1
  /\ rxQueue' = rxQueue \ {cursor}
  /\ IF responseCount' < 0
     THEN rxpc' = "aborted" /\ UNCHANGED <<delivered, cursor>>
     ELSE /\ delivered' = Append(delivered, Callback(cursor))
          /\ rxpc' = IF cipher = <<>> THEN "top" ELSE "decrypt"
          /\ cursor' = IF cipher = <<>> THEN None ELSE cursor
  /\ UNCHANGED <<appVars, txVars, netVars, rxPipe, stage, header, data, cipher>>

\* Mutant: the next cursor is not counted before this one's count is given back.
TlsCloseAndSwitchUncounted ==
  /\ rxpc = "process"
  /\ Complete(cursor)
  /\ rxPipe # <<>>
  /\ cursor' = IF cipher = <<>> THEN None ELSE Head(rxPipe)
  /\ rxpc' = IF cipher = <<>> THEN "top" ELSE "decrypt"
  /\ rxQueue' = (rxQueue \cup (IF cipher = <<>> THEN {Head(rxPipe)} ELSE {})) \ {cursor}
  /\ rxPipe' = Tail(rxPipe)
  /\ delivered' = Append(delivered, Callback(cursor))
  /\ responseCount' = responseCount - 1
  /\ UNCHANGED <<appVars, txVars, netVars, stage, header, data, cipher>>

\* Complete, and a cursor is waiting in rxPipe: the plain overlap is copied to
\* it and its header looked for there.  With undecrypted records left the loop
\* goes on with that cursor, behind the body found in the overlap; without, it
\* is queued for the next readable bytes, which will be written over the overlap.
TlsCloseAndSwitch ==
  /\ rxpc = "process"
  /\ Complete(cursor)
  /\ rxPipe # <<>>
  /\ LET next == Head(rxPipe)
         over == Overlap(cursor)
         end  == HeaderEnd(over)
     IN /\ data' = [data EXCEPT ![next] =
                      IF end = 0 \/ cipher = <<>> THEN <<>> ELSE SubSeq(over, end + 1, Len(over))]
        /\ header' = [header EXCEPT ![next] = IF end = 0 THEN None ELSE over[end].req]
        /\ cursor' = IF cipher = <<>> THEN None ELSE next
        /\ rxpc' = IF cipher = <<>> THEN "top" ELSE "decrypt"
        /\ rxQueue' = (rxQueue \cup (IF cipher = <<>> THEN {next} ELSE {})) \ {cursor}
  /\ rxPipe' = Tail(rxPipe)
  /\ delivered' = Append(delivered, Callback(cursor))
  /\ responseCount' = (responseCount + 1) - 1
  /\ UNCHANGED <<appVars, txVars, netVars, stage, cipher>>
-----------------------------------------------------------------------------
TlsRxThread ==
  \/ (RxTakeEvent \/ RxTakePipe) /\ UNCHANGED cipher
  \/ TlsRecv \/ TlsDecrypt \/ TlsIncomplete \/ TlsReadMore
  \/ TlsClose \/ TlsCloseAndSwitch

TlsFinished == Len(delivered) = NumCursors /\ UNCHANGED tlsVars

TlsNext ==
  \/ (CTCursorSendOnQueue \/ TxThread \/ Network) /\ UNCHANGED cipher
  \/ TlsRxThread
  \/ TlsFinished

TlsFairness ==
  /\ WF_tlsVars(TxThread /\ UNCHANGED cipher)
  /\ WF_tlsVars(TlsRxThread)
  /\ WF_tlsVars(Answer /\ UNCHANGED cipher)
  /\ WF_tlsVars(Deliver /\ UNCHANGED cipher)

TlsSpec == TlsInit /\ [][TlsNext]_tlsVars

TlsFairSpec == TlsSpec /\ TlsFairness
-----------------------------------------------------------------------------
TlsTypeOK == TypeOK /\ cipher \in Seq(Bytes)

\* The bytes of the stream stay in order and complete from the socket to the
\* cursors wherever reads and records cut it: the plain text the current cursor
\* has, the records that wait for decryption, what is readable and what is under
\* way are the stream of responses that starts with the cursor's own.
TlsStreamIntact == IsStreamFrom(Len(delivered) + 1, Have \o cipher \o sock \o net)
==============================================================================
