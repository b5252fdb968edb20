------------------------- MODULE CTTLSHandshakeProofs -------------------------
(***************************************************************************)
(* Proofs about CTTLSHandshake: for both builds, whatever the lengths of   *)
(* the flights and of the pieces the TLS library takes, wherever the reads *)
(* cut them, and whatever the stale content length is.                     *)
(***************************************************************************)
EXTENDS CTTLSHandshake, WellFoundedInduction, SequenceTheorems, TLAPS

(***************************************************************************)
(* The inductive invariant.                                                *)
(***************************************************************************)

\* The message the cursor carries until its flight is complete.
Message == IF awaits = "first" THEN "hello" ELSE "key exchange"

\* What txQueue, the tx thread and rxPipe hold.
Sending(queue, sending, pc, pipe) ==
  txQueue = queue /\ tx = sending /\ txpc = pc /\ rxPipe = pipe

\* The tx thread and the queues to and from it hold nothing.
Sent == Sending(<<>>, <<>>, "top", <<>>)

\* The rx thread has nothing to do.
RxIdle == ~reading /\ rxpc = "top"

\* The cursor is in one place at a time.
OnePlace ==
  \/ cxpc = "connected" /\ awaits = "first" /\ Sent /\ RxIdle /\ answers = <<>>
  \/ /\ cxpc = "done" /\ answers = <<>> /\ RxIdle
     /\ \/ Sending(<<Message>>, <<>>, "top", <<>>)
        \/ Sending(<<>>, <<Message>>, "sent", <<>>)
        \/ awaits = "second" /\ Sending(<<>>, <<Message>>, "queried", <<>>)
        \/ Sending(<<>>, <<>>, "top", <<Message>>)
  \/ /\ cxpc = "done" /\ answers = <<>> /\ Sent
     /\ reading = (rxpc = "top")
  \/ cxpc = "done" /\ awaits = "second" /\ Sent /\ rxpc = "top" /\ answers # <<>>

\* The server has not answered yet / has answered the last message.
Asked(messages) ==
  requests \in messages /\ sent = (IF awaits = "first" THEN 0 ELSE FirstEnd)
Answered ==
  requests = <<>> /\ sent = (IF awaits = "first" THEN FirstEnd ELSE LastEnd)

\* What the server has got and sent, by where the cursor is.
ServerKeepsUp ==
  IF cxpc = "connected" \/ txQueue # <<>> THEN Asked({<<>>})
  ELSE IF awaits = "first" THEN Asked({<<"hello">>}) \/ Answered
  ELSE IF txpc = "sent" THEN Asked({<<>>, <<"key exchange">>})
  ELSE Asked({<<"key exchange", "finished">>, <<"finished">>}) \/ Answered

\* The rx thread has bytes only after the server has answered, the second flight
\* is awaited when the library has the first, and nothing is left at the end.
BytesInTime ==
  /\ rxpc = "received" => Answered
  /\ awaits = "second" => Len(fed) >= FirstEnd
  /\ answers # <<>> => Answered /\ net = <<>> /\ sock = <<>>

IInv ==
  /\ TypeOK /\ OnePlace /\ ServerKeepsUp /\ BytesInTime
  /\ FlightsIntact /\ ResponseCounted /\ CleanHandover
-----------------------------------------------------------------------------
(***************************************************************************)
(* Facts about short sequences, the flights, and the library's reads.      *)
(***************************************************************************)

\* Queues of one and of two messages.
LEMMA ShortQueues ==
  ASSUME NEW S, NEW x \in S, NEW y \in S
  PROVE  /\ Append(<<>>, x) = <<x>> /\ Append(<<x>>, y) = <<x, y>>
         /\ <<>> \o <<x>> = <<x>>
         /\ Head(<<x>>) = x /\ Tail(<<x>>) = <<>>
         /\ Head(<<x, y>>) = x /\ Tail(<<x, y>>) = <<y>>
         /\ <<x>> # <<>> /\ <<x, y>> # <<>>
         /\ <<x>> \in Seq(S) /\ <<x, y>> \in Seq(S)
<1>1. <<x>> \in Seq(S) /\ <<x, y>> \in Seq(S)
  OBVIOUS
<1>2. Append(<<>>, x) = <<x>> /\ Append(<<x>>, y) = <<x, y>> /\ <<>> \o <<x>> = <<x>>
  <2>1. Append(<<>>, x) = <<x>>
    OBVIOUS
  <2>2. Append(<<x>>, y) = <<x, y>>
    <3> DEFINE s == Append(<<x>>, y)
               t == <<x, y>>
    <3>1. s \in Seq(S) /\ Len(s) = 2 /\ s[1] = x /\ s[2] = y
      OBVIOUS
    <3>2. t \in Seq(S) /\ Len(t) = 2 /\ t[1] = x /\ t[2] = y
      OBVIOUS
    <3>3. \A i \in 1 .. 2 : s[i] = t[i]
      BY <3>1, <3>2
    <3> HIDE DEF s, t
    <3>4. s = t
      BY <3>1, <3>2, <3>3, SeqEqual
    <3> QED
      BY <3>4 DEF s, t
  <2>3. <<>> \o <<x>> = <<x>>
    BY <1>1, ConcatEmptySeq
  <2> QED
    BY <2>1, <2>2, <2>3
<1>3. Head(<<x>>) = x /\ Tail(<<x>>) = <<>> /\ Head(<<x, y>>) = x /\ Tail(<<x, y>>) = <<y>>
  OBVIOUS
<1>4. <<x>> # <<>> /\ <<x, y>> # <<>>
  OBVIOUS
<1> QED
  BY <1>1, <1>2, <1>3, <1>4

\* Both flights have an end, the first before the second.
LEMMA FlightEnds ==
  FirstEnd \in Nat \ {0} /\ LastEnd \in Nat /\ FirstEnd < LastEnd
<1>1. FirstEnd \in FirstReads
  BY ReadsAssumption DEF FirstEnd, Max
<1>2. LastEnd \in LastReads
  BY ReadsAssumption DEF LastEnd, Max
<1> QED
  BY <1>1, <1>2, ReadsAssumption

\* A bounded set of natural numbers has a largest one.
LEMMA BoundedMax ==
  ASSUME NEW D, D \subseteq Nat, D # {}, NEW b \in Nat, \A d \in D : d <= b
  PROVE  Max(D) \in D /\ \A d \in D : d <= Max(D)
<1> DEFINE R == {ss \in Nat \X Nat : ss[1] < ss[2]}
           Bounds == {n \in Nat : \A d \in D : d <= n}
<1>1. IsWellFoundedOn(R, Nat)
  BY NatLessThanWellFounded DEF OpToRel
<1>2. PICK m \in Bounds : \A n \in Bounds : <<n, m>> \notin R
  <2>1. Bounds \subseteq Nat /\ b \in Bounds
    OBVIOUS
  <2> HIDE DEF R, Bounds
  <2> QED
    BY <1>1, <2>1, WFMin
<1>3. m \in Nat /\ \A d \in D : d <= m
  BY <1>2
<1>4. m \in D
  <2> SUFFICES ASSUME m \notin D
               PROVE  FALSE
    OBVIOUS
  <2>1. \A d \in D : d \in Nat /\ d <= m - 1
    BY <1>3
  <2>2. PICK d \in D : d <= m - 1 /\ d \in Nat
    BY <2>1
  <2>3. m - 1 \in Nat /\ m - 1 < m
    BY <1>3, <2>2
  <2>4. m - 1 \in Bounds
    BY <2>1, <2>3
  <2>5. <<m - 1, m>> \in R
    BY <1>3, <2>3
  <2> QED
    BY <1>2, <2>4, <2>5
<1> QED
  BY <1>3, <1>4 DEF Max

\* The library takes no more than it is offered.
LEMMA TakesNoMore ==
  ASSUME fed \in Seq(Bytes), NEW n \in Nat
  PROVE  CTSSLRecv(n) \in 0 .. n
<1> DEFINE Reads == {e \in FirstReads \cup LastReads : e <= Len(fed) + n} \cup {Len(fed)}
<1>1. Len(fed) \in Nat /\ Reads \subseteq Nat
  <2>1. FirstReads \subseteq Nat /\ LastReads \subseteq Nat /\ Len(fed) \in Nat
    BY ReadsAssumption
  <2> QED
    BY <2>1
<1>2. Max(Reads) \in Reads /\ Len(fed) <= Max(Reads)
  <2>1. Len(fed) + n \in Nat /\ Reads # {} /\ \A d \in Reads : d <= Len(fed) + n
    BY <1>1
  <2>2. Len(fed) \in Reads
    OBVIOUS
  <2> HIDE DEF Reads
  <2> QED
    BY <1>1, <2>1, <2>2, BoundedMax
<1>3. CTSSLRecv(n) = Max(Reads) - Len(fed)
  BY DEF CTSSLRecv
<1>4. Max(Reads) \in Nat /\ Max(Reads) <= Len(fed) + n
  BY <1>1, <1>2
<1> QED
  BY <1>1, <1>2, <1>3, <1>4

\* What the server sends in one go, behind what it has sent.
LEMMA FlightType ==
  ASSUME NEW from \in Nat, NEW to \in 0 .. LastEnd, from <= to
  PROVE  /\ Flight(from, to) \in Seq(Bytes) /\ Len(Flight(from, to)) = to - from
         /\ Flight(0, from) \o Flight(from, to) = Flight(0, to)
<1>1. Flight(from, to) \in Seq(Bytes) /\ Len(Flight(from, to)) = to - from
  BY FlightEnds DEF Flight, Bytes
<1>2. Flight(0, from) \in Seq(Bytes) /\ Len(Flight(0, from)) = from
  BY FlightEnds DEF Flight, Bytes
<1>3. Flight(0, to) \in Seq(Bytes) /\ Len(Flight(0, to)) = to
  BY FlightEnds DEF Flight, Bytes
<1>4. \A i \in 1 .. to : (Flight(0, from) \o Flight(from, to))[i] = Flight(0, to)[i]
  BY <1>1, <1>2, FlightEnds DEF Flight
<1>5. Flight(0, from) \o Flight(from, to) \in Seq(Bytes)
      /\ Len(Flight(0, from) \o Flight(from, to)) = to
  <2> DEFINE front == Flight(0, from)
             back  == Flight(from, to)
  <2>1. front \in Seq(Bytes) /\ back \in Seq(Bytes)
    BY <1>1, <1>2
  <2>2. Len(front) + Len(back) = to
    BY <1>1, <1>2
  <2> HIDE DEF front, back
  <2>3. front \o back \in Seq(Bytes) /\ Len(front \o back) = Len(front) + Len(back)
    BY <2>1, ConcatProperties
  <2>4. front \o back \in Seq(Bytes) /\ Len(front \o back) = to
    BY <2>2, <2>3
  <2> QED
    BY <2>4 DEF front, back
<1> QED
  BY <1>1, <1>3, <1>4, <1>5, SeqEqual

\* A sequence cut in two.
LEMMA CutInTwo ==
  ASSUME NEW s \in Seq(Bytes), NEW n \in 0 .. Len(s)
  PROVE  /\ SubSeq(s, 1, n) \in Seq(Bytes) /\ SubSeq(s, n + 1, Len(s)) \in Seq(Bytes)
         /\ Len(SubSeq(s, 1, n)) = n /\ Len(SubSeq(s, n + 1, Len(s))) = Len(s) - n
         /\ SubSeq(s, 1, n) \o SubSeq(s, n + 1, Len(s)) = s
<1>1. Len(s) \in Nat /\ 1 \in 1 .. Len(s) + 1 /\ n \in 1 - 1 .. Len(s) /\ Len(s) \in n .. Len(s)
  OBVIOUS
<1>2. SubSeq(s, 1, n) \o SubSeq(s, n + 1, Len(s)) = SubSeq(s, 1, Len(s))
  BY <1>1, ConcatAdjacentSubSeq
<1>3. SubSeq(s, 1, Len(s)) = s
  BY SubSeqFull
<1>4. /\ SubSeq(s, 1, n) \in Seq(Bytes) /\ SubSeq(s, n + 1, Len(s)) \in Seq(Bytes)
      /\ Len(SubSeq(s, 1, n)) = n /\ Len(SubSeq(s, n + 1, Len(s))) = Len(s) - n
  BY <1>1, SubSeqProperties
<1> QED
  BY <1>2, <1>3, <1>4


\* Sequences of bytes and their concatenation, as names the provers need not look
\* into.
ByteSeq == Seq(Bytes)
Cat(x, y) == x \o y

LEMMA CatProperties ==
  \A x, y \in ByteSeq : Cat(x, y) \in ByteSeq /\ Len(Cat(x, y)) = Len(x) + Len(y)
BY ConcatProperties DEF ByteSeq, Cat

LEMMA CatAssociative ==
  \A x, y, z \in ByteSeq : Cat(Cat(x, y), z) = Cat(x, Cat(y, z))
<1> SUFFICES ASSUME NEW x \in Seq(Bytes), NEW y \in Seq(Bytes), NEW z \in Seq(Bytes)
             PROVE  (x \o y) \o z = x \o (y \o z)
  BY DEF ByteSeq, Cat
<1> QED
  BY ConcatAssociative

LEMMA CatEmpty ==
  <<>> \in ByteSeq /\ \A x \in ByteSeq : Cat(x, <<>>) = x
BY EmptySeq, ConcatEmptySeq DEF ByteSeq, Cat

LEMMA CatCut ==
  \A s \in ByteSeq : \A n \in 0 .. Len(s) :
    /\ SubSeq(s, 1, n) \in ByteSeq /\ SubSeq(s, n + 1, Len(s)) \in ByteSeq
    /\ Cat(SubSeq(s, 1, n), SubSeq(s, n + 1, Len(s))) = s
BY CutInTwo DEF ByteSeq, Cat

\* The bytes with the library, in the cursor, readable, and under way.
Stream(a, b, c, d) == Cat(Cat(Cat(a, b), c), d)

LEMMA StreamLength ==
  \A a, b, c, d \in ByteSeq :
    Len(Stream(a, b, c, d)) = Len(a) + Len(b) + Len(c) + Len(d)
<1> TAKE a, b, c, d \in ByteSeq
<1>1. Cat(a, b) \in ByteSeq /\ Len(Cat(a, b)) = Len(a) + Len(b)
  BY CatProperties
<1>2. Cat(Cat(a, b), c) \in ByteSeq /\ Len(Cat(Cat(a, b), c)) = Len(Cat(a, b)) + Len(c)
  BY <1>1, CatProperties
<1>3. Len(Cat(Cat(Cat(a, b), c), d)) = Len(Cat(Cat(a, b), c)) + Len(d)
  BY <1>2, CatProperties
<1> QED
  BY <1>1, <1>2, <1>3 DEF Stream

\* Bytes that are delivered stay in the stream.
LEMMA StreamDelivered ==
  \A a, b, c, d \in ByteSeq : \A n \in 0 .. Len(d) :
    Stream(a, b, Cat(c, SubSeq(d, 1, n)), SubSeq(d, n + 1, Len(d))) = Stream(a, b, c, d)
<1> TAKE a, b, c, d \in ByteSeq
<1> TAKE n \in 0 .. Len(d)
<1> DEFINE x == SubSeq(d, 1, n)
           y == SubSeq(d, n + 1, Len(d))
<1>1. x \in ByteSeq /\ y \in ByteSeq /\ Cat(x, y) = d
  BY CatCut
<1> HIDE DEF x, y
<1>2. Cat(a, b) \in ByteSeq /\ Cat(Cat(a, b), c) \in ByteSeq
  BY CatProperties
<1>3. Cat(Cat(Cat(a, b), c), x) = Cat(Cat(a, b), Cat(c, x))
  BY <1>1, <1>2, CatAssociative
<1>4. Cat(Cat(Cat(Cat(a, b), c), x), y) = Cat(Cat(Cat(a, b), c), Cat(x, y))
  BY <1>1, <1>2, CatAssociative
<1> QED
  BY <1>1, <1>3, <1>4 DEF Stream, x, y

\* Bytes that are read stay in the stream.
LEMMA StreamRead ==
  \A a, b, c, d \in ByteSeq : Stream(a, Cat(b, c), <<>>, d) = Stream(a, b, c, d)
<1> TAKE a, b, c, d \in ByteSeq
<1>1. Cat(b, c) \in ByteSeq /\ Cat(a, Cat(b, c)) \in ByteSeq
  BY CatProperties
<1>2. Cat(Cat(a, Cat(b, c)), <<>>) = Cat(a, Cat(b, c))
  BY <1>1, CatEmpty
<1>3. Cat(Cat(a, b), c) = Cat(a, Cat(b, c))
  BY CatAssociative
<1> QED
  BY <1>2, <1>3 DEF Stream

\* Bytes the library takes stay in the stream.
LEMMA StreamTaken ==
  \A a, b, c, d \in ByteSeq : \A n \in 0 .. Len(b) :
    Stream(Cat(a, SubSeq(b, 1, n)), SubSeq(b, n + 1, Len(b)), c, d) = Stream(a, b, c, d)
<1> TAKE a, b, c, d \in ByteSeq
<1> TAKE n \in 0 .. Len(b)
<1> DEFINE x == SubSeq(b, 1, n)
           y == SubSeq(b, n + 1, Len(b))
<1>1. x \in ByteSeq /\ y \in ByteSeq /\ Cat(x, y) = b
  BY CatCut
<1> HIDE DEF x, y
<1>2. Cat(Cat(a, x), y) = Cat(a, Cat(x, y))
  BY <1>1, CatAssociative
<1> QED
  BY <1>1, <1>2 DEF Stream, x, y

\* Bytes the server sends are the end of the stream.
LEMMA StreamSent ==
  \A a, b, c, d, e \in ByteSeq : Stream(a, b, c, Cat(d, e)) = Cat(Stream(a, b, c, d), e)
<1> TAKE a, b, c, d, e \in ByteSeq
<1>1. Cat(a, b) \in ByteSeq /\ Cat(Cat(a, b), c) \in ByteSeq
  BY CatProperties
<1>2. Cat(Cat(Cat(Cat(a, b), c), d), e) = Cat(Cat(Cat(a, b), c), Cat(d, e))
  BY <1>1, CatAssociative
<1> QED
  BY <1>2 DEF Stream
-----------------------------------------------------------------------------
(***************************************************************************)
(* Every step keeps the invariant.                                         *)
(***************************************************************************)

\* What the invariant says of where the cursor is.
Control == OnePlace /\ ServerKeepsUp /\ BytesInTime

LEMMA MessageType ==
  Message \in Messages /\ "finished" \in Messages
BY DEF Message, Messages

\* Initially nothing is under way.
LEMMA IInvInit == Init => IInv
<1> SUFFICES ASSUME Init
             PROVE  IInv
  OBVIOUS
<1>1. TypeOK
  <2>1. Len(<<>>) = 0 /\ 0 \in 0 .. 0 /\ 0 \in 0 .. LastEnd /\ contentLength \in Nat
    BY StaleAssumption, FlightEnds DEF Init
  <2>2. /\ <<>> \in Seq(Messages) /\ <<>> \in Seq(Bytes) /\ <<>> \in Seq(BOOLEAN)
    OBVIOUS
  <2> QED
    BY <2>1, <2>2 DEF Init, TypeOK
<1>2. Control
  BY DEF Init, Control, OnePlace, Sent, Sending, RxIdle, ServerKeepsUp, Asked, BytesInTime
<1>3. ResponseCounted /\ CleanHandover
  BY DEF Init, ResponseCounted, CleanHandover
<1>4. Flight(0, 0) = <<>>
  BY FlightType, FlightEnds
<1>5. FlightsIntact
  BY <1>4 DEF Init, FlightsIntact, Pending
<1> QED
  BY <1>1, <1>2, <1>3, <1>5 DEF IInv, Control

\* The starting thread queues the client hello.
LEMMA IInvStart ==
  ASSUME IInv, CTSSLRoutine
  PROVE  IInv'
<1> USE DEF CTSSLRoutine, serverVars, rxVars, cursorVars
<1>1. TypeOK /\ Control /\ FlightsIntact /\ ResponseCounted /\ CleanHandover
  BY DEF IInv, Control
<1>2. TypeOK'
  <2>1. Append(txQueue, "hello") \in Seq(Messages)
    <3>1. "hello" \in Messages /\ txQueue \in Seq(Messages)
      BY <1>1 DEF TypeOK, Messages
    <3> QED
      BY <3>1, AppendProperties
  <2> QED
    BY <1>1, <2>1 DEF TypeOK
<1>3. Sent /\ RxIdle /\ answers = <<>> /\ awaits = "first" /\ Asked({<<>>})
  BY <1>1 DEF Control, OnePlace, ServerKeepsUp
<1>4. txQueue' = <<"hello">>
  BY <1>3, ShortQueues DEF Sent, Sending
<1>5. OnePlace'
  BY <1>3, <1>4 DEF OnePlace, Sent, Sending, RxIdle, Message
<1>6. ServerKeepsUp' /\ BytesInTime'
  BY <1>1, <1>3, <1>4 DEF ServerKeepsUp, BytesInTime, Asked, Control, RxIdle
<1>7. ResponseCounted' /\ CleanHandover' /\ FlightsIntact'
  BY <1>1, <1>3 DEF ResponseCounted, CleanHandover, FlightsIntact, Pending
<1> QED
  BY <1>2, <1>5, <1>6, <1>7 DEF IInv

\* The tx thread sends the message in txQueue.
LEMMA IInvTxSend ==
  ASSUME IInv, TxSend
  PROVE  IInv'
<1> USE DEF TxSend, rxVars, cursorVars
<1>1. TypeOK /\ Control /\ FlightsIntact /\ ResponseCounted /\ CleanHandover
  BY DEF IInv, Control
<1>2. /\ cxpc = "done" /\ answers = <<>> /\ RxIdle
      /\ txQueue = <<Message>> /\ tx = <<>> /\ rxPipe = <<>>
  BY <1>1 DEF Control, OnePlace, Sent, Sending
<1>3. Asked({<<>>})
  BY <1>1, <1>2 DEF Control, ServerKeepsUp
<1>4. txQueue' = <<>> /\ tx' = <<Message>> /\ requests' = <<Message>>
  BY <1>2, <1>3, ShortQueues, MessageType DEF Asked
<1>5. Message' = Message /\ (awaits = "first" => Message = "hello")
      /\ (awaits # "first" => Message = "key exchange")
  BY DEF Message
<1>6. TypeOK'
  BY <1>1, <1>4, MessageType, ShortQueues DEF TypeOK
<1>7. OnePlace'
  BY <1>2, <1>4, <1>5 DEF OnePlace, Sent, Sending, RxIdle
<1>8. ServerKeepsUp'
  BY <1>2, <1>3, <1>4, <1>5 DEF ServerKeepsUp, Asked
<1>9. BytesInTime'
  BY <1>1, <1>2 DEF BytesInTime, Control, RxIdle
<1>10. ResponseCounted' /\ CleanHandover' /\ FlightsIntact'
  BY <1>1, <1>2 DEF ResponseCounted, CleanHandover, FlightsIntact, Pending
<1> QED
  BY <1>6, <1>7, <1>8, <1>9, <1>10 DEF IInv

\* The library writes its last message itself, behind the key exchange.
LEMMA IInvQuery ==
  ASSUME IInv, SSLSecondMessageQueryCallback
  PROVE  IInv'
<1> USE DEF SSLSecondMessageQueryCallback, rxVars, cursorVars
<1>1. TypeOK /\ Control /\ FlightsIntact /\ ResponseCounted /\ CleanHandover
  BY DEF IInv, Control
<1>2. /\ cxpc = "done" /\ answers = <<>> /\ RxIdle
      /\ txQueue = <<>> /\ tx = <<Message>> /\ rxPipe = <<>>
  BY <1>1 DEF Control, OnePlace, Sent, Sending
<1>3. Message = "key exchange"
  <2>1. <<Message>> = <<"key exchange">>
    BY <1>2
  <2> QED
    BY <2>1
<1>4. awaits = "second"
  BY <1>1, <1>3 DEF Message, TypeOK
<1>5. Asked({<<>>, <<"key exchange">>})
  BY <1>1, <1>2, <1>4 DEF Control, ServerKeepsUp
<1>6. requests' \in {<<"finished">>, <<"key exchange", "finished">>}
  BY <1>5, ShortQueues, MessageType, <1>3 DEF Asked
<1>7. TypeOK'
  <2>1. requests' \in Seq(Messages)
    <3>1. "key exchange" \in Messages /\ "finished" \in Messages
      BY <1>3, MessageType
    <3>2. <<"finished">> \in Seq(Messages) /\ <<"key exchange", "finished">> \in Seq(Messages)
      BY <3>1, ShortQueues
    <3> QED
      BY <1>6, <3>2
  <2> QED
    BY <1>1, <2>1 DEF TypeOK
<1>8. OnePlace'
  BY <1>2, <1>3, <1>4 DEF OnePlace, Sent, Sending, RxIdle, Message
<1>9. ServerKeepsUp'
  BY <1>2, <1>4, <1>5, <1>6 DEF ServerKeepsUp, Asked
<1>10. BytesInTime'
  BY <1>1, <1>2 DEF BytesInTime, Control, RxIdle
<1>11. ResponseCounted' /\ CleanHandover' /\ FlightsIntact'
  BY <1>1, <1>2 DEF ResponseCounted, CleanHandover, FlightsIntact, Pending
<1> QED
  BY <1>7, <1>8, <1>9, <1>10, <1>11 DEF IInv

\* The tx thread gives the cursor to the rx thread.
LEMMA IInvPipe ==
  ASSUME IInv, CTCursorRecvOnQueue
  PROVE  IInv'
<1> USE DEF CTCursorRecvOnQueue, serverVars, rxVars, cursorVars
<1>1. TypeOK /\ Control /\ FlightsIntact /\ ResponseCounted /\ CleanHandover
  BY DEF IInv, Control
<1>2. /\ cxpc = "done" /\ answers = <<>> /\ RxIdle
      /\ txQueue = <<>> /\ tx = <<Message>> /\ rxPipe = <<>>
  BY <1>1 DEF Control, OnePlace, Sent, Sending
<1>3. awaits = "second" => txpc = "queried"
  BY <1>2 DEF Message
<1>4. Message' = Message /\ rxPipe' = <<Message>> /\ tx' = <<>> /\ txpc' = "top"
  BY <1>2, ShortQueues, MessageType DEF Message
<1>5. TypeOK'
  <2>1. rxPipe' \in Seq(Messages) /\ tx' \in Seq(Messages)
    <3>1. <<Message>> \in Seq(Messages)
      BY MessageType, ShortQueues
    <3>2. <<>> \in Seq(Messages)
      BY EmptySeq
    <3> QED
      BY <1>4, <3>1, <3>2
  <2> QED
    BY <1>1, <1>4, <2>1 DEF TypeOK
<1>6. OnePlace'
  BY <1>2, <1>4 DEF OnePlace, Sent, Sending, RxIdle
<1>7. awaits \in {"first", "second"}
  BY <1>1 DEF TypeOK
<1>8. ServerKeepsUp'
  BY <1>1, <1>2, <1>3, <1>4, <1>7 DEF Control, ServerKeepsUp, Asked, Answered
<1>9. BytesInTime'
  BY <1>1, <1>2 DEF BytesInTime, Control, RxIdle
<1>10. ResponseCounted' /\ CleanHandover' /\ FlightsIntact'
  BY <1>1, <1>2 DEF ResponseCounted, CleanHandover, FlightsIntact, Pending
<1> QED
  BY <1>5, <1>6, <1>8, <1>9, <1>10 DEF IInv

\* While the handshake goes on, the stream is what the server has sent, and no
\* more bytes are anywhere.
LEMMA StreamOfFlights ==
  ASSUME TypeOK, FlightsIntact, answers = <<>>
  PROVE  /\ fed \in ByteSeq /\ Pending \in ByteSeq
         /\ sock \in ByteSeq /\ net \in ByteSeq
         /\ Stream(fed, Pending, sock, net) = Flight(0, sent)
         /\ Len(fed) + Len(Pending) + Len(sock) + Len(net) = sent
<1>1. fed \in ByteSeq /\ Pending \in ByteSeq /\ sock \in ByteSeq /\ net \in ByteSeq
  BY DEF TypeOK, Pending, ByteSeq
<1>2. Stream(fed, Pending, sock, net) = Flight(0, sent)
  BY DEF FlightsIntact, Stream, Cat
<1>3. Len(Flight(0, sent)) = sent
  <2>1. sent \in 0 .. LastEnd /\ 0 \in Nat /\ 0 <= sent
    BY FlightEnds DEF TypeOK
  <2> QED
    BY <2>1, FlightType
<1>4. Len(Stream(fed, Pending, sock, net)) = Len(fed) + Len(Pending) + Len(sock) + Len(net)
  BY <1>1, StreamLength
<1> QED
  BY <1>1, <1>2, <1>3, <1>4

\* The server answers: the bytes of its flight follow those it has sent.
LEMMA IInvAnswer ==
  ASSUME IInv, ServerAnswers
  PROVE  IInv'
<1> USE DEF txVars, rxVars, cursorVars
<1>1. TypeOK /\ Control /\ FlightsIntact /\ ResponseCounted /\ CleanHandover
  BY DEF IInv, Control
<1> DEFINE to == CASE Head(requests) = "hello" -> FirstEnd
                   [] Head(requests) = "key exchange" -> sent
                   [] Head(requests) = "finished" -> LastEnd
<1>0. /\ requests # <<>> /\ requests' = Tail(requests)
      /\ net' = net \o Flight(sent, to) /\ sent' = to
      /\ UNCHANGED <<backend, cxpc, txVars, sock, rxPipe, rxVars>>
  BY Zenon DEF ServerAnswers
<1>a. /\ Head(requests) = "hello" => to = FirstEnd
      /\ Head(requests) = "key exchange" => to = sent
      /\ Head(requests) = "finished" => to = LastEnd
  BY Zenon
<1> HIDE DEF to
<1>2. answers = <<>> /\ cxpc = "done" /\ txQueue = <<>>
  <2>1. answers = <<>>
    BY <1>0, <1>1 DEF Control, BytesInTime, Answered
  <2>2. ~(cxpc = "connected" \/ txQueue # <<>>)
    BY <1>0, <1>1, <2>1 DEF Control, ServerKeepsUp, Asked
  <2> QED
    BY <1>1, <2>1, <2>2 DEF Control, OnePlace
<1>3. \/ awaits = "first" /\ requests = <<"hello">> /\ sent = 0
      \/ awaits = "second" /\ sent = FirstEnd /\ txpc = "sent" /\ requests = <<"key exchange">>
      \/ /\ awaits = "second" /\ sent = FirstEnd /\ txpc # "sent"
         /\ requests \in {<<"key exchange", "finished">>, <<"finished">>}
  BY <1>0, <1>1, <1>2 DEF Control, ServerKeepsUp, Asked, Answered, TypeOK
<1>4. requests' = Tail(requests) /\ net' = net \o Flight(sent, to) /\ sent' = to
  BY <1>0
<1>5. \/ awaits = "first" /\ to = FirstEnd /\ requests' = <<>>
      \/ awaits = "second" /\ to = sent /\ txpc = "sent" /\ requests' = <<>>
      \/ awaits = "second" /\ to = sent /\ txpc # "sent" /\ requests' = <<"finished">>
      \/ awaits = "second" /\ to = LastEnd /\ txpc # "sent" /\ requests' = <<>>
  <2>1. \A x, y \in Messages :
          Head(<<x>>) = x /\ Tail(<<x>>) = <<>> /\ Head(<<x, y>>) = x /\ Tail(<<x, y>>) = <<y>>
    BY ShortQueues
  <2>2. "hello" \in Messages /\ "key exchange" \in Messages /\ "finished" \in Messages
    BY DEF Messages
  <2>3. CASE requests = <<"hello">>
    BY <1>a, <1>3, <1>4, <2>1, <2>2, <2>3
  <2>4. CASE requests = <<"key exchange">>
    BY <1>a, <1>3, <1>4, <2>1, <2>2, <2>4
  <2>5. CASE requests = <<"finished">>
    BY <1>a, <1>3, <1>4, <2>1, <2>2, <2>5
  <2>6. CASE requests = <<"key exchange", "finished">>
    BY <1>a, <1>3, <1>4, <2>1, <2>2, <2>6
  <2> QED
    BY <1>3, <2>3, <2>4, <2>5, <2>6
<1>6. sent \in Nat /\ to \in 0 .. LastEnd /\ sent <= to
  <2>1. sent \in 0 .. LastEnd /\ (awaits = "first" => sent = 0) /\ (awaits = "second" => sent = FirstEnd)
    BY <1>1, <1>3 DEF TypeOK
  <2>2. to \in {FirstEnd, LastEnd, sent} /\ (to = FirstEnd => sent = 0 \/ sent = FirstEnd)
    BY <1>5, <2>1
  <2>3. FirstEnd \in Nat /\ LastEnd \in Nat /\ FirstEnd <= LastEnd
    BY FlightEnds
  <2> QED
    BY <2>1, <2>2, <2>3
<1>7. net' \in Seq(Bytes) /\ sock \in Seq(Bytes) /\ Flight(sent, to) \in Seq(Bytes)
  <2>1. Flight(sent, to) \in Seq(Bytes) /\ net \in Seq(Bytes) /\ sock \in Seq(Bytes)
    BY <1>1, <1>6, FlightType DEF TypeOK
  <2> QED
    BY <1>4, <2>1, ConcatProperties
<1>8. TypeOK'
  <2>1. <<"finished">> \in Seq(Messages)
    BY MessageType, ShortQueues
  <2>2. requests' \in Seq(Messages)
    BY <1>5, <2>1, EmptySeq
  <2> QED
    BY <1>0, <1>1, <1>4, <1>6, <1>7, <2>2 DEF TypeOK
<1>9. OnePlace'
  BY <1>0, <1>1 DEF Control, OnePlace, Sent, Sending, RxIdle, Message
<1>10. ServerKeepsUp'
  BY <1>0, <1>1, <1>2, <1>3, <1>4, <1>5 DEF Control, ServerKeepsUp, Asked, Answered
<1>11. BytesInTime'
  <2>1. rxpc # "received"
    BY <1>0, <1>1 DEF Control, BytesInTime, Answered
  <2> QED
    BY <1>0, <1>1, <1>2, <2>1 DEF Control, BytesInTime
<1>12. FlightsIntact'
  <2>1. Pending' = Pending /\ fed' = fed /\ sock' = sock /\ answers' = answers
    BY <1>0 DEF Pending
  <2>2. /\ fed \in ByteSeq /\ Pending \in ByteSeq /\ sock \in ByteSeq /\ net \in ByteSeq
        /\ Stream(fed, Pending, sock, net) = Flight(0, sent)
    BY <1>1, <1>2, StreamOfFlights
  <2>a. Flight(sent, to) \in ByteSeq
    BY <1>7 DEF ByteSeq
  <2>b. net' = Cat(net, Flight(sent, to))
    BY <1>4 DEF Cat
  <2>3. Stream(fed, Pending, sock, net') = Cat(Stream(fed, Pending, sock, net), Flight(sent, to))
    BY <2>a, <2>b, <2>2, StreamSent
  <2>4. Flight(0, sent) \o Flight(sent, to) = Flight(0, to)
    BY <1>6, FlightType
  <2> QED
    BY <1>4, <2>1, <2>2, <2>3, <2>4 DEF FlightsIntact, Stream, Cat
<1>13. ResponseCounted' /\ CleanHandover'
  BY <1>0, <1>1, <1>2 DEF ResponseCounted, CleanHandover
<1> QED
  BY <1>8, <1>9, <1>10, <1>11, <1>12, <1>13 DEF IInv

\* The network delivers: the bytes stay in order.
LEMMA IInvDeliver ==
  ASSUME IInv, Deliver
  PROVE  IInv'
<1>1. TypeOK /\ Control /\ FlightsIntact /\ ResponseCounted /\ CleanHandover
  BY DEF IInv, Control
<1>2. PICK n \in 1 .. Len(net) :
        /\ sock' = sock \o SubSeq(net, 1, n)
        /\ net' = SubSeq(net, n + 1, Len(net))
        /\ UNCHANGED <<backend, cxpc, txVars, requests, sent, rxPipe, rxVars>>
  BY DEF Deliver
<1> USE DEF txVars, rxVars, cursorVars
<1>3. net \in Seq(Bytes) /\ n \in 0 .. Len(net) /\ net # <<>>
  BY <1>1, <1>2 DEF TypeOK
<1>4. answers = <<>>
  BY <1>1, <1>3 DEF Control, BytesInTime
<1>5. /\ SubSeq(net, 1, n) \in Seq(Bytes) /\ net' \in Seq(Bytes)
      /\ SubSeq(net, 1, n) \o net' = net
  BY <1>2, <1>3, CutInTwo
<1>6. sock' \in Seq(Bytes)
  BY <1>1, <1>2, <1>5, ConcatProperties DEF TypeOK
<1>7. TypeOK'
  BY <1>1, <1>2, <1>5, <1>6 DEF TypeOK
<1>8. OnePlace' /\ ServerKeepsUp' /\ BytesInTime'
  BY <1>1, <1>2, <1>4
     DEF Control, OnePlace, Sent, Sending, RxIdle, Message, ServerKeepsUp, Asked, Answered,
         BytesInTime
<1>9. FlightsIntact'
  <2>1. Pending' = Pending /\ fed' = fed /\ sent' = sent
    BY <1>2 DEF Pending
  <2>2. /\ fed \in ByteSeq /\ Pending \in ByteSeq /\ sock \in ByteSeq /\ net \in ByteSeq
        /\ Stream(fed, Pending, sock, net) = Flight(0, sent)
    BY <1>1, <1>4, StreamOfFlights
  <2>a. sock' = Cat(sock, SubSeq(net, 1, n)) /\ net' = SubSeq(net, n + 1, Len(net))
    BY <1>2 DEF Cat
  <2>3. Stream(fed, Pending, sock', net') = Stream(fed, Pending, sock, net)
    BY <1>3, <2>a, <2>2, StreamDelivered
  <2> QED
    BY <1>2, <2>1, <2>2, <2>3 DEF FlightsIntact, Stream, Cat
<1>10. ResponseCounted' /\ CleanHandover'
  BY <1>1, <1>2, <1>4 DEF ResponseCounted, CleanHandover
<1> QED
  BY <1>7, <1>8, <1>9, <1>10 DEF IInv

\* The rx thread takes the cursor, and a read is posted.
LEMMA IInvSchedule ==
  ASSUME IInv, RxSchedule
  PROVE  IInv'
<1> USE DEF RxSchedule, txVars, serverVars
<1>1. TypeOK /\ Control /\ FlightsIntact /\ ResponseCounted /\ CleanHandover
  BY DEF IInv, Control
<1>2. /\ cxpc = "done" /\ answers = <<>> /\ RxIdle
      /\ txQueue = <<>> /\ tx = <<>> /\ txpc = "top" /\ rxPipe = <<Message>>
  BY <1>1 DEF Control, OnePlace, Sent, Sending
<1>3. rxPipe' = <<>>
  BY <1>2, ShortQueues, MessageType
<1>4. TypeOK'
  <2>1. rxPipe' \in Seq(Messages) /\ data' \in Seq(Bytes) /\ Len(data') = 0
    BY <1>3, EmptySeq
  <2>2. responseCount' \in Nat /\ base' \in 0 .. Len(data') /\ reading' \in BOOLEAN
    BY <1>1, <2>1 DEF TypeOK
  <2> QED
    BY <1>1, <2>1, <2>2 DEF TypeOK
<1>5. OnePlace'
  BY <1>2, <1>3 DEF OnePlace, Sent, Sending, RxIdle
<1>6. ServerKeepsUp' /\ BytesInTime'
  BY <1>1, <1>2 DEF Control, ServerKeepsUp, Asked, Answered, BytesInTime, RxIdle
<1>7. ResponseCounted' /\ CleanHandover'
  BY <1>1, <1>2 DEF ResponseCounted, CleanHandover, RxIdle
<1>8. FlightsIntact'
  BY <1>1, <1>2 DEF FlightsIntact, Pending, RxIdle
<1> QED
  BY <1>4, <1>5, <1>6, <1>7, <1>8 DEF IInv

\* Bytes are read behind those the library has not taken.
LEMMA IInvRecv ==
  ASSUME IInv, RxRecv
  PROVE  IInv'
<1>0. /\ rxpc = "top" /\ reading /\ sock # <<>>
      /\ sock' = <<>> /\ data' = data \o sock
      /\ contentLength' = ContentLength(Len(data) - base + Len(sock))
      /\ \/ rxpc' = "received" /\ reading' = FALSE /\ base' = base
         \/ base' = Len(data') /\ rxpc' = rxpc /\ reading' = reading
      /\ UNCHANGED <<backend, cxpc, txVars, requests, sent, net, rxPipe, awaits, fed,
                     responseCount, answers>>
  BY DEF RxRecv
<1> USE DEF txVars
<1>1. TypeOK /\ Control /\ FlightsIntact /\ ResponseCounted /\ CleanHandover
  BY DEF IInv, Control
<1>2. cxpc = "done" /\ answers = <<>> /\ Sent
  BY <1>0, <1>1 DEF Control, OnePlace, RxIdle, BytesInTime
<1>3. /\ fed \in ByteSeq /\ Pending \in ByteSeq /\ sock \in ByteSeq /\ net \in ByteSeq
      /\ Stream(fed, Pending, sock, net) = Flight(0, sent)
      /\ Len(fed) + Len(Pending) + Len(sock) + Len(net) = sent
  BY <1>1, <1>2, StreamOfFlights
<1>4. Pending = data /\ Pending' = Cat(Pending, sock) /\ data' = Cat(data, sock)
  BY <1>0 DEF Pending, Cat
<1>5. data' \in ByteSeq /\ Len(data') = Len(data) + Len(sock)
  BY <1>3, <1>4, CatProperties
<1>6. Len(fed) \in Nat /\ Len(data) \in Nat /\ Len(net) \in Nat /\ Len(sock) \in Nat \ {0}
  BY <1>0, <1>3, <1>4 DEF ByteSeq
<1>7. TypeOK'
  <2>1. base \in 0 .. Len(data) /\ contentLength \in Nat
    BY <1>1 DEF TypeOK
  <2>2. base' \in 0 .. Len(data')
    <3>1. base' = base \/ base' = Len(data')
      BY <1>0
    <3> QED
      BY <1>5, <1>6, <2>1, <3>1
  <2>3. contentLength' \in Nat
    BY <1>0, <1>6, <2>1 DEF ContentLength
  <2>4. sock' \in Seq(Bytes) /\ data' \in Seq(Bytes)
    BY <1>0, <1>5, EmptySeq DEF ByteSeq
  <2> QED
    BY <1>0, <1>1, <2>2, <2>3, <2>4 DEF TypeOK
<1>8. OnePlace'
  BY <1>0, <1>2 DEF OnePlace, Sent, Sending
<1>9. ServerKeepsUp'
  BY <1>0, <1>1 DEF Control, ServerKeepsUp, Asked, Answered
<1>10. Answered
  <2>1. Len(fed) + 0 < sent
    BY <1>3, <1>4, <1>6
  <2>2. awaits = "second" => FirstEnd < sent
    <3>1. awaits = "second" => FirstEnd <= Len(fed)
      BY <1>1 DEF Control, BytesInTime
    <3>2. sent \in Nat /\ FirstEnd \in Nat
      BY <1>1, FlightEnds DEF TypeOK
    <3> QED
      BY <1>6, <2>1, <3>1, <3>2
  <2>3. sent # (IF awaits = "first" THEN 0 ELSE FirstEnd)
    BY <1>1, <1>6, <2>1, <2>2, FlightEnds DEF TypeOK
  <2>4. txpc = "top" /\ txQueue = <<>>
    BY <1>2 DEF Sent, Sending
  <2> QED
    BY <1>1, <1>2, <2>3, <2>4 DEF Control, ServerKeepsUp, Asked
<1>11. BytesInTime'
  BY <1>0, <1>1, <1>2, <1>10 DEF Control, BytesInTime, Answered
<1>12. FlightsIntact'
  <2>1. Stream(fed, Pending', <<>>, net) = Stream(fed, Pending, sock, net)
    BY <1>3, <1>4, StreamRead
  <2> QED
    BY <1>0, <1>3, <2>1 DEF FlightsIntact, Stream, Cat
<1>13. ResponseCounted' /\ CleanHandover'
  BY <1>0, <1>1, <1>2 DEF ResponseCounted, CleanHandover
<1> QED
  BY <1>7, <1>8, <1>9, <1>11, <1>12, <1>13 DEF IInv

\* What the response callback gives to the library and leaves.
LEMMA Responded ==
  ASSUME IInv, NEW flight, Respond(flight)
  PROVE  /\ cxpc = "done" /\ answers = <<>> /\ Sent /\ ~reading /\ responseCount = 1
         /\ Answered
         /\ fed' \in ByteSeq /\ Left \in ByteSeq
         /\ Stream(fed', Left, sock, net) = Flight(0, sent)
         /\ Len(fed') + Len(Left) + Len(sock) + Len(net) = sent
         /\ Len(fed) <= Len(fed')
<1>1. TypeOK /\ Control /\ FlightsIntact /\ ResponseCounted
  BY DEF IInv, Control
<1>2. cxpc = "done" /\ answers = <<>> /\ Sent /\ ~reading
  BY <1>1 DEF Respond, Control, OnePlace, RxIdle
<1>3. /\ fed \in ByteSeq /\ Pending \in ByteSeq /\ sock \in ByteSeq /\ net \in ByteSeq
      /\ Stream(fed, Pending, sock, net) = Flight(0, sent)
      /\ Len(fed) + Len(Pending) + Len(sock) + Len(net) = sent
  BY <1>1, <1>2, StreamOfFlights
<1>4. Pending = data
  BY DEF Respond, Pending
<1>5. CTSSLRecv(Len(data)) \in 0 .. Len(data) /\ Len(data) \in Nat
  <2>1. fed \in Seq(Bytes) /\ Len(data) \in Nat
    BY <1>1 DEF TypeOK
  <2> QED
    BY <2>1, TakesNoMore
<1>6. Taken \in ByteSeq /\ Left \in ByteSeq /\ Cat(Taken, Left) = data
  BY <1>3, <1>4, <1>5, CatCut DEF Taken, Left
<1>7. fed' = Cat(fed, Taken)
  BY DEF Respond, Cat
<1>8. fed' \in ByteSeq /\ Len(fed') = Len(fed) + Len(Taken)
  BY <1>3, <1>6, <1>7, CatProperties
<1>9. Stream(fed', Left, sock, net) = Stream(fed, data, sock, net)
  BY <1>3, <1>4, <1>5, <1>7, StreamTaken DEF Taken, Left
<1>10. Len(data) = Len(Taken) + Len(Left)
  BY <1>6, CatProperties
<1>11. Len(Taken) \in Nat /\ Len(fed) \in Nat /\ Len(Left) \in Nat
  BY <1>3, <1>6 DEF ByteSeq
<1>12. Answered
  BY <1>1 DEF Respond, Control, BytesInTime
<1>13. responseCount = 1
  BY <1>1, <1>2 DEF Respond, ResponseCounted
<1>14. /\ Len(fed') + Len(Left) + Len(sock) + Len(net) = sent
       /\ Len(fed) <= Len(fed')
  BY <1>3, <1>4, <1>8, <1>10, <1>11
<1> QED
  BY <1>2, <1>3, <1>4, <1>6, <1>8, <1>9, <1>12, <1>13, <1>14

\* The library wants to read: the callback reads on behind what is left, in either
\* flight.
LEMMA IInvIncomplete ==
  ASSUME IInv, FirstResponseIncomplete \/ SecondResponseIncomplete
  PROVE  IInv'
<1>1. TypeOK /\ Control /\ FlightsIntact /\ ResponseCounted /\ CleanHandover
  BY DEF IInv, Control
<1>2. /\ Respond(awaits) /\ awaits' = awaits
      /\ data' = Left /\ contentLength' \in {0, Len(Left)} /\ base' \in {0, Len(Left)}
      /\ reading' = TRUE
      /\ UNCHANGED <<backend, cxpc, txVars, serverVars, rxPipe, responseCount, answers>>
  BY DEF FirstResponseIncomplete, SecondResponseIncomplete, ReadOnBehind, Respond
<1>3. /\ cxpc = "done" /\ answers = <<>> /\ Sent /\ ~reading /\ responseCount = 1
      /\ Answered
      /\ fed' \in ByteSeq /\ Left \in ByteSeq
      /\ Stream(fed', Left, sock, net) = Flight(0, sent)
      /\ Len(fed) <= Len(fed')
  BY <1>2, Responded
<1>4. rxpc' = "top" /\ rxpc = "received"
  BY <1>2 DEF Respond
<1> USE DEF txVars, serverVars
<1>5. TypeOK'
  <2>1. fed' \in Seq(Bytes) /\ data' \in Seq(Bytes) /\ Len(data') \in Nat
    BY <1>2, <1>3 DEF ByteSeq
  <2>2. base' \in 0 .. Len(data') /\ contentLength' \in Nat
    BY <1>2, <2>1
  <2> QED
    BY <1>1, <1>2, <1>4, <2>1, <2>2 DEF TypeOK
<1>6. OnePlace'
  BY <1>2, <1>3, <1>4 DEF OnePlace, Sent, Sending
<1>7. ServerKeepsUp'
  BY <1>1, <1>2 DEF Control, ServerKeepsUp, Asked, Answered
<1>8. BytesInTime'
  <2>1. awaits = "second" => Len(fed') >= FirstEnd
    <3>1. Len(fed) \in Nat /\ Len(fed') \in Nat /\ FirstEnd \in Nat
      BY <1>1, <1>3, FlightEnds DEF TypeOK, ByteSeq
    <3> QED
      BY <1>1, <1>3, <3>1 DEF Control, BytesInTime
  <2> QED
    BY <1>2, <1>3, <1>4, <2>1 DEF BytesInTime
<1>9. FlightsIntact'
  <2>1. Pending' = Left
    BY <1>2 DEF Pending
  <2> QED
    BY <1>2, <1>3, <2>1 DEF FlightsIntact, Stream, Cat
<1>10. ResponseCounted' /\ CleanHandover'
  BY <1>1, <1>2, <1>3 DEF ResponseCounted, CleanHandover
<1> QED
  BY <1>5, <1>6, <1>7, <1>8, <1>9, <1>10 DEF IInv

\* SecureTransport, the second flight is not there in full: the client is called
\* back with an error.
LEMMA IInvFails ==
  ASSUME IInv, SecondResponseFails
  PROVE  IInv'
<1>1. TypeOK /\ Control
  BY DEF IInv, Control
<1>2. /\ Respond("second") /\ awaits = "second" /\ awaits' = awaits
      /\ data' = Left /\ contentLength' = 0 /\ base' = 0 /\ reading' = TRUE
      /\ responseCount' = 0 /\ answers' = Append(answers, FALSE)
      /\ net' = <<>> /\ sock' = <<>>
      /\ UNCHANGED <<backend, cxpc, txVars, requests, sent, rxPipe>>
  BY DEF SecondResponseFails, ReadOnBehind, Respond
<1>3. /\ cxpc = "done" /\ answers = <<>> /\ Sent
      /\ Answered
      /\ fed' \in ByteSeq /\ Left \in ByteSeq
      /\ Len(fed) <= Len(fed')
  BY <1>2, Responded
<1>4. rxpc' = "top" /\ rxpc = "received"
  BY <1>2 DEF Respond
<1>5. answers' = <<FALSE>>
  <2>1. FALSE \in BOOLEAN
    OBVIOUS
  <2>2. Append(<<>>, FALSE) = <<FALSE>>
    BY <2>1, ShortQueues
  <2> QED
    BY <1>2, <1>3, <2>2
<1>6. answers' \in Seq(BOOLEAN) /\ Len(answers') = 1 /\ answers' # <<>> /\ answers' # <<TRUE>>
  <2>1. <<FALSE>> \in Seq(BOOLEAN) /\ Len(<<FALSE>>) = 1 /\ <<FALSE>> # <<>> /\ <<FALSE>> # <<TRUE>>
    OBVIOUS
  <2> QED
    BY <1>5, <2>1
<1> USE DEF txVars
<1>7. TypeOK'
  <2>1. fed' \in Seq(Bytes) /\ data' \in Seq(Bytes) /\ Len(data') \in Nat
    BY <1>2, <1>3 DEF ByteSeq
  <2>2. base' \in 0 .. Len(data') /\ contentLength' \in Nat /\ responseCount' \in Nat
    BY <1>2, <2>1
  <2>3. net' \in Seq(Bytes) /\ sock' \in Seq(Bytes)
    BY <1>2, EmptySeq
  <2> QED
    BY <1>1, <1>2, <1>4, <1>6, <2>1, <2>2, <2>3 DEF TypeOK
<1>8. OnePlace'
  BY <1>2, <1>3, <1>4, <1>6 DEF OnePlace, Sent, Sending
<1>9. ServerKeepsUp'
  BY <1>1, <1>2 DEF Control, ServerKeepsUp, Asked, Answered
<1>10. BytesInTime'
  <2>1. Len(fed') >= FirstEnd
    <3>1. Len(fed) \in Nat /\ Len(fed') \in Nat /\ FirstEnd \in Nat
      BY <1>1, <1>3, FlightEnds DEF TypeOK, ByteSeq
    <3> QED
      BY <1>1, <1>2, <1>3, <3>1 DEF Control, BytesInTime
  <2> QED
    BY <1>2, <1>3, <1>4, <2>1 DEF BytesInTime, Answered
<1>11. FlightsIntact' /\ ResponseCounted' /\ CleanHandover'
  <2>1. responseCount' = 0 /\ answers' # <<>> /\ answers' # <<TRUE>>
    BY <1>2, <1>6
  <2>2. Len(answers') <= 1
    BY <1>6
  <2>3. FlightsIntact' /\ ResponseCounted'
    BY <2>1 DEF FlightsIntact, ResponseCounted
  <2>4. CleanHandover'
    BY <2>1, <2>2 DEF CleanHandover
  <2> QED
    BY <2>3, <2>4
<1> QED
  BY <1>7, <1>8, <1>9, <1>10, <1>11 DEF IInv

\* The library has all of the flight, so nothing of it is left anywhere.
LEMMA FlightTaken ==
  ASSUME IInv, Respond(awaits),
         Len(fed') = (IF awaits = "first" THEN FirstEnd ELSE LastEnd)
  PROVE  Left = <<>> /\ sock = <<>> /\ net = <<>> /\ fed' = Flight(0, sent)
<1>1. /\ Answered /\ fed' \in ByteSeq /\ Left \in ByteSeq
      /\ Stream(fed', Left, sock, net) = Flight(0, sent)
      /\ Len(fed') + Len(Left) + Len(sock) + Len(net) = sent
  BY Responded
<1>2. sock \in ByteSeq /\ net \in ByteSeq
  BY DEF IInv, TypeOK, ByteSeq
<1>3. Len(fed') = sent
  BY <1>1 DEF Answered
<1>4. /\ Len(fed') \in Nat /\ Len(Left) \in Nat /\ Len(sock) \in Nat /\ Len(net) \in Nat
  BY <1>1, <1>2 DEF ByteSeq
<1>5. Len(Left) = 0 /\ Len(sock) = 0 /\ Len(net) = 0
  BY <1>1, <1>3, <1>4
<1>6. \A s \in ByteSeq : Len(s) = 0 => s = <<>>
  BY EmptySeq DEF ByteSeq
<1>7. Left = <<>> /\ sock = <<>> /\ net = <<>>
  BY <1>1, <1>2, <1>5, <1>6
<1>8. Stream(fed', <<>>, <<>>, <<>>) = fed'
  BY <1>1, CatEmpty DEF Stream
<1> QED
  BY <1>1, <1>7, <1>8

\* The library wants to write: the cursor is sent with the key exchange.
LEMMA IInvFirstComplete ==
  ASSUME IInv, FirstResponseComplete
  PROVE  IInv'
<1>1. TypeOK /\ Control /\ FlightsIntact /\ ResponseCounted /\ CleanHandover
  BY DEF IInv, Control
<1>2. /\ Respond("first") /\ awaits = "first" /\ awaits' = "second"
      /\ rxpc' = "top" /\ contentLength' = 0
      /\ Len(fed') = FirstEnd
      /\ txQueue' = Append(txQueue, "key exchange")
      /\ UNCHANGED <<backend, cxpc, tx, txpc, serverVars, rxPipe, reading, base, data, answers>>
  BY DEF FirstResponseComplete, Respond
<1>3. /\ cxpc = "done" /\ answers = <<>> /\ Sent /\ ~reading /\ responseCount = 1
      /\ Answered
      /\ fed' \in ByteSeq
      /\ Stream(fed', Left, sock, net) = Flight(0, sent)
  BY <1>2, Responded
<1>4. Left = <<>> /\ sock = <<>> /\ net = <<>>
  BY <1>2, FlightTaken
<1> USE DEF serverVars
<1>5. /\ txQueue' = <<"key exchange">> /\ <<"key exchange">> \in Seq(Messages)
      /\ <<"key exchange">> # <<>>
  <2>1. "key exchange" \in Messages
    BY DEF Messages
  <2> QED
    BY <1>2, <1>3, <2>1, ShortQueues DEF Sent, Sending
<1>a. responseCount' = 0 /\ ~reading' /\ answers' = <<>> /\ rxpc' # "received"
  <2>1. responseCount' = responseCount - 1
    BY DEF FirstResponseComplete
  <2>2. responseCount' = 0
    BY <1>3, <2>1
  <2>3. reading' = reading /\ answers' = answers /\ rxpc' = "top"
    BY <1>2
  <2> QED
    BY <1>3, <2>2, <2>3
<1>6. TypeOK'
  <2>1. fed' \in Seq(Bytes)
    BY <1>3 DEF ByteSeq
  <2> QED
    BY <1>1, <1>2, <1>5, <1>a, <2>1 DEF TypeOK
<1>7. OnePlace'
  BY <1>2, <1>3, <1>5 DEF OnePlace, Sent, Sending, RxIdle, Message
<1>8. ServerKeepsUp'
  BY <1>2, <1>3, <1>5 DEF ServerKeepsUp, Asked, Answered
<1>9. BytesInTime'
  <2>1. Len(fed') >= FirstEnd
    <3>1. FirstEnd \in Nat
      BY FlightEnds
    <3>2. Len(fed') = FirstEnd
      BY DEF FirstResponseComplete
    <3> QED
      BY <3>1, <3>2
  <2> QED
    BY <1>2, <1>a, <2>1 DEF BytesInTime
<1>10. FlightsIntact'
  <2>1. Pending' = <<>>
    BY <1>2, <1>3 DEF Pending
  <2> QED
    BY <1>2, <1>3, <1>4, <2>1 DEF FlightsIntact, Stream, Cat
<1>11. ResponseCounted' /\ CleanHandover'
  <2>1. Len(answers') = 0
    BY <1>a
  <2> QED
    BY <1>a, <2>1 DEF ResponseCounted, CleanHandover
<1> QED
  BY <1>6, <1>7, <1>8, <1>9, <1>10, <1>11 DEF IInv

\* The handshake is complete: the client is called back.
LEMMA IInvSecondComplete ==
  ASSUME IInv, SecondResponseComplete
  PROVE  IInv'
<1>1. TypeOK /\ Control
  BY DEF IInv, Control
<1>2. /\ Respond("second") /\ awaits = "second" /\ rxpc' = "top"
      /\ Len(fed') = LastEnd
      /\ responseCount' = 0 /\ answers' = Append(answers, TRUE)
      /\ UNCHANGED <<backend, cxpc, txVars, serverVars, rxPipe, reading, cursorVars>>
  BY DEF SecondResponseComplete, Respond
<1>3. /\ cxpc = "done" /\ answers = <<>> /\ Sent /\ ~reading
      /\ Answered
      /\ fed' \in ByteSeq
  BY <1>2, Responded
<1>4. sock = <<>> /\ net = <<>> /\ fed' = Flight(0, sent)
  BY <1>2, FlightTaken
<1> USE DEF serverVars, txVars, cursorVars
<1>5. answers' \in Seq(BOOLEAN) /\ Len(answers') = 1 /\ answers' # <<>>
  <2>1. answers' = <<TRUE>>
    <3>1. TRUE \in BOOLEAN
      OBVIOUS
    <3>2. Append(<<>>, TRUE) = <<TRUE>>
      BY <3>1, ShortQueues
    <3> QED
      BY <1>2, <1>3, <3>2
  <2> QED
    BY <2>1
<1>6. TypeOK'
  <2>1. fed' \in Seq(Bytes) /\ responseCount' \in Nat
    BY <1>2, <1>3 DEF ByteSeq
  <2> QED
    BY <1>1, <1>2, <1>5, <2>1 DEF TypeOK
<1>7. OnePlace'
  BY <1>2, <1>3, <1>5 DEF OnePlace, Sent, Sending
<1>8. ServerKeepsUp'
  BY <1>1, <1>2 DEF Control, ServerKeepsUp, Asked, Answered
<1>9. BytesInTime'
  BY <1>2, <1>3, <1>4, FlightEnds DEF BytesInTime, Answered
<1>10. FlightsIntact' /\ ResponseCounted'
  BY <1>2, <1>5 DEF FlightsIntact, ResponseCounted
<1>11. CleanHandover'
  BY <1>2, <1>3, <1>4, <1>5 DEF CleanHandover, Sent, Sending, Answered
<1> QED
  BY <1>6, <1>7, <1>8, <1>9, <1>10, <1>11 DEF IInv

LEMMA IInvStep == IInv /\ [Next]_vars => IInv'
<1> SUFFICES ASSUME IInv, [Next]_vars
             PROVE  IInv'
  OBVIOUS
<1>1. CASE Next
  BY <1>1, IInvStart, IInvTxSend, IInvQuery, IInvPipe, IInvAnswer, IInvDeliver,
     IInvSchedule, IInvRecv, IInvIncomplete, IInvFails, IInvFirstComplete,
     IInvSecondComplete DEF Next, TxThread, RxThread
<1>2. CASE UNCHANGED vars
  BY <1>2 DEF vars, txVars, serverVars, rxVars, cursorVars, IInv, TypeOK, OnePlace,
              Sent, Sending, RxIdle, Message, ServerKeepsUp, Asked, Answered,
              BytesInTime, FlightsIntact, Pending, ResponseCounted, CleanHandover
<1> QED
  BY <1>1, <1>2

THEOREM Invariance == Spec => []IInv
BY IInvInit, IInvStep, PTL DEF Spec
-----------------------------------------------------------------------------
(***************************************************************************)
(* What the handshake guarantees.                                          *)
(***************************************************************************)

\* Every variable has its type; the cursor's offset of the next read stays in the
\* bytes that were read, and the response count is never negative.
THEOREM TypeCorrect == Spec => []TypeOK
<1>1. IInv => TypeOK
  BY DEF IInv
<1> QED
  BY <1>1, Invariance, PTL

\* The TLS library is given the server's bytes, all of them and in order, with any
\* cut into reads and pieces and any stale content length.
THEOREM Intact == Spec => []FlightsIntact
<1>1. IInv => FlightsIntact
  BY DEF IInv
<1> QED
  BY <1>1, Invariance, PTL

\* The handshake's response is counted exactly while the rx thread has its cursor.
THEOREM Counted == Spec => []ResponseCounted
<1>1. IInv => ResponseCounted
  BY DEF IInv
<1> QED
  BY <1>1, Invariance, PTL

\* The client is called back once at most, and with success only when both flights
\* have been taken to the end and nothing of the handshake is under way.
THEOREM Handover == Spec => []CleanHandover
<1>1. IInv => CleanHandover
  BY DEF IInv
<1> QED
  BY <1>1, Invariance, PTL
==============================================================================
