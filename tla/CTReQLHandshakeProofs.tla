------------------------ MODULE CTReQLHandshakeProofs ------------------------
(***************************************************************************)
(* Proofs about CTReQLHandshake: for every length of the messages, any     *)
(* refusals of the server, and every order of the threads' steps.  What    *)
(* the processing functions are given is proved for a network that does    *)
(* not cut the messages the code guesses the length of, and a server whose *)
(* first message has the length the code counts on; without these two the  *)
(* theorems are false.  The types are right in any case.                   *)
(***************************************************************************)
EXTENDS CTReQLHandshake, SequenceTheorems, TLAPS

WholeMessages == Whole /\ FirstLens \subseteq {GuessLen}

(***************************************************************************)
(* The inductive invariant: the handshake is always in one of these        *)
(* phases.                                                                 *)
(***************************************************************************)

\* The messages the server has not answered yet, on their way or in txQueue.
Holds(sent, queued) == requests = sent /\ txQueue = queued
None == Holds(<<>>, <<>>)
One(m) == Holds(<<m>>, <<>>) \/ Holds(<<>>, <<m>>)
Both ==
  \/ Holds(<<"magic", "first">>, <<>>)
  \/ Holds(<<"magic">>, <<"first">>)
  \/ Holds(<<>>, <<"magic", "first">>)

\* The bytes the client has not read yet: those readable, and those under way.
Unread(readable, rest) == sock = readable /\ net = rest
NoBytes == Unread(<<>>, <<>>)
MagicBytes ==
  LET M == Reply("magic", "accepted") IN Unread(<<>>, M) \/ Unread(M, <<>>)
BothBytes(says) ==
  LET M == Reply("magic", "accepted")
      F == Reply("first", says)
  IN  Unread(<<>>, M \o F) \/ Unread(M, F) \/ Unread(M \o F, <<>>)
FinalBytes(says) ==
  LET L == Reply("final", says) IN Unread(<<>>, L) \/ Unread(L, <<>>)

\* The cursor of message m is on its way to the rx thread, or the rx thread has
\* just got it.  While it is queued, the tx thread may be busy with the magic
\* number's.
Travels(m) ==
  /\ ~waiting /\ responseCount = 0 /\ data = <<>> /\ ~headerFound
  /\ IF txQueue # <<>> THEN tx \in {<<>>, <<"magic">>} /\ rxPipe = <<>> /\ rxpc = "top"
     ELSE \/ tx = <<m>> /\ rxPipe = <<>> /\ rxpc = "top"
          \/ tx = <<>> /\ rxPipe = <<m>> /\ rxpc = "top"
          \/ tx = <<>> /\ rxPipe = <<>> /\ rxpc = "taken"

\* The rx thread has the cursor / nobody has.
RxHolds == tx = <<>> /\ rxPipe = <<>>
RxIdle == RxHolds /\ rxpc = "top" /\ ~waiting /\ responseCount = 0

Started == cxpc \in {"firstSent", "done"}

NotStarted ==
  /\ cxpc = "connected" /\ None /\ NoBytes /\ RxIdle /\ data = <<>> /\ ~headerFound
  /\ awaits = "first" /\ processed = <<>> /\ answers = <<>>

NonceFailed ==
  /\ cxpc = "done" /\ None /\ NoBytes /\ RxIdle
  /\ processed = <<>> /\ answers = <<FALSE>>

MagicPhase ==
  /\ cxpc \in {"magicSent", "magicCounted"}
  /\ (One("magic") /\ NoBytes) \/ (None /\ MagicBytes)
  /\ tx \in {<<>>, <<"magic">>} /\ rxPipe = <<>> /\ rxpc = "top" /\ ~waiting
  /\ responseCount = 0 /\ data = <<>> /\ ~headerFound
  /\ awaits = "first" /\ processed = <<>> /\ answers = <<>>

FirstPhase ==
  /\ Started
  /\ \/ Both /\ NoBytes
     \/ One("first") /\ MagicBytes
     \/ None /\ \E says \in AllVerdicts : BothBytes(says)
  /\ Travels("first")
  /\ awaits = "first" /\ processed = <<>> /\ answers = <<>>

\* The magic response is read, the server first message not to its end.
HeaderPhase ==
  /\ Started /\ txQueue = <<>> /\ RxHolds /\ responseCount = 1
  /\ \/ requests = <<"first">> /\ NoBytes /\ data = <<>>
     \/ requests = <<>> /\ \E says \in AllVerdicts : data \o (sock \o net) = Reply("first", says)
  /\ rxpc # "aborted" /\ waiting = (rxpc = "top")
  /\ headerFound /\ contentLength = firstLen
  /\ awaits = "first" /\ processed = <<>> /\ answers = <<>>

FirstRefused ==
  /\ Started /\ None /\ NoBytes /\ RxIdle
  /\ \E says \in AllVerdicts \ {"accepted"} : processed = <<Reply("first", says)>>
  /\ answers = <<FALSE>>

FinalPhase ==
  /\ Started
  /\ (One("final") /\ NoBytes) \/ \E says \in AllVerdicts : None /\ FinalBytes(says)
  /\ Travels("final")
  /\ awaits = "final" /\ processed = <<Reply("first", "accepted")>> /\ answers = <<>>

FinalRead ==
  /\ Started /\ None /\ NoBytes /\ RxHolds /\ responseCount = 1
  /\ rxpc = "received" /\ ~waiting
  /\ \E says \in AllVerdicts : data = Reply("final", says)
  /\ contentLength = FinalLen
  /\ awaits = "final" /\ processed = <<Reply("first", "accepted")>> /\ answers = <<>>

Finished ==
  /\ Started /\ None /\ NoBytes /\ RxIdle
  /\ \E says \in AllVerdicts :
       /\ processed = <<Reply("first", "accepted"), Reply("final", says)>>
       /\ answers = <<says # "refused">>

\* The server has refused the magic number: the rx thread will not get past it.
RefusedByte(s) == s # <<>> /\ s[1].says # "accepted"
Doomed ==
  /\ cxpc # "connected"
  /\ \/ rxpc = "aborted"
     \/ /\ rxpc \in {"top", "taken"} /\ awaits = "first" /\ ~headerFound
        /\ IF sock = <<>> THEN RefusedByte(net) ELSE RefusedByte(sock)
  /\ processed = <<>> /\ answers = <<>>

Phases ==
  \/ NotStarted \/ NonceFailed \/ MagicPhase \/ FirstPhase \/ HeaderPhase
  \/ FirstRefused \/ FinalPhase \/ FinalRead \/ Finished \/ Doomed

IInv == TypeOK /\ Phases
-----------------------------------------------------------------------------
(***************************************************************************)
(* Facts about sequences and the server's messages.                        *)
(***************************************************************************)

\* Queues of one and of two messages.
LEMMA ShortQueues ==
  ASSUME NEW S, NEW x \in S, NEW y \in S
  PROVE  /\ Append(<<>>, x) = <<x>> /\ Append(<<x>>, y) = <<x, y>>
         /\ <<>> \o <<x>> = <<x>>
         /\ Head(<<x>>) = x /\ Tail(<<x>>) = <<>>
         /\ Head(<<x, y>>) = x /\ Tail(<<x, y>>) = <<y>>
         /\ <<x>> # <<>> /\ <<x, y>> # <<>>
         /\ <<x>> \in Seq(S) /\ <<x, y>> \in Seq(S)
<1>1. <<x>> \in Seq(S) /\ <<x, y>> \in Seq(S)
  OBVIOUS
<1>2. Append(<<>>, x) = <<x>> /\ Append(<<x>>, y) = <<x, y>> /\ <<>> \o <<x>> = <<x>>
  <2>1. Append(<<>>, x) = <<x>>
    OBVIOUS
  <2>2. Append(<<x>>, y) = <<x, y>>
    <3> DEFINE s == Append(<<x>>, y)
               t == <<x, y>>
    <3>1. s \in Seq(S) /\ Len(s) = 2 /\ s[1] = x /\ s[2] = y
      OBVIOUS
    <3>2. t \in Seq(S) /\ Len(t) = 2 /\ t[1] = x /\ t[2] = y
      OBVIOUS
    <3>3. \A i \in 1 .. 2 : s[i] = t[i]
      BY <3>1, <3>2
    <3> HIDE DEF s, t
    <3>4. s = t
      BY <3>1, <3>2, <3>3, SeqEqual
    <3> QED
      BY <3>4 DEF s, t
  <2>3. <<>> \o <<x>> = <<x>>
    BY <1>1, ConcatEmptySeq
  <2> QED
    BY <2>1, <2>2, <2>3
<1>3. Head(<<x>>) = x /\ Tail(<<x>>) = <<>> /\ Head(<<x, y>>) = x /\ Tail(<<x, y>>) = <<y>>
  OBVIOUS
<1>4. <<x>> # <<>> /\ <<x, y>> # <<>>
  OBVIOUS
<1> QED
  BY <1>1, <1>2, <1>3, <1>4

\* The same, of the messages of the handshake.
LEMMA MessageQueues ==
  \A x, y \in Messages :
    /\ Append(<<>>, x) = <<x>> /\ Append(<<x>>, y) = <<x, y>>
    /\ <<>> \o <<x>> = <<x>>
    /\ Head(<<x>>) = x /\ Tail(<<x>>) = <<>>
    /\ Head(<<x, y>>) = x /\ Tail(<<x, y>>) = <<y>>
    /\ <<x>> # <<>> /\ <<x, y>> # <<>>
BY ShortQueues

LEMMA MessageNames ==
  /\ "magic" \in Messages /\ "first" \in Messages /\ "final" \in Messages
  /\ "accepted" \in AllVerdicts /\ "refused" \in AllVerdicts
BY DEF Messages, AllVerdicts

\* The server's verdicts.
LEMMA Accepting == "accepted" # "refused" /\ \A m : Verdicts(m) \subseteq AllVerdicts
BY DEF AllVerdicts, Verdicts

\* Sequences of bytes and their concatenation, as names the provers need not look
\* into.
ByteSeq == Seq(Bytes)
Cat(x, y) == x \o y

LEMMA CatProperties ==
  \A x, y \in ByteSeq : Cat(x, y) \in ByteSeq /\ Len(Cat(x, y)) = Len(x) + Len(y)
BY ConcatProperties DEF ByteSeq, Cat

LEMMA CatAssociative ==
  \A x, y, z \in ByteSeq : Cat(Cat(x, y), z) = Cat(x, Cat(y, z))
<1> SUFFICES ASSUME NEW x \in Seq(Bytes), NEW y \in Seq(Bytes), NEW z \in Seq(Bytes)
             PROVE  (x \o y) \o z = x \o (y \o z)
  BY DEF ByteSeq, Cat
<1> QED
  BY ConcatAssociative

LEMMA CatEmpty ==
  <<>> \in ByteSeq /\ \A x \in ByteSeq : Cat(x, <<>>) = x /\ Cat(<<>>, x) = x
BY EmptySeq, ConcatEmptySeq DEF ByteSeq, Cat

LEMMA ByteSeqLength ==
  \A x \in ByteSeq : Len(x) \in Nat /\ (Len(x) = 0 <=> x = <<>>)
BY EmptySeq DEF ByteSeq

\* A sequence cut in two.
LEMMA CatCut ==
  \A s \in ByteSeq : \A n \in 0 .. Len(s) :
    /\ SubSeq(s, 1, n) \in ByteSeq /\ SubSeq(s, n + 1, Len(s)) \in ByteSeq
    /\ Cat(SubSeq(s, 1, n), SubSeq(s, n + 1, Len(s))) = s
<1> SUFFICES ASSUME NEW s \in Seq(Bytes), NEW n \in 0 .. Len(s)
             PROVE  /\ SubSeq(s, 1, n) \in Seq(Bytes) /\ SubSeq(s, n + 1, Len(s)) \in Seq(Bytes)
                    /\ SubSeq(s, 1, n) \o SubSeq(s, n + 1, Len(s)) = s
  BY DEF ByteSeq, Cat
<1>1. Len(s) \in Nat /\ 1 \in 1 .. Len(s) + 1 /\ n \in 1 - 1 .. Len(s) /\ Len(s) \in n .. Len(s)
  OBVIOUS
<1>2. SubSeq(s, 1, n) \o SubSeq(s, n + 1, Len(s)) = SubSeq(s, 1, Len(s))
  BY <1>1, ConcatAdjacentSubSeq
<1>3. SubSeq(s, 1, Len(s)) = s
  BY SubSeqFull
<1>4. SubSeq(s, 1, n) \in Seq(Bytes) /\ SubSeq(s, n + 1, Len(s)) \in Seq(Bytes)
  BY <1>1, SubSeqProperties
<1> QED
  BY <1>2, <1>3, <1>4

\* The two parts a concatenation was made of.
LEMMA CatParts ==
  \A x, y \in ByteSeq :
    /\ SubSeq(Cat(x, y), 1, Len(x)) = x
    /\ SubSeq(Cat(x, y), Len(x) + 1, Len(Cat(x, y))) = y
<1> SUFFICES ASSUME NEW x \in Seq(Bytes), NEW y \in Seq(Bytes)
             PROVE  /\ SubSeq(x \o y, 1, Len(x)) = x
                    /\ SubSeq(x \o y, Len(x) + 1, Len(x \o y)) = y
  BY DEF ByteSeq, Cat
<1> DEFINE c == x \o y
           s == SubSeq(c, 1, Len(x))
           t == SubSeq(c, Len(x) + 1, Len(c))
<1>1. /\ c \in Seq(Bytes) /\ Len(c) = Len(x) + Len(y) /\ Len(x) \in Nat /\ Len(y) \in Nat
      /\ \A i \in 1 .. Len(x) : c[i] = x[i]
      /\ \A i \in 1 .. Len(y) : c[Len(x) + i] = y[i]
  BY ConcatProperties
<1> HIDE DEF c
<1>2. s \in Seq(Bytes) /\ Len(s) = Len(x) /\ \A i \in 1 .. Len(x) : s[i] = c[i]
  BY <1>1
<1>3. t \in Seq(Bytes) /\ Len(t) = Len(y) /\ \A i \in 1 .. Len(y) : t[i] = c[Len(x) + i]
  BY <1>1
<1> HIDE DEF s, t
<1>4. s = x
  BY <1>1, <1>2, SeqEqual
<1>5. t = y
  BY <1>1, <1>3, SeqEqual
<1> QED
  BY <1>4, <1>5 DEF c, s, t

LEMMA CatIndex ==
  \A x, y \in ByteSeq :
    /\ \A i \in 1 .. Len(x) : Cat(x, y)[i] = x[i]
    /\ \A i \in 1 .. Len(y) : Cat(x, y)[Len(x) + i] = y[i]
BY ConcatProperties DEF ByteSeq, Cat

LEMMA CatWhole ==
  \A x \in ByteSeq :
    SubSeq(x, 1, Len(x)) = x /\ SubSeq(x, Len(x) + 1, Len(x)) = <<>>
<1> TAKE x \in ByteSeq
<1>1. Cat(x, <<>>) = x /\ <<>> \in ByteSeq
  BY CatEmpty
<1> QED
  BY <1>1, CatParts

\* The server's messages.
LEMMA Lengths ==
  LengthOf("magic") = MagicLen /\ LengthOf("first") = firstLen /\ LengthOf("final") = FinalLen
BY Zenon DEF LengthOf

LEMMA ReplyProperties ==
  ASSUME TypeOK
  PROVE  \A m \in Messages : \A says \in AllVerdicts :
           /\ Reply(m, says) \in ByteSeq /\ Reply(m, says) # <<>>
           /\ LengthOf(m) \in Nat \ {0} /\ Len(Reply(m, says)) = LengthOf(m)
           /\ \A p \in 1 .. LengthOf(m) :
                Reply(m, says)[p] = [msg |-> m, pos |-> p, says |-> says]
<1> SUFFICES ASSUME NEW m \in Messages, NEW says \in AllVerdicts
             PROVE  /\ Reply(m, says) \in ByteSeq /\ Reply(m, says) # <<>>
                    /\ LengthOf(m) \in Nat \ {0} /\ Len(Reply(m, says)) = LengthOf(m)
                    /\ \A p \in 1 .. LengthOf(m) :
                         Reply(m, says)[p] = [msg |-> m, pos |-> p, says |-> says]
  OBVIOUS
<1>1. LengthOf(m) \in Nat \ {0}
  BY Lengths, LengthsAssumption DEF Messages, TypeOK
<1>2. \A p \in 1 .. LengthOf(m) : [msg |-> m, pos |-> p, says |-> says] \in Bytes
  BY <1>1 DEF Bytes
<1>3. Reply(m, says) \in Seq(Bytes) /\ Len(Reply(m, says)) = LengthOf(m)
  BY <1>1, <1>2 DEF Reply
<1>4. \A p \in 1 .. LengthOf(m) : Reply(m, says)[p] = [msg |-> m, pos |-> p, says |-> says]
  BY DEF Reply
<1>5. Reply(m, says) # <<>>
  <2>1. Len(<<>>) = 0
    OBVIOUS
  <2> QED
    BY <1>1, <1>3, <2>1
<1> QED
  BY <1>1, <1>3, <1>4, <1>5 DEF ByteSeq

LEMMA ReplyFields ==
  ASSUME TypeOK
  PROVE  \A m \in Messages : \A says \in AllVerdicts : \A p \in 1 .. LengthOf(m) :
           Reply(m, says)[p].msg = m /\ Reply(m, says)[p].pos = p /\ Reply(m, says)[p].says = says
<1> SUFFICES ASSUME NEW m \in Messages, NEW says \in AllVerdicts, NEW p \in 1 .. LengthOf(m)
             PROVE  /\ Reply(m, says)[p].msg = m /\ Reply(m, says)[p].pos = p
                    /\ Reply(m, says)[p].says = says
  OBVIOUS
<1>1. Reply(m, says)[p] = [msg |-> m, pos |-> p, says |-> says]
  BY ReplyProperties
<1> QED
  BY <1>1

\* No step changes them.
LEMMA SameReplies ==
  ASSUME firstLen' = firstLen
  PROVE  \A m, says : Reply(m, says)' = Reply(m, says)
BY DEF Reply, LengthOf
-----------------------------------------------------------------------------
(***************************************************************************)
(* The types: every step keeps them, whatever the network and the server   *)
(* do.                                                                     *)
(***************************************************************************)

LEMMA TypeInit == Init => TypeOK
<1> SUFFICES ASSUME Init
             PROVE  TypeOK
  OBVIOUS
<1>1. /\ <<>> \in Seq(Messages) /\ <<>> \in Seq(Bytes)
      /\ <<>> \in Seq(BOOLEAN) /\ <<>> \in Seq(Seq(Bytes))
  OBVIOUS
<1>2. /\ processed \in Seq(Seq(Bytes)) /\ answers \in Seq(BOOLEAN)
      /\ net \in Seq(Bytes) /\ sock \in Seq(Bytes) /\ data \in Seq(Bytes)
  BY <1>1 DEF Init
<1>3. /\ txQueue \in Seq(Messages) /\ tx \in Seq(Messages)
      /\ requests \in Seq(Messages) /\ rxPipe \in Seq(Messages)
  BY <1>1 DEF Init
<1>4. queryCount \in Nat /\ contentLength \in Nat /\ responseCount \in Int
  BY DEF Init
<1>5. /\ cxpc = "connected" /\ rxpc = "top" /\ awaits = "first" /\ firstLen \in FirstLens
      /\ waiting \in BOOLEAN /\ headerFound \in BOOLEAN
  BY DEF Init
<1> QED
  BY <1>2, <1>3, <1>4, <1>5 DEF TypeOK

LEMMA TypeStart ==
  ASSUME TypeOK, CTReQLAsyncHandshake
  PROVE  TypeOK'
<1> USE DEF serverVars, rxVars
<1>1. CASE NonceFails
  <2>1. Append(answers, FALSE) \in Seq(BOOLEAN)
    BY AppendProperties DEF TypeOK
  <2> QED
    BY <1>1, <2>1 DEF NonceFails, TypeOK
<1>2. ASSUME NEW from, NEW m \in {"magic", "first"}, NEW to \in {"magicSent", "firstSent"},
             Trigger(from, m, to)
      PROVE  TypeOK'
  <2>1. Append(txQueue, m) \in Seq(Messages)
    <3>1. m \in Messages /\ txQueue \in Seq(Messages)
      BY <1>2 DEF TypeOK, Messages
    <3> QED
      BY <3>1, AppendProperties
  <2> QED
    BY <1>2, <2>1 DEF Trigger, TypeOK
<1>3. ASSUME NEW from, NEW to \in {"magicCounted", "done"}, Count(from, to)
      PROVE  TypeOK'
  BY <1>3 DEF Count, TypeOK
<1> QED
  BY <1>1, <1>2, <1>3 DEF CTReQLAsyncHandshake

LEMMA TypeTx ==
  ASSUME TypeOK, TxThread
  PROVE  TypeOK'
<1> USE DEF serverVars, rxVars
<1>1. CASE TxSend
  <2>1. /\ txQueue \in Seq(Messages) /\ requests \in Seq(Messages) /\ txQueue # <<>>
    BY <1>1 DEF TxSend, TypeOK
  <2>2. Head(txQueue) \in Messages /\ Tail(txQueue) \in Seq(Messages)
    BY <2>1, HeadTailProperties
  <2>3. Append(requests, Head(txQueue)) \in Seq(Messages) /\ <<Head(txQueue)>> \in Seq(Messages)
    BY <2>1, <2>2, AppendProperties, ShortQueues
  <2> QED
    BY <1>1, <2>2, <2>3 DEF TxSend, TypeOK
<1>2. CASE CTCursorRecvOnQueue
  <2>1. rxPipe \o tx \in Seq(Messages) /\ <<>> \in Seq(Messages)
    BY ConcatProperties, EmptySeq DEF TypeOK
  <2>2. rxPipe' \in Seq(Messages) /\ tx' \in Seq(Messages)
    BY <1>2, <2>1 DEF CTCursorRecvOnQueue, TypeOK
  <2> QED
    BY <1>2, <2>2 DEF CTCursorRecvOnQueue, TypeOK
<1> QED
  BY <1>1, <1>2 DEF TxThread

LEMMA TypeServer ==
  ASSUME TypeOK, ServerAnswers \/ Deliver
  PROVE  TypeOK'
<1> USE DEF clientVars, rxVars
<1>1. CASE ServerAnswers
  <2>1. PICK says \in AllVerdicts :
          /\ net' = net \o Reply(Head(requests), says)
          /\ requests' = IF says = "refused" THEN <<>> ELSE Tail(requests)
    BY <1>1, Accepting DEF ServerAnswers
  <2>2. requests \in Seq(Messages) /\ requests # <<>>
    BY <1>1 DEF ServerAnswers, TypeOK
  <2>3. Head(requests) \in Messages /\ Tail(requests) \in Seq(Messages) /\ <<>> \in Seq(Messages)
    BY <2>2, HeadTailProperties, EmptySeq
  <2>4. Reply(Head(requests), says) \in Seq(Bytes)
    BY <2>3, ReplyProperties DEF ByteSeq
  <2>5. net' \in Seq(Bytes)
    <3> DEFINE r == Reply(Head(requests), says)
    <3>1. net \in Seq(Bytes) /\ r \in Seq(Bytes) /\ net' = net \o r
      BY <2>1, <2>4 DEF TypeOK
    <3> HIDE DEF r
    <3> QED
      BY <3>1, ConcatProperties
  <2>6. requests' \in Seq(Messages)
    BY <2>1, <2>3
  <2> QED
    BY <1>1, <2>5, <2>6 DEF ServerAnswers, TypeOK
<1>2. CASE Deliver
  <2>1. PICK n \in 1 .. Len(net) :
          /\ sock' = sock \o SubSeq(net, 1, n)
          /\ net' = SubSeq(net, n + 1, Len(net))
          /\ UNCHANGED <<clientVars, requests, firstLen, rxPipe, rxVars>>
    BY <1>2 DEF Deliver
  <2>2. net \in ByteSeq /\ sock \in ByteSeq /\ n \in 0 .. Len(net)
    BY DEF TypeOK, ByteSeq
  <2>3. SubSeq(net, 1, n) \in ByteSeq /\ SubSeq(net, n + 1, Len(net)) \in ByteSeq
    BY <2>2, CatCut
  <2>4. Cat(sock, SubSeq(net, 1, n)) \in ByteSeq
    BY <2>2, <2>3, CatProperties
  <2>5. sock' \in Seq(Bytes) /\ net' \in Seq(Bytes)
    BY <2>1, <2>3, <2>4 DEF ByteSeq, Cat
  <2> QED
    BY <2>1, <2>5 DEF TypeOK
<1> QED
  BY <1>1, <1>2

\* The magic response and what is behind it.
LEMMA BodyType ==
  ASSUME TypeOK, MagicAccepted(sock)
  PROVE  /\ BodyLength(sock) \in Nat /\ Body(sock) \in ByteSeq
         /\ Len(Body(sock)) = BodyLength(sock)
<1>1. sock \in Seq(Bytes) /\ Len(sock) \in Nat /\ MagicLen \in Nat /\ MagicLen <= Len(sock)
  BY LengthsAssumption DEF TypeOK, MagicAccepted
<1>2. SubSeq(sock, MagicLen + 1, Len(sock)) \in Seq(Bytes)
      /\ Len(SubSeq(sock, MagicLen + 1, Len(sock))) = Len(sock) - MagicLen
  BY <1>1
<1> QED
  BY <1>1, <1>2 DEF BodyLength, Body, ByteSeq

LEMMA TypeRecv ==
  ASSUME TypeOK, RxTake \/ RxRecvFirst \/ RxRecvMore \/ RxRecvFinal \/ CTCursorAsyncRecv
  PROVE  TypeOK'
<1> USE DEF clientVars, serverVars
<1>1. <<>> \in Seq(Bytes)
  BY EmptySeq
<1>2. CASE RxTake
  <2>1. rxPipe' \in Seq(Messages)
    <3>1. CASE waiting
      BY <1>2, <3>1 DEF RxTake, TypeOK
    <3>2. CASE ~waiting
      <4>1. rxPipe \in Seq(Messages) /\ rxPipe # <<>> /\ rxPipe' = Tail(rxPipe)
        BY <1>2, <3>2 DEF RxTake, TypeOK
      <4> QED
        BY <4>1, HeadTailProperties
    <3> QED
      BY <3>1, <3>2
  <2>2. waiting' \in BOOLEAN
    BY <1>2 DEF RxTake, TypeOK
  <2> QED
    BY <1>2, <2>1, <2>2 DEF RxTake, TypeOK
<1>3. CASE RxRecvFirst
  <2>1. CASE MagicAccepted(sock)
    <3>1. contentLength' \in Nat /\ data' \in Seq(Bytes)
      BY <1>3, <2>1, BodyType, LengthsAssumption DEF RxRecvFirst, ByteSeq
    <3> QED
      BY <1>1, <1>3, <2>1, <3>1 DEF RxRecvFirst, TypeOK
  <2>2. CASE ~MagicAccepted(sock)
    BY <1>1, <1>3, <2>2 DEF RxRecvFirst, TypeOK
  <2> QED
    BY <2>1, <2>2
<1>4. CASE RxRecvMore
  <2>1. data' \in Seq(Bytes)
    BY <1>4, ConcatProperties DEF RxRecvMore, TypeOK
  <2> QED
    BY <1>1, <1>4, <2>1 DEF RxRecvMore, TypeOK
<1>5. CASE RxRecvFinal
  <2>1. contentLength' \in Nat
    BY <1>5 DEF RxRecvFinal, TypeOK
  <2> QED
    BY <1>1, <1>5, <2>1 DEF RxRecvFinal, TypeOK
<1>6. CASE CTCursorAsyncRecv
  BY <1>6 DEF CTCursorAsyncRecv, TypeOK
<1> QED
  BY <1>2, <1>3, <1>4, <1>5, <1>6

LEMMA TypeProcess ==
  ASSUME TypeOK, FirstMessageRefused \/ FirstMessageAccepted \/ FinalMessage
  PROVE  TypeOK'
<1> USE DEF clientVars, serverVars
<1>1. processed' \in Seq(Seq(Bytes))
  <2>1. processed' = Append(processed, data)
    BY DEF FirstMessageRefused, FirstMessageAccepted, FinalMessage
  <2>2. processed \in Seq(Seq(Bytes)) /\ data \in Seq(Bytes)
    BY DEF TypeOK
  <2> QED
    BY <2>1, <2>2, AppendProperties
<1>2. \A ok \in BOOLEAN : Append(answers, ok) \in Seq(BOOLEAN)
  BY AppendProperties DEF TypeOK
<1>3. CASE FirstMessageRefused
  BY <1>1, <1>2, <1>3 DEF FirstMessageRefused, TypeOK
<1>4. CASE FirstMessageAccepted
  <2>1. Append(txQueue, "final") \in Seq(Messages)
    <3>1. txQueue \in Seq(Messages)
      BY DEF TypeOK
    <3> QED
      BY <3>1, MessageNames, AppendProperties
  <2>2. data' \in Seq(Bytes)
    BY <1>4, EmptySeq DEF FirstMessageAccepted
  <2>3. contentLength' \in Nat /\ responseCount' \in Int /\ queryCount' \in Nat
    BY <1>4 DEF FirstMessageAccepted, TypeOK
  <2> QED
    BY <1>1, <1>4, <2>1, <2>2, <2>3 DEF FirstMessageAccepted, TypeOK
<1>5. CASE FinalMessage
  <2>1. AcceptsFinal(data) \subseteq BOOLEAN
    <3> DEFINE accepted == data[FinalLen]
                 \in [msg : {"final"}, pos : {FinalLen}, says : {"accepted", "unsigned"}]
    <3>1. accepted \in BOOLEAN
      OBVIOUS
    <3>2. AcceptsFinal(data) = IF Len(data) < FinalLen THEN BOOLEAN ELSE {accepted}
      BY DEF AcceptsFinal
    <3> HIDE DEF accepted
    <3> QED
      BY <3>1, <3>2
  <2>2. answers' \in Seq(BOOLEAN)
    BY <1>2, <1>5, <2>1 DEF FinalMessage
  <2> QED
    BY <1>1, <1>5, <2>2 DEF FinalMessage, TypeOK
<1> QED
  BY <1>3, <1>4, <1>5

LEMMA TypeStep == TypeOK /\ [Next]_vars => TypeOK'
<1> SUFFICES ASSUME TypeOK, [Next]_vars
             PROVE  TypeOK'
  OBVIOUS
<1>1. CASE Next
  BY <1>1, TypeStart, TypeTx, TypeServer, TypeRecv, TypeProcess DEF Next, RxThread
<1>2. CASE UNCHANGED vars
  BY <1>2 DEF vars, clientVars, serverVars, rxVars, TypeOK
<1> QED
  BY <1>1, <1>2

\* Every variable has its type, whatever the network cuts, the server sends and
\* the code guesses.
THEOREM TypeCorrect == Spec => []TypeOK
BY TypeInit, TypeStep, PTL DEF Spec
-----------------------------------------------------------------------------
(***************************************************************************)
(* The phases: each is left only to one of those that may follow it.       *)
(***************************************************************************)

LEMMA PhasesInit == Init => Phases
BY DEF Init, Phases, NotStarted, None, Holds, NoBytes, Unread, RxIdle, RxHolds

\* Nothing is under way.
Quiet == None /\ NoBytes /\ RxIdle

\* When nothing is under way, only the starting thread may take a step.
LEMMA OnlyStarts ==
  ASSUME Quiet, Next
  PROVE  CTReQLAsyncHandshake
<1>1. /\ requests = <<>> /\ txQueue = <<>> /\ net = <<>> /\ tx = <<>> /\ rxPipe = <<>>
      /\ rxpc = "top" /\ ~waiting
  BY DEF Quiet, None, Holds, NoBytes, Unread, RxIdle, RxHolds
<1>2. ~TxThread
  BY <1>1 DEF TxThread, TxSend, CTCursorRecvOnQueue
<1>3. ~RxThread
  BY <1>1 DEF RxThread, RxTake, RxRecvFirst, RxRecvMore, RxRecvFinal, CTCursorAsyncRecv,
              FirstMessageRefused, FirstMessageAccepted, FinalMessage
<1>4. ~ServerAnswers
  BY <1>1 DEF ServerAnswers
<1>5. ~Deliver
  <2>1. 1 .. Len(net) = {}
    BY <1>1
  <2> QED
    BY <2>1 DEF Deliver
<1> QED
  BY <1>2, <1>3, <1>4, <1>5 DEF Next

\* When both messages are triggered, the starting thread only counts.
LEMMA OnlyCounts ==
  ASSUME Started, CTReQLAsyncHandshake
  PROVE  Started' /\ UNCHANGED <<txQueue, tx, serverVars, rxPipe, rxVars>>
BY DEF Started, CTReQLAsyncHandshake, NonceFails, Trigger, Count

LEMMA NotStartedStep ==
  ASSUME NotStarted, Next
  PROVE  NotStarted' \/ NonceFailed' \/ MagicPhase'
<1> USE DEF serverVars, rxVars
<1>1. CTReQLAsyncHandshake
  BY OnlyStarts DEF NotStarted, Quiet
<1>2. CASE NonceFails
  <2>1. answers' = <<FALSE>>
    <3>1. Append(<<>>, FALSE) = <<FALSE>>
      OBVIOUS
    <3> QED
      BY <1>2, <3>1 DEF NonceFails, NotStarted
  <2> QED
    BY <1>2, <2>1 DEF NonceFails, NotStarted, NonceFailed, None, Holds, NoBytes, Unread,
                      RxIdle, RxHolds
<1>3. CASE Trigger("connected", "magic", "magicSent")
  <2>1. txQueue' = <<"magic">>
    BY <1>3, MessageQueues, MessageNames DEF Trigger, NotStarted, None, Holds
  <2> QED
    BY <1>3, <2>1 DEF Trigger, NotStarted, MagicPhase, None, One, Holds, NoBytes, Unread,
                      RxIdle, RxHolds
<1> QED
  BY <1>1, <1>2, <1>3 DEF CTReQLAsyncHandshake, Trigger, Count, NotStarted

LEMMA NonceFailedStep ==
  ASSUME NonceFailed, Next
  PROVE  FALSE
<1>1. CTReQLAsyncHandshake
  BY OnlyStarts DEF NonceFailed, Quiet
<1> QED
  BY <1>1 DEF NonceFailed, CTReQLAsyncHandshake, NonceFails, Trigger, Count

LEMMA FirstRefusedStep ==
  ASSUME FirstRefused, Next
  PROVE  FirstRefused'
<1>1. Started' /\ UNCHANGED <<txQueue, tx, serverVars, rxPipe, rxVars>>
  <2>1. CTReQLAsyncHandshake
    BY OnlyStarts DEF FirstRefused, Quiet
  <2> QED
    BY <2>1, OnlyCounts DEF FirstRefused
<1>2. \A says \in AllVerdicts : Reply("first", says)' = Reply("first", says)
  BY <1>1, SameReplies DEF serverVars
<1> QED
  BY <1>1, <1>2 DEF FirstRefused, None, Holds, NoBytes, Unread, RxIdle, RxHolds,
                    serverVars, rxVars

LEMMA FinishedStep ==
  ASSUME Finished, Next
  PROVE  Finished'
<1>1. Started' /\ UNCHANGED <<txQueue, tx, serverVars, rxPipe, rxVars>>
  <2>1. CTReQLAsyncHandshake
    BY OnlyStarts DEF Finished, Quiet
  <2> QED
    BY <2>1, OnlyCounts DEF Finished
<1>2. \A says \in AllVerdicts :
        /\ Reply("first", "accepted")' = Reply("first", "accepted")
        /\ Reply("final", says)' = Reply("final", says)
  BY <1>1, SameReplies DEF serverVars
<1> QED
  BY <1>1, <1>2 DEF Finished, None, Holds, NoBytes, Unread, RxIdle, RxHolds,
                    serverVars, rxVars

\* What the server adds to the stream.
LEMMA Answers ==
  ASSUME TypeOK, ServerAnswers
  PROVE  /\ requests # <<>>
         /\ \E says \in AllVerdicts :
              /\ net' = Cat(net, Reply(Head(requests), says))
              /\ requests' = IF says = "refused" THEN <<>> ELSE Tail(requests)
         /\ firstLen' = firstLen /\ UNCHANGED <<clientVars, sock, rxPipe, rxVars>>
BY Accepting DEF ServerAnswers, Cat

\* The bytes of one message are delivered at once, unless they are those of the
\* server first message behind the magic response.
LEMMA DeliverOne ==
  ASSUME TypeOK, Whole, Deliver, NEW m \in Messages, NEW says \in AllVerdicts,
         net = Reply(m, says), m = "first" => ~headerFound
  PROVE  sock' = Cat(sock, net) /\ net' = <<>>
<1>1. PICK n \in 1 .. Len(net) :
        /\ MayCut(n)
        /\ sock' = Cat(sock, SubSeq(net, 1, n)) /\ net' = SubSeq(net, n + 1, Len(net))
  BY DEF Deliver, Cat
<1>2. /\ net \in ByteSeq /\ Len(net) = LengthOf(m) /\ Len(net) \in Nat
      /\ net[n] = [msg |-> m, pos |-> n, says |-> says]
  BY <1>1, ReplyProperties, ByteSeqLength
<1>3. n = Len(net)
  BY <1>1, <1>2 DEF MayCut
<1>4. SubSeq(net, 1, Len(net)) = net /\ SubSeq(net, Len(net) + 1, Len(net)) = <<>>
  BY <1>2, CatWhole
<1> QED
  BY <1>1, <1>3, <1>4

\* The last byte of a message.
EndsMessage(b) == b.pos = LengthOf(b.msg)

LEMMA EndOfReply ==
  ASSUME TypeOK
  PROVE  \A m \in Messages : \A says \in AllVerdicts : \A p \in 1 .. Len(Reply(m, says)) :
           EndsMessage(Reply(m, says)[p]) => p = Len(Reply(m, says))
<1> SUFFICES ASSUME NEW m \in Messages, NEW says \in AllVerdicts, NEW p \in 1 .. Len(Reply(m, says)),
                    EndsMessage(Reply(m, says)[p])
             PROVE  p = Len(Reply(m, says))
  OBVIOUS
<1>1. Len(Reply(m, says)) = LengthOf(m)
  BY ReplyProperties
<1>2. Reply(m, says)[p].msg = m /\ Reply(m, says)[p].pos = p
  BY <1>1, ReplyFields
<1> QED
  BY <1>1, <1>2 DEF EndsMessage

\* Two messages are delivered at once or one after the other.
LEMMA CutOfBoth ==
  ASSUME TypeOK
  PROVE  \A says \in AllVerdicts :
         \A n \in 1 .. Len(Cat(Reply("magic", "accepted"), Reply("first", says))) :
           EndsMessage(Cat(Reply("magic", "accepted"), Reply("first", says))[n]) =>
             \/ n = Len(Reply("magic", "accepted"))
             \/ n = Len(Cat(Reply("magic", "accepted"), Reply("first", says)))
<1> TAKE says \in AllVerdicts
<1> DEFINE x == Reply("magic", "accepted")
           y == Reply("first", says)
           s == Cat(x, y)
<1>1. x \in ByteSeq /\ y \in ByteSeq
  BY ReplyProperties, MessageNames
<1>2. /\ \A p \in 1 .. Len(x) : EndsMessage(x[p]) => p = Len(x)
      /\ \A p \in 1 .. Len(y) : EndsMessage(y[p]) => p = Len(y)
  BY EndOfReply, MessageNames
<1> HIDE DEF x, y
<1>3. /\ Len(x) \in Nat /\ Len(y) \in Nat /\ Len(s) = Len(x) + Len(y)
  BY <1>1, CatProperties, ByteSeqLength
<1>4. /\ \A i \in 1 .. Len(x) : s[i] = x[i]
      /\ \A i \in 1 .. Len(y) : s[Len(x) + i] = y[i]
  BY <1>1, CatIndex
<1> HIDE DEF s
<1>5. ASSUME NEW n \in 1 .. Len(s), EndsMessage(s[n])
      PROVE  n = Len(x) \/ n = Len(s)
  <2>1. CASE n <= Len(x)
    <3>1. n \in 1 .. Len(x)
      BY <1>3, <2>1
    <3> QED
      BY <1>2, <1>4, <1>5, <3>1
  <2>2. CASE n > Len(x)
    <3> DEFINE p == n - Len(x)
    <3>1. p \in 1 .. Len(y) /\ n = Len(x) + p
      BY <1>3, <2>2
    <3> HIDE DEF p
    <3>2. s[n] = y[p]
      BY <1>4, <3>1
    <3>3. p = Len(y)
      BY <1>2, <1>5, <3>1, <3>2
    <3> QED
      BY <1>3, <3>1, <3>3
  <2> QED
    BY <1>3, <2>1, <2>2
<1> QED
  BY <1>5 DEF x, y, s

LEMMA DeliverBoth ==
  ASSUME TypeOK, Whole, Deliver, ~headerFound, NEW says \in AllVerdicts,
         net = Cat(Reply("magic", "accepted"), Reply("first", says))
  PROVE  \/ sock' = Cat(sock, Reply("magic", "accepted")) /\ net' = Reply("first", says)
         \/ sock' = Cat(sock, net) /\ net' = <<>>
<1>1. PICK n \in 1 .. Len(net) :
        /\ MayCut(n)
        /\ sock' = Cat(sock, SubSeq(net, 1, n)) /\ net' = SubSeq(net, n + 1, Len(net))
  BY DEF Deliver, Cat
<1>2. Reply("magic", "accepted") \in ByteSeq /\ Reply("first", says) \in ByteSeq
  BY ReplyProperties, MessageNames
<1>3. net \in ByteSeq
  BY DEF TypeOK, ByteSeq
<1>4. EndsMessage(net[n])
  BY <1>1 DEF MayCut, EndsMessage
<1>5. n = Len(Reply("magic", "accepted")) \/ n = Len(net)
  BY <1>2, <1>3, <1>4, CutOfBoth
<1>6. CASE n = Len(Reply("magic", "accepted"))
  BY <1>1, <1>2, <1>6, CatParts
<1>7. CASE n = Len(net)
  BY <1>1, <1>3, <1>7, CatWhole
<1> QED
  BY <1>5, <1>6, <1>7

\* A refused message, first in the stream.
LEMMA Refused ==
  ASSUME TypeOK
  PROVE  \A m \in Messages : \A says \in AllVerdicts \ {"accepted"} :
           RefusedByte(Reply(m, says))
<1> SUFFICES ASSUME NEW m \in Messages, NEW says \in AllVerdicts, says # "accepted"
             PROVE  RefusedByte(Reply(m, says))
  OBVIOUS
<1> DEFINE l == LengthOf(m)
           r == Reply(m, says)
<1>1. l \in Nat \ {0} /\ r # <<>>
      /\ \A p \in 1 .. l : r[p] = [msg |-> m, pos |-> p, says |-> says]
  BY ReplyProperties
<1> HIDE DEF l, r
<1>2. r[1] = [msg |-> m, pos |-> 1, says |-> says]
  BY <1>1
<1>3. r[1].says = says
  BY <1>2
<1> QED
  BY <1>1, <1>3 DEF RefusedByte, r

\* No step but the first message's changes its length, and with it the replies.
LEMMA RepliesKept ==
  ASSUME Next
  PROVE  firstLen' = firstLen /\ \A m, says : Reply(m, says)' = Reply(m, says)
<1>1. firstLen' = firstLen
  BY DEF Next, CTReQLAsyncHandshake, NonceFails, Trigger, Count,
         TxThread, TxSend, CTCursorRecvOnQueue, ServerAnswers, Deliver,
         RxThread, RxTake, RxRecvFirst, RxRecvMore, RxRecvFinal, CTCursorAsyncRecv,
         FirstMessageRefused, FirstMessageAccepted, FinalMessage, serverVars
<1> QED
  BY <1>1, SameReplies

\* The magic number is sent, the client first message is not triggered yet.
LEMMA MagicPhaseStep ==
  ASSUME TypeOK, Whole, MagicPhase, Next
  PROVE  MagicPhase' \/ FirstPhase' \/ Doomed'
<1>1. /\ cxpc \in {"magicSent", "magicCounted"}
      /\ tx \in {<<>>, <<"magic">>} /\ rxPipe = <<>> /\ rxpc = "top" /\ ~waiting
      /\ responseCount = 0 /\ data = <<>> /\ ~headerFound
      /\ awaits = "first" /\ processed = <<>> /\ answers = <<>>
  BY DEF MagicPhase
<1>2. (One("magic") /\ NoBytes) \/ (None /\ MagicBytes)
  BY DEF MagicPhase
<1>3. /\ Reply("magic", "accepted")' = Reply("magic", "accepted")
      /\ Reply("magic", "accepted") \in ByteSeq
  BY RepliesKept, ReplyProperties, MessageNames
<1>4. ~RxThread
  BY <1>1 DEF RxThread, RxTake, RxRecvFirst, RxRecvMore, RxRecvFinal, CTCursorAsyncRecv,
              FirstMessageRefused, FirstMessageAccepted, FinalMessage
<1>5. CASE CTReQLAsyncHandshake
  <2> USE DEF serverVars, rxVars
  <2>1. CASE Count("magicSent", "magicCounted")
    BY <1>1, <1>2, <1>3, <2>1 DEF Count, MagicPhase, One, None, Holds, NoBytes, MagicBytes,
                                  Unread
  <2>2. CASE Trigger("magicCounted", "first", "firstSent")
    <3>1. /\ txQueue' = Append(txQueue, "first") /\ cxpc' = "firstSent"
          /\ UNCHANGED <<queryCount, tx, serverVars, rxPipe, rxVars>>
      BY <2>2 DEF Trigger
    <3>2. One("magic") => Both' /\ txQueue' # <<>>
      <4>1. /\ Append(<<>>, "first") = <<"first">> /\ <<"first">> # <<>>
            /\ Append(<<"magic">>, "first") = <<"magic", "first">> /\ <<"magic", "first">> # <<>>
        BY MessageQueues, MessageNames
      <4>2. CASE Holds(<<"magic">>, <<>>)
        BY <3>1, <4>1, <4>2 DEF Both, Holds, serverVars
      <4>3. CASE Holds(<<>>, <<"magic">>)
        BY <3>1, <4>1, <4>3 DEF Both, Holds, serverVars
      <4> QED
        BY <4>2, <4>3 DEF One
    <3>3. None => One("first")' /\ txQueue' # <<>>
      BY <3>1, MessageQueues, MessageNames DEF One, None, Holds
    <3>4. Travels("first")'
      BY <1>1, <1>2, <3>1, <3>2, <3>3 DEF Travels
    <3> QED
      BY <1>1, <1>2, <1>3, <3>1, <3>2, <3>3, <3>4
         DEF FirstPhase, Started, NoBytes, MagicBytes, Unread
  <2> QED
    BY <1>1, <1>5, <2>1, <2>2 DEF CTReQLAsyncHandshake, NonceFails, Trigger, Count
<1>6. CASE TxSend
  <2> USE DEF rxVars
  <2>1. Holds(<<>>, <<"magic">>) /\ NoBytes
    BY <1>2, <1>6 DEF TxSend, One, None, Holds
  <2>2. Holds(<<"magic">>, <<>>)' /\ tx' = <<"magic">>
    BY <1>6, <2>1, MessageQueues, MessageNames DEF TxSend, Holds
  <2> QED
    BY <1>1, <1>6, <2>1, <2>2 DEF TxSend, MagicPhase, One, NoBytes, Unread
<1>7. CASE CTCursorRecvOnQueue
  <2>1. tx[1] = "magic"
    BY <1>1, <1>7 DEF CTCursorRecvOnQueue
  <2>2. tx' = <<>> /\ rxPipe' = rxPipe /\ UNCHANGED <<cxpc, queryCount, txQueue, serverVars, rxVars>>
    BY <1>7, <2>1 DEF CTCursorRecvOnQueue
  <2> QED
    BY <1>1, <1>2, <1>3, <2>2 DEF MagicPhase, One, None, Holds, NoBytes, MagicBytes, Unread,
                                  serverVars, rxVars
<1>8. CASE ServerAnswers
  <2> USE DEF clientVars, rxVars
  <2>1. PICK says \in AllVerdicts :
          /\ net' = Cat(net, Reply(Head(requests), says))
          /\ requests' = IF says = "refused" THEN <<>> ELSE Tail(requests)
          /\ requests # <<>> /\ UNCHANGED <<clientVars, sock, rxPipe, rxVars>>
    BY <1>8, Answers
  <2>2. Holds(<<"magic">>, <<>>) /\ NoBytes
    BY <1>2, <2>1 DEF One, None, Holds
  <2>3. Head(requests) = "magic" /\ Tail(requests) = <<>>
    BY <2>2, MessageQueues, MessageNames DEF Holds
  <2>4. net' = Reply("magic", says) /\ sock' = <<>> /\ None'
    <3>1. net = <<>> /\ Reply("magic", says) \in ByteSeq
      BY <2>2, ReplyProperties, MessageNames DEF NoBytes, Unread
    <3>2. net' = Reply("magic", says)
      BY <2>1, <2>3, <3>1, CatEmpty
    <3> QED
      BY <2>1, <2>2, <2>3, <3>2 DEF None, Holds, NoBytes, Unread
  <2>5. CASE says = "accepted"
    BY <1>1, <1>3, <2>1, <2>4, <2>5 DEF MagicPhase, MagicBytes, Unread
  <2>6. CASE says # "accepted"
    <3>1. RefusedByte(net')
      BY <2>4, <2>6, Refused, MessageNames
    <3> QED
      BY <1>1, <2>1, <2>4, <3>1 DEF Doomed
  <2> QED
    BY <2>5, <2>6
<1>9. CASE Deliver
  <2>1. net # <<>>
    BY <1>9 DEF Deliver
  <2>2. None /\ sock = <<>> /\ net = Reply("magic", "accepted")
    BY <1>2, <2>1 DEF NoBytes, MagicBytes, Unread
  <2>3. sock' = Reply("magic", "accepted") /\ net' = <<>>
    BY <1>3, <1>9, <2>2, DeliverOne, CatEmpty, MessageNames
  <2>4. UNCHANGED <<clientVars, requests, firstLen, rxPipe, rxVars>>
    BY <1>9 DEF Deliver
  <2> QED
    BY <1>1, <1>3, <2>2, <2>3, <2>4 DEF MagicPhase, None, Holds, MagicBytes, Unread, clientVars,
                                        rxVars
<1> QED
  BY <1>4, <1>5, <1>6, <1>7, <1>8, <1>9 DEF Next, TxThread

\* What the header callback makes of the magic response, alone and with the server
\* first message behind it.
LEMMA MagicAlone ==
  ASSUME TypeOK
  PROVE  LET M == Reply("magic", "accepted")
         IN  MagicAccepted(M) /\ BodyLength(M) = 0 /\ Body(M) = <<>>
<1> DEFINE M == Reply("magic", "accepted")
<1>1. /\ M \in ByteSeq /\ Len(M) = MagicLen /\ MagicLen \in Nat
      /\ \A p \in 1 .. MagicLen : M[p] = [msg |-> "magic", pos |-> p, says |-> "accepted"]
  BY ReplyProperties, MessageNames, Lengths, LengthsAssumption
<1> HIDE DEF M
<1>2. SubSeq(M, MagicLen + 1, Len(M)) = <<>>
  BY <1>1, CatWhole
<1>3. MagicAccepted(M)
  BY <1>1 DEF MagicAccepted
<1>4. BodyLength(M) = 0 /\ Body(M) = <<>>
  BY <1>1, <1>2 DEF BodyLength, Body
<1> QED
  BY <1>3, <1>4 DEF M

LEMMA MagicAndFirst ==
  ASSUME TypeOK
  PROVE  \A says \in AllVerdicts :
           LET M == Reply("magic", "accepted")
               F == Reply("first", says)
           IN  /\ MagicAccepted(Cat(M, F)) /\ BodyLength(Cat(M, F)) = firstLen
               /\ Body(Cat(M, F)) = F
<1> TAKE says \in AllVerdicts
<1> DEFINE M == Reply("magic", "accepted")
           F == Reply("first", says)
           s == Cat(M, F)
<1>1. /\ M \in ByteSeq /\ Len(M) = MagicLen /\ MagicLen \in Nat
      /\ F \in ByteSeq /\ Len(F) = firstLen /\ firstLen \in Nat
  BY ReplyProperties, MessageNames, Lengths, LengthsAssumption
<1>2. \A p \in 1 .. MagicLen : M[p] = [msg |-> "magic", pos |-> p, says |-> "accepted"]
  BY ReplyProperties, MessageNames, Lengths
<1> HIDE DEF M, F
<1>3. Len(s) = MagicLen + firstLen
  BY <1>1, CatProperties
<1>4. SubSeq(s, MagicLen + 1, Len(s)) = F
  BY <1>1, CatParts
<1>5. \A p \in 1 .. Len(M) : s[p] = M[p]
  BY <1>1, CatIndex
<1> HIDE DEF s
<1>6. \A p \in 1 .. MagicLen : s[p] = [msg |-> "magic", pos |-> p, says |-> "accepted"]
  BY <1>1, <1>2, <1>5
<1>7. MagicAccepted(s)
  BY <1>1, <1>3, <1>6 DEF MagicAccepted
<1>8. BodyLength(s) = firstLen /\ Body(s) = F
  BY <1>1, <1>3, <1>4 DEF BodyLength, Body
<1> QED
  BY <1>7, <1>8 DEF s, M, F

\* The client first message is on its way, or its answer: the rx thread has not
\* read anything yet.
LEMMA FirstPhaseSend ==
  ASSUME TypeOK, FirstPhase, Next, CTReQLAsyncHandshake \/ TxThread \/ RxTake
  PROVE  FirstPhase'
<1>1. /\ Started /\ Travels("first")
      /\ awaits = "first" /\ processed = <<>> /\ answers = <<>>
  BY DEF FirstPhase
<1>2. \/ Both /\ NoBytes
      \/ One("first") /\ MagicBytes
      \/ None /\ \E says \in AllVerdicts : BothBytes(says)
  BY DEF FirstPhase
<1>3. /\ ~waiting /\ responseCount = 0 /\ data = <<>> /\ ~headerFound
      /\ rxpc \in {"top", "taken"} /\ rxPipe \in {<<>>, <<"first">>}
      /\ tx \in {<<>>, <<"magic">>, <<"first">>}
  BY <1>1 DEF Travels
<1>4. \A m, says : Reply(m, says)' = Reply(m, says)
  BY RepliesKept
<1>a. sock' = sock /\ net' = net =>
        /\ NoBytes => NoBytes'
        /\ MagicBytes => MagicBytes'
        /\ \A says \in AllVerdicts : BothBytes(says) => BothBytes(says)'
  BY <1>4 DEF NoBytes, MagicBytes, BothBytes, Unread
<1> DEFINE Same == /\ sock' = sock /\ net' = net
                   /\ awaits' = awaits /\ processed' = processed /\ answers' = answers
           Unsent == (Both => Both') /\ (One("first") => One("first")') /\ (None => None')
<1>5. Started' /\ Travels("first")' /\ Same /\ Unsent => FirstPhase'
  <2> SUFFICES ASSUME Started', Travels("first")', Same, Unsent
               PROVE  FirstPhase'
    OBVIOUS
  <2>1. \/ Both' /\ NoBytes'
        \/ One("first")' /\ MagicBytes'
        \/ None' /\ \E says \in AllVerdicts : BothBytes(says)'
    BY <1>2, <1>a
  <2>2. awaits' = "first" /\ processed' = <<>> /\ answers' = <<>>
    BY <1>1
  <2> QED
    BY <2>1, <2>2 DEF FirstPhase
<1>6. requests' = requests /\ txQueue' = txQueue => Unsent
  BY DEF Both, One, None, Holds
<1> HIDE DEF Same, Unsent
<1>7. CASE CTReQLAsyncHandshake
  <2> USE DEF serverVars, rxVars
  <2>1. Started' /\ UNCHANGED <<txQueue, tx, serverVars, rxPipe, rxVars>>
    BY <1>1, <1>7, OnlyCounts
  <2>2. Travels("first")'
    BY <1>1, <2>1 DEF Travels
  <2>3. Same /\ requests' = requests /\ txQueue' = txQueue
    BY <2>1 DEF Same
  <2> QED
    BY <1>5, <1>6, <2>1, <2>2, <2>3
<1>8. CASE TxSend
  <2> USE DEF rxVars
  <2>1. /\ tx = <<>> /\ txQueue # <<>>
        /\ tx' = <<Head(txQueue)>> /\ txQueue' = Tail(txQueue)
        /\ requests' = Append(requests, Head(txQueue))
        /\ UNCHANGED <<cxpc, firstLen, net, sock, rxPipe, rxVars>>
    BY <1>8 DEF TxSend
  <2>2. rxpc = "top" /\ rxPipe = <<>>
    BY <1>1, <2>1 DEF Travels
  <2>3. /\ Append(<<>>, "magic") = <<"magic">> /\ Append(<<>>, "first") = <<"first">>
        /\ Append(<<"magic">>, "first") = <<"magic", "first">>
        /\ Head(<<"first">>) = "first" /\ Tail(<<"first">>) = <<>>
        /\ Head(<<"magic", "first">>) = "magic" /\ Tail(<<"magic", "first">>) = <<"first">>
        /\ <<"first">> # <<>>
    BY MessageQueues, MessageNames
  <2>4. Both => Both'
    BY <2>1, <2>3 DEF Both, Holds
  <2>5. One("first") => One("first")'
    BY <2>1, <2>3 DEF One, Holds
  <2>6. ~None
    BY <2>1 DEF None, Holds
  <2>7. Travels("first")'
    <3>1. txQueue \in {<<"magic", "first">>, <<"first">>}
      BY <1>2, <2>1 DEF Both, One, None, Holds
    <3>2. CASE txQueue = <<"magic", "first">>
      <4>1. txQueue' # <<>> /\ tx' = <<"magic">>
        BY <2>1, <2>3, <3>2
      <4> QED
        BY <1>3, <2>1, <2>2, <4>1 DEF Travels
    <3>3. CASE txQueue = <<"first">>
      <4>1. txQueue' = <<>> /\ tx' = <<"first">>
        BY <2>1, <2>3, <3>3
      <4> QED
        BY <1>3, <2>1, <2>2, <4>1 DEF Travels
    <3> QED
      BY <3>1, <3>2, <3>3
  <2>8. Started'
    BY <1>1, <2>1 DEF Started
  <2>9. Same /\ Unsent
    BY <2>1, <2>4, <2>5, <2>6 DEF Same, Unsent
  <2> QED
    BY <1>5, <2>7, <2>8, <2>9
<1>9. CASE CTCursorRecvOnQueue
  <2> USE DEF serverVars, rxVars
  <2>1. /\ tx # <<>> /\ tx' = <<>>
        /\ rxPipe' = IF tx[1] = "magic" THEN rxPipe ELSE rxPipe \o tx
        /\ UNCHANGED <<cxpc, txQueue, serverVars, rxVars>>
    BY <1>9 DEF CTCursorRecvOnQueue
  <2>4. Travels("first")'
    <3>1. CASE txQueue # <<>>
      <4>1. tx[1] = "magic" /\ rxPipe = <<>> /\ rxpc = "top"
        BY <1>1, <2>1, <3>1 DEF Travels
      <4> QED
        BY <1>3, <2>1, <3>1, <4>1 DEF Travels
    <3>2. CASE txQueue = <<>>
      <4>1. tx = <<"first">> /\ rxPipe = <<>> /\ rxpc = "top"
        BY <1>1, <2>1, <3>2 DEF Travels
      <4>2. tx[1] = "first"
        BY <4>1
      <4>3. rxPipe' = <<"first">>
        BY <2>1, <4>1, <4>2, MessageQueues, MessageNames
      <4> QED
        BY <1>3, <2>1, <3>2, <4>1, <4>3 DEF Travels
    <3> QED
      BY <3>1, <3>2
  <2>5. Started'
    BY <1>1, <2>1 DEF Started
  <2>6. Same /\ requests' = requests /\ txQueue' = txQueue
    BY <2>1 DEF Same
  <2> QED
    BY <1>5, <1>6, <2>4, <2>5, <2>6
<1>10. CASE RxTake
  <2> USE DEF clientVars, serverVars
  <2>1. /\ rxpc = "top" /\ rxPipe # <<>> /\ rxPipe' = Tail(rxPipe) /\ rxpc' = "taken"
        /\ UNCHANGED <<clientVars, serverVars, waiting, awaits, headerFound, data,
                       responseCount, processed, answers>>
    BY <1>3, <1>10 DEF RxTake
  <2>2. rxPipe' = <<>>
    BY <1>3, <2>1, MessageQueues, MessageNames
  <2>3. txQueue = <<>> /\ tx = <<>>
    BY <1>1, <2>1 DEF Travels
  <2>4. Travels("first")'
    BY <1>3, <2>1, <2>2, <2>3 DEF Travels
  <2>5. Started'
    BY <1>1, <2>1 DEF Started
  <2>6. Same /\ requests' = requests /\ txQueue' = txQueue
    BY <2>1 DEF Same
  <2> QED
    BY <1>5, <1>6, <2>4, <2>5, <2>6
<1> QED
  BY <1>7, <1>8, <1>9, <1>10 DEF TxThread

\* The server answers: the first message's answer follows the magic number's, or a
\* refused magic number stays alone.
LEMMA FirstPhaseAnswer ==
  ASSUME TypeOK, FirstPhase, Next, ServerAnswers
  PROVE  FirstPhase' \/ Doomed'
<1> USE DEF clientVars, rxVars
<1>1. /\ Started /\ Travels("first")
      /\ awaits = "first" /\ processed = <<>> /\ answers = <<>>
  BY DEF FirstPhase
<1>2. PICK says \in AllVerdicts :
        /\ net' = Cat(net, Reply(Head(requests), says))
        /\ requests' = IF says = "refused" THEN <<>> ELSE Tail(requests)
        /\ requests # <<>> /\ UNCHANGED <<clientVars, sock, rxPipe, rxVars>>
  BY Answers
<1>3. Started' /\ Travels("first")' /\ awaits' = "first" /\ processed' = <<>> /\ answers' = <<>>
  BY <1>1, <1>2 DEF Travels, Started
<1>4. \A m, v : Reply(m, v)' = Reply(m, v)
  BY RepliesKept
<1>5. Reply("magic", says) \in ByteSeq /\ Reply("first", says) \in ByteSeq
      /\ Reply("magic", "accepted") \in ByteSeq
  BY ReplyProperties, MessageNames
<1>6. txQueue' = txQueue /\ sock' = sock
  BY <1>2
<1>7. /\ Head(<<"first">>) = "first" /\ Tail(<<"first">>) = <<>>
      /\ Head(<<"magic">>) = "magic" /\ Tail(<<"magic">>) = <<>>
      /\ Head(<<"magic", "first">>) = "magic" /\ Tail(<<"magic", "first">>) = <<"first">>
  BY MessageQueues, MessageNames
<1>8. CASE Both /\ NoBytes
  <2>1. requests \in {<<"magic">>, <<"magic", "first">>}
    BY <1>2, <1>8 DEF Both, Holds
  <2>2. Head(requests) = "magic"
    BY <1>7, <2>1
  <2>3. sock' = <<>> /\ net' = Reply("magic", says)
    <3>1. net = <<>> /\ sock = <<>>
      BY <1>8 DEF NoBytes, Unread
    <3>2. net' = Cat(<<>>, Reply("magic", says))
      BY <1>2, <2>2, <3>1
    <3> QED
      BY <1>5, <1>6, <3>1, <3>2, CatEmpty
  <2>4. CASE says = "accepted"
    <3>1. requests' = Tail(requests)
      BY <1>2, <2>4
    <3>2. One("first")'
      BY <1>2, <1>6, <1>7, <1>8, <3>1 DEF Both, One, Holds
    <3>3. MagicBytes'
      BY <1>4, <2>3, <2>4 DEF MagicBytes, Unread
    <3> QED
      BY <1>3, <3>2, <3>3 DEF FirstPhase
  <2>5. CASE says # "accepted"
    <3>1. RefusedByte(net') /\ sock' = <<>>
      BY <2>3, <2>5, Refused, MessageNames
    <3>2. cxpc' # "connected" /\ rxpc' \in {"top", "taken"} /\ ~headerFound'
      BY <1>3 DEF Started, Travels
    <3> QED
      BY <1>3, <3>1, <3>2 DEF Doomed
  <2> QED
    BY <2>4, <2>5
<1>9. CASE One("first") /\ MagicBytes
  <2>1. requests = <<"first">> /\ txQueue = <<>>
    BY <1>2, <1>9 DEF One, Holds
  <2>2. None' /\ net' = Cat(net, Reply("first", says))
    BY <1>2, <1>6, <1>7, <2>1 DEF None, Holds
  <2>3. BothBytes(says)'
    <3> DEFINE M == Reply("magic", "accepted")
               F == Reply("first", says)
    <3>1. M' = M /\ F' = F
      BY <1>4
    <3>2. \/ sock = <<>> /\ net = M
          \/ sock = M /\ net = <<>>
      BY <1>9 DEF MagicBytes, Unread
    <3>3. \/ sock' = <<>> /\ net' = Cat(M, F)
          \/ sock' = M /\ net' = F
      BY <1>5, <1>6, <2>2, <3>2, CatEmpty
    <3> QED
      BY <3>1, <3>3 DEF BothBytes, Unread, Cat
  <2> QED
    BY <1>3, <2>2, <2>3 DEF FirstPhase
<1> QED
  BY <1>2, <1>8, <1>9 DEF FirstPhase, None, Holds

\* The network delivers the two answers alone or together.
LEMMA FirstPhaseDeliver ==
  ASSUME TypeOK, Whole, FirstPhase, Next, Deliver
  PROVE  FirstPhase'
<1> USE DEF clientVars, rxVars
<1>1. /\ Started /\ Travels("first")
      /\ awaits = "first" /\ processed = <<>> /\ answers = <<>>
  BY DEF FirstPhase
<1>2. UNCHANGED <<clientVars, requests, firstLen, rxPipe, rxVars>> /\ net # <<>>
  BY DEF Deliver
<1>3. Started' /\ Travels("first")' /\ awaits' = "first" /\ processed' = <<>> /\ answers' = <<>>
  BY <1>1, <1>2 DEF Travels, Started
<1>4. \A m, v : Reply(m, v)' = Reply(m, v)
  BY RepliesKept
<1>5. (One("first") => One("first")') /\ (None => None')
  BY <1>2 DEF One, None, Holds
<1>6. ~headerFound /\ \A v \in AllVerdicts : \A m \in Messages : Reply(m, v) \in ByteSeq
  BY <1>1, ReplyProperties DEF Travels
<1>7. CASE One("first") /\ MagicBytes
  <2> DEFINE M == Reply("magic", "accepted")
  <2>1. sock = <<>> /\ net = M /\ M \in ByteSeq
    BY <1>2, <1>6, <1>7, MessageNames DEF MagicBytes, Unread
  <2>2. sock' = Cat(sock, net) /\ net' = <<>>
    BY <2>1, DeliverOne, MessageNames
  <2>3. sock' = M /\ M' = M
    BY <1>4, <2>1, <2>2, CatEmpty
  <2>4. MagicBytes'
    BY <2>2, <2>3 DEF MagicBytes, Unread
  <2> QED
    BY <1>3, <1>5, <1>7, <2>4 DEF FirstPhase
<1>8. ASSUME NEW says \in AllVerdicts, None, BothBytes(says)
      PROVE  FirstPhase'
  <2> DEFINE M == Reply("magic", "accepted")
             F == Reply("first", says)
  <2>1. M \in ByteSeq /\ F \in ByteSeq /\ Cat(M, F) \in ByteSeq
    BY <1>6, CatProperties, MessageNames
  <2>2. \/ sock = <<>> /\ net = Cat(M, F)
        \/ sock = M /\ net = F
    BY <1>2, <1>8 DEF BothBytes, Unread, Cat
  <2>3. \/ sock' = M /\ net' = F
        \/ sock' = Cat(M, F) /\ net' = <<>>
    <3>1. CASE sock = <<>> /\ net = Cat(M, F)
      <4>1. \/ sock' = Cat(sock, M) /\ net' = F
            \/ sock' = Cat(sock, net) /\ net' = <<>>
        BY <1>6, <3>1, DeliverBoth
      <4> QED
        BY <2>1, <3>1, <4>1, CatEmpty
    <3>2. CASE sock = M /\ net = F
      <4>1. sock' = Cat(sock, net) /\ net' = <<>>
        BY <1>6, <3>2, DeliverOne, MessageNames
      <4> QED
        BY <3>2, <4>1
    <3> QED
      BY <2>2, <3>1, <3>2
  <2>4. M' = M /\ F' = F
    BY <1>4
  <2>5. BothBytes(says)'
    BY <2>3, <2>4 DEF BothBytes, Unread, Cat
  <2> QED
    BY <1>3, <1>5, <1>8, <2>5 DEF FirstPhase
<1> QED
  BY <1>2, <1>7, <1>8 DEF FirstPhase, NoBytes, Unread

\* The rx thread reads the magic response, and what is behind it.
LEMMA FirstPhaseRecv ==
  ASSUME TypeOK, FirstLens \subseteq {GuessLen}, FirstPhase, Next, RxRecvFirst
  PROVE  HeaderPhase'
<1> USE DEF clientVars
<1>1. /\ Started /\ Travels("first") /\ rxpc = "taken" /\ sock # <<>>
      /\ awaits = "first" /\ processed = <<>> /\ answers = <<>>
      /\ sock' = <<>> /\ responseCount' = responseCount + 1
      /\ UNCHANGED <<clientVars, requests, firstLen, net, rxPipe, waiting, awaits,
                     processed, answers>>
  BY DEF FirstPhase, RxRecvFirst
<1>2. MagicAccepted(sock) =>
        /\ headerFound' = TRUE
        /\ contentLength' = IF BodyLength(sock) = 0 THEN GuessLen ELSE BodyLength(sock)
        /\ data' = Body(sock)
        /\ rxpc' = "received"
  BY DEF RxRecvFirst
<1>3. \A m, v : Reply(m, v)' = Reply(m, v)
  BY RepliesKept
<1>4. /\ txQueue = <<>> /\ tx = <<>> /\ rxPipe = <<>> /\ ~waiting /\ responseCount = 0
  BY <1>1 DEF Travels
<1>5. firstLen = GuessLen
  BY DEF TypeOK
<1> DEFINE M == Reply("magic", "accepted")
<1>6. ASSUME MagicAccepted(sock), BodyLength(sock) \in {0, firstLen},
             \/ requests = <<"first">> /\ net = <<>> /\ Body(sock) = <<>>
             \/ /\ requests = <<>>
                /\ \E says \in AllVerdicts : Cat(Body(sock), Cat(<<>>, net)) = Reply("first", says)
      PROVE  HeaderPhase'
  <2>1. Started' /\ txQueue' = <<>> /\ RxHolds' /\ responseCount' = 1
        /\ awaits' = "first" /\ processed' = <<>> /\ answers' = <<>>
    BY <1>1, <1>4 DEF Started, RxHolds
  <2>2. rxpc' = "received" /\ ~waiting' /\ headerFound' /\ data' = Body(sock)
    BY <1>1, <1>2, <1>4, <1>6
  <2>3. contentLength' = firstLen'
    BY <1>1, <1>2, <1>5, <1>6
  <2>4. \/ requests' = <<"first">> /\ NoBytes' /\ data' = <<>>
        \/ /\ requests' = <<>>
           /\ \E says \in AllVerdicts : data' \o (sock' \o net') = Reply("first", says)'
    BY <1>1, <1>3, <1>6, <2>2 DEF NoBytes, Unread, Cat
  <2>5. rxpc' # "aborted" /\ waiting' = (rxpc' = "top")
    <3>1. waiting \in BOOLEAN /\ waiting' = waiting
      BY <1>1 DEF TypeOK
    <3> QED
      BY <2>2, <3>1
  <2> QED
    BY <2>1, <2>2, <2>3, <2>4, <2>5 DEF HeaderPhase
<1>7. CASE One("first") /\ MagicBytes
  <2>1. requests = <<"first">> /\ sock = M /\ net = <<>>
    BY <1>1, <1>4, <1>7, MessageQueues, MessageNames DEF One, Holds, MagicBytes, Unread
  <2>2. MagicAccepted(sock) /\ BodyLength(sock) = 0 /\ Body(sock) = <<>>
    BY <2>1, MagicAlone
  <2> QED
    BY <1>6, <2>1, <2>2
<1>8. ASSUME NEW says \in AllVerdicts, None, BothBytes(says)
      PROVE  HeaderPhase'
  <2> DEFINE F == Reply("first", says)
  <2>1. requests = <<>>
    BY <1>8 DEF None, Holds
  <2>2. F \in ByteSeq /\ <<>> \in ByteSeq /\ Cat(<<>>, F) = F /\ Cat(F, <<>>) = F
        /\ Cat(<<>>, <<>>) = <<>>
    BY ReplyProperties, CatEmpty, MessageNames
  <2>3. \/ sock = M /\ net = F
        \/ sock = Cat(M, F) /\ net = <<>>
    BY <1>1, <1>8 DEF BothBytes, Unread, Cat
  <2>4. CASE sock = M /\ net = F
    <3>1. MagicAccepted(sock) /\ BodyLength(sock) = 0 /\ Body(sock) = <<>>
      BY <2>4, MagicAlone
    <3> QED
      BY <1>6, <2>1, <2>2, <2>4, <3>1
  <2>5. CASE sock = Cat(M, F) /\ net = <<>>
    <3>1. MagicAccepted(sock) /\ BodyLength(sock) = firstLen /\ Body(sock) = F
      BY <2>5, MagicAndFirst
    <3> QED
      BY <1>6, <2>1, <2>2, <2>5, <3>1
  <2> QED
    BY <2>3, <2>4, <2>5
<1> QED
  BY <1>1, <1>7, <1>8 DEF FirstPhase, NoBytes, Unread

LEMMA FirstPhaseStep ==
  ASSUME TypeOK, WholeMessages, FirstPhase, Next
  PROVE  FirstPhase' \/ HeaderPhase' \/ Doomed'
<1>1. rxpc \in {"top", "taken"} /\ awaits = "first" /\ ~headerFound
  BY DEF FirstPhase, Travels
<1>2. RxThread => RxTake \/ RxRecvFirst
  BY <1>1 DEF RxThread, RxTake, RxRecvFirst, RxRecvMore, RxRecvFinal, CTCursorAsyncRecv,
              FirstMessageRefused, FirstMessageAccepted, FinalMessage
<1> QED
  BY <1>2, FirstPhaseSend, FirstPhaseAnswer, FirstPhaseDeliver, FirstPhaseRecv
     DEF Next, WholeMessages

\* The server first message arrives in any pieces, behind the magic response.
LEMMA HeaderPhaseServer ==
  ASSUME TypeOK, HeaderPhase, Next, ServerAnswers \/ Deliver
  PROVE  HeaderPhase'
<1> USE DEF clientVars, rxVars
<1>1. /\ Started /\ txQueue = <<>> /\ RxHolds /\ responseCount = 1
      /\ rxpc # "aborted" /\ waiting = (rxpc = "top")
      /\ headerFound /\ contentLength = firstLen
      /\ awaits = "first" /\ processed = <<>> /\ answers = <<>>
  BY DEF HeaderPhase
<1>2. \A m, v : Reply(m, v)' = Reply(m, v)
  BY RepliesKept
<1>3. UNCHANGED <<clientVars, firstLen, rxPipe, rxVars>>
  BY DEF ServerAnswers, Deliver
<1>4. ASSUME requests' = <<>>, NEW says \in AllVerdicts,
             Cat(data, Cat(sock', net')) = Reply("first", says)
      PROVE  HeaderPhase'
  BY <1>1, <1>2, <1>3, <1>4 DEF HeaderPhase, Started, RxHolds, Cat
<1>5. CASE ServerAnswers
  <2>1. PICK says \in AllVerdicts :
          /\ net' = Cat(net, Reply(Head(requests), says))
          /\ requests' = IF says = "refused" THEN <<>> ELSE Tail(requests)
          /\ requests # <<>> /\ sock' = sock
    BY <1>5, Answers
  <2>2. requests = <<"first">> /\ sock = <<>> /\ net = <<>> /\ data = <<>>
    BY <2>1 DEF HeaderPhase, NoBytes, Unread
  <2>3. Head(requests) = "first" /\ Tail(requests) = <<>>
    BY <2>2, MessageQueues, MessageNames
  <2> DEFINE F == Reply("first", says)
  <2>4. F \in ByteSeq /\ Cat(<<>>, F) = F
    BY ReplyProperties, MessageNames, CatEmpty
  <2>5. net' = F /\ requests' = <<>>
    BY <2>1, <2>2, <2>3, <2>4
  <2>6. Cat(data, Cat(sock', net')) = F
    BY <2>1, <2>2, <2>4, <2>5
  <2> QED
    BY <1>4, <2>5, <2>6
<1>6. CASE Deliver
  <2>1. PICK n \in 1 .. Len(net) :
          /\ sock' = Cat(sock, SubSeq(net, 1, n))
          /\ net' = SubSeq(net, n + 1, Len(net)) /\ requests' = requests
    BY <1>6 DEF Deliver, Cat
  <2>2. net # <<>>
    BY <2>1
  <2>3. PICK says \in AllVerdicts : Cat(data, Cat(sock, net)) = Reply("first", says)
    BY <2>2 DEF HeaderPhase, NoBytes, Unread, Cat
  <2>4. requests' = <<>>
    BY <2>1, <2>2 DEF HeaderPhase, NoBytes, Unread
  <2> DEFINE x == SubSeq(net, 1, n)
             y == SubSeq(net, n + 1, Len(net))
  <2>5. sock \in ByteSeq /\ net \in ByteSeq /\ n \in 0 .. Len(net)
    BY DEF TypeOK, ByteSeq
  <2>6. x \in ByteSeq /\ y \in ByteSeq /\ Cat(x, y) = net
    BY <2>5, CatCut
  <2>7. sock' = Cat(sock, x) /\ net' = y
    BY <2>1
  <2> HIDE DEF x, y
  <2>8. Cat(sock', net') = Cat(sock, net)
    BY <2>5, <2>6, <2>7, CatAssociative
  <2> QED
    BY <1>4, <2>3, <2>4, <2>8
<1> QED
  BY <1>5, <1>6

\* The rx thread reads on until it has the message to its end.
LEMMA HeaderPhaseRecv ==
  ASSUME TypeOK, HeaderPhase, Next,
         CTReQLAsyncHandshake \/ RxTake \/ RxRecvMore \/ CTCursorAsyncRecv
  PROVE  HeaderPhase'
<1>1. /\ Started /\ txQueue = <<>> /\ tx = <<>> /\ rxPipe = <<>> /\ responseCount = 1
      /\ rxpc # "aborted" /\ waiting = (rxpc = "top")
      /\ headerFound /\ contentLength = firstLen
      /\ awaits = "first" /\ processed = <<>> /\ answers = <<>>
  BY DEF HeaderPhase, RxHolds
<1>2. \/ requests = <<"first">> /\ NoBytes /\ data = <<>>
      \/ requests = <<>> /\ \E says \in AllVerdicts : Cat(data, Cat(sock, net)) = Reply("first", says)
  BY DEF HeaderPhase, Cat
<1>3. \A m, v : Reply(m, v)' = Reply(m, v)
  BY RepliesKept
<1> DEFINE Kept == /\ Started' /\ txQueue' = <<>> /\ tx' = <<>> /\ rxPipe' = <<>>
                   /\ responseCount' = 1 /\ headerFound' /\ contentLength' = firstLen'
                   /\ awaits' = "first" /\ processed' = <<>> /\ answers' = <<>>
                   /\ rxpc' # "aborted" /\ waiting' = (rxpc' = "top")
                   /\ requests' = requests
           Stream == Cat(data, Cat(sock, net))
<1>4. Kept /\ ((NoBytes /\ data = <<>>) => (NoBytes' /\ data' = <<>>)) /\ Stream' = Stream
      => HeaderPhase'
  BY <1>2, <1>3 DEF HeaderPhase, RxHolds, Cat
<1>5. CASE CTReQLAsyncHandshake
  <2>1. Started' /\ UNCHANGED <<txQueue, tx, serverVars, rxPipe, rxVars>>
    BY <1>1, <1>5, OnlyCounts
  <2>2. Kept
    BY <1>1, <2>1 DEF serverVars, rxVars
  <2>3. sock' = sock /\ net' = net /\ data' = data
    BY <2>1 DEF serverVars, rxVars
  <2> QED
    BY <1>4, <2>2, <2>3 DEF NoBytes, Unread, Cat
<1>6. CASE RxTake
  <2>1. /\ waiting' = FALSE /\ rxpc' = "taken" /\ rxPipe' = rxPipe
        /\ UNCHANGED <<clientVars, serverVars, awaits, headerFound, contentLength, data,
                       responseCount, processed, answers>>
    BY <1>1, <1>6 DEF RxTake
  <2>2. Kept
    BY <1>1, <2>1 DEF clientVars, serverVars, Started
  <2>3. sock' = sock /\ net' = net /\ data' = data
    BY <2>1 DEF serverVars
  <2> QED
    BY <1>4, <2>2, <2>3 DEF NoBytes, Unread, Cat
<1>7. CASE RxRecvMore
  <2>1. /\ rxpc = "taken" /\ rxpc' = "received" /\ sock # <<>> /\ sock' = <<>>
        /\ data' = Cat(data, sock)
        /\ UNCHANGED <<clientVars, requests, firstLen, net, rxPipe, waiting, awaits,
                       headerFound, contentLength, responseCount, processed, answers>>
    BY <1>7 DEF RxRecvMore, Cat
  <2>2. Kept
    BY <1>1, <2>1 DEF clientVars, Started
  <2>3. ~NoBytes
    BY <2>1 DEF NoBytes, Unread
  <2>4. Stream' = Stream
    <3>1. data \in ByteSeq /\ sock \in ByteSeq /\ net \in ByteSeq /\ net' = net
      BY <2>1 DEF TypeOK, ByteSeq
    <3>2. Cat(<<>>, net) = net
      BY <3>1, CatEmpty
    <3>3. Cat(Cat(data, sock), net) = Cat(data, Cat(sock, net))
      BY <3>1, CatAssociative
    <3>4. Cat(data', Cat(sock', net')) = Cat(data, Cat(sock, net))
      BY <2>1, <3>1, <3>2, <3>3
    <3>5. Cat(data', Cat(sock', net')) = Cat(data, Cat(sock, net))'
      BY DEF Cat
    <3> QED
      BY <3>4, <3>5
  <2> QED
    BY <1>4, <2>2, <2>3, <2>4
<1>8. CASE CTCursorAsyncRecv
  <2>1. /\ waiting' = TRUE /\ rxpc' = "top"
        /\ UNCHANGED <<clientVars, serverVars, rxPipe, awaits, headerFound, contentLength,
                       data, responseCount, processed, answers>>
    BY <1>8 DEF CTCursorAsyncRecv
  <2>2. Kept
    BY <1>1, <2>1 DEF clientVars, serverVars, Started
  <2>3. sock' = sock /\ net' = net /\ data' = data
    BY <2>1 DEF serverVars
  <2> QED
    BY <1>4, <2>2, <2>3 DEF NoBytes, Unread, Cat
<1> QED
  BY <1>5, <1>6, <1>7, <1>8

\* A complete buffer is the server first message.
LEMMA HeaderComplete ==
  ASSUME TypeOK, HeaderPhase, Complete
  PROVE  /\ requests = <<>> /\ NoBytes
         /\ \E says \in AllVerdicts : /\ data = Reply("first", says)
                                      /\ AcceptsFirst(data) = (says = "accepted")
<1>1. /\ contentLength = firstLen /\ contentLength <= Len(data) /\ contentLength > 0
      /\ data \in ByteSeq /\ sock \in ByteSeq /\ net \in ByteSeq
  BY LengthsAssumption DEF HeaderPhase, Complete, TypeOK, ByteSeq
<1>2. Len(data) \in Nat /\ Len(sock) \in Nat /\ Len(net) \in Nat
  BY <1>1, ByteSeqLength
<1>3. data # <<>>
  <2>1. contentLength \in Nat /\ Len(data) # 0
    BY <1>1, <1>2 DEF TypeOK
  <2> QED
    BY <1>1, <2>1, ByteSeqLength
<1>4. requests = <<>>
  BY <1>3 DEF HeaderPhase
<1>5. PICK says \in AllVerdicts : Cat(data, Cat(sock, net)) = Reply("first", says)
  BY <1>3 DEF HeaderPhase, Cat
<1> DEFINE F == Reply("first", says)
<1>6. Len(F) = firstLen /\ firstLen \in Nat \ {0}
      /\ F[firstLen] = [msg |-> "first", pos |-> firstLen, says |-> says]
  <2>1. LengthOf("first") = firstLen /\ LengthOf("first") \in Nat \ {0}
    BY ReplyProperties, MessageNames, Lengths
  <2>2. firstLen \in 1 .. LengthOf("first")
    BY <2>1
  <2> QED
    BY <2>1, <2>2, ReplyProperties, MessageNames
<1>7. Cat(sock, net) \in ByteSeq /\ Len(Cat(sock, net)) = Len(sock) + Len(net)
  BY <1>1, CatProperties
<1>8. Len(F) = Len(data) + (Len(sock) + Len(net))
  <2>1. Len(Cat(data, Cat(sock, net))) = Len(data) + Len(Cat(sock, net))
    BY <1>1, <1>7, CatProperties
  <2> QED
    BY <1>5, <1>7, <2>1
<1>9. Len(sock) = 0 /\ Len(net) = 0
  BY <1>1, <1>2, <1>6, <1>8
<1>10. sock = <<>> /\ net = <<>>
  BY <1>1, <1>9, ByteSeqLength
<1>11. data = F
  BY <1>1, <1>5, <1>10, CatEmpty
<1>12. AcceptsFirst(data) = (says = "accepted")
  <2> DEFINE yes == [msg |-> "first", pos |-> firstLen, says |-> "accepted"]
  <2>1. AcceptsFirst(data) = (F[firstLen] = yes)
    BY <1>6, <1>11 DEF AcceptsFirst
  <2>2. CASE says = "accepted"
    BY <1>6, <2>1, <2>2
  <2>3. CASE says # "accepted"
    <3>1. F[firstLen].says = says /\ yes.says = "accepted"
      BY <1>6
    <3>2. F[firstLen] # yes
      BY <2>3, <3>1
    <3> QED
      BY <2>1, <2>3, <3>2
  <2> QED
    BY <2>2, <2>3
<1> QED
  BY <1>4, <1>10, <1>11, <1>12 DEF NoBytes, Unread

\* The message is given to the function that processes it.
LEMMA HeaderPhaseProcess ==
  ASSUME TypeOK, HeaderPhase, Next, FirstMessageRefused \/ FirstMessageAccepted
  PROVE  FirstRefused' \/ FinalPhase'
<1>1. /\ Started /\ txQueue = <<>> /\ tx = <<>> /\ rxPipe = <<>> /\ responseCount = 1
      /\ ~waiting /\ processed = <<>> /\ answers = <<>>
  BY DEF HeaderPhase, RxHolds, FirstMessageRefused, FirstMessageAccepted
<1>2. requests = <<>> /\ sock = <<>> /\ net = <<>>
  BY HeaderComplete DEF NoBytes, Unread, FirstMessageRefused, FirstMessageAccepted
<1>3. PICK says \in AllVerdicts : /\ data = Reply("first", says)
                                 /\ AcceptsFirst(data) = (says = "accepted")
  BY HeaderComplete DEF FirstMessageRefused, FirstMessageAccepted
<1>4. \A m, v : Reply(m, v)' = Reply(m, v)
  BY RepliesKept
<1>5. processed' = <<Reply("first", says)>>
  <2>1. Reply("first", says) \in ByteSeq
    BY ReplyProperties, MessageNames
  <2>2. Append(<<>>, Reply("first", says)) = <<Reply("first", says)>>
    BY <2>1, ShortQueues
  <2> QED
    BY <1>1, <1>3, <2>2 DEF FirstMessageRefused, FirstMessageAccepted
<1>6. CASE FirstMessageRefused
  <2>1. says # "accepted"
    BY <1>3, <1>6 DEF FirstMessageRefused
  <2>2. /\ rxpc' = "top" /\ responseCount' = responseCount - 1
        /\ answers' = Append(answers, FALSE)
        /\ UNCHANGED <<clientVars, serverVars, rxPipe, waiting>>
    BY <1>6 DEF FirstMessageRefused
  <2>3. responseCount' = 0
    BY <1>1, <2>2
  <2>4. answers' = <<FALSE>>
    <3>1. Append(<<>>, FALSE) = <<FALSE>>
      OBVIOUS
    <3> QED
      BY <1>1, <2>2, <3>1
  <2>5. processed' = <<Reply("first", says)'>>
    BY <1>4, <1>5
  <2>6. Started' /\ None' /\ NoBytes' /\ RxIdle'
    BY <1>1, <1>2, <2>2, <2>3
       DEF Started, None, Holds, NoBytes, Unread, RxIdle, RxHolds, clientVars, serverVars
  <2> QED
    BY <2>1, <2>4, <2>5, <2>6 DEF FirstRefused
<1>7. CASE FirstMessageAccepted
  <2>1. says = "accepted"
    BY <1>3, <1>7 DEF FirstMessageAccepted
  <2>2. /\ rxpc' = "top" /\ responseCount' = responseCount - 1
        /\ awaits' = "final" /\ headerFound' = FALSE /\ data' = <<>>
        /\ txQueue' = Append(txQueue, "final")
        /\ UNCHANGED <<cxpc, tx, serverVars, rxPipe, waiting, answers>>
    BY <1>7 DEF FirstMessageAccepted
  <2>3. responseCount' = 0
    BY <1>1, <2>2
  <2>4. txQueue' = <<"final">> /\ txQueue' # <<>>
    BY <1>1, <2>2, MessageQueues, MessageNames
  <2>5. processed' = <<Reply("first", "accepted")'>>
    BY <1>4, <1>5, <2>1
  <2>6. Started' /\ One("final")' /\ NoBytes'
    BY <1>1, <1>2, <2>2, <2>4 DEF Started, One, Holds, NoBytes, Unread, serverVars
  <2>7. Travels("final")'
    BY <1>1, <2>2, <2>3, <2>4 DEF Travels
  <2> QED
    BY <1>1, <2>2, <2>5, <2>6, <2>7 DEF FinalPhase
<1> QED
  BY <1>6, <1>7

LEMMA HeaderPhaseStep ==
  ASSUME TypeOK, HeaderPhase, Next
  PROVE  HeaderPhase' \/ FirstRefused' \/ FinalPhase'
<1>1. /\ txQueue = <<>> /\ tx = <<>> /\ awaits = "first" /\ headerFound
  BY DEF HeaderPhase, RxHolds
<1>2. ~TxThread
  BY <1>1 DEF TxThread, TxSend, CTCursorRecvOnQueue
<1>3. ~RxRecvFirst /\ ~RxRecvFinal /\ ~FinalMessage
  BY <1>1 DEF RxRecvFirst, RxRecvFinal, FinalMessage
<1> QED
  BY <1>2, <1>3, HeaderPhaseServer, HeaderPhaseRecv, HeaderPhaseProcess DEF Next, RxThread

\* The client final message and its answer.
LEMMA FinalPhaseSend ==
  ASSUME TypeOK, FinalPhase, Next, CTReQLAsyncHandshake \/ TxThread \/ RxTake
  PROVE  FinalPhase'
<1>1. /\ Started /\ Travels("final")
      /\ awaits = "final" /\ processed = <<Reply("first", "accepted")>> /\ answers = <<>>
  BY DEF FinalPhase
<1>2. (One("final") /\ NoBytes) \/ \E says \in AllVerdicts : None /\ FinalBytes(says)
  BY DEF FinalPhase
<1>3. /\ ~waiting /\ responseCount = 0 /\ data = <<>> /\ ~headerFound
      /\ rxpc \in {"top", "taken"} /\ rxPipe \in {<<>>, <<"final">>}
      /\ tx \in {<<>>, <<"magic">>, <<"final">>}
  BY <1>1 DEF Travels
<1>4. \A m, says : Reply(m, says)' = Reply(m, says)
  BY RepliesKept
<1>5. sock' = sock /\ net' = net =>
        /\ NoBytes => NoBytes'
        /\ \A says \in AllVerdicts : FinalBytes(says) => FinalBytes(says)'
  BY <1>4 DEF NoBytes, FinalBytes, Unread
<1> DEFINE Same == /\ sock' = sock /\ net' = net
                   /\ awaits' = awaits /\ processed' = processed /\ answers' = answers
           Unsent == (One("final") => One("final")') /\ (None => None')
<1>6. Started' /\ Travels("final")' /\ Same /\ Unsent => FinalPhase'
  <2> SUFFICES ASSUME Started', Travels("final")', Same, Unsent
               PROVE  FinalPhase'
    OBVIOUS
  <2>1. \/ One("final")' /\ NoBytes'
        \/ \E says \in AllVerdicts : None' /\ FinalBytes(says)'
    BY <1>2, <1>5
  <2>2. awaits' = "final" /\ processed' = <<Reply("first", "accepted")'>> /\ answers' = <<>>
    BY <1>1, <1>4
  <2> QED
    BY <2>1, <2>2 DEF FinalPhase
<1>7. requests' = requests /\ txQueue' = txQueue => Unsent
  BY DEF One, None, Holds
<1> HIDE DEF Same, Unsent
<1>8. CASE CTReQLAsyncHandshake
  <2> USE DEF serverVars, rxVars
  <2>1. Started' /\ UNCHANGED <<txQueue, tx, serverVars, rxPipe, rxVars>>
    BY <1>1, <1>8, OnlyCounts
  <2>2. Travels("final")'
    BY <1>1, <2>1 DEF Travels
  <2>3. Same /\ requests' = requests /\ txQueue' = txQueue
    BY <2>1 DEF Same
  <2> QED
    BY <1>6, <1>7, <2>1, <2>2, <2>3
<1>9. CASE TxSend
  <2> USE DEF rxVars
  <2>1. /\ tx = <<>> /\ txQueue # <<>>
        /\ tx' = <<Head(txQueue)>> /\ txQueue' = Tail(txQueue)
        /\ requests' = Append(requests, Head(txQueue))
        /\ UNCHANGED <<cxpc, firstLen, net, sock, rxPipe, rxVars>>
    BY <1>9 DEF TxSend
  <2>2. rxpc = "top" /\ rxPipe = <<>>
    BY <1>1, <2>1 DEF Travels
  <2>3. /\ Append(<<>>, "final") = <<"final">>
        /\ Head(<<"final">>) = "final" /\ Tail(<<"final">>) = <<>>
    BY MessageQueues, MessageNames
  <2>4. txQueue = <<"final">>
    BY <1>2, <2>1 DEF One, None, Holds
  <2>5. One("final") => One("final")'
    BY <2>1, <2>3, <2>4 DEF One, Holds
  <2>6. ~None
    BY <2>1 DEF None, Holds
  <2>7. txQueue' = <<>> /\ tx' = <<"final">>
    BY <2>1, <2>3, <2>4
  <2>8. Travels("final")' /\ Started'
    BY <1>1, <1>3, <2>1, <2>2, <2>7 DEF Travels, Started
  <2>9. Same /\ Unsent
    BY <2>1, <2>5, <2>6 DEF Same, Unsent
  <2> QED
    BY <1>6, <2>8, <2>9
<1>10. CASE CTCursorRecvOnQueue
  <2> USE DEF serverVars, rxVars
  <2>1. /\ tx # <<>> /\ tx' = <<>>
        /\ rxPipe' = IF tx[1] = "magic" THEN rxPipe ELSE rxPipe \o tx
        /\ UNCHANGED <<cxpc, txQueue, serverVars, rxVars>>
    BY <1>10 DEF CTCursorRecvOnQueue
  <2>2. Travels("final")'
    <3>1. CASE txQueue # <<>>
      <4>1. tx[1] = "magic" /\ rxPipe = <<>> /\ rxpc = "top"
        BY <1>1, <2>1, <3>1 DEF Travels
      <4> QED
        BY <1>3, <2>1, <3>1, <4>1 DEF Travels
    <3>2. CASE txQueue = <<>>
      <4>1. tx = <<"final">> /\ rxPipe = <<>> /\ rxpc = "top"
        BY <1>1, <2>1, <3>2 DEF Travels
      <4>2. tx[1] = "final"
        BY <4>1
      <4>3. rxPipe' = <<"final">>
        BY <2>1, <4>1, <4>2, MessageQueues, MessageNames
      <4> QED
        BY <1>3, <2>1, <3>2, <4>1, <4>3 DEF Travels
    <3> QED
      BY <3>1, <3>2
  <2>3. Started'
    BY <1>1, <2>1 DEF Started
  <2>4. Same /\ requests' = requests /\ txQueue' = txQueue
    BY <2>1 DEF Same
  <2> QED
    BY <1>6, <1>7, <2>2, <2>3, <2>4
<1>11. CASE RxTake
  <2> USE DEF clientVars, serverVars
  <2>1. /\ rxpc = "top" /\ rxPipe # <<>> /\ rxPipe' = Tail(rxPipe) /\ rxpc' = "taken"
        /\ UNCHANGED <<clientVars, serverVars, waiting, awaits, headerFound, data,
                       responseCount, processed, answers>>
    BY <1>3, <1>11 DEF RxTake
  <2>2. rxPipe' = <<>>
    BY <1>3, <2>1, MessageQueues, MessageNames
  <2>3. txQueue = <<>> /\ tx = <<>>
    BY <1>1, <2>1 DEF Travels
  <2>4. Travels("final")'
    BY <1>3, <2>1, <2>2, <2>3 DEF Travels
  <2>5. Started'
    BY <1>1, <2>1 DEF Started
  <2>6. Same /\ requests' = requests /\ txQueue' = txQueue
    BY <2>1 DEF Same
  <2> QED
    BY <1>6, <1>7, <2>4, <2>5, <2>6
<1> QED
  BY <1>8, <1>9, <1>10, <1>11 DEF TxThread

LEMMA FinalPhaseAnswer ==
  ASSUME TypeOK, FinalPhase, Next, ServerAnswers
  PROVE  FinalPhase'
<1> USE DEF clientVars, rxVars
<1>1. /\ Started /\ Travels("final")
      /\ awaits = "final" /\ processed = <<Reply("first", "accepted")>> /\ answers = <<>>
  BY DEF FinalPhase
<1>2. requests # <<>> /\ UNCHANGED <<clientVars, sock, rxPipe, rxVars>>
  BY Answers
<1>3. \A m, v : Reply(m, v)' = Reply(m, v)
  BY RepliesKept
<1>4. requests = <<"final">> /\ txQueue = <<>> /\ sock = <<>> /\ net = <<>>
  BY <1>2 DEF FinalPhase, One, None, Holds, NoBytes, Unread
<1>5. Head(requests) = "final" /\ Tail(requests) = <<>>
  BY <1>4, MessageQueues, MessageNames
<1>6. PICK says \in AllVerdicts :
        /\ net' = Cat(net, Reply(Head(requests), says))
        /\ requests' = IF says = "refused" THEN <<>> ELSE Tail(requests)
  BY Answers
<1>7. net' = Reply("final", says) /\ requests' = <<>>
  <2>1. Reply("final", says) \in ByteSeq
    BY ReplyProperties, MessageNames
  <2>2. Cat(<<>>, Reply("final", says)) = Reply("final", says)
    BY <2>1, CatEmpty
  <2> QED
    BY <1>4, <1>5, <1>6, <2>2
<1>8. None' /\ FinalBytes(says)'
  BY <1>2, <1>3, <1>4, <1>7 DEF None, Holds, FinalBytes, Unread
<1>9. Started' /\ Travels("final")'
  BY <1>1, <1>2 DEF Started, Travels
<1>10. awaits' = "final" /\ processed' = <<Reply("first", "accepted")'>> /\ answers' = <<>>
  BY <1>1, <1>2, <1>3
<1> QED
  BY <1>8, <1>9, <1>10 DEF FinalPhase

LEMMA FinalPhaseDeliver ==
  ASSUME TypeOK, Whole, FinalPhase, Next, Deliver
  PROVE  FinalPhase'
<1> USE DEF clientVars, rxVars
<1>1. /\ Started /\ Travels("final")
      /\ awaits = "final" /\ processed = <<Reply("first", "accepted")>> /\ answers = <<>>
  BY DEF FinalPhase
<1>2. UNCHANGED <<clientVars, requests, firstLen, rxPipe, rxVars>> /\ net # <<>>
  BY DEF Deliver
<1>3. \A m, v : Reply(m, v)' = Reply(m, v)
  BY RepliesKept
<1>4. PICK says \in AllVerdicts : None /\ sock = <<>> /\ net = Reply("final", says)
  BY <1>2 DEF FinalPhase, NoBytes, FinalBytes, Unread
<1>5. sock' = Cat(sock, net) /\ net' = <<>>
  BY <1>4, DeliverOne, MessageNames
<1>6. sock' = Reply("final", says)
  <2>1. Reply("final", says) \in ByteSeq
    BY ReplyProperties, MessageNames
  <2>2. Cat(<<>>, Reply("final", says)) = Reply("final", says)
    BY <2>1, CatEmpty
  <2> QED
    BY <1>4, <1>5, <2>2
<1>7. None' /\ FinalBytes(says)'
  BY <1>2, <1>3, <1>4, <1>5, <1>6 DEF None, Holds, FinalBytes, Unread
<1>8. Started' /\ Travels("final")'
  BY <1>1, <1>2 DEF Started, Travels
<1>9. awaits' = "final" /\ processed' = <<Reply("first", "accepted")'>> /\ answers' = <<>>
  BY <1>1, <1>2, <1>3
<1> QED
  BY <1>7, <1>8, <1>9 DEF FinalPhase

LEMMA FinalPhaseRecv ==
  ASSUME TypeOK, FinalPhase, Next, RxRecvFinal
  PROVE  FinalRead'
<1> USE DEF clientVars
<1>1. /\ Started /\ Travels("final")
      /\ awaits = "final" /\ processed = <<Reply("first", "accepted")>> /\ answers = <<>>
  BY DEF FinalPhase
<1>2. /\ rxpc = "taken" /\ sock # <<>> /\ sock' = <<>>
      /\ responseCount' = responseCount + 1
      /\ data' = sock /\ contentLength' = Len(sock) /\ rxpc' = "received"
      /\ UNCHANGED <<clientVars, requests, firstLen, net, rxPipe, waiting, awaits,
                     processed, answers>>
  BY DEF RxRecvFinal
<1>3. \A m, v : Reply(m, v)' = Reply(m, v)
  BY RepliesKept
<1>4. /\ txQueue = <<>> /\ tx = <<>> /\ rxPipe = <<>> /\ ~waiting /\ responseCount = 0
  BY <1>1, <1>2 DEF Travels
<1>5. PICK says \in AllVerdicts : None /\ net = <<>> /\ sock = Reply("final", says)
  BY <1>2 DEF FinalPhase, NoBytes, FinalBytes, Unread
<1>6. Len(sock) = FinalLen
  BY <1>5, ReplyProperties, Lengths, MessageNames
<1>7. Started' /\ None' /\ NoBytes' /\ RxHolds' /\ responseCount' = 1
  BY <1>1, <1>2, <1>4, <1>5 DEF Started, None, Holds, NoBytes, Unread, RxHolds
<1>8. data' = Reply("final", says)' /\ contentLength' = FinalLen
  BY <1>2, <1>3, <1>5, <1>6
<1>9. awaits' = "final" /\ processed' = <<Reply("first", "accepted")'>> /\ answers' = <<>>
  BY <1>1, <1>2, <1>3
<1> QED
  BY <1>2, <1>4, <1>7, <1>8, <1>9 DEF FinalRead

LEMMA FinalPhaseStep ==
  ASSUME TypeOK, WholeMessages, FinalPhase, Next
  PROVE  FinalPhase' \/ FinalRead'
<1>1. rxpc \in {"top", "taken"} /\ awaits = "final"
  BY DEF FinalPhase, Travels
<1>2. RxThread => RxTake \/ RxRecvFinal
  BY <1>1 DEF RxThread, RxTake, RxRecvFirst, RxRecvMore, RxRecvFinal, CTCursorAsyncRecv,
              FirstMessageRefused, FirstMessageAccepted, FinalMessage
<1> QED
  BY <1>2, FinalPhaseSend, FinalPhaseAnswer, FinalPhaseDeliver, FinalPhaseRecv
     DEF Next, WholeMessages

\* The whole server final message tells the client whether it was accepted.
LEMMA FinalMessageRead ==
  ASSUME TypeOK
  PROVE  \A says \in AllVerdicts :
           AcceptsFinal(Reply("final", says)) = {says # "refused"}
<1> SUFFICES ASSUME NEW says \in AllVerdicts
             PROVE  AcceptsFinal(Reply("final", says)) = {says # "refused"}
  OBVIOUS
<1> DEFINE L == Reply("final", says)
           Signs == [msg : {"final"}, pos : {FinalLen}, says : {"accepted", "unsigned"}]
<1>1. FinalLen \in Nat \ {0} /\ Len(L) = FinalLen
  BY ReplyProperties, Lengths, MessageNames
<1>2. FinalLen \in 1 .. LengthOf("final")
  BY <1>1, Lengths
<1>3. L[FinalLen] = [msg |-> "final", pos |-> FinalLen, says |-> says]
  BY <1>2, ReplyProperties, MessageNames
<1>4. AcceptsFinal(L) = {L[FinalLen] \in Signs}
  BY <1>1 DEF AcceptsFinal
<1>5. (L[FinalLen] \in Signs) = (says # "refused")
  <2>1. CASE says = "refused"
    <3>1. \A b \in Signs : b.says # "refused"
      OBVIOUS
    <3>2. L[FinalLen].says = "refused"
      BY <1>3, <2>1
    <3> QED
      BY <2>1, <3>1, <3>2
  <2>2. CASE says # "refused"
    <3>1. says \in {"accepted", "unsigned"}
      BY <2>2 DEF AllVerdicts
    <3>2. L[FinalLen] \in Signs
      BY <1>3, <3>1
    <3> QED
      BY <2>2, <3>2
  <2> QED
    BY <2>1, <2>2
<1> QED
  BY <1>4, <1>5

LEMMA FinalReadStep ==
  ASSUME TypeOK, FinalRead, Next
  PROVE  FinalRead' \/ Finished'
<1> USE DEF clientVars, serverVars
<1>1. /\ Started /\ None /\ NoBytes /\ RxHolds /\ responseCount = 1
      /\ rxpc = "received" /\ ~waiting /\ contentLength = FinalLen
      /\ awaits = "final" /\ processed = <<Reply("first", "accepted")>> /\ answers = <<>>
  BY DEF FinalRead
<1>2. PICK says \in AllVerdicts : data = Reply("final", says)
  BY DEF FinalRead
<1>3. /\ requests = <<>> /\ txQueue = <<>> /\ sock = <<>> /\ net = <<>>
      /\ tx = <<>> /\ rxPipe = <<>>
  BY <1>1 DEF None, Holds, NoBytes, Unread, RxHolds
<1>4. \A m, v : Reply(m, v)' = Reply(m, v)
  BY RepliesKept
<1>5. Complete
  <2>1. FinalLen \in Nat \ {0} /\ Len(data) = FinalLen
    BY <1>2, ReplyProperties, Lengths, MessageNames
  <2> QED
    BY <1>1, <2>1 DEF Complete
<1>6. CTReQLAsyncHandshake \/ FinalMessage
  <2>1. ~TxThread
    BY <1>3 DEF TxThread, TxSend, CTCursorRecvOnQueue
  <2>2. RxThread => FinalMessage
    BY <1>1, <1>5 DEF RxThread, RxTake, RxRecvFirst, RxRecvMore, RxRecvFinal,
       CTCursorAsyncRecv, FirstMessageRefused, FirstMessageAccepted, FinalMessage
  <2>3. ~ServerAnswers
    BY <1>3 DEF ServerAnswers
  <2>4. ~Deliver
    <3>1. 1 .. Len(net) = {}
      BY <1>3
    <3> QED
      BY <3>1 DEF Deliver
  <2> QED
    BY <2>1, <2>2, <2>3, <2>4 DEF Next
<1>7. CASE CTReQLAsyncHandshake
  <2> USE DEF rxVars
  <2>1. Started' /\ UNCHANGED <<txQueue, tx, serverVars, rxPipe, rxVars>>
    BY <1>1, <1>7, OnlyCounts
  <2>2. None' /\ NoBytes' /\ RxHolds'
    BY <1>3, <2>1 DEF None, Holds, NoBytes, Unread, RxHolds
  <2>3. data' = Reply("final", says)'
    BY <1>2, <1>4, <2>1
  <2>4. processed' = <<Reply("first", "accepted")'>>
    BY <1>1, <1>4, <2>1
  <2> QED
    BY <1>1, <2>1, <2>2, <2>3, <2>4 DEF FinalRead
<1>8. CASE FinalMessage
  <2>1. /\ processed' = Append(processed, data)
        /\ \E yes \in AcceptsFinal(data) : answers' = Append(answers, yes)
        /\ responseCount' = 0 /\ rxpc' = "top"
        /\ UNCHANGED <<cxpc, txQueue, tx, serverVars, rxPipe, waiting>>
    BY <1>8 DEF FinalMessage
  <2>2. answers' = <<says # "refused">>
    <3> DEFINE ok == says # "refused"
    <3>1. AcceptsFinal(data) = {ok}
      BY <1>2, FinalMessageRead
    <3> HIDE DEF ok
    <3>2. answers' = Append(answers, ok)
      BY <2>1, <3>1
    <3>3. Append(<<>>, ok) = <<ok>>
      BY ShortQueues
    <3> QED
      BY <1>1, <3>2, <3>3 DEF ok
  <2>3. processed' = <<Reply("first", "accepted")', Reply("final", says)'>>
    <3>1. Reply("first", "accepted") \in ByteSeq /\ Reply("final", says) \in ByteSeq
      BY ReplyProperties, MessageNames
    <3>2. \A x, y \in ByteSeq : Append(<<x>>, y) = <<x, y>>
      BY ShortQueues
    <3>3. Append(<<Reply("first", "accepted")>>, Reply("final", says))
            = <<Reply("first", "accepted"), Reply("final", says)>>
      BY <3>1, <3>2
    <3> QED
      BY <1>1, <1>2, <1>4, <2>1, <3>3
  <2>4. Started' /\ None' /\ NoBytes' /\ RxIdle'
    BY <1>1, <1>3, <2>1 DEF Started, None, Holds, NoBytes, Unread, RxIdle, RxHolds
  <2> QED
    BY <2>2, <2>3, <2>4 DEF Finished
<1> QED
  BY <1>6, <1>7, <1>8

\* A stream that begins with a refused message goes on doing so, whatever comes
\* behind it and wherever it is cut.
LEMMA RefusedStays ==
  /\ \A x, y \in ByteSeq : RefusedByte(x) => RefusedByte(Cat(x, y))
  /\ \A x \in ByteSeq : \A n \in 1 .. Len(x) :
       RefusedByte(x) => RefusedByte(Cat(<<>>, SubSeq(x, 1, n)))
<1>1. ASSUME NEW x \in ByteSeq, NEW y \in ByteSeq, RefusedByte(x)
      PROVE  RefusedByte(Cat(x, y))
  <2>1. Len(x) \in Nat /\ Len(y) \in Nat /\ Len(x) # 0
    BY <1>1, ByteSeqLength DEF RefusedByte
  <2>2. Cat(x, y) \in ByteSeq /\ Len(Cat(x, y)) = Len(x) + Len(y)
    BY CatProperties
  <2>3. Cat(x, y)[1] = x[1]
    BY <2>1, CatIndex
  <2>4. Cat(x, y) # <<>>
    BY <2>1, <2>2, ByteSeqLength
  <2> QED
    BY <1>1, <2>3, <2>4 DEF RefusedByte
<1>2. ASSUME NEW x \in ByteSeq, NEW n \in 1 .. Len(x), RefusedByte(x)
      PROVE  RefusedByte(Cat(<<>>, SubSeq(x, 1, n)))
  <2> DEFINE s == SubSeq(x, 1, n)
  <2>1. Len(x) \in Nat /\ n \in 0 .. Len(x)
    BY ByteSeqLength
  <2>2. s \in ByteSeq /\ Cat(<<>>, s) = s
    BY <2>1, CatCut, CatEmpty
  <2>3. s # <<>> /\ s[1] = x[1]
    <3>1. x \in Seq(Bytes)
      BY DEF ByteSeq
    <3>2. Len(s) = n /\ s[1] = x[1]
      BY <2>1, <3>1, SubSeqProperties
    <3>3. n # 0
      OBVIOUS
    <3> HIDE DEF s
    <3> QED
      BY <2>2, <3>2, <3>3, ByteSeqLength
  <2> HIDE DEF s
  <2>4. RefusedByte(s)
    BY <1>2, <2>3 DEF RefusedByte
  <2> QED
    BY <2>2, <2>4 DEF s
<1> QED
  BY <1>1, <1>2

LEMMA DoomedStep ==
  ASSUME TypeOK, Doomed, Next
  PROVE  Doomed'
<1> DEFINE Refuses == IF sock = <<>> THEN RefusedByte(net) ELSE RefusedByte(sock)
           Stuck == /\ rxpc \in {"top", "taken"} /\ awaits = "first" /\ ~headerFound
                    /\ Refuses
<1>1. /\ cxpc # "connected" /\ processed = <<>> /\ answers = <<>>
      /\ rxpc = "aborted" \/ Stuck
  BY DEF Doomed
<1>2. ASSUME cxpc' # "connected", processed' = <<>>, answers' = <<>>,
             rxpc' = "aborted" \/ Stuck'
      PROVE  Doomed'
  BY <1>2 DEF Doomed, RefusedByte
<1>3. net \in ByteSeq /\ sock \in ByteSeq
  BY DEF TypeOK, ByteSeq
<1>4. CASE CTReQLAsyncHandshake
  <2>1. cxpc' # "connected" /\ UNCHANGED <<serverVars, rxVars>>
    BY <1>1, <1>4 DEF CTReQLAsyncHandshake, NonceFails, Trigger, Count
  <2>2. sock' = sock /\ net' = net
    BY <2>1 DEF serverVars
  <2>3. Refuses' = Refuses
    BY <2>2 DEF RefusedByte
  <2> HIDE DEF Refuses
  <2> QED
    BY <1>1, <1>2, <2>1, <2>3 DEF rxVars
<1>5. CASE TxThread
  <2>1. UNCHANGED <<cxpc, net, sock, rxVars>>
    BY <1>5 DEF TxThread, TxSend, CTCursorRecvOnQueue, serverVars
  <2>2. sock' = sock /\ net' = net
    BY <2>1
  <2>3. Refuses' = Refuses
    BY <2>2 DEF RefusedByte
  <2> HIDE DEF Refuses
  <2> QED
    BY <1>1, <1>2, <2>1, <2>3 DEF rxVars
<1>6. CASE ServerAnswers
  <2>1. PICK says \in AllVerdicts : net' = Cat(net, Reply(Head(requests), says))
    BY <1>6, Answers
  <2>2. requests # <<>> /\ UNCHANGED <<clientVars, sock, rxVars>>
    BY <1>6, Answers
  <2>3. Reply(Head(requests), says) \in ByteSeq
    <3>1. requests \in Seq(Messages)
      BY DEF TypeOK
    <3>2. Head(requests) \in Messages
      BY <2>2, <3>1, HeadTailProperties
    <3> QED
      BY <3>2, ReplyProperties
  <2>4. RefusedByte(net) => RefusedByte(net')
    BY <1>3, <2>1, <2>3, RefusedStays
  <2>5. Refuses => Refuses'
    BY <2>2, <2>4 DEF RefusedByte
  <2> HIDE DEF Refuses
  <2> QED
    BY <1>1, <1>2, <2>2, <2>5 DEF clientVars, rxVars
<1>7. CASE Deliver
  <2>1. PICK n \in 1 .. Len(net) : sock' = Cat(sock, SubSeq(net, 1, n))
    BY <1>7 DEF Deliver, Cat
  <2>2. UNCHANGED <<clientVars, rxVars>>
    BY <1>7 DEF Deliver
  <2>3. Refuses => RefusedByte(sock')
    <3>1. CASE sock = <<>>
      BY <1>3, <2>1, <3>1, RefusedStays
    <3>2. CASE sock # <<>>
      <4>1. n \in 0 .. Len(net)
        OBVIOUS
      <4>2. SubSeq(net, 1, n) \in ByteSeq
        BY <1>3, <4>1, CatCut
      <4> QED
        BY <1>3, <2>1, <3>2, <4>2, RefusedStays
    <3> QED
      BY <3>1, <3>2
  <2>4. Refuses => Refuses'
    BY <2>3 DEF RefusedByte
  <2> HIDE DEF Refuses
  <2> QED
    BY <1>1, <1>2, <2>2, <2>4 DEF clientVars, rxVars
<1>8. CASE RxThread
  <2>1. Stuck /\ (RxTake \/ RxRecvFirst)
    BY <1>1, <1>8 DEF RxThread, RxTake, RxRecvFirst, RxRecvMore, RxRecvFinal,
       CTCursorAsyncRecv, FirstMessageRefused, FirstMessageAccepted, FinalMessage
  <2>2. CASE RxTake
    <3>1. rxpc' = "taken" /\ UNCHANGED <<clientVars, serverVars, awaits, headerFound,
                                         processed, answers>>
      BY <2>2 DEF RxTake
    <3>2. sock' = sock /\ net' = net
      BY <3>1 DEF serverVars
    <3>3. Refuses' = Refuses
      BY <3>2 DEF RefusedByte
    <3> HIDE DEF Refuses
    <3> QED
      BY <1>1, <1>2, <2>1, <3>1, <3>3 DEF clientVars
  <2>3. CASE RxRecvFirst
    <3>1. ~MagicAccepted(sock)
      <4>1. sock[1].says # "accepted"
        BY <1>3, <2>1, <2>3 DEF RxRecvFirst, RefusedByte, ByteSeq, Bytes
      <4>2. 1 \in 1 .. MagicLen
        BY LengthsAssumption
      <4>3. [msg |-> "magic", pos |-> 1, says |-> "accepted"].says = "accepted"
        OBVIOUS
      <4> QED
        BY <4>1, <4>2, <4>3 DEF MagicAccepted
    <3>2. rxpc' = "aborted" /\ UNCHANGED <<clientVars, processed, answers>>
      BY <2>3, <3>1 DEF RxRecvFirst
    <3> QED
      BY <1>1, <1>2, <3>2 DEF clientVars
  <2> QED
    BY <2>1, <2>2, <2>3
<1> QED
  BY <1>4, <1>5, <1>6, <1>7, <1>8 DEF Next

LEMMA IInvStep == WholeMessages /\ IInv /\ [Next]_vars => IInv'
<1> SUFFICES ASSUME WholeMessages, IInv, [Next]_vars
             PROVE  IInv'
  OBVIOUS
<1>1. TypeOK /\ Phases
  BY DEF IInv
<1>2. TypeOK'
  BY <1>1, TypeStep
<1>3. Whole
  BY DEF WholeMessages
<1>4. CASE Next
  <2>1. Phases'
    BY <1>1, <1>3, <1>4, NotStartedStep, NonceFailedStep, MagicPhaseStep, FirstPhaseStep,
       HeaderPhaseStep, FirstRefusedStep, FinalPhaseStep, FinalReadStep, FinishedStep,
       DoomedStep DEF Phases
  <2> QED
    BY <1>2, <2>1 DEF IInv
<1>5. CASE UNCHANGED vars
  <2>1. UNCHANGED <<cxpc, txQueue, tx, requests, firstLen, net, sock, rxPipe, rxpc, waiting,
                    awaits, headerFound, contentLength, data, responseCount, processed,
                    answers>>
    BY <1>5 DEF vars, clientVars, serverVars, rxVars
  <2>2. \A m, says : Reply(m, says)' = Reply(m, says)
    BY <2>1, SameReplies
  <2>3. /\ NotStarted' = NotStarted /\ NonceFailed' = NonceFailed
        /\ MagicPhase' = MagicPhase
    BY <2>1, <2>2 DEF NotStarted, NonceFailed, MagicPhase, None, One, Holds, NoBytes,
                      MagicBytes, Unread, RxIdle, RxHolds
  <2>4. FirstPhase' = FirstPhase
    BY <2>1, <2>2 DEF FirstPhase, Started, Both, One, None, Holds, NoBytes, MagicBytes,
                      BothBytes, Unread, Travels
  <2>5. HeaderPhase' = HeaderPhase
    BY <2>1, <2>2 DEF HeaderPhase, Started, RxHolds, NoBytes, Unread
  <2>6. FinalPhase' = FinalPhase
    BY <2>1, <2>2 DEF FinalPhase, Started, One, None, Holds, NoBytes, FinalBytes, Unread,
                      Travels
  <2>7. FirstRefused' = FirstRefused /\ FinalRead' = FinalRead /\ Finished' = Finished
    BY <2>1, <2>2 DEF FirstRefused, FinalRead, Finished, Started, None, Holds, NoBytes,
                      Unread, RxIdle, RxHolds
  <2>8. Doomed' = Doomed
    BY <2>1 DEF Doomed, RefusedByte
  <2> QED
    BY <1>1, <1>2, <2>3, <2>4, <2>5, <2>6, <2>7, <2>8 DEF IInv, Phases
<1> QED
  BY <1>4, <1>5

THEOREM Invariance == WholeMessages => (Spec => []IInv)
<1> SUFFICES ASSUME WholeMessages
             PROVE  Spec => []IInv
  OBVIOUS
<1>1. Init => IInv
  BY TypeInit, PhasesInit DEF IInv
<1>2. IInv /\ [Next]_vars => IInv'
  BY IInvStep
<1> QED
  BY <1>1, <1>2, PTL DEF Spec
-----------------------------------------------------------------------------
(***************************************************************************)
(* What the handshake guarantees in each of its phases.                    *)
(***************************************************************************)

\* What has been processed, and what the client has been told.
LEMMA PhaseHistory ==
  ASSUME Phases
  PROVE  \/ processed = <<>> /\ answers \in {<<>>, <<FALSE>>}
         \/ \E says \in AllVerdicts :
              processed = <<Reply("first", says)>> /\ answers \in {<<>>, <<FALSE>>}
         \/ \E says \in AllVerdicts :
              /\ processed = <<Reply("first", "accepted"), Reply("final", says)>>
              /\ answers = <<says # "refused">>
<1>1. CASE FirstRefused
  BY <1>1 DEF FirstRefused
<1>2. CASE FinalPhase \/ FinalRead
  BY <1>2, MessageNames DEF FinalPhase, FinalRead
<1>3. CASE Finished
  BY <1>3 DEF Finished
<1>4. CASE NotStarted \/ NonceFailed \/ MagicPhase \/ FirstPhase \/ HeaderPhase \/ Doomed
  BY <1>4 DEF NotStarted, NonceFailed, MagicPhase, FirstPhase, HeaderPhase, Doomed
<1> QED
  BY <1>1, <1>2, <1>3, <1>4 DEF Phases

LEMMA PhaseOwnMessages == IInv => OwnMessages
<1> SUFFICES ASSUME IInv
             PROVE  OwnMessages
  OBVIOUS
<1> DEFINE names == <<"first", "final">>
<1>1. names[1] = "first" /\ names[2] = "final"
  OBVIOUS
<1>2. \/ processed = <<>>
      \/ \E says \in AllVerdicts : processed = <<Reply("first", says)>>
      \/ \E says \in AllVerdicts :
           processed = <<Reply("first", "accepted"), Reply("final", says)>>
  BY PhaseHistory DEF IInv
<1> HIDE DEF names
<1>3. /\ Len(processed) <= 2
      /\ \A i \in 1 .. Len(processed) :
           \E says \in AllVerdicts : processed[i] = Reply(names[i], says)
  <2>1. CASE processed = <<>>
    BY <2>1
  <2>2. ASSUME NEW says \in AllVerdicts, processed = <<Reply("first", says)>>
        PROVE  <1>3!:
    BY <1>1, <2>2
  <2>3. ASSUME NEW says \in AllVerdicts,
               processed = <<Reply("first", "accepted"), Reply("final", says)>>
        PROVE  <1>3!:
    <3>1. Len(processed) = 2 /\ processed[1] = Reply("first", "accepted")
          /\ processed[2] = Reply("final", says)
      BY <2>3
    <3>2. ASSUME NEW i \in 1 .. Len(processed)
          PROVE  \E v \in AllVerdicts : processed[i] = Reply(names[i], v)
      <4>1. i = 1 \/ i = 2
        BY <3>1
      <4>2. CASE i = 1
        BY <1>1, <3>1, <4>2, MessageNames
      <4>3. CASE i = 2
        BY <1>1, <3>1, <4>3
      <4> QED
        BY <4>1, <4>2, <4>3
    <3>3. Len(processed) <= 2
      BY <3>1
    <3> QED
      BY <3>2, <3>3
  <2> QED
    BY <1>2, <2>1, <2>2, <2>3
<1> QED
  BY <1>3 DEF OwnMessages, names

LEMMA PhaseHandover == IInv => CleanHandover
<1> SUFFICES ASSUME Phases, answers # <<>>
             PROVE  /\ Len(answers) = 1
                    /\ txQueue = <<>> /\ requests = <<>> /\ net = <<>> /\ sock = <<>>
                    /\ rxPipe = <<>> /\ ~waiting /\ rxpc = "top" /\ responseCount = 0
  BY DEF IInv, CleanHandover
<1>1. NonceFailed \/ FirstRefused \/ Finished
  BY DEF Phases, NotStarted, MagicPhase, FirstPhase, HeaderPhase, FinalPhase, FinalRead, Doomed
<1>2. Len(answers) = 1
  <2>1. \E ok : answers = <<ok>>
    BY <1>1 DEF NonceFailed, FirstRefused, Finished
  <2> QED
    BY <2>1
<1>3. None /\ NoBytes /\ RxIdle
  BY <1>1 DEF NonceFailed, FirstRefused, Finished
<1> QED
  BY <1>2, <1>3 DEF None, Holds, NoBytes, Unread, RxIdle, RxHolds

LEMMA PhaseSuccess == IInv => SuccessMeansNotRefused
<1> SUFFICES ASSUME Phases, answers = <<TRUE>>
             PROVE  \E says \in {"accepted", "unsigned"} :
                      processed = <<Reply("first", "accepted"), Reply("final", says)>>
  BY DEF IInv, SuccessMeansNotRefused
<1>1. answers[1] = TRUE /\ answers # <<>>
  OBVIOUS
<1>2. answers # <<FALSE>>
  BY <1>1
<1>3. PICK says \in AllVerdicts :
        /\ processed = <<Reply("first", "accepted"), Reply("final", says)>>
        /\ answers = <<says # "refused">>
  BY <1>1, <1>2, PhaseHistory
<1>4. says \in {"accepted", "unsigned"}
  <2>1. CASE says = "refused"
    <3>1. answers = <<FALSE>>
      BY <1>3, <2>1
    <3> QED
      BY <1>2, <3>1
  <2> QED
    BY <2>1 DEF AllVerdicts
<1> QED
  BY <1>3, <1>4

\* Every function that processes a message is given exactly the server's answer to
\* that message, whatever the reads return behind the magic response and however
\* far the thread of the connect callback has come.
THEOREM Own == WholeMessages => (Spec => []OwnMessages)
BY Invariance, PhaseOwnMessages, PTL

\* The client is called back at most once, and the handshake has nothing under way
\* on the connection it hands over.
THEOREM Handover == WholeMessages => (Spec => []CleanHandover)
BY Invariance, PhaseHandover, PTL

\* The client is told of a success only when the server accepted its first message
\* and did not refuse its last one: the server's signature it may have got or not.
THEOREM Success == WholeMessages => (Spec => []SuccessMeansNotRefused)
BY Invariance, PhaseSuccess, PTL
==============================================================================
