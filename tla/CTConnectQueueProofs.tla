------------------------- MODULE CTConnectQueueProofs -------------------------
(***************************************************************************)
(* Proofs about CTConnectQueue, for any targets, any handshakes and        *)
(* whatever goes wrong on the way.                                         *)
(*                                                                         *)
(* A target is in one place at a time: in cxPipe, in the cx thread's       *)
(* hands, or with the one connection that was made for it.  The inductive  *)
(* invariant IInv says so, and that nobody was called back for it before   *)
(* its connection has no handshake left to do.                             *)
(***************************************************************************)
EXTENDS CTConnectQueue, FiniteSetTheorems, SequenceTheorems, TLAPS

\* The cx thread has the target and no connection for it yet.
Working == cxpc \in {"recv from", "execute"}

\* There is no connection to t, and nobody was called back for it.
Untouched(t) ==
  /\ results[t] = <<>>
  /\ \A c \in 1 .. Len(conns) : conns[c].target # t

\* Where the targets are that were asked for.
PlaceInv ==
  /\ \A t \in Targets \ asked : Untouched(t)
  /\ \A i \in 1 .. Len(cxPipe) : Untouched(cxPipe[i])
  /\ \A i, j \in 1 .. Len(cxPipe) : cxPipe[i] = cxPipe[j] => i = j
  /\ Working => Untouched(target[1])
  /\ Working => \A i \in 1 .. Len(cxPipe) : cxPipe[i] # target[1]

\* A target has one connection, and is not answered during its handshakes.
ConnsInv ==
  /\ \A c, d \in 1 .. Len(conns) : conns[c].target = conns[d].target => c = d
  /\ \A c \in 1 .. Len(conns) : conns[c].todo # <<>> => results[conns[c].target] = <<>>

\* What TypeOK says but for the number of connections, which follows: of the
\* cx thread, and of the connections and callbacks.
ThreadTyped ==
  /\ cxPipe \in Seq(Targets)
  /\ cxpc \in {"wait", "recv from", "execute", "count", "aborted"}
  /\ target \in Seq(Targets) /\ Len(target) \in {0, 1}
  /\ cxpc = "wait" => Len(target) = 0
  /\ cxpc \in {"recv from", "execute", "count"} => Len(target) = 1

\* Only targets that were asked for are worked on.
AskedOnly ==
  /\ asked \subseteq Targets
  /\ \A i \in 1 .. Len(cxPipe) : cxPipe[i] \in asked
  /\ \A i \in 1 .. Len(target) : target[i] \in asked

PoolTyped ==
  /\ conns \in Seq(Conns)
  /\ conn \in {NoConn} \cup 1 .. Len(conns)
  /\ \A c \in 1 .. Len(conns) : conns[c].sent <= MaxRounds
  /\ results \in [Targets -> Seq(Results)]

Typed == ThreadTyped /\ AskedOnly /\ PoolTyped

\* Callbacks are given connections of the pool, or none.
ResultConns ==
  \A t \in Targets : \A i \in 1 .. Len(results[t]) : results[t][i].conn \in 0 .. Len(conns)

AnswersInv == ResultConns /\ AnsweredOnce /\ OwnConnection

IInv == Typed /\ PlaceInv /\ ConnsInv /\ AnswersInv
-----------------------------------------------------------------------------
LEMMA IInvInit == Init => IInv
BY DEF Init, IInv, Typed, ThreadTyped, AskedOnly, PoolTyped, PlaceInv, Untouched, Working, ConnsInv, AnswersInv,
       ResultConns, AnsweredOnce, OwnConnection, NoConn

\* Sequences.
LEMMA HeadAndTail ==
  ASSUME NEW S, NEW s \in Seq(S), s # <<>>
  PROVE  /\ Head(s) = s[1] /\ s[1] \in S
         /\ Tail(s) \in Seq(S) /\ Len(Tail(s)) = Len(s) - 1
         /\ Len(s) \in Nat /\ Len(s) >= 1
         /\ \A i \in 1 .. Len(Tail(s)) : Tail(s)[i] = s[i + 1]
OBVIOUS

LEMMA FirstElement ==
  ASSUME NEW S, NEW s \in Seq(S), Len(s) = 1
  PROVE  s[1] \in S
OBVIOUS

LEMMA NoElement ==
  ASSUME NEW S, NEW s \in Seq(S), Len(s) = 0, NEW i \in 1 .. Len(s)
  PROVE  FALSE
OBVIOUS

LEMMA OneElement ==
  ASSUME NEW S, NEW x \in S
  PROVE  <<x>> \in Seq(S) /\ Len(<<x>>) = 1 /\ <<x>>[1] = x
OBVIOUS

\* A connection of the pool.
LEMMA ConnFields ==
  ASSUME PoolTyped, NEW c \in 1 .. Len(conns)
  PROVE  /\ conns[c] \in Conns /\ conns[c].target \in Targets
         /\ conns[c].queryCount \in Nat /\ conns[c].todo \in Seq({"proxy", "tls"})
         /\ conns[c].sent \in Nat
<1>1. conns[c] \in Conns
  BY DEF PoolTyped
<1> QED
  BY <1>1 DEF Conns

\* A callback for a target that had none.
LEMMA FirstAnswer ==
  ASSUME results \in [Targets -> Seq(Results)], NEW t \in Targets, results[t] = <<>>,
         NEW ok \in BOOLEAN, NEW c \in Nat, NEW n \in Nat, Answer(t, ok, c, n)
  PROVE  /\ results' \in [Targets -> Seq(Results)]
         /\ results'[t] = <<[ok |-> ok, conn |-> c, queryCount |-> n]>>
         /\ \A u \in Targets : u # t => results'[u] = results[u]
<1>1. [ok |-> ok, conn |-> c, queryCount |-> n] \in Results
  BY DEF Results
<1>2. Append(<<>>, [ok |-> ok, conn |-> c, queryCount |-> n])
        = <<[ok |-> ok, conn |-> c, queryCount |-> n]>>
  OBVIOUS
<1> QED
  BY <1>1, <1>2 DEF Answer

\* A new connection from the pool.
LEMMA NewConnection ==
  ASSUME Typed, NEW r \in Conns, conns' = Append(conns, r)
  PROVE  /\ conns' \in Seq(Conns) /\ Len(conns') = Len(conns) + 1
         /\ conns'[Len(conns) + 1] = r
         /\ \A c \in 1 .. Len(conns) : conns'[c] = conns[c]
<1>1. conns \in Seq(Conns)
  BY DEF Typed, PoolTyped
<1> QED
  BY <1>1

\* The steps that leave the connections and the callbacks alone.
LEMMA Quiet ==
  ASSUME resolvable' = resolvable, conns' = conns, results' = results, ConnsInv, AnswersInv
  PROVE  ConnsInv' /\ AnswersInv'
<1>1. ConnsInv'
  BY DEF ConnsInv
<1>2. ResultConns' /\ AnsweredOnce'
  BY DEF ResultConns, AnsweredOnce, AnswersInv
<1>3. OwnConnection'
  BY DEF OwnConnection, AnswersInv
<1> QED
  BY <1>1, <1>2, <1>3 DEF AnswersInv

\* A change of a connection that leaves it with its target.
LEMMA ChangedConnection ==
  ASSUME Typed, NEW c \in 1 .. Len(conns), NEW r \in Conns,
         conns' = [conns EXCEPT ![c] = r]
  PROVE  /\ conns' \in Seq(Conns) /\ Len(conns') = Len(conns)
         /\ conns'[c] = r
         /\ \A d \in 1 .. Len(conns) : d # c => conns'[d] = conns[d]
<1>1. conns \in Seq(Conns)
  BY DEF Typed, PoolTyped
<1> QED
  BY <1>1
-----------------------------------------------------------------------------
(***************************************************************************)
(* The steps that leave the connections and the callbacks alone.           *)
(***************************************************************************)
LEMMA StepAsk ==
  ASSUME IInv, NEW t \in Targets, CTTargetConnectOnQueue(t)
  PROVE  IInv'
<1>1. /\ asked' = asked \cup {t} /\ cxPipe' = Append(cxPipe, t) /\ t \notin asked
      /\ UNCHANGED <<resolvable, cxpc, target, conn, conns, results>>
  BY DEF CTTargetConnectOnQueue
<1>2. ThreadTyped /\ AskedOnly /\ PoolTyped
  BY DEF IInv, Typed
<1>3. /\ cxPipe' \in Seq(Targets)
      /\ Len(cxPipe') = Len(cxPipe) + 1 /\ cxPipe'[Len(cxPipe) + 1] = t
      /\ Len(cxPipe) \in Nat
      /\ \A i \in 1 .. Len(cxPipe) : cxPipe'[i] = cxPipe[i] /\ cxPipe[i] # t
  <2>1. cxPipe \in Seq(Targets) /\ \A i \in 1 .. Len(cxPipe) : cxPipe[i] # t
    BY <1>1, <1>2 DEF ThreadTyped, AskedOnly
  <2> QED
    BY <1>1, <2>1
<1>4. Typed'
  <2>1. ThreadTyped'
    BY <1>1, <1>2, <1>3 DEF ThreadTyped
  <2>2. AskedOnly'
    <3>1. \A i \in 1 .. Len(cxPipe') : cxPipe'[i] \in asked'
      BY <1>1, <1>2, <1>3 DEF AskedOnly
    <3> QED
      BY <1>1, <1>2, <3>1 DEF AskedOnly
  <2>3. PoolTyped'
    BY <1>1, <1>2 DEF PoolTyped
  <2> QED
    BY <2>1, <2>2, <2>3 DEF Typed
<1>5. Working' = Working /\ (\A u \in Targets : Untouched(u)' = Untouched(u)) /\ Untouched(t)
  BY <1>1 DEF Working, Untouched, IInv, PlaceInv
<1>6. Working => target[1] # t
  <2>1. Working => Len(target) = 1
    BY <1>2 DEF Working, ThreadTyped
  <2>2. Working => target[1] \in asked
    BY <1>2, <2>1 DEF AskedOnly
  <2> QED
    BY <1>1, <2>2
<1>7. PlaceInv'
  <2>1. PlaceInv
    BY DEF IInv
  <2>2. \A u \in Targets \ asked' : Untouched(u)'
    BY <1>1, <1>5, <2>1 DEF PlaceInv
  <2>3. (\A i \in 1 .. Len(cxPipe) : Untouched(cxPipe[i]))'
    BY <1>1, <1>3, <1>5, <2>1 DEF PlaceInv, Untouched
  <2>4. \A i, j \in 1 .. Len(cxPipe') : cxPipe'[i] = cxPipe'[j] => i = j
    BY <1>3, <2>1 DEF PlaceInv
  <2>5. Working' => Untouched(target[1])'
    BY <1>1, <2>1 DEF PlaceInv, Untouched, Working
  <2>6. Working' => \A i \in 1 .. Len(cxPipe') : cxPipe'[i] # target'[1]
    BY <1>1, <1>3, <1>5, <1>6, <2>1 DEF PlaceInv
  <2> QED
    BY <2>2, <2>3, <2>4, <2>5, <2>6 DEF PlaceInv
<1> QED
  BY <1>1, <1>4, <1>7, Quiet DEF IInv

LEMMA StepTake ==
  ASSUME IInv, CTTargetResolveHost
  PROVE  IInv'
<1>1. /\ cxpc = "wait" /\ cxpc' = "recv from"
      /\ UNCHANGED <<resolvable, asked, conn, conns, results>>
  BY DEF CTTargetResolveHost
<1>2. ThreadTyped /\ AskedOnly /\ PoolTyped
  BY DEF IInv, Typed
<1>3. /\ cxPipe' \in Seq(Targets) /\ Head(cxPipe) = cxPipe[1] /\ cxPipe[1] \in Targets
      /\ Len(cxPipe') = Len(cxPipe) - 1 /\ Len(cxPipe) \in Nat /\ Len(cxPipe) >= 1
      /\ \A i \in 1 .. Len(cxPipe') : cxPipe'[i] = cxPipe[i + 1]
  <2>1. cxPipe \in Seq(Targets) /\ cxPipe # <<>>
    BY <1>2 DEF ThreadTyped, CTTargetResolveHost
  <2> QED
    BY <2>1, HeadAndTail DEF CTTargetResolveHost
<1>4. target' \in Seq(Targets) /\ Len(target') = 1 /\ target'[1] = cxPipe[1]
  BY <1>3, OneElement DEF CTTargetResolveHost
<1>5. Typed'
  <2>1. ThreadTyped'
    <3>1. cxpc' = "recv from" /\ cxPipe' \in Seq(Targets)
      BY <1>1, <1>3
    <3> QED
      BY <1>4, <3>1 DEF ThreadTyped
  <2>2. AskedOnly'
    <3>1. /\ \A i \in 1 .. Len(cxPipe) : cxPipe[i] \in asked
          /\ asked' = asked /\ asked \subseteq Targets
      BY <1>1, <1>2 DEF AskedOnly
    <3>2. \A i \in 1 .. Len(cxPipe') : i + 1 \in 1 .. Len(cxPipe)
      BY <1>3
    <3>3. \A i \in 1 .. Len(cxPipe') : cxPipe'[i] \in asked
      BY <1>3, <3>1, <3>2
    <3>4. cxPipe[1] \in asked
      BY <1>3, <3>1
    <3>5. \A i \in 1 .. Len(target') : target'[i] \in asked
      BY <1>4, <3>4
    <3> QED
      BY <3>1, <3>3, <3>5 DEF AskedOnly
  <2>3. PoolTyped'
    BY <1>1, <1>2 DEF PoolTyped
  <2> QED
    BY <2>1, <2>2, <2>3 DEF Typed
<1>6. PlaceInv'
  <2>1. /\ \A t \in Targets \ asked : Untouched(t)
        /\ \A i \in 1 .. Len(cxPipe) : Untouched(cxPipe[i])
        /\ \A i, j \in 1 .. Len(cxPipe) : cxPipe[i] = cxPipe[j] => i = j
    BY DEF IInv, PlaceInv
  <2>2. \A t \in Targets : Untouched(t)' = Untouched(t)
    BY <1>1 DEF Untouched
  <2>3. /\ \A i \in 1 .. Len(cxPipe') : i + 1 \in 1 .. Len(cxPipe) /\ cxPipe'[i] \in Targets
        /\ 1 \in 1 .. Len(cxPipe)
    <3>1. \A i \in 1 .. Len(cxPipe') : cxPipe'[i] \in Targets
      BY <1>3
    <3> QED
      BY <1>3, <3>1
  <2>4. \A t \in Targets \ asked' : Untouched(t)'
    BY <1>1, <2>1, <2>2
  <2>5. \A i \in 1 .. Len(cxPipe') : Untouched(cxPipe'[i])
    BY <1>3, <2>1, <2>3
  <2>6. (\A i \in 1 .. Len(cxPipe) : Untouched(cxPipe[i]))'
    BY <1>1, <2>5 DEF Untouched
  <2>7. \A i, j \in 1 .. Len(cxPipe') : cxPipe'[i] = cxPipe'[j] => i = j
    BY <1>3, <2>1, <2>3
  <2>8. Untouched(target[1])'
    <3>1. Untouched(cxPipe[1])
      BY <2>1, <2>3
    <3> QED
      BY <1>1, <1>4, <3>1 DEF Untouched
  <2>9. \A i \in 1 .. Len(cxPipe') : cxPipe'[i] # target'[1]
    BY <1>3, <1>4, <2>1, <2>3
  <2> QED
    BY <2>4, <2>6, <2>7, <2>8, <2>9 DEF PlaceInv
<1> QED
  BY <1>1, <1>5, <1>6, Quiet DEF IInv

\* Where the thread goes, it is left with its target or without.
LEMMA GotoTyped ==
  ASSUME ThreadTyped, AskedOnly, asked' = asked, cxPipe' = cxPipe, NEW state, Goto(state),
         \/ state \in {"wait", "aborted"}
         \/ state \in {"execute", "count"} /\ cxpc \in {"recv from", "execute"}
  PROVE  ThreadTyped' /\ AskedOnly'
<1>1. cxpc' = state
  BY DEF Goto
<1>2. CASE state = "wait"
  <2>1. target' \in Seq(Targets) /\ Len(target') = 0
    BY <1>2 DEF Goto
  <2>2. cxPipe' \in Seq(Targets)
    BY DEF ThreadTyped
  <2>3. ThreadTyped'
    BY <1>1, <1>2, <2>1, <2>2 DEF ThreadTyped
  <2>4. \A i \in 1 .. Len(target') : target'[i] \in asked'
    BY <2>1, NoElement
  <2>5. AskedOnly'
    BY <2>4 DEF AskedOnly
  <2> QED
    BY <2>3, <2>5
<1>3. CASE state # "wait"
  <2>1. target' = target
    BY <1>3 DEF Goto
  <2> QED
    BY <1>1, <1>3, <2>1 DEF ThreadTyped, AskedOnly
<1> QED
  BY <1>2, <1>3

LEMMA StepQuiet ==
  ASSUME IInv, ConnectFails \/ CTConnectRoutine \/ ExecuteAborts \/
               (\E c \in PoolConns : HandshakeAborts(c))
  PROVE  IInv'
<1>1. UNCHANGED <<resolvable, asked, cxPipe, conn, conns, results>>
  BY DEF ConnectFails, CTConnectRoutine, ExecuteAborts, HandshakeAborts, Resolved
<1>2. PICK state : /\ Goto(state)
                   /\ \/ state \in {"wait", "aborted"}
                      \/ state = "execute" /\ cxpc = "recv from"
  BY DEF ConnectFails, CTConnectRoutine, ExecuteAborts, HandshakeAborts, Resolved
<1>3. Typed'
  <2>1. ThreadTyped' /\ AskedOnly'
    BY <1>1, <1>2, GotoTyped DEF IInv, Typed
  <2>2. PoolTyped'
    BY <1>1 DEF IInv, Typed, PoolTyped
  <2> QED
    BY <2>1, <2>2 DEF Typed
<1>4. PlaceInv'
  <2>1. Working' => Working /\ target' = target
    BY <1>2 DEF Goto, Working
  <2> QED
    BY <1>1, <2>1 DEF IInv, PlaceInv, Untouched
<1> QED
  BY <1>1, <1>3, <1>4, Quiet DEF IInv
-----------------------------------------------------------------------------
(***************************************************************************)
(* The steps that call somebody back, or change the connections.           *)
(***************************************************************************)

\* The connections keep their targets, and a handshake that is done stays so.
ConnsKept ==
  /\ Len(conns') >= Len(conns)
  /\ \A c \in 1 .. Len(conns) :
       /\ conns'[c].target = conns[c].target
       /\ conns[c].todo = <<>> => conns'[c].todo = <<>>

\* A connection that was given to a client stays as it is.
LEMMA OldAnswer ==
  ASSUME OwnConnection, conns \in Seq(Conns), conns' \in Seq(Conns), ConnsKept,
         NEW u \in Targets, u \in resolvable,
         NEW i \in 1 .. 2, i <= Len(results[u]), results[u][i].ok
  PROVE  LET r == results[u][i] IN
           /\ r.conn \in 1 .. Len(conns') /\ r.queryCount = 0
           /\ conns'[r.conn].target = u /\ conns'[r.conn].todo = <<>>
<1>1. /\ results[u][i].conn \in 1 .. Len(conns) /\ results[u][i].queryCount = 0
      /\ conns[results[u][i].conn].target = u /\ conns[results[u][i].conn].todo = <<>>
  BY DEF OwnConnection
<1>2. \A d \in 1 .. Len(conns) : d \in 1 .. Len(conns')
  BY DEF ConnsKept
<1> QED
  BY <1>1, <1>2 DEF ConnsKept

\* What callbacks were given stays right.
LEMMA SameAnswers ==
  ASSUME AnswersInv, PoolTyped, conns' \in Seq(Conns), ConnsKept, results' = results,
         resolvable' = resolvable
  PROVE  AnswersInv'
<1>1. Len(conns) \in Nat /\ Len(conns') \in Nat /\ Len(conns') >= Len(conns)
  BY DEF PoolTyped, ConnsKept
<1>2. ResultConns'
  BY <1>1 DEF AnswersInv, ResultConns
<1>3. AnsweredOnce'
  BY DEF AnswersInv, AnsweredOnce
<1>4. OwnConnection'
  <2>1. ASSUME NEW u \in Targets, u \in resolvable,
               NEW i \in 1 .. 2, i <= Len(results[u]), results[u][i].ok
        PROVE  LET r == results[u][i] IN
                 /\ r.conn \in 1 .. Len(conns') /\ r.queryCount = 0
                 /\ conns'[r.conn].target = u /\ conns'[r.conn].todo = <<>>
    BY <2>1, OldAnswer DEF AnswersInv, PoolTyped
  <2> QED
    BY <2>1 DEF OwnConnection
<1> QED
  BY <1>2, <1>3, <1>4 DEF AnswersInv

\* A first callback, and what it has to be given when it reports success.
LEMMA NewAnswer ==
  ASSUME AnswersInv, PoolTyped, conns' \in Seq(Conns), ConnsKept,
         NEW t \in Targets, results[t] = <<>>,
         NEW ok \in BOOLEAN, NEW c \in 0 .. Len(conns'), NEW n \in Nat, Answer(t, ok, c, n),
         resolvable' = resolvable,
         t \in resolvable /\ ok => /\ c # 0 /\ n = 0
                                  /\ conns'[c].target = t /\ conns'[c].todo = <<>>
  PROVE  results' \in [Targets -> Seq(Results)] /\ AnswersInv'
<1>1. Len(conns) \in Nat /\ Len(conns') \in Nat /\ Len(conns') >= Len(conns) /\ c \in Nat
  BY DEF PoolTyped, ConnsKept
<1>2. /\ results' \in [Targets -> Seq(Results)]
      /\ results'[t] = <<[ok |-> ok, conn |-> c, queryCount |-> n]>>
      /\ \A u \in Targets : u # t => results'[u] = results[u]
  BY <1>1, FirstAnswer DEF PoolTyped
<1>3. Len(results'[t]) = 1 /\ results'[t][1] = [ok |-> ok, conn |-> c, queryCount |-> n]
  BY <1>2
<1>4. ResultConns'
  <2>1. ASSUME NEW u \in Targets, NEW i \in 1 .. Len(results'[u])
        PROVE  results'[u][i].conn \in 0 .. Len(conns')
    <3>1. CASE u = t
      BY <1>3, <2>1, <3>1
    <3>2. CASE u # t
      <4>1. results'[u] = results[u]
        BY <1>2, <3>2
      <4>2. results'[u][i].conn \in 0 .. Len(conns)
        BY <2>1, <4>1 DEF AnswersInv, ResultConns
      <4> QED
        BY <1>1, <4>2
    <3> QED
      BY <3>1, <3>2
  <2> QED
    BY <2>1 DEF ResultConns
<1>5. AnsweredOnce'
  <2>1. ASSUME NEW u \in Targets
        PROVE  Len(results'[u]) <= 1
    <3>1. CASE u = t
      <4>1. 1 <= 1
        OBVIOUS
      <4> QED
        BY <1>3, <3>1, <4>1
    <3>2. CASE u # t
      BY <1>2, <3>2 DEF AnswersInv, AnsweredOnce
    <3> QED
      BY <3>1, <3>2
  <2> QED
    BY <2>1 DEF AnsweredOnce
<1>6. OwnConnection'
  <2>1. \A i \in 1 .. 2 : i <= Len(results'[t]) => results'[t][i] = [ok |-> ok, conn |-> c, queryCount |-> n]
    BY <1>3
  <2>2. t \in resolvable /\ ok => c \in 1 .. Len(conns')
    BY <1>1
  <2>3. ASSUME NEW u \in Targets, u \in resolvable, NEW i \in 1 .. 2, u # t,
               i <= Len(results[u]), results[u][i].ok
        PROVE  LET r == results[u][i] IN
                 /\ r.conn \in 1 .. Len(conns') /\ r.queryCount = 0
                 /\ conns'[r.conn].target = u /\ conns'[r.conn].todo = <<>>
    BY <2>3, OldAnswer DEF AnswersInv, PoolTyped
  <2>4. ASSUME NEW u \in Targets, u \in resolvable,
               NEW i \in 1 .. 2, i <= Len(results'[u]), results'[u][i].ok
        PROVE  LET r == results'[u][i] IN
                 /\ r.conn \in 1 .. Len(conns') /\ r.queryCount = 0
                 /\ conns'[r.conn].target = u /\ conns'[r.conn].todo = <<>>
    <3>1. CASE u = t
      <4>1. results'[u][i] = [ok |-> ok, conn |-> c, queryCount |-> n] /\ ok
        BY <2>1, <2>4, <3>1
      <4>2. results'[u][i].conn = c /\ results'[u][i].queryCount = n
        BY <4>1
      <4> QED
        BY <2>2, <2>4, <3>1, <4>1, <4>2
    <3>2. CASE u # t
      <4>1. results'[u] = results[u]
        BY <1>2, <3>2
      <4> QED
        BY <2>3, <2>4, <3>2, <4>1
    <3> QED
      BY <3>1, <3>2
  <2> QED
    BY <2>4 DEF OwnConnection
<1> QED
  BY <1>2, <1>4, <1>5, <1>6 DEF AnswersInv

\* An error for a target without a connection.
LEMMA ErrorPlaces ==
  ASSUME IInv, Len(conns') = Len(conns),
         \A c \in 1 .. Len(conns) :
           conns'[c].target = conns[c].target /\ conns'[c].todo = conns[c].todo,
         NEW t \in asked, Untouched(t),
         results' \in [Targets -> Seq(Results)],
         \A u \in Targets : u # t => results'[u] = results[u],
         \A i \in 1 .. Len(cxPipe') : \E j \in 1 .. Len(cxPipe) : cxPipe'[i] = cxPipe[j],
         \A i \in 1 .. Len(cxPipe') : cxPipe'[i] # t,
         \A i, j \in 1 .. Len(cxPipe') : cxPipe'[i] = cxPipe'[j] => i = j,
         asked' = asked, ~Working', Len(cxPipe) \in Nat
  PROVE  PlaceInv' /\ ConnsInv'
<1>1. ConnsInv'
  <2>1. \A c \in 1 .. Len(conns) : conns[c].target \in Targets /\ conns[c].target # t
    BY ConnFields DEF IInv, Untouched, Typed
  <2> QED
    BY <2>1 DEF IInv, ConnsInv
<1>2. \A u \in Targets : u # t => Untouched(u)' = Untouched(u)
  BY DEF Untouched
<1>3. \A u \in Targets \ asked' : Untouched(u)'
  BY <1>2 DEF IInv, PlaceInv
<1>4. (\A i \in 1 .. Len(cxPipe) : Untouched(cxPipe[i]))'
  <2>1. \A i \in 1 .. Len(cxPipe') : cxPipe'[i] \in Targets /\ cxPipe'[i] # t /\ Untouched(cxPipe'[i])
    BY DEF IInv, PlaceInv, Typed, AskedOnly
  <2> QED
    BY <2>1 DEF Untouched
<1> QED
  BY <1>1, <1>3, <1>4 DEF PlaceInv

\* The pipe without its first element.
LEMMA PipeTail ==
  ASSUME IInv, cxPipe # <<>>, cxPipe' = Tail(cxPipe)
  PROVE  /\ Head(cxPipe) = cxPipe[1] /\ cxPipe[1] \in asked /\ cxPipe[1] \in Targets
         /\ Untouched(cxPipe[1]) /\ Len(cxPipe) \in Nat
         /\ cxPipe' \in Seq(Targets)
         /\ \A i \in 1 .. Len(cxPipe') :
              i + 1 \in 1 .. Len(cxPipe) /\ cxPipe'[i] = cxPipe[i + 1] /\ cxPipe'[i] # cxPipe[1]
         /\ \A i, j \in 1 .. Len(cxPipe') : cxPipe'[i] = cxPipe'[j] => i = j
<1>1. cxPipe \in Seq(Targets)
  BY DEF IInv, Typed, ThreadTyped
<1>2. /\ cxPipe' \in Seq(Targets) /\ Head(cxPipe) = cxPipe[1] /\ cxPipe[1] \in Targets
      /\ Len(cxPipe') = Len(cxPipe) - 1 /\ Len(cxPipe) \in Nat /\ Len(cxPipe) >= 1
      /\ \A i \in 1 .. Len(cxPipe') : cxPipe'[i] = cxPipe[i + 1]
  BY <1>1, HeadAndTail
<1>3. 1 \in 1 .. Len(cxPipe) /\ \A i \in 1 .. Len(cxPipe') : i + 1 \in 1 .. Len(cxPipe)
  BY <1>2
<1>4. /\ \A i \in 1 .. Len(cxPipe) : Untouched(cxPipe[i]) /\ cxPipe[i] \in asked
      /\ \A i, j \in 1 .. Len(cxPipe) : cxPipe[i] = cxPipe[j] => i = j
  BY DEF IInv, PlaceInv, Typed, AskedOnly
<1> QED
  BY <1>2, <1>3, <1>4

LEMMA StepResolveHostFails ==
  ASSUME IInv, ResolveHostFails
  PROVE  IInv'
<1>1. /\ cxpc = "wait" /\ cxPipe # <<>> /\ cxPipe' = Tail(cxPipe)
      /\ Answer(Head(cxPipe), FALSE, NoConn, 0)
      /\ resolvable' = resolvable /\ asked' = asked /\ cxpc' = cxpc /\ target' = target
      /\ conn' = conn /\ conns' = conns
  BY DEF ResolveHostFails
<1> DEFINE t == cxPipe[1]
<1>2. /\ Head(cxPipe) = t /\ t \in asked /\ t \in Targets
      /\ Untouched(t) /\ Len(cxPipe) \in Nat
      /\ cxPipe' \in Seq(Targets)
      /\ \A i \in 1 .. Len(cxPipe') :
           i + 1 \in 1 .. Len(cxPipe) /\ cxPipe'[i] = cxPipe[i + 1] /\ cxPipe'[i] # t
      /\ \A i, j \in 1 .. Len(cxPipe') : cxPipe'[i] = cxPipe'[j] => i = j
  BY <1>1, PipeTail
<1> HIDE DEF t
<1>3. /\ results' \in [Targets -> Seq(Results)] /\ AnswersInv'
      /\ \A u \in Targets : u # t => results'[u] = results[u]
  <2>1. results[t] = <<>> /\ PoolTyped /\ AnswersInv /\ conns' \in Seq(Conns) /\ ConnsKept
    BY <1>1, <1>2 DEF IInv, Typed, PoolTyped, Untouched, ConnsKept
  <2>2. 0 \in 0 .. Len(conns') /\ 0 \in Nat /\ Answer(t, FALSE, 0, 0)
    <3>1. 0 \in 0 .. Len(conns')
      BY <2>1
    <3>2. Answer(t, FALSE, 0, 0)
      BY <1>1, <1>2 DEF NoConn, Answer
    <3> QED
      BY <2>1, <3>1, <3>2
  <2>3. \A u \in Targets : u # t => results'[u] = results[u]
    BY <2>2 DEF Answer
  <2> QED
    BY <1>1, <1>2, <2>1, <2>2, <2>3, NewAnswer
<1>4. Typed'
  <2>1. ThreadTyped' /\ PoolTyped'
    BY <1>1, <1>2, <1>3 DEF IInv, Typed, ThreadTyped, PoolTyped
  <2>2. AskedOnly'
    BY <1>1, <1>2 DEF IInv, Typed, AskedOnly
  <2> QED
    BY <2>1, <2>2 DEF Typed
<1>5. PlaceInv' /\ ConnsInv'
  <2>1. ~Working'
    BY <1>1 DEF Working
  <2>2. \A i \in 1 .. Len(cxPipe') : \E j \in 1 .. Len(cxPipe) : cxPipe'[i] = cxPipe[j]
    BY <1>2
  <2>3. Len(conns') = Len(conns)
        /\ \A c \in 1 .. Len(conns) :
             conns'[c].target = conns[c].target /\ conns'[c].todo = conns[c].todo
    BY <1>1
  <2> QED
    BY <1>1, <1>2, <1>3, <2>1, <2>2, <2>3, ErrorPlaces
<1> QED
  BY <1>3, <1>4, <1>5 DEF IInv

\* The thread's target, while there is no connection to it.
LEMMA WorkTarget ==
  ASSUME IInv, Working
  PROVE  /\ target \in Seq(Targets) /\ Len(target) = 1
         /\ target[1] \in Targets /\ target[1] \in asked /\ Untouched(target[1])
         /\ \A i \in 1 .. Len(cxPipe) : cxPipe[i] # target[1]
<1>1. target \in Seq(Targets) /\ Len(target) = 1
  BY DEF IInv, Typed, ThreadTyped, Working
<1>2. 1 \in 1 .. Len(target) /\ target[1] \in Targets
  BY <1>1
<1> QED
  BY <1>1, <1>2 DEF IInv, Typed, AskedOnly, PlaceInv

\* A step that answers the thread's target without a connection to it: with an
\* error, unless the host has no address.
LEMMA ErrorStep ==
  ASSUME IInv, Working, resolvable' = resolvable, asked' = asked, cxPipe' = cxPipe,
         conn' = conn, Goto("wait"),
         conns' \in Seq(Conns), Len(conns') = Len(conns),
         \A c \in 1 .. Len(conns) :
           /\ conns'[c].target = conns[c].target /\ conns'[c].todo = conns[c].todo
           /\ conns'[c].sent = conns[c].sent,
         NEW ok \in BOOLEAN, target[1] \in resolvable => ~ok,
         NEW c \in 0 .. Len(conns), Answer(target[1], ok, c, 0)
  PROVE  IInv'
<1> DEFINE t == target[1]
<1>1. /\ t \in Targets /\ t \in asked /\ Untouched(t)
      /\ \A i \in 1 .. Len(cxPipe) : cxPipe[i] # t
  BY WorkTarget
<1>2. Answer(t, ok, c, 0) /\ (t \in resolvable => ~ok)
  OBVIOUS
<1> HIDE DEF t
<1>3. /\ results' \in [Targets -> Seq(Results)] /\ AnswersInv'
      /\ \A u \in Targets : u # t => results'[u] = results[u]
  <2>1. /\ results[t] = <<>> /\ PoolTyped /\ AnswersInv /\ ConnsKept
        /\ results \in [Targets -> Seq(Results)]
    BY <1>1 DEF IInv, Typed, PoolTyped, Untouched, ConnsKept
  <2>2. \A u \in Targets : u # t => results'[u] = results[u]
    BY <1>2, <2>1 DEF Answer
  <2> QED
    BY <1>1, <1>2, <2>1, <2>2, NewAnswer
<1>4. Typed'
  <2>1. ThreadTyped' /\ AskedOnly'
    BY GotoTyped DEF IInv, Typed
  <2>2. PoolTyped'
    BY <1>3 DEF IInv, Typed, PoolTyped
  <2> QED
    BY <2>1, <2>2 DEF Typed
<1>5. PlaceInv' /\ ConnsInv'
  <2>1. ~Working'
    BY DEF Goto, Working
  <2>2. /\ \A i \in 1 .. Len(cxPipe') : \E j \in 1 .. Len(cxPipe) : cxPipe'[i] = cxPipe[j]
        /\ \A i \in 1 .. Len(cxPipe') : cxPipe'[i] # t
        /\ \A i, j \in 1 .. Len(cxPipe') : cxPipe'[i] = cxPipe'[j] => i = j
        /\ Len(cxPipe) \in Nat
    <3>0. cxPipe \in Seq(Targets)
      BY DEF IInv, Typed, ThreadTyped
    <3>1. Len(cxPipe) \in Nat
      BY <3>0
    <3>2. \A i, j \in 1 .. Len(cxPipe) : cxPipe[i] = cxPipe[j] => i = j
      BY DEF IInv, PlaceInv
    <3> QED
      BY <1>1, <3>1, <3>2
  <2> QED
    BY <1>1, <1>3, <2>1, <2>2, ErrorPlaces
<1> QED
  BY <1>3, <1>4, <1>5 DEF IInv

LEMMA StepConnectRoutineFails ==
  ASSUME IInv, ConnectRoutineFails
  PROVE  IInv'
<1>1. /\ Working /\ asked' = asked /\ cxPipe' = cxPipe /\ conn' = conn /\ conns' = conns
      /\ resolvable' = resolvable /\ Goto("wait") /\ Answer(target[1], FALSE, NoConn, 0)
  BY DEF ConnectRoutineFails, Resolved, Working
<1>2. conns \in Seq(Conns) /\ 0 \in 0 .. Len(conns)
  BY DEF IInv, Typed, PoolTyped
<1>3. NoConn = 0
  BY DEF NoConn
<1> QED
  BY <1>1, <1>2, <1>3, ErrorStep

LEMMA StepCallbackWithStaleConn ==
  ASSUME IInv, Working, NEW ok \in BOOLEAN, target[1] \in resolvable => ~ok,
         CallbackWithStaleConn(ok)
  PROVE  IInv'
<1>1. /\ resolvable' = resolvable /\ asked' = asked /\ cxPipe' = cxPipe /\ conn' = conn
      /\ conns \in Seq(Conns) /\ PoolTyped
  BY DEF CallbackWithStaleConn, IInv, Typed, PoolTyped
<1>2. CASE conn = NoConn
  <2>1. Goto("aborted") /\ conns' = conns /\ results' = results
    BY <1>2 DEF CallbackWithStaleConn
  <2>2. Typed'
    <3>1. ThreadTyped' /\ AskedOnly'
      BY <1>1, <2>1, GotoTyped DEF IInv, Typed
    <3>2. PoolTyped'
      BY <1>1, <2>1 DEF PoolTyped
    <3> QED
      BY <3>1, <3>2 DEF Typed
  <2>3. PlaceInv'
    BY <1>1, <2>1 DEF IInv, PlaceInv, Untouched, Working, Goto
  <2> QED
    BY <1>1, <2>1, <2>2, <2>3, Quiet DEF IInv
<1>3. CASE conn # NoConn
  <2>1. /\ Goto("wait") /\ Answer(target[1], ok, conn, 0)
        /\ conns' = [conns EXCEPT ![conn].queryCount = 0]
    BY <1>3 DEF CallbackWithStaleConn
  <2>2. conn \in 1 .. Len(conns) /\ conn \in 0 .. Len(conns)
    <3>1. conn \in 1 .. Len(conns)
      BY <1>1, <1>3 DEF PoolTyped
    <3>2. \A n \in Nat : \A c \in 1 .. n : c \in 0 .. n
      OBVIOUS
    <3>3. Len(conns) \in Nat
      BY <1>1, LenProperties
    <3> QED
      BY <3>1, <3>2, <3>3
  <2> DEFINE r == [conns[conn] EXCEPT !.queryCount = 0]
  <2>3. /\ r \in Conns /\ r.target = conns[conn].target /\ r.todo = conns[conn].todo
        /\ r.sent = conns[conn].sent
    BY <1>1, <2>2, ConnFields DEF Conns
  <2>4. conns' = [conns EXCEPT ![conn] = r]
    BY <2>1
  <2> HIDE DEF r
  <2>5. /\ conns' \in Seq(Conns) /\ Len(conns') = Len(conns) /\ conns'[conn] = r
        /\ \A d \in 1 .. Len(conns) : d # conn => conns'[d] = conns[d]
    BY <2>2, <2>3, <2>4, ChangedConnection DEF IInv
  <2> QED
    BY <1>1, <2>1, <2>2, <2>3, <2>5, ErrorStep
<1> QED
  BY <1>2, <1>3

LEMMA StepWithoutConnection ==
  ASSUME IInv, Unresolved \/ SocketError
  PROVE  IInv'
BY StepCallbackWithStaleConn DEF Unresolved, SocketError, Working
-----------------------------------------------------------------------------
(***************************************************************************)
(* A new connection.                                                       *)
(***************************************************************************)
LEMMA ConnectKeeps ==
  ASSUME Typed, NEW r \in Conns, conns' = Append(conns, r)
  PROVE  /\ conns' \in Seq(Conns) /\ Len(conns') = Len(conns) + 1 /\ Len(conns) \in Nat
         /\ conns'[Len(conns) + 1] = r /\ ConnsKept
         /\ \A c \in 1 .. Len(conns) : conns'[c] = conns[c]
<1>1. /\ conns' \in Seq(Conns) /\ Len(conns') = Len(conns) + 1
      /\ conns'[Len(conns) + 1] = r
      /\ \A c \in 1 .. Len(conns) : conns'[c] = conns[c]
  BY NewConnection
<1>2. Len(conns) \in Nat
  BY DEF Typed, PoolTyped
<1> QED
  BY <1>1, <1>2 DEF ConnsKept

LEMMA ConnectStep ==
  ASSUME IInv, Working, asked' = asked, cxPipe' = cxPipe,
         NEW state \in {"wait", "count"}, Goto(state),
         NEW r \in Conns, r.target = target[1], r.sent <= MaxRounds,
         conns' = Append(conns, r), conn' = Len(conns) + 1,
         results' \in [Targets -> Seq(Results)], AnswersInv',
         \A u \in Targets : u # target[1] => results'[u] = results[u],
         r.todo # <<>> => results'[target[1]] = <<>>
  PROVE  IInv'
<1> DEFINE t == target[1]
<1>1. /\ t \in Targets /\ t \in asked /\ Untouched(t)
      /\ \A i \in 1 .. Len(cxPipe) : cxPipe[i] # t
  BY WorkTarget
<1>2. /\ r.target = t /\ \A u \in Targets : u # t => results'[u] = results[u]
      /\ r.todo # <<>> => results'[t] = <<>>
  OBVIOUS
<1> HIDE DEF t
<1>3. /\ conns' \in Seq(Conns) /\ Len(conns') = Len(conns) + 1 /\ Len(conns) \in Nat
      /\ conns'[Len(conns) + 1] = r
      /\ \A c \in 1 .. Len(conns) : conns'[c] = conns[c]
  BY ConnectKeeps DEF IInv
<1>4. Typed'
  <2>1. ThreadTyped' /\ AskedOnly'
    BY GotoTyped DEF IInv, Typed, Working
  <2>2. conn' \in {NoConn} \cup 1 .. Len(conns')
    BY <1>3
  <2>3. \A c \in 1 .. Len(conns') : conns'[c].sent <= MaxRounds
    <3>1. \A c \in 1 .. Len(conns) : conns[c].sent <= MaxRounds
      BY DEF IInv, Typed, PoolTyped
    <3>2. \A c \in 1 .. Len(conns') : c = Len(conns) + 1 \/ c \in 1 .. Len(conns)
      BY <1>3
    <3> QED
      BY <1>3, <3>1, <3>2
  <2>4. PoolTyped'
    BY <1>3, <2>2, <2>3 DEF PoolTyped
  <2> QED
    BY <2>1, <2>4 DEF Typed
<1>5. \A c \in 1 .. Len(conns') : c = Len(conns) + 1 \/ c \in 1 .. Len(conns)
  BY <1>3
<1>6. \A u \in Targets : u # t /\ Untouched(u) => Untouched(u)'
  BY <1>2, <1>3, <1>5 DEF Untouched
<1>7. PlaceInv'
  <2>1. ~Working'
    BY DEF Goto, Working
  <2>2. \A u \in Targets \ asked' : Untouched(u)'
    BY <1>1, <1>6 DEF IInv, PlaceInv
  <2>3. (\A i \in 1 .. Len(cxPipe) : Untouched(cxPipe[i]))'
    <3>1. \A i \in 1 .. Len(cxPipe) : Untouched(cxPipe[i]) /\ cxPipe[i] \in Targets /\ cxPipe[i] # t
      BY <1>1 DEF IInv, PlaceInv, Typed, AskedOnly
    <3> QED
      BY <1>6, <3>1 DEF Untouched
  <2>4. (\A i, j \in 1 .. Len(cxPipe) : cxPipe[i] = cxPipe[j] => i = j)'
    BY DEF IInv, PlaceInv
  <2> QED
    BY <2>1, <2>2, <2>3, <2>4 DEF PlaceInv
<1>8. ConnsInv'
  <2>1. /\ \A c \in 1 .. Len(conns) : conns[c].target # t /\ conns[c].target \in Targets
        /\ \A c, d \in 1 .. Len(conns) : conns[c].target = conns[d].target => c = d
        /\ \A c \in 1 .. Len(conns) : conns[c].todo # <<>> => results[conns[c].target] = <<>>
    BY <1>1, ConnFields DEF IInv, ConnsInv, Untouched, Typed
  <2>2. \A c, d \in 1 .. Len(conns') : conns'[c].target = conns'[d].target => c = d
    BY <1>2, <1>3, <1>5, <2>1
  <2>3. \A c \in 1 .. Len(conns') : conns'[c].todo # <<>> => results'[conns'[c].target] = <<>>
    BY <1>2, <1>3, <1>5, <2>1
  <2> QED
    BY <2>2, <2>3 DEF ConnsInv
<1> QED
  BY <1>4, <1>7, <1>8 DEF IInv

\* The record of a new connection.
LEMMA NewConnType ==
  ASSUME IInv, Working, NEW todo \in Seq({"proxy", "tls"}), NEW sent \in {0, 1}
  PROVE  /\ NewConn(todo, sent) \in Conns /\ NewConn(todo, sent).target = target[1]
         /\ NewConn(todo, sent).todo = todo /\ NewConn(todo, sent).sent <= MaxRounds
<1>1. target[1] \in Targets
  BY WorkTarget
<1>2. sent <= MaxRounds /\ sent \in Nat
  BY MaxRoundsAssumption
<1> QED
  BY <1>1, <1>2 DEF NewConn, Conns

LEMMA StepExecuteHandshake ==
  ASSUME IInv, ExecuteHandshake
  PROVE  IInv'
<1> DEFINE r == NewConn(Handshakes[target[1]], 1)
<1>1. /\ Working /\ asked' = asked /\ cxPipe' = cxPipe /\ Goto("count")
      /\ resolvable' = resolvable
      /\ conns' = Append(conns, r) /\ conn' = Len(conns) + 1 /\ results' = results
  BY DEF ExecuteHandshake, Working, CTGetNextPoolConnection
<1>2. target[1] \in Targets /\ Untouched(target[1])
  BY <1>1, WorkTarget
<1>3. Handshakes[target[1]] \in Seq({"proxy", "tls"})
  BY <1>2, HandshakesAssumption
<1>4. r \in Conns /\ r.target = target[1] /\ r.sent <= MaxRounds
  BY <1>1, <1>3, NewConnType
<1> HIDE DEF r
<1>5. AnswersInv' /\ results' \in [Targets -> Seq(Results)]
  <2>1. conns' \in Seq(Conns) /\ ConnsKept /\ Len(conns') = Len(conns) + 1
    BY <1>1, <1>4, ConnectKeeps DEF IInv
  <2>2. \A c \in 1 .. Len(conns) : conns'[c] = conns[c]
    BY <1>1, <1>4, ConnectKeeps DEF IInv
  <2> QED
    BY <1>1, <2>1, SameAnswers DEF IInv, Typed, PoolTyped
<1> QED
  BY <1>1, <1>2, <1>4, <1>5, ConnectStep DEF Untouched

\* The steps that connect and call back at once.
LEMMA StepExecuteAnswered ==
  ASSUME IInv, ExecuteHandshakeFails \/ ExecutePlain
  PROVE  IInv'
<1> DEFINE r == NewConn(<<>>, 0)
           t == target[1]
<1>1. /\ Working /\ asked' = asked /\ cxPipe' = cxPipe /\ Goto("wait")
      /\ resolvable' = resolvable
      /\ conns' = Append(conns, r) /\ conn' = Len(conns) + 1
  BY DEF ExecuteHandshakeFails, ExecutePlain, Working, CTGetNextPoolConnection
<1>2. PICK ok \in BOOLEAN : Answer(t, ok, conn', 0)
  BY DEF ExecuteHandshakeFails, ExecutePlain
<1>3. t \in Targets /\ results[t] = <<>>
  BY <1>1, WorkTarget DEF Untouched
<1>4. r \in Conns /\ r.target = t /\ r.sent <= MaxRounds /\ r.todo = <<>>
  <2>1. <<>> \in Seq({"proxy", "tls"})
    OBVIOUS
  <2> QED
    BY <1>1, <2>1, NewConnType
<1>5. r.target = target[1] /\ \A u \in Targets : u # target[1] => u # t
  BY <1>4
<1> HIDE DEF r
<1>6. /\ conns' \in Seq(Conns) /\ ConnsKept /\ Len(conns') = Len(conns) + 1
      /\ Len(conns) \in Nat /\ conns'[Len(conns) + 1] = r
  BY <1>1, <1>4, ConnectKeeps DEF IInv
<1>7. /\ results' \in [Targets -> Seq(Results)] /\ AnswersInv'
      /\ \A u \in Targets : u # t => results'[u] = results[u]
  <2>1. /\ conn' \in 0 .. Len(conns') /\ conn' # 0
        /\ conns'[conn'].target = t /\ conns'[conn'].todo = <<>>
    BY <1>1, <1>4, <1>6
  <2>2. PoolTyped /\ AnswersInv /\ results \in [Targets -> Seq(Results)]
    BY DEF IInv, Typed, PoolTyped
  <2>3. \A u \in Targets : u # t => results'[u] = results[u]
    BY <1>2, <2>2 DEF Answer
  <2> HIDE DEF t
  <2> QED
    BY <1>1, <1>2, <1>3, <1>6, <2>1, <2>2, <2>3, NewAnswer
<1> QED
  BY <1>1, <1>4, <1>5, <1>7, ConnectStep
-----------------------------------------------------------------------------
(***************************************************************************)
(* A connection that is changed.                                           *)
(***************************************************************************)
LEMMA ChangeKeeps ==
  ASSUME Typed, NEW c \in 1 .. Len(conns), NEW r \in Conns,
         conns' = [conns EXCEPT ![c] = r], r.target = conns[c].target,
         conns[c].todo = <<>> => r.todo = <<>>
  PROVE  /\ conns' \in Seq(Conns) /\ Len(conns') = Len(conns) /\ Len(conns) \in Nat
         /\ conns'[c] = r /\ ConnsKept
         /\ \A d \in 1 .. Len(conns) : d # c => conns'[d] = conns[d]
<1>1. /\ conns' \in Seq(Conns) /\ Len(conns') = Len(conns)
      /\ conns'[c] = r
      /\ \A d \in 1 .. Len(conns) : d # c => conns'[d] = conns[d]
  BY ChangedConnection
<1>2. Len(conns) \in Nat
  BY LenProperties DEF Typed, PoolTyped
<1> QED
  BY <1>1, <1>2 DEF ConnsKept

LEMMA ChangeStep ==
  ASSUME IInv, asked' = asked, cxPipe' = cxPipe, conn' = conn,
         ThreadTyped', AskedOnly', Working' => Working /\ target' = target,
         NEW c \in 1 .. Len(conns), NEW r \in Conns, r.sent <= MaxRounds,
         conns' = [conns EXCEPT ![c] = r], r.target = conns[c].target,
         conns[c].todo = <<>> => r.todo = <<>>,
         results' \in [Targets -> Seq(Results)], AnswersInv',
         \A u \in Targets : u # conns[c].target => results'[u] = results[u],
         r.todo # <<>> => results'[conns[c].target] = <<>>
  PROVE  IInv'
<1>1. /\ conns' \in Seq(Conns) /\ Len(conns') = Len(conns) /\ Len(conns) \in Nat
      /\ conns'[c] = r
      /\ \A d \in 1 .. Len(conns) : d # c => conns'[d] = conns[d]
  BY ChangeKeeps DEF IInv
<1>2. Typed'
  <2>1. PoolTyped'
    BY <1>1 DEF IInv, Typed, PoolTyped
  <2> QED
    BY <2>1 DEF Typed
<1>3. \A u \in Targets : Untouched(u) => Untouched(u)'
  BY <1>1 DEF Untouched
<1>4. PlaceInv'
  <2>1. \A u \in Targets \ asked' : Untouched(u)'
    BY <1>3 DEF IInv, PlaceInv
  <2>2. (\A i \in 1 .. Len(cxPipe) : Untouched(cxPipe[i]))'
    <3>1. \A i \in 1 .. Len(cxPipe) : Untouched(cxPipe[i]) /\ cxPipe[i] \in Targets
      BY DEF IInv, PlaceInv, Typed, AskedOnly
    <3> QED
      BY <1>3, <3>1 DEF Untouched
  <2>3. (\A i, j \in 1 .. Len(cxPipe) : cxPipe[i] = cxPipe[j] => i = j)'
    BY DEF IInv, PlaceInv
  <2>4. (Working => Untouched(target[1]))'
    <3>1. Working => Untouched(target[1]) /\ target[1] \in Targets
      BY WorkTarget
    <3> QED
      BY <1>3, <3>1 DEF Untouched
  <2>5. (Working => \A i \in 1 .. Len(cxPipe) : cxPipe[i] # target[1])'
    BY DEF IInv, PlaceInv
  <2> QED
    BY <2>1, <2>2, <2>3, <2>4, <2>5 DEF PlaceInv
<1>5. ConnsInv'
  <2>1. /\ \A d \in 1 .. Len(conns) : conns[d].target \in Targets
        /\ \A d, e \in 1 .. Len(conns) : conns[d].target = conns[e].target => d = e
        /\ \A d \in 1 .. Len(conns) : conns[d].todo # <<>> => results[conns[d].target] = <<>>
    BY ConnFields DEF IInv, ConnsInv, Typed
  <2>2. \A d, e \in 1 .. Len(conns') : conns'[d].target = conns'[e].target => d = e
    BY <1>1, <2>1
  <2>3. \A d \in 1 .. Len(conns') : conns'[d].todo # <<>> => results'[conns'[d].target] = <<>>
    BY <1>1, <2>1
  <2> QED
    BY <2>2, <2>3 DEF ConnsInv
<1> QED
  BY <1>2, <1>4, <1>5 DEF IInv

\* A connection with other counts, or other handshakes to do.
LEMMA ConnWith ==
  ASSUME NEW x \in Conns, NEW n \in Nat, NEW s \in Nat, NEW td \in Seq({"proxy", "tls"}),
         NEW r, r = [target |-> x.target, queryCount |-> n, todo |-> td, sent |-> s]
  PROVE  r \in Conns /\ r.target = x.target /\ r.queryCount = n /\ r.todo = td /\ r.sent = s
BY DEF Conns

LEMMA ConnMessages ==
  ASSUME NEW x \in Conns
  PROVE  /\ [x EXCEPT !.sent = @ + 1, !.queryCount = @ + 1]
              = [target |-> x.target, queryCount |-> x.queryCount + 1, todo |-> x.todo,
                 sent |-> x.sent + 1]
         /\ [x EXCEPT !.todo = Tail(@), !.sent = 1, !.queryCount = @ + 1]
              = [target |-> x.target, queryCount |-> x.queryCount + 1, todo |-> Tail(x.todo),
                 sent |-> 1]
<1>1. PICK t \in Targets, n \in Nat, td \in Seq({"proxy", "tls"}), s \in Nat :
        x = [target |-> t, queryCount |-> n, todo |-> td, sent |-> s]
  BY DEF Conns
<1>2. /\ x.target = t /\ x.queryCount = n /\ x.todo = td /\ x.sent = s
  BY <1>1
<1>3. [x EXCEPT !.sent = @ + 1, !.queryCount = @ + 1]
        = [target |-> t, queryCount |-> n + 1, todo |-> td, sent |-> s + 1]
  <2>1. PICK y : y = [x EXCEPT !.sent = x.sent + 1]
    OBVIOUS
  <2>2. y = [target |-> t, queryCount |-> n, todo |-> td, sent |-> s + 1]
    BY <1>1, <2>1
  <2>3. [y EXCEPT !.queryCount = x.queryCount + 1]
          = [target |-> t, queryCount |-> n + 1, todo |-> td, sent |-> s + 1]
    BY <1>2, <2>2
  <2>4. [[x EXCEPT !.sent = x.sent + 1] EXCEPT !.queryCount = x.queryCount + 1]
          = [x EXCEPT !.sent = x.sent + 1, !.queryCount = x.queryCount + 1]
    OBVIOUS
  <2> QED
    BY <2>1, <2>3, <2>4, Zenon
<1>4. [x EXCEPT !.todo = Tail(@), !.sent = 1, !.queryCount = @ + 1]
        = [target |-> t, queryCount |-> n + 1, todo |-> Tail(td), sent |-> 1]
  <2>1. PICK y : y = [x EXCEPT !.todo = Tail(x.todo)]
    OBVIOUS
  <2> DEFINE w == Tail(td)
  <2>2. y = [target |-> t, queryCount |-> n, todo |-> w, sent |-> s]
    BY <1>1, <2>1
  <2> HIDE DEF w
  <2>3. PICK z : z = [y EXCEPT !.sent = 1]
    OBVIOUS
  <2>4. z = [target |-> t, queryCount |-> n, todo |-> w, sent |-> 1]
    BY <2>2, <2>3
  <2>5. [z EXCEPT !.queryCount = x.queryCount + 1]
          = [target |-> t, queryCount |-> n + 1, todo |-> w, sent |-> 1]
    <3>1. PICK m : m = x.queryCount + 1 /\ m = n + 1
      BY <1>2
    <3>2. [z EXCEPT !.queryCount = m]
            = [target |-> t, queryCount |-> m, todo |-> w, sent |-> 1]
      BY <2>4
    <3> QED
      BY <3>1, <3>2
  <2>6. [[[x EXCEPT !.todo = Tail(x.todo)] EXCEPT !.sent = 1]
            EXCEPT !.queryCount = x.queryCount + 1]
          = [x EXCEPT !.todo = Tail(x.todo), !.sent = 1, !.queryCount = x.queryCount + 1]
    OBVIOUS
  <2> QED
    BY <2>1, <2>3, <2>5, <2>6, Zenon DEF w
<1> QED
  BY <1>2, <1>3, <1>4

\* The query is counted; with no connection there would be nothing to count in.
LEMMA StepCountQuery ==
  ASSUME IInv, CountQuery
  PROVE  IInv'
<1>1. /\ cxpc = "count" /\ asked' = asked /\ cxPipe' = cxPipe /\ conn' = conn
      /\ resolvable' = resolvable
      /\ results' = results /\ Goto("wait")
      /\ conns' = [conns EXCEPT ![conn].queryCount = @ + 1]
  BY DEF CountQuery
<1>2. ThreadTyped' /\ AskedOnly'
  BY <1>1, GotoTyped DEF IInv, Typed
<1>3. ~Working'
  BY <1>1 DEF Goto, Working
<1>4. PoolTyped /\ conns \in Seq(Conns)
  BY DEF IInv, Typed, PoolTyped
<1>5. CASE conn \in 1 .. Len(conns)
  <2> DEFINE x == conns[conn]
             n == x.queryCount + 1
             r == [target |-> x.target, queryCount |-> n, todo |-> x.todo, sent |-> x.sent]
  <2>0. /\ x \in Conns /\ x.queryCount \in Nat /\ x.sent \in Nat
        /\ x.todo \in Seq({"proxy", "tls"})
    BY <1>4, <1>5, ConnFields
  <2>1. /\ r \in Conns /\ r.target = x.target /\ r.todo = x.todo /\ r.sent = x.sent
    <3>1. n \in Nat
      BY <2>0
    <3> HIDE DEF n, x
    <3> QED
      BY <2>0, <3>1, ConnWith
  <2>2. r.sent <= MaxRounds
    BY <1>4, <1>5, <2>1 DEF PoolTyped
  <2>3. conns' = [conns EXCEPT ![conn] = r]
    <3>1. [x EXCEPT !.queryCount = @ + 1] = r
      BY <2>0 DEF Conns
    <3> QED
      BY <1>1, <3>1
  <2> HIDE DEF r
  <2>4. AnswersInv'
    <3>1. conns' \in Seq(Conns) /\ ConnsKept
      BY <1>5, <2>1, <2>3, ChangeKeeps DEF IInv
    <3> QED
      BY <1>1, <1>4, <3>1, SameAnswers DEF IInv
  <2>5. r.todo # <<>> => results'[conns[conn].target] = <<>>
    BY <1>1, <1>5, <2>1 DEF IInv, ConnsInv
  <2>6. results' \in [Targets -> Seq(Results)]
    BY <1>1, <1>4 DEF PoolTyped
  <2> QED
    BY <1>1, <1>2, <1>3, <1>5, <2>1, <2>2, <2>3, <2>4, <2>5, <2>6, ChangeStep
<1>6. CASE conn \notin 1 .. Len(conns)
  <2>1. conns' = conns
    BY <1>1, <1>4, <1>6
  <2>2. Typed'
    BY <1>1, <1>2, <1>4, <2>1 DEF Typed, PoolTyped
  <2>3. PlaceInv'
    BY <1>1, <1>3, <2>1 DEF IInv, PlaceInv, Untouched
  <2> QED
    BY <1>1, <2>1, <2>2, <2>3, Quiet DEF IInv
<1> QED
  BY <1>5, <1>6

\* What a message of a handshake makes of its connection.
LEMMA HandshakeConn ==
  ASSUME IInv, NEW c \in PoolConns, c \in 1 .. Len(conns),
         HandshakeMessage(c) \/ ProxyThenTls(c)
  PROVE  \E r \in Conns : /\ conns' = [conns EXCEPT ![c] = r]
                          /\ r.target = conns[c].target /\ r.sent <= MaxRounds
<1>f1. conns[c].todo # <<>>
  BY DEF HandshakeMessage, ProxyThenTls, InHandshake
<1>f2. PoolTyped
  BY DEF IInv, Typed
<1>f3. /\ conns[c] \in Conns /\ conns[c].target \in Targets
       /\ conns[c].queryCount \in Nat /\ conns[c].todo \in Seq({"proxy", "tls"})
       /\ conns[c].sent \in Nat
  BY <1>f2, ConnFields
<1>1. CASE HandshakeMessage(c)
  <2> DEFINE x == conns[c]
             n == x.queryCount + 1
             s == x.sent + 1
             r == [target |-> x.target, queryCount |-> n, todo |-> x.todo, sent |-> s]
  <2>1. r \in Conns /\ r.target = x.target /\ r.sent = x.sent + 1
    <3>1. x \in Conns /\ x.todo \in Seq({"proxy", "tls"}) /\ n \in Nat /\ s \in Nat
      BY <1>f3
    <3>2. r.sent = x.sent + 1
      OBVIOUS
    <3> HIDE DEF n, s, x
    <3>3. r \in Conns /\ r.target = x.target
      BY <3>1, ConnWith
    <3> QED
      BY <3>2, <3>3
  <2>2. r.sent <= MaxRounds
    <3>1. conns[c].sent < MaxRounds
      BY <1>1 DEF HandshakeMessage
    <3>2. \A a, b \in Nat : a < b => a + 1 <= b
      OBVIOUS
    <3>3. MaxRounds \in Nat
      BY MaxRoundsAssumption
    <3> QED
      BY <1>f3, <2>1, <3>1, <3>2, <3>3
  <2>3. conns' = [conns EXCEPT ![c] = r]
    <3>1. [x EXCEPT !.sent = @ + 1, !.queryCount = @ + 1] = r
      BY <1>f3, ConnMessages
    <3> QED
      BY <1>1, <3>1 DEF HandshakeMessage
  <2> HIDE DEF r
  <2> QED
    BY <2>1, <2>2, <2>3
<1>2. CASE ProxyThenTls(c)
  <2> DEFINE x == conns[c]
             n == x.queryCount + 1
             td == Tail(x.todo)
             r == [target |-> x.target, queryCount |-> n, todo |-> td, sent |-> 1]
  <2>1. Tail(conns[c].todo) \in Seq({"proxy", "tls"})
    BY <1>f1, <1>f3, HeadAndTail
  <2>2. r \in Conns /\ r.target = x.target /\ r.sent = 1
    <3>1. x \in Conns /\ td \in Seq({"proxy", "tls"}) /\ n \in Nat /\ 1 \in Nat
      BY <1>f3, <2>1
    <3> HIDE DEF n, td, x
    <3> QED
      BY <3>1, ConnWith
  <2>3. r.sent <= MaxRounds
    BY <2>2, MaxRoundsAssumption
  <2>4. conns' = [conns EXCEPT ![c] = r]
    <3>1. [x EXCEPT !.todo = Tail(@), !.sent = 1, !.queryCount = @ + 1] = r
      BY <1>f3, ConnMessages
    <3> QED
      BY <1>2, <3>1 DEF ProxyThenTls
  <2> HIDE DEF r
  <2> QED
    BY <2>2, <2>3, <2>4
<1> QED
  BY <1>1, <1>2

\* What the end of a handshake makes of its connection, and tells its client.
LEMMA HandshakeAnswer ==
  ASSUME IInv, NEW c \in PoolConns, c \in 1 .. Len(conns),
         HandshakeDone(c) \/ HandshakeFails(c) \/ HandshakeCut(c) \/ RoutineFails(c)
  PROVE  LET t == conns[c].target IN
         \E r \in Conns, ok \in BOOLEAN, n \in Nat :
           /\ conns' = [conns EXCEPT ![c] = r] /\ Answer(t, ok, c, n)
           /\ r.target = t /\ r.todo = <<>> /\ r.sent <= MaxRounds
           /\ ok => n = 0
<1> DEFINE t == conns[c].target
<1> SUFFICES \E r \in Conns, ok \in BOOLEAN, n \in Nat :
               /\ conns' = [conns EXCEPT ![c] = r] /\ Answer(t, ok, c, n)
               /\ r.target = t /\ r.todo = <<>> /\ r.sent <= MaxRounds
               /\ ok => n = 0
  OBVIOUS
<1>f2. PoolTyped
  BY DEF IInv, Typed
<1>f3. /\ conns[c] \in Conns /\ conns[c].queryCount \in Nat /\ conns[c].sent \in Nat
  BY <1>f2, ConnFields
<1>f4. conns[c].sent <= MaxRounds
  BY <1>f2 DEF PoolTyped
<1>0. <<>> \in Seq({"proxy", "tls"})
  OBVIOUS
<1>1. CASE HandshakeDone(c) \/ HandshakeCut(c)
  <2> DEFINE r == [conns[c] EXCEPT !.todo = <<>>, !.queryCount = 0]
  <2>1. r \in Conns /\ r.target = t /\ r.sent = conns[c].sent /\ r.todo = <<>>
    BY <1>f3, <1>0 DEF Conns
  <2>2. PICK ok \in BOOLEAN : conns' = [conns EXCEPT ![c] = r] /\ Answer(t, ok, c, 0)
    BY <1>1 DEF HandshakeDone, HandshakeCut
  <2> HIDE DEF r, t
  <2> QED
    BY <1>f4, <2>1, <2>2
<1>2. CASE HandshakeFails(c) \/ RoutineFails(c)
  <2> DEFINE r == [conns[c] EXCEPT !.todo = <<>>]
  <2>1. r \in Conns /\ r.target = t /\ r.sent = conns[c].sent /\ r.todo = <<>>
    BY <1>f3, <1>0 DEF Conns
  <2>2. conns' = [conns EXCEPT ![c] = r] /\ Answer(t, FALSE, c, conns[c].queryCount)
    BY <1>2 DEF HandshakeFails, RoutineFails
  <2> HIDE DEF r, t
  <2> QED
    BY <1>f3, <1>f4, <2>1, <2>2
<1> QED
  BY <1>1, <1>2

\* What a step of a handshake may do to its connection and its client.
LEMMA StepHandshake ==
  ASSUME IInv, NEW c \in PoolConns,
         \/ HandshakeMessage(c) \/ ProxyThenTls(c) \/ HandshakeDone(c)
         \/ HandshakeFails(c) \/ HandshakeCut(c) \/ RoutineFails(c)
  PROVE  IInv'
<1>1. /\ c \in 1 .. Len(conns) /\ conns[c].todo # <<>>
      /\ UNCHANGED <<resolvable, asked, cxPipe, cxpc, target, conn>>
  BY DEF HandshakeMessage, ProxyThenTls, HandshakeDone, HandshakeFails, HandshakeCut, RoutineFails,
         InHandshake
<1>2. PoolTyped /\ Typed /\ AnswersInv
  BY DEF IInv, Typed
<1>3. /\ conns[c] \in Conns /\ conns[c].target \in Targets
      /\ conns[c].queryCount \in Nat /\ conns[c].todo \in Seq({"proxy", "tls"})
      /\ conns[c].sent \in Nat
  BY <1>1, <1>2, ConnFields
<1>4. results[conns[c].target] = <<>> /\ conns[c].sent <= MaxRounds
  BY <1>1, <1>2 DEF IInv, ConnsInv, PoolTyped
<1>5. ThreadTyped' /\ AskedOnly' /\ (Working' => Working /\ target' = target)
  BY <1>1 DEF IInv, Typed, ThreadTyped, AskedOnly, Working
<1>6. CASE HandshakeMessage(c) \/ ProxyThenTls(c)
  <2>1. PICK r \in Conns : /\ conns' = [conns EXCEPT ![c] = r]
                           /\ r.target = conns[c].target /\ r.sent <= MaxRounds
    BY <1>1, <1>6, HandshakeConn
  <2>2. results' = results
    BY <1>6 DEF HandshakeMessage, ProxyThenTls
  <2>3. AnswersInv'
    <3>1. conns' \in Seq(Conns) /\ ConnsKept
      BY <1>1, <1>2, <2>1, ChangeKeeps
    <3> QED
      BY <1>1, <1>2, <2>2, <3>1, SameAnswers
  <2>4. /\ results' \in [Targets -> Seq(Results)] /\ results'[conns[c].target] = <<>>
        /\ \A u \in Targets : results'[u] = results[u]
    BY <1>2, <1>4, <2>2 DEF PoolTyped
  <2> QED
    BY <1>1, <1>5, <2>1, <2>3, <2>4, ChangeStep
<1>7. CASE HandshakeDone(c) \/ HandshakeFails(c) \/ HandshakeCut(c) \/ RoutineFails(c)
  <2> DEFINE t == conns[c].target
  <2>1. PICK r \in Conns, ok \in BOOLEAN, n \in Nat :
          /\ conns' = [conns EXCEPT ![c] = r] /\ Answer(t, ok, c, n)
          /\ r.target = t /\ r.todo = <<>> /\ r.sent <= MaxRounds
          /\ ok => n = 0
    BY <1>1, <1>7, HandshakeAnswer
  <2>2. /\ conns' \in Seq(Conns) /\ ConnsKept /\ Len(conns') = Len(conns)
        /\ Len(conns) \in Nat /\ conns'[c] = r
    BY <1>1, <1>2, <2>1, ChangeKeeps
  <2>3. \A u \in Targets : u # t => results'[u] = results[u]
    BY <1>2, <2>1 DEF Answer, PoolTyped
  <2>4. results' \in [Targets -> Seq(Results)] /\ AnswersInv'
    <3>1. c \in 0 .. Len(conns') /\ c # 0
      BY <1>1, <2>2
    <3>2. t \in Targets /\ results[t] = <<>>
      BY <1>3, <1>4
    <3> HIDE DEF t
    <3> QED
      BY <1>1, <1>2, <2>1, <2>2, <3>1, <3>2, NewAnswer
  <2> QED
    BY <1>1, <1>5, <2>1, <2>3, <2>4, ChangeStep
<1> QED
  BY <1>6, <1>7
-----------------------------------------------------------------------------
LEMMA IInvStep == IInv /\ [Next]_vars => IInv'
<1> SUFFICES ASSUME IInv, [Next]_vars
             PROVE  IInv'
  OBVIOUS
<1>1. CASE \E t \in Targets : CTTargetConnectOnQueue(t)
  BY <1>1, StepAsk
<1>2. CASE CxThread
  BY <1>2, StepResolveHostFails, StepTake, StepWithoutConnection, StepConnectRoutineFails, StepQuiet,
     StepExecuteHandshake, StepExecuteAnswered, StepCountQuery DEF CxThread
<1>3. CASE \E c \in PoolConns : Handshake(c)
  <2>1. PICK c \in PoolConns : Handshake(c)
    BY <1>3
  <2>2. CASE HandshakeAborts(c)
    BY <2>2, StepQuiet
  <2>3. CASE ~HandshakeAborts(c)
    BY <2>1, <2>3, StepHandshake DEF Handshake
  <2> QED
    BY <2>2, <2>3
<1>4. CASE UNCHANGED vars
  <2>1. Typed'
    BY <1>4 DEF vars, IInv, Typed, ThreadTyped, AskedOnly, PoolTyped
  <2>2. PlaceInv'
    BY <1>4 DEF vars, IInv, PlaceInv, Untouched, Working
  <2> QED
    BY <1>4, <2>1, <2>2, Quiet DEF vars, IInv
<1> QED
  BY <1>1, <1>2, <1>3, <1>4 DEF Next

LEMMA Invariance == Spec => []IInv
<1>1. Init => IInv
  BY IInvInit
<1>2. IInv /\ [Next]_vars => IInv'
  BY IInvStep
<1> QED
  BY <1>1, <1>2, PTL DEF Spec

\* No more connections than targets: each was made for a target of its own.
LEMMA PoolSuffices ==
  ASSUME IInv
  PROVE  Len(conns) <= Cardinality(Targets)
<1> DEFINE f == [c \in 1 .. Len(conns) |-> conns[c].target]
<1>1. Len(conns) \in Nat
  BY LenProperties DEF IInv, Typed, PoolTyped
<1>2. f \in [1 .. Len(conns) -> Targets]
  BY ConnFields DEF IInv, Typed
<1>3. \A c, d \in 1 .. Len(conns) : f[c] = f[d] => c = d
  BY DEF IInv, ConnsInv
<1>4. f \in Injection(1 .. Len(conns), Targets)
  BY <1>2, <1>3 DEF Injection, IsInjective
<1>5. Cardinality(1 .. Len(conns)) <= Cardinality(Targets)
  BY <1>4, FS_Injection, TargetsAssumption
<1>6. Cardinality(1 .. Len(conns)) = Len(conns)
  <2> DEFINE n == Len(conns)
  <2> HIDE DEF n
  <2>1. n \in Nat
    BY <1>1 DEF n
  <2>2. Cardinality(1 .. n) = IF 1 > n THEN 0 ELSE n - 1 + 1
    <3>1. 1 \in Int /\ n \in Int
      BY <2>1
    <3> QED
      BY <3>1, FS_Interval
  <2>3. Cardinality(1 .. n) = n
    BY <2>1, <2>2
  <2> QED
    BY <2>3 DEF n
<1> QED
  BY <1>5, <1>6

\* A sequence over one set is one over another that has its elements.
LEMMA SeqOver ==
  ASSUME NEW S, NEW T, NEW s \in Seq(S), \A i \in 1 .. Len(s) : s[i] \in T
  PROVE  s \in Seq(T)
OBVIOUS

\* The hosts' addresses are there or not from the start.
LEMMA SameHosts ==
  ASSUME [Next]_vars
  PROVE  resolvable' = resolvable
<1>1. ASSUME [Next]_vars
      PROVE  resolvable' = resolvable
  <2>1. CASE \E t \in Targets : CTTargetConnectOnQueue(t)
    BY <2>1 DEF CTTargetConnectOnQueue
  <2>2. CASE CxThread
    BY <2>2 DEF CxThread, ResolveHostFails, CTTargetResolveHost, Unresolved, SocketError,
       CallbackWithStaleConn, ConnectRoutineFails, ConnectFails, CTConnectRoutine,
       ExecuteAborts, ExecuteHandshake, ExecuteHandshakeFails, ExecutePlain, CountQuery
  <2>3. CASE \E c \in PoolConns : Handshake(c)
    BY <2>3 DEF Handshake, HandshakeMessage, ProxyThenTls, HandshakeDone, HandshakeFails,
       HandshakeCut, RoutineFails, HandshakeAborts
  <2> QED
    BY <1>1, <2>1, <2>2, <2>3 DEF Next, vars
<1> QED
  BY <1>1

LEMMA Hosts == Spec => [](resolvable \subseteq Targets)
<1>1. Init => resolvable \subseteq Targets
  BY DEF Init
<1>2. resolvable \subseteq Targets /\ [Next]_vars => (resolvable \subseteq Targets)'
  BY SameHosts
<1> QED
  BY <1>1, <1>2, PTL DEF Spec

\* What the threads leave in each other's variables always has its type: the cx
\* thread holds a target exactly while it works on one, for targets that were
\* asked for only, and the pool is never asked for more connections than there
\* are targets.
THEOREM TypeCorrect == Spec => []TypeOK
<1>1. ASSUME IInv, resolvable \subseteq Targets
      PROVE  TypeOK
  <2>1. ThreadTyped /\ AskedOnly /\ PoolTyped
    BY <1>1 DEF IInv, Typed
  <2>2. cxPipe \in Seq(asked)
    BY <2>1, SeqOver DEF ThreadTyped, AskedOnly
  <2>3. target \in Seq(asked)
    BY <2>1, SeqOver DEF ThreadTyped, AskedOnly
  <2>4. Len(target) <= 1
    <3>1. Len(target) \in {0, 1}
      BY <2>1 DEF ThreadTyped
    <3>2. \A n \in {0, 1} : n <= 1
      OBVIOUS
    <3> QED
      BY <3>1, <3>2
  <2>5. cxpc = "wait" => target = <<>>
    BY <2>1, EmptySeq DEF ThreadTyped
  <2>6. Len(conns) <= Cardinality(Targets)
    BY <1>1, PoolSuffices
  <2> QED
    BY <1>1, <2>1, <2>2, <2>3, <2>4, <2>5, <2>6 DEF TypeOK, ThreadTyped, AskedOnly, PoolTyped
<1> QED
  BY Invariance, Hosts, <1>1, PTL

\* The places that issue a connect callback, in the cx thread and in the rx
\* thread, never both answer the same connect(), whatever goes wrong.
THEOREM NoSecondAnswer == Spec => []AnsweredOnce
<1>1. IInv => AnsweredOnce
  BY DEF IInv, AnswersInv
<1> QED
  BY Invariance, <1>1, PTL

\* A client whose host has an address and that is told of success holds the
\* connection to its own target, its handshakes done and its counts cleared: however
\* many connections are set up at once, and though the cx thread's conn points to
\* the last one only.
THEOREM SuccessIsOwnConnection == Spec => []OwnConnection
<1>1. IInv => OwnConnection
  BY DEF IInv, AnswersInv
<1> QED
  BY Invariance, <1>1, PTL
-----------------------------------------------------------------------------
(***************************************************************************)
(* The one way to another client's connection is the cx thread's conn,     *)
(* which it reports when a host has no address or the connected socket an  *)
(* error.                                                                  *)
(***************************************************************************)

\* A step that calls nobody back.
LEMMA SameOwners ==
  ASSUME IInv, NoOthersConnection, conns' \in Seq(Conns), ConnsKept, results' = results,
         resolvable' = resolvable
  PROVE  NoOthersConnection'
<1>1. ASSUME NEW u \in Targets, u \in resolvable, NEW i \in 1 .. 2, i <= Len(results[u])
      PROVE  results[u][i].conn = NoConn \/ conns'[results[u][i].conn].target = u
  <2>1. results[u][i].conn = NoConn \/ conns[results[u][i].conn].target = u
    BY <1>1 DEF NoOthersConnection
  <2>2. results[u][i].conn \in 0 .. Len(conns) /\ Len(conns) \in Nat
    <3>1. Len(results[u]) \in Nat /\ Len(conns) \in Nat
      BY LenProperties DEF IInv, Typed, PoolTyped
    <3>2. i \in 1 .. Len(results[u])
      BY <1>1, <3>1
    <3> QED
      BY <3>1, <3>2 DEF IInv, AnswersInv, ResultConns
  <2>3. results[u][i].conn = 0 \/ results[u][i].conn \in 1 .. Len(conns)
    BY <2>2
  <2> QED
    BY <2>1, <2>3 DEF ConnsKept, NoConn
<1> QED
  BY <1>1 DEF NoOthersConnection

\* A first callback, with the target's own connection or none, or for a target
\* whose host has no address.
LEMMA FirstOwner ==
  ASSUME IInv, NoOthersConnection, conns' \in Seq(Conns), ConnsKept,
         resolvable' = resolvable,
         NEW t \in Targets, results[t] = <<>>,
         NEW ok \in BOOLEAN, NEW c \in Nat, NEW n \in Nat, Answer(t, ok, c, n),
         t \in resolvable => c = NoConn \/ conns'[c].target = t
  PROVE  NoOthersConnection'
<1>1. /\ results'[t] = <<[ok |-> ok, conn |-> c, queryCount |-> n]>>
      /\ \A u \in Targets : u # t => results'[u] = results[u]
  BY FirstAnswer DEF IInv, Typed, PoolTyped
<1>2. \A i \in 1 .. 2 : i <= Len(results'[t]) => results'[t][i].conn = c
  BY <1>1
<1>3. ASSUME NEW u \in Targets, u \in resolvable, u # t, NEW i \in 1 .. 2, i <= Len(results[u])
      PROVE  results[u][i].conn = NoConn \/ conns'[results[u][i].conn].target = u
  <2>1. results[u][i].conn = NoConn \/ conns[results[u][i].conn].target = u
    BY <1>3 DEF NoOthersConnection
  <2>2. results[u][i].conn \in 0 .. Len(conns) /\ Len(conns) \in Nat
    <3>1. Len(results[u]) \in Nat /\ Len(conns) \in Nat
      BY LenProperties DEF IInv, Typed, PoolTyped
    <3>2. i \in 1 .. Len(results[u])
      BY <1>3, <3>1
    <3> QED
      BY <3>1, <3>2 DEF IInv, AnswersInv, ResultConns
  <2>3. results[u][i].conn = 0 \/ results[u][i].conn \in 1 .. Len(conns)
    BY <2>2
  <2> QED
    BY <2>1, <2>3 DEF ConnsKept, NoConn
<1> QED
  BY <1>1, <1>2, <1>3 DEF NoOthersConnection

LEMMA NoOthersStep ==
  ASSUME "SO_ERROR" \notin Mishaps, IInv, NoOthersConnection, [Next]_vars
  PROVE  NoOthersConnection'
<1>h. resolvable' = resolvable
  BY SameHosts
<1>1. PoolTyped /\ Typed /\ conns \in Seq(Conns) /\ Len(conns) \in Nat
  BY LenProperties DEF IInv, Typed, PoolTyped
<1>2. conns' = conns => conns' \in Seq(Conns) /\ ConnsKept
  BY <1>1 DEF ConnsKept
<1>3. CASE conns' = conns /\ results' = results
  BY <1>h, <1>2, <1>3, SameOwners
<1>4. CASE ResolveHostFails
  <2>1. /\ conns' = conns /\ cxPipe # <<>> /\ cxPipe' = Tail(cxPipe)
        /\ Answer(Head(cxPipe), FALSE, NoConn, 0)
    BY <1>4 DEF ResolveHostFails
  <2>2. Head(cxPipe) \in Targets /\ results[Head(cxPipe)] = <<>>
    BY <2>1, PipeTail DEF Untouched
  <2>3. NoConn \in Nat
    BY DEF NoConn
  <2> QED
    BY <1>2, <2>1, <2>2, <2>3, FirstOwner, <1>h
<1>5. CASE ConnectRoutineFails
  <2>1. Working /\ conns' = conns /\ Answer(target[1], FALSE, NoConn, 0)
    BY <1>5 DEF ConnectRoutineFails, Resolved, Working
  <2>2. target[1] \in Targets /\ results[target[1]] = <<>>
    BY <2>1, WorkTarget DEF Untouched
  <2>3. NoConn \in Nat
    BY DEF NoConn
  <2> QED
    BY <1>2, <2>1, <2>2, <2>3, FirstOwner, <1>h
<1>6. CASE ExecuteHandshake
  <2>1. Working /\ results' = results /\ conns' = Append(conns, NewConn(Handshakes[target[1]], 1))
    BY <1>6 DEF ExecuteHandshake, Working
  <2>2. Handshakes[target[1]] \in Seq({"proxy", "tls"})
    BY <2>1, WorkTarget, HandshakesAssumption
  <2>3. NewConn(Handshakes[target[1]], 1) \in Conns
    BY <2>1, <2>2, NewConnType
  <2> QED
    BY <1>1, <2>1, <2>3, ConnectKeeps, SameOwners, <1>h
<1>7. CASE ExecuteHandshakeFails \/ ExecutePlain
  <2> DEFINE r == NewConn(<<>>, 0)
             t == target[1]
  <2>1. /\ Working /\ conns' = Append(conns, r) /\ conn' = Len(conns) + 1
    BY <1>7 DEF ExecuteHandshakeFails, ExecutePlain, Working, CTGetNextPoolConnection
  <2>2. PICK ok \in BOOLEAN : Answer(t, ok, conn', 0)
    BY <1>7 DEF ExecuteHandshakeFails, ExecutePlain
  <2>3. t \in Targets /\ results[t] = <<>>
    BY <2>1, WorkTarget DEF Untouched
  <2>4. r \in Conns /\ r.target = t
    <3>1. <<>> \in Seq({"proxy", "tls"})
      OBVIOUS
    <3> QED
      BY <2>1, <3>1, NewConnType
  <2> HIDE DEF r, t
  <2>5. conns' \in Seq(Conns) /\ ConnsKept /\ conns'[Len(conns) + 1] = r
    BY <1>1, <2>1, <2>4, ConnectKeeps
  <2>6. conn' \in Nat /\ conns'[conn'].target = t
    BY <1>1, <2>1, <2>4, <2>5
  <2> QED
    BY <2>2, <2>3, <2>5, <2>6, FirstOwner, <1>h
<1>8. CASE CountQuery
  <2>1. results' = results /\ conns' = [conns EXCEPT ![conn].queryCount = @ + 1]
    BY <1>8 DEF CountQuery
  <2>2. CASE conn \in 1 .. Len(conns)
    <3> DEFINE r == conns'[conn]
    <3>1. PICK x : x = [conns[conn] EXCEPT !.queryCount = @ + 1]
      OBVIOUS
    <3>2. /\ conns[conn].queryCount \in Nat /\ conns[conn].sent \in Nat
          /\ conns[conn].todo \in Seq({"proxy", "tls"}) /\ conns[conn] \in Conns
      BY <1>1, <2>2, ConnFields
    <3>3. PICK n \in Nat : n = conns[conn].queryCount + 1
      BY <3>2
    <3>4. x = [target |-> conns[conn].target, queryCount |-> n, todo |-> conns[conn].todo,
               sent |-> conns[conn].sent]
      BY <3>1, <3>2, <3>3 DEF Conns
    <3>5. x \in Conns /\ x.target = conns[conn].target /\ x.todo = conns[conn].todo
      <4> DEFINE y == conns[conn]
      <4>1. /\ y \in Conns /\ y.todo \in Seq({"proxy", "tls"}) /\ y.sent \in Nat
            /\ x = [target |-> y.target, queryCount |-> n, todo |-> y.todo, sent |-> y.sent]
        BY <3>2, <3>4
      <4> HIDE DEF y
      <4>2. x \in Conns /\ x.target = y.target /\ x.todo = y.todo
        BY <4>1, ConnWith
      <4> QED
        BY <4>2 DEF y
    <3>6. conns' = [conns EXCEPT ![conn] = x]
      BY <2>1, <3>1
    <3> QED
      BY <1>1, <2>1, <2>2, <3>5, <3>6, ChangeKeeps, SameOwners, <1>h
  <2>3. CASE conn \notin 1 .. Len(conns)
    <3>1. conns' = conns
      BY <1>1, <2>1, <2>3
    <3> QED
      BY <1>2, <2>1, <3>1, SameOwners, <1>h
  <2> QED
    BY <2>2, <2>3
<1>15. CASE Unresolved
  <2>1. PICK ok \in BOOLEAN : CallbackWithStaleConn(ok)
    BY <1>15 DEF Unresolved
  <2>2. Working /\ target[1] \notin resolvable
    BY <1>15 DEF Unresolved, Working
  <2>3. CASE conn = NoConn
    BY <1>3, <2>1, <2>3 DEF CallbackWithStaleConn
  <2>4. CASE conn # NoConn
    <3>1. /\ Answer(target[1], ok, conn, 0)
          /\ conns' = [conns EXCEPT ![conn].queryCount = 0]
      BY <2>1, <2>4 DEF CallbackWithStaleConn
    <3>2. conn \in 1 .. Len(conns) /\ conn \in Nat
      BY <1>1, <2>4 DEF PoolTyped
    <3> DEFINE r == [conns[conn] EXCEPT !.queryCount = 0]
    <3>3. r \in Conns /\ r.target = conns[conn].target /\ r.todo = conns[conn].todo
      BY <1>1, <3>2, ConnFields DEF Conns
    <3>4. conns' = [conns EXCEPT ![conn] = r]
      BY <3>1
    <3> HIDE DEF r
    <3>5. conns' \in Seq(Conns) /\ ConnsKept
      BY <1>1, <3>2, <3>3, <3>4, ChangeKeeps
    <3>6. target[1] \in Targets /\ results[target[1]] = <<>>
      BY <2>2, WorkTarget DEF Untouched
    <3> QED
      BY <1>h, <2>2, <3>1, <3>2, <3>5, <3>6, FirstOwner
  <2> QED
    BY <2>3, <2>4
<1>9. ASSUME NEW c \in PoolConns, HandshakeMessage(c) \/ ProxyThenTls(c)
      PROVE  NoOthersConnection'
  <2>1. /\ c \in 1 .. Len(conns) /\ results' = results
    BY <1>9 DEF HandshakeMessage, ProxyThenTls, InHandshake
  <2>2. conns[c].todo # <<>>
    BY <1>9 DEF HandshakeMessage, ProxyThenTls, InHandshake
  <2>3. PICK r \in Conns : conns' = [conns EXCEPT ![c] = r] /\ r.target = conns[c].target
    BY <1>9, <2>1, HandshakeConn
  <2> QED
    BY <1>1, <2>1, <2>2, <2>3, ChangeKeeps, SameOwners, <1>h
<1>10. ASSUME NEW c \in PoolConns, HandshakeDone(c) \/ HandshakeFails(c) \/ HandshakeCut(c) \/ RoutineFails(c)
       PROVE  NoOthersConnection'
  <2> DEFINE t == conns[c].target
  <2>1. /\ c \in 1 .. Len(conns) /\ conns[c].todo # <<>>
    BY <1>10 DEF HandshakeDone, HandshakeFails, HandshakeCut, RoutineFails, InHandshake
  <2>2. PICK r \in Conns, ok \in BOOLEAN, n \in Nat :
          /\ conns' = [conns EXCEPT ![c] = r] /\ Answer(t, ok, c, n) /\ r.target = t
    BY <1>10, <2>1, HandshakeAnswer
  <2>3. t \in Targets /\ results[t] = <<>>
    BY <1>1, <2>1, ConnFields DEF IInv, ConnsInv
  <2>4. conns' \in Seq(Conns) /\ ConnsKept /\ conns'[c] = r
    BY <1>1, <2>1, <2>2, ChangeKeeps
  <2>5. c \in Nat /\ conns'[c].target = t
    BY <1>1, <2>1, <2>2, <2>4
  <2> HIDE DEF t
  <2> QED
    BY <2>2, <2>3, <2>4, <2>5, FirstOwner, <1>h
<1>11. CASE UNCHANGED vars
  BY <1>3, <1>11 DEF vars
<1>12. CASE \E t \in Targets : CTTargetConnectOnQueue(t)
  BY <1>3, <1>12 DEF CTTargetConnectOnQueue
<1>13. CASE CxThread
  <2>1. ~SocketError
    BY DEF SocketError
  <2>2. CTTargetResolveHost \/ ConnectFails \/ CTConnectRoutine \/ ExecuteAborts
          => conns' = conns /\ results' = results
    BY DEF CTTargetResolveHost, ConnectFails, CTConnectRoutine, ExecuteAborts
  <2> QED
    BY <1>3, <1>4, <1>5, <1>6, <1>7, <1>8, <1>15, <1>13, <2>1, <2>2 DEF CxThread
<1>14. CASE \E c \in PoolConns : Handshake(c)
  <2>1. PICK c \in PoolConns : Handshake(c)
    BY <1>14
  <2>2. CASE HandshakeAborts(c)
    BY <1>3, <2>2 DEF HandshakeAborts
  <2> QED
    BY <1>9, <1>10, <2>1, <2>2 DEF Handshake
<1> QED
  BY <1>11, <1>12, <1>13, <1>14 DEF Next

\* As long as CTSocketGetError finds no error on a connected socket, no client whose
\* host has an address is handed the connection of another, not even along with
\* an error, though the connects of hosts without an address are all the while
\* answered with whichever connection the cx thread made last.
THEOREM OwnConnectionOrNone ==
  ASSUME "SO_ERROR" \notin Mishaps
  PROVE  Spec => []NoOthersConnection
<1>1. Init => NoOthersConnection
  BY DEF Init, NoOthersConnection
<1>2. IInv /\ NoOthersConnection /\ [Next]_vars => NoOthersConnection'
  BY NoOthersStep
<1> QED
  BY <1>1, <1>2, Invariance, PTL DEF Spec
==============================================================================
