---------------------------- MODULE CTConnectQueue ----------------------------
(***************************************************************************)
(* How connect() gets its answer, in the kqueue builds, for targets that   *)
(* name a connection queue:                                                *)
(*                                                                         *)
(*   application --cxPipe--> cx thread --handshake--> tx and rx threads    *)
(*        ^                     |                          |               *)
(*        +----- callback ------+--------- callback -------+               *)
(*                                                                         *)
(* The cx thread (CT_Dequeue_Resolve_Connect_Handshake) takes one target   *)
(* at a time through the host resolution and the TCP connect, each of      *)
(* which brings it back to the thread as a USER event of cxQueue.  A       *)
(* connection that needs a proxy or TLS handshake is left to the tx and rx *)
(* threads then, and the cx thread turns to the next target; its variable  *)
(* conn keeps pointing to the last connection it took from the pool.       *)
(*                                                                         *)
(* The names of Mishaps are what can go wrong on the way; what the program *)
(* does about it differs from place to place.  The cursors that carry the  *)
(* steps come from a pool, which is left out.                              *)
(***************************************************************************)
EXTENDS Integers, Sequences, FiniteSets

CONSTANTS
  Targets,    \* the targets the application connects to
  Handshakes, \* target -> its handshakes: <<>>, <<"tls">>, <<"proxy", "tls">>, ...
  MaxRounds,  \* messages the client sends in one handshake (bounds the model)
  Mishaps     \* what may happen, a subset of AllMishaps

AllMishaps ==
  {"udp socket",    \* no socket for the DNS query
   "query",         \* the DNS query cannot be sent
   "unresolved",    \* a host has no address
   "tcp socket",    \* no socket for the connection
   "connect",       \* bind() or connect() fails at once
   "fast",          \* connected before the thread polls cxQueue again
   "refused",       \* the connection is refused: the event has EV_EOF
   "SO_ERROR",      \* the event has no EV_EOF, but the socket an error
   "ssl context",   \* no TLS context, or no first message
   "handshake",     \* the server's first TLS message is not accepted
   "cut",           \* the server's second TLS message comes in several reads
   "refusal"}       \* a later TLS message, or a SOCKS5 reply, is not accepted

ASSUME TargetsAssumption == IsFiniteSet(Targets)
ASSUME HandshakesAssumption == Handshakes \in [Targets -> Seq({"proxy", "tls"})]
ASSUME MaxRoundsAssumption == MaxRounds \in Nat \ {0}
ASSUME MishapsAssumption == Mishaps \subseteq AllMishaps

NoConn == 0     \* NULL, or a connection on the stack that is none of the pool's

VARIABLES
  resolvable, \* targets whose host has an address, as the DNS servers say
  asked,      \* targets connect() was called for
  cxPipe,     \* overlapped structures in cxPipe
  cxpc,       \* where the cx thread is
  target,     \* the target it works on: a sequence of at most one
  conn,       \* its variable conn, a place in conns
  conns,      \* the connections taken from the pool, in order
  results     \* target -> the callbacks issued for it

vars == <<resolvable, asked, cxPipe, cxpc, target, conn, conns, results>>

\* A connection of the pool; todo is the handshakes still to be done, the first
\* of them under way, with sent messages.
Conns == [target : Targets, queryCount : Nat, todo : Seq({"proxy", "tls"}), sent : Nat]

\* What a callback is given: the error or none, and the connection as it is then.
Results == [ok : BOOLEAN, conn : Nat, queryCount : Nat]

Init ==
  /\ resolvable \in IF "unresolved" \in Mishaps THEN SUBSET Targets ELSE {Targets}
  /\ asked = {}
  /\ cxPipe = <<>>
  /\ cxpc = "wait" /\ target = <<>> /\ conn = NoConn
  /\ conns = <<>>
  /\ results = [t \in Targets |-> <<>>]
-----------------------------------------------------------------------------
\* CTConnect, CTTargetConnectOnQueue: the target is written to cxPipe.
CTTargetConnectOnQueue(t) ==
  /\ cxpc # "aborted"
  /\ t \notin asked
  /\ asked' = asked \cup {t}
  /\ cxPipe' = Append(cxPipe, t)
  /\ UNCHANGED <<resolvable, cxpc, target, conn, conns, results>>

Answer(t, ok, c, count) ==
  results' = [results EXCEPT ![t] = Append(@, [ok |-> ok, conn |-> c, queryCount |-> count])]

Goto(state) ==
  /\ cxpc' = state
  /\ target' = IF state = "wait" THEN <<>> ELSE target
-----------------------------------------------------------------------------
(***************************************************************************)
(* The cx thread.                                                          *)
(***************************************************************************)

\* CTTargetResolveHost gives up before the query is under way, and says so.
ResolveHostFails ==
  /\ cxpc = "wait" /\ cxPipe # <<>>
  /\ Mishaps \cap {"udp socket", "query"} # {}
  /\ cxPipe' = Tail(cxPipe)
  /\ Answer(Head(cxPipe), FALSE, NoConn, 0)
  /\ UNCHANGED <<resolvable, asked, cxpc, target, conn, conns>>

\* CTTargetResolveHost sends the query and posts the target to cxQueue.
CTTargetResolveHost ==
  /\ cxpc = "wait" /\ cxPipe # <<>>
  /\ target' = <<Head(cxPipe)>>
  /\ cxPipe' = Tail(cxPipe)
  /\ cxpc' = "recv from"
  /\ UNCHANGED <<resolvable, asked, conn, conns, results>>

\* CONN_CALLBACK, reached before a connection was taken from the pool: the thread
\* clears the counts of the conn it happens to have, and gives that to the client;
\* when there never was one this is a NULL pointer.
CallbackWithStaleConn(ok) ==
  /\ IF conn = NoConn
     THEN Goto("aborted") /\ UNCHANGED <<conns, results>>
     ELSE /\ Goto("wait")
          /\ conns' = [conns EXCEPT ![conn].queryCount = 0]
          /\ Answer(target[1], ok, conn, 0)
  /\ UNCHANGED <<resolvable, asked, cxPipe, conn>>

\* No address.  The jump to CONN_CALLBACK skips the initialisation of the error
\* that is passed there: the client is told of an error or of success, as it
\* happens.
Unresolved ==
  /\ cxpc = "recv from"
  /\ target[1] \notin resolvable
  /\ \E ok \in BOOLEAN : CallbackWithStaleConn(ok)

Resolved == cxpc = "recv from" /\ target[1] \in resolvable

\* CTConnectRoutine gets no socket, and says so.
ConnectRoutineFails ==
  /\ Resolved
  /\ "tcp socket" \in Mishaps
  /\ Answer(target[1], FALSE, NoConn, 0)
  /\ Goto("wait")
  /\ UNCHANGED <<resolvable, asked, cxPipe, conn, conns>>

\* CTSocketConnectOnQueue closes the socket and returns an error code, which
\* DNSResolveResponseCallback drops.
ConnectFails ==
  /\ Resolved
  /\ "connect" \in Mishaps
  /\ Goto("wait")
  /\ UNCHANGED <<resolvable, asked, cxPipe, conn, conns, results>>

\* DNSResolveResponseCallback, CTConnectRoutine, CTSocketConnectOnQueue: the
\* connect is under way and the target posted to cxQueue once more.
CTConnectRoutine ==
  /\ Resolved
  /\ Goto("execute")
  /\ UNCHANGED <<resolvable, asked, cxPipe, conn, conns, results>>

\* The loop asserts that an event that comes together with the target's is a
\* READ event, and that the WRITE event it waits for later has no EV_EOF.
ExecuteAborts ==
  /\ cxpc = "execute"
  /\ Mishaps \cap {"fast", "refused"} # {}
  /\ Goto("aborted")
  /\ UNCHANGED <<resolvable, asked, cxPipe, conn, conns, results>>

\* CTSocketGetError reports an error of the connected socket, which is closed.
SocketError ==
  /\ cxpc = "execute"
  /\ "SO_ERROR" \in Mishaps
  /\ CallbackWithStaleConn(FALSE)

\* Mutant: the pool's count is incremented before it is used.
CTGetNextPoolConnectionEarly == Len(conns) + 2

\* The place of the next connection in the pool.
CTGetNextPoolConnection == Len(conns) + 1

\* The connection's fields are cleared, and set from the target.
NewConn(todo, sent) ==
  [target |-> target[1], queryCount |-> 0, todo |-> todo, sent |-> sent]

\* Mutant: the connection is given to the client while its handshake is done.
ExecuteHandshakeAnswered ==
  /\ cxpc = "execute"
  /\ Handshakes[target[1]] # <<>>
  /\ conns' = Append(conns, NewConn(Handshakes[target[1]], 1))
  /\ conn' = CTGetNextPoolConnection
  /\ Answer(target[1], TRUE, conn', 0)
  /\ Goto("count")
  /\ UNCHANGED <<resolvable, asked, cxPipe>>

\* Connected: a connection is taken from the pool and the first message of its
\* handshake posted to the tx thread (CTProxyHandshake, CTSSLRoutine).
ExecuteHandshake ==
  /\ cxpc = "execute"
  /\ Handshakes[target[1]] # <<>>
  /\ conns' = Append(conns, NewConn(Handshakes[target[1]], 1))
  /\ conn' = CTGetNextPoolConnection
  /\ Goto("count")
  /\ UNCHANGED <<resolvable, asked, cxPipe, results>>

\* CTCursorSendOnQueue counts the message as a query after it has posted it, when
\* the handshake may have gone on and even be done.
CountQuery ==
  /\ cxpc = "count"
  /\ conns' = [conns EXCEPT ![conn].queryCount = @ + 1]
  /\ Goto("wait")
  /\ UNCHANGED <<resolvable, asked, cxPipe, conn, results>>

\* CTSSLRoutine fails: CONN_CALLBACK with the error.
ExecuteHandshakeFails ==
  /\ cxpc = "execute"
  /\ "ssl context" \in Mishaps
  /\ Handshakes[target[1]] # <<>> /\ Head(Handshakes[target[1]]) = "tls"
  /\ conns' = Append(conns, NewConn(<<>>, 0))
  /\ conn' = CTGetNextPoolConnection
  /\ Answer(target[1], FALSE, conn', 0)
  /\ Goto("wait")
  /\ UNCHANGED <<resolvable, asked, cxPipe>>

\* Without a handshake the client is called back at once.
ExecutePlain ==
  /\ cxpc = "execute"
  /\ Handshakes[target[1]] = <<>>
  /\ conns' = Append(conns, NewConn(<<>>, 0))
  /\ conn' = CTGetNextPoolConnection
  /\ Answer(target[1], TRUE, conn', 0)
  /\ Goto("wait")
  /\ UNCHANGED <<resolvable, asked, cxPipe>>
-----------------------------------------------------------------------------
(***************************************************************************)
(* The handshake of connection c, in the rx thread's callbacks for the     *)
(* server's messages.  Every message the client sends is counted as a      *)
(* query of the connection.                                                *)
(***************************************************************************)

InHandshake(c) == cxpc # "aborted" /\ c \in 1 .. Len(conns) /\ conns[c].todo # <<>>

\* The callback sends the next message of the same handshake.
HandshakeMessage(c) ==
  /\ InHandshake(c)
  /\ conns[c].sent < MaxRounds
  /\ conns' = [conns EXCEPT ![c].sent = @ + 1, ![c].queryCount = @ + 1]
  /\ UNCHANGED <<resolvable, asked, cxPipe, cxpc, target, conn, results>>

\* The proxy is through, and CTSSLRoutine sends the first message of TLS.
ProxyThenTls(c) ==
  /\ InHandshake(c)
  /\ Len(conns[c].todo) > 1
  /\ conns' = [conns EXCEPT ![c].todo = Tail(@), ![c].sent = 1, ![c].queryCount = @ + 1]
  /\ UNCHANGED <<resolvable, asked, cxPipe, cxpc, target, conn, results>>

\* Mutant: the callback returns as it does when more bytes are needed.
HandshakeFailsUntold(c) ==
  /\ InHandshake(c)
  /\ "handshake" \in Mishaps
  /\ Head(conns[c].todo) = "tls" /\ conns[c].sent = 1
  /\ conns' = [conns EXCEPT ![c].todo = <<>>]
  /\ UNCHANGED <<resolvable, asked, cxPipe, cxpc, target, conn, results>>

\* SSLFirstMessageResponseCallback does not accept the server's message: it
\* closes the socket and calls the client back with the error.
HandshakeFails(c) ==
  /\ InHandshake(c)
  /\ "handshake" \in Mishaps
  /\ Head(conns[c].todo) = "tls" /\ conns[c].sent = 1
  /\ conns' = [conns EXCEPT ![c].todo = <<>>]
  /\ Answer(conns[c].target, FALSE, c, conns[c].queryCount)
  /\ UNCHANGED <<resolvable, asked, cxPipe, cxpc, target, conn>>

\* SSLSecondMessageResponseCallback takes a part of the server's message for a
\* failed handshake (SecureTransport): it closes the socket, clears the counts and
\* calls the client back with the error.
HandshakeCut(c) ==
  /\ InHandshake(c)
  /\ "cut" \in Mishaps
  /\ Head(conns[c].todo) = "tls" /\ conns[c].sent > 1
  /\ conns' = [conns EXCEPT ![c].todo = <<>>, ![c].queryCount = 0]
  /\ Answer(conns[c].target, FALSE, c, 0)
  /\ UNCHANGED <<resolvable, asked, cxPipe, cxpc, target, conn>>

\* Behind a proxy CTSSLRoutine fails, with the same outcome.
RoutineFails(c) ==
  /\ InHandshake(c)
  /\ "ssl context" \in Mishaps
  /\ Len(conns[c].todo) > 1
  /\ conns' = [conns EXCEPT ![c].todo = <<>>]
  /\ Answer(conns[c].target, FALSE, c, conns[c].queryCount)
  /\ UNCHANGED <<resolvable, asked, cxPipe, cxpc, target, conn>>

\* The callbacks for later TLS messages and for SOCKS5 replies assert success.
HandshakeAborts(c) ==
  /\ InHandshake(c)
  /\ "refusal" \in Mishaps
  /\ Head(conns[c].todo) = "proxy" \/ conns[c].sent > 1
  /\ Goto("aborted")
  /\ UNCHANGED <<resolvable, asked, cxPipe, conn, conns, results>>

\* Mutant: the client is given the connection the cx thread made last.
HandshakeDoneLatest(c) ==
  /\ InHandshake(c)
  /\ Len(conns[c].todo) = 1
  /\ conns' = [conns EXCEPT ![c].todo = <<>>, ![c].queryCount = 0]
  /\ Answer(conns[c].target, TRUE, conn, 0)
  /\ UNCHANGED <<resolvable, asked, cxPipe, cxpc, target, conn>>

\* The last handshake is done: the counts are cleared and the client called back.
HandshakeDone(c) ==
  /\ InHandshake(c)
  /\ Len(conns[c].todo) = 1
  /\ conns' = [conns EXCEPT ![c].todo = <<>>, ![c].queryCount = 0]
  /\ Answer(conns[c].target, TRUE, c, 0)
  /\ UNCHANGED <<resolvable, asked, cxPipe, cxpc, target, conn>>
-----------------------------------------------------------------------------
CxThread ==
  \/ ResolveHostFails \/ CTTargetResolveHost
  \/ Unresolved \/ ConnectRoutineFails \/ ConnectFails \/ CTConnectRoutine
  \/ ExecuteAborts \/ SocketError
  \/ ExecuteHandshake \/ ExecuteHandshakeFails \/ ExecutePlain
  \/ CountQuery

Handshake(c) ==
  \/ HandshakeMessage(c) \/ ProxyThenTls(c) \/ HandshakeDone(c)
  \/ HandshakeFails(c) \/ HandshakeCut(c) \/ RoutineFails(c) \/ HandshakeAborts(c)

PoolConns == 1 .. Cardinality(Targets)

Next ==
  \/ \E t \in Targets : CTTargetConnectOnQueue(t)
  \/ CxThread
  \/ \E c \in PoolConns : Handshake(c)

Spec == Init /\ [][Next]_vars

\* The cx thread runs on, and the servers answer: the tx and rx threads carry
\* every handshake to its end.
FairSpec == Spec /\ WF_vars(CxThread) /\ \A c \in PoolConns : WF_vars(Handshake(c))
-----------------------------------------------------------------------------
(***************************************************************************)
(* Properties                                                              *)
(***************************************************************************)

\* Every variable holds what it should; the thread has a target exactly while it
\* works on one, and conn is a connection that was taken from the pool.
TypeOK ==
  /\ resolvable \subseteq Targets
  /\ asked \subseteq Targets
  /\ cxPipe \in Seq(asked)
  /\ cxpc \in {"wait", "recv from", "execute", "count", "aborted"}
  /\ target \in Seq(asked) /\ Len(target) <= 1
  /\ cxpc = "wait" => target = <<>>
  /\ cxpc \in {"recv from", "execute", "count"} => Len(target) = 1
  /\ conns \in Seq(Conns) /\ Len(conns) <= Cardinality(Targets)
  /\ conn \in {NoConn} \cup 1 .. Len(conns)
  /\ \A c \in 1 .. Len(conns) : conns[c].sent <= MaxRounds
  /\ results \in [Targets -> Seq(Results)]

\* No connect() is answered twice: the callback has several places that issue it,
\* in the cx thread and in the rx thread, and a handshake that was left to the rx
\* thread is answered there alone.
AnsweredOnce == \A t \in Targets : Len(results[t]) <= 1

\* A client whose host has an address and that is told of success gets the
\* connection to its own target, with the handshakes done, and with the counts
\* cleared that the handshakes' messages had incremented, whichever connections
\* were set up meanwhile.  (One whose host has none may be told of success with
\* any connection: see Unresolved.)
OwnConnection ==
  \A t \in Targets, i \in 1 .. 2 :
    t \in resolvable /\ i <= Len(results[t]) /\ results[t][i].ok =>
      LET r == results[t][i] IN
        /\ r.conn \in 1 .. Len(conns) /\ r.queryCount = 0
        /\ conns[r.conn].target = t /\ conns[r.conn].todo = <<>>

\* No client whose host has an address is given the connection of another, not
\* with an error either.
NoOthersConnection ==
  \A t \in Targets, i \in 1 .. 2 :
    t \in resolvable /\ i <= Len(results[t]) =>
      LET c == results[t][i].conn IN c = NoConn \/ conns[c].target = t

\* A client whose connect has got as far as a connection of the pool is called
\* back, whatever goes wrong with its handshakes or with the other connects that
\* the threads turn to meanwhile, unless the process ends.
EveryConnectionAnswered ==
  \A t \in Targets :
    (\E c \in 1 .. Len(conns) : conns[c].target = t)
      ~> (results[t] # <<>> \/ cxpc = "aborted")

\* Every connect() is answered, with a connection or with an error.
EveryConnectAnswered == \A t \in Targets : t \in asked ~> results[t] # <<>>
==============================================================================
