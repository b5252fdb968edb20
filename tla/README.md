# CoreTransport in TLA+

TLA+ specifications of CoreTransport, a C library for asynchronous client
connections (plain or TLS, direct or through a proxy), and of the parts of its
C++ wrapper that keep state, with TLC configurations that check them on small
instances and TLAPS proofs of the results that hold for every value of the
constants. Everything is translated from `src/CTransport` and
`src/CXTransport`; the paths below are relative to `src/`.

Three builds exist (`CTransport/CTransport/CTransport.h:91`): Windows with I/O
completion ports, FreeBSD with kqueue and POSIX AIO, and Apple with kqueue and
without AIO (`CTRANSPORT_SANS_AIO`). Where nothing else is said the modules follow
the last one; `CTPipelineIOCP` and `CTTLSHandshake` say what Windows does.

## 1. The system

A client names a *target* (host, port, proxy, TLS, and three kernel queues `cxQueue`,
`txQueue`, `rxQueue`), calls `CTConnect`, and is called back with a *connection*.
On it the client sends *cursors*: a cursor is the memory of one request and of its
response, and is handed back in a response callback. Three threads do the work:

    application --cxPipe--> cx thread --(resolve, connect)--> first handshake message
         ^                     |                                  |
         +----- callback ------+                                  v
    application --txQueue (USER event, keyed by query token)--> tx thread --> socket
                                                                  | then
                                                                  v
    application <--response callback-- rx thread <--rxPipe--------+
                                         ^  |
                 socket (READ event) ----+  +--> rxQueue (USER event: need more bytes)

| component | state | operations | interacts through |
|---|---|---|---|
| application / sample | its cursors, `conn->queryCount` | `CTConnect`, `CTSendOnQueue`, callbacks | cxPipe, txQueue, callbacks |
| cx thread (`CTQueue.c:6-500`) | current target, `conn`, DNS query, TCP connect | resolve, connect, begin handshake, call back | cxPipe, cxQueue, pools, txQueue |
| tx thread (`CTQueue.c:1638-1815`) | dequeued cursor | dequeue, delete event, encrypt, send, write to rxPipe | txQueue, socket, rxPipe |
| rx thread (`CTQueue.c:527-1636`) | current cursor, `responseCount`, cursor buffers, undecrypted bytes | take cursor, read, decrypt, find header, complete, hand over | rxPipe, rxQueue, socket, callbacks |
| handshakes (proxy, TLS, ReQL) | state of TLS context, message number | one message per response callback | run in tx and rx threads as cursors |
| pools | `CT_NUM_CONNECTIONS`, `CT_CURSOR_INDEX` | next connection, next cursor, reset index | shared memory of all threads, no lock |
| CXTransport | maps of cursors and callbacks by token | `run`, `Continue`, distribution of responses | its own copy of the three threads |
| NSTransport | - | the same in Objective-C | as above |

**What is hard.** There is no lock anywhere: the threads share `queryCount`, the
pools and the cursors, and rely on the order in which pipes and kernel queues are
written. In particular a cursor is written to rxPipe only *after* its request was
sent; one read can return the bytes of several responses; a response, header or
TLS record can come in any number of reads; USER events are keyed by a number
that is only unique within one connection; connect callbacks are issued from many
places in two threads; and failures are handled in some places, asserted
away in others and dropped in others again. Each of these is listed with its line,
and with the property that covers it, under `hazards` in `PROJECT.json`.

**What makes each component correct.**
- *Tx thread and txQueue*: every request triggered reaches its socket once, in order;
  no trigger or delete hits another request's event; tokens are unique.
- *Rx thread*: no cursor is lost, doubled or overtaken; every callback has the header
  and the body of its own request; the byte stream is neither lost, doubled nor
  reordered between socket and cursors; `responseCount` is exact; a response that
  arrives is eventually delivered.
- *Cx thread and handshakes*: every `connect()` is answered, at most once, with its own
  connection, never with another client's.
- *Handshakes*: whatever the server's messages are cut into, each step is given the bytes
  of its own message, and the client gets a connection with nothing left under way.
- *C++ wrapper*: the maps hold exactly the messages under way, under the tokens they are
  sent with.

## 2. The modules

| module | models | lines of code |
|---|---|---|
| `CTPromise` | the abstract specification: cursors are called back in order, once, with their own data | - |
| `CTPipeline` | application, tx thread, network and rx thread of one plain connection; implements `CTPromise` | `CTQueue.c`, `CTransportAPI.c` (`CTCursorSendOnQueue`, `CTCursorRecvOnQueue`, `CTCursorAsyncRecv`) |
| `CTPipelineTLS` | `EXTENDS CTPipeline`: the rx thread's decryption loop on a TLS connection; implements `CTPromise` | `CTQueue.c`, EXECUTE branch |
| `CTPipelineIOCP` | `EXTENDS CTPipeline`: the rx thread of the Windows build, one or two connections on its queue; implements `CTPromise` | `CTQueue.c:2137-2578`, 3005-3170 |
| `CXRequests` | `EXTENDS CTPipeline`: queries of the C++ wrapper, which are sent from callbacks and found by token | `CXConnection.cpp`, `CXReQLQuery`, `CXReQLCursor`, `CXQueue.cpp` |
| `CTTxQueue`, `MCTxQueue` | the kernel queue behind `CTPipeline`'s `txQueue`, several connections, queues and sending threads | `CTransportAPI.c:943-1055`, `CTQueue.c:1638-1812` |
| `CTConnectQueue`, `MCConnectQueue` | the asynchronous connect from `connect()` to its callback, with its failure paths | `CTQueue.c:6-500`, `CTransportAPI.c`, `CTSSL.c`, `CTSocket.c` |
| `CTTLSHandshake` | the asynchronous TLS handshake, byte by byte, with SecureTransport and with WolfSSL | `CTSSL.c`, `CTransportAPI.c:2607-2664`, 3306-3420 |
| `CTReQLHandshake` | the asynchronous RethinkDB handshake, byte by byte | `CTransportAPI.c:2226-2536`, `CTReQL.c` |
| `CTPipelineProofs`, `CTPipelineTLSProofs`, `CTPipelineIOCPProofs`, `CXRequestsProofs`, `CTTxQueueProofs`, `CTConnectQueueProofs`, `CTTLSHandshakeProofs`, `CTReQLHandshakeProofs` | theorems | - |

How they fit together: `CTPipeline` refines `CTPromise` (`Promise == INSTANCE CTPromise
WITH asked <- queryCount, answered <- ...`). It takes txQueue to be a sequence of cursors;
`CTTxQueue` says when this is right (`NothingLost`, `SentInOrder`). `CTPipelineTLS`,
`CTPipelineIOCP` and `CXRequests` reuse all of `CTPipeline` except what differs in their rx thread,
and with it its refinement. `CTConnectQueue` takes a handshake for a number of messages;
`CTTLSHandshake` and `CTReQLHandshake` look into them, and `CTConnectQueue` ends where the
pipeline begins: with a connection whose counts are zero, on which the client may
send. The line ranges behind every definition are under `map` in `PROJECT.json`.

### CTPipeline

A cursor is its number in the order of sending, a response byte is a record of the
request it answers and its place in the response: all that a buffer copy can
confuse. Header search, content length and copies are then functions of sequences.

| model | code |
|---|---|
| `queryCount`, `responseCount` | `conn->queryCount`, `conn->responseCount` |
| `txQueue`, `rxQueue` | triggered USER events of the kernel queues |
| `txCursor` | tx thread's cursor between `send()` and the write to rxPipe |
| `rxPipe` | overlapped structures written to `rxPipe` |
| `stage`, `header`, `data` | `overlappedResponse.stage`, `headerLength`, `file.buffer` up to `overlappedResponse.buf` |
| `rxpc`, `cursor` | place in, and current cursor of, `CT_Dequeue_Recv_Decrypt` |
| `CTCursorSendOnQueue`, `TxSend`, `CTCursorRecvOnQueue` | application's trigger; tx thread's send; its write to rxPipe |
| `RxTakeEvent`, `RxTakePipe` | top of the rx loop: USER event first, else block on rxPipe |
| `RxRecv` | schedule, read FIONREAD bytes, find the header, move the body over it |
| `CTCursorAsyncRecv` | response incomplete: trigger the USER event on rxQueue |
| `RxClose`, `RxCloseAndSwitch` | response complete; the overlap goes to the cursor that is in rxPipe *now*, if any |

`Answer` and `Deliver` are server and network, external to the code: answers in the order
of the requests, a byte stream cut into arbitrary pieces. `Outrun` says whether a response
may arrive before its cursor is in rxPipe; `WholeHeaders` whether headers come uncut.

### CTPipelineTLS

Adds `cipher`, the received and not yet decrypted bytes (the extra buffer), and
replaces `RxRecv` by `TlsRecv` and `TlsDecrypt` (one record at a time, ended by an assertion when a header
announces no body: `NoBody`), with `TlsIncomplete`
(SEC_E_INCOMPLETE_MESSAGE), `TlsReadMore`, `TlsClose` and `TlsCloseAndSwitch`, in
which both plain and undecrypted bytes may remain. Records end at multiples of
`RecordLen` and at the end of a response, unless the response is in `Coalesced`.

### CTTxQueue

`Trigger` and `Delete` are EV_ADD/NOTE_TRIGGER and EV_DELETE of a kernel queue with one
event per ident. A sender's `TakeToken`, `Post`, `LoadCount`, `StoreCount` separate the read of
`queryCount`, the trigger, and the load and store of `queryCount++`; the tx thread's
`TxDequeue`, `TxDelete`, `TxSend` separate the ONESHOT delivery, the explicit EV_DELETE and `send()`.

### CTConnectQueue

`cxpc` is the stage of the target in the cx thread's hands (waiting, DNS answer pending,
TCP connect pending, first handshake message posted but not yet counted). `conns` is the
connection pool, `conn` the thread's variable, which still points to the last connection taken
when the thread has gone on to the next target. A handshake is a sequence of `"proxy"` and
`"tls"`, each a number of messages of the tx and rx threads. `Mishaps` selects
what may go wrong; every mishap has an action that does what the code does there: call
back, abort in an assertion, or drop the error code. Two of them, a host without an address (`Unresolved`,
`CTQueue.c:265`) and an error of the connected socket (`SocketError`, 330), jump to `CONN_CALLBACK` before a connection is
taken from the pool, with the thread's last one or NULL (`CallbackWithStaleConn`); the first jump also skips the
initialisation of the error it passes on (322), so `Unresolved` answers with an error or with success.
`resolvable` is the targets whose host has an address.
`HandshakeCut` is what the second flight in pieces does to a SecureTransport client (see `CTTLSHandshake`).

### CTPipelineIOCP

The queues are completion ports. `rxPipe` is the port of the rxQueue (packets that name a cursor),
`rxQueue` the cursors with a `WSARecv` under way, `messages` the thread's message queue, and
`responseCount` the counter behind `pnInflightCursors`, by which the thread decides whether a cursor
starts to receive. `Schedule` is the packet from the tx thread, `WSARecvDone` the kernel's work,
`ReceiveDone` its packet, `ReceiveMore` the next `WSARecv` of an incomplete response; `Close` and
`CloseAndSwitch` end a response, with the next cursor of the same connection taken from the message
queue. `Second` is the set of requests on the second connection, whose bytes are in `net2` and `sock2`.

### CXRequests

An exchange is a message and its answer; `Continue` sends the cursor of an earlier exchange again
with its token. `cursors` and `callbacks` are the two `std::map`s of the connection (`Insert` keeps an entry
that is there, as `std::map::insert` does), `Run` and `Continue` register and send, `CXRecv` looks the cursor up for
the header, `CXClose` takes both entries out and calls the callback, which may send before it returns
(`inCallback`). `Partial` is the set of exchanges whose answer is a partial sequence.

### CTReQLHandshake

The two first messages are sent without waiting; the cursor of the second one receives the answers to both, the
magic response as its "header". How long a message is the code guesses: `GuessLen` is its 113.
`Whole` says that the reads that decide on a length return whole messages; `Refusals` is what the
server may refuse, and `Unsigned` whether its final message may come without the signature, which the code
takes for accepted (`AcceptsFinal`).

### CTTLSHandshake

The server's stream is the numbers 1, 2, ...; `FirstReads` and `LastReads` are the places at which the TLS library's
own reads (record header, record body) end. `CTSSLRecv` is the read callback, which gives the library a
piece only when it is there in full. `contentLength`, `base` and `data` are the three things that must agree
when a flight is cut: the length the header callback computes, the offset the rx thread computes it from, and
what is in the buffer. `FirstResponseIncomplete` and `SecondResponseIncomplete` keep what is left in the buffer in
two different ways, with two header callbacks that differ accordingly. `Stale` is what `contentLength` of
the first cursor may be, which nobody clears.

## 3. What the runs check

| run | instance | states | result |
|---|---|---|---|
| `pipelined` | 4 cursors in flight, headers of 2, bodies of 1 or 2 bytes | 59572 | all invariants hold; implements `CTPromise` with liveness |
| `outrun` | 3 cursors in flight, responses may outrun the cursor | violation | `OwnResponse` fails |
| `tls_records` | 3 responses of one or two records, cut anywhere | 17082 | all invariants hold; implements `CTPromise` with liveness |
| `iocp` | 4 cursors on two connections, 3 in flight | 213424 | one receiver at a time; implements `CTPromise` with liveness |
| `iocp_shared` | a request on a second connection between two on the first | violation | `KeepsPromise` fails |
| `cx` | 4 exchanges, 3 in flight, continued or not | 25773 | maps exact, own callbacks, all answered |
| `tx_own` | 2 connections, a queue and a sender each, 3 requests each | 5929 | nothing lost, in order, unique tokens, all sent |
| `tx_shared` | 2 connections on one queue | violation | `NothingLost` fails |
| `connect` | plain, TLS, and proxy-and-TLS targets; everything may go wrong | 25960 | answered once at most, own connection, no handshake loses its client |
| `connect_unanswered` | `bind()`/`connect()` fails at once | violation | `EveryConnectAnswered` fails |
| `tls_handshake` | both builds, both flights cut anywhere | 515 | bytes intact, count exact, clean hand-over, always answered |
| `reql` | messages read whole, one or two at a time; refusals | 263 | own messages, clean hand-over, always answered |

The properties, by the hazard they are for:

- `CursorOrder` relates all places a cursor can be in; it is also why the rx thread may conclude
  from a READ event which cursor it is for. `ResponseCountExact` is stronger than the code's
  `assert(responseCount > -1)`: the count decides whether the next cursor is scheduled.
- `OwnResponse` compares what a callback got with its request, byte for byte; `StreamIntact`
  (`TlsStreamIntact`) says the same of every state in between, for all bytes between the
  network and the cursors. `NeverAborts` is the wrapping `memmove` length and the assertion
  on `responseCount`, and on TLS the one that a header announces a body (`CTQueue.c:1313`).
- `KeepsPromise` is the refinement of `CTPromise`, with its liveness: no event that brings a cursor
  back is forgotten. It implies the order of the callbacks and `OwnResponse`, which are therefore not
  checked a second time on TLS and on Windows.
- `OneReceiver` (Windows): the counter shared by the connections of a queue says exactly which cursors are scheduled,
  one of them receives, and the others wait in order.
- `UniqueTokens`, `SentInOrder`, `NothingLost`, `EverySent`: the kernel queue keyed by tokens.
- `MapsExact`, `TokensOfQueries`, `OwnCallback`, `EveryMessageAnswered`: the maps of the wrapper, through
  registrations from inside a callback, and who is called with what. `NeverAborts` covers the assertions on the
  maps and `std::map::at`.
- `AnsweredOnce`, `OwnConnection`, `EveryConnectionAnswered`: the callbacks of `connect()`, whatever goes wrong.
  `OwnConnection` speaks of clients whose host has an address; what the others are given is not restricted (section 4).
  `EveryConnectAnswered` is the stronger promise that fails in `connect_unanswered`; with
  `Mishaps = {"udp socket", "query", "tcp socket", "ssl context", "handshake", "cut"}`, which leaves out what the
  code drops or aborts on, TLC finds that it holds too.
- `OwnMessages`, `SuccessMeansNotRefused`, `CleanHandover`, `HandshakeAnswered` (ReQL) and `FlightsIntact`,
  `ResponseCounted`, `CleanHandover`, `HandshakeAnswered` (TLS): each step of a handshake works on its own message, and
  the client is answered once, with no byte, cursor or message of the handshake left behind for its first request.

Each property has a mutant of a mapped definition in `PROJECT.json` (an operator with a comment
"Mutant:" in front of the definition) under which TLC finds it violated.

**Bounds.** `NumCursors`: a hand-over involves a closing cursor and the next one; three
hand-overs in a row (four cursors) include one in which a cursor that was itself handed bytes hands
bytes on, and four responses in one read. `HeaderLen = 2` is the least length that can be
cut. `BodyLens` with two values gives responses of different lengths. On TLS headers of two
and bodies of one or three bytes with `RecordLen = 3` give responses of one record and of two,
where a header shares its record with a part of its body. `Window` is how many requests the
application keeps outstanding; the code has no bound. On Windows two requests on each connection give overlaps within
a connection and a switch from one to the other; headers of one byte keep the instance small, as the header search is
`CTPipeline`'s. Four exchanges of the wrapper include a query continued twice and one that is sent between.
`MaxRequests = 3` per connection: a trigger can then happen before, between and after the steps of the tx thread for
another token. `MaxRounds = 2` separates the first message of a handshake from later ones, which the
code treats differently. Three targets are one for each kind of handshake. The TLS flights have two records
of a header and a body each, so that a read can end in a header, between header and body, in a body, and between
records; the second flight has the same shape.

**Fairness.** The threads are infinite loops that only wait for their queues, so a step
that stays enabled is taken: weak fairness of the tx thread, the rx thread (or the cx thread), and
of the kernel's completion of a read that has bytes (Windows). Fairness of `Answer`, `ServerAnswers`, `Deliver` and
`Handshake` says that the servers answer and the network delivers: without it nothing can be promised, and the code has
no timeout that would step in. The wrapper's client is assumed to return from its callbacks, since they run in the rx
thread. The application is never assumed to send or to connect. Deadlock is
checked for the pipelines in their passing runs; elsewhere the application may have stopped, the handshake is
over, or the process aborted, and the specification really stops.

## 4. Findings

1. **A response that outruns its cursor** (`outrun`, `CTQueue.c:1018`). The tx thread writes a cursor
   to rxPipe only after `send()`. When the response to it is read before that, with the
   end of the one before, its bytes stay in the closed cursor's buffer, and the cursor
   gets the bytes of a later request.
2. **Connections that share a txQueue** (`tx_shared`, `CTransportAPI.c:995`), as the HappyEyeballs
   sample's do: an event takes the place of another connection's event with the same token.
3. **A connect that fails at once** (`connect_unanswered`, `CTransportAPI.c:1858`) is never reported.
4. **Connections that share the Windows rx thread** (`iocp_shared`, `CTQueue.c:2367`). A response that came whole
   behind an earlier one of its connection is copied to its cursor, which then waits for ever for more bytes.

These are the counterexamples kept as runs. The constants under which the passing runs work are conditions
on the library's use; TLC shows what happens without them:

| change | property that fails | why |
|---|---|---|
| `pipelined`, `WholeHeaders = FALSE` | `NeverAborts` | the length of the body's move is computed from the last read only and wraps around (`CTQueue.c:932`) |
| `pipelined`, `BodyLens = {0, 1}` | `KeepsPromise` | a response without a body is never complete (`CTQueue.c:945`) |
| `tls_records`, `Outrun = TRUE` | `NeverAborts` | the loop goes on with the closed cursor and closes it again (`CTQueue.c:1533`) |
| `tls_records`, `BodyLens = {0, 1}` | `NeverAborts` | the loop asserts that a header announces a body (`CTQueue.c:1313`) |
| `tls_records`, `Coalesced = {1, 2}` | `TlsStreamIntact` | plain text of the next response is overwritten by the next read (`CTQueue.c:1399`) |
| `iocp`, `Outrun = TRUE`, `Second = {}` | `KeepsPromise` | as `outrun` |
| `reql`, `FirstLens = {2, 4}` | `OwnMessages` | the guess of 113 bytes is wrong (`CTransportAPI.c:2302`): bytes of one message end up in the next |
| `reql`, `FirstLens = {2}` or `Whole = FALSE` | `HandshakeAnswered` | the handshake waits for bytes that never come |
| `tls_handshake`, `Stale = {5}` | `HandshakeAnswered` | `CTSSLRoutine` clears one cursor and uses the next (`CTransportAPI.c:3406`): a content length left from its last use makes the first flight look incomplete for ever |
| `connect`, `NoOthersConnection` as an invariant | `NoOthersConnection` | a socket with an error is answered with that error and another client's connection (`CTQueue.c:330`, 479) |

Three more the models show without a property failing:

- A client whose host has no address is given the thread's last connection, which may be another client's, and an error that
  was never initialised and may be a success (`Unresolved`, `CTQueue.c:265`, 322, 482).
- A final message of the RethinkDB server whose authentication value does not start with `v=`, or holds nothing behind it,
  counts as accepted (`AcceptsFinal`, `CTReQL.c:518-528`).
- A SecureTransport client whose second flight comes in several reads is told that the handshake failed
  (`SecondResponseFails`, `CTSSL.c:2725`), while the code around it posts the read for the rest.

## 5. What is proved

For *every* number of cursors, window, header and body length, and for `Outrun` and
`WholeHeaders` either way (`CTPipelineProofs`):

- `TypeCorrect`: `Spec => []TypeOK`. The strengthening `RxHasCursor` (the rx thread has a cursor
  exactly when it is not at the top of its loop) is needed, as every action indexes by `cursor`.
- `CursorsInOrder`: `Spec => []CursorOrder`, and `ResponsesCounted`: `Spec => []ResponseCountExact`.
  The inductive invariant is `IInv == TypeInv /\ CursorOrder /\ ResponseCountExact /\ FreshStage`.
  Neither is inductive alone: that a hand-over counts the next cursor once depends on the order,
  and that a cursor from rxPipe is scheduled at all depends on `FreshStage`: cursors that have not
  reached the rx thread are still in their first stage.

So the cursors are never lost or reordered and the count is exact even in the instances in which
*bytes* are: what goes wrong there is the data, not the control.

For every number of cursors, window and lengths, **if no response outruns its cursor and headers come
whole** (`~Outrun`, `WholeHeaders`; the second half of `CTPipelineProofs`):

- `NoByteLost`: `Spec => []StreamIntact`; `ResponsesAreOwn`: `Spec => []OwnResponse`; `MoveNeverWraps`:
  `Spec => []NeverAborts`; `ImplementsPromise`: `Spec => Promise!Init /\ [][Promise!Next]_(Promise!vars)`, the safety part
  of `KeepsPromise`.
- The inductive invariant `StreamInv` is `IInv` with `AnswersInTime` (no byte on its way belongs to a cursor
  the tx thread has not yet written to rxPipe), `BytesInv` (the bytes from the current cursor's buffer to the end of
  the network are one stream of whole responses, in the order of the requests, that starts and ends where
  `delivered` and `requests` say), `HeadersWhole` (no boundary of a buffer lies inside a header), and the three properties.
- Where the assumptions come in: `AnswersInTime` makes the branch of `RxClose` without a next cursor leave no
  bytes behind, since every byte there would have a cursor in rxPipe; `HeadersWhole` makes header and first read
  coincide, so that the length of the move does not wrap. The `outrun` run and the first row of the table above
  show that neither can be dropped.
- That two streams with the same ends have the same bytes is an induction, over data that the provers cannot
  do induction on; the proof takes the least place at which they differ instead (`LeastNatural`, from the library's
  well-foundedness of `<` on the naturals).

Of liveness, the part that is about single states and steps, in the last part of `CTPipelineProofs`:

- `EveryStepProgresses`, unconditionally: `Work`, the number of steps the cursors still have before them (sent, taken by the
  tx thread, answered, written to rxPipe, held by the rx thread, called back), is a natural number, and with each step
  (`Progress`) it gets smaller, or bytes leave the network, or the socket, or the rx thread gets closer to waiting. So the
  steps are bounded: a cursor does not go round between rxQueue and the loop without a byte read.
- `NeverStuck`, under `~Outrun`, `WholeHeaders`, and **if no body is empty** (`0 \notin BodyLens`; an empty one never satisfies
  `contentLength > 0`): while a cursor that was sent is not called back, a guard of a thread, the server or the network
  holds (`CanMove`). `WaitsForBytes` is what `StreamInv` has to be strengthened by: the cursor the rx thread waits for bytes
  with is not complete. If nothing moved, every request would be answered and every byte in that cursor's buffer, which by
  `StreamInv` would then end where a response ends, and the cursor be complete.
- Together they say that with fairness for each of these guards every cursor is called back. That last inference, over
  `ENABLED`, is not proved; that `CanMove` is `ENABLED (TxThread \/ RxThread \/ Network)` TLC finds on the instance of the
  `pipelined` run, and likewise `IocpCanMove` on that of `iocp_queued`.

For a TLS connection (`CTPipelineTLSProofs`, on the lemmas of that module), `TlsTypeCorrect`: `TlsTypeOK` is an
invariant, whatever a record holds. **If no response outruns its cursor, no body is empty, each record belongs to
one response, and a record can hold a header** (`~Outrun`, `0 \notin BodyLens`, `Coalesced = {}`, `HeaderLen <= RecordLen`),
for any lengths, and headers cut anywhere by the reads:

- `TlsNoByteLost`: `[]TlsStreamIntact`; `TlsResponsesCounted`: `[]ResponseCountExact`; `TlsNeverAborts`:
  `[]NeverAborts`; `TlsResponsesAreOwn`: `[]OwnResponse`; `TlsImplementsPromise`: the steps are steps of `CTPromise`.
- The inductive invariant `TlsInv` is the part of `StreamInv` that does not depend on how bytes get into buffers (`OwnInv`),
  the stream of whole responses, now through the undecrypted bytes as well, and `Underway`: the current cursor has at most
  its own response, and less than that while it goes on receiving. The last part is what TLS changes: as a record never
  brings bytes of the next response (`RecordOfCursor`), there is never plain text to hand over, and what is handed over are
  undecrypted bytes; a loop that ends with the closed cursor has none left (`CloseIsLast`), so that the assertion behind it
  holds. The count is proved under the same condition only, as the loop would close a cursor twice without it.
- The first record of a response holds the header (`HeaderLen <= RecordLen`), so the length of the body's move is computed
  from the bytes the header came with, which is where `WholeHeaders` is needed on a plain connection.
  The `tls_records` rows of the table above show that the other three conditions cannot be dropped.
- `TlsEveryStepProgresses` and `TlsNeverStuck`, as for the plain connection: the decryption loop
  ends, and no whole record is left undecrypted while the thread waits for the socket (`NoRecordWaits`).

For the Windows pipeline, any number of cursors on either connection, any window and lengths, and for `Outrun` and
`WholeHeaders` either way (`CTPipelineIOCPProofs`, on `CTPipelineProofs`' lemmas about what the two share):

- `IocpTypeCorrect`, `OneCursorReceives`: `IocpTypeOK` and `OneReceiver` are invariants; `IocpInOrder`: so is
  `CallbacksInOrder`, the callbacks come in the order of the requests across both connections.
- The inductive invariant `IocpInv` says where every cursor is. The difficulty is that a packet only names a cursor, and
  that packets of the tx thread and of the kernel mix in one port: `Places(p)` says that the port holds the cursors not
  scheduled yet, in their order, and at place `p` (none for 0), anywhere between them, the packet of the oldest cursor's
  WSARecv. A stage of `RECEIVE` therefore always means that packet (`PacketStages`). `Waiting` says that the messages are
  the other cursors in flight, in order, `CursorInv` that the stages say which cursors are scheduled; the cursors in
  flight are then an interval of `responseCount` numbers that starts with the oldest (`FlightIsInterval`).
- As on the plain connection the control holds unconditionally.

**If no response outruns its cursor and headers come whole** (`~Outrun`, `WholeHeaders`; the second half of
`CTPipelineIOCPProofs`), for *any* assignment of the cursors to the two connections (`Second`):

- `IocpResponsesAreOwn`: `[]OwnResponse`; `IocpNeverAborts`: `[]NeverAborts`; `IocpImplementsPromise`: the steps are steps of
  `CTPromise`, the safety part of `KeepsPromise`.
- The inductive invariant `IocpStreamInv` is `IocpInv` with one stream per connection: for each cursor that is the next
  of its connection to be called back (`FirstLeft`), the bytes in its buffer, in the packet of its WSARecv, in the socket
  and on the network are whole responses to the cursors of that connection, in the order in which they were sent, up
  to the last that is answered (`IsConnStream`); none is of a cursor not yet scheduled (`ConnInTime`), and none of
  these parts ends inside a header (`UncutHeader`). `BuffersInv` says that no other cursor has bytes in its buffer,
  `RequestsInv` that what the servers have left to answer are later cursors.
- The difficulty is what stands between two cursors of a connection: the numbers of its cursors are not
  consecutive, and when one is complete the next one on its connection need not be the next to receive. `NextSent` takes the
  place of "one more" in the stream, and `OverlapWaits` and `HeirIsNext` show that the cursor the code picks from the
  messages is the one whose response the overlap begins with: it is scheduled, hence a message, and the first of its connection.
- So the finding `iocp_shared` is a matter of liveness alone: with any interleaving of the connections each callback
  that is issued is issued in its turn and with its own response. What can happen is that none is issued any more.
- `IocpEveryStepProgresses`, unconditionally: no packet goes round for nothing. `IocpNeverStuck`, **if besides no body is
  empty and no cursor of the first connection is sent behind one of the second** (`Grouped`): some guard holds while a
  cursor that was sent is not called back. `RestInv` says that only the oldest cursor has bytes and that the rx thread does
  not leave it complete; with the connections mixed an overlap can complete a cursor that is not the next to receive, and
  this is where the finding `iocp_shared` comes from.
- TLC shows that neither `~Outrun` nor `WholeHeaders` can be dropped: with `Outrun = TRUE` and `Second = {}` `OwnResponse` is violated, with
  `WholeHeaders = FALSE` and `HeaderLen = 2` `NeverAborts` is.

For the wrapper's queries, any number of exchanges, any of them continued (`CXRequestsProofs`):

- Whatever server and network do: `CXTypeCorrect`, `MapsAreExact`, `TokensAreOfQueries`. The inductive invariant is
  `CXInv == InOrder /\ Maps`: the pipeline is in order until the process dies, and the maps hold the messages under way
  (`Entries`), no two of which have one token (`OwnTokens`). That needs `CurrentIsOver`: the exchange whose cursor the
  client may send again from its callback is no longer under way, and no other message has its token.
- Under `~Outrun` and `WholeHeaders`, `WrapsPipeline`: `CXSpec => Spec`. The wrapper's lookups never fail, so each of its
  steps is one of the pipeline or leaves it alone, and everything proved of the pipeline holds of the wrapper. From this
  follow `CallbacksAreOwn`, `WrapperNeverAborts` and `WrapperImplementsPromise`. Without the two conditions the pipeline
  delivers another request's bytes, the token in them is another's, and the callback is too.

For the TLS handshake, both builds, any lengths of the two flights and of the pieces in which the library takes them,
any cuts, and any stale content length (`CTTLSHandshakeProofs`):

- `TypeCorrect`, `Intact`, `Counted`, `Handover`: `TypeOK`, `FlightsIntact`, `ResponseCounted`, `CleanHandover` are
  invariants. The inductive invariant says where the cursor is (`OnePlace`), what the server has got and sent by then
  (`ServerKeepsUp`), and that the rx thread has bytes only of the flight it waits for (`BytesInTime`), which is why
  what is left in the buffer and what is read next fit together, and nothing is left behind for the client.
  A stale content length only makes the handshake wait: safety holds with it, `HandshakeAnswered` does not.

For the ReQL handshake, any lengths of the messages, any refusals, and a final message with or without a signature (`CTReQLHandshakeProofs`):

- `TypeCorrect` for any cuts and any first response. **If the messages the code guesses the length of are read whole, and
  the first one has the guessed length** (`WholeMessages`): `Own`, `Handover`, `Success` (`OwnMessages`, `CleanHandover`,
  `SuccessMeansNotRefused` are invariants). The inductive invariant `Phases` lists the phases of the handshake, each of
  which says where the messages, the bytes and the cursor are; each action leads from a phase to itself or to one that may
  follow it. A server that refuses the magic number leads to `Doomed`, where the process is about to abort.
  The `reql` rows of the table above show that the condition is needed.

For any number of connections, queues, threads and requests, under `Exclusive` (each connection
has a txQueue and at most one sending thread of its own; `CTTxQueueProofs`):

- `TypeCorrect`, `TokensUnique`, `OrderKept`, `NeverLost`: `TypeOK`, `UniqueTokens`, `SentInOrder`,
  `NothingLost` are invariants. The inductive invariant adds what a sender has read of
  `queryCount` (`SenderInv`), that the count is the number of posts or one less while a query is uncounted
  (`CountInv`), what was posted (`PostedInv`), and that socket, tx thread and queue together
  hold exactly what was posted, with idents that go up by one (`QueueInv`), from which follows that
  a trigger and an EV_DELETE never find an event; queues nobody uses stay empty (`UnusedInv`).
  The finding `tx_shared` shows that `Exclusive` is needed.

For any targets, any handshakes and any mishaps (`CTConnectQueueProofs`):

- `TypeCorrect`, `NoSecondAnswer`, `SuccessIsOwnConnection`: `TypeOK`, `AnsweredOnce`, `OwnConnection` are
  invariants. The inductive invariant is `Typed /\ PlaceInv /\ ConnsInv /\ AnswersInv`: a target is in one
  place at a time (cxPipe, the thread's hands, one connection), it is unanswered as long as it is in the first two or its
  connection has a handshake left to do, and no connection is made twice for one target. That the pool is never asked
  for more connections than targets (`Len(conns) <= Cardinality(Targets)`) follows by counting.
  `OwnConnection` is about the clients whose host has an address, while the others may at the same time be told of success
  with whatever connection the thread made last.
- `OwnConnectionOrNone`: **if no connected socket has an error** (`"SO_ERROR" \notin Mishaps`), `NoOthersConnection` is an
  invariant: no client whose host has an address is given another's connection, not with an error either. The last row of
  the table above shows that the assumption is needed.

The proofs assume nothing but what is named here and the named assumptions on the constants, which TLC evaluates in
the runs. The conditions in bold are satisfied by the constants of the passing runs, except that the run `connect` lets sockets
have errors (and leaves `NoOthersConnection` unchecked).
*Only model-checked* are the liveness half of `KeepsPromise`, `EverySent`, `EveryConnectionAnswered`, `EveryMessageAnswered`
and `HandshakeAnswered`; for the pipelines it is proved that the steps are bounded and that they never all wait. Liveness under fairness (and `ENABLED`) and induction
over data are out of the prover's reach and stay with TLC.

## 6. What is not modelled

- Of the Windows build: the TLS branch of the rx thread, the connect thread, the shutdown packets. The FreeBSD AIO
  branches: other control flow for the same queues.
- The TLS libraries themselves. `CTPipelineTLS` takes one for a function from bytes to records, `CTTLSHandshake` for
  the pieces in which it reads; decryption errors, which abort the program, and handshakes that the library
  refuses are left out, and so are SChannel, mbedTLS and the blocking handshake.
- The cursor pool: a ring of 1024 cursors whose next index is incremented without a lock and set back to 0
  (`CTransportAPI.c:245`, `CTQueue.c:481`). It keeps no record of what is in use, so no statement one would make of it holds;
  what it can do to the TLS handshake is `Stale`.
- SCRAM, JSON, protobuf, DNS, libdill, the blocks runtime: vendored, generated or cryptographic. They are most of the
  repository's lines, which is why the models cover a small share of it.
- The blocking and coroutine API: sequential code over libdill. NSTransport: a second copy of the rx thread.
- Partial and failed sends, the size of cursor buffers, responses of Content-Length 0, servers that close
  the connection, a second application thread that uses the wrapper's maps: hazards without a property.

## 7. Plan

Written: all modules of section 2. What remains worth doing:

1. The EXECUTE branch of the Windows rx thread (TLS records and hand-over), as a variant of `CTPipelineIOCP`.
2. A server that closes, partial sends and bounded buffers, as variants of `CTPipeline`.
3. SChannel's handshake in `CTTLSHandshake`, and a library that refuses a message.
