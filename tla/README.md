# TLA+ models of adaptivemsg-go

adaptivemsg-go carries typed messages over TCP or Unix sockets. A connection is
split into streams; protocol v2 ends with its transport, protocol v3 ("recovery")
survives the loss of a transport by resuming on a new one and replaying what was
not acknowledged. The specifications here model the parts of the library in which
goroutines, transports and timers meet, check them with TLC on small instances,
and prove with TLAPS, for all values of the constants, what they promise: above all
the reliability of a v3 session, and the safety of most of the parts around it.

`PROJECT.json` lists the components, runs, mutants, findings, hazards and theorems
and maps each definition to the lines it models.

## 1. The system

| Component | State | Operations | Modelled in |
|---|---|---|---|
| Recovery session (`recovery_runtime.go`, `replay.go`; resume in `client.go`, `server.go`) | current transport and its generation, next sequence number, replay buffer, last received number, ACK schedule, reconnect flag | attach, detach, stage, write, replay, read, ACK, reconnect, expire | `RecoverySession` |
| Connection and streams, v2 (`connection.go`, `stream.go`, `frame.go`) | stream table, reserved IDs, outbound queue, two queues per stream, closing and closed | NewStream, Send, Recv, Stream.Close, Close, closeByPeer, markClosed | `Connection` |
| Server (`server.go`) | listeners, handshakes, conns, recovery connections, running handlers, expiry timers | Serve, handleConn, attach, resume, trackConn, awaitClose, Shutdown | `ServerLifecycle` |
| Negotiation (`protocol.go`, `recovery.go`, `recovery_protocol.go`, `client.go`) | both configurations, handshake in progress | connect, fallback, handshake, attach, conversion of options | `Negotiation` |
| Request and reply (`stream.go`, `context.go`, `client.go`; handlers in `connection.go`) | recv guard, peeked message, stale replies, a task per stream, use of a `OnceConn` | SendRecv, Send, Recv, PeekWire, timeout, handlerLoop, NewTask | `RequestReply` |
| Replay buffer (`replay.go`) | slice, head, used bytes, last acknowledged number | stage, ack, compaction, snapshotFrom | `ReplayBuffer` |
| A v3 connection between its applications (`recovery_runtime.go`, `connection.go`, `stream.go`) | replay buffers in bytes, held frame, stream queues, ACKs, CLOSE | Send, handle, stage, ACK, Close, closeByPeer, expire | `RecoveryConnection` |
| Codecs, registry, types, transports, debug counters, code generator, examples | — | — | not modelled |

**How they interact.** An application calls `Stream.Send`, which puts a frame in
the connection's outbound queue. One writer goroutine per connection takes frames
from it; in v3 it first keeps them in the replay buffer under the next sequence
number. One reader goroutine takes frames off the transport, drops duplicates and
records the number (v3), and pushes the payload to the stream's `incoming` queue,
from which a decode loop per stream feeds the inbox. When a v3 transport is lost,
the reader or the writer detaches it; the client starts a reconnect goroutine and
the server an expiry timer. A resume tells each side what the other has received,
and both replay the rest. The server's handler goroutines, the waiters that call
`OnDisconnect`, the timers and `Shutdown` share the tables of `Server`.

**What is hard.** Steps of reader, writer, reconnect goroutines, handlers and timers
in any order; a transport that breaks between any two of them; a resume that the
client has given up and the server still completes; ACKs that are lost or late; one
token channel for all wakeups; queues that are full while something closes; a
Shutdown that takes its lists while entries move between tables; durations that are
rounded on the wire. The list under "hazards" in `PROJECT.json` names the lines and
the properties that would catch each one going wrong.

**What makes each component correct.**

- Session: each accepted frame reaches the peer's streams once and in order, however
  often the transport breaks; nothing unreceived is dropped from the replay buffer;
  what is accepted arrives, a send waiting for room gets it, and a detached client
  comes back.
- Connection: a closed stream stays closed; `OnCloseStream` runs once; a FIN and a
  graceful close deliver what was sent before them; every close ends and never holds
  up the other streams.
- Server: no socket and no stored connection is orphaned; nothing escapes Shutdown;
  its nil result means that nothing runs; detached connections expire.
- Request and reply: SendRecv gets its own reply, also after a timeout; nothing but
  late replies is discarded; a peeked message is not lost; a `OnceConn` sends once.
- Replay buffer and flow: the buffer's bytes and frames are exact; a Send that waits
  for room gets it; a v3 Close delivers what was accepted and releases the peer.
- Negotiation: both sides end with one version, codec, frame limit and compatible
  heartbeats, or with the right error.

## 2. Modules

| Module | What it is |
|---|---|
| `MessageChannel` | Abstract: a reliable ordered channel in both directions with closing ends. |
| `RecoverySession` | One v3 connection: both endpoints, the reconnect goroutines, the resume handlers and the transports. Refines `MessageChannel`. |
| `RecoverySessionProofs` | Its theorems about frames: types, order, replay, the refinement. |
| `RecoveryScheduleProofs` | Its theorems about goroutines: ACKs owed, wakeups, reconnects, who ends first. |
| `Connection` | One v2 connection and its streams, from Send to Recv. |
| `ConnectionProofs` | Its theorems about the stream table: types, IDs, FINs and reservations. |
| `StreamProofs` | Its theorems about messages, on `ConnectionProofs`: what a FIN and what Close delivers. |
| `RequestReply`, `RequestReplyProofs` | SendRecv, Recv, PeekWire and the handler loop on one stream; its theorems. |
| `ReplayBuffer` | The replay buffer as operators on its slice. |
| `RecoveryConnection` | Uses `ReplayBuffer`: client, handler, stream queues, buffers and Close of one v3 connection. |
| `RecoveryConnectionProofs` | The theorems about both: queues, the graceful Close, what a buffer keeps. |
| `ServerLifecycle`, `ServerLifecycleProofs` | The server around many connections; its theorems. |
| `Negotiation`, `MCNegotiation`, `NegotiationProofs` | Connect and attach; the MC module gives the codec lists; the theorems. |

The detailed modules meet at narrow interfaces. `RecoverySession` assumes a
connection that negotiation has set up and delivers frames to streams that accept
them. `Connection` models those streams and queues over a transport that does not
resume. `RecoveryConnection` puts the two together on one transport, with the buffer
of `ReplayBuffer`, because what matters there (queues that hold up the reader and the
ACKs behind it, CLOSE behind held frames) is in neither. `RequestReply` is above them:
it assumes what `MessageChannel` promises. `ServerLifecycle` abstracts a connection to
"it may detach or close at any time" and keeps what the others leave out: who owns it.

### RecoverySession and the code

Per side: `conn` is `Connection.conn`, and since a transport is attached at most
once by each side its index also stands for `transportGen`; `nextSend`, `lastRecv`,
`lastAckSent`, `ackPending` are the fields of those names; `kept` is the content of
the replay buffer; `ack` folds `ackDue` and `ackDueAt` into idle, delayed and due;
`notify` is the token in `sendNotify`. `wpc`, `wconn`, `lastSent`, `resume`, `held`
are the writer's control point and locals, `rpc`, `rconn` the reader's. `starting`,
`loop`, `rechecking`, `dialing` are the client's reconnect goroutines before, in and
after the flag `reconnectActive`. `handler`, `req`, `resp` are the server's handler
per transport with the numbers in the attach request and answer.

A step is what one goroutine does between two points at which another can see or
change what it uses: a critical section, an atomic operation or a channel operation.
`WriterAttach` and `WriterPark` begin and end `recoveryWriter`'s work on a transport;
`WriteAck`, `WriteResume`, `WriteNextLive`, `WaitLive`, `WaitHold` are its choices in
the order in which the code tries them; `Stage` is `stage`; `ReadData`, `ReadAck`,
`ReadError` are the reader; `WriterIdle` enters `wait()`, whose timers `NextAckWait`
decides: `wpc` is `ackWait` where the ACK delay is one of them, and `overdue` where the
delay ended before `wait()` asked for it and only the heartbeat is (section 4). `LoopStart` to `LoopRecheck` are `reconnectLoop`, and
`Dial`, `ClientAttach`, `ClientRejected`, `ResumeFails`, `ResumeTimeout` the resume
it runs; `ServerAnswer` and `ServerAttach` are the two halves of `attachResume`,
separate because the old transport's reader and writer run between them. `Break` is
the network; what was in flight is lost for the side that notices.

Data is abstracted to sequence numbers. A frame takes one unit of the buffer. Writes
go to the transport at once: `bufio` and the flush are not modelled, and a `Break`
with frames in flight covers what a lost buffer does.

### Connection and the code

`open` and `reserved` are the keys of `streams` and `closedPeerStreams`; `outbound`,
`incoming`, `inbox` the bounded channels; `closing`, `closed` with `swept` the three
stages of closing; `cpc`, `closer`, `sender`, `rpc`, `decoder`, `writer` the control
points of Close, Stream.Close, Send, the reader, the decode loops and the writer. A
Go `select` with several ready cases is a disjunction. `Marker` is the closing frame
that Close queues behind the others. `sent`, `flushed`, `got`, `opened` and
`released` are history. Handlers are applications that receive and send.

### RequestReply and the code

`recvActive`, `peeked`, `staleReplies`, `inbox` are the fields of `Stream`; `pc` is
where each goroutine is in SendRecv, Recv or PeekWire. `Call` enters `sendRecvAs`,
`CallSend` is its `sendBoxed`, `Discard`, `Take`, `TakePeeked`, `PeekRead`, `Timeout`
and `RecvClosed` are the outcomes of `takeRaw`, `peekRaw` and `readRaw`. A message is
the number of the request it answers. `Reply` is an iteration of `handlerLoop`,
`ReplyUnsent` one whose `sendBoxed` fails, `NewTask`, `TaskSend`, `TaskEnd` a handler's
task. A reply of the wrong type is a choice in `Return`: `protocolError` then closes
the stream. `mixed` remembers that the stream has ceased to be what `stream.go:19`
calls "one ordered conversation" with one reply per request: a Send that a handler
answers while a SendRecv waits, an event from a task, or a reply that could not be
sent.

### RecoveryConnection, ReplayBuffer and the code

An operator of `ReplayBuffer` returns the buffer after a call of the method of that
name. In `RecoveryConnection`, `outbound`, `held`, `nextSend`, `lastAckSent` belong to
the writer, `rpc` and `lastRecv` to the reader; `incoming` and `inbox` count what is in
a stream's queues. `TakeFrame`, `TakeHeld`, `TakeMarker` are the writer's `writeLive`
and `finishRecoveryWriter`; `ReadData`, `ReadAck`, `ReadClose`, `ReadError` the reader;
`DrainEnd` the end of `closeByPeer`; `Close` to `CloseEnd` are Close and
`closeGracefully`; `Expire` is the server's timer or the client's giving up. `half` is
what a side will read once the wire is empty: a socket that is closed with data unread
resets the other side, whatever was on its way there. `late` remembers that a
`closeFlushTimeout` has passed.

### ServerLifecycle and the code

`serve` is the accept loop, `handler[c]` the control point of `handleConn` for conn
`c`, and the tables have their names in `Server`. A logical connection has the number
of the conn that created it. `timer`, `fired`, `expiring` and `schedule` separate
the moments of `scheduleExpiry` and of the timer's callback. `closers` are the goroutines
that Shutdown starts, `waiter` is `awaitClose`. `connects` and `disconnects` count the
callbacks.

`markClosed` takes several locks in turn, and each is a step. `MarkClosed` is part of the
action that calls it: it enters `closeOnce` and closes `closeCh`, which already wakes
`awaitClose`. `CloseTransport`, `StopTimer` and `RemoveRecoveryConnection` follow, with
`release` saying which is next; `RefuseReturns` and `CloseReturns` are the handlers that
wait in `markClosed` until `Released`. In between, attaches, detaches, timers, Shutdown
and the waiter go on. Only the Close of a `net.Conn` after an unlock counts as part of
the section before it.

### Negotiation and the code

`HandshakeReply`, `SelectCodec`, `NegotiateMaxFrame`, `Normalized`, `Encoded` and
`Decoded` are the functions of the code as operators; durations are ticks and travel
as milliseconds within `MaxMillis`, which stands for the largest uint32. `unread` is
the data left in a socket that the server closes: the client then loses the answer.

## 3. Runs

All bounds are constants of the configurations. Deadlock checking is off throughout:
every one of these systems may stop (a closed connection, nothing left to send, a
server that has shut down); that they do not stop too early is what the liveness
properties say.

| Run | Instance | Checks |
|---|---|---|
| `session_safety` | 2 frames up, buffer of 1, delayed ACKs, 2 transports, 1 failure (745k states) | `TypeOK`, `NoGap`, `InOrderOnce`, `UnreceivedIsKept`, `AckScheduledIffOwed`, `NoLostWakeup`, `SessionInv`, `DetachedClientReconnects`, `ClientOutlivesServer`, `ImplementsChannel` |
| `session_delivery` | 1 frame, 2 transports, 1 failure, fairness (273k) | `AcceptedIsDelivered`, `ClientReattaches` |
| `conn_safety` | 2 messages, queues of 1, both sides close the stream, Close, 1 failure (1.0M) | `TypeOK`, `NeverReopened`, `ReleasedOnce`, `FinDelivers`, `CloseDelivers` |
| `conn_ends` | 2 messages, queues of 1, nobody need receive, Close and Stream.Close, 2 timeouts, fairness (250k) | `CloseEnds`, `ClosedStreamFreesReader` |
| `request_reply` | 2 goroutines, 2 SendRecvs, 1 Send, 2 timeouts, 1 event or unsent reply, closes, fairness (583k) | `TypeOK`, `OwnReply`, `NothingLost`, `OnceSendsOnce`, `CallReturns` |
| `recovery_flow` | 5 requests of 1 or 2 bytes, replies of 2 or 3, buffers of 2 bytes, queues of 1, fairness (100k) | `TypeOK`, `BufferExact`, `SendReturns` |
| `recovery_close` | 3 requests, buffers of 1 frame, both sides Close, fairness (335k) | `CloseDelivers`, `CloseReleases`, `CloseEnds` |
| `server_tables` | 2 conns of any kind, 1 recovery connection (1.5M) | `TypeOK`, `OpenConnsAreOwned`, `StoredIsServed`, `ShutdownComplete`, `NobodyEscapesShutdown` |
| `server_ends` | 1 conn, v2 or v3, not resumed, fairness (11k) | `ShutdownEnds`, `DetachedExpires` |
| `negotiation_connect` | all pairs of configurations, sub-millisecond and too long durations included, 1 failure | `TypeOK`, `Agreement`, `ConnectSucceeds` |

**Why the bounds are enough to be interesting.** Two frames and a buffer of one make a
send wait, so that staging, holding, replay and acknowledgement overlap. Two
transports and one that breaks give a resume at every step, with one that times out at
the client and is still completed by the server, the expiry of the server, and the
loss of the second transport (a late attach of the first replaces it) while the
reconnect goroutine is still on its way out. Data flows from client to server in the
session's runs; the code of both directions is the same but for who resumes, and the
proofs cover both (section 5). Queues of one are full after one message; a reader is
held up when one message is in `incoming` and one in its hand while the decode loop
has ended or waits. `conn_ends` needs two timeouts because each side may need one. Two
conns give a connection and its resume, or two connections of which one is v3
(`MaxRecovery`), against Shutdown and the steps of `markClosed`; with two v3 connections
the invariants hold as well (6.8M states, too long to repeat at every change).
`server_ends` has one conn because the state graph with two is beyond liveness
checking in reasonable time. The options of `negotiation_connect` include fractions of
a millisecond and durations too long for the wire.

In `request_reply` two timeouts leave two late replies for the one that is waited for.
In `recovery_flow` five requests are what it takes to have one in the handler's hand,
two in the queues, one in front of the reader and an ACK behind it; three bytes are a
reply too large for the buffer, and the acknowledgements make the slice compact, empty
and keep a dead part. In `recovery_close` three frames meet a buffer of one, so that a
frame is held when Close comes.

**Fairness.** Weak fairness of each goroutine of the library: Go schedules every
runnable goroutine, timers fire, and application callbacks (`OnConnect`,
`OnDisconnect`) return. In `Connection` and `RecoverySession` nothing is assumed of
applications: they need not send, receive or close. `RecoveryConnection` and
`RequestReply` ask what applications get that do their part: there the client receives
and handlers return, but no receive timer need be set. `RecoveryConnection` also has
an ACK that stays owed written in the end, because `writeNext` puts it before frames.
Transports need not break, clients need not resume, and a client may not count on the
server to expire. A transport that is closed or broken makes its reader fail in the
end. `FairSpec` of the session assumes nothing of the heartbeat, so that no wakeup may
rest on it; `HeartbeatSpec` adds it, which makes the violation of `HeldSendProceeds`
stronger: not even the heartbeat helps. (It also starts once the first transport is
attached by both sides and idle, a state every session passes through when nothing is
sent at first, to keep that run small.)

**Mutants.** Each checked property has a mutant in `PROJECT.json`: an operator marked
*faulty* stands before the operator it is a plausible bug of, is used by nothing
else, and makes TLC report that property violated when it takes that operator's place.

## 4. Where the code and its documents disagree

Each of these runs checks one sentence of the repository and ends in a counterexample.

| Run | Property | What TLC shows |
|---|---|---|
| `session_held_forever` | `HeldSendProceeds` | A send that waits for replay room can wait for ever on a healthy transport. A writer that has not noticed the resume yet takes the ACK of a frame that came on the new transport and writes it to the old one; the ACK counts as sent and is never sent again. |
| `server_never_expires` | `DetachedExpires` | `onAttached` can stop the timer of a detach that came after the attach: the connection then stays detached without a timer. |

`DetachedExpires` also has a passing run: it holds without a resume, which is the
boundary of that defect.

The next ones have no run of their own; the passing property states the exact case.

- `SendReturns` (`recovery_flow`): `Send` "waits while MaxReplayBytes of messages await
  acknowledgement" (`stream.go:102-103`), and can wait for ever on a healthy connection
  whose applications all receive. A server handler waits for replay room with its
  reply, its stream's queues are full of requests, the reader holds the next one, and
  the client's ACK is behind it (`WaitsBehindData`). Pings of both writers keep the
  heartbeat content. In this instance it is the only way in which a Send does not end.
- `ConnectSucceeds` (`negotiation_connect`): `README.md:215` says that two sides that
  enable recovery get v3. With intervals below a millisecond, which `uint32` milliseconds
  round up while the timeout is rounded down, the client refuses the options that the
  server accepted (`RoundsTooClose`), and options too long for the wire fail. Which of
  the two errors a server gets that is exposed to both was settled by the proof: the
  encoding comes first (`recovery_protocol.go`), so no client ever sees its options.
- `FinDelivers` (`conn_safety`): a stream is "one ordered conversation"
  (`stream.go:19`), and it is while the connection is open. Once it has closed, one
  `select` can drop message k and the next deliver k+1.
- `OwnReply` (`request_reply`): "the next request on this stream receives its own reply"
  (`stream.go:116-117`) holds with one reply per request. A reply that `handlerLoop`
  could not send (`connection.go:486`), a Send to a message with a handler, or a task's
  event before the handler's reply shift all later replies of the stream by one.
- `CloseDelivers` (`recovery_close`) is about an attached transport: `Close` while
  detached returns at once (`connection.go:183`) and drops frames that Send accepted;
  `connection.go:163` says that it "first delivers the messages already queued".

Smaller differences met on the way, for which no run is kept:

- `stageWhileDetached` (`recovery_runtime.go:548`) takes and numbers frames while no
  transport is attached; `connection.go:670` and `DEVELOP.md:384` say that they wait
  in `outbound`.
- `Recv` returns buffered messages after `Stream.Close` has returned; `stream.go:59`
  says that it returns `ErrClosed`.
- A `Stream.Close` between the reading of the peer's FIN and its processing reserves
  the stream ID for the life of the connection; `connection.go:387` says "until the
  peer's FIN".
- The expiry callback (`recovery_runtime.go:416`) looks only whether a transport is
  attached now, so a late timer of one detach can end the next one early.
- `wait()` (`recovery_runtime.go:611-613`) "waits for something to write: a new frame, a
  signal that a frame or an ACK is ready, the ACK delay, or the heartbeat interval".
  `nextAckWait` (320-329) returns 0 both when no ACK is scheduled and when one is overdue,
  so that an ACK whose delay ends after `takePendingControl` has looked, during the flush
  in particular, gets no timer and no token: it waits for a frame, a signal or the
  heartbeat. `NoLostWakeup` names this as its one exception.
- `OnDisconnect` is called "after a connection has fully closed" (`server.go:103-104`),
  and `Shutdown` returns "once every connection has closed" (`server.go:408-409`). Both
  wait for `closeCh`, the first thing that `markClosed` closes: the transport, the expiry
  timer and the entry in `recoveryConns` may still be there. `running` counts no
  goroutine that is in `markClosed`, so neither does a nil result of Shutdown mean that
  they are gone. `ShutdownComplete` says what can be left, `ShutdownEnds` that it goes.
- Between the attach of a resume and `endHandshake` (`server.go:265`), Shutdown closes
  an established connection's transport as if it were in the handshake.

## 5. Proofs

All theorems hold for all values of the constants that satisfy the assumption of the
module (`ConstantsAssumption`, `ConnectionAssumption`, `ServerAssumption`,
`NegotiationAssumption`, `RequestReplyAssumption`, `RecoveryConnectionAssumption`): they say that bounds are natural numbers, that sets of
goroutines are finite, and that durations, sizes and limits are positive where the
code has positive defaults. TLC evaluates them in every run. Each proof
has the same shape: an inductive invariant as a conjunction of named parts, one lemma
per part (or per group of actions) with a case for each action, and theorems that draw
the checked properties from it. TLC checked each of the inductive invariants on instances
of the size of those in section 3, or a little smaller, before it was proved.

### The session: frames (`RecoverySessionProofs`)

| Theorem | States |
|---|---|
| `TypesHold` | `Spec => []TypeOK` |
| `SessionInvHolds` | `Spec => []SessionInv`, the inductive invariant |
| `NoGapHolds` | no reader ever finds a number missing |
| `InOrderOnceHolds` | frames reach the streams once and in order |
| `PeerNeverAheadHolds` | nothing is acknowledged before it is received, or received before it is sent |
| `UnreceivedIsKeptHolds` | the replay buffer holds what the peer lacks |
| `SessionImplementsChannel` | the session implements `MessageChannel` |

`NoGap` is not inductive: whether a frame that arrives is the next one depends on what
the peer's writer did on a transport that may be gone. `SessionInv` adds what that
takes.

- `AcksAreTrue`: every ACK in flight and every number in an attach request or answer
  is at most what its author has received by now. Numbers received only grow, so a
  late one stays true, and what it drops from the replay buffer has arrived.
- `KeptIsUnacked`: the buffer holds exactly the frames after the last acknowledged
  one. With the first part, everything the peer lacks is there.
- `PipesAreGapless`: each data frame on a transport is the next one for its reader or
  older, or its predecessor is ahead of it on the same transport. This is a fact about
  every transport, dead ones and abandoned ones included.
- `LastSentArrives`: the last frame the writer wrote to a live transport was received
  or is on that transport; it is what makes the next frame gapless.
- `ReplayFollowsSent`: what the writer has left to replay is everything after some
  point not beyond what the peer has or was sent.
- `TransportsDialed`: which transports are in use.

The lemmas `Pipe*` say what appending to and taking from a transport does to the two
predicates on it; one lemma per action group (`AttachCore`, `StageCore`, `AckCore`,
`ResumeCore`, `LiveCore`, `DataCore`, ...) shows that the group preserves the
invariant. `StepSimulates` maps each step to a step of `MessageChannel` or a stutter,
with frames accepted being `nextSend` and frames received being `delivered`.

### The session: goroutines (`RecoveryScheduleProofs`)

| Theorem | States |
|---|---|
| `AckScheduledIffOwedHolds` | an ACK is scheduled exactly while one is owed |
| `NoLostWakeupHolds` | a sleeping writer has nothing to do or a token that wakes it, but for an overdue ACK (section 4) |
| `DetachedClientReconnectsHolds` | a client without a transport has a goroutine that reconnects it |
| `ClientOutlivesServerHolds` | a client ends for a rejected resume only after the server has closed |

`ScheduleInv` rests on `SessionInv` (an ACK for a number that was never received could
be owed for ever) and adds three facts: what was acknowledged was received
(`AckSentReceived`); a writer between two frames that has no token is on the attached
transport (`NextIsAttached`), which is what it relies on when it goes to sleep; and a
handler has rejected a resume only if the server has closed (`RejectedIsGone`).
`DetachedClientReconnects` is inductive as it stands.

### The connection: stream table (`ConnectionProofs`)

| Theorem | States |
|---|---|
| `TableInvariant`, `ConnTypesHold` | the inductive invariant; the types, with every queue within its capacity |
| `NeverReopenedHolds` | no side opens a stream ID twice |
| `ReleasedOnceHolds` | every stream that was opened is released once, and none is left after the sweep |

A frame that arrives for an ID that is not in the table opens a stream unless the ID is
reserved or was allocated here, so `NeverReopened` is a fact about all frames on their
way. A server forgets a reservation when it reads the FIN; `TableInv` says why nothing of
that stream can follow: `Stream.Close` shuts out every Send before it queues the FIN
(`ClosersShut`), only clients queue one (`ClientFins`), it is the last frame of its stream
in `outbound` and on the wire (`FinsLast`), and once it has been read, nothing of the
stream is in either (`FinsPass`). `Known`, `Staged`, `Unborn`, `Left` and `Framed` tie the
table to the control points of the reader, the decode loops and the closers.

### The connection: messages (`StreamProofs`)

| Theorem | States |
|---|---|
| `StreamInvariant` | messages are neither lost nor reordered between Send and Recv, and a FIN comes behind all of them |
| `FinDeliversHolds` | an open stream delivers without a gap, and all that was sent before its FIN |
| `CloseInvariant` | what Close flushes, and that it waits for the peer |
| `ConnCloseDeliversHolds` | without timeout and failure, the side that the peer closed has everything that was queued before Close |

A message passes five queues and two hands (the reader's and the decode loop's).
`StreamInv` counts: `Decoded` is what has left `incoming`, `Taken` what has left the wire.
`Queued` says that the queues of a stream hold the consecutive numbers up to these counts,
then FINs only; `Ordered` that `outbound` and the wire are in order; `Flow` that the
numbers after `Taken` are on the wire or in `outbound`, without a gap, as long as nothing
was reset; `FinsComplete` and `FinsFollow` that a FIN which has come leaves nothing
behind. A failure empties neither queue, but what it lets the writer lose is lost from the
end, which is why a FIN on the wire still has all of its stream before it.

`CloseInv` adds the two sides' views of a Close. `Marked`: after the marker nothing is
left in `outbound` that was sent before Close. `PeerWaits`: a side that has not called
Close itself, with no failure and no timer, is closed by nobody but its own reader; until
then the peer waits, and reads no reset. `DrainsAll`: while `closeByPeer` waits, a flushed
message is delivered or queued in a stream that it waits for, and a stream is done only
behind its FIN; so when the wait ends every flushed message is delivered, and stays so
while Recv goes on.

### The server (`ServerLifecycleProofs`)

| Theorem | States |
|---|---|
| `ServerInvHolds`, `ServerTypesHold` | the inductive invariant; the types |
| `OpenConnsAreOwnedHolds` | no conn is leaked, and a closed connection keeps none that its `closeTransport` will not close |
| `StoredIsServedHolds` | a connection that a resume can find is open and has an owner, or is about to be removed |
| `NobodyEscapesShutdownHolds` | once Shutdown waits, whatever was started is closed or has a closer |
| `ShutdownCompleteHolds` | after a nil result no handler or callback is left, and only what a `markClosed` under way will release |

That a nil result means anything rests on the counter `running`, so the centre of
`ServerInv` is `RunningExact`: `running` is the number of busy handlers plus the number
of `awaitClose` goroutines of v3 connections, as cardinalities. The rest says who those
are. `HandlersFollowKinds`, `TargetsAreTold`, `UnbornIsUnused`, `CallbacksFollow` tie the
control points of a handler, its waiter and its callbacks to each other;
`TablesAreServed` gives every entry of `handshakes` and `conns` a goroutine that removes
it, and `StoredIsServed` does for `recoveryConns`; `ConnsAreHeld` gives every open conn a
handler or a connection whose transport it is. What `markClosed` has still to release is
settled by two parts. `TransportsFollow`: attaches race with `markClosed`, but
`attachTransport` looks at `closed` under the lock that `closeTransport` takes after it was
set, so a closed connection has a transport only before its `closeTransport`.
`TransportsServed`: an open conn is the transport only of a connection that is closed, has
started, or is still with the handler that creates it, so that when `running` is 0 all of
them are closed. `ShutdownTracks` says that from the moment Shutdown has taken its lists,
what is not on them is in the hands of a handler that will see `stopping`.

### Negotiation (`NegotiationProofs`)

| Theorem | States |
|---|---|
| `NegotiationInvHolds`, `NegotiationTypesHold` | the inductive invariant; the types |
| `AgreementHolds` | same version, codec, limit on both sides; heartbeats fit; a resume keeps them |
| `ConnectSucceedsHolds` | without a failure, connect succeeds in the version both enable, but for the options of section 4 |

`NegotiationInv` says that every message and every configuration belongs to the attempt
in progress, v3 or the v2 fallback. The substance is in the lemmas on durations:
`normalized` returns options with a timeout of at least two intervals
(`NormalizedUsable`) and leaves such options alone (`UsableNormalized`); on the wire a
duration loses less than a millisecond, and becomes one if it has less (`MillisRound`); so
decoding refuses exactly the options of `RoundsTooClose` (`DecodesUnlessTooClose`), and
what it accepts fits the heartbeats of the server (`RoundedFits`). `SelectsCommon` shows
that a codec is selected iff the lists share one.

### Request and reply (`RequestReplyProofs`)

| Theorem | States |
|---|---|
| `RequestInvHolds`, `RequestTypesHold` | the inductive invariant; the types |
| `OwnReplyHolds` | SendRecv returns its own reply after any number of timeouts, and only late replies are discarded |
| `NothingLostHolds` | nothing is lost between PeekWire, Recv and SendRecv |
| `OnceSendsOnceHolds` | a `OnceConn` sends once |

The counter `staleReplies` carries no request numbers, so that the next reply is the
right one is a fact about all the replies on their way: on an orderly stream (one reply
per request, in order) the requests without a consumed reply are the last ones, the
first `staleReplies` of them have timed out (`LateFirst`), and the call that waits, if
any, sent the last one (`OneWaits`). `Counted` counts the replies to come, `GuardHolds`
lets one goroutine at a time take them.

### The v3 connection: Close and the replay buffer (`RecoveryConnectionProofs`)

| Theorem | States |
|---|---|
| `ConnectionInvHolds`, `ConnectionTypesHold` | the inductive invariant of all states; the types and the limits of the queues |
| `QuietInvHolds` | the inductive invariant while no `closeFlushTimeout` timer has fired |
| `CloseReleasesHolds` | a graceful Close leaves no side detached |
| `CloseDeliversHolds` | a Close that returns in time has delivered all that Send accepted |
| `BufferInvHolds`, `BufferExactHolds` | the replay buffer keeps the frames not acknowledged, counts their bytes, and a snapshot is what a resume needs |

`ConnInv` has the bookkeeping. `Counts`: a request that the server has received is in a
queue, with the handler or has its reply numbered. `Shape`: a Send has one frame,
in `outbound` or held, and the closing marker is behind it, so a writer that has come to
the marker has staged every frame that Send accepted. `Bounds` and `OnWire`: an ACK
on the wire acknowledges what was received, and what was received was sent.

`QuietInv` is why Close delivers. While no timer has fired no end is lost (`Alive`): a
side closes its end only when its peer has ended too (`BothEnd`), so nobody reads a
reset or writes to one that is gone. CLOSE is the last frame and stays until it is
read (`CloseLast`); every number given out is received or on the wire (`AllSent`); so a
reader that has come to CLOSE has received all (`AllRead`), and a side that its peer
closes ends only when its decode loop has handed all of it on (`ByPeer`). When both
sides call Close at once each of these conjuncts is needed for the other side's steps.

`BufferInv` carries `BytesAreExact` and `KeepsUpTo` for each buffer, with the types of its
fields. The operators have lemmas of their own, of any buffer: `NewGood`, `StagedGood`
(a frame with the next number that fits), `AckedGood` (any number up to the last one
given out, through `DroppedFacts` for the loop and `CompactFacts` for the three ways to
leave the slice), `SnapshotsGood`. What `Bytes` computes is shown by induction: the
library's theorem for natural numbers takes a predicate, but the well-foundedness of
`<` is a fact about sets, from which `Least` and `SetInduction` follow; with them
`SumExists`, `BytesIsSum`, `BytesAppend`, `BytesSplit` and `BytesNat`. That an ACK never
names a number beyond the last one given out, which `AckedGood` needs, comes from `ConnInv`.

### Only model-checked

Liveness (`AcceptedIsDelivered`, `ClientReattaches`, `SendReturns`, `CallReturns`, both
`CloseEnds`, `ClosedStreamFreesReader`, `ShutdownEnds`, `DetachedExpires`) is out of
TLAPS' reach here: fairness and `ENABLED`. Every invariant that a run checks has a
theorem.

## 6. Not modelled

- Frames that do not decode and the connection's answer to them; the order of
  `OnNewStream` and `OnCloseStream`.
- A resume while stream queues are full or a Close is under way: `RecoverySession` has
  the resume, `RecoveryConnection` the queues and the Close, and their product is beyond
  what TLC can explore. The code resends no CLOSE, so a Close whose transport breaks
  ends as a Close with a late timer does.
- Real time: timers may fire at any time after they are set. That a timeout is long
  enough is not a question asked here, except for heartbeats in `Negotiation`.
- Codecs, registry and types (pure conversions by reflection), transports (wrappers of
  `net`), debug counters (never read back), the code generator and the examples.

## 7. Plan

Done, in this order: `MessageChannel`, `RecoverySession` and its proofs; `Connection`;
`ServerLifecycle`; `Negotiation`; `RequestReply`; `ReplayBuffer` and
`RecoveryConnection`.

Proofs, done, in this order: `RecoverySession`, `ServerLifecycle`, `Negotiation`,
`RequestReply`, `Connection`, `ReplayBuffer` and `RecoveryConnection`.

Next, models: the order of the stream callbacks in `Connection`, and an expiry timer
with the detach it was set for as a property of `ServerLifecycle`.
