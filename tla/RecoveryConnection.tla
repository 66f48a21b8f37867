------------------------- MODULE RecoveryConnection -------------------------
(***************************************************************************)
(* A v3 connection between its applications: a client that sends requests  *)
(* on one stream and a server whose handler answers each, the replay       *)
(* buffers with their limits in bytes, the ACKs that free them, the stream *)
(* queues that hold up the reader, and the graceful close with its CLOSE   *)
(* frame.  It composes what RecoverySession and Connection model apart and *)
(* leaves out what they have: the transport is lost only to a Close that   *)
(* came too late, and nobody resumes; the expiry timer ends the side that  *)
(* was left.                                                               *)
(*                                                                         *)
(* On the wire a frame is data with its number, an ACK or CLOSE.  An ACK   *)
(* that is owed is written at any time: AckEvery and AckDelay only say     *)
(* when.  A queue is the number of its messages, their order being         *)
(* RecoverySession's and Connection's subject: incoming is Stream.incoming *)
(* with the decode loop's hand, inbox is Stream.inbox for the client and   *)
(* Stream.handlerCh for the server.  A reader that waits for room has its  *)
(* frame still on the wire.  A Send waits for the writer's verdict, so     *)
(* outbound holds one frame and the closing marker at most.                *)
(*                                                                         *)
(* Every wait of a goroutine also ends with closeCh: a side that is closed *)
(* takes no further step, and what its goroutines do on their way out is   *)
(* Connection's subject.                                                   *)
(*                                                                         *)
(* Operators marked faulty are used by no definition here: each is a       *)
(* plausible bug in the operator that follows it.                          *)
(***************************************************************************)
EXTENDS ReplayBuffer

CONSTANTS
    NRequests,       \* bound: requests the client sends
    ClientSizes, ServerSizes,   \* sizes of requests and of replies
    ClientBytes, ServerBytes,   \* MaxReplayBytes of each side
    QueueSize,       \* streamQueueSize: capacity of incoming and of inbox
    Closers          \* sides whose application calls Connection.Close

Sides == {"client", "server"}

ASSUME RecoveryConnectionAssumption ==
    /\ NRequests \in Nat /\ QueueSize \in Nat \ {0}
    /\ ClientSizes \subseteq Nat \ {0} /\ ServerSizes \subseteq Nat \ {0}
    /\ ClientBytes \in Nat /\ ServerBytes \in Nat
    /\ Closers \subseteq Sides

Peer(p) == IF p = "client" THEN "server" ELSE "client"
Sizes(p) == IF p = "client" THEN ClientSizes ELSE ServerSizes

Marker == 0                            \* outboundFrame.closing; else a size
Data(n) == [kind |-> "data", n |-> n]
Ack(n) == [kind |-> "ack", n |-> n]
CloseFrame == [kind |-> "close", n |-> 0]

VARIABLES
    sender,      \* per side, the application's Send or the handler's: "idle", "verdict"
    \* the writer
    outbound, held, nextSend, lastAckSent,
    marked,      \* the writer has come to the closing marker and ended
    replay,
    \* the reader and the decode loop
    rpc,         \* "read", "drain" (closeByPeer), "detached"
    lastRecv, incoming, inbox,
    \* closing
    closing, closed,
    cpc,         \* Close: "idle", "mark", "flush", "peer"
    \* the transport
    attached, wire, half,
    \* history
    late         \* a closeFlushTimeout timer has fired

writerVars == <<outbound, held, nextSend, lastAckSent, marked>>
readerVars == <<rpc, lastRecv>>
queueVars == <<incoming, inbox>>
closeVars == <<closing, closed, cpc, late>>
netVars == <<attached, wire, half>>
vars == <<sender, writerVars, replay, readerVars, queueVars, closeVars, netVars>>

Each(v) == [p \in Sides |-> v]

Init ==
    /\ sender = Each("idle")
    /\ outbound = Each(<<>>) /\ held = Each(<<>>) /\ nextSend = Each(0)
    /\ lastAckSent = Each(0) /\ marked = Each(FALSE)
    /\ replay = [p \in Sides |-> NewReplayBuffer(IF p = "client" THEN ClientBytes
                                                                  ELSE ServerBytes)]
    /\ rpc = Each("read") /\ lastRecv = Each(0)
    /\ incoming = Each(0) /\ inbox = Each(0)
    /\ closing = Each(FALSE) /\ closed = Each(FALSE) /\ cpc = Each("idle")
    /\ attached = Each(TRUE) /\ wire = Each(<<>>) /\ half = Each("open")
    /\ late = FALSE

-----------------------------------------------------------------------------
(* The applications.                                                       *)

(* enqueueFrame: the frame goes to outbound and the sender waits. *)
Enqueue(p) ==
    /\ ~closing[p] /\ ~closed[p]
    /\ \E size \in Sizes(p) : outbound' = [outbound EXCEPT ![p] = Append(@, size)]
    /\ sender' = [sender EXCEPT ![p] = "verdict"]

SendRequest ==
    /\ sender["client"] = "idle" /\ nextSend["client"] < NRequests
    /\ Enqueue("client")
    /\ UNCHANGED <<held, nextSend, lastAckSent, marked, replay, readerVars, queueVars,
                   closeVars, netVars>>

(* The client's Recv. *)
Recv ==
    /\ ~closed["client"] /\ inbox["client"] > 0
    /\ inbox' = [inbox EXCEPT !["client"] = @ - 1]
    /\ UNCHANGED <<sender, writerVars, replay, readerVars, incoming, closeVars, netVars>>

(* handlerLoop takes a request and sends the reply, if it still can. *)
Handle ==
    /\ ~closed["server"] /\ sender["server"] = "idle" /\ inbox["server"] > 0
    /\ inbox' = [inbox EXCEPT !["server"] = @ - 1]
    /\ \/ Enqueue("server")
       \/ closing["server"] /\ UNCHANGED <<sender, outbound>>
    /\ UNCHANGED <<held, nextSend, lastAckSent, marked, replay, readerVars, incoming,
                   closeVars, netVars>>

-----------------------------------------------------------------------------
(* The transport.                                                          *)

(* p closes its end with the frames in unread not yet read: the peer reads *)
(* EOF after what p wrote or, when the kernel still had any of them, a     *)
(* reset instead of it.                                                    *)
EndTransport(p, unread) ==
    \/ /\ half[Peer(p)] # "reset"
       /\ wire' = [wire EXCEPT ![p] = <<>>]
       /\ half' = [half EXCEPT ![Peer(p)] = "eof"]
    \/ /\ unread # <<>> \/ half[Peer(p)] = "reset"
       /\ wire' = Each(<<>>)
       /\ half' = [half EXCEPT ![Peer(p)] = "reset"]

(* markClosed, with closeTransport. *)
MarkClosed(p, unread) ==
    /\ closed' = [closed EXCEPT ![p] = TRUE]
    /\ IF attached[p] THEN EndTransport(p, unread) ELSE UNCHANGED <<wire, half>>

Detach(p) == attached' = [attached EXCEPT ![p] = FALSE] /\ EndTransport(p, wire[p])

Gone(p) == closed[p] \/ ~attached[p]

(* What p writes arrives unless its peer is gone, which may answer it with *)
(* a reset.                                                                *)
Put(p, frame) ==
    IF Gone(Peer(p)) \/ half[p] = "reset"
    THEN \/ UNCHANGED <<wire, half>>
         \/ /\ wire' = [wire EXCEPT ![p] = <<>>]
            /\ half' = [half EXCEPT ![p] = "reset"]
    ELSE UNCHANGED half /\ wire' = [wire EXCEPT ![Peer(p)] = Append(@, frame)]

-----------------------------------------------------------------------------
(* The writer.                                                             *)

Running(p) == ~marked[p] /\ ~closed[p]
Writing(p) == Running(p) /\ attached[p]

(* takePendingControl. *)
WriteAck(p) ==
    /\ Writing(p) /\ lastAckSent[p] < lastRecv[p]
    /\ Put(p, Ack(lastRecv[p]))
    /\ lastAckSent' = [lastAckSent EXCEPT ![p] = lastRecv[p]]
    /\ UNCHANGED <<sender, outbound, held, nextSend, marked, replay, readerVars, queueVars,
                   closeVars, attached>>

(* stage and writeLive of a frame taken from outbound or from held.  While *)
(* detached the frame is only kept.                                        *)
Stage(p, size) ==
    IF TooLarge(replay[p], size)
    THEN /\ sender' = [sender EXCEPT ![p] = "idle"]
         /\ held' = [held EXCEPT ![p] = <<>>]
         /\ UNCHANGED <<nextSend, replay, wire, half>>
    ELSE IF ~Fits(replay[p], size)
    THEN /\ held' = [held EXCEPT ![p] = <<size>>]
         /\ UNCHANGED <<sender, nextSend, replay, wire, half>>
    ELSE /\ NewNumber(replay[p], nextSend[p] + 1)
         /\ nextSend' = [nextSend EXCEPT ![p] = @ + 1]
         /\ replay' = [replay EXCEPT ![p] = Staged(@, nextSend[p] + 1, size)]
         /\ sender' = [sender EXCEPT ![p] = "idle"]
         /\ held' = [held EXCEPT ![p] = <<>>]
         /\ IF attached[p] THEN Put(p, Data(nextSend[p] + 1)) ELSE UNCHANGED <<wire, half>>

TakeFrame(p) ==
    /\ Running(p) /\ held[p] = <<>>
    /\ outbound[p] # <<>> /\ Head(outbound[p]) # Marker
    /\ outbound' = [outbound EXCEPT ![p] = Tail(@)]
    /\ Stage(p, Head(outbound[p]))
    /\ UNCHANGED <<lastAckSent, marked, readerVars, queueVars, closeVars, attached>>

(* A held frame is tried again when an ACK was received. *)
RetryNever(p) == FALSE   \* faulty
Retry(p) == held[p] # <<>> /\ Fits(replay[p], Head(held[p]))

TakeHeld(p) ==
    /\ Writing(p) /\ Retry(p)
    /\ Stage(p, Head(held[p]))
    /\ UNCHANGED <<outbound, lastAckSent, marked, readerVars, queueVars, closeVars, attached>>

(* The marker, behind a frame that is held: finishRecoveryWriter writes    *)
(* CLOSE; while detached the writer just ends.                             *)
WriteCloseNot(p) == UNCHANGED <<wire, half>>   \* faulty
WriteClose(p) == IF attached[p] THEN Put(p, CloseFrame) ELSE UNCHANGED <<wire, half>>

TakeMarker(p) ==
    /\ Running(p) /\ held[p] = <<>>
    /\ outbound[p] # <<>> /\ Head(outbound[p]) = Marker
    /\ outbound' = [outbound EXCEPT ![p] = Tail(@)]
    /\ marked' = [marked EXCEPT ![p] = TRUE]
    /\ WriteClose(p)
    /\ UNCHANGED <<sender, held, nextSend, lastAckSent, replay, readerVars, queueVars,
                   closeVars, attached>>

(* The heartbeat: to a peer that is there it changes nothing. *)
WritePing(p) ==
    /\ Writing(p) /\ Gone(Peer(p)) /\ half[p] # "reset"
    /\ half' = [half EXCEPT ![p] = "reset"] /\ wire' = [wire EXCEPT ![p] = <<>>]
    /\ UNCHANGED <<sender, writerVars, replay, readerVars, queueVars, closeVars, attached>>

(* A write to a transport that was reset fails and detaches it. *)
WriteError(p) ==
    /\ Writing(p) /\ half[p] = "reset"
    /\ Detach(p)
    /\ UNCHANGED <<sender, writerVars, replay, readerVars, queueVars, closeVars>>

-----------------------------------------------------------------------------
(* The reader and the decode loop.                                         *)

Reading(p) == rpc[p] = "read" /\ attached[p] /\ ~closed[p] /\ wire[p] # <<>>

(* handleRecoveryDataFrame: the frame counts as received once the stream   *)
(* has room for it.  Here every number is the next one.                    *)
HasRoomAlways(n) == TRUE   \* faulty
HasRoom(n) == n < QueueSize

ReadData(p) ==
    /\ Reading(p) /\ Head(wire[p]).kind = "data" /\ Head(wire[p]).n = lastRecv[p] + 1
    /\ HasRoom(incoming[p])
    /\ wire' = [wire EXCEPT ![p] = Tail(@)]
    /\ incoming' = [incoming EXCEPT ![p] = @ + 1]
    /\ lastRecv' = [lastRecv EXCEPT ![p] = @ + 1]
    /\ UNCHANGED <<sender, writerVars, replay, rpc, inbox, closeVars, attached, half>>

(* ackReceived. *)
ReadAck(p) ==
    /\ Reading(p) /\ Head(wire[p]).kind = "ack"
    /\ replay' = [replay EXCEPT ![p] = Acked(@, Head(wire[p]).n)]
    /\ wire' = [wire EXCEPT ![p] = Tail(@)]
    /\ UNCHANGED <<sender, writerVars, readerVars, queueVars, closeVars, attached, half>>

(* CLOSE: closeByPeer. *)
ReadClose(p) ==
    /\ Reading(p) /\ Head(wire[p]).kind = "close"
    /\ closing' = [closing EXCEPT ![p] = TRUE]
    /\ \/ /\ closing[p]
          /\ MarkClosed(p, Tail(wire[p]))
          /\ UNCHANGED rpc
       \/ /\ ~closing[p]
          /\ wire' = [wire EXCEPT ![p] = Tail(@)]
          /\ rpc' = [rpc EXCEPT ![p] = "drain"]
          /\ UNCHANGED <<closed, half>>
    /\ UNCHANGED <<sender, writerVars, replay, lastRecv, queueVars, cpc, late,
                   attached>>

(* closeByPeer waits until the decode loop has come to the FIN it queued   *)
(* behind the frames, or for closeFlushTimeout.                            *)
DrainedAtOnce(p) == TRUE   \* faulty
Drained(p) == incoming[p] = 0

DrainEnd(p) ==
    /\ rpc[p] = "drain" /\ ~closed[p]
    /\ late' \in {late, TRUE} /\ (late' \/ Drained(p))
    /\ MarkClosed(p, wire[p])
    /\ UNCHANGED <<sender, writerVars, replay, readerVars, queueVars, closing, cpc,
                   attached>>

(* The read fails: the connection is closed when Close waits for the peer, *)
(* and the transport is detached otherwise.                                *)
Unreadable(p) ==
    \/ half[p] = "reset"
    \/ half[p] = "eof" /\ wire[p] = <<>>
    \/ ~attached[p]

ReadError(p) ==
    /\ rpc[p] = "read" /\ ~closed[p] /\ Unreadable(p)
    /\ \/ /\ closing[p]
          /\ MarkClosed(p, wire[p])
          /\ UNCHANGED <<rpc, attached>>
       \/ /\ ~closing[p] /\ attached[p]
          /\ Detach(p)
          /\ rpc' = [rpc EXCEPT ![p] = "detached"]
          /\ UNCHANGED closed
       \/ /\ ~attached[p]   \* transportActive is false
          /\ rpc' = [rpc EXCEPT ![p] = "detached"]
          /\ UNCHANGED <<closed, attached, wire, half>>
    /\ UNCHANGED <<sender, writerVars, replay, lastRecv, queueVars, closing, cpc,
                   late>>

(* decodeLoop, with dispatchMessage. *)
Decode(p) ==
    /\ ~closed[p] /\ incoming[p] > 0 /\ inbox[p] < QueueSize
    /\ inbox' = [inbox EXCEPT ![p] = @ + 1]
    /\ incoming' = [incoming EXCEPT ![p] = @ - 1]
    /\ UNCHANGED <<sender, writerVars, replay, readerVars, closeVars, netVars>>

-----------------------------------------------------------------------------
(* Close.                                                                  *)

(* A Close while detached has nothing to write to and ends at once. *)
Close(p) ==
    /\ p \in Closers /\ cpc[p] = "idle" /\ ~closed[p]
    /\ cpc' = [cpc EXCEPT ![p] = "mark"]
    /\ closing' = [closing EXCEPT ![p] = TRUE]
    /\ IF closing[p] \/ ~attached[p] THEN MarkClosed(p, wire[p])
                                     ELSE UNCHANGED <<closed, wire, half>>
    /\ UNCHANGED <<sender, writerVars, replay, readerVars, queueVars, late, attached>>

(* closeGracefully queues the marker ... *)
CloseQueue(p) ==
    /\ cpc[p] = "mark" /\ ~closed[p]
    /\ outbound' = [outbound EXCEPT ![p] = Append(@, Marker)]
    /\ cpc' = [cpc EXCEPT ![p] = "flush"]
    /\ UNCHANGED <<sender, held, nextSend, lastAckSent, marked, replay, readerVars, queueVars,
                   closing, closed, late, netVars>>

(* ... and half-closes the transport once the writer has come to it. *)
CloseWrite(p) ==
    /\ cpc[p] = "flush" /\ marked[p] /\ ~closed[p] /\ attached[p]
    /\ half' = [half EXCEPT ![Peer(p)] = IF @ = "open" THEN "eof" ELSE @]
    /\ cpc' = [cpc EXCEPT ![p] = "peer"]
    /\ UNCHANGED <<sender, writerVars, replay, readerVars, queueVars, closing, closed,
                   late, attached, wire>>

(* Its waits end after closeFlushTimeout; a half-close that fails ends it  *)
(* too.                                                                    *)
HalfCloseFails(p) ==
    cpc[p] = "flush" /\ marked[p] /\ (~attached[p] \/ half[p] = "reset")

CloseEnd(p) ==
    /\ cpc[p] # "idle" /\ ~closed[p]
    /\ late' \in {late, TRUE} /\ (late' \/ HalfCloseFails(p))
    /\ MarkClosed(p, wire[p])
    /\ UNCHANGED <<sender, writerVars, replay, readerVars, queueVars, closing, cpc,
                   attached>>

(* Nobody resumes: the server's timer ends the connection. *)
ExpiresNever(p) == FALSE   \* faulty
Expires(p) == ~attached[p] /\ ~closed[p]

Expire(p) ==
    /\ Expires(p)
    /\ MarkClosed(p, <<>>)
    /\ UNCHANGED <<sender, writerVars, replay, readerVars, queueVars, closing, cpc,
                   late, attached>>

-----------------------------------------------------------------------------
WriterStep(p) ==
    \/ WriteAck(p) \/ TakeFrame(p) \/ TakeHeld(p) \/ TakeMarker(p) \/ WritePing(p)
    \/ WriteError(p)

ReaderStep(p) ==
    \/ ReadData(p) \/ ReadAck(p) \/ ReadClose(p) \/ DrainEnd(p) \/ ReadError(p)

CloseStep(p) == CloseQueue(p) \/ CloseWrite(p) \/ CloseEnd(p)

Next ==
    \/ SendRequest \/ Recv \/ Handle
    \/ \E p \in Sides :
         \/ WriterStep(p) \/ ReaderStep(p) \/ Decode(p)
         \/ Close(p) \/ CloseStep(p) \/ Expire(p)

Spec == Init /\ [][Next]_vars

(* Goroutines go on while they can and timers fire; the writer puts an ACK *)
(* that is due before frames; the client receives what arrives, and        *)
(* handlers return.                                                        *)
FairSpec ==
    /\ Spec
    /\ WF_vars(Recv) /\ WF_vars(Handle)
    /\ \A p \in Sides :
         /\ WF_vars(WriterStep(p)) /\ WF_vars(WriteAck(p)) /\ WF_vars(ReaderStep(p))
         /\ WF_vars(Decode(p)) /\ WF_vars(CloseStep(p)) /\ WF_vars(Expire(p))

-----------------------------------------------------------------------------
(* Properties.                                                             *)

Frames == [kind : {"data", "ack", "close"}, n : 0..NRequests]

(* Types, with the limits of the queues: a stream holds no more than its   *)
(* two queues, and a Send has one frame in the writer's hands.             *)
TypeOK ==
    /\ sender \in [Sides -> {"idle", "verdict"}]
    /\ outbound \in [Sides -> Seq(Nat)] /\ held \in [Sides -> Seq(Nat)]
    /\ \A p \in Sides : Len(outbound[p]) <= 2 /\ Len(held[p]) <= 1
    /\ nextSend \in [Sides -> 0..NRequests] /\ lastAckSent \in [Sides -> 0..NRequests]
    /\ marked \in [Sides -> BOOLEAN]
    /\ rpc \in [Sides -> {"read", "drain", "detached"}]
    /\ lastRecv \in [Sides -> 0..NRequests]
    /\ incoming \in [Sides -> 0..QueueSize] /\ inbox \in [Sides -> 0..QueueSize]
    /\ closing \in [Sides -> BOOLEAN] /\ closed \in [Sides -> BOOLEAN]
    /\ cpc \in [Sides -> {"idle", "mark", "flush", "peer"}]
    /\ attached \in [Sides -> BOOLEAN] /\ wire \in [Sides -> Seq(Frames)]
    /\ half \in [Sides -> {"open", "eof", "reset"}]
    /\ late \in BOOLEAN

(* The replay buffer keeps exactly the frames that were accepted and not   *)
(* acknowledged, counts their bytes and keeps within MaxReplayBytes,       *)
(* through staging, acknowledgement and compaction; a snapshot taken of it *)
(* anywhere is what a resume needs; and nothing was acknowledged that the  *)
(* peer's streams do not have.                                             *)
BufferExact ==
    \A p \in Sides : /\ BytesAreExact(replay[p])
                     /\ KeepsUpTo(replay[p], nextSend[p])
                     /\ SnapshotsAreExact(replay[p], nextSend[p])
                     /\ replay[p].lastAcked <= lastRecv[Peer(p)]

(* Close "first delivers the messages already queued by Send": when it     *)
(* returns and no timer has fired, the peer's application has or will get  *)
(* all that Send accepted, held frames and full queues notwithstanding.    *)
CloseDelivers ==
    \A p \in Sides :
       closed[p] /\ cpc[p] # "idle" /\ cpc[Peer(p)] = "idle" /\ ~late
          => lastRecv[Peer(p)] - incoming[Peer(p)] >= nextSend[p]

(* "In v3 the peer then releases the connection at once instead of keeping *)
(* it for a reconnect": neither side of a connection that is closed        *)
(* gracefully is ever detached.                                            *)
CloseReleases == ~late => \A p \in Sides : attached[p] /\ rpc[p] # "detached"

(* A connection that has begun to close is closed on both sides, whether   *)
(* both call Close at once, a timer fires or the transport is lost.        *)
CloseEnds == (\E p \in Sides : closing[p] \/ closed[p]) ~> (\A p \in Sides : closed[p])

(* The one way in which everyone waits for everyone: the server's handler  *)
(* waits for room in the replay buffer, its queues are full of requests,   *)
(* its reader waits with the next one, and the ACK that would make room is *)
(* behind that one.                                                        *)
WaitsBehindData(p) ==
    /\ held[p] # <<>> /\ inbox[p] = QueueSize /\ incoming[p] = QueueSize
    /\ wire[p] # <<>> /\ Head(wire[p]).kind = "data"
    /\ \E i \in DOMAIN wire[p] :
         wire[p][i].kind = "ack" /\ wire[p][i].n > replay[p].lastAcked

(* "Send waits while MaxReplayBytes of messages await acknowledgement":    *)
(* with a client that receives and handlers that return, every Send ends   *)
(* unless the server has come to wait for an ACK behind a request that its *)
(* full queues do not let it read.                                         *)
SendReturns ==
    \A p \in Sides :
       sender[p] = "verdict"
          ~> sender[p] = "idle" \/ closed[p] \/ WaitsBehindData("server")
=============================================================================
