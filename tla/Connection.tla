----------------------------- MODULE Connection -----------------------------
(***************************************************************************)
(* A connection without recovery (protocol v2) and its streams: the queues *)
(* between Send, the writer, the transport, the reader, the decode loop of *)
(* each stream and Recv; Stream.Close with its FIN; Connection.Close,      *)
(* closeByPeer and markClosed.                                             *)
(*                                                                         *)
(* Each side runs a writer (writerLoop), a reader (readerLoop), a decode   *)
(* loop per stream, and application goroutines that send, receive and      *)
(* close.  Where a Go select has several ready cases, each may be taken.   *)
(*                                                                         *)
(* The messages of a stream are numbered in the order in which Send queues *)
(* them; Fin (a nil payload) is the end of a stream.  inbox stands for     *)
(* Stream.inbox and, for messages with a handler, Stream.handlerCh: both   *)
(* are bounded queues that the decode loop fills and closes, drained by    *)
(* Recv or by handlerLoop.  Only clients open streams: a server's          *)
(* application has no Connection to call NewStream on.                     *)
(*                                                                         *)
(* Operators marked faulty are used by no definition here: each is a       *)
(* plausible bug in the operator that follows it.                          *)
(***************************************************************************)
EXTENDS Naturals, Sequences

CONSTANTS
    NStreams,        \* bound: streams the client opens (maxStreamID)
    ClientMessages,  \* bound: messages the client sends on each stream
    ServerMessages,  \* bound: messages the server sends on each stream
    QueueSize,       \* streamQueueSize: capacity of incoming and of inbox
    OutboundSize,    \* capacity of outbound
    Closers,         \* sides whose application calls Connection.Close
    StreamClosers,   \* sides whose application calls Stream.Close
    MaxFailures,     \* bound: transports that break
    MaxTimeouts      \* bound: closeFlushTimeout timers that fire

Sides == {"client", "server"}

ASSUME ConnectionAssumption ==
    /\ NStreams \in Nat \ {0} /\ ClientMessages \in Nat /\ ServerMessages \in Nat
    /\ QueueSize \in Nat \ {0} /\ OutboundSize \in Nat \ {0}
    /\ Closers \subseteq Sides /\ StreamClosers \subseteq Sides
    /\ MaxFailures \in Nat /\ MaxTimeouts \in Nat

Peer(p) == IF p = "client" THEN "server" ELSE "client"
MaxSend(p) == IF p = "client" THEN ClientMessages ELSE ServerMessages
Ids == 1..NStreams
Fin == 0
Frame(i, m) == [id |-> i, msg |-> m]
Marker == [id |-> 0, msg |-> 0]     \* outboundFrame.closing

VARIABLES
    \* Connection, one of each per side
    closing, closed,   \* Connection.closing, Connection.closed with closeCh
    swept,             \* markClosed has run closeAllStreams
    cpc,               \* Close: "idle", "mark", "flush", "peer", "done"
    outbound,
    writer,            \* writerLoop: "run", "marked" (marker.closing is closed), "end"
    nextId,            \* nextStreamID (of the client)
    open,              \* keys of Connection.streams
    reserved,          \* Connection.closedPeerStreams
    \* readerLoop, with acceptFrame and closeByPeer
    rpc, rframe, toFin, toDrain,
    \* streams, by side and ID
    incoming, inbox,
    decoder, job,      \* decodeLoop: "none", "select", "dispatch", "fin" or "end"
    shut, done,        \* Stream.closed, Stream.done
    sender,            \* Send: "idle", or "queue" between the check and the queue
    closer,            \* Stream.Close: "idle", "queue" (FIN), "remove", "done"
    \* the transport: frames on their way to each side, and their end
    wire, half, failures, timeouts,
    \* history
    sent,              \* messages that Send has queued without an error
    flushed,           \* ... before Connection.Close began on the sender's side
    got,               \* what Recv has returned
    opened, released   \* OnNewStream and OnCloseStream calls

connVars == <<closing, closed, swept, cpc>>
outVars == <<outbound, writer>>
tableVars == <<nextId, open, reserved, opened, released>>
readerVars == <<rpc, rframe, toFin, toDrain>>
queueVars == <<incoming, inbox, decoder, job>>
streamVars == <<shut, done>>
appVars == <<sender, closer, sent, flushed, got>>
netVars == <<wire, half, failures, timeouts>>
vars == <<connVars, outVars, tableVars, readerVars, queueVars, streamVars, appVars,
          netVars>>

Init ==
    /\ closing = [p \in Sides |-> FALSE] /\ closed = [p \in Sides |-> FALSE]
    /\ swept = [p \in Sides |-> FALSE] /\ cpc = [p \in Sides |-> "idle"]
    /\ outbound = [p \in Sides |-> <<>>] /\ writer = [p \in Sides |-> "run"]
    /\ nextId = 0
    /\ open = [p \in Sides |-> {}] /\ reserved = [p \in Sides |-> {}]
    /\ rpc = [p \in Sides |-> "read"] /\ rframe = [p \in Sides |-> Marker]
    /\ toFin = [p \in Sides |-> {}] /\ toDrain = [p \in Sides |-> {}]
    /\ incoming = [p \in Sides |-> [i \in Ids |-> <<>>]]
    /\ inbox = [p \in Sides |-> [i \in Ids |-> <<>>]]
    /\ decoder = [p \in Sides |-> [i \in Ids |-> "none"]]
    /\ job = [p \in Sides |-> [i \in Ids |-> Fin]]
    /\ shut = [p \in Sides |-> [i \in Ids |-> FALSE]]
    /\ done = [p \in Sides |-> [i \in Ids |-> FALSE]]
    /\ sender = [p \in Sides |-> [i \in Ids |-> "idle"]]
    /\ closer = [p \in Sides |-> [i \in Ids |-> "idle"]]
    /\ wire = [p \in Sides |-> <<>>] /\ half = [p \in Sides |-> "open"]
    /\ failures = 0 /\ timeouts = 0
    /\ sent = [p \in Sides |-> [i \in Ids |-> 0]]
    /\ flushed = [p \in Sides |-> [i \in Ids |-> 0]]
    /\ got = [p \in Sides |-> [i \in Ids |-> <<>>]]
    /\ opened = [p \in Sides |-> [i \in Ids |-> 0]]
    /\ released = [p \in Sides |-> [i \in Ids |-> 0]]

-----------------------------------------------------------------------------
(* The stream table.                                                       *)

(* openedStream: NewStream on this side allocated the ID. *)
OpenedStream(p, i) == p = "client" /\ i <= nextId

(* newStreamCtx and startStream, under streamsMu. *)
Register(p, i) ==
    /\ open' = [open EXCEPT ![p] = @ \cup {i}]
    /\ opened' = [opened EXCEPT ![p][i] = @ + 1]
    /\ decoder' = [decoder EXCEPT ![p][i] = "select"]

(* removeStream: whoever takes the stream out of the table closes it and   *)
(* runs OnCloseStream.                                                     *)
RemoveStream(p, i) ==
    IF i \in open[p]
    THEN /\ open' = [open EXCEPT ![p] = @ \ {i}]
         /\ shut' = [shut EXCEPT ![p][i] = TRUE]
         /\ done' = [done EXCEPT ![p][i] = TRUE]
         /\ released' = [released EXCEPT ![p][i] = @ + 1]
    ELSE UNCHANGED <<open, shut, done, released>>

(* markClosed, once: closed, closeCh, and the transport.  Closing a socket *)
(* that holds unread data resets the connection; else the peer reads EOF   *)
(* after what was written.                                                 *)
MarkClosed(p) ==
    IF closed[p] THEN UNCHANGED <<closed, half>>
    ELSE /\ closed' = [closed EXCEPT ![p] = TRUE]
         /\ half' = [half EXCEPT ![Peer(p)] = IF wire[p] # <<>> \/ @ = "reset"
                                              THEN "reset" ELSE "eof"]

(* The rest of markClosed: closeAllStreams. *)
CloseAllStreams(p) ==
    /\ closed[p] /\ ~swept[p]
    /\ swept' = [swept EXCEPT ![p] = TRUE]
    /\ open' = [open EXCEPT ![p] = {}]
    /\ shut' = [shut EXCEPT ![p] = [i \in Ids |-> @[i] \/ i \in open[p]]]
    /\ done' = [done EXCEPT ![p] = [i \in Ids |-> @[i] \/ i \in open[p]]]
    /\ released' = [released EXCEPT ![p] =
                      [i \in Ids |-> IF i \in open[p] THEN @[i] + 1 ELSE @[i]]]
    /\ UNCHANGED <<closing, closed, cpc, outVars, nextId, reserved, opened, readerVars,
                   queueVars, appVars, netVars>>

(* getStreamCtx opens no stream on a closed connection. *)
CanRegisterAlways(p) == TRUE   \* faulty
CanRegister(p) == ~closed[p]

(* NewStream: past maxStreamID, or on a closed connection, the stream it   *)
(* returns is not in the table.                                            *)
NewStream ==
    /\ nextId < NStreams
    /\ nextId' = nextId + 1
    /\ IF CanRegister("client")
       THEN Register("client", nextId + 1)
       ELSE UNCHANGED <<open, opened, decoder>>
    /\ UNCHANGED <<connVars, outVars, reserved, released, readerVars, incoming, inbox, job,
                   streamVars, appVars, netVars>>

-----------------------------------------------------------------------------
(* Send and Stream.Close.                                                  *)

(* outbound takes another frame. *)
OutboundRoomOneMore(p) == Len(outbound[p]) <= OutboundSize   \* faulty
OutboundRoom(p) == Len(outbound[p]) < OutboundSize

(* enqueueFrame refuses a frame once Close has begun or the connection has *)
(* closed.                                                                 *)
Accepting(p) == ~closing[p] /\ ~closed[p]

(* Nobody holds Stream.sendMu. *)
SendFreeAlways(p, i) == sender[p][i] = "idle" \/ closer[p][i] = "idle"   \* faulty
SendFree(p, i) == sender[p][i] = "idle" /\ closer[p][i] # "queue"

(* sendBoxed, under sendMu, up to the check in enqueueFrame. *)
Send(p, i) ==
    /\ opened[p][i] > 0 /\ sent[p][i] < MaxSend(p)
    /\ SendFree(p, i) /\ ~shut[p][i] /\ Accepting(p)
    /\ sender' = [sender EXCEPT ![p][i] = "queue"]
    /\ UNCHANGED <<connVars, outVars, tableVars, readerVars, queueVars, streamVars,
                   closer, sent, flushed, got, netVars>>

(* The rest of enqueueFrame: the frame goes to outbound. *)
Enqueue(p, i) ==
    /\ sender[p][i] = "queue" /\ OutboundRoom(p)
    /\ sender' = [sender EXCEPT ![p][i] = "idle"]
    /\ outbound' = [outbound EXCEPT ![p] = Append(@, Frame(i, sent[p][i] + 1))]
    /\ sent' = [sent EXCEPT ![p][i] = @ + 1]
    /\ flushed' = [flushed EXCEPT ![p][i] = IF closing[p] THEN @ ELSE sent[p][i] + 1]
    /\ UNCHANGED <<connVars, writer, tableVars, readerVars, queueVars, streamVars,
                   closer, got, netVars>>

(* ... or closeCh ends the wait with ErrClosed. *)
SendClosed(p, i) ==
    /\ sender[p][i] = "queue" /\ closed[p]
    /\ sender' = [sender EXCEPT ![p][i] = "idle"]
    /\ UNCHANGED <<connVars, outVars, tableVars, readerVars, queueVars, streamVars,
                   closer, sent, flushed, got, netVars>>

(* Stream.Close of a stream this side opened: under sendMu, closed is set  *)
(* and a FIN is queued ...                                                 *)
CloseOpened(p, i) ==
    /\ p \in StreamClosers /\ OpenedStream(p, i) /\ opened[p][i] > 0
    /\ closer[p][i] = "idle" /\ SendFree(p, i) /\ ~shut[p][i]
    /\ shut' = [shut EXCEPT ![p][i] = TRUE]
    /\ closer' = [closer EXCEPT ![p][i] = IF Accepting(p) THEN "queue" ELSE "remove"]
    /\ UNCHANGED <<connVars, outVars, tableVars, readerVars, queueVars, done,
                   sender, sent, flushed, got, netVars>>

CloseFin(p, i) ==
    /\ closer[p][i] = "queue"
    /\ \/ /\ OutboundRoom(p)
          /\ outbound' = [outbound EXCEPT ![p] = Append(@, Frame(i, Fin))]
       \/ closed[p] /\ UNCHANGED outbound
    /\ closer' = [closer EXCEPT ![p][i] = "remove"]
    /\ UNCHANGED <<connVars, writer, tableVars, readerVars, queueVars, streamVars,
                   sender, sent, flushed, got, netVars>>

(* ... or of one the peer opened: closePeerStream reserves the ID. *)
ReserveNothing(p, i) == UNCHANGED reserved   \* faulty
Reserve(p, i) ==
    reserved' = [reserved EXCEPT ![p] = IF i \in open[p] THEN @ \cup {i} ELSE @]

ClosePeerStream(p, i) ==
    /\ p \in StreamClosers /\ ~OpenedStream(p, i) /\ opened[p][i] > 0
    /\ closer[p][i] = "idle"
    /\ Reserve(p, i)
    /\ closer' = [closer EXCEPT ![p][i] = "remove"]
    /\ UNCHANGED <<connVars, outVars, nextId, open, opened, released, readerVars,
                   queueVars, streamVars, sender, sent, flushed, got, netVars>>

(* Either way removeStream comes last. *)
CloseRemove(p, i) ==
    /\ closer[p][i] = "remove"
    /\ RemoveStream(p, i)
    /\ closer' = [closer EXCEPT ![p][i] = "done"]
    /\ UNCHANGED <<connVars, outVars, nextId, reserved, opened, readerVars, queueVars,
                   sender, sent, flushed, got, netVars>>

-----------------------------------------------------------------------------
(* Recv and the decode loop.                                               *)

(* readRaw: the next message, also once the stream or the connection has   *)
(* closed.                                                                 *)
Recv(p, i) ==
    /\ inbox[p][i] # <<>>
    /\ got' = [got EXCEPT ![p][i] = Append(@, Head(inbox[p][i]))]
    /\ inbox' = [inbox EXCEPT ![p][i] = Tail(@)]
    /\ UNCHANGED <<connVars, outVars, tableVars, readerVars, incoming, decoder, job,
                   streamVars, sender, closer, sent, flushed, netVars>>

(* decodeLoop takes a message. *)
DecodeTake(p, i) ==
    /\ decoder[p][i] = "select" /\ incoming[p][i] # <<>> /\ Head(incoming[p][i]) # Fin
    /\ job' = [job EXCEPT ![p][i] = Head(incoming[p][i])]
    /\ incoming' = [incoming EXCEPT ![p][i] = Tail(@)]
    /\ decoder' = [decoder EXCEPT ![p][i] = "dispatch"]
    /\ UNCHANGED <<connVars, outVars, tableVars, readerVars, inbox, streamVars, appVars,
                   netVars>>

(* inboxQ gives it up when the stream or the connection has closed ... *)
GiveUpOnDone(p, i) == done[p][i] /\ ~closed[p]   \* faulty
GiveUpOnClosed(p, i) == closed[p]   \* faulty
GiveUp(p, i) == done[p][i] \/ closed[p]

(* ... and dispatchMessage goes on as if it had been delivered. *)
Dispatch(p, i) ==
    /\ decoder[p][i] = "dispatch"
    /\ \/ /\ Len(inbox[p][i]) < QueueSize
          /\ inbox' = [inbox EXCEPT ![p][i] = Append(@, job[p][i])]
       \/ GiveUp(p, i) /\ UNCHANGED inbox
    /\ job' = [job EXCEPT ![p][i] = Fin]
    /\ decoder' = [decoder EXCEPT ![p][i] = "select"]
    /\ UNCHANGED <<connVars, outVars, tableVars, readerVars, incoming, streamVars, appVars,
                   netVars>>

(* decodeLoop takes a FIN and releases the stream. *)
DecodeFin(p, i) ==
    /\ decoder[p][i] = "select" /\ incoming[p][i] # <<>> /\ Head(incoming[p][i]) = Fin
    /\ incoming' = [incoming EXCEPT ![p][i] = Tail(@)]
    /\ RemoveStream(p, i)
    /\ decoder' = [decoder EXCEPT ![p][i] = "fin"]
    /\ UNCHANGED <<connVars, outVars, nextId, reserved, opened, readerVars, inbox, job,
                   appVars, netVars>>

(* decodeLoop sees done or closeCh, whatever is still queued. *)
DecodeEnd(p, i) ==
    /\ decoder[p][i] = "select" /\ (done[p][i] \/ closed[p])
    /\ decoder' = [decoder EXCEPT ![p][i] = "end"]
    /\ UNCHANGED <<connVars, outVars, tableVars, readerVars, incoming, inbox, job,
                   streamVars, appVars, netVars>>

-----------------------------------------------------------------------------
(* The reader.                                                             *)

(* readFrameFrom.  What the reader has buffered it can still read after a  *)
(* failure or a close.                                                     *)
ReadFrame(p) ==
    /\ rpc[p] = "read" /\ wire[p] # <<>>
    /\ wire' = [wire EXCEPT ![p] = Tail(@)]

(* acceptFrame of a FIN: the ID is free again, and the FIN goes behind the *)
(* messages of a stream that is still open.                                *)
ReadFin(p) ==
    /\ ReadFrame(p)
    /\ LET i == Head(wire[p]).id IN
       /\ Head(wire[p]).msg = Fin
       /\ reserved' = [reserved EXCEPT ![p] = @ \ {i}]
       /\ rpc' = [rpc EXCEPT ![p] = IF i \in open[p] THEN "push" ELSE "read"]
       /\ rframe' = [rframe EXCEPT ![p] = Head(wire[p])]
    /\ UNCHANGED <<connVars, outVars, nextId, open, opened, released, toFin, toDrain,
                   queueVars, streamVars, appVars, half, failures, timeouts>>

(* getStreamCtx: a missing stream that was closed on this side is not      *)
(* opened again.                                                           *)
KnownClosed(p, i) == i \in reserved[p] \/ OpenedStream(p, i)

(* acceptFrame of a message. *)
ReadMessage(p) ==
    /\ ReadFrame(p) /\ CanRegister(p)
    /\ LET i == Head(wire[p]).id IN
       /\ Head(wire[p]).msg # Fin
       /\ rframe' = [rframe EXCEPT ![p] = Head(wire[p])]
       /\ \/ /\ i \in open[p]
             /\ rpc' = [rpc EXCEPT ![p] = "push"]
             /\ UNCHANGED <<open, opened, decoder>>
          \/ /\ i \notin open[p] /\ KnownClosed(p, i)
             /\ UNCHANGED <<rpc, open, opened, decoder>>
          \/ /\ i \notin open[p] /\ ~KnownClosed(p, i)
             /\ Register(p, i)
             /\ rpc' = [rpc EXCEPT ![p] = "push"]
    /\ UNCHANGED <<connVars, outVars, nextId, reserved, released, toFin, toDrain, incoming,
                   inbox, job, streamVars, appVars, half, failures, timeouts>>

(* incomingQ: the frame is queued, or dropped if the stream has closed. *)
Push(p) ==
    LET i == rframe[p].id IN
    /\ rpc[p] = "push"
    /\ \/ /\ Len(incoming[p][i]) < QueueSize
          /\ incoming' = [incoming EXCEPT ![p][i] = Append(@, rframe[p].msg)]
       \/ GiveUp(p, i) /\ UNCHANGED incoming
    /\ rpc' = [rpc EXCEPT ![p] = "read"]
    /\ UNCHANGED <<connVars, outVars, tableVars, rframe, toFin, toDrain, inbox, decoder, job,
                   streamVars, appVars, netVars>>

(* The transport fails, also for a reader whose own side has closed it. *)
ReadError(p) ==
    /\ rpc[p] = "read" /\ (closed[p] \/ half[p] = "reset")
    /\ MarkClosed(p)
    /\ rpc' = [rpc EXCEPT ![p] = "end"]
    /\ UNCHANGED <<closing, swept, cpc, outVars, tableVars, rframe, toFin, toDrain, queueVars,
                   streamVars, appVars, wire, failures, timeouts>>

(* EOF: closeByPeer.  If Close waits for it, the connection closes now;    *)
(* else a FIN goes to every stream first.                                  *)
StreamsToDrainNone(p) == {}   \* faulty
StreamsToDrain(p) == open[p]

ReadEOF(p) ==
    /\ rpc[p] = "read" /\ ~closed[p] /\ wire[p] = <<>> /\ half[p] = "eof"
    /\ IF closing[p]
       THEN /\ MarkClosed(p)
            /\ rpc' = [rpc EXCEPT ![p] = "end"]
            /\ UNCHANGED <<closing, toFin, toDrain>>
       ELSE /\ closing' = [closing EXCEPT ![p] = TRUE]
            /\ rpc' = [rpc EXCEPT ![p] = "drain"]
            /\ toFin' = [toFin EXCEPT ![p] = StreamsToDrain(p)]
            /\ toDrain' = [toDrain EXCEPT ![p] = StreamsToDrain(p)]
            /\ UNCHANGED <<closed, half>>
    /\ UNCHANGED <<swept, cpc, outVars, tableVars, rframe, queueVars, streamVars, appVars,
                   wire, failures, timeouts>>

DrainFin(p, i) ==
    /\ rpc[p] = "drain" /\ i \in toFin[p]
    /\ \/ /\ Len(incoming[p][i]) < QueueSize
          /\ incoming' = [incoming EXCEPT ![p][i] = Append(@, Fin)]
       \/ done[p][i] /\ UNCHANGED incoming
    /\ toFin' = [toFin EXCEPT ![p] = @ \ {i}]
    /\ UNCHANGED <<connVars, outVars, tableVars, rpc, rframe, toDrain, inbox, decoder, job,
                   streamVars, appVars, netVars>>

(* closeByPeer ends when every stream is done, or after closeFlushTimeout. *)
DrainEnd(p) ==
    /\ rpc[p] = "drain"
    /\ \/ /\ toFin[p] = {} /\ \A i \in toDrain[p] : done[p][i]
          /\ UNCHANGED timeouts
       \/ timeouts < MaxTimeouts /\ timeouts' = timeouts + 1
    /\ MarkClosed(p)
    /\ rpc' = [rpc EXCEPT ![p] = "end"]
    /\ UNCHANGED <<closing, swept, cpc, outVars, tableVars, rframe, toFin, toDrain, queueVars,
                   streamVars, appVars, wire, failures>>

-----------------------------------------------------------------------------
(* The writer.                                                             *)

(* writerLoop writes a frame; after the marker it stops.  A frame written  *)
(* to a peer that has closed is lost and answered by a reset; after a      *)
(* reset frames are lost or the write fails.                               *)
Write(p) ==
    /\ writer[p] = "run" /\ outbound[p] # <<>> /\ ~closed[p]
    /\ outbound' = [outbound EXCEPT ![p] = Tail(@)]
    /\ IF Head(outbound[p]) = Marker
       THEN writer' = [writer EXCEPT ![p] = "marked"] /\ UNCHANGED <<wire, closed, half>>
       ELSE \/ /\ ~closed[Peer(p)] /\ half[p] # "reset"
               /\ wire' = [wire EXCEPT ![Peer(p)] = Append(@, Head(outbound[p]))]
               /\ UNCHANGED <<writer, closed, half>>
            \/ /\ closed[Peer(p)] \/ half[p] = "reset"
               /\ half' = [half EXCEPT ![p] = "reset"]
               /\ UNCHANGED <<writer, closed, wire>>
            \/ /\ half[p] = "reset"
               /\ MarkClosed(p)
               /\ writer' = [writer EXCEPT ![p] = "end"]
               /\ UNCHANGED wire
    /\ UNCHANGED <<closing, swept, cpc, tableVars, readerVars, queueVars, streamVars, appVars,
                   failures, timeouts>>

WriterEnd(p) ==
    /\ writer[p] = "run" /\ closed[p]
    /\ writer' = [writer EXCEPT ![p] = "end"]
    /\ UNCHANGED <<connVars, outbound, tableVars, readerVars, queueVars, streamVars, appVars,
                   netVars>>

-----------------------------------------------------------------------------
(* Connection.Close.                                                       *)

(* closing.CompareAndSwap: a second Close, or one after closeByPeer began, *)
(* goes straight to markClosed.                                            *)
Close(p) ==
    /\ p \in Closers /\ cpc[p] = "idle"
    /\ IF closing[p]
       THEN /\ MarkClosed(p)
            /\ cpc' = [cpc EXCEPT ![p] = "done"]
            /\ UNCHANGED closing
       ELSE /\ closing' = [closing EXCEPT ![p] = TRUE]
            /\ cpc' = [cpc EXCEPT ![p] = "mark"]
            /\ UNCHANGED <<closed, half>>
    /\ UNCHANGED <<swept, outVars, tableVars, readerVars, queueVars, streamVars, appVars,
                   wire, failures, timeouts>>

(* closeGracefully queues the marker behind the frames sent so far. *)
CloseMark(p) == Append(outbound[p], Marker)

CloseQueue(p) ==
    /\ cpc[p] = "mark" /\ OutboundRoom(p)
    /\ outbound' = [outbound EXCEPT ![p] = CloseMark(p)]
    /\ cpc' = [cpc EXCEPT ![p] = "flush"]
    /\ UNCHANGED <<closing, closed, swept, writer, tableVars, readerVars, queueVars,
                   streamVars, appVars, netVars>>

(* The marker is reached: CloseWrite, after which the peer reads EOF. *)
CloseWrite(p) ==
    /\ cpc[p] = "flush" /\ writer[p] = "marked" /\ ~closed[p]
    /\ half' = [half EXCEPT ![Peer(p)] = IF @ = "open" THEN "eof" ELSE @]
    /\ cpc' = [cpc EXCEPT ![p] = "peer"]
    /\ UNCHANGED <<closing, closed, swept, outVars, tableVars, readerVars, queueVars,
                   streamVars, appVars, wire, failures, timeouts>>

(* Every wait of Close ends with closeCh, or after closeFlushTimeout, and  *)
(* a half-close that fails ends it too.                                    *)
CloseEnd(p) ==
    /\ cpc[p] \in {"mark", "flush", "peer"}
    /\ \/ closed[p] /\ UNCHANGED timeouts
       \/ /\ cpc[p] = "flush" /\ writer[p] = "marked" /\ half[p] = "reset"
          /\ UNCHANGED timeouts
       \/ timeouts < MaxTimeouts /\ timeouts' = timeouts + 1
    /\ MarkClosed(p)
    /\ cpc' = [cpc EXCEPT ![p] = "done"]
    /\ UNCHANGED <<closing, swept, outVars, tableVars, readerVars, queueVars, streamVars,
                   appVars, wire, failures>>

(* The transport breaks: what is in flight may be lost, both ways. *)
Break ==
    /\ failures < MaxFailures /\ \A p \in Sides : half[p] # "reset"
    /\ failures' = failures + 1
    /\ half' = [p \in Sides |-> "reset"]
    /\ UNCHANGED <<connVars, outVars, tableVars, readerVars, queueVars, streamVars, appVars,
                   wire, timeouts>>

-----------------------------------------------------------------------------
(* What the goroutines of the library do. *)
StreamStep(p, i) ==
    \/ Enqueue(p, i) \/ SendClosed(p, i) \/ CloseFin(p, i) \/ CloseRemove(p, i)
    \/ DecodeTake(p, i) \/ Dispatch(p, i) \/ DecodeFin(p, i) \/ DecodeEnd(p, i)

ReaderStep(p) ==
    \/ ReadFin(p) \/ ReadMessage(p) \/ Push(p) \/ ReadError(p) \/ ReadEOF(p) \/ DrainEnd(p)
    \/ \E i \in Ids : DrainFin(p, i)

WriterStep(p) == Write(p) \/ WriterEnd(p)

CloseStep(p) == CloseQueue(p) \/ CloseWrite(p) \/ CloseEnd(p) \/ CloseAllStreams(p)

(* What applications do. *)
AppStep(p) ==
    \/ Close(p)
    \/ \E i \in Ids : Send(p, i) \/ Recv(p, i) \/ CloseOpened(p, i) \/ ClosePeerStream(p, i)

Next ==
    \/ NewStream \/ Break
    \/ \E p \in Sides :
         \/ AppStep(p) \/ ReaderStep(p) \/ WriterStep(p) \/ CloseStep(p)
         \/ \E i \in Ids : StreamStep(p, i)

Spec == Init /\ [][Next]_vars

(* Every goroutine of the library goes on while it can, and timers fire.   *)
(* Applications owe nothing.                                               *)
FairSpec ==
    /\ Spec
    /\ \A p \in Sides :
         /\ WF_vars(ReaderStep(p)) /\ WF_vars(WriterStep(p)) /\ WF_vars(CloseStep(p))
         /\ \A i \in Ids : WF_vars(StreamStep(p, i))

-----------------------------------------------------------------------------
(* Types.                                                                  *)

Each(S) == [Sides -> S]
EachStream(S) == [Sides -> [Ids -> S]]
Numbers == 1..ClientMessages \cup 1..ServerMessages

(* The queues never hold more than their capacity, whatever is being       *)
(* closed: no goroutine sends on a channel that is full.                   *)
TypeOK ==
    /\ closing \in Each(BOOLEAN) /\ closed \in Each(BOOLEAN) /\ swept \in Each(BOOLEAN)
    /\ cpc \in Each({"idle", "mark", "flush", "peer", "done"})
    /\ outbound \in Each(Seq([id : 0..NStreams, msg : Nat]))
    /\ \A p \in Sides : Len(outbound[p]) <= OutboundSize
    /\ writer \in Each({"run", "marked", "end"})
    /\ nextId \in 0..NStreams
    /\ open \in Each(SUBSET Ids) /\ reserved \in Each(SUBSET Ids)
    /\ rpc \in Each({"read", "push", "drain", "end"})
    /\ rframe \in Each([id : 0..NStreams, msg : Nat])
    /\ toFin \in Each(SUBSET Ids) /\ toDrain \in Each(SUBSET Ids)
    /\ incoming \in EachStream(Seq(Numbers \cup {Fin})) /\ inbox \in EachStream(Seq(Numbers))
    /\ \A p \in Sides, i \in Ids : /\ Len(incoming[p][i]) <= QueueSize
                                   /\ Len(inbox[p][i]) <= QueueSize
    /\ decoder \in EachStream({"none", "select", "dispatch", "fin", "end"})
    /\ job \in EachStream(Numbers \cup {Fin})
    /\ shut \in EachStream(BOOLEAN) /\ done \in EachStream(BOOLEAN)
    /\ sender \in EachStream({"idle", "queue"})
    /\ closer \in EachStream({"idle", "queue", "remove", "done"})
    /\ wire \in Each(Seq([id : Ids, msg : Nat])) /\ half \in Each({"open", "eof", "reset"})
    /\ failures \in 0..MaxFailures /\ timeouts \in 0..MaxTimeouts
    /\ sent \in EachStream(Nat) /\ flushed \in EachStream(Nat)
    /\ got \in EachStream(Seq(Numbers))
    /\ opened \in EachStream(Nat) /\ released \in EachStream(Nat)

-----------------------------------------------------------------------------
(* Properties.                                                             *)

UpTo(n) == [k \in 1..n |-> k]
Received(p, i) == got[p][i] \o inbox[p][i]

(* getStreamCtx never opens a stream twice, on either side: not for frames *)
(* still in flight when this side closed it, nor around its FIN.           *)
NeverReopened == \A p \in Sides, i \in Ids : opened[p][i] <= 1

(* OnCloseStream runs once for every stream that was opened and left the   *)
(* table, whether Stream.Close, the peer's FIN or the close of the         *)
(* connection took it out, and a connection that has swept its table has   *)
(* no stream left and gets no new one.                                     *)
ReleasedOnce ==
    \A p \in Sides :
       /\ \A i \in Ids : opened[p][i] = released[p][i] + (IF i \in open[p] THEN 1 ELSE 0)
       /\ swept[p] => open[p] = {}

(* A stream is "one ordered conversation": what it has delivered has no    *)
(* gap while it and the connection are open, however full its queues were. *)
(* (Once the connection is closed it may have one: inboxQ may choose       *)
(* closeCh for a message and the decode loop still deliver the next.)      *)
(* "The peer delivers the messages sent before the FIN, then releases its  *)
(* stream": when the decode loop of such a stream has ended, Recv has or   *)
(* will get everything that was ever sent on it.                           *)
FinDelivers ==
    \A p \in Sides, i \in Ids :
       closer[p][i] = "idle" /\ ~closed[p]
          => LET r == Received(p, i) IN
             /\ r = UpTo(Len(r))
             /\ decoder[p][i] \in {"fin", "end"} /\ ~closing[p] => Len(r) = sent[Peer(p)][i]

(* Connection.Close delivers the messages queued before it: the side that  *)
(* was closed by its peer (closeByPeer), with no timeout and no failure,   *)
(* has every one of them, in order, also for a Recv still to come.         *)
CloseDelivers ==
    \A p \in Sides, i \in Ids :
       /\ rpc[p] = "end" /\ cpc[p] = "idle" /\ closer[p][i] = "idle"
       /\ failures = 0 /\ timeouts = 0
       => LET r == Received(p, i) IN
          /\ r = UpTo(Len(r))
          /\ Len(r) >= flushed[Peer(p)][i]

(* The library has let go of a connection. *)
Ended(p) ==
    /\ closed[p] /\ swept[p] /\ cpc[p] \in {"idle", "done"}
    /\ rpc[p] = "end" /\ writer[p] # "run"
    /\ \A i \in Ids : /\ decoder[p][i] \in {"none", "fin", "end"}
                     /\ sender[p][i] = "idle" /\ closer[p][i] \in {"idle", "done"}

(* A connection that Close, the peer or a failure has begun to close ends: *)
(* Close returns, and every loop and every Send of it too, though no       *)
(* application receives.                                                   *)
Ending(p) == closing[p] \/ closed[p]
CloseEnds == (\E p \in Sides : Ending(p)) ~> (\A p \in Sides : Ending(p) => Ended(p))

(* A stream that is closed while its queues are full does not hold up the  *)
(* reader, and with it the other streams of the connection.                *)
HeldUpByClosedStream == \E p \in Sides : rpc[p] = "push" /\ done[p][rframe[p].id]
ClosedStreamFreesReader == HeldUpByClosedStream ~> ~HeldUpByClosedStream
=============================================================================
