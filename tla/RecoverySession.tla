-------------------------- MODULE RecoverySession --------------------------
(***************************************************************************)
(* One protocol-v3 (recovery) connection between a client and a server:    *)
(* the two endpoints keep sequence numbers, a replay buffer and an ACK     *)
(* schedule, and carry the same connection over a succession of transports *)
(* (net.Conn) that break and are replaced by resume handshakes.            *)
(*                                                                         *)
(* Each endpoint runs a writer goroutine (recoveryWriterLoop) and a reader *)
(* goroutine (recoveryReaderLoop); the client also runs reconnectLoop      *)
(* goroutines, and the server one handler per incoming transport.  A step  *)
(* of the model is what a goroutine does between two points where another  *)
(* one can see or change what it uses.                                     *)
(*                                                                         *)
(* Data is abstracted to sequence numbers: a frame is its number, because  *)
(* replay keeps the payload of a number unchanged.  Every frame takes one  *)
(* unit of the replay buffer, which counts bytes in the code; a frame      *)
(* larger than the whole buffer, which stage refuses, does not occur.      *)
(* A transport is attached at most once by each side, so its index stands  *)
(* for transportGen: transportActive(gen) is conn = the transport at hand. *)
(*                                                                         *)
(* Operators marked faulty are used by no definition here: each is a       *)
(* plausible bug in the operator that follows it, and replacing that       *)
(* operator by it violates the property that guards against the bug.       *)
(***************************************************************************)
EXTENDS Integers, Sequences, FiniteSets

CONSTANTS
    ClientFrames,   \* bound: frames the client's application sends
    ServerFrames,   \* bound: frames the server's application sends
    MaxReplay,      \* replay buffer size, in frames
    AckEvery,       \* negotiated AckEvery: an ACK is due after this many frames
    MaxTransports,  \* bound: transports dialed in the connection's life
    MaxFailures     \* bound: transports that break

ASSUME ConstantsAssumption ==
    /\ ClientFrames \in Nat /\ ServerFrames \in Nat
    /\ MaxReplay \in Nat \ {0} /\ AckEvery \in Nat \ {0}
    /\ MaxTransports \in Nat \ {0} /\ MaxFailures \in Nat

Sides == {"client", "server"}
Peer(p) == IF p = "client" THEN "server" ELSE "client"
MaxSend(p) == IF p = "client" THEN ClientFrames ELSE ServerFrames

Transports == 1..MaxTransports
None == 0           \* no transport: c.conn == nil

Data(s) == [kind |-> "data", seq |-> s]
Ack(s) == [kind |-> "ack", seq |-> s]
Frame == [kind : {"data", "ack"}, seq : Nat]

VARIABLES
    \* Connection and recoveryState, one of each per side
    conn,         \* Connection.conn: the attached transport, or None
    status,       \* "open", or why markClosed ran
    nextSend,     \* Connection.nextSendSeq
    kept,         \* replayBuffer.frames[head:], as sequence numbers
    lastAcked,    \* replayBuffer.lastAcked
    lastRecv,     \* recoveryState.lastRecvSeq
    lastAckSent,  \* recoveryState.lastAckSent
    ackPending,   \* recoveryState.ackPending
    ack,          \* "due": ackDue, or ackDueAt has passed; "delayed": it is to come;
                  \* else "idle"
    notify,       \* a token is in Connection.sendNotify
    delivered,    \* what acceptFrame handed to the streams, in order
    \* recoveryWriter
    wpc, wconn, lastSent, resume, held,
    \* recoveryReaderLoop
    rpc, rconn,
    \* the client's reconnectLoop goroutines
    starting,     \* goroutines that have not reached the CompareAndSwap
    loop,         \* the one that holds reconnectActive: "dial" or "attached"; else "off"
    rechecking,   \* goroutines that cleared the flag and not yet looked at conn
    dialing,      \* the transport whose attach response the loop waits for
    \* the server's handlers, one per transport
    handler, req, resp,
    \* the network
    ntrans, live, pipe, failures

connVars == <<conn, status, notify>>
sendVars == <<nextSend, kept, lastAcked>>
recvVars == <<lastRecv, delivered>>
ackVars == <<lastAckSent, ackPending, ack>>
writerVars == <<wpc, wconn, lastSent, resume, held>>
readerVars == <<rpc, rconn>>
loopVars == <<starting, loop, rechecking, dialing>>
serverVars == <<handler, req, resp>>
netVars == <<ntrans, live, pipe, failures>>
vars == <<connVars, sendVars, recvVars, ackVars, writerVars, readerVars,
          loopVars, serverVars, netVars>>

-----------------------------------------------------------------------------
(* newClientRecoveryState, newServerRecoveryState and the goroutines'      *)
(* locals: nothing sent or received.                                       *)
InitRest ==
    /\ status = [p \in Sides |-> "open"]
    /\ nextSend = [p \in Sides |-> 0]
    /\ kept = [p \in Sides |-> {}]
    /\ lastAcked = [p \in Sides |-> 0]
    /\ lastRecv = [p \in Sides |-> 0]
    /\ delivered = [p \in Sides |-> <<>>]
    /\ lastAckSent = [p \in Sides |-> 0]
    /\ ackPending = [p \in Sides |-> 0]
    /\ ack = [p \in Sides |-> "idle"]
    /\ lastSent = [p \in Sides |-> 0]
    /\ resume = [p \in Sides |-> {}]
    /\ held = [p \in Sides |-> FALSE]
    /\ starting = 0 /\ loop = "off" /\ rechecking = 0 /\ dialing = None
    /\ req = [t \in Transports |-> 0]
    /\ resp = [t \in Transports |-> 0]
    /\ ntrans = 1
    /\ live = [t \in Transports |-> t = 1]
    /\ pipe = [t \in Transports |-> [p \in Sides |-> <<>>]]
    /\ failures = 0

(* The first transport: attachNew stored the connection and answered, the  *)
(* client read the answer and attached; the server has yet to attach.      *)
Init ==
    /\ conn = [p \in Sides |-> IF p = "client" THEN 1 ELSE None]
    /\ notify = [p \in Sides |-> p = "client"]
    /\ wpc = [p \in Sides |-> "top"]
    /\ wconn = [p \in Sides |-> None]
    /\ rpc = [p \in Sides |-> "wait"]
    /\ rconn = [p \in Sides |-> None]
    /\ handler = [t \in Transports |-> IF t = 1 THEN "answered" ELSE "none"]
    /\ InitRest

(* Connection.start runs once the first transport is attached, and the     *)
(* goroutines end when the connection closes.                              *)
Running(p) == status[p] = "open" /\ (p = "server" => handler[1] = "done")

-----------------------------------------------------------------------------
(* Transport changes.                                                      *)

(* signalSend: the writer has something to look at. *)
SignalSendDropped(p) == UNCHANGED notify   \* faulty
SignalSend(p) == notify' = [notify EXCEPT ![p] = TRUE]

(* onDetached: the client starts a reconnectLoop goroutine, the server its *)
(* expiry timer (Expire).                                                  *)
OnDetachedIdle(p) == UNCHANGED starting   \* faulty
OnDetached(p) == starting' = IF p = "client" THEN starting + 1 ELSE starting

(* attachTransport of an open connection: the transport it replaces is closed. *)
AttachTransport(p, t) ==
    /\ conn' = [conn EXCEPT ![p] = t]
    /\ live' = [u \in Transports |-> live[u] /\ u # conn[p]]
    /\ SignalSend(p)

(* detachTransport: nothing unless t is still the attached transport. *)
DetachTransport(p, t) ==
    IF conn[p] = t
    THEN /\ conn' = [conn EXCEPT ![p] = None]
         /\ live' = [live EXCEPT ![t] = FALSE]
         /\ OnDetached(p)
         /\ SignalSend(p)
    ELSE UNCHANGED <<conn, live, notify, starting>>

(* markClosed, which closes the attached transport. *)
MarkClosed(p, why) ==
    /\ status' = [status EXCEPT ![p] = why]
    /\ conn' = [conn EXCEPT ![p] = None]
    /\ live' = [u \in Transports |-> live[u] /\ u # conn[p]]

-----------------------------------------------------------------------------
(* The writer goroutine.                                                   *)

(* The peer's last received number, given with the attached transport. *)
ResumeSeq(p) == IF p = "server" THEN req[conn[p]] ELSE resp[conn[p]]

MinOf(a, b) == IF a <= b THEN a ELSE b
MaxOf(a, b) == IF a <= b THEN b ELSE a

(* replayBuffer.ack: ACKs at or below the last one change nothing. *)
ReplayAck(p, s) ==
    /\ lastAcked' = [lastAcked EXCEPT ![p] = MaxOf(lastAcked[p], s)]
    /\ kept' = [kept EXCEPT ![p] =
                  IF s <= lastAcked[p] THEN kept[p]
                  ELSE {f \in kept[p] : f > s}]

(* The loop condition of writeTransport, transportActive(gen), is checked  *)
(* as a step ends ...                                                      *)
Continue(p) ==
    wpc' = [wpc EXCEPT ![p] = IF conn[p] = wconn[p] THEN "next" ELSE "top"]

(* ... or, if the transport was replaced or lost since, a moment later.    *)
(* Without this step the check came first, and writeNext runs once more.   *)
WriterLeave(p) ==
    /\ Running(p) /\ wpc[p] = "next" /\ conn[p] # wconn[p]
    /\ wpc' = [wpc EXCEPT ![p] = "top"]
    /\ UNCHANGED <<connVars, sendVars, recvVars, ackVars, wconn, lastSent,
                   resume, held, readerVars, loopVars, serverVars, netVars>>

(* snapshotFrom: the frames to replay to a peer that has those up to last. *)
SnapshotNothing(p, last) == {}   \* faulty
SnapshotFrom(p, last) == {f \in kept[p] : f > last}

(* The top of recoveryWriterLoop with a new transport: writeTransport      *)
(* starts; prepareResume acknowledges what the peer has and takes the rest.*)
WriterAttach(p) ==
    /\ Running(p) /\ wpc[p] = "top" /\ conn[p] \notin {None, wconn[p]}
    /\ LET last == MinOf(ResumeSeq(p), nextSend[p]) IN
       /\ wconn' = [wconn EXCEPT ![p] = conn[p]]
       /\ lastSent' = [lastSent EXCEPT ![p] = last]
       /\ ReplayAck(p, last)
       /\ resume' = [resume EXCEPT ![p] = SnapshotFrom(p, last)]
    /\ wpc' = [wpc EXCEPT ![p] = "next"]
    /\ UNCHANGED <<connVars, nextSend, recvVars, ackVars, held, readerVars,
                   loopVars, serverVars, netVars>>

(* The top of recoveryWriterLoop without one: stageWhileDetached blocks. *)
WriterPark(p) ==
    /\ Running(p) /\ wpc[p] = "top" /\ conn[p] \in {None, wconn[p]}
    /\ wpc' = [wpc EXCEPT ![p] = "parked"]
    /\ UNCHANGED <<connVars, sendVars, recvVars, ackVars, wconn, lastSent,
                   resume, held, readerVars, loopVars, serverVars, netVars>>

(* A signal ends the wait of stageWhileDetached or of wait(). *)
WriterWake(p) ==
    /\ Running(p) /\ wpc[p] \in {"parked", "wait", "ackWait", "overdue"} /\ notify[p]
    /\ notify' = [notify EXCEPT ![p] = FALSE]
    /\ wpc' = [wpc EXCEPT ![p] =
                 IF wpc[p] # "parked" /\ conn[p] = wconn[p] THEN "next" ELSE "top"]
    /\ UNCHANGED <<conn, status, sendVars, recvVars, ackVars, wconn, lastSent,
                   resume, held, readerVars, loopVars, serverVars, netVars>>

(* A new frame is in the outbound queue: applications send when they like. *)
FrameQueued(p) == ~held[p] /\ nextSend[p] < MaxSend(p)

HasRoom(p) == Cardinality(kept[p]) < MaxReplay

(* Faulty: stage: a held frame takes a number, and another one when staged. *)
StageBurnsNumber(p) ==
    /\ nextSend' = [nextSend EXCEPT ![p] = nextSend[p] + 1]
    /\ IF HasRoom(p)
       THEN /\ kept' = [kept EXCEPT ![p] = kept[p] \cup {nextSend[p] + 1}]
            /\ held' = [held EXCEPT ![p] = FALSE]
       ELSE held' = [held EXCEPT ![p] = TRUE] /\ UNCHANGED kept

(* stage: the next number goes to the frame only if the buffer keeps it. *)
Stage(p) ==
    IF HasRoom(p)
    THEN /\ nextSend' = [nextSend EXCEPT ![p] = nextSend[p] + 1]
         /\ kept' = [kept EXCEPT ![p] = kept[p] \cup {nextSend[p] + 1}]
         /\ held' = [held EXCEPT ![p] = FALSE]
    ELSE /\ held' = [held EXCEPT ![p] = TRUE]
         /\ UNCHANGED <<nextSend, kept>>

(* stageWhileDetached with a frame: staged now, replayed by the next resume. *)
StageWhileDetached(p) ==
    /\ Running(p) /\ wpc[p] = "parked" /\ FrameQueued(p)
    /\ Stage(p)
    /\ wpc' = [wpc EXCEPT ![p] = "top"]
    /\ UNCHANGED <<connVars, lastAcked, recvVars, ackVars, wconn, lastSent,
                   resume, readerVars, loopVars, serverVars, netVars>>

(* write: bw buffers the frame.  On a dead transport it is lost, or the    *)
(* write fails and detaches the transport.                                 *)
Write(p, f) ==
    /\ pipe' = IF live[wconn[p]]
               THEN [pipe EXCEPT ![wconn[p]][Peer(p)] = Append(@, f)]
               ELSE pipe
    /\ Continue(p)
    /\ UNCHANGED <<conn, live, notify, starting>>

WriteFails(p) ==
    /\ ~live[wconn[p]]
    /\ DetachTransport(p, wconn[p])
    /\ wpc' = [wpc EXCEPT ![p] = "top"]
    /\ UNCHANGED pipe

(* takePendingControl: the ACK covers all that was received.  Its branch   *)
(* for a scheduled ACK that is not owed is never taken: see                *)
(* AckScheduledIffOwed.                                                    *)
TakeAckUnrecorded(p) ==   \* faulty
    /\ ackPending' = [ackPending EXCEPT ![p] = 0]
    /\ ack' = [ack EXCEPT ![p] = "idle"]
    /\ UNCHANGED lastAckSent
TakeAckSubtracts(p) ==   \* faulty
    /\ lastAckSent' = [lastAckSent EXCEPT ![p] = lastRecv[p]]
    /\ ackPending' = [ackPending EXCEPT ![p] = @ - AckEvery]
    /\ ack' = [ack EXCEPT ![p] = "idle"]
TakeAck(p) ==
    /\ lastAckSent' = [lastAckSent EXCEPT ![p] = lastRecv[p]]
    /\ ackPending' = [ackPending EXCEPT ![p] = 0]
    /\ ack' = [ack EXCEPT ![p] = "idle"]

(* writeNext with an ACK: a delayed one goes once its time has come. *)
WriteAck(p) ==
    /\ Running(p) /\ wpc[p] = "next" /\ ack[p] # "idle"
    /\ lastAckSent[p] < lastRecv[p]
    /\ TakeAck(p)
    /\ Write(p, Ack(lastRecv[p])) \/ WriteFails(p)
    /\ UNCHANGED <<status, sendVars, recvVars, wconn, lastSent, resume, held,
                   readerVars, loop, rechecking, dialing, serverVars, ntrans, failures>>

(* writeResume: the oldest frame left to replay, unless the peer has it. *)
WriteResume(p) ==
    /\ Running(p) /\ wpc[p] = "next" /\ ack[p] # "due"
    /\ \E f \in resume[p] :
         /\ \A g \in resume[p] : f <= g
         /\ resume' = [resume EXCEPT ![p] = resume[p] \ {f}]
         /\ IF f <= MaxOf(lastSent[p], lastAcked[p])
            THEN /\ Continue(p)
                 /\ UNCHANGED <<lastSent, conn, live, notify, starting, pipe>>
            ELSE \/ /\ Write(p, Data(f))
                    /\ lastSent' = [lastSent EXCEPT ![p] = f]
                 \/ /\ WriteFails(p)
                    /\ UNCHANGED lastSent
    /\ UNCHANGED <<status, sendVars, recvVars, ackVars, wconn, held, readerVars,
                   loop, rechecking, dialing, serverVars, ntrans, failures>>

(* writeLive of a frame that the buffer has room for. *)
WriteLive(p) ==
    /\ HasRoom(p)
    /\ Stage(p)
    /\ IF nextSend[p] + 1 <= lastSent[p]
       THEN /\ Continue(p)
            /\ UNCHANGED <<lastSent, conn, live, notify, starting, pipe>>
       ELSE \/ /\ Write(p, Data(nextSend[p] + 1))
               /\ lastSent' = [lastSent EXCEPT ![p] = nextSend[p] + 1]
            \/ /\ WriteFails(p)
               /\ UNCHANGED lastSent

(* writeNext: no ACK is due, nothing is left to replay, and takeFrame has  *)
(* the held frame or a queued one.                                         *)
WriteNextLive(p) ==
    /\ Running(p) /\ wpc[p] = "next" /\ ack[p] # "due" /\ resume[p] = {}
    /\ held[p] \/ FrameQueued(p)
    /\ WriteLive(p)
    /\ UNCHANGED <<status, lastAcked, recvVars, ackVars, wconn, resume, readerVars,
                   loop, rechecking, dialing, serverVars, ntrans, failures>>

(* wait() with a frame in the queue. *)
WaitLive(p) ==
    /\ Running(p) /\ wpc[p] \in {"wait", "ackWait", "overdue"} /\ FrameQueued(p)
    /\ WriteLive(p)
    /\ UNCHANGED <<status, lastAcked, recvVars, ackVars, wconn, resume, readerVars,
                   loop, rechecking, dialing, serverVars, ntrans, failures>>

(* wait() with a frame in the queue that the buffer has no room for. *)
WaitHold(p) ==
    /\ Running(p) /\ wpc[p] \in {"wait", "ackWait", "overdue"} /\ FrameQueued(p) /\ ~HasRoom(p)
    /\ Stage(p)
    /\ Continue(p)
    /\ UNCHANGED <<connVars, lastAcked, recvVars, ackVars, wconn, lastSent,
                   resume, readerVars, loopVars, serverVars, netVars>>

(* wait() blocks, with a timer for the time nextAckWait gives.  That is 0   *)
(* without a scheduled ACK, and also for one whose delay has ended since    *)
(* takePendingControl found it not due (in the Flush, say): then only the   *)
(* heartbeat has a timer.                                                   *)
NextAckWait(p) ==
    \/ /\ ack[p] = "idle"
       /\ wpc' = [wpc EXCEPT ![p] = "wait"]
       /\ UNCHANGED ack
    \/ /\ ack[p] = "delayed"
       /\ wpc' = [wpc EXCEPT ![p] = "ackWait"]
       /\ UNCHANGED ack
    \/ /\ ack[p] = "delayed"
       /\ wpc' = [wpc EXCEPT ![p] = "overdue"]
       /\ ack' = [ack EXCEPT ![p] = "due"]

(* writeNext has nothing to write: takeFrame finds none, or the frame it   *)
(* has is held.  wait() flushes, which may find the transport dead, and    *)
(* blocks.                                                                 *)
WriterIdle(p) ==
    /\ Running(p) /\ wpc[p] = "next" /\ ack[p] # "due" /\ resume[p] = {}
    /\ \/ ~held[p] /\ UNCHANGED <<nextSend, kept, held>>
       \/ (held[p] \/ FrameQueued(p)) /\ ~HasRoom(p) /\ Stage(p)
    /\ \/ NextAckWait(p) /\ UNCHANGED <<conn, live, notify, starting, pipe>>
       \/ WriteFails(p) /\ UNCHANGED ack
    /\ UNCHANGED <<status, lastAcked, recvVars, lastAckSent, ackPending, wconn, lastSent,
                   resume, readerVars, loop, rechecking, dialing, serverVars, ntrans,
                   failures>>

(* The ACK delay ends in wait(), whose timer was set for it. *)
AckTimeout(p) ==
    /\ Running(p) /\ wpc[p] = "ackWait"
    /\ ack' = [ack EXCEPT ![p] = IF ack[p] = "delayed" THEN "due" ELSE @]
    /\ Continue(p)
    /\ UNCHANGED <<connVars, sendVars, recvVars, lastAckSent, ackPending, wconn,
                   lastSent, resume, held, readerVars, loopVars, serverVars, netVars>>

(* The heartbeat interval ends in wait(): a ping, which the peer ignores   *)
(* but for its read deadline.                                              *)
Heartbeat(p) ==
    /\ Running(p) /\ wpc[p] \in {"wait", "ackWait", "overdue"}
    /\ \/ /\ Continue(p)
          /\ UNCHANGED <<conn, live, notify, starting, pipe>>
       \/ WriteFails(p)
    /\ UNCHANGED <<status, sendVars, recvVars, ackVars, wconn, lastSent, resume,
                   held, readerVars, loop, rechecking, dialing, serverVars,
                   ntrans, failures>>

WriterStep(p) ==
    \/ WriterAttach(p) \/ WriterPark(p) \/ WriterWake(p) \/ WriterLeave(p)
    \/ WriteAck(p) \/ WriteResume(p) \/ WriteNextLive(p) \/ WriterIdle(p)
    \/ AckTimeout(p)

(* What needs a frame from the application, or the heartbeat's clock. *)
SendStep(p) == StageWhileDetached(p) \/ WaitLive(p) \/ WaitHold(p)

-----------------------------------------------------------------------------
(* The reader goroutine.                                                   *)

(* waitForTransport. *)
ReaderPick(p) ==
    /\ Running(p) /\ rpc[p] = "wait" /\ conn[p] \notin {None, rconn[p]}
    /\ rconn' = [rconn EXCEPT ![p] = conn[p]]
    /\ rpc' = [rpc EXCEPT ![p] = "read"]
    /\ UNCHANGED <<connVars, sendVars, recvVars, ackVars, writerVars, loopVars,
                   serverVars, netVars>>

Incoming(p) == pipe[rconn[p]][p]

(* The reader, blocked in readFrameFrom, gets the next frame; after it, it *)
(* goes on only if transportActive(gen).  (A transport that is lost after  *)
(* the check is dead: then ReadError leaves it, or one more frame arrives.)*)
Receive(p) ==
    /\ Running(p) /\ rpc[p] = "read" /\ Incoming(p) # <<>>
    /\ pipe' = [pipe EXCEPT ![rconn[p]][p] = Tail(@)]
    /\ rpc' = [rpc EXCEPT ![p] = IF conn[p] = rconn[p] THEN "read" ELSE "wait"]

(* Faulty: noteReceived: lastRecvSeq is not advanced. *)
NoteReceivedForgets(p, s) ==
    /\ ackPending' = [ackPending EXCEPT ![p] = @ + 1]
    /\ ack' = [ack EXCEPT ![p] = "due"]
    /\ notify' = [notify EXCEPT ![p] = TRUE]
    /\ UNCHANGED <<lastRecv, lastAckSent>>

(* noteReceived of the frame after the last one received.  It signals if   *)
(* the ACK becomes due, or if its delay starts: an ACK that is due before  *)
(* AckEvery frames has ackDueAt set.                                       *)
NoteReceived(p, s) ==
    /\ lastRecv' = [lastRecv EXCEPT ![p] = s]
    /\ LET due == ackPending[p] + 1 >= AckEvery IN
       /\ ackPending' = [ackPending EXCEPT ![p] = @ + 1]
       /\ ack' = [ack EXCEPT ![p] = IF due \/ @ = "due" THEN "due" ELSE "delayed"]
       /\ notify' = [notify EXCEPT ![p] = @ \/ due \/ ack[p] = "idle"]
    /\ UNCHANGED lastAckSent

(* noteReceived of a replayed frame: an ACK is scheduled only if one is owed. *)
NoteDuplicate(p) ==
    /\ ack' = [ack EXCEPT ![p] = IF lastAckSent[p] < lastRecv[p] THEN "due" ELSE @]
    /\ SignalSend(p)
    /\ UNCHANGED <<lastRecv, lastAckSent, ackPending>>

(* handleRecoveryDataFrame: a duplicate is dropped, the next frame goes to *)
(* its stream, a skipped number closes the connection.                     *)
ReadData(p) ==
    /\ Receive(p)
    /\ LET f == Head(Incoming(p)) IN
       /\ f.kind = "data"
       /\ IF f.seq <= lastRecv[p]
          THEN /\ NoteDuplicate(p)
               /\ UNCHANGED <<conn, status, live, delivered>>
          ELSE IF f.seq = lastRecv[p] + 1
          THEN /\ NoteReceived(p, f.seq)
               /\ delivered' = [delivered EXCEPT ![p] = Append(@, f.seq)]
               /\ UNCHANGED <<conn, status, live>>
          ELSE /\ MarkClosed(p, "gap")
               /\ UNCHANGED <<notify, lastRecv, delivered, ackVars>>
    /\ UNCHANGED <<sendVars, writerVars, rconn, loopVars, serverVars, ntrans, failures>>

(* handleControlFrame with an ACK: it may make room for the held frame. *)
ReadAck(p) ==
    /\ Receive(p)
    /\ LET f == Head(Incoming(p)) IN f.kind = "ack" /\ ReplayAck(p, f.seq)
    /\ SignalSend(p)
    /\ UNCHANGED <<conn, status, nextSend, recvVars, ackVars, writerVars, rconn,
                   loopVars, serverVars, ntrans, live, failures>>

(* A read fails on a dead transport, whatever was still in flight. *)
ReadError(p) ==
    /\ Running(p) /\ rpc[p] = "read" /\ ~live[rconn[p]]
    /\ DetachTransport(p, rconn[p])
    /\ rpc' = [rpc EXCEPT ![p] = "wait"]
    /\ pipe' = [pipe EXCEPT ![rconn[p]][p] = <<>>]
    /\ UNCHANGED <<status, sendVars, recvVars, ackVars, writerVars, rconn, loop,
                   rechecking, dialing, serverVars, ntrans, failures>>

ReaderStep(p) ==
    ReaderPick(p) \/ ReadData(p) \/ ReadAck(p) \/ ReadError(p)

-----------------------------------------------------------------------------
(* The client's reconnectLoop.                                             *)

ClientOpen == status["client"] = "open"

(* reconnectActive.CompareAndSwap(false, true): the loser returns. *)
LoopStart ==
    /\ ClientOpen /\ starting > 0
    /\ starting' = starting - 1
    /\ loop' = IF loop = "off" THEN "dial" ELSE loop
    /\ UNCHANGED <<connVars, sendVars, recvVars, ackVars, writerVars, readerVars,
                   rechecking, dialing, serverVars, netVars>>

(* resumeClientTransport up to the attach request, which carries the last  *)
(* number received.                                                        *)
Dial ==
    /\ ClientOpen /\ loop = "dial" /\ dialing = None /\ ntrans < MaxTransports
    /\ LET t == ntrans + 1 IN
       /\ ntrans' = t
       /\ dialing' = t
       /\ live' = [live EXCEPT ![t] = TRUE]
       /\ req' = [req EXCEPT ![t] = lastRecv["client"]]
       /\ handler' = [handler EXCEPT ![t] = "asked"]
    /\ UNCHANGED <<connVars, sendVars, recvVars, ackVars, writerVars, readerVars,
                   starting, loop, rechecking, resp, pipe, failures>>

(* The attach response is OK: the loop attaches the transport. *)
ClientAttach ==
    /\ ClientOpen /\ dialing # None /\ handler[dialing] \in {"answered", "done"}
    /\ AttachTransport("client", dialing)
    /\ loop' = "attached"
    /\ dialing' = None
    /\ UNCHANGED <<status, sendVars, recvVars, ackVars, writerVars, readerVars,
                   starting, rechecking, serverVars, ntrans, pipe, failures>>

(* ErrResumeRejected. *)
Rejected(t) == handler[t] = "rejected"

(* The attach response is a rejection, which is final. *)
ClientRejected ==
    /\ ClientOpen /\ dialing # None /\ Rejected(dialing)
    /\ MarkClosed("client", "rejected")
    /\ loop' = "off"
    /\ dialing' = None
    /\ UNCHANGED <<notify, sendVars, recvVars, ackVars, writerVars, readerVars,
                   starting, rechecking, serverVars, ntrans, pipe, failures>>

(* The resume fails on a dead transport: the loop closes the transport,    *)
(* backs off and dials again.                                              *)
ResumeFails ==
    /\ ClientOpen /\ dialing # None /\ ~live[dialing]
    /\ dialing' = None
    /\ UNCHANGED <<connVars, sendVars, recvVars, ackVars, writerVars, readerVars,
                   starting, loop, rechecking, serverVars, netVars>>

(* The resume times out, or is refused by the network, on the client's     *)
(* side only: the server may still answer and attach the transport.        *)
ResumeTimeout ==
    /\ ClientOpen /\ dialing # None /\ live[dialing]
    /\ live' = [live EXCEPT ![dialing] = FALSE]
    /\ dialing' = None
    /\ UNCHANGED <<connVars, sendVars, recvVars, ackVars, writerVars, readerVars,
                   starting, loop, rechecking, serverVars, ntrans, pipe, failures>>

(* reconnectUntilAttached returned: reconnectActive.Store(false). *)
LoopRelease ==
    /\ ClientOpen /\ loop = "attached"
    /\ loop' = "off"
    /\ rechecking' = rechecking + 1
    /\ UNCHANGED <<connVars, sendVars, recvVars, ackVars, writerVars, readerVars,
                   starting, dialing, serverVars, netVars>>

(* A detach while the flag was set started no loop of its own ... *)
MissedDetachNot == FALSE   \* faulty
MissedDetach == conn["client"] = None

(* ... so the goroutine goes back to the CompareAndSwap after one. *)
LoopRecheck ==
    /\ ClientOpen /\ rechecking > 0
    /\ rechecking' = rechecking - 1
    /\ starting' = IF MissedDetach THEN starting + 1 ELSE starting
    /\ UNCHANGED <<connVars, sendVars, recvVars, ackVars, writerVars, readerVars,
                   loop, dialing, serverVars, netVars>>

LoopStep ==
    \/ LoopStart \/ Dial \/ ClientAttach \/ ClientRejected \/ ResumeFails
    \/ LoopRelease \/ LoopRecheck

-----------------------------------------------------------------------------
(* The server: one handler per transport, and the expiry timer.            *)

(* recovery.lastReceived() in the response. *)
NextExpected == lastRecv["server"] + 1   \* faulty
LastReceived == lastRecv["server"]

(* The server still has the connection, whether or not it has noticed the  *)
(* loss of its transport.                                                  *)
ResumableDetached == status["server"] = "open" /\ conn["server"] = None   \* faulty
Resumable == status["server"] = "open"

(* attachResume up to the response, which carries the last number          *)
(* received; a connection that has closed is not found.                    *)
ServerAnswer(t) ==
    /\ handler[t] = "asked"
    /\ \/ /\ Resumable
          /\ handler' = [handler EXCEPT ![t] = "answered"]
          /\ resp' = [resp EXCEPT ![t] = LastReceived]
       \/ /\ ~Resumable
          /\ handler' = [handler EXCEPT ![t] = "rejected"]
          /\ UNCHANGED resp
       \/ /\ ~live[t]
          /\ handler' = [handler EXCEPT ![t] = "failed"]
          /\ UNCHANGED resp
    /\ UNCHANGED <<connVars, sendVars, recvVars, ackVars, writerVars, readerVars,
                   loopVars, req, netVars>>

(* attachTransport at the end of attachNew and attachResume; a connection  *)
(* that closed meanwhile closes the transport.                             *)
ServerAttach(t) ==
    /\ handler[t] = "answered"
    /\ handler' = [handler EXCEPT ![t] = "done"]
    /\ \/ status["server"] = "open" /\ AttachTransport("server", t)
       \/ /\ status["server"] # "open"
          /\ live' = [live EXCEPT ![t] = FALSE]
          /\ UNCHANGED <<conn, notify>>
    /\ UNCHANGED <<status, sendVars, recvVars, ackVars, writerVars, readerVars,
                   loopVars, req, resp, ntrans, pipe, failures>>

(* The expiry timer that the last detach started. *)
Expire ==
    /\ Running("server") /\ conn["server"] = None
    /\ MarkClosed("server", "expired")
    /\ UNCHANGED <<notify, sendVars, recvVars, ackVars, writerVars, readerVars,
                   loopVars, serverVars, ntrans, pipe, failures>>

ServerStep == \E t \in Transports : ServerAnswer(t) \/ ServerAttach(t)

(* A transport dies: the network, or the heartbeat timeout of a reader. *)
Break(t) ==
    /\ live[t] /\ failures < MaxFailures
    /\ live' = [live EXCEPT ![t] = FALSE]
    /\ failures' = failures + 1
    /\ UNCHANGED <<connVars, sendVars, recvVars, ackVars, writerVars, readerVars,
                   loopVars, serverVars, ntrans, pipe>>

-----------------------------------------------------------------------------
Next ==
    \/ \E p \in Sides : WriterStep(p) \/ SendStep(p) \/ Heartbeat(p) \/ ReaderStep(p)
    \/ LoopStep \/ ResumeTimeout
    \/ ServerStep \/ Expire
    \/ \E t \in Transports : Break(t)

Spec == Init /\ [][Next]_vars

(* Goroutines keep running and delays end; applications need not send,     *)
(* transports need not break and a detached server need not expire.  No    *)
(* property may rest on the heartbeat to wake a writer ...                 *)
Fairness ==
    /\ \A p \in Sides : WF_vars(ReaderStep(p))
    /\ WF_vars(LoopStep)
    /\ WF_vars(ServerStep)

FairSpec == Spec /\ Fairness /\ \A p \in Sides : WF_vars(WriterStep(p))

(* ... but it does: every wait() ends when the heartbeat interval does.    *)
(* This specification starts later, with the first transport attached by   *)
(* both sides and nothing to write.                                        *)
Attached(f) == f = [p \in Sides |-> 1]
IdleInit ==
    /\ Attached(conn) /\ Attached(wconn) /\ Attached(rconn)
    /\ wpc = [p \in Sides |-> "wait"] /\ rpc = [p \in Sides |-> "read"]
    /\ notify = [p \in Sides |-> FALSE]
    /\ handler = [t \in Transports |-> IF t = 1 THEN "done" ELSE "none"]
    /\ InitRest

HeartbeatSpec ==
    /\ IdleInit /\ [][Next]_vars
    /\ Fairness /\ \A p \in Sides : WF_vars(WriterStep(p) \/ Heartbeat(p))

-----------------------------------------------------------------------------
(* Types and bounds of the state. *)
TypeOK ==
    /\ conn \in [Sides -> Transports \cup {None}]
    /\ status \in [Sides -> {"open", "expired", "rejected", "gap"}]
    /\ notify \in [Sides -> BOOLEAN]
    /\ nextSend \in [Sides -> Nat]
    /\ kept \in [Sides -> SUBSET Nat]
    /\ lastAcked \in [Sides -> Nat]
    /\ lastRecv \in [Sides -> Nat]
    /\ delivered \in [Sides -> Seq(Nat)]
    /\ lastAckSent \in [Sides -> Nat]
    /\ ackPending \in [Sides -> Nat]
    /\ ack \in [Sides -> {"idle", "delayed", "due"}]
    /\ wpc \in [Sides -> {"top", "parked", "next", "wait", "ackWait", "overdue"}]
    /\ wconn \in [Sides -> Transports \cup {None}]
    /\ lastSent \in [Sides -> Nat]
    /\ resume \in [Sides -> SUBSET Nat]
    /\ held \in [Sides -> BOOLEAN]
    /\ rpc \in [Sides -> {"wait", "read"}]
    /\ rconn \in [Sides -> Transports \cup {None}]
    /\ starting \in Nat /\ rechecking \in Nat
    /\ loop \in {"off", "dial", "attached"}
    /\ dialing \in Transports \cup {None}
    /\ handler \in [Transports -> {"none", "asked", "answered", "done", "failed", "rejected"}]
    /\ req \in [Transports -> Nat]
    /\ resp \in [Transports -> Nat]
    /\ ntrans \in Transports
    /\ live \in [Transports -> BOOLEAN]
    /\ pipe \in [Transports -> [Sides -> Seq(Frame)]]
    /\ failures \in Nat

(* A replay never makes the reader skip a number, whatever transports broke *)
(* and in whatever order both sides resumed: handleRecoveryDataFrame's      *)
(* "recovery frame sequence gap" never closes a connection.                 *)
NoGap == \A p \in Sides : status[p] # "gap"

(* Each side's streams get the frames 1, 2, 3, ... of the peer, each once   *)
(* and in order, across every resume.                                       *)
InOrderOnce ==
    \A p \in Sides : delivered[p] = [i \in 1..lastRecv[p] |-> i]

(* What the peer has not received can still be replayed: an ACK never       *)
(* drops a frame from the replay buffer that the peer's reader lacks.       *)
UnreceivedIsKept ==
    \A p \in Sides : (lastRecv[Peer(p)] + 1)..nextSend[p] \subseteq kept[p]

(* "The peer cannot have received more than was sent" (writeTransport), and *)
(* no more than it received is acknowledged.                                *)
PeerNeverAhead ==
    \A p \in Sides : lastAcked[p] <= lastRecv[Peer(p)] /\ lastRecv[Peer(p)] <= nextSend[p]

(* No wakeup is lost: a writer that sleeps although it has something to do  *)
(* (a new transport, an ACK that is due or whose delay no timer watches, or *)
(* room for the frame it holds) has a signal waiting in sendNotify.  There  *)
(* is one exception: an ACK whose delay ended just before wait() asked      *)
(* nextAckWait for it.  It has less than AckEvery frames to cover and waits *)
(* for the heartbeat, a new frame to send, or another signal.               *)
NoLostWakeup ==
    \A p \in Sides : Running(p) /\ ~notify[p] =>
        /\ wpc[p] = "parked" => conn[p] \in {None, wconn[p]}
        /\ wpc[p] \in {"wait", "ackWait", "overdue"} =>
             /\ ack[p] = "due" => wpc[p] = "overdue" /\ ackPending[p] < AckEvery
             /\ ack[p] = "delayed" => wpc[p] = "ackWait"
             /\ held[p] => ~HasRoom(p)
             /\ conn[p] = wconn[p]

(* An ACK is scheduled exactly while there are received frames that no ACK  *)
(* has covered: none is forgotten, and the branch of takePendingControl     *)
(* that drops a scheduled ACK is never taken.                               *)
AckScheduledIffOwed ==
    \A p \in Sides : ack[p] # "idle" <=> lastAckSent[p] < lastRecv[p]

(* A client without a transport has a goroutine on its way to reconnect:    *)
(* the detach, the end of the previous loop and the flag never race so that *)
(* every goroutine leaves it to another one.                                *)
DetachedClientReconnects ==
    ClientOpen /\ conn["client"] = None =>
        starting > 0 \/ rechecking > 0 \/ loop # "off"

(* The client gives a session up only if the server has dropped it. *)
ClientOutlivesServer == status["server"] = "open" => ClientOpen

-----------------------------------------------------------------------------
(* The inductive invariant that the proofs in RecoverySessionProofs.tla use. *)

(* Every transport in use has been dialed, and a goroutine that works on a  *)
(* transport has one.                                                       *)
TransportsDialed ==
    /\ \A p \in Sides : conn[p] <= ntrans /\ wconn[p] <= ntrans /\ rconn[p] <= ntrans
    /\ \A p \in Sides : wpc[p] \in {"next", "wait", "ackWait", "overdue"} => wconn[p] # None
    /\ \A p \in Sides : rpc[p] = "read" => rconn[p] # None
    /\ dialing <= ntrans
    /\ \A t \in Transports : handler[t] # "none" => t <= ntrans

(* The replay buffer holds the frames after the last acknowledged one. *)
KeptIsUnacked ==
    \A p \in Sides : kept[p] = (lastAcked[p] + 1)..nextSend[p]

(* Whatever tells a side what its peer received, an ACK in flight or the    *)
(* number of an attach request or response, tells the truth for good.       *)
TrueAcks(frames, received) ==
    \A i \in 1..Len(frames) : frames[i].kind = "ack" => frames[i].seq <= received

AcksAreTrue ==
    /\ \A t \in Transports :
          req[t] <= lastRecv["client"] /\ resp[t] <= lastRecv["server"]
    /\ \A t \in Transports, p \in Sides : TrueAcks(pipe[t][p], lastRecv[Peer(p)])

(* A data frame in flight is one that was sent, and its reader will not     *)
(* find a number missing before it.                                         *)
InFlight(frames, s) == \E i \in 1..Len(frames) : frames[i] = Data(s)

Gapless(frames, received, sent) ==
    \A i \in 1..Len(frames) : frames[i].kind = "data" =>
        /\ frames[i].seq <= sent
        /\ \/ frames[i].seq <= received + 1
           \/ \E j \in 1..(i - 1) : frames[j] = Data(frames[i].seq - 1)

PipesAreGapless ==
    \A t \in Transports, p \in Sides : Gapless(pipe[t][p], lastRecv[p], nextSend[Peer(p)])

(* The writer is between writeTransport's start and its return. *)
Writing(p) == wpc[p] \in {"next", "wait", "ackWait", "overdue"}

(* The last frame written to a live transport is received or on its way. *)
LastSentArrives ==
    \A p \in Sides : Writing(p) /\ live[wconn[p]] =>
        \/ lastSent[p] <= lastRecv[Peer(p)]
        \/ InFlight(pipe[wconn[p]][Peer(p)], lastSent[p])

(* What is left to replay is all that follows what the peer has or was sent. *)
ReplayFollowsSent ==
    \A p \in Sides : Writing(p) =>
        /\ lastSent[p] <= nextSend[p]
        /\ wpc[p] # "next" => resume[p] = {}
        /\ \E m \in 0..MaxOf(lastSent[p], lastAcked[p]) : resume[p] = (m + 1)..nextSend[p]

(* Together with the properties above, preserved by every step. *)
SessionInv ==
    /\ NoGap /\ InOrderOnce /\ PeerNeverAhead
    /\ TransportsDialed /\ KeptIsUnacked /\ AcksAreTrue
    /\ PipesAreGapless /\ LastSentArrives /\ ReplayFollowsSent

-----------------------------------------------------------------------------
(* The session as a message channel: MessageChannel.tla. *)
Channel == INSTANCE MessageChannel WITH
    accepted <- nextSend,
    received <- delivered,
    closed <- [p \in Sides |-> status[p] # "open"]

(* RecoverySession implements the reliable channel that applications see. *)
ImplementsChannel == Channel!Spec

(* A side has closed, or the bound on transports keeps the client from     *)
(* dialing again.                                                          *)
Ended == \/ \E p \in Sides : status[p] # "open"
         \/ loop = "dial" /\ dialing = None /\ ntrans = MaxTransports

(* A frame that Send has accepted reaches the peer's streams, through       *)
(* whatever transports it takes, unless the session ends.                   *)
AcceptedIsDelivered ==
    \A p \in Sides : \A n \in 1..MaxSend(p) :
        nextSend[p] >= n ~> (lastRecv[Peer(p)] >= n \/ Ended)

(* "sends wait for the peer to acknowledge earlier ones" (RecoveryOptions): *)
(* a send that is held for room in the replay buffer gets it, unless the    *)
(* session ends.                                                            *)
HeldSendProceeds ==
    \A p \in Sides : held[p] ~> (~held[p] \/ Ended)

(* A client that loses its transport attaches another one, unless the       *)
(* session ends.                                                            *)
ClientReattaches == conn["client"] = None ~> (conn["client"] # None \/ Ended)
=============================================================================
