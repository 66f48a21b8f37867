----------------------- MODULE RecoverySessionProofs -----------------------
(***************************************************************************)
(* Proofs about RecoverySession, for every number of frames, transports    *)
(* and failures, every replay buffer size and every AckEvery.              *)
(***************************************************************************)
EXTENDS RecoverySession, TLAPS

-----------------------------------------------------------------------------
(* Types.  TransportsDialed goes with them: a goroutine that works on a    *)
(* transport has one, so that the functions over Transports apply to it.   *)
Typed == TypeOK /\ TransportsDialed

(* No transport, no frame and no goroutine's work yet: the types of Init. *)
LEMMA InitTyped == Init => Typed
BY ConstantsAssumption
   DEF Typed, TypeOK, TransportsDialed, Init, InitRest, Sides, Transports, None, Frame

(* A step that changes nothing keeps the types. *)
LEMMA StutterTyped == Typed /\ UNCHANGED vars => Typed'
BY DEF Typed, TypeOK, TransportsDialed, vars, connVars, sendVars, recvVars, ackVars,
       writerVars, readerVars, loopVars, serverVars, netVars

(* What detachTransport changes keeps its type. *)
LEMMA DetachTyped ==
    ASSUME Typed, NEW p \in Sides, NEW t, DetachTransport(p, t)
    PROVE  /\ conn' \in [Sides -> Transports \cup {None}]
           /\ \A s \in Sides : conn'[s] <= ntrans
           /\ live' \in [Transports -> BOOLEAN]
           /\ notify' \in [Sides -> BOOLEAN]
           /\ starting' \in Nat
<1>0. /\ conn \in [Sides -> Transports \cup {None}]
      /\ \A s \in Sides : conn[s] <= ntrans
      /\ ntrans \in Transports
      /\ live \in [Transports -> BOOLEAN]
      /\ notify \in [Sides -> BOOLEAN]
      /\ starting \in Nat
  BY DEF Typed, TypeOK, TransportsDialed
<1>1. CASE conn[p] = t
  <2>1. conn' = [conn EXCEPT ![p] = None]
    BY <1>1 DEF DetachTransport
  <2>2. conn' \in [Sides -> Transports \cup {None}] /\ \A s \in Sides : conn'[s] <= ntrans
    BY <2>1, <1>0 DEF None, Transports
  <2>3. live' \in [Transports -> BOOLEAN] /\ notify' \in [Sides -> BOOLEAN]
    BY <1>0, <1>1 DEF DetachTransport, SignalSend
  <2>4. starting' \in Nat
    BY <1>0, <1>1 DEF DetachTransport, OnDetached
  <2> QED BY <2>2, <2>3, <2>4
<1>2. CASE conn[p] # t
  BY <1>0, <1>2 DEF DetachTransport
<1> QED BY <1>1, <1>2

(* A write leaves its frame in the transport or loses it; either way the   *)
(* types hold.                                                             *)
LEMMA WriteTyped ==
    ASSUME Typed, NEW p \in Sides, NEW f \in Frame, wpc[p] \in {"next", "wait", "ackWait", "overdue"},
           Write(p, f) \/ WriteFails(p)
    PROVE  /\ conn' \in [Sides -> Transports \cup {None}]
           /\ \A s \in Sides : conn'[s] <= ntrans
           /\ live' \in [Transports -> BOOLEAN]
           /\ notify' \in [Sides -> BOOLEAN]
           /\ starting' \in Nat
           /\ pipe' \in [Transports -> [Sides -> Seq(Frame)]]
           /\ wpc' \in [Sides -> {"top", "parked", "next", "wait", "ackWait", "overdue"}]
           /\ \A s \in Sides : s # p => wpc'[s] = wpc[s]
<1>0. wconn[p] \in Transports /\ Peer(p) \in Sides
  BY DEF Typed, TypeOK, TransportsDialed, Peer, Sides
<1>1. CASE Write(p, f)
  <2>1. /\ conn' \in [Sides -> Transports \cup {None}]
        /\ \A s \in Sides : conn'[s] <= ntrans
        /\ live' \in [Transports -> BOOLEAN]
        /\ notify' \in [Sides -> BOOLEAN]
        /\ starting' \in Nat
    BY <1>1 DEF Write, Typed, TypeOK, TransportsDialed
  <2>2. pipe' \in [Transports -> [Sides -> Seq(Frame)]]
    <3>1. pipe[wconn[p]][Peer(p)] \in Seq(Frame)
      BY <1>0 DEF Typed, TypeOK
    <3>2. Append(pipe[wconn[p]][Peer(p)], f) \in Seq(Frame)
      BY <3>1
    <3> QED BY <1>1, <1>0, <3>2 DEF Write, Typed, TypeOK
  <2>3. /\ wpc' \in [Sides -> {"top", "parked", "next", "wait", "ackWait", "overdue"}]
        /\ \A s \in Sides : s # p => wpc'[s] = wpc[s]
    BY <1>1 DEF Write, Continue, Typed, TypeOK
  <2> QED BY <2>1, <2>2, <2>3
<1>2. CASE WriteFails(p)
  <2>1. DetachTransport(p, wconn[p])
    BY <1>2 DEF WriteFails
  <2>2. /\ pipe' \in [Transports -> [Sides -> Seq(Frame)]]
        /\ wpc' \in [Sides -> {"top", "parked", "next", "wait", "ackWait", "overdue"}]
        /\ \A s \in Sides : s # p => wpc'[s] = wpc[s]
    BY <1>2 DEF WriteFails, Typed, TypeOK
  <2> QED BY <2>1, <2>2, DetachTyped
<1> QED BY <1>1, <1>2

(* wait() falls asleep. *)
LEMMA SleepTyped ==
    ASSUME Typed, NEW p \in Sides, NextAckWait(p)
    PROVE  /\ wpc' \in [Sides -> {"top", "parked", "next", "wait", "ackWait", "overdue"}]
           /\ ack' \in [Sides -> {"idle", "delayed", "due"}]
           /\ \A s \in Sides : s # p => wpc'[s] = wpc[s]
<1>1. /\ wpc \in [Sides -> {"top", "parked", "next", "wait", "ackWait", "overdue"}]
      /\ ack \in [Sides -> {"idle", "delayed", "due"}]
  BY DEF Typed, TypeOK
<1>2. /\ wpc' \in [Sides -> {"top", "parked", "next", "wait", "ackWait", "overdue"}]
      /\ \A s \in Sides : s # p => wpc'[s] = wpc[s]
  BY <1>1 DEF NextAckWait
<1>3. ack' \in [Sides -> {"idle", "delayed", "due"}]
  BY <1>1 DEF NextAckWait
<1> QED BY <1>2, <1>3

(* So does staging a frame ... *)
LEMMA StageTyped ==
    ASSUME Typed, NEW p \in Sides, Stage(p)
    PROVE  /\ nextSend' \in [Sides -> Nat]
           /\ kept' \in [Sides -> SUBSET Nat]
           /\ held' \in [Sides -> BOOLEAN]
<1>1. /\ nextSend \in [Sides -> Nat]
      /\ kept \in [Sides -> SUBSET Nat]
      /\ held \in [Sides -> BOOLEAN]
  BY DEF Typed, TypeOK
<1>2. CASE HasRoom(p)
  <2>1. /\ nextSend' = [nextSend EXCEPT ![p] = nextSend[p] + 1]
        /\ kept' = [kept EXCEPT ![p] = kept[p] \cup {nextSend[p] + 1}]
        /\ held' = [held EXCEPT ![p] = FALSE]
    BY <1>2 DEF Stage
  <2>2. kept[p] \cup {nextSend[p] + 1} \in SUBSET Nat
    BY <1>1
  <2> QED BY <1>1, <2>1, <2>2
<1>3. CASE ~HasRoom(p)
  BY <1>1, <1>3 DEF Stage
<1> QED BY <1>2, <1>3

(* ... and writing it. *)
LEMMA LiveTyped ==
    ASSUME Typed, NEW p \in Sides, wpc[p] \in {"next", "wait", "ackWait", "overdue"}, WriteLive(p)
    PROVE  /\ conn' \in [Sides -> Transports \cup {None}]
           /\ \A s \in Sides : conn'[s] <= ntrans
           /\ live' \in [Transports -> BOOLEAN]
           /\ notify' \in [Sides -> BOOLEAN]
           /\ starting' \in Nat
           /\ pipe' \in [Transports -> [Sides -> Seq(Frame)]]
           /\ wpc' \in [Sides -> {"top", "parked", "next", "wait", "ackWait", "overdue"}]
           /\ \A s \in Sides : s # p => wpc'[s] = wpc[s]
           /\ nextSend' \in [Sides -> Nat]
           /\ kept' \in [Sides -> SUBSET Nat]
           /\ held' \in [Sides -> BOOLEAN]
           /\ lastSent' \in [Sides -> Nat]
<1>1. Stage(p)
  BY DEF WriteLive
<1>2. nextSend[p] + 1 \in Nat /\ Data(nextSend[p] + 1) \in Frame
  BY DEF Data, Frame, Typed, TypeOK
<1>3. lastSent' \in [Sides -> Nat]
  <2>1. lastSent \in [Sides -> Nat]
    BY DEF Typed, TypeOK
  <2>2. lastSent' = lastSent \/ lastSent' = [lastSent EXCEPT ![p] = nextSend[p] + 1]
    BY DEF WriteLive
  <2> QED BY <1>2, <2>1, <2>2
<1>4. CASE nextSend[p] + 1 <= lastSent[p]
  <2>1. Continue(p) /\ UNCHANGED <<conn, live, notify, starting, pipe>>
    BY <1>4 DEF WriteLive
  <2>2. /\ wpc' \in [Sides -> {"top", "parked", "next", "wait", "ackWait", "overdue"}]
        /\ \A s \in Sides : s # p => wpc'[s] = wpc[s]
    BY <2>1 DEF Continue, Typed, TypeOK
  <2>3. /\ conn' \in [Sides -> Transports \cup {None}]
        /\ \A s \in Sides : conn'[s] <= ntrans
        /\ live' \in [Transports -> BOOLEAN]
        /\ notify' \in [Sides -> BOOLEAN]
        /\ starting' \in Nat
        /\ pipe' \in [Transports -> [Sides -> Seq(Frame)]]
    BY <2>1 DEF Typed, TypeOK, TransportsDialed
  <2> QED BY <1>1, <1>3, <2>2, <2>3, StageTyped
<1>5. CASE ~(nextSend[p] + 1 <= lastSent[p])
  <2>1. Write(p, Data(nextSend[p] + 1)) \/ WriteFails(p)
    BY <1>5 DEF WriteLive
  <2> QED BY <1>1, <1>2, <1>3, <2>1, StageTyped, WriteTyped
<1> QED BY <1>4, <1>5

(* Every step of a writer that needs no new frame keeps the types. *)
LEMMA WriterTyped ==
    ASSUME Typed, NEW p \in Sides, WriterStep(p)
    PROVE  Typed'
<1> USE DEF connVars, sendVars, recvVars, ackVars, writerVars, readerVars, loopVars,
            serverVars, netVars
<1>1. CASE WriterAttach(p)
  <2>1. conn[p] \in Transports /\ conn[p] <= ntrans /\ nextSend[p] \in Nat
    BY <1>1 DEF WriterAttach, Typed, TypeOK, TransportsDialed, None
  <2>2. ResumeSeq(p) \in Nat
    BY <2>1 DEF ResumeSeq, Typed, TypeOK
  <2>3. MinOf(ResumeSeq(p), nextSend[p]) \in Nat
    BY <2>1, <2>2 DEF MinOf
  <2>4. lastAcked' \in [Sides -> Nat] /\ kept' \in [Sides -> SUBSET Nat]
    BY <1>1, <2>3 DEF WriterAttach, ReplayAck, MaxOf, Typed, TypeOK
  <2>5. resume' \in [Sides -> SUBSET Nat] /\ lastSent' \in [Sides -> Nat]
    BY <1>1, <2>3 DEF WriterAttach, SnapshotFrom, Typed, TypeOK
  <2>6. /\ wconn' \in [Sides -> Transports \cup {None}]
        /\ \A s \in Sides : wconn'[s] <= ntrans
        /\ wpc' \in [Sides -> {"top", "parked", "next", "wait", "ackWait", "overdue"}]
        /\ \A s \in Sides : wpc'[s] \in {"next", "wait", "ackWait", "overdue"} => wconn'[s] # None
    BY <1>1, <2>1 DEF WriterAttach, Typed, TypeOK, TransportsDialed, None, Transports
  <2> QED
    BY <1>1, <2>4, <2>5, <2>6 DEF WriterAttach, Typed, TypeOK, TransportsDialed
<1>2. CASE WriterPark(p)
  BY <1>2 DEF WriterPark, Typed, TypeOK, TransportsDialed
<1>3. CASE WriterWake(p)
  <2>1. notify' \in [Sides -> BOOLEAN]
    BY <1>3 DEF WriterWake, Typed, TypeOK
  <2>2. /\ wpc' \in [Sides -> {"top", "parked", "next", "wait", "ackWait", "overdue"}]
        /\ \A s \in Sides : wpc'[s] \in {"next", "wait", "ackWait", "overdue"} => wconn[s] # None
    <3>1. /\ wpc \in [Sides -> {"top", "parked", "next", "wait", "ackWait", "overdue"}]
          /\ \A s \in Sides : wpc[s] \in {"next", "wait", "ackWait", "overdue"} => wconn[s] # None
      BY DEF Typed, TypeOK, TransportsDialed
    <3> QED BY <1>3, <3>1 DEF WriterWake
  <2> QED
    BY <1>3, <2>1, <2>2 DEF WriterWake, Typed, TypeOK, TransportsDialed
<1>4. CASE WriterLeave(p)
  BY <1>4 DEF WriterLeave, Typed, TypeOK, TransportsDialed
<1>5. CASE WriteAck(p)
  <2>1. /\ wpc[p] \in {"next", "wait", "ackWait", "overdue"}
        /\ Ack(lastRecv[p]) \in Frame
    BY <1>5 DEF WriteAck, Ack, Frame, Typed, TypeOK
  <2>2. Write(p, Ack(lastRecv[p])) \/ WriteFails(p)
    BY <1>5 DEF WriteAck
  <2>3. /\ lastAckSent' \in [Sides -> Nat]
        /\ ackPending' \in [Sides -> Nat]
        /\ ack' \in [Sides -> {"idle", "delayed", "due"}]
    BY <1>5 DEF WriteAck, TakeAck, Typed, TypeOK
  <2>4. wconn[p] # None
    BY <2>1 DEF Typed, TransportsDialed
  <2> HIDE DEF Ack
  <2> QED
    BY <1>5, <2>1, <2>2, <2>3, <2>4, WriteTyped DEF WriteAck, Typed, TypeOK, TransportsDialed
<1>6. CASE WriteResume(p)
  <2>1. PICK f \in resume[p] :
          /\ resume' = [resume EXCEPT ![p] = resume[p] \ {f}]
          /\ IF f <= MaxOf(lastSent[p], lastAcked[p])
             THEN Continue(p) /\ UNCHANGED <<lastSent, conn, live, notify, starting, pipe>>
             ELSE \/ Write(p, Data(f)) /\ lastSent' = [lastSent EXCEPT ![p] = f]
                  \/ WriteFails(p) /\ UNCHANGED lastSent
    BY <1>6 DEF WriteResume
  <2>2. /\ wpc[p] \in {"next", "wait", "ackWait", "overdue"} /\ wconn[p] # None
        /\ f \in Nat /\ Data(f) \in Frame
    BY <1>6 DEF WriteResume, Data, Frame, Typed, TypeOK, TransportsDialed
  <2>3. resume' \in [Sides -> SUBSET Nat]
    BY <2>1 DEF Typed, TypeOK
  <2>4. CASE f <= MaxOf(lastSent[p], lastAcked[p])
    <3>1. Continue(p) /\ UNCHANGED <<lastSent, conn, live, notify, starting, pipe>>
      BY <2>1, <2>4
    <3>2. /\ wpc' \in [Sides -> {"top", "parked", "next", "wait", "ackWait", "overdue"}]
          /\ \A s \in Sides : s # p => wpc'[s] = wpc[s]
      BY <3>1 DEF Continue, Typed, TypeOK
    <3> QED
      BY <1>6, <2>2, <2>3, <3>1, <3>2 DEF WriteResume, Typed, TypeOK, TransportsDialed
  <2>5. CASE ~(f <= MaxOf(lastSent[p], lastAcked[p]))
    <3>1. Write(p, Data(f)) \/ WriteFails(p)
      BY <2>1, <2>5
    <3>2. lastSent' \in [Sides -> Nat]
      BY <2>1, <2>2, <2>5 DEF Typed, TypeOK
    <3>3. UNCHANGED <<status, sendVars, recvVars, ackVars, wconn, held, readerVars,
                      loop, rechecking, dialing, serverVars, ntrans, failures>>
      BY <1>6 DEF WriteResume
    <3>4. /\ conn' \in [Sides -> Transports \cup {None}]
          /\ \A s \in Sides : conn'[s] <= ntrans
          /\ live' \in [Transports -> BOOLEAN]
          /\ notify' \in [Sides -> BOOLEAN]
          /\ starting' \in Nat
          /\ pipe' \in [Transports -> [Sides -> Seq(Frame)]]
          /\ wpc' \in [Sides -> {"top", "parked", "next", "wait", "ackWait", "overdue"}]
          /\ \A s \in Sides : s # p => wpc'[s] = wpc[s]
      BY <2>2, <3>1, WriteTyped
    <3> QED
      BY <2>2, <2>3, <3>2, <3>3, <3>4 DEF Typed, TypeOK, TransportsDialed
  <2> QED BY <2>4, <2>5
<1>7. CASE WriteNextLive(p)
  <2>1. wpc[p] \in {"next", "wait", "ackWait", "overdue"} /\ wconn[p] # None /\ WriteLive(p)
    BY <1>7 DEF WriteNextLive, Typed, TransportsDialed
  <2> QED
    BY <1>7, <2>1, LiveTyped DEF WriteNextLive, Typed, TypeOK, TransportsDialed
<1>8. CASE WriterIdle(p)
  <2>1. wpc[p] \in {"next", "wait", "ackWait", "overdue"} /\ wconn[p] # None
    BY <1>8 DEF WriterIdle, Typed, TransportsDialed
  <2>2. Stage(p) \/ UNCHANGED <<nextSend, kept, held>>
    BY <1>8 DEF WriterIdle
  <2>3. /\ nextSend' \in [Sides -> Nat]
        /\ kept' \in [Sides -> SUBSET Nat]
        /\ held' \in [Sides -> BOOLEAN]
    <3>1. CASE Stage(p)
      BY <3>1, StageTyped
    <3>2. CASE UNCHANGED <<nextSend, kept, held>>
      BY <3>2 DEF Typed, TypeOK
    <3> QED BY <2>2, <3>1, <3>2
  <2>4. CASE WriteFails(p)
    <3>1. Ack(0) \in Frame
      BY DEF Ack, Frame
    <3>2. ack' \in [Sides -> {"idle", "delayed", "due"}]
      BY <1>8, SleepTyped DEF WriterIdle, Typed, TypeOK
    <3> QED
      BY <1>8, <2>1, <2>3, <2>4, <3>1, <3>2, WriteTyped, ZenonT(60)
         DEF WriterIdle, Typed, TypeOK, TransportsDialed
  <2>5. CASE ~WriteFails(p)
    <3>1. NextAckWait(p) /\ UNCHANGED <<conn, live, notify, starting, pipe>>
      BY <1>8, <2>5 DEF WriterIdle
    <3>2. /\ wpc' \in [Sides -> {"top", "parked", "next", "wait", "ackWait", "overdue"}]
          /\ ack' \in [Sides -> {"idle", "delayed", "due"}]
          /\ \A s \in Sides : s # p => wpc'[s] = wpc[s]
      BY <3>1, SleepTyped
    <3> QED
      BY <1>8, <2>1, <2>3, <3>1, <3>2 DEF WriterIdle, Typed, TypeOK, TransportsDialed
  <2> QED BY <2>4, <2>5
<1>9. CASE AckTimeout(p)
  BY <1>9 DEF AckTimeout, Continue, Typed, TypeOK, TransportsDialed
<1> QED
  BY <1>1, <1>2, <1>3, <1>4, <1>5, <1>6, <1>7, <1>8, <1>9 DEF WriterStep

(* So do the writer's steps that take a new frame, and heartbeats. *)
LEMMA SendTyped ==
    ASSUME Typed, NEW p \in Sides, SendStep(p) \/ Heartbeat(p)
    PROVE  Typed'
<1> USE DEF connVars, sendVars, recvVars, ackVars, writerVars, readerVars, loopVars,
            serverVars, netVars
<1>1. CASE StageWhileDetached(p)
  <2>1. Stage(p) /\ wpc' = [wpc EXCEPT ![p] = "top"]
    BY <1>1 DEF StageWhileDetached
  <2>2. /\ nextSend' \in [Sides -> Nat]
        /\ kept' \in [Sides -> SUBSET Nat]
        /\ held' \in [Sides -> BOOLEAN]
    BY <2>1, StageTyped
  <2>3. /\ wpc' \in [Sides -> {"top", "parked", "next", "wait", "ackWait", "overdue"}]
        /\ \A s \in Sides : wpc'[s] \in {"next", "wait", "ackWait", "overdue"} => wpc'[s] = wpc[s]
    BY <2>1 DEF Typed, TypeOK
  <2> QED
    BY <1>1, <2>2, <2>3 DEF StageWhileDetached, Typed, TypeOK, TransportsDialed
<1>2. CASE WaitLive(p)
  <2>1. wpc[p] \in {"next", "wait", "ackWait", "overdue"} /\ wconn[p] # None /\ WriteLive(p)
    BY <1>2 DEF WaitLive, Typed, TransportsDialed
  <2> QED
    BY <1>2, <2>1, LiveTyped DEF WaitLive, Typed, TypeOK, TransportsDialed
<1>3. CASE WaitHold(p)
  <2>1. wpc[p] \in {"next", "wait", "ackWait", "overdue"} /\ wconn[p] # None /\ Stage(p) /\ Continue(p)
    BY <1>3 DEF WaitHold, Typed, TransportsDialed
  <2>2. /\ wpc' \in [Sides -> {"top", "parked", "next", "wait", "ackWait", "overdue"}]
        /\ \A s \in Sides : s # p => wpc'[s] = wpc[s]
    BY <2>1 DEF Continue, Typed, TypeOK
  <2> QED
    BY <1>3, <2>1, <2>2, StageTyped DEF WaitHold, Typed, TypeOK, TransportsDialed
<1>4. CASE Heartbeat(p)
  <2>1. wpc[p] \in {"next", "wait", "ackWait", "overdue"} /\ wconn[p] # None /\ Ack(0) \in Frame
    BY <1>4 DEF Heartbeat, Typed, TransportsDialed, Ack, Frame
  <2>2. CASE WriteFails(p)
    BY <1>4, <2>1, <2>2, WriteTyped DEF Heartbeat, Typed, TypeOK, TransportsDialed
  <2>3. CASE ~WriteFails(p)
    <3>1. Continue(p) /\ UNCHANGED <<conn, live, notify, starting, pipe>>
      BY <1>4, <2>3 DEF Heartbeat
    <3>2. /\ wpc' \in [Sides -> {"top", "parked", "next", "wait", "ackWait", "overdue"}]
          /\ \A s \in Sides : s # p => wpc'[s] = wpc[s]
      BY <3>1 DEF Continue, Typed, TypeOK
    <3> QED
      BY <1>4, <2>1, <3>1, <3>2 DEF Heartbeat, Typed, TypeOK, TransportsDialed
  <2> QED BY <2>2, <2>3
<1> QED BY <1>1, <1>2, <1>3, <1>4 DEF SendStep

(* What the reader takes off a transport is a frame. *)
LEMMA ReceiveTyped ==
    ASSUME Typed, NEW p \in Sides, Receive(p)
    PROVE  /\ rconn[p] \in Transports
           /\ Head(Incoming(p)) \in Frame
           /\ Head(Incoming(p)).seq \in Nat
           /\ pipe' \in [Transports -> [Sides -> Seq(Frame)]]
           /\ rpc' \in [Sides -> {"wait", "read"}]
           /\ \A s \in Sides : rpc'[s] = "read" => rpc[s] = "read"
<1>1. /\ rpc[p] = "read" /\ Incoming(p) # <<>>
      /\ pipe' = [pipe EXCEPT ![rconn[p]][p] = Tail(@)]
      /\ rpc' = [rpc EXCEPT ![p] = IF conn[p] = rconn[p] THEN "read" ELSE "wait"]
  BY DEF Receive
<1>2. rconn[p] \in Transports /\ pipe \in [Transports -> [Sides -> Seq(Frame)]]
  BY <1>1 DEF Typed, TypeOK, TransportsDialed
<1>3. Incoming(p) \in Seq(Frame)
  BY <1>2 DEF Incoming
<1>4. Head(Incoming(p)) \in Frame /\ Tail(Incoming(p)) \in Seq(Frame)
  BY <1>1, <1>3
<1>5. Head(Incoming(p)).seq \in Nat
  BY <1>4 DEF Frame
<1>6. pipe' \in [Transports -> [Sides -> Seq(Frame)]]
  BY <1>1, <1>2, <1>4 DEF Incoming
<1>7. rpc \in [Sides -> {"wait", "read"}]
  BY DEF Typed, TypeOK
<1>8. /\ rpc' \in [Sides -> {"wait", "read"}]
      /\ \A s \in Sides : rpc'[s] = "read" => rpc[s] = "read"
  BY <1>1, <1>7
<1> QED BY <1>2, <1>4, <1>5, <1>6, <1>8

(* Every step of a reader keeps the types. *)
LEMMA ReaderTyped ==
    ASSUME Typed, NEW p \in Sides, ReaderStep(p)
    PROVE  Typed'
<1> USE DEF connVars, sendVars, recvVars, ackVars, writerVars, readerVars, loopVars,
            serverVars, netVars
<1>1. CASE ReaderPick(p)
  BY <1>1 DEF ReaderPick, Typed, TypeOK, TransportsDialed, None
<1>2. CASE ReadData(p)
  <2> DEFINE n == Head(Incoming(p)).seq
  <2>0. Receive(p)
    BY <1>2 DEF ReadData
  <2>1. n \in Nat /\ lastRecv[p] \in Nat
    BY <2>0, ReceiveTyped DEF Typed, TypeOK
  <2>2. UNCHANGED <<sendVars, writerVars, rconn, loopVars, serverVars, ntrans, failures>>
    BY <1>2 DEF ReadData
  <2>3. /\ pipe' \in [Transports -> [Sides -> Seq(Frame)]]
        /\ rpc' \in [Sides -> {"wait", "read"}]
        /\ \A s \in Sides : rpc'[s] = "read" => rpc[s] = "read"
    BY <2>0, ReceiveTyped
  <2>4. CASE n <= lastRecv[p]
    <3>1. NoteDuplicate(p) /\ UNCHANGED <<conn, status, live, delivered>>
      BY <1>2, <2>1, <2>4 DEF ReadData
    <3>2. ack' \in [Sides -> {"idle", "delayed", "due"}]
      BY <3>1 DEF NoteDuplicate, Typed, TypeOK
    <3>3. notify' \in [Sides -> BOOLEAN]
      BY <3>1 DEF NoteDuplicate, SignalSend, Typed, TypeOK
    <3> QED
      BY <2>2, <2>3, <3>1, <3>2, <3>3 DEF NoteDuplicate, Typed, TypeOK, TransportsDialed
  <2>5. CASE n = lastRecv[p] + 1
    <3>1. /\ NoteReceived(p, n) /\ UNCHANGED <<conn, status, live>>
          /\ delivered' = [delivered EXCEPT ![p] = Append(@, n)]
      BY <1>2, <2>1, <2>5 DEF ReadData
    <3>2. delivered' \in [Sides -> Seq(Nat)]
      <4>1. delivered[p] \in Seq(Nat) /\ delivered \in [Sides -> Seq(Nat)]
        BY DEF Typed, TypeOK
      <4>2. Append(delivered[p], n) \in Seq(Nat)
        BY <2>1, <4>1
      <4> QED BY <3>1, <4>1, <4>2
    <3>3. /\ lastRecv' \in [Sides -> Nat]
          /\ ackPending' \in [Sides -> Nat]
          /\ ack' \in [Sides -> {"idle", "delayed", "due"}]
      <4>1. /\ lastRecv \in [Sides -> Nat] /\ ackPending \in [Sides -> Nat]
            /\ ack \in [Sides -> {"idle", "delayed", "due"}]
        BY DEF Typed, TypeOK
      <4>2. lastRecv' \in [Sides -> Nat]
        BY <2>1, <3>1, <4>1 DEF NoteReceived
      <4>3. ackPending' \in [Sides -> Nat]
        BY <3>1, <4>1 DEF NoteReceived
      <4>4. ack' \in [Sides -> {"idle", "delayed", "due"}]
        BY <3>1, <4>1 DEF NoteReceived
      <4> QED BY <4>2, <4>3, <4>4
    <3>4. notify' \in [Sides -> BOOLEAN]
      <4>1. notify \in [Sides -> BOOLEAN]
        BY DEF Typed, TypeOK
      <4> QED BY <3>1, <4>1 DEF NoteReceived
    <3> QED
      BY <2>2, <2>3, <3>1, <3>2, <3>3, <3>4 DEF NoteReceived, Typed, TypeOK, TransportsDialed
  <2>6. CASE n > lastRecv[p] + 1
    <3>1. MarkClosed(p, "gap") /\ UNCHANGED <<notify, lastRecv, delivered, ackVars>>
      BY <1>2, <2>1, <2>6 DEF ReadData
    <3>2. /\ status' \in [Sides -> {"open", "expired", "rejected", "gap"}]
          /\ conn' \in [Sides -> Transports \cup {None}]
          /\ \A s \in Sides : conn'[s] <= ntrans
      BY <3>1 DEF MarkClosed, Typed, TypeOK, TransportsDialed, None, Transports
    <3>3. live' \in [Transports -> BOOLEAN]
      BY <3>1 DEF MarkClosed, Typed, TypeOK
    <3> QED
      BY <2>2, <2>3, <3>1, <3>2, <3>3 DEF Typed, TypeOK, TransportsDialed
  <2> QED BY <2>1, <2>4, <2>5, <2>6
<1>3. CASE ReadAck(p)
  <2>1. Receive(p) /\ ReplayAck(p, Head(Incoming(p)).seq) /\ SignalSend(p)
    BY <1>3 DEF ReadAck
  <2>2. /\ Head(Incoming(p)).seq \in Nat
        /\ pipe' \in [Transports -> [Sides -> Seq(Frame)]]
        /\ rpc' \in [Sides -> {"wait", "read"}]
        /\ \A s \in Sides : rpc'[s] = "read" => rpc[s] = "read"
    BY <2>1, ReceiveTyped
  <2>3. lastAcked' \in [Sides -> Nat] /\ kept' \in [Sides -> SUBSET Nat]
    BY <2>1, <2>2 DEF ReplayAck, MaxOf, Typed, TypeOK
  <2>4. notify' \in [Sides -> BOOLEAN]
    BY <2>1 DEF SignalSend, Typed, TypeOK
  <2> QED
    BY <1>3, <2>2, <2>3, <2>4 DEF ReadAck, Typed, TypeOK, TransportsDialed
<1>4. CASE ReadError(p)
  <2>1. DetachTransport(p, rconn[p])
    BY <1>4 DEF ReadError
  <2>2. /\ pipe' \in [Transports -> [Sides -> Seq(Frame)]]
        /\ rpc' \in [Sides -> {"wait", "read"}]
        /\ \A s \in Sides : rpc'[s] = "read" => rpc[s] = "read"
    <3>1. /\ pipe \in [Transports -> [Sides -> Seq(Frame)]]
          /\ rpc \in [Sides -> {"wait", "read"}]
      BY DEF Typed, TypeOK
    <3>2. /\ pipe' = [pipe EXCEPT ![rconn[p]][p] = <<>>]
          /\ rpc' = [rpc EXCEPT ![p] = "wait"]
      BY <1>4 DEF ReadError
    <3>3. <<>> \in Seq(Frame)
      OBVIOUS
    <3> QED BY <3>1, <3>2, <3>3
  <2> QED
    BY <1>4, <2>1, <2>2, DetachTyped DEF ReadError, Typed, TypeOK, TransportsDialed
<1> QED BY <1>1, <1>2, <1>3, <1>4 DEF ReaderStep

(* Every step of the reconnect loops, of the server and of the network     *)
(* keeps the types.                                                        *)
LEMMA LoopTyped ==
    ASSUME Typed, LoopStep \/ ResumeTimeout
    PROVE  Typed'
<1> USE DEF connVars, sendVars, recvVars, ackVars, writerVars, readerVars, loopVars,
            serverVars, netVars
<1>1. CASE LoopStart
  <2>1. starting' \in Nat /\ loop' \in {"off", "dial", "attached"}
    BY <1>1 DEF LoopStart, Typed, TypeOK
  <2> QED BY <1>1, <2>1 DEF LoopStart, Typed, TypeOK, TransportsDialed
<1>2. CASE Dial
  <2>1. /\ ntrans + 1 \in Transports /\ ntrans' = ntrans + 1 /\ dialing' = ntrans + 1
        /\ ntrans \in Nat /\ ntrans' > ntrans
    BY <1>2, ConstantsAssumption DEF Dial, Typed, TypeOK, Transports
  <2>2. live' \in [Transports -> BOOLEAN]
    BY <1>2 DEF Dial, Typed, TypeOK
  <2>3. /\ req' \in [Transports -> Nat]
        /\ handler' \in [Transports -> {"none", "asked", "answered", "done", "failed", "rejected"}]
    BY <1>2 DEF Dial, Typed, TypeOK, Sides
  <2>4. TransportsDialed'
    <3>1. /\ \A s \in Sides : conn[s] <= ntrans' /\ wconn[s] <= ntrans' /\ rconn[s] <= ntrans'
      <4>1. ntrans \in Nat /\ ntrans' = ntrans + 1
        BY <2>1
      <4>2. \A s \in Sides : /\ conn[s] \in Int /\ wconn[s] \in Int /\ rconn[s] \in Int
                            /\ conn[s] <= ntrans /\ wconn[s] <= ntrans /\ rconn[s] <= ntrans
        BY DEF Typed, TypeOK, TransportsDialed, Transports, None
      <4> QED BY <4>1, <4>2
    <3>2. \A t \in Transports : handler'[t] # "none" => t <= ntrans'
      BY <1>2, <2>1 DEF Dial, Typed, TypeOK, TransportsDialed, Transports
    <3> QED
      BY <1>2, <2>1, <3>1, <3>2 DEF Dial, Typed, TransportsDialed
  <2> QED
    BY <1>2, <2>1, <2>2, <2>3, <2>4, ZenonT(60) DEF Dial, Typed, TypeOK
<1>3. CASE ClientAttach
  <2>1. AttachTransport("client", dialing) /\ dialing \in Transports /\ dialing <= ntrans
    BY <1>3 DEF ClientAttach, Typed, TypeOK, TransportsDialed
  <2>2. /\ conn' \in [Sides -> Transports \cup {None}]
        /\ \A s \in Sides : conn'[s] <= ntrans
    BY <2>1 DEF AttachTransport, Typed, TypeOK, TransportsDialed
  <2>3. live' \in [Transports -> BOOLEAN] /\ notify' \in [Sides -> BOOLEAN]
    BY <2>1 DEF AttachTransport, SignalSend, Typed, TypeOK
  <2>4. None <= ntrans
    BY DEF Typed, TypeOK, Transports, None
  <2> QED
    BY <1>3, <2>2, <2>3, <2>4 DEF ClientAttach, Typed, TypeOK, TransportsDialed
<1>4. CASE ClientRejected
  <2>1. MarkClosed("client", "rejected")
    BY <1>4 DEF ClientRejected
  <2>2. None <= ntrans /\ "client" \in Sides
    BY DEF Typed, TypeOK, Transports, None, Sides
  <2>3. /\ status' \in [Sides -> {"open", "expired", "rejected", "gap"}]
        /\ conn' \in [Sides -> Transports \cup {None}]
        /\ \A s \in Sides : conn'[s] <= ntrans
    BY <2>1, <2>2 DEF MarkClosed, Typed, TypeOK, TransportsDialed
  <2>4. live' \in [Transports -> BOOLEAN]
    BY <2>1 DEF MarkClosed, Typed, TypeOK
  <2> QED
    BY <1>4, <2>2, <2>3, <2>4 DEF ClientRejected, Typed, TypeOK, TransportsDialed
<1>5. CASE ResumeFails
  <2>1. None <= ntrans
    BY DEF Typed, TypeOK, Transports, None
  <2> QED BY <1>5, <2>1 DEF ResumeFails, Typed, TypeOK, TransportsDialed
<1>6. CASE LoopRelease
  BY <1>6 DEF LoopRelease, Typed, TypeOK, TransportsDialed
<1>7. CASE LoopRecheck
  <2>1. starting' \in Nat /\ rechecking' \in Nat
    BY <1>7 DEF LoopRecheck, Typed, TypeOK
  <2> QED BY <1>7, <2>1 DEF LoopRecheck, Typed, TypeOK, TransportsDialed
<1>8. CASE ResumeTimeout
  <2>1. None <= ntrans
    BY DEF Typed, TypeOK, Transports, None
  <2>2. live' \in [Transports -> BOOLEAN] /\ failures' \in Nat
    BY <1>8 DEF ResumeTimeout, Typed, TypeOK
  <2> QED BY <1>8, <2>1, <2>2 DEF ResumeTimeout, Typed, TypeOK, TransportsDialed
<1> QED
  BY <1>1, <1>2, <1>3, <1>4, <1>5, <1>6, <1>7, <1>8 DEF LoopStep

(* The server's handlers, its expiry timer and the network keep the types. *)
LEMMA ServerTyped ==
    ASSUME Typed, ServerStep \/ Expire \/ \E t \in Transports : Break(t)
    PROVE  Typed'
<1> USE DEF connVars, sendVars, recvVars, ackVars, writerVars, readerVars, loopVars,
            serverVars, netVars
<1>1. ASSUME NEW t \in Transports, ServerAnswer(t)
      PROVE  Typed'
  <2>1. /\ handler' \in [Transports -> {"none", "asked", "answered", "done", "failed", "rejected"}]
        /\ resp' \in [Transports -> Nat]
        /\ \A u \in Transports : handler'[u] # "none" => handler[u] # "none"
    BY <1>1 DEF ServerAnswer, LastReceived, Typed, TypeOK, Sides
  <2> QED BY <1>1, <2>1 DEF ServerAnswer, Typed, TypeOK, TransportsDialed
<1>2. ASSUME NEW t \in Transports, ServerAttach(t)
      PROVE  Typed'
  <2>1. /\ handler' \in [Transports -> {"none", "asked", "answered", "done", "failed", "rejected"}]
        /\ \A u \in Transports : handler'[u] # "none" => handler[u] # "none"
        /\ t <= ntrans
    BY <1>2 DEF ServerAttach, Typed, TypeOK, TransportsDialed
  <2>2. CASE AttachTransport("server", t)
    <3>1. /\ conn' \in [Sides -> Transports \cup {None}]
          /\ \A s \in Sides : conn'[s] <= ntrans
      BY <2>1, <2>2 DEF AttachTransport, Typed, TypeOK, TransportsDialed
    <3>2. live' \in [Transports -> BOOLEAN] /\ notify' \in [Sides -> BOOLEAN]
      BY <2>2 DEF AttachTransport, SignalSend, Typed, TypeOK
    <3> QED
      BY <1>2, <2>1, <3>1, <3>2 DEF ServerAttach, Typed, TypeOK, TransportsDialed
  <2>3. CASE live' = [live EXCEPT ![t] = FALSE] /\ UNCHANGED <<conn, notify>>
    <3>1. live' \in [Transports -> BOOLEAN]
      BY <2>3 DEF Typed, TypeOK
    <3> QED
      BY <1>2, <2>1, <2>3, <3>1 DEF ServerAttach, Typed, TypeOK, TransportsDialed
  <2> QED BY <1>2, <2>2, <2>3 DEF ServerAttach
<1>3. CASE Expire
  <2>1. MarkClosed("server", "expired")
    BY <1>3 DEF Expire
  <2>2. None <= ntrans
    BY DEF Typed, TypeOK, Transports, None
  <2>3. /\ status' \in [Sides -> {"open", "expired", "rejected", "gap"}]
        /\ conn' \in [Sides -> Transports \cup {None}]
        /\ \A s \in Sides : conn'[s] <= ntrans
    BY <2>1, <2>2 DEF MarkClosed, Typed, TypeOK, TransportsDialed
  <2>4. live' \in [Transports -> BOOLEAN] /\ failures' \in Nat
    BY <1>3, <2>1 DEF Expire, MarkClosed, Typed, TypeOK
  <2> QED
    BY <1>3, <2>3, <2>4 DEF Expire, Typed, TypeOK, TransportsDialed
<1>4. ASSUME NEW t \in Transports, Break(t)
      PROVE  Typed'
  <2>1. live' \in [Transports -> BOOLEAN] /\ failures' \in Nat
    BY <1>4 DEF Break, Typed, TypeOK
  <2> QED BY <1>4, <2>1 DEF Break, Typed, TypeOK, TransportsDialed
<1> QED BY <1>1, <1>2, <1>3, <1>4 DEF ServerStep

(* Every step keeps the types. *)
LEMMA NextTyped == Typed /\ [Next]_vars => Typed'
BY StutterTyped, WriterTyped, SendTyped, ReaderTyped, LoopTyped, ServerTyped DEF Next

(* TypeOK is an invariant of the session, whatever the constants are. *)
THEOREM TypesHold == Spec => []TypeOK
<1>1. Typed => TypeOK
  BY DEF Typed
<1> QED BY InitTyped, NextTyped, <1>1, PTL DEF Spec

-----------------------------------------------------------------------------
(* What the parts of the invariant say of one direction of one transport.  *)

(* A frame of a transport is a frame. *)
LEMMA PipeFrames ==
    ASSUME NEW w \in Seq(Frame), NEW i \in 1..Len(w)
    PROVE  w[i] \in Frame /\ w[i].seq \in Nat /\ w[i].kind \in {"data", "ack"}
<1>1. w[i] \in Frame
  OBVIOUS
<1> QED BY <1>1 DEF Frame

(* They stay true as more is received and sent. *)
LEMMA PipeMonotone ==
    ASSUME NEW w \in Seq(Frame), NEW r \in Nat, NEW n \in Nat,
           NEW r2 \in Nat, NEW n2 \in Nat, r <= r2, n <= n2
    PROVE  /\ Gapless(w, r, n) => Gapless(w, r2, n2)
           /\ TrueAcks(w, r) => TrueAcks(w, r2)
<1>1. \A i \in 1..Len(w) : w[i].seq \in Nat
  BY PipeFrames
<1>2. ASSUME Gapless(w, r, n) PROVE Gapless(w, r2, n2)
  BY <1>1, <1>2 DEF Gapless
<1>3. ASSUME TrueAcks(w, r) PROVE TrueAcks(w, r2)
  BY <1>1, <1>3 DEF TrueAcks
<1> QED BY <1>2, <1>3

(* They hold of a transport on which nothing is in flight. *)
LEMMA PipeEmpty ==
    ASSUME NEW r, NEW n
    PROVE  Gapless(<<>>, r, n) /\ TrueAcks(<<>>, r)
BY DEF Gapless, TrueAcks

(* Writing a frame keeps them if its predecessor is received or in flight. *)
LEMMA PipeAppend ==
    ASSUME NEW w \in Seq(Frame), NEW r \in Nat, NEW n \in Nat, NEW a \in Nat, NEW f \in Frame,
           Gapless(w, r, n), TrueAcks(w, a),
           f.kind = "data" => f.seq <= n /\ (f.seq <= r + 1 \/ InFlight(w, f.seq - 1)),
           f.kind = "ack" => f.seq <= a
    PROVE  /\ Gapless(Append(w, f), r, n)
           /\ TrueAcks(Append(w, f), a)
           /\ \A s : InFlight(w, s) => InFlight(Append(w, f), s)
           /\ \A s : f = Data(s) => InFlight(Append(w, f), s)
<1> DEFINE w2 == Append(w, f)
<1>1. /\ Len(w2) = Len(w) + 1 /\ Len(w) \in Nat
      /\ \A i \in 1..Len(w) : w2[i] = w[i]
      /\ w2[Len(w) + 1] = f
  OBVIOUS
<1> HIDE DEF w2
<1>2. Gapless(w2, r, n)
  <2> SUFFICES ASSUME NEW i \in 1..Len(w2), w2[i].kind = "data"
               PROVE  /\ w2[i].seq <= n
                      /\ \/ w2[i].seq <= r + 1
                         \/ \E j \in 1..(i - 1) : w2[j] = Data(w2[i].seq - 1)
    BY DEF Gapless
  <2>1. CASE i = Len(w) + 1
    BY <1>1, <2>1 DEF InFlight
  <2>2. CASE i \in 1..Len(w)
    <3>1. \A j \in 1..(i - 1) : w2[j] = w[j]
      BY <1>1, <2>2
    <3> QED BY <1>1, <2>2, <3>1 DEF Gapless
  <2> QED BY <1>1, <2>1, <2>2
<1>3. TrueAcks(w2, a)
  BY <1>1 DEF TrueAcks
<1>4. \A s : InFlight(w, s) => InFlight(w2, s)
  BY <1>1 DEF InFlight
<1>5. \A s : f = Data(s) => InFlight(w2, s)
  BY <1>1 DEF InFlight
<1> QED BY <1>2, <1>3, <1>4, <1>5 DEF w2

(* The next frame to read follows what was received, and reading it keeps  *)
(* the rest in order.                                                      *)
LEMMA PipeTail ==
    ASSUME NEW w \in Seq(Frame), w # <<>>, NEW r \in Nat, NEW n \in Nat, NEW a \in Nat,
           Gapless(w, r, n), TrueAcks(w, a)
    PROVE  /\ Head(w).kind = "data" => Head(w).seq <= n /\ Head(w).seq <= r + 1
           /\ Head(w).kind = "ack" => Head(w).seq <= a
           /\ TrueAcks(Tail(w), a)
           /\ \A s : InFlight(w, s) /\ Head(w) # Data(s) => InFlight(Tail(w), s)
           /\ \A r2 \in Nat : r <= r2 /\ (Head(w).kind = "data" => Head(w).seq <= r2)
                            => Gapless(Tail(w), r2, n)
<1> DEFINE w2 == Tail(w)
<1>1. /\ Len(w) \in Nat /\ Len(w) >= 1 /\ Len(w2) = Len(w) - 1
      /\ \A i \in 1..Len(w2) : w2[i] = w[i + 1]
      /\ Head(w) = w[1]
  OBVIOUS
<1>2. \A i \in 1..Len(w) : w[i].seq \in Nat
  BY PipeFrames
<1> HIDE DEF w2
<1>3. /\ Head(w).kind = "data" => Head(w).seq <= n /\ Head(w).seq <= r + 1
      /\ Head(w).kind = "ack" => Head(w).seq <= a
  <2>1. 1 \in 1..Len(w)
    BY <1>1
  <2>2. w[1].kind = "data" => w[1].seq <= n /\ w[1].seq <= r + 1
    BY <2>1 DEF Gapless
  <2>3. w[1].kind = "ack" => w[1].seq <= a
    BY <2>1 DEF TrueAcks
  <2> QED BY <1>1, <2>2, <2>3
<1>4. TrueAcks(w2, a)
  BY <1>1 DEF TrueAcks
<1>5. ASSUME NEW s, InFlight(w, s), Head(w) # Data(s) PROVE InFlight(w2, s)
  <2>1. PICK i \in 1..Len(w) : w[i] = Data(s)
    BY <1>5 DEF InFlight
  <2>2. i # 1 /\ i - 1 \in 1..Len(w2)
    BY <1>1, <1>5, <2>1
  <2>3. w2[i - 1] = Data(s)
    BY <1>1, <2>1, <2>2
  <2> QED BY <2>2, <2>3 DEF InFlight
<1>6. ASSUME NEW r2 \in Nat, r <= r2, Head(w).kind = "data" => Head(w).seq <= r2
      PROVE  Gapless(w2, r2, n)
  <2> SUFFICES ASSUME NEW i \in 1..Len(w2), w2[i].kind = "data"
               PROVE  /\ w2[i].seq <= n
                      /\ \/ w2[i].seq <= r2 + 1
                         \/ \E j \in 1..(i - 1) : w2[j] = Data(w2[i].seq - 1)
    BY DEF Gapless
  <2>1. w2[i] = w[i + 1] /\ i + 1 \in 1..Len(w) /\ w[i + 1].seq \in Nat
    BY <1>1, <1>2
  <2>2. w[i + 1].seq <= n
    BY <2>1 DEF Gapless
  <2>3. CASE w[i + 1].seq <= r + 1
    BY <1>6, <2>1, <2>2, <2>3
  <2>4. CASE \E j \in 1..i : w[j] = Data(w[i + 1].seq - 1)
    <3>1. PICK j \in 1..i : w[j] = Data(w[i + 1].seq - 1)
      BY <2>4
    <3>2. CASE j = 1
      <4>1. Head(w).kind = "data" /\ Head(w).seq = w[i + 1].seq - 1
        BY <1>1, <3>1, <3>2 DEF Data
      <4> QED BY <1>6, <2>1, <2>2, <4>1
    <3>3. CASE j # 1
      <4>1. j - 1 \in 1..(i - 1) /\ j - 1 \in 1..Len(w2)
        BY <1>1, <3>3
      <4>2. w2[j - 1] = w[(j - 1) + 1] /\ (j - 1) + 1 = j
        BY <1>1, <4>1
      <4>3. w2[j - 1] = Data(w2[i].seq - 1)
        BY <2>1, <3>1, <4>2
      <4> QED BY <2>1, <2>2, <4>1, <4>3
    <3> QED BY <3>2, <3>3
  <2>5. w[i + 1].seq <= r + 1 \/ \E j \in 1..((i + 1) - 1) : w[j] = Data(w[i + 1].seq - 1)
    BY <2>1 DEF Gapless
  <2> QED BY <2>3, <2>4, <2>5
<1> QED BY <1>3, <1>4, <1>5, <1>6 DEF w2

-----------------------------------------------------------------------------
(* The inductive invariant.                                                *)

(* The part that sequence numbers and transports determine. *)
CoreInv ==
    /\ InOrderOnce /\ PeerNeverAhead /\ KeptIsUnacked /\ AcksAreTrue
    /\ PipesAreGapless /\ LastSentArrives /\ ReplayFollowsSent

(* There are two sides, and each is the other's peer. *)
LEMMA PeerFacts ==
    ASSUME NEW p \in Sides
    PROVE  /\ Peer(p) \in Sides /\ Peer(p) # p /\ Peer(Peer(p)) = p
           /\ \A s \in Sides : s = p \/ s = Peer(p)
           /\ \A s \in Sides : (Peer(s) = p) <=> (s = Peer(p))
BY DEF Peer, Sides

(* The types that the arguments below use. *)
LEMMA CoreTypes ==
    ASSUME Typed
    PROVE  /\ \A s \in Sides : /\ nextSend[s] \in Nat /\ lastAcked[s] \in Nat
                              /\ lastRecv[s] \in Nat /\ lastSent[s] \in Nat
           /\ \A t \in Transports : req[t] \in Nat /\ resp[t] \in Nat
           /\ \A t \in Transports, s \in Sides : pipe[t][s] \in Seq(Frame)
           /\ \A s \in Sides : Writing(s) => wconn[s] \in Transports
           /\ nextSend \in [Sides -> Nat] /\ lastAcked \in [Sides -> Nat]
           /\ lastRecv \in [Sides -> Nat] /\ lastSent \in [Sides -> Nat]
           /\ pipe \in [Transports -> [Sides -> Seq(Frame)]]
BY DEF Typed, TypeOK, TransportsDialed, Writing

(* Nothing sent or received yet. *)
LEMMA InitCore == Init => CoreInv
<1> SUFFICES ASSUME Init PROVE CoreInv
  OBVIOUS
<1>1. InOrderOnce
  BY DEF Init, InitRest, InOrderOnce, Sides
<1>2. PeerNeverAhead /\ KeptIsUnacked
  BY DEF Init, InitRest, PeerNeverAhead, KeptIsUnacked, Sides, Peer
<1>3. AcksAreTrue /\ PipesAreGapless
  <2>1. \A t \in Transports, p \in Sides : pipe[t][p] = <<>>
    BY DEF Init, InitRest
  <2>2. \A t \in Transports : req[t] <= lastRecv["client"] /\ resp[t] <= lastRecv["server"]
    BY DEF Init, InitRest, Sides
  <2> QED BY <2>1, <2>2, PipeEmpty DEF AcksAreTrue, PipesAreGapless
<1>4. LastSentArrives /\ ReplayFollowsSent
  BY DEF Init, LastSentArrives, ReplayFollowsSent, Writing
<1> QED BY <1>1, <1>2, <1>3, <1>4 DEF CoreInv

(* Steps that touch no sequence number and no frame in flight: transports  *)
(* only die, and a writer goes to sleep only with nothing to replay.       *)
LEMMA QuietCore ==
    ASSUME Typed, CoreInv,
           UNCHANGED <<delivered, lastRecv, lastAcked, nextSend, kept, req, resp, pipe,
                       wconn, lastSent, resume>>,
           \A s \in Sides : Writing(s)' =>
               Writing(s) /\ (wpc'[s] # "next" => resume[s] = {}),
           \A s \in Sides : Writing(s) /\ live'[wconn[s]] => live[wconn[s]]
    PROVE  CoreInv'
<1>1. InOrderOnce' /\ PeerNeverAhead' /\ KeptIsUnacked'
  BY DEF CoreInv, InOrderOnce, PeerNeverAhead, KeptIsUnacked
<1>2. AcksAreTrue' /\ PipesAreGapless'
  BY DEF CoreInv, AcksAreTrue, PipesAreGapless
<1>3. LastSentArrives'
  BY DEF CoreInv, LastSentArrives
<1>4. ReplayFollowsSent'
  BY DEF CoreInv, ReplayFollowsSent
<1> QED BY <1>1, <1>2, <1>3, <1>4 DEF CoreInv

(* A write: the frame joins those in flight if the transport is live.      *)
(* nextSend may have grown for it, and lastSent is the frame's number.     *)
LEMMA WriteCore ==
    ASSUME Typed, CoreInv, NEW p \in Sides, NEW f \in Frame, Writing(p),
           pipe' = IF live[wconn[p]]
                   THEN [pipe EXCEPT ![wconn[p]][Peer(p)] = Append(@, f)]
                   ELSE pipe,
           UNCHANGED <<lastRecv, req, resp, wconn>>,
           nextSend' \in [Sides -> Nat],
           \A s \in Sides : nextSend[s] <= nextSend'[s],
           f.kind = "data" => /\ f.seq <= nextSend'[p]
                              /\ \/ f.seq <= lastRecv[Peer(p)] + 1
                                 \/ live[wconn[p]] => InFlight(pipe[wconn[p]][Peer(p)], f.seq - 1),
           f.kind = "ack" => f.seq <= lastRecv[p],
           \A s \in Sides : s # p => lastSent'[s] = lastSent[s],
           lastSent'[p] = lastSent[p] \/ f = Data(lastSent'[p]),
           \A s \in Sides : Writing(s)' => Writing(s),
           live' = live
    PROVE  AcksAreTrue' /\ PipesAreGapless' /\ LastSentArrives'
<1> DEFINE q == Peer(p)
           t == wconn[p]
           w == pipe[t][q]
<1>1. /\ q \in Sides /\ q # p /\ Peer(q) = p
      /\ \A s \in Sides : s = p \/ s = q
  BY PeerFacts
<1>2. /\ t \in Transports /\ w \in Seq(Frame)
      /\ lastRecv[p] \in Nat /\ lastRecv[q] \in Nat /\ nextSend[p] \in Nat /\ nextSend'[p] \in Nat
      /\ \A u \in Transports, s \in Sides : pipe[u][s] \in Seq(Frame)
      /\ \A s \in Sides : nextSend[s] \in Nat /\ nextSend'[s] \in Nat /\ lastRecv[s] \in Nat
      /\ pipe \in [Transports -> [Sides -> Seq(Frame)]]
  BY <1>1, CoreTypes
<1>3. \A u \in Transports, s \in Sides :
        /\ Gapless(pipe[u][s], lastRecv[s], nextSend'[Peer(s)])
        /\ TrueAcks(pipe[u][s], lastRecv[Peer(s)])
  <2> SUFFICES ASSUME NEW u \in Transports, NEW s \in Sides
               PROVE  /\ Gapless(pipe[u][s], lastRecv[s], nextSend'[Peer(s)])
                      /\ TrueAcks(pipe[u][s], lastRecv[Peer(s)])
    OBVIOUS
  <2>1. Peer(s) \in Sides
    BY PeerFacts
  <2>2. Gapless(pipe[u][s], lastRecv[s], nextSend[Peer(s)]) /\ TrueAcks(pipe[u][s], lastRecv[Peer(s)])
    BY DEF CoreInv, PipesAreGapless, AcksAreTrue
  <2>3. /\ pipe[u][s] \in Seq(Frame) /\ lastRecv[s] \in Nat
        /\ nextSend[Peer(s)] \in Nat /\ nextSend'[Peer(s)] \in Nat
    BY <1>2, <2>1
  <2>4. lastRecv[s] <= lastRecv[s]
    BY <2>3
  <2>5. nextSend[Peer(s)] <= nextSend'[Peer(s)]
    BY <2>1
  <2>6. Gapless(pipe[u][s], lastRecv[s], nextSend'[Peer(s)])
    BY <2>2, <2>3, <2>4, <2>5, PipeMonotone
  <2> QED BY <2>2, <2>6
<1>4. CASE ~live[t]
  <2>1. pipe' = pipe
    BY <1>4
  <2>2. AcksAreTrue'
    BY <2>1 DEF CoreInv, AcksAreTrue
  <2>3. PipesAreGapless'
    BY <1>3, <2>1 DEF PipesAreGapless
  <2>4. LastSentArrives'
    BY <1>4, <2>1 DEF CoreInv, LastSentArrives
  <2> QED BY <2>2, <2>3, <2>4
<1>5. CASE live[t]
  <2>1. pipe' = [pipe EXCEPT ![t][q] = Append(w, f)]
    BY <1>5
  <2>2. /\ pipe'[t][q] = Append(w, f)
        /\ \A u \in Transports, s \in Sides : u # t \/ s # q => pipe'[u][s] = pipe[u][s]
    BY <1>1, <1>2, <2>1
  <2>3. /\ Gapless(w, lastRecv[q], nextSend'[p]) /\ TrueAcks(w, lastRecv[p])
    BY <1>1, <1>2, <1>3
  <2>4. f.kind = "data" => f.seq <= nextSend'[p] /\ (f.seq <= lastRecv[q] + 1 \/ InFlight(w, f.seq - 1))
    BY <1>5
  <2>5. /\ Gapless(Append(w, f), lastRecv[q], nextSend'[p])
        /\ TrueAcks(Append(w, f), lastRecv[p])
        /\ \A n : InFlight(w, n) => InFlight(Append(w, f), n)
        /\ \A n : f = Data(n) => InFlight(Append(w, f), n)
    BY <1>2, <2>3, <2>4, PipeAppend
  <2>6. AcksAreTrue'
    <3>1. \A u \in Transports, s \in Sides : TrueAcks(pipe'[u][s], lastRecv[Peer(s)])
      BY <1>1, <1>3, <2>2, <2>5
    <3> QED BY <3>1 DEF CoreInv, AcksAreTrue
  <2>7. PipesAreGapless'
    <3>1. \A u \in Transports, s \in Sides : Gapless(pipe'[u][s], lastRecv[s], nextSend'[Peer(s)])
      BY <1>1, <1>3, <2>2, <2>5
    <3> QED BY <3>1 DEF PipesAreGapless
  <2>8. LastSentArrives'
    <3> SUFFICES ASSUME NEW s \in Sides, Writing(s), live[wconn[s]]
                 PROVE  \/ lastSent'[s] <= lastRecv[Peer(s)]
                        \/ InFlight(pipe'[wconn[s]][Peer(s)], lastSent'[s])
      BY DEF LastSentArrives
    <3>1. \/ lastSent[s] <= lastRecv[Peer(s)]
          \/ InFlight(pipe[wconn[s]][Peer(s)], lastSent[s])
      BY DEF CoreInv, LastSentArrives
    <3>2. CASE s = p
      BY <2>2, <2>5, <3>1, <3>2
    <3>3. CASE s = q
      <4>1. Peer(s) # q /\ Peer(s) \in Sides /\ wconn[s] \in Transports
        BY <1>1, <3>3, CoreTypes
      <4>2. pipe'[wconn[s]][Peer(s)] = pipe[wconn[s]][Peer(s)]
        BY <2>2, <4>1
      <4> QED BY <1>1, <3>1, <3>3, <4>2
    <3> QED BY <1>1, <3>2, <3>3
  <2> QED BY <2>6, <2>7, <2>8
<1> QED BY <1>4, <1>5

(* A read takes the oldest frame in flight, and what was received grows to *)
(* cover it.                                                               *)
LEMMA ReceiveCore ==
    ASSUME Typed, CoreInv, NEW p \in Sides, Receive(p), NEW r \in Nat,
           lastRecv' = [lastRecv EXCEPT ![p] = r], lastRecv[p] <= r,
           Head(Incoming(p)).kind = "data" => Head(Incoming(p)).seq <= r,
           UNCHANGED <<nextSend, req, resp, wpc, wconn, lastSent, live>>
    PROVE  AcksAreTrue' /\ PipesAreGapless' /\ LastSentArrives'
<1> DEFINE q == Peer(p)
           t == rconn[p]
           w == pipe[t][p]
<1>1. /\ q \in Sides /\ q # p /\ Peer(q) = p
      /\ \A s \in Sides : s = p \/ s = q
  BY PeerFacts
<1>2. /\ t \in Transports /\ w \in Seq(Frame) /\ w # <<>> /\ Head(w).seq \in Nat
      /\ pipe' = [pipe EXCEPT ![t][p] = Tail(w)]
  <2>1. t \in Transports /\ Head(w).seq \in Nat
    BY ReceiveTyped DEF Incoming
  <2> QED BY <2>1, CoreTypes DEF Receive, Incoming
<1>3. /\ \A u \in Transports, s \in Sides : pipe[u][s] \in Seq(Frame)
      /\ \A s \in Sides : nextSend[s] \in Nat /\ lastRecv[s] \in Nat /\ lastSent[s] \in Nat
      /\ pipe \in [Transports -> [Sides -> Seq(Frame)]] /\ lastRecv \in [Sides -> Nat]
  BY CoreTypes
<1>4. /\ pipe'[t][p] = Tail(w)
      /\ \A u \in Transports, s \in Sides : u # t \/ s # p => pipe'[u][s] = pipe[u][s]
  BY <1>2, <1>3
<1>5. \A s \in Sides : lastRecv'[s] \in Nat /\ lastRecv[s] <= lastRecv'[s]
  BY <1>3
<1>6. \A u \in Transports, s \in Sides :
        Gapless(pipe[u][s], lastRecv[s], nextSend[Peer(s)]) /\ TrueAcks(pipe[u][s], lastRecv[Peer(s)])
  BY DEF CoreInv, PipesAreGapless, AcksAreTrue
<1>7. \A u \in Transports, s \in Sides :
        /\ Gapless(pipe[u][s], lastRecv'[s], nextSend[Peer(s)])
        /\ TrueAcks(pipe[u][s], lastRecv'[Peer(s)])
  <2> SUFFICES ASSUME NEW u \in Transports, NEW s \in Sides
               PROVE  /\ Gapless(pipe[u][s], lastRecv'[s], nextSend[Peer(s)])
                      /\ TrueAcks(pipe[u][s], lastRecv'[Peer(s)])
    OBVIOUS
  <2>1. Peer(s) \in Sides
    BY PeerFacts
  <2>2. /\ pipe[u][s] \in Seq(Frame) /\ lastRecv[s] \in Nat /\ lastRecv[Peer(s)] \in Nat
        /\ nextSend[Peer(s)] \in Nat
    BY <1>3, <2>1
  <2>3. /\ lastRecv'[s] \in Nat /\ lastRecv[s] <= lastRecv'[s]
        /\ lastRecv'[Peer(s)] \in Nat /\ lastRecv[Peer(s)] <= lastRecv'[Peer(s)]
    BY <1>5, <2>1
  <2>4. nextSend[Peer(s)] <= nextSend[Peer(s)]
    BY <2>2
  <2>5. Gapless(pipe[u][s], lastRecv'[s], nextSend[Peer(s)])
    BY <1>6, <2>2, <2>3, <2>4, PipeMonotone
  <2>6. TrueAcks(pipe[u][s], lastRecv'[Peer(s)])
    BY <1>6, <2>2, <2>3, <2>4, PipeMonotone
  <2> QED BY <2>5, <2>6
<1>8. /\ TrueAcks(Tail(w), lastRecv'[q])
      /\ Gapless(Tail(w), lastRecv'[p], nextSend[q])
      /\ \A n : InFlight(w, n) /\ Head(w) # Data(n) => InFlight(Tail(w), n)
  <2>1. Gapless(w, lastRecv[p], nextSend[q]) /\ TrueAcks(w, lastRecv'[q])
    BY <1>1, <1>2, <1>6, <1>7
  <2>2. /\ lastRecv[p] \in Nat /\ nextSend[q] \in Nat /\ lastRecv'[q] \in Nat
        /\ lastRecv'[p] = r
    BY <1>1, <1>3, <1>5
  <2>3. Head(w).kind = "data" => Head(w).seq <= r
    BY DEF Incoming
  <2> QED BY <1>2, <2>1, <2>2, <2>3, PipeTail
<1>9. AcksAreTrue'
  <2>1. \A u \in Transports : req[u] <= lastRecv'["client"] /\ resp[u] <= lastRecv'["server"]
    <3>1. \A u \in Transports : /\ req[u] \in Nat /\ resp[u] \in Nat
                              /\ req[u] <= lastRecv["client"] /\ resp[u] <= lastRecv["server"]
      BY CoreTypes DEF CoreInv, AcksAreTrue
    <3> QED BY <1>3, <1>5, <3>1 DEF Sides
  <2>2. \A u \in Transports, s \in Sides : TrueAcks(pipe'[u][s], lastRecv'[Peer(s)])
    BY <1>1, <1>4, <1>7, <1>8
  <2> QED BY <2>1, <2>2 DEF AcksAreTrue
<1>10. PipesAreGapless'
  <2>1. \A u \in Transports, s \in Sides : Gapless(pipe'[u][s], lastRecv'[s], nextSend[Peer(s)])
    BY <1>1, <1>4, <1>7, <1>8
  <2> QED BY <2>1 DEF PipesAreGapless
<1>11. LastSentArrives'
  <2> SUFFICES ASSUME NEW s \in Sides, Writing(s), live[wconn[s]]
               PROVE  \/ lastSent[s] <= lastRecv'[Peer(s)]
                      \/ InFlight(pipe'[wconn[s]][Peer(s)], lastSent[s])
    BY DEF LastSentArrives, Writing
  <2>1. \/ lastSent[s] <= lastRecv[Peer(s)]
        \/ InFlight(pipe[wconn[s]][Peer(s)], lastSent[s])
    BY DEF CoreInv, LastSentArrives
  <2>2. wconn[s] \in Transports /\ Peer(s) \in Sides
    BY CoreTypes, PeerFacts
  <2>3. CASE lastSent[s] <= lastRecv[Peer(s)]
    BY <1>3, <1>5, <2>2, <2>3
  <2>4. CASE InFlight(pipe[wconn[s]][Peer(s)], lastSent[s])
    <3>1. CASE wconn[s] = t /\ Peer(s) = p
      <4>1. CASE Head(w) = Data(lastSent[s])
        <5>1. lastSent[s] <= r
          BY <4>1 DEF Data, Incoming
        <5> QED BY <1>3, <3>1, <5>1
      <4>2. CASE Head(w) # Data(lastSent[s])
        BY <1>4, <1>8, <2>4, <3>1, <4>2
      <4> QED BY <4>1, <4>2
    <3>2. CASE ~(wconn[s] = t /\ Peer(s) = p)
      BY <1>4, <2>2, <2>4, <3>2
    <3> QED BY <3>1, <3>2
  <2> QED BY <2>1, <2>3, <2>4
<1> QED BY <1>9, <1>10, <1>11

(* A transport that a step detaches, replaces or closes only dies. *)
LEMMA TransportsDie ==
    ASSUME Typed
    PROVE  /\ \A t : \A p \in Sides : DetachTransport(p, t) => \A u \in Transports : live'[u] => live[u]
           /\ \A t : \A p \in Sides : AttachTransport(p, t) => \A u \in Transports : live'[u] => live[u]
           /\ \A y : \A p \in Sides : MarkClosed(p, y) => \A u \in Transports : live'[u] => live[u]
           /\ \A t : live' = [live EXCEPT ![t] = FALSE] => \A u \in Transports : live'[u] => live[u]
<1>1. live \in [Transports -> BOOLEAN]
  BY DEF Typed, TypeOK
<1>2. ASSUME NEW t, live' = [live EXCEPT ![t] = FALSE], NEW u \in Transports, live'[u]
      PROVE  live[u]
  <2>1. CASE u = t
    BY <1>1, <1>2, <2>1
  <2>2. CASE u # t
    BY <1>1, <1>2, <2>2
  <2> QED BY <2>1, <2>2
<1>3. ASSUME NEW p \in Sides, NEW t, DetachTransport(p, t), NEW u \in Transports, live'[u]
      PROVE  live[u]
  <2>1. live' = live \/ live' = [live EXCEPT ![t] = FALSE]
    BY <1>3 DEF DetachTransport
  <2> QED BY <1>2, <1>3, <2>1
<1>4. ASSUME NEW p \in Sides, NEW t, AttachTransport(p, t), NEW u \in Transports, live'[u]
      PROVE  live[u]
  BY <1>4 DEF AttachTransport
<1>5. ASSUME NEW p \in Sides, NEW y, MarkClosed(p, y), NEW u \in Transports, live'[u]
      PROVE  live[u]
  BY <1>5 DEF MarkClosed
<1> QED BY <1>2, <1>3, <1>4, <1>5

(* The same for steps in which no writer goes to sleep. *)
LEMMA QuietAwake ==
    ASSUME Typed, CoreInv,
           UNCHANGED <<delivered, lastRecv, lastAcked, nextSend, kept, req, resp, pipe,
                       wconn, lastSent, resume>>,
           \A s \in Sides : wpc'[s] = wpc[s] \/ wpc'[s] = "top" \/ wpc'[s] = "parked"
                            \/ (Writing(s) /\ wpc'[s] = "next"),
           \A u \in Transports : live'[u] => live[u]
    PROVE  CoreInv'
<1>1. \A s \in Sides : Writing(s)' => Writing(s) /\ (wpc'[s] # "next" => resume[s] = {})
  <2> SUFFICES ASSUME NEW s \in Sides, Writing(s)'
               PROVE  Writing(s) /\ (wpc'[s] # "next" => resume[s] = {})
    OBVIOUS
  <2>1. wpc'[s] = wpc[s] \/ (Writing(s) /\ wpc'[s] = "next")
    BY DEF Writing
  <2> QED BY <2>1 DEF Writing, CoreInv, ReplayFollowsSent
<1>2. \A s \in Sides : Writing(s) /\ live'[wconn[s]] => live[wconn[s]]
  BY CoreTypes
<1> QED BY <1>1, <1>2, QuietCore

(* writeTransport starts at what the peer has, and leaves nothing out. *)
LEMMA AttachCore ==
    ASSUME Typed, CoreInv, NEW p \in Sides, WriterAttach(p)
    PROVE  CoreInv'
<1> USE DEF connVars, sendVars, recvVars, ackVars, writerVars, readerVars, loopVars,
            serverVars, netVars
<1> DEFINE q == Peer(p)
           last == MinOf(ResumeSeq(p), nextSend[p])
<1>1. /\ q \in Sides /\ q # p /\ Peer(q) = p
      /\ \A s \in Sides : s = p \/ s = q
  BY PeerFacts
<1>2. /\ conn[p] \in Transports /\ nextSend[p] \in Nat /\ lastAcked[p] \in Nat
      /\ lastRecv[q] \in Nat
      /\ lastAcked[p] <= lastRecv[q] /\ lastRecv[q] <= nextSend[p]
  BY <1>1, CoreTypes DEF WriterAttach, Typed, TypeOK, None, CoreInv, PeerNeverAhead
<1>3. last \in Nat /\ last <= lastRecv[q] /\ last <= nextSend[p]
  <2>1. ResumeSeq(p) \in Nat /\ ResumeSeq(p) <= lastRecv[q]
    BY <1>2, CoreTypes DEF ResumeSeq, CoreInv, AcksAreTrue, Peer, Sides
  <2> QED BY <1>2, <2>1 DEF MinOf
<1>4. /\ lastSent' = [lastSent EXCEPT ![p] = last]
      /\ lastAcked' = [lastAcked EXCEPT ![p] = MaxOf(lastAcked[p], last)]
      /\ kept' = [kept EXCEPT ![p] = IF last <= lastAcked[p] THEN kept[p] ELSE {f \in kept[p] : f > last}]
      /\ resume' = [resume EXCEPT ![p] = {f \in kept[p] : f > last}]
      /\ wpc' = [wpc EXCEPT ![p] = "next"]
      /\ wconn' = [wconn EXCEPT ![p] = conn[p]]
      /\ UNCHANGED <<delivered, lastRecv, nextSend, req, resp, pipe, live>>
  BY DEF WriterAttach, ReplayAck, SnapshotFrom
<1> HIDE DEF last
<1>5. kept[p] = (lastAcked[p] + 1)..nextSend[p]
  BY DEF CoreInv, KeptIsUnacked
<1>6. {f \in kept[p] : f > last} = (MaxOf(lastAcked[p], last) + 1)..nextSend[p]
  BY <1>2, <1>3, <1>5 DEF MaxOf
<1>7. /\ lastSent'[p] = last /\ lastAcked'[p] = MaxOf(lastAcked[p], last)
      /\ kept'[p] = (lastAcked'[p] + 1)..nextSend[p]
      /\ resume'[p] = (lastAcked'[p] + 1)..nextSend[p]
      /\ wpc'[p] = "next"
      /\ lastSent'[q] = lastSent[q] /\ lastAcked'[q] = lastAcked[q] /\ kept'[q] = kept[q]
      /\ resume'[q] = resume[q] /\ wpc'[q] = wpc[q] /\ wconn'[q] = wconn[q]
  <2>1. /\ lastSent \in [Sides -> Nat] /\ lastAcked \in [Sides -> Nat]
        /\ kept \in [Sides -> SUBSET Nat] /\ resume \in [Sides -> SUBSET Nat]
        /\ wpc \in [Sides -> {"top", "parked", "next", "wait", "ackWait", "overdue"}]
        /\ wconn \in [Sides -> Transports \cup {None}]
    BY DEF Typed, TypeOK
  <2>2. lastSent'[p] = last /\ lastAcked'[p] = MaxOf(lastAcked[p], last) /\ wpc'[p] = "next"
    BY <1>4, <2>1
  <2>3. resume'[p] = (lastAcked'[p] + 1)..nextSend[p]
    BY <1>4, <1>6, <2>1, <2>2
  <2>4. kept'[p] = (lastAcked'[p] + 1)..nextSend[p]
    <3>1. CASE last <= lastAcked[p]
      BY <1>2, <1>3, <1>4, <1>5, <2>1, <2>2, <3>1 DEF MaxOf
    <3>2. CASE ~(last <= lastAcked[p])
      BY <1>4, <1>6, <2>1, <2>2, <3>2
    <3> QED BY <3>1, <3>2
  <2>5. /\ lastSent'[q] = lastSent[q] /\ lastAcked'[q] = lastAcked[q] /\ kept'[q] = kept[q]
        /\ resume'[q] = resume[q] /\ wpc'[q] = wpc[q] /\ wconn'[q] = wconn[q]
    BY <1>1, <1>4, <2>1
  <2> QED BY <2>2, <2>3, <2>4, <2>5
<1>8. InOrderOnce' /\ AcksAreTrue' /\ PipesAreGapless'
  BY <1>4 DEF CoreInv, InOrderOnce, AcksAreTrue, PipesAreGapless
<1>9. PeerNeverAhead'
  <2>1. lastAcked'[p] <= lastRecv[q]
    BY <1>2, <1>3, <1>7 DEF MaxOf
  <2> QED BY <1>1, <1>4, <1>7, <2>1 DEF CoreInv, PeerNeverAhead
<1>10. KeptIsUnacked'
  BY <1>1, <1>4, <1>7, ZenonT(60) DEF CoreInv, KeptIsUnacked
<1>11. LastSentArrives'
  BY <1>1, <1>3, <1>4, <1>7 DEF CoreInv, LastSentArrives, Writing
<1>12. ReplayFollowsSent'
  <2> SUFFICES ASSUME NEW s \in Sides, Writing(s)'
               PROVE  /\ lastSent'[s] <= nextSend[s]
                      /\ wpc'[s] # "next" => resume'[s] = {}
                      /\ \E m \in 0..MaxOf(lastSent'[s], lastAcked'[s]) :
                           resume'[s] = (m + 1)..nextSend[s]
    BY <1>4 DEF ReplayFollowsSent
  <2>1. CASE s = p
    <3>1. lastAcked'[p] \in 0..MaxOf(lastSent'[p], lastAcked'[p])
      BY <1>2, <1>3, <1>7 DEF MaxOf
    <3> QED BY <1>3, <1>7, <2>1, <3>1
  <2>2. CASE s = q
    BY <1>7, <2>2 DEF CoreInv, ReplayFollowsSent, Writing
  <2> QED BY <1>1, <2>1, <2>2
<1> QED BY <1>8, <1>9, <1>10, <1>11, <1>12 DEF CoreInv

(* A frame the buffer keeps gets the next number; its sender's writer does *)
(* not write yet.                                                          *)
LEMMA StageCore ==
    ASSUME Typed, CoreInv, NEW p \in Sides, HasRoom(p), Stage(p)
    PROVE  /\ nextSend' \in [Sides -> Nat]
           /\ nextSend'[p] = nextSend[p] + 1
           /\ \A s \in Sides : s # p => nextSend'[s] = nextSend[s]
           /\ \A s \in Sides : nextSend[s] <= nextSend'[s]
           /\ UNCHANGED <<lastAcked, lastRecv>> => PeerNeverAhead' /\ KeptIsUnacked'
<1>1. /\ nextSend' = [nextSend EXCEPT ![p] = nextSend[p] + 1]
      /\ kept' = [kept EXCEPT ![p] = kept[p] \cup {nextSend[p] + 1}]
  BY DEF Stage
<1>2. /\ nextSend \in [Sides -> Nat]
      /\ \A s \in Sides : lastAcked[s] \in Nat /\ lastRecv[s] \in Nat /\ nextSend[s] \in Nat
      /\ kept \in [Sides -> SUBSET Nat]
  BY CoreTypes DEF Typed, TypeOK
<1>3. /\ nextSend' \in [Sides -> Nat]
      /\ nextSend'[p] = nextSend[p] + 1
      /\ \A s \in Sides : s # p => nextSend'[s] = nextSend[s]
  BY <1>1, <1>2
<1>4. \A s \in Sides : nextSend[s] <= nextSend'[s]
  BY <1>2, <1>3
<1>5. ASSUME UNCHANGED <<lastAcked, lastRecv>>
      PROVE  PeerNeverAhead'
  <2>1. \A s \in Sides : /\ Peer(s) \in Sides
                        /\ lastAcked[s] <= lastRecv[Peer(s)] /\ lastRecv[Peer(s)] <= nextSend[s]
    BY PeerFacts DEF CoreInv, PeerNeverAhead
  <2>2. \A s \in Sides : lastRecv[Peer(s)] <= nextSend'[s]
    BY <1>2, <1>3, <1>4, <2>1
  <2> QED BY <1>5, <2>1, <2>2 DEF PeerNeverAhead
<1>6. ASSUME UNCHANGED <<lastAcked, lastRecv>>
      PROVE  KeptIsUnacked'
  <2>1. \A s \in Sides : kept[s] = (lastAcked[s] + 1)..nextSend[s]
    BY DEF CoreInv, KeptIsUnacked
  <2>2. lastAcked[p] <= nextSend[p]
    BY <1>2, PeerFacts DEF CoreInv, PeerNeverAhead
  <2>3. kept'[p] = (lastAcked[p] + 1)..(nextSend[p] + 1)
    <3>1. kept'[p] = ((lastAcked[p] + 1)..nextSend[p]) \cup {nextSend[p] + 1}
      BY <1>1, <1>2, <2>1
    <3> QED BY <1>2, <2>2, <3>1
  <2>4. \A s \in Sides : s # p => kept'[s] = kept[s]
    BY <1>1, <1>2
  <2> QED BY <1>3, <1>6, <2>1, <2>3, <2>4 DEF KeptIsUnacked
<1> QED BY <1>3, <1>4, <1>5, <1>6

(* A write that fails changes no frame in flight and leaves writeTransport. *)
LEMMA FailedWrite ==
    ASSUME Typed, NEW p \in Sides, WriteFails(p)
    PROVE  /\ \A u \in Transports : live'[u] => live[u]
           /\ pipe' = pipe
           /\ wpc'[p] = "top"
           /\ \A s \in Sides : s # p => wpc'[s] = wpc[s]
<1>1. \A u \in Transports : live'[u] => live[u]
  BY TransportsDie DEF WriteFails
<1>2. wpc \in [Sides -> {"top", "parked", "next", "wait", "ackWait", "overdue"}]
  BY DEF Typed, TypeOK
<1>3. wpc'[p] = "top" /\ \A s \in Sides : s # p => wpc'[s] = wpc[s]
  BY <1>2 DEF WriteFails
<1> QED BY <1>1, <1>3 DEF WriteFails

(* writeTransport's loop goes on or ends. *)
LEMMA ContinueFacts ==
    ASSUME Typed, NEW p \in Sides, Continue(p)
    PROVE  /\ wpc'[p] = "next" \/ wpc'[p] = "top"
           /\ \A s \in Sides : s # p => wpc'[s] = wpc[s]
<1>1. wpc \in [Sides -> {"top", "parked", "next", "wait", "ackWait", "overdue"}]
  BY DEF Typed, TypeOK
<1> QED BY <1>1 DEF Continue

(* An ACK tells the peer what has been received. *)
LEMMA AckCore ==
    ASSUME Typed, CoreInv, NEW p \in Sides, WriteAck(p)
    PROVE  CoreInv'
<1> USE DEF connVars, sendVars, recvVars, ackVars, writerVars, readerVars, loopVars,
            serverVars, netVars
<1>1. Writing(p) /\ UNCHANGED <<delivered, lastRecv, lastAcked, nextSend, kept, req, resp,
                                wconn, lastSent, resume>>
  BY DEF WriteAck, Writing
<1>2. CASE WriteFails(p)
  <2>1. \A s \in Sides : wpc'[s] = wpc[s] \/ wpc'[s] = "top"
    BY <1>2, FailedWrite
  <2>2. pipe' = pipe /\ \A u \in Transports : live'[u] => live[u]
    BY <1>2, FailedWrite
  <2> QED BY <1>1, <2>1, <2>2, QuietAwake
<1>3. CASE Write(p, Ack(lastRecv[p]))
  <2> DEFINE f == Ack(lastRecv[p])
  <2>1. f \in Frame /\ f.kind = "ack" /\ f.seq = lastRecv[p] /\ lastRecv[p] \in Nat
    BY CoreTypes DEF Ack, Frame
  <2>2. /\ wpc'[p] = "next" \/ wpc'[p] = "top"
        /\ \A s \in Sides : s # p => wpc'[s] = wpc[s]
    BY <1>3, ContinueFacts DEF Write
  <2>3. \A s \in Sides : Writing(s)' => Writing(s)
    BY <1>1, <2>2 DEF Writing
  <2>4. nextSend' \in [Sides -> Nat] /\ \A s \in Sides : nextSend[s] <= nextSend'[s]
    BY <1>1, CoreTypes
  <2>5. /\ live' = live
        /\ pipe' = IF live[wconn[p]]
                   THEN [pipe EXCEPT ![wconn[p]][Peer(p)] = Append(@, f)]
                   ELSE pipe
    BY <1>3 DEF Write
  <2>6. f.seq <= lastRecv[p]
    BY <2>1
  <2> HIDE DEF f
  <2>7. AcksAreTrue' /\ PipesAreGapless' /\ LastSentArrives'
    BY <1>1, <2>1, <2>3, <2>4, <2>5, <2>6, WriteCore
  <2>8. InOrderOnce' /\ PeerNeverAhead' /\ KeptIsUnacked'
    BY <1>1 DEF CoreInv, InOrderOnce, PeerNeverAhead, KeptIsUnacked
  <2>9. ReplayFollowsSent'
    BY <1>1, <2>2, <2>3 DEF CoreInv, ReplayFollowsSent, Writing
  <2> QED BY <2>7, <2>8, <2>9 DEF CoreInv
<1> QED BY <1>2, <1>3 DEF WriteAck

(* A replayed frame follows what the peer has or was sent. *)
LEMMA ResumeCore ==
    ASSUME Typed, CoreInv, NEW p \in Sides, WriteResume(p)
    PROVE  CoreInv'
<1> USE DEF connVars, sendVars, recvVars, ackVars, writerVars, readerVars, loopVars,
            serverVars, netVars
<1> DEFINE q == Peer(p)
<1>1. Writing(p) /\ wpc[p] = "next"
      /\ UNCHANGED <<delivered, lastRecv, lastAcked, nextSend, kept, req, resp, wconn>>
  BY DEF WriteResume, Writing
<1>2. /\ q \in Sides /\ q # p /\ Peer(q) = p
      /\ \A s \in Sides : s = p \/ s = q
  BY PeerFacts
<1>3. /\ nextSend[p] \in Nat /\ lastAcked[p] \in Nat /\ lastSent[p] \in Nat /\ lastRecv[q] \in Nat
      /\ lastAcked[p] <= lastRecv[q] /\ lastSent[p] <= nextSend[p]
      /\ resume \in [Sides -> SUBSET Nat] /\ lastSent \in [Sides -> Nat]
  BY <1>1, <1>2, CoreTypes DEF Typed, TypeOK, CoreInv, PeerNeverAhead, ReplayFollowsSent
<1>4. PICK m \in 0..MaxOf(lastSent[p], lastAcked[p]) : resume[p] = (m + 1)..nextSend[p]
  BY <1>1 DEF CoreInv, ReplayFollowsSent
<1>5. PICK f \in resume[p] :
        /\ \A g \in resume[p] : f <= g
        /\ resume' = [resume EXCEPT ![p] = resume[p] \ {f}]
        /\ IF f <= MaxOf(lastSent[p], lastAcked[p])
           THEN /\ Continue(p)
                /\ UNCHANGED <<lastSent, conn, live, notify, starting, pipe>>
           ELSE \/ /\ Write(p, Data(f))
                   /\ lastSent' = [lastSent EXCEPT ![p] = f]
                \/ /\ WriteFails(p)
                   /\ UNCHANGED lastSent
  BY DEF WriteResume
<1>6. m \in Nat /\ m <= MaxOf(lastSent[p], lastAcked[p]) /\ f = m + 1 /\ f <= nextSend[p]
  BY <1>3, <1>4, <1>5 DEF MaxOf
<1>7. resume'[p] = (f + 1)..nextSend[p] /\ resume'[q] = resume[q]
  <2>1. resume'[p] = resume[p] \ {f} /\ resume'[q] = resume[q]
    BY <1>2, <1>3, <1>5
  <2> QED BY <1>3, <1>4, <1>6, <2>1
<1>8. InOrderOnce' /\ PeerNeverAhead' /\ KeptIsUnacked'
  BY <1>1 DEF CoreInv, InOrderOnce, PeerNeverAhead, KeptIsUnacked
<1>9. ASSUME wpc'[p] = "next" \/ wpc'[p] = "top", \A s \in Sides : s # p => wpc'[s] = wpc[s],
             lastSent'[p] \in Nat, lastSent'[p] <= nextSend[p], f <= MaxOf(lastSent'[p], lastAcked[p]),
             lastSent'[q] = lastSent[q]
      PROVE  ReplayFollowsSent'
  <2> SUFFICES ASSUME NEW s \in Sides, Writing(s)'
               PROVE  /\ lastSent'[s] <= nextSend[s]
                      /\ wpc'[s] # "next" => resume'[s] = {}
                      /\ \E k \in 0..MaxOf(lastSent'[s], lastAcked[s]) :
                           resume'[s] = (k + 1)..nextSend[s]
    BY <1>1 DEF ReplayFollowsSent
  <2>1. CASE s = p
    <3>1. f \in 0..MaxOf(lastSent'[p], lastAcked[p])
      BY <1>3, <1>6, <1>9 DEF MaxOf
    <3> QED BY <1>7, <1>9, <2>1, <3>1 DEF Writing
  <2>2. CASE s = q
    BY <1>2, <1>7, <1>9, <2>2 DEF CoreInv, ReplayFollowsSent, Writing
  <2> QED BY <1>2, <2>1, <2>2
<1>10. CASE f <= MaxOf(lastSent[p], lastAcked[p])
  <2>1. Continue(p) /\ UNCHANGED <<lastSent, live, pipe>>
    BY <1>5, <1>10
  <2>2. /\ wpc'[p] = "next" \/ wpc'[p] = "top"
        /\ \A s \in Sides : s # p => wpc'[s] = wpc[s]
    BY <2>1, ContinueFacts
  <2>3. AcksAreTrue' /\ PipesAreGapless'
    BY <1>1, <2>1 DEF CoreInv, AcksAreTrue, PipesAreGapless
  <2>4. LastSentArrives'
    BY <1>1, <1>2, <2>1, <2>2 DEF CoreInv, LastSentArrives, Writing
  <2>5. ReplayFollowsSent'
    BY <1>3, <1>9, <1>10, <2>1, <2>2
  <2> QED BY <1>8, <2>3, <2>4, <2>5 DEF CoreInv
<1>11. CASE WriteFails(p) /\ UNCHANGED lastSent
  <2>1. /\ wpc'[p] = "top" /\ \A s \in Sides : s # p => wpc'[s] = wpc[s]
        /\ pipe' = pipe /\ \A u \in Transports : live'[u] => live[u]
    BY <1>11, FailedWrite
  <2>2. AcksAreTrue' /\ PipesAreGapless'
    BY <1>1, <2>1 DEF CoreInv, AcksAreTrue, PipesAreGapless
  <2>3. LastSentArrives'
    <3>1. Writing(q) => wconn[q] \in Transports
      BY <1>2, CoreTypes
    <3> QED BY <1>1, <1>2, <1>11, <2>1, <3>1 DEF CoreInv, LastSentArrives, Writing
  <2>4. ReplayFollowsSent'
    BY <1>1, <1>2, <1>7, <1>11, <2>1 DEF CoreInv, ReplayFollowsSent, Writing
  <2> QED BY <1>8, <2>2, <2>3, <2>4 DEF CoreInv
<1>12. CASE /\ ~(f <= MaxOf(lastSent[p], lastAcked[p]))
            /\ Write(p, Data(f)) /\ lastSent' = [lastSent EXCEPT ![p] = f]
  <2> DEFINE d == Data(f)
  <2>1. d \in Frame /\ d.kind = "data" /\ d.seq = f /\ f \in Nat
    BY <1>6 DEF Data, Frame
  <2>2. /\ wpc'[p] = "next" \/ wpc'[p] = "top"
        /\ \A s \in Sides : s # p => wpc'[s] = wpc[s]
    BY <1>12, ContinueFacts DEF Write
  <2>3. \A s \in Sides : Writing(s)' => Writing(s)
    BY <1>1, <2>2 DEF Writing
  <2>4. nextSend' \in [Sides -> Nat] /\ \A s \in Sides : nextSend[s] <= nextSend'[s]
    BY <1>1, CoreTypes
  <2>5. /\ live' = live
        /\ pipe' = IF live[wconn[p]]
                   THEN [pipe EXCEPT ![wconn[p]][Peer(p)] = Append(@, d)]
                   ELSE pipe
    BY <1>12 DEF Write
  <2>6. lastSent'[p] = f /\ \A s \in Sides : s # p => lastSent'[s] = lastSent[s]
    BY <1>3, <1>12
  <2>7. \/ f <= lastRecv[q] + 1
        \/ live[wconn[p]] => InFlight(pipe[wconn[p]][q], f - 1)
    <3>1. CASE lastSent[p] <= lastAcked[p]
      BY <1>3, <1>6, <3>1 DEF MaxOf
    <3>2. CASE ~(lastSent[p] <= lastAcked[p])
      <4>1. f = lastSent[p] + 1
        BY <1>3, <1>6, <1>12, <3>2 DEF MaxOf
      <4>2. live[wconn[p]] => lastSent[p] <= lastRecv[q] \/ InFlight(pipe[wconn[p]][q], lastSent[p])
        BY <1>1 DEF CoreInv, LastSentArrives
      <4>3. f - 1 = lastSent[p] /\ (lastSent[p] <= lastRecv[q] => f <= lastRecv[q] + 1)
        BY <1>3, <4>1
      <4> QED BY <4>2, <4>3
    <3> QED BY <3>1, <3>2
  <2>8. d.seq <= nextSend'[p] /\ d.kind # "ack"
    BY <1>1, <1>6, <2>1
  <2>9. d = Data(lastSent'[p])
    BY <2>6
  <2> HIDE DEF d
  <2>10. AcksAreTrue' /\ PipesAreGapless' /\ LastSentArrives'
    BY <1>1, <2>1, <2>3, <2>4, <2>5, <2>6, <2>7, <2>8, <2>9, WriteCore
  <2>11. ReplayFollowsSent'
    <3>1. f <= MaxOf(f, lastAcked[p])
      BY <1>3, <2>1 DEF MaxOf
    <3> QED BY <1>2, <1>6, <1>9, <2>1, <2>2, <2>6, <3>1
  <2> QED BY <1>8, <2>10, <2>11 DEF CoreInv
<1> QED BY <1>5, <1>10, <1>11, <1>12

(* A frame staged by a writer that does not write it: the next resume will. *)
LEMMA StagedCore ==
    ASSUME Typed, CoreInv, NEW p \in Sides, HasRoom(p), Stage(p),
           UNCHANGED <<delivered, lastRecv, lastAcked, req, resp, pipe, wconn, lastSent, resume>>,
           wpc'[p] = "top", \A s \in Sides : s # p => wpc'[s] = wpc[s],
           \A u \in Transports : live'[u] => live[u]
    PROVE  CoreInv'
<1> DEFINE q == Peer(p)
<1>1. /\ q \in Sides /\ q # p /\ Peer(q) = p
      /\ \A s \in Sides : s = p \/ s = q
  BY PeerFacts
<1>2. /\ nextSend' \in [Sides -> Nat]
      /\ nextSend'[q] = nextSend[q]
      /\ \A s \in Sides : nextSend[s] <= nextSend'[s]
      /\ PeerNeverAhead' /\ KeptIsUnacked'
  BY <1>1, StageCore
<1>3. InOrderOnce' /\ AcksAreTrue'
  BY DEF CoreInv, InOrderOnce, AcksAreTrue
<1>4. PipesAreGapless'
  <2> SUFFICES ASSUME NEW u \in Transports, NEW s \in Sides
               PROVE  Gapless(pipe[u][s], lastRecv[s], nextSend'[Peer(s)])
    BY DEF PipesAreGapless
  <2>1. Peer(s) \in Sides
    BY PeerFacts
  <2>2. Gapless(pipe[u][s], lastRecv[s], nextSend[Peer(s)])
    BY DEF CoreInv, PipesAreGapless
  <2>3. /\ pipe[u][s] \in Seq(Frame) /\ lastRecv[s] \in Nat
        /\ nextSend[Peer(s)] \in Nat /\ nextSend'[Peer(s)] \in Nat
        /\ nextSend[Peer(s)] <= nextSend'[Peer(s)]
    BY <1>2, <2>1, CoreTypes
  <2>4. lastRecv[s] <= lastRecv[s]
    BY <2>3
  <2> QED BY <2>2, <2>3, <2>4, PipeMonotone
<1>5. LastSentArrives'
  <2>1. Writing(q) => wconn[q] \in Transports
    BY <1>1, CoreTypes
  <2> QED BY <1>1, <2>1 DEF CoreInv, LastSentArrives, Writing
<1>6. ReplayFollowsSent'
  BY <1>1, <1>2 DEF CoreInv, ReplayFollowsSent, Writing
<1> QED BY <1>2, <1>3, <1>4, <1>5, <1>6 DEF CoreInv

(* A live frame is written with nothing left to replay: it is the next one *)
(* the peer expects, after those it was sent.                              *)
LEMMA LiveCore ==
    ASSUME Typed, CoreInv, NEW p \in Sides, Writing(p), resume[p] = {}, WriteLive(p),
           UNCHANGED <<delivered, lastRecv, lastAcked, req, resp, wconn, resume>>
    PROVE  CoreInv'
<1> DEFINE q == Peer(p)
           n == nextSend[p] + 1
<1>1. /\ q \in Sides /\ q # p /\ Peer(q) = p
      /\ \A s \in Sides : s = p \/ s = q
  BY PeerFacts
<1>2. /\ nextSend[p] \in Nat /\ lastAcked[p] \in Nat /\ lastSent[p] \in Nat /\ lastRecv[q] \in Nat
      /\ lastAcked[p] <= lastRecv[q] /\ lastSent[p] <= nextSend[p]
      /\ lastSent \in [Sides -> Nat]
  BY <1>1, CoreTypes DEF CoreInv, PeerNeverAhead, ReplayFollowsSent
<1>3. HasRoom(p) /\ Stage(p)
  BY DEF WriteLive
<1>4. /\ nextSend' \in [Sides -> Nat]
      /\ nextSend'[p] = n /\ nextSend'[q] = nextSend[q]
      /\ \A s \in Sides : nextSend[s] <= nextSend'[s]
      /\ PeerNeverAhead' /\ KeptIsUnacked'
  BY <1>1, <1>3, StageCore
<1>5. ~(n <= lastSent[p])
  BY <1>2
<1>6. \/ Write(p, Data(n)) /\ lastSent' = [lastSent EXCEPT ![p] = n]
      \/ WriteFails(p) /\ UNCHANGED lastSent
  BY <1>5 DEF WriteLive
<1>7. CASE WriteFails(p) /\ UNCHANGED lastSent
  <2>1. /\ wpc'[p] = "top" /\ \A s \in Sides : s # p => wpc'[s] = wpc[s]
        /\ pipe' = pipe /\ \A u \in Transports : live'[u] => live[u]
    BY <1>7, FailedWrite
  <2> QED BY <1>3, <1>7, <2>1, StagedCore
<1>8. CASE Write(p, Data(n)) /\ lastSent' = [lastSent EXCEPT ![p] = n]
  <2> DEFINE d == Data(n)
  <2>1. d \in Frame /\ d.kind = "data" /\ d.seq = n /\ n \in Nat
    BY <1>2 DEF Data, Frame
  <2>2. /\ wpc'[p] = "next" \/ wpc'[p] = "top"
        /\ \A s \in Sides : s # p => wpc'[s] = wpc[s]
    BY <1>8, ContinueFacts DEF Write
  <2>3. \A s \in Sides : Writing(s)' => Writing(s)
    BY <2>2 DEF Writing
  <2>4. /\ live' = live
        /\ pipe' = IF live[wconn[p]]
                   THEN [pipe EXCEPT ![wconn[p]][Peer(p)] = Append(@, d)]
                   ELSE pipe
    BY <1>8 DEF Write
  <2>5. lastSent'[p] = n /\ \A s \in Sides : s # p => lastSent'[s] = lastSent[s]
    BY <1>2, <1>8
  <2>6. \/ n <= lastRecv[q] + 1
        \/ live[wconn[p]] => InFlight(pipe[wconn[p]][q], n - 1)
    <3>1. PICK m \in 0..MaxOf(lastSent[p], lastAcked[p]) : resume[p] = (m + 1)..nextSend[p]
      BY DEF CoreInv, ReplayFollowsSent
    <3>2. m \in Nat /\ nextSend[p] <= m
      <4>1. m \in Nat
        BY <1>2, <3>1 DEF MaxOf
      <4>2. ASSUME m < nextSend[p] PROVE FALSE
        <5>1. m + 1 \in (m + 1)..nextSend[p]
          BY <1>2, <4>1, <4>2
        <5> QED BY <3>1, <5>1
      <4> QED BY <1>2, <4>1, <4>2
    <3>3. CASE lastSent[p] <= lastAcked[p]
      BY <1>2, <3>1, <3>2, <3>3 DEF MaxOf
    <3>4. CASE ~(lastSent[p] <= lastAcked[p])
      <4>1. nextSend[p] = lastSent[p]
        BY <1>2, <3>1, <3>2, <3>4 DEF MaxOf
      <4>2. live[wconn[p]] => lastSent[p] <= lastRecv[q] \/ InFlight(pipe[wconn[p]][q], lastSent[p])
        BY DEF CoreInv, LastSentArrives
      <4>3. n - 1 = lastSent[p] /\ (lastSent[p] <= lastRecv[q] => n <= lastRecv[q] + 1)
        BY <1>2, <4>1
      <4> QED BY <4>2, <4>3
    <3> QED BY <3>3, <3>4
  <2>7. d.seq <= nextSend'[p] /\ d.kind # "ack"
    BY <1>4, <2>1
  <2>8. d = Data(lastSent'[p])
    BY <2>5
  <2> HIDE DEF d
  <2>9. AcksAreTrue' /\ PipesAreGapless' /\ LastSentArrives'
    BY <1>4, <2>1, <2>3, <2>4, <2>5, <2>6, <2>7, <2>8, WriteCore
  <2>10. ReplayFollowsSent'
    <3> SUFFICES ASSUME NEW s \in Sides, Writing(s)'
                 PROVE  /\ lastSent'[s] <= nextSend'[s]
                        /\ wpc'[s] # "next" => resume[s] = {}
                        /\ \E m \in 0..MaxOf(lastSent'[s], lastAcked[s]) :
                             resume[s] = (m + 1)..nextSend'[s]
      BY DEF ReplayFollowsSent
    <3>1. CASE s = p
      <4>1. n \in 0..MaxOf(n, lastAcked[p]) /\ (n + 1)..n = {} /\ n <= n
        BY <1>2, <2>1 DEF MaxOf
      <4> QED BY <1>4, <2>5, <3>1, <4>1
    <3>2. CASE s = q
      BY <1>1, <1>4, <2>2, <2>5, <3>2 DEF CoreInv, ReplayFollowsSent, Writing
    <3> QED BY <1>1, <3>1, <3>2
  <2>11. InOrderOnce'
    BY DEF CoreInv, InOrderOnce
  <2> QED BY <1>4, <2>9, <2>10, <2>11 DEF CoreInv
<1> QED BY <1>6, <1>7, <1>8

(* Every step of the writer keeps the invariant. *)
LEMMA WriterCore ==
    ASSUME Typed, CoreInv, NEW p \in Sides,
           WriterStep(p) \/ SendStep(p) \/ Heartbeat(p)
    PROVE  CoreInv'
<1> USE DEF connVars, sendVars, recvVars, ackVars, writerVars, readerVars, loopVars,
            serverVars, netVars
<1>0. /\ wpc \in [Sides -> {"top", "parked", "next", "wait", "ackWait", "overdue"}]
      /\ \A s \in Sides : Writing(s) /\ wpc[s] # "next" => resume[s] = {}
  BY DEF Typed, TypeOK, CoreInv, ReplayFollowsSent
<1>1. CASE WriterAttach(p)
  BY <1>1, AttachCore
<1>2. CASE WriteAck(p)
  BY <1>2, AckCore
<1>3. CASE WriteResume(p)
  BY <1>3, ResumeCore
<1>4. CASE WriterPark(p) \/ WriterWake(p) \/ WriterLeave(p) \/ AckTimeout(p)
  <2>1. /\ UNCHANGED <<delivered, lastRecv, lastAcked, nextSend, kept, req, resp, pipe,
                       wconn, lastSent, resume>>
        /\ \A u \in Transports : live'[u] => live[u]
    BY <1>4 DEF WriterPark, WriterWake, WriterLeave, AckTimeout
  <2>2. \A s \in Sides : wpc'[s] = wpc[s] \/ wpc'[s] = "top" \/ wpc'[s] = "parked"
                         \/ (Writing(s) /\ wpc'[s] = "next")
    BY <1>0, <1>4 DEF WriterPark, WriterWake, WriterLeave, AckTimeout, Continue, Writing
  <2> QED BY <2>1, <2>2, QuietAwake
<1>5. CASE WriteNextLive(p)
  <2>1. /\ Writing(p) /\ resume[p] = {} /\ WriteLive(p)
        /\ UNCHANGED <<delivered, lastRecv, lastAcked, req, resp, wconn, resume>>
    BY <1>5 DEF WriteNextLive, Writing
  <2> QED BY <2>1, LiveCore
<1>6. CASE WaitLive(p)
  <2>1. /\ Writing(p) /\ resume[p] = {} /\ WriteLive(p)
        /\ UNCHANGED <<delivered, lastRecv, lastAcked, req, resp, wconn, resume>>
    BY <1>0, <1>6 DEF WaitLive, Writing
  <2> QED BY <2>1, LiveCore
<1>7. CASE WaitHold(p)
  <2>1. /\ UNCHANGED <<delivered, lastRecv, lastAcked, nextSend, kept, req, resp, pipe,
                       wconn, lastSent, resume>>
        /\ Writing(p) /\ Continue(p)
        /\ \A u \in Transports : live'[u] => live[u]
    BY <1>7 DEF WaitHold, Stage, Writing
  <2>2. \A s \in Sides : wpc'[s] = wpc[s] \/ wpc'[s] = "top" \/ wpc'[s] = "parked"
                         \/ (Writing(s) /\ wpc'[s] = "next")
    BY <2>1, ContinueFacts
  <2> QED BY <2>1, <2>2, QuietAwake
<1>8. CASE WriterIdle(p)
  <2>1. /\ UNCHANGED <<delivered, lastRecv, lastAcked, nextSend, kept, req, resp,
                       wconn, lastSent, resume>>
        /\ Writing(p) /\ resume[p] = {}
    BY <1>8 DEF WriterIdle, Stage, Writing
  <2>2. CASE WriteFails(p)
    <3>1. \A s \in Sides : wpc'[s] = wpc[s] \/ wpc'[s] = "top"
      BY <2>2, FailedWrite
    <3>2. pipe' = pipe /\ \A u \in Transports : live'[u] => live[u]
      BY <2>2, FailedWrite
    <3> QED BY <2>1, <3>1, <3>2, QuietAwake
  <2>3. CASE NextAckWait(p) /\ UNCHANGED <<conn, live, notify, starting, pipe>>
    <3>1. /\ \A s \in Sides : s # p => wpc'[s] = wpc[s]
          /\ UNCHANGED <<live, pipe>>
      BY <2>3, SleepTyped
    <3>2. \A s \in Sides : Writing(s)' => Writing(s) /\ (wpc'[s] # "next" => resume[s] = {})
      BY <1>0, <2>1, <3>1 DEF Writing
    <3>3. \A s \in Sides : Writing(s) /\ live'[wconn[s]] => live[wconn[s]]
      BY <3>1
    <3> QED BY <2>1, <3>1, <3>2, <3>3, QuietCore
  <2> QED BY <1>8, <2>2, <2>3 DEF WriterIdle
<1>9. CASE StageWhileDetached(p)
  <2>1. /\ UNCHANGED <<delivered, lastRecv, lastAcked, req, resp, pipe, wconn, lastSent,
                       resume, live>>
        /\ Stage(p)
    BY <1>9 DEF StageWhileDetached
  <2>2. wpc'[p] = "top" /\ \A s \in Sides : s # p => wpc'[s] = wpc[s]
    BY <1>0, <1>9 DEF StageWhileDetached
  <2>3. CASE HasRoom(p)
    BY <2>1, <2>2, <2>3, StagedCore
  <2>4. CASE ~HasRoom(p)
    <3>1. UNCHANGED <<nextSend, kept>>
      BY <2>1, <2>4 DEF Stage
    <3> QED BY <2>1, <2>2, <3>1, QuietAwake
  <2> QED BY <2>3, <2>4
<1>10. CASE Heartbeat(p)
  <2>1. /\ UNCHANGED <<delivered, lastRecv, lastAcked, nextSend, kept, req, resp,
                       wconn, lastSent, resume>>
        /\ Writing(p)
    BY <1>10 DEF Heartbeat, Writing
  <2>2. CASE WriteFails(p)
    <3>1. \A s \in Sides : wpc'[s] = wpc[s] \/ wpc'[s] = "top"
      BY <2>2, FailedWrite
    <3>2. pipe' = pipe /\ \A u \in Transports : live'[u] => live[u]
      BY <2>2, FailedWrite
    <3> QED BY <2>1, <3>1, <3>2, QuietAwake
  <2>3. CASE Continue(p) /\ UNCHANGED <<conn, live, notify, starting, pipe>>
    <3>1. \A s \in Sides : wpc'[s] = wpc[s] \/ wpc'[s] = "top"
                           \/ (Writing(s) /\ wpc'[s] = "next")
      BY <2>1, <2>3, ContinueFacts
    <3> QED BY <2>1, <2>3, <3>1, QuietAwake
  <2> QED BY <1>10, <2>2, <2>3 DEF Heartbeat
<1> QED BY <1>1, <1>2, <1>3, <1>4, <1>5, <1>6, <1>7, <1>8, <1>9, <1>10
        DEF WriterStep, SendStep

-----------------------------------------------------------------------------
(* The reader's steps.                                                     *)

(* What the reader finds next: a number at most one past the last received, *)
(* or a true ACK.                                                           *)
LEMMA NextFrame ==
    ASSUME Typed, CoreInv, NEW p \in Sides, Receive(p)
    PROVE  LET f == Head(Incoming(p)) IN
           /\ f.seq \in Nat
           /\ f.kind = "data" => f.seq <= lastRecv[p] + 1 /\ f.seq <= nextSend[Peer(p)]
           /\ f.kind = "ack" => f.seq <= lastRecv[Peer(p)]
<1> DEFINE q == Peer(p)
           w == pipe[rconn[p]][p]
<1>1. q \in Sides /\ rconn[p] \in Transports /\ w # <<>> /\ Head(w).seq \in Nat
  BY PeerFacts, ReceiveTyped DEF Receive, Incoming
<1>2. w \in Seq(Frame) /\ lastRecv[p] \in Nat /\ nextSend[q] \in Nat /\ lastRecv[q] \in Nat
  BY <1>1, CoreTypes
<1>3. Gapless(w, lastRecv[p], nextSend[q]) /\ TrueAcks(w, lastRecv[q])
  BY <1>1 DEF CoreInv, PipesAreGapless, AcksAreTrue
<1> QED BY <1>1, <1>2, <1>3, PipeTail DEF Incoming

(* So a data frame is a duplicate or the next one, never past a gap. *)
LEMMA DataCore ==
    ASSUME Typed, CoreInv, NEW p \in Sides, ReadData(p)
    PROVE  CoreInv' /\ status' = status
<1> USE DEF connVars, sendVars, recvVars, ackVars, writerVars, readerVars, loopVars,
            serverVars, netVars
<1> DEFINE q == Peer(p)
           f == Head(Incoming(p))
<1>1. /\ q \in Sides /\ q # p /\ Peer(q) = p
      /\ \A s \in Sides : s = p \/ s = q
  BY PeerFacts
<1>2. Receive(p) /\ f.kind = "data"
      /\ UNCHANGED <<nextSend, kept, lastAcked, wpc, wconn, lastSent, resume, req, resp>>
  BY DEF ReadData
<1>3. f.seq \in Nat /\ f.seq <= lastRecv[p] + 1 /\ f.seq <= nextSend[q]
  BY <1>2, NextFrame
<1>4. lastRecv[p] \in Nat /\ lastRecv \in [Sides -> Nat]
  BY CoreTypes
<1>5. \/ f.seq <= lastRecv[p]
      \/ f.seq = lastRecv[p] + 1 /\ ~(f.seq <= lastRecv[p])
  BY <1>3, <1>4
<1>6. ReplayFollowsSent' /\ KeptIsUnacked'
  BY <1>2 DEF CoreInv, ReplayFollowsSent, KeptIsUnacked, Writing
<1>7. CASE f.seq <= lastRecv[p]
  <2>1. UNCHANGED <<status, live, delivered, lastRecv>>
    BY <1>7 DEF ReadData, NoteDuplicate
  <2>2. lastRecv' = [lastRecv EXCEPT ![p] = lastRecv[p]] /\ lastRecv[p] <= lastRecv[p]
    BY <1>4, <2>1
  <2>3. AcksAreTrue' /\ PipesAreGapless' /\ LastSentArrives'
    BY <1>2, <1>4, <1>7, <2>1, <2>2, ReceiveCore
  <2>4. InOrderOnce' /\ PeerNeverAhead'
    BY <1>2, <2>1 DEF CoreInv, InOrderOnce, PeerNeverAhead
  <2> QED BY <1>6, <2>1, <2>3, <2>4 DEF CoreInv
<1>8. CASE f.seq = lastRecv[p] + 1 /\ ~(f.seq <= lastRecv[p])
  <2>1. /\ UNCHANGED <<status, live>>
        /\ lastRecv' = [lastRecv EXCEPT ![p] = f.seq]
        /\ delivered' = [delivered EXCEPT ![p] = Append(@, f.seq)]
    BY <1>8 DEF ReadData, NoteReceived
  <2>2. lastRecv[p] <= f.seq /\ f.seq <= f.seq
    BY <1>3, <1>4, <1>8
  <2>3. AcksAreTrue' /\ PipesAreGapless' /\ LastSentArrives'
    BY <1>2, <1>3, <2>1, <2>2, ReceiveCore
  <2>4. /\ lastRecv'[p] = lastRecv[p] + 1
        /\ lastRecv'[q] = lastRecv[q]
    BY <1>1, <1>4, <1>8, <2>1
  <2>5. InOrderOnce'
    <3>1. delivered \in [Sides -> Seq(Nat)]
      BY DEF Typed, TypeOK
    <3>2. /\ delivered'[p] = Append(delivered[p], lastRecv[p] + 1)
          /\ delivered'[q] = delivered[q]
      BY <1>1, <1>8, <2>1, <3>1
    <3>3. delivered[p] = [i \in 1..lastRecv[p] |-> i]
      BY DEF CoreInv, InOrderOnce
    <3>4. Len(delivered[p]) = lastRecv[p]
      BY <1>4, <3>1, <3>3
    <3>5. Append(delivered[p], lastRecv[p] + 1) = [i \in 1..(lastRecv[p] + 1) |-> i]
      BY <1>4, <3>1, <3>3, <3>4
    <3> QED BY <1>1, <2>4, <3>2, <3>5 DEF CoreInv, InOrderOnce
  <2>6. PeerNeverAhead'
    <3>1. /\ lastAcked[q] <= lastRecv[p] /\ lastAcked[p] <= lastRecv[q] /\ lastRecv[q] <= nextSend[p]
          /\ lastAcked[q] \in Nat
      BY <1>1, CoreTypes DEF CoreInv, PeerNeverAhead
    <3>2. lastAcked[q] <= lastRecv'[p] /\ lastRecv'[p] <= nextSend[q]
      BY <1>3, <1>4, <1>8, <2>4, <3>1
    <3> QED BY <1>1, <1>2, <2>4, <3>1, <3>2 DEF PeerNeverAhead
  <2> QED BY <1>6, <2>1, <2>3, <2>5, <2>6 DEF CoreInv
<1> QED BY <1>5, <1>7, <1>8

(* An ACK drops from the replay buffer only what the peer has. *)
LEMMA ReadAckCore ==
    ASSUME Typed, CoreInv, NEW p \in Sides, ReadAck(p)
    PROVE  CoreInv'
<1> USE DEF connVars, sendVars, recvVars, ackVars, writerVars, readerVars, loopVars,
            serverVars, netVars
<1> DEFINE q == Peer(p)
           n == Head(Incoming(p)).seq
<1>1. /\ q \in Sides /\ q # p /\ Peer(q) = p
      /\ \A s \in Sides : s = p \/ s = q
  BY PeerFacts
<1>2. /\ Receive(p) /\ Head(Incoming(p)).kind = "ack" /\ ReplayAck(p, n)
      /\ UNCHANGED <<nextSend, lastRecv, delivered, wpc, wconn, lastSent, resume, req, resp, live>>
  BY DEF ReadAck
<1>3. n \in Nat /\ n <= lastRecv[q]
  BY <1>2, NextFrame
<1>4. /\ lastRecv[p] \in Nat /\ lastRecv[q] \in Nat /\ nextSend[p] \in Nat
      /\ lastAcked[p] \in Nat /\ lastSent[p] \in Nat
      /\ lastRecv \in [Sides -> Nat] /\ lastAcked \in [Sides -> Nat]
      /\ kept \in [Sides -> SUBSET Nat]
  BY <1>1, CoreTypes DEF Typed, TypeOK
<1> HIDE DEF n
<1>5. /\ lastAcked'[p] = MaxOf(lastAcked[p], n) /\ lastAcked'[q] = lastAcked[q]
      /\ kept'[p] = (IF n <= lastAcked[p] THEN kept[p] ELSE {f \in kept[p] : f > n})
      /\ kept'[q] = kept[q]
  BY <1>1, <1>2, <1>4 DEF ReplayAck
<1>6. AcksAreTrue' /\ PipesAreGapless' /\ LastSentArrives'
  <2>1. lastRecv' = [lastRecv EXCEPT ![p] = lastRecv[p]] /\ lastRecv[p] <= lastRecv[p]
    BY <1>2, <1>4
  <2> QED BY <1>2, <1>4, <2>1, ReceiveCore
<1>7. InOrderOnce'
  BY <1>2 DEF CoreInv, InOrderOnce
<1>8. PeerNeverAhead'
  <2>1. lastAcked[p] <= lastRecv[q]
    BY DEF CoreInv, PeerNeverAhead
  <2>2. lastAcked'[p] <= lastRecv[q]
    BY <1>3, <1>4, <1>5, <2>1 DEF MaxOf
  <2> QED BY <1>1, <1>2, <1>5, <2>2 DEF CoreInv, PeerNeverAhead
<1>9. KeptIsUnacked'
  <2>1. kept[p] = (lastAcked[p] + 1)..nextSend[p]
    BY DEF CoreInv, KeptIsUnacked
  <2>2. kept'[p] = (lastAcked'[p] + 1)..nextSend[p]
    <3>1. CASE n <= lastAcked[p]
      <4>1. lastAcked'[p] = lastAcked[p] /\ kept'[p] = kept[p]
        BY <1>3, <1>4, <1>5, <3>1 DEF MaxOf
      <4> QED BY <2>1, <4>1
    <3>2. CASE ~(n <= lastAcked[p])
      <4>1. lastAcked'[p] = n /\ kept'[p] = {f \in kept[p] : f > n}
        BY <1>3, <1>4, <1>5, <3>2 DEF MaxOf
      <4> QED BY <1>3, <1>4, <2>1, <3>2, <4>1
    <3> QED BY <3>1, <3>2
  <2> QED BY <1>1, <1>2, <1>5, <2>2 DEF CoreInv, KeptIsUnacked
<1>10. ReplayFollowsSent'
  <2> SUFFICES ASSUME NEW s \in Sides, Writing(s)
               PROVE  /\ lastSent[s] <= nextSend[s]
                      /\ wpc[s] # "next" => resume[s] = {}
                      /\ \E m \in 0..MaxOf(lastSent[s], lastAcked'[s]) :
                           resume[s] = (m + 1)..nextSend[s]
    BY <1>2 DEF ReplayFollowsSent, Writing
  <2>1. /\ lastSent[s] <= nextSend[s]
        /\ wpc[s] # "next" => resume[s] = {}
    BY DEF CoreInv, ReplayFollowsSent
  <2>2. PICK m \in 0..MaxOf(lastSent[s], lastAcked[s]) : resume[s] = (m + 1)..nextSend[s]
    BY DEF CoreInv, ReplayFollowsSent
  <2>3. m \in 0..MaxOf(lastSent[s], lastAcked'[s])
    <3>1. CASE s = p
      BY <1>3, <1>4, <1>5, <2>2, <3>1 DEF MaxOf
    <3>2. CASE s = q
      BY <1>5, <2>2, <3>2
    <3> QED BY <1>1, <3>1, <3>2
  <2> QED BY <2>1, <2>2, <2>3
<1> QED BY <1>6, <1>7, <1>8, <1>9, <1>10 DEF CoreInv

(* What was in flight on a dead transport is lost; the writer that sent it *)
(* will find out.                                                          *)
LEMMA ReadErrorCore ==
    ASSUME Typed, CoreInv, NEW p \in Sides, ReadError(p)
    PROVE  CoreInv'
<1> USE DEF connVars, sendVars, recvVars, ackVars, writerVars, readerVars, loopVars,
            serverVars, netVars
<1> DEFINE t == rconn[p]
<1>1. /\ UNCHANGED <<delivered, lastRecv, lastAcked, nextSend, kept, req, resp, wpc, wconn,
                     lastSent, resume>>
      /\ ~live[t] /\ pipe' = [pipe EXCEPT ![t][p] = <<>>]
      /\ \A u \in Transports : live'[u] => live[u]
  BY TransportsDie DEF ReadError
<1>2. t \in Transports /\ pipe \in [Transports -> [Sides -> Seq(Frame)]]
  BY DEF Typed, TypeOK, TransportsDialed, ReadError
<1>3. /\ pipe'[t][p] = <<>>
      /\ \A u \in Transports, s \in Sides : u # t \/ s # p => pipe'[u][s] = pipe[u][s]
  BY <1>1, <1>2
<1>4. InOrderOnce' /\ PeerNeverAhead' /\ KeptIsUnacked' /\ ReplayFollowsSent'
  BY <1>1 DEF CoreInv, InOrderOnce, PeerNeverAhead, KeptIsUnacked, ReplayFollowsSent, Writing
<1>5. AcksAreTrue'
  <2>1. \A u \in Transports, s \in Sides : TrueAcks(pipe'[u][s], lastRecv[Peer(s)])
    BY <1>3, PipeEmpty DEF CoreInv, AcksAreTrue
  <2> QED BY <1>1, <2>1 DEF CoreInv, AcksAreTrue
<1>6. PipesAreGapless'
  <2>1. \A u \in Transports, s \in Sides : Gapless(pipe'[u][s], lastRecv[s], nextSend[Peer(s)])
    BY <1>3, PipeEmpty DEF CoreInv, PipesAreGapless
  <2> QED BY <1>1, <2>1 DEF PipesAreGapless
<1>7. LastSentArrives'
  <2> SUFFICES ASSUME NEW s \in Sides, Writing(s), live'[wconn[s]]
               PROVE  \/ lastSent[s] <= lastRecv[Peer(s)]
                      \/ InFlight(pipe'[wconn[s]][Peer(s)], lastSent[s])
    BY <1>1 DEF LastSentArrives, Writing
  <2>1. wconn[s] \in Transports /\ Peer(s) \in Sides
    BY CoreTypes, PeerFacts
  <2>2. live[wconn[s]] /\ wconn[s] # t
    BY <1>1, <2>1
  <2>3. pipe'[wconn[s]][Peer(s)] = pipe[wconn[s]][Peer(s)]
    BY <1>3, <2>1, <2>2
  <2> QED BY <2>2, <2>3 DEF CoreInv, LastSentArrives
<1> QED BY <1>4, <1>5, <1>6, <1>7 DEF CoreInv

-----------------------------------------------------------------------------
(* The steps that dial, attach, close and break transports.                *)

(* A resume starts on a transport that nobody works on yet. *)
LEMMA DialCore ==
    ASSUME Typed, CoreInv, Dial
    PROVE  CoreInv'
<1> USE DEF connVars, sendVars, recvVars, ackVars, writerVars, readerVars, loopVars,
            serverVars, netVars
<1> DEFINE t == ntrans + 1
<1>1. /\ UNCHANGED <<delivered, lastRecv, lastAcked, nextSend, kept, resp, pipe, wpc, wconn,
                     lastSent, resume>>
      /\ live' = [live EXCEPT ![t] = TRUE]
      /\ req' = [req EXCEPT ![t] = lastRecv["client"]]
  BY DEF Dial
<1>2. InOrderOnce' /\ PeerNeverAhead' /\ KeptIsUnacked' /\ ReplayFollowsSent' /\ PipesAreGapless'
  BY <1>1 DEF CoreInv, InOrderOnce, PeerNeverAhead, KeptIsUnacked, ReplayFollowsSent,
              PipesAreGapless, Writing
<1>3. AcksAreTrue'
  <2>1. req \in [Transports -> Nat] /\ lastRecv["client"] \in Nat
    BY DEF Typed, TypeOK, Sides
  <2>2. \A u \in Transports : req'[u] <= lastRecv["client"]
    BY <1>1, <2>1 DEF CoreInv, AcksAreTrue
  <2> QED BY <1>1, <2>2 DEF CoreInv, AcksAreTrue
<1>4. LastSentArrives'
  <2>1. \A s \in Sides : Writing(s) => wconn[s] \in Transports /\ wconn[s] # t
    <3>1. ntrans \in Nat /\ \A s \in Sides : wconn[s] <= ntrans
      BY DEF Typed, TypeOK, TransportsDialed, Transports
    <3> QED BY <3>1, CoreTypes DEF Transports
  <2>2. live \in [Transports -> BOOLEAN]
    BY DEF Typed, TypeOK
  <2>3. \A s \in Sides : Writing(s) => live'[wconn[s]] = live[wconn[s]]
    BY <1>1, <2>1, <2>2
  <2> QED BY <1>1, <2>3 DEF CoreInv, LastSentArrives, Writing
<1> QED BY <1>2, <1>3, <1>4 DEF CoreInv

(* The server's answer carries the last number it received. *)
LEMMA AnswerCore ==
    ASSUME Typed, CoreInv, NEW t \in Transports, ServerAnswer(t)
    PROVE  CoreInv'
<1> USE DEF connVars, sendVars, recvVars, ackVars, writerVars, readerVars, loopVars,
            serverVars, netVars
<1>1. /\ UNCHANGED <<delivered, lastRecv, lastAcked, nextSend, kept, req, pipe, wpc, wconn,
                     lastSent, resume, live>>
      /\ resp' = resp \/ resp' = [resp EXCEPT ![t] = lastRecv["server"]]
  BY DEF ServerAnswer, LastReceived
<1>2. /\ InOrderOnce' /\ PeerNeverAhead' /\ KeptIsUnacked' /\ ReplayFollowsSent'
      /\ PipesAreGapless' /\ LastSentArrives'
  BY <1>1 DEF CoreInv, InOrderOnce, PeerNeverAhead, KeptIsUnacked, ReplayFollowsSent,
              PipesAreGapless, LastSentArrives, Writing
<1>3. AcksAreTrue'
  <2>1. resp \in [Transports -> Nat] /\ lastRecv["server"] \in Nat
    BY DEF Typed, TypeOK, Sides
  <2>2. \A u \in Transports : resp'[u] <= lastRecv["server"]
    BY <1>1, <2>1 DEF CoreInv, AcksAreTrue
  <2> QED BY <1>1, <2>2 DEF CoreInv, AcksAreTrue
<1> QED BY <1>2, <1>3 DEF CoreInv

(* Every other step changes no number and no frame in flight. *)
LEMMA OtherCore ==
    ASSUME Typed, CoreInv,
           \/ \E p \in Sides : ReaderPick(p)
           \/ LoopStart \/ ClientAttach \/ ClientRejected \/ ResumeFails \/ LoopRelease
           \/ LoopRecheck \/ ResumeTimeout \/ Expire
           \/ \E t \in Transports : ServerAttach(t) \/ Break(t)
    PROVE  CoreInv'
<1> USE DEF connVars, sendVars, recvVars, ackVars, writerVars, readerVars, loopVars,
            serverVars, netVars
<1>1. UNCHANGED <<delivered, lastRecv, lastAcked, nextSend, kept, req, resp, pipe,
                  wpc, wconn, lastSent, resume>>
  BY DEF ReaderPick, LoopStart, ClientAttach, ClientRejected, ResumeFails, LoopRelease,
         LoopRecheck, ResumeTimeout, Expire, ServerAttach, Break
<1>2. \/ live' = live
      \/ \E t : live' = [live EXCEPT ![t] = FALSE]
      \/ \E t : \E p \in Sides : AttachTransport(p, t)
      \/ \E y : \E p \in Sides : MarkClosed(p, y)
  BY DEF ReaderPick, LoopStart, ClientAttach, ClientRejected, ResumeFails, LoopRelease,
         LoopRecheck, ResumeTimeout, Expire, ServerAttach, Break, Sides
<1>3. \A u \in Transports : live'[u] => live[u]
  BY <1>2, TransportsDie
<1> QED BY <1>1, <1>3, QuietAwake

-----------------------------------------------------------------------------
(* The theorem.                                                            *)

(* Every step keeps the numbers and the frames in flight in order. *)
LEMMA NextCore ==
    ASSUME Typed, CoreInv, Next
    PROVE  CoreInv'
BY WriterCore, DataCore, ReadAckCore, ReadErrorCore, DialCore, AnswerCore, OtherCore
   DEF Next, ReaderStep, LoopStep, ServerStep

(* And none closes a connection for a gap. *)
LEMMA NextNoGap ==
    ASSUME Typed, CoreInv, NoGap, Next
    PROVE  NoGap'
<1> USE DEF connVars, NoGap
<1>0. status \in [Sides -> {"open", "expired", "rejected", "gap"}]
  BY DEF Typed, TypeOK
<1>1. CASE \E p \in Sides : ReadData(p)
  BY <1>1, DataCore
<1>2. CASE Expire \/ ClientRejected
  BY <1>0, <1>2 DEF Expire, ClientRejected, MarkClosed, Sides
<1>3. CASE \E p \in Sides : WriterStep(p) \/ SendStep(p) \/ Heartbeat(p)
  BY <1>3 DEF WriterStep, SendStep, Heartbeat, WriterAttach, WriterPark, WriterWake,
       WriterLeave, WriteAck, WriteResume, WriteNextLive, WriterIdle, AckTimeout,
       StageWhileDetached, WaitLive, WaitHold
<1>4. CASE \E p \in Sides : ReaderPick(p) \/ ReadAck(p) \/ ReadError(p)
  BY <1>4 DEF ReaderPick, ReadAck, ReadError
<1>5. CASE LoopStart \/ Dial \/ ClientAttach \/ ResumeFails \/ LoopRelease \/ LoopRecheck
           \/ ResumeTimeout
  BY <1>5 DEF LoopStart, Dial, ClientAttach, ResumeFails, LoopRelease, LoopRecheck, ResumeTimeout
<1>6. CASE \E t \in Transports : ServerAnswer(t) \/ ServerAttach(t) \/ Break(t)
  BY <1>6 DEF ServerAnswer, ServerAttach, Break
<1> QED BY <1>1, <1>2, <1>3, <1>4, <1>5, <1>6 DEF Next, ReaderStep, LoopStep, ServerStep

(* The inductive invariant holds: whatever transports break, whenever      *)
(* either side resumes and however its goroutines interleave.              *)
THEOREM SessionInvHolds == Spec => []SessionInv
<1> DEFINE IInv == Typed /\ CoreInv /\ NoGap
<1>1. Init => IInv
  BY InitTyped, InitCore DEF Init, InitRest, NoGap
<1>2. IInv /\ [Next]_vars => IInv'
  <2>1. ASSUME IInv, Next PROVE IInv'
    BY <2>1, NextTyped, NextCore, NextNoGap
  <2>2. ASSUME IInv, UNCHANGED vars PROVE IInv'
    <3>1. Typed'
      BY <2>2, StutterTyped
    <3>2. UNCHANGED <<status, delivered, lastRecv, lastAcked, nextSend, kept, req, resp, pipe,
                      wpc, wconn, lastSent, resume, live>>
      BY <2>2 DEF vars, connVars, sendVars, recvVars, writerVars, serverVars, netVars
    <3>3. CoreInv'
      BY <2>2, <3>2, QuietAwake
    <3> QED BY <2>2, <3>1, <3>2, <3>3 DEF NoGap
  <2> QED BY <2>1, <2>2
<1>3. IInv => SessionInv
  BY DEF Typed, CoreInv, SessionInv
<1> HIDE DEF IInv
<1> QED BY <1>1, <1>2, <1>3, PTL DEF Spec

(* "recovery frame sequence gap" is unreachable: handleRecoveryDataFrame    *)
(* never finds a number missing.                                            *)
THEOREM NoGapHolds == Spec => []NoGap
<1>1. SessionInv => NoGap
  BY DEF SessionInv
<1> QED BY <1>1, SessionInvHolds, PTL

(* Streams get every frame once and in the order of its number.             *)
THEOREM InOrderOnceHolds == Spec => []InOrderOnce
<1>1. SessionInv => InOrderOnce
  BY DEF SessionInv
<1> QED BY <1>1, SessionInvHolds, PTL

(* Nothing is acknowledged before it is received, nor received before sent. *)
THEOREM PeerNeverAheadHolds == Spec => []PeerNeverAhead
<1>1. SessionInv => PeerNeverAhead
  BY DEF SessionInv
<1> QED BY <1>1, SessionInvHolds, PTL

(* The replay buffer always holds what the peer still lacks.                *)
THEOREM UnreceivedIsKeptHolds == Spec => []UnreceivedIsKept
<1>1. SessionInv /\ TypeOK => UnreceivedIsKept
  <2> SUFFICES ASSUME SessionInv, TypeOK, NEW p \in Sides
               PROVE  (lastRecv[Peer(p)] + 1)..nextSend[p] \subseteq kept[p]
    BY DEF UnreceivedIsKept
  <2>1. /\ Peer(p) \in Sides
        /\ lastRecv[Peer(p)] \in Nat /\ lastAcked[p] \in Nat /\ nextSend[p] \in Nat
    BY PeerFacts DEF TypeOK
  <2>2. /\ kept[p] = (lastAcked[p] + 1)..nextSend[p]
        /\ lastAcked[p] <= lastRecv[Peer(p)]
    BY DEF SessionInv, KeptIsUnacked, PeerNeverAhead
  <2> QED BY <2>1, <2>2
<1> QED BY <1>1, SessionInvHolds, TypesHold, PTL

-----------------------------------------------------------------------------
(* The session implements MessageChannel.                                  *)

closedNow == [p \in Sides |-> status[p] # "open"]

(* A frame that is staged in the buffer is one that the channel accepts. *)
LEMMA StageAccepts ==
    ASSUME Typed, NEW p \in Sides, Stage(p), status[p] = "open",
           UNCHANGED <<delivered, status>>
    PROVE  Channel!Accept(p) \/ nextSend' = nextSend
<1>1. ~closedNow[p] /\ UNCHANGED <<delivered, closedNow>>
  BY DEF closedNow
<1>2. CASE HasRoom(p)
  <2>1. nextSend' = [nextSend EXCEPT ![p] = @ + 1]
    BY <1>2 DEF Stage
  <2> QED BY <1>1, <2>1 DEF Channel!Accept, closedNow
<1>3. CASE ~HasRoom(p)
  BY <1>3 DEF Stage
<1> QED BY <1>2, <1>3

(* A data frame is dropped, or it is the one the channel delivers next. *)
LEMMA DataReceives ==
    ASSUME Typed, CoreInv, NEW p \in Sides, ReadData(p)
    PROVE  \/ Channel!Receive(p)
           \/ UNCHANGED <<nextSend, delivered, closedNow>>
<1> USE DEF connVars, sendVars, recvVars, ackVars, writerVars, readerVars, loopVars,
            serverVars, netVars
<1> DEFINE q == Peer(p)
           f == Head(Incoming(p))
<1>1. Receive(p) /\ f.kind = "data" /\ UNCHANGED nextSend /\ status[p] = "open"
  BY DEF ReadData, Receive, Running
<1>2. status' = status
  BY DataCore
<1>3. UNCHANGED closedNow /\ ~closedNow[p]
  BY <1>1, <1>2 DEF closedNow
<1>4. f.seq \in Nat /\ f.seq <= lastRecv[p] + 1 /\ f.seq <= nextSend[q]
  BY <1>1, NextFrame
<1>5. lastRecv[p] \in Nat /\ nextSend[q] \in Nat /\ q = Channel!Other(p)
  BY CoreTypes, PeerFacts DEF Peer, Channel!Other
<1>6. CASE f.seq <= lastRecv[p]
  <2>1. UNCHANGED delivered
    BY <1>6 DEF ReadData
  <2> QED BY <1>1, <1>3, <2>1
<1>7. CASE f.seq = lastRecv[p] + 1 /\ ~(f.seq <= lastRecv[p])
  <2>1. delivered' = [delivered EXCEPT ![p] = Append(@, f.seq)]
    BY <1>7 DEF ReadData
  <2>2. Len(delivered[p]) = lastRecv[p]
    <3>1. delivered[p] = [i \in 1..lastRecv[p] |-> i] /\ delivered[p] \in Seq(Nat)
      BY DEF CoreInv, InOrderOnce, Typed, TypeOK
    <3> QED BY <1>5, <3>1
  <2>3. delivered' = [delivered EXCEPT ![p] = Append(@, Len(@) + 1)]
    BY <1>7, <2>1, <2>2
  <2>4. Len(delivered[p]) < nextSend[Channel!Other(p)]
    BY <1>4, <1>5, <1>7, <2>2
  <2>5. Channel!Receive(p)
    BY <1>1, <1>3, <2>3, <2>4 DEF Channel!Receive, closedNow
  <2> QED BY <2>5
<1> QED BY <1>4, <1>5, <1>6, <1>7

(* A connection that closes is one that was open. *)
LEMMA ClosingCloses ==
    ASSUME Typed, NEW p \in Sides, NEW y, y # "open", MarkClosed(p, y), status[p] = "open",
           UNCHANGED <<nextSend, delivered>>
    PROVE  Channel!Close(p)
<1>1. status \in [Sides -> {"open", "expired", "rejected", "gap"}]
  BY DEF Typed, TypeOK
<1>2. closedNow' = [closedNow EXCEPT ![p] = TRUE] /\ ~closedNow[p]
  BY <1>1 DEF MarkClosed, closedNow
<1> QED BY <1>2 DEF Channel!Close, closedNow

(* Every step of the session is a step of the channel, or invisible. *)
LEMMA StepSimulates ==
    ASSUME Typed, CoreInv, Next
    PROVE  Channel!Next \/ UNCHANGED <<nextSend, delivered, closedNow>>
<1> USE DEF connVars, sendVars, recvVars, ackVars, writerVars, readerVars, loopVars,
            serverVars, netVars
<1>0. Channel!Ends = Sides
  BY DEF Channel!Ends, Sides
<1>1. CASE \E p \in Sides : ReadData(p)
  BY <1>0, <1>1, DataReceives DEF Channel!Next
<1>2. CASE \E p \in Sides : WriteNextLive(p) \/ WaitLive(p) \/ StageWhileDetached(p)
  <2>1. PICK p \in Sides : WriteNextLive(p) \/ WaitLive(p) \/ StageWhileDetached(p)
    BY <1>2
  <2>2. Stage(p) /\ status[p] = "open" /\ UNCHANGED <<delivered, status>>
    BY <2>1 DEF WriteNextLive, WaitLive, StageWhileDetached, WriteLive, Running
  <2>3. Channel!Accept(p) \/ nextSend' = nextSend
    BY <2>2, StageAccepts
  <2> QED BY <1>0, <2>2, <2>3 DEF Channel!Next, closedNow
<1>3. CASE Expire
  <2>1. /\ MarkClosed("server", "expired") /\ status["server"] = "open"
        /\ UNCHANGED <<nextSend, delivered>> /\ "server" \in Sides
    BY <1>3 DEF Expire, Running, Sides
  <2> QED BY <1>0, <2>1, ClosingCloses DEF Channel!Next
<1>4. CASE ClientRejected
  <2>1. /\ MarkClosed("client", "rejected") /\ status["client"] = "open"
        /\ UNCHANGED <<nextSend, delivered>> /\ "client" \in Sides
    BY <1>4 DEF ClientRejected, ClientOpen, Sides
  <2> QED BY <1>0, <2>1, ClosingCloses DEF Channel!Next
<1>5. CASE \E p \in Sides : \/ WriterAttach(p) \/ WriterPark(p) \/ WriterWake(p) \/ WriterLeave(p)
                            \/ WriteAck(p) \/ WriteResume(p) \/ AckTimeout(p) \/ Heartbeat(p)
                            \/ ReaderPick(p) \/ ReadAck(p) \/ ReadError(p)
  BY <1>5 DEF WriterAttach, WriterPark, WriterWake, WriterLeave, WriteAck, WriteResume,
              AckTimeout, Heartbeat, ReaderPick, ReadAck, ReadError, closedNow
<1>6. CASE \E p \in Sides : WaitHold(p) \/ WriterIdle(p)
  BY <1>6 DEF WaitHold, WriterIdle, Stage, closedNow
<1>7. CASE \/ LoopStart \/ Dial \/ ClientAttach \/ ResumeFails \/ LoopRelease \/ LoopRecheck
           \/ ResumeTimeout
           \/ \E t \in Transports : ServerAnswer(t) \/ ServerAttach(t) \/ Break(t)
  BY <1>7 DEF LoopStart, Dial, ClientAttach, ResumeFails, LoopRelease, LoopRecheck,
              ResumeTimeout, ServerAnswer, ServerAttach, Break, closedNow
<1> QED BY <1>1, <1>2, <1>3, <1>4, <1>5, <1>6, <1>7
        DEF Next, WriterStep, SendStep, ReaderStep, LoopStep, ServerStep

(* The reliable channel that applications rely on is what the endpoints,   *)
(* transports and resumes implement, for all bounds.                       *)
THEOREM SessionImplementsChannel == Spec => ImplementsChannel
<1>1. Init => Channel!Init
  <2> SUFFICES ASSUME Init PROVE Channel!Init
    OBVIOUS
  <2>1. Channel!Ends = Sides
    BY DEF Channel!Ends, Sides
  <2>2. nextSend = [p \in Sides |-> 0] /\ delivered = [p \in Sides |-> <<>>]
    BY DEF Init, InitRest
  <2>3. \A p \in Sides : status[p] = "open"
    BY DEF Init, InitRest
  <2>4. [p \in Sides |-> status[p] # "open"] = [p \in Sides |-> FALSE]
    BY <2>3
  <2> QED BY <2>1, <2>2, <2>4 DEF Channel!Init
<1>2. Typed /\ CoreInv /\ [Next]_vars => [Channel!Next]_<<nextSend, delivered, closedNow>>
  <2>1. UNCHANGED vars => UNCHANGED <<nextSend, delivered, closedNow>>
    BY DEF vars, connVars, sendVars, recvVars, closedNow
  <2> QED BY <2>1, StepSimulates
<1>3. SessionInv /\ TypeOK => Typed /\ CoreInv
  BY DEF SessionInv, CoreInv, Typed
<1> QED BY <1>1, <1>2, <1>3, SessionInvHolds, TypesHold, PTL
        DEF Spec, ImplementsChannel, Channel!Spec, closedNow
=============================================================================
