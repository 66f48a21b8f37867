----------------------- MODULE RecoveryScheduleProofs -----------------------
(***************************************************************************)
(* More proofs about RecoverySession: what its goroutines owe each other.  *)
(* ACKs are scheduled, a writer that sleeps is woken, a client without a   *)
(* transport reconnects and gives up only after the server, for every      *)
(* number of frames, transports and failures.                              *)
(***************************************************************************)
EXTENDS RecoverySessionProofs

-----------------------------------------------------------------------------
(* The inductive invariant, beside that of RecoverySession.                *)

(* No ACK covers what was not received. *)
AckSentReceived == \A p \in Sides : lastAckSent[p] <= lastRecv[p]

(* An ACK that AckEvery frames call for does not wait for its delay. *)
DelayedCoversFew == \A p \in Sides : ack[p] = "delayed" => ackPending[p] < AckEvery

AcksOwed == AckScheduledIffOwed /\ AckSentReceived /\ DelayedCoversFew

(* A writer that is in writeTransport and not asleep has found its         *)
(* transport attached, or a signal tells it otherwise.                     *)
NextIsAttached ==
    \A p \in Sides : Running(p) /\ ~notify[p] /\ wpc[p] = "next" => conn[p] = wconn[p]

Awakened == NoLostWakeup /\ NextIsAttached

(* Both, of one side. *)
Awake(p) ==
    Running(p) /\ ~notify[p] =>
        /\ wpc[p] = "parked" => conn[p] \in {None, wconn[p]}
        /\ wpc[p] \in {"wait", "ackWait", "overdue"} =>
             /\ ack[p] = "due" => wpc[p] = "overdue" /\ ackPending[p] < AckEvery
             /\ ack[p] = "delayed" => wpc[p] = "ackWait"
             /\ held[p] => ~HasRoom(p)
        /\ wpc[p] \in {"next", "wait", "ackWait", "overdue"} => conn[p] = wconn[p]

(* The server rejects a resume only once it has closed. *)
RejectedIsGone ==
    \A t \in Transports : handler[t] = "rejected" => status["server"] # "open"

ServerFirst == ClientOutlivesServer /\ RejectedIsGone

ScheduleInv == AcksOwed /\ Awakened /\ DetachedClientReconnects /\ ServerFirst

-----------------------------------------------------------------------------
(* ACKs.                                                                   *)

(* noteReceived of a new frame. *)
LEMMA ReceivedAck ==
    ASSUME Typed, NEW p \in Sides, NEW s, NoteReceived(p, s)
    PROVE  /\ ack'[p] # "idle"
           /\ ack'[p] = "delayed" => ackPending'[p] < AckEvery
           /\ ~notify'[p] => /\ ~notify[p] /\ ack[p] # "idle" /\ ack'[p] = ack[p]
                             /\ ackPending'[p] < AckEvery
<1>0. /\ ack \in [Sides -> {"idle", "delayed", "due"}] /\ ackPending \in [Sides -> Nat]
      /\ notify \in [Sides -> BOOLEAN] /\ AckEvery \in Nat
  BY ConstantsAssumption DEF Typed, TypeOK
<1> DEFINE due == ackPending[p] + 1 >= AckEvery
<1>1. /\ ackPending'[p] = ackPending[p] + 1
      /\ ack'[p] = IF due \/ ack[p] = "due" THEN "due" ELSE "delayed"
      /\ notify'[p] = (notify[p] \/ due \/ ack[p] = "idle")
  BY <1>0 DEF NoteReceived
<1>2. CASE due
  BY <1>0, <1>1, <1>2
<1>3. CASE ~due
  <2>1. ackPending'[p] < AckEvery
    BY <1>0, <1>1, <1>3
  <2>2. ack'[p] = (IF ack[p] = "due" THEN "due" ELSE "delayed")
        /\ notify'[p] = (notify[p] \/ ack[p] = "idle")
    BY <1>1, <1>3
  <2> HIDE DEF due
  <2> QED BY <1>0, <2>1, <2>2
<1> QED BY <1>2, <1>3

LEMMA NextAcksOwed ==
    ASSUME Typed, AcksOwed, Next
    PROVE  AcksOwed'
<1> USE DEF recvVars, ackVars, AcksOwed, AckScheduledIffOwed, AckSentReceived,
           DelayedCoversFew
<1>0. /\ ack \in [Sides -> {"idle", "delayed", "due"}] /\ ackPending \in [Sides -> Nat]
      /\ lastAckSent \in [Sides -> Nat] /\ lastRecv \in [Sides -> Nat]
      /\ AckEvery \in Nat
  BY ConstantsAssumption DEF Typed, TypeOK
<1>1. ASSUME NEW p \in Sides, WriteAck(p)
      PROVE  AcksOwed'
  BY <1>0, <1>1 DEF WriteAck, TakeAck
<1>2. ASSUME NEW p \in Sides, AckTimeout(p)
      PROVE  AcksOwed'
  BY <1>0, <1>2 DEF AckTimeout
<1>3. ASSUME NEW p \in Sides, ReadData(p)
      PROVE  AcksOwed'
  <2> DEFINE s == Head(Incoming(p)).seq
  <2>1. CASE s <= lastRecv[p]
    BY <1>0, <1>3, <2>1 DEF ReadData, NoteDuplicate
  <2>2. CASE ~(s <= lastRecv[p]) /\ s = lastRecv[p] + 1
    <3>1. NoteReceived(p, s)
      BY <1>3, <2>2 DEF ReadData
    <3>2. /\ lastRecv' = [lastRecv EXCEPT ![p] = lastRecv[p] + 1] /\ UNCHANGED lastAckSent
          /\ \A q \in Sides : q # p => ack'[q] = ack[q] /\ ackPending'[q] = ackPending[q]
          /\ ack'[p] # "idle"
          /\ ack'[p] = "delayed" => ackPending'[p] < AckEvery
      BY <1>0, <2>2, <3>1, ReceivedAck DEF NoteReceived
    <3> QED BY <1>0, <3>2
  <2>3. CASE ~(s <= lastRecv[p]) /\ s # lastRecv[p] + 1
    BY <1>3, <2>3 DEF ReadData
  <2> QED BY <2>1, <2>2, <2>3
<1>4. CASE \E p \in Sides : \/ WriterAttach(p) \/ WriterPark(p) \/ WriterWake(p)
                            \/ WriterLeave(p) \/ WriteResume(p) \/ WriteNextLive(p)
                            \/ SendStep(p) \/ Heartbeat(p)
                            \/ ReaderPick(p) \/ ReadAck(p) \/ ReadError(p)
  BY <1>4 DEF WriterAttach, WriterPark, WriterWake, WriterLeave, WriteResume, WriteNextLive,
       SendStep, StageWhileDetached, WaitLive, WaitHold, Heartbeat, ReaderPick,
       ReadAck, ReadError
<1>5. ASSUME NEW p \in Sides, WriterIdle(p)
      PROVE  AcksOwed'
  <2>1. UNCHANGED <<lastRecv, lastAckSent, ackPending>>
    BY <1>5 DEF WriterIdle
  <2>2. UNCHANGED ack \/ (ack[p] = "delayed" /\ ack' = [ack EXCEPT ![p] = "due"])
    BY <1>5 DEF WriterIdle, NextAckWait
  <2> QED BY <1>0, <2>1, <2>2
<1>6. CASE LoopStep \/ ResumeTimeout \/ ServerStep \/ Expire \/ \E t \in Transports : Break(t)
  BY <1>6 DEF LoopStep, LoopStart, Dial, ClientAttach, ClientRejected, ResumeFails,
       LoopRelease, LoopRecheck, ResumeTimeout, ServerStep, ServerAnswer, ServerAttach,
       Expire, Break
<1> QED
  BY <1>1, <1>2, <1>3, <1>4, <1>5, <1>6 DEF Next, WriterStep, ReaderStep

-----------------------------------------------------------------------------
(* Reconnecting.                                                           *)

(* detachTransport of the client starts a goroutine. *)
LEMMA DetachReconnects ==
    ASSUME Typed, DetachedClientReconnects, NEW p \in Sides, NEW t, DetachTransport(p, t),
           UNCHANGED <<status, loop, rechecking>>
    PROVE  DetachedClientReconnects'
<1>0. starting \in Nat /\ conn \in [Sides -> Transports \cup {None}]
  BY DEF Typed, TypeOK
<1>1. CASE conn[p] = t
  BY <1>0, <1>1 DEF DetachTransport, OnDetached, DetachedClientReconnects, ClientOpen, Sides
<1>2. CASE conn[p] # t
  BY <1>2 DEF DetachTransport, DetachedClientReconnects, ClientOpen
<1> QED BY <1>1, <1>2

LEMMA NextReconnects ==
    ASSUME Typed, DetachedClientReconnects, Next
    PROVE  DetachedClientReconnects'
<1> USE DEF connVars, loopVars, DetachedClientReconnects, ClientOpen
<1>0. /\ starting \in Nat /\ rechecking \in Nat /\ dialing \in Transports \cup {None}
      /\ conn \in [Sides -> Transports \cup {None}]
      /\ status \in [Sides -> {"open", "expired", "rejected", "gap"}]
  BY DEF Typed, TypeOK
<1>1. CASE LoopStart
  BY <1>0, <1>1 DEF LoopStart
<1>2. CASE ClientAttach
  BY <1>0, <1>2 DEF ClientAttach
<1>3. CASE ClientRejected
  BY <1>0, <1>3 DEF ClientRejected, MarkClosed, Sides
<1>4. CASE LoopRelease
  BY <1>0, <1>4 DEF LoopRelease
<1>5. CASE LoopRecheck
  BY <1>0, <1>5 DEF LoopRecheck, MissedDetach
<1>6. CASE Dial \/ ResumeFails \/ ResumeTimeout \/ \E t \in Transports : Break(t)
  BY <1>6 DEF Dial, ResumeFails, ResumeTimeout, Break
<1>7. CASE Expire
  BY <1>0, <1>7 DEF Expire, MarkClosed, Sides
<1>8. ASSUME NEW t \in Transports, ServerAnswer(t) \/ ServerAttach(t)
      PROVE  DetachedClientReconnects'
  BY <1>0, <1>8 DEF ServerAnswer, ServerAttach, AttachTransport, Sides
<1>9. ASSUME NEW p \in Sides, ReadData(p)
      PROVE  DetachedClientReconnects'
  BY <1>0, <1>9 DEF ReadData, MarkClosed, Sides
<1>10. ASSUME NEW p \in Sides, ReadError(p)
       PROVE  DetachedClientReconnects'
  BY <1>10, DetachReconnects DEF ReadError
<1>11. ASSUME NEW p \in Sides,
              \/ WriterAttach(p) \/ WriterPark(p) \/ WriterWake(p) \/ WriterLeave(p)
              \/ AckTimeout(p) \/ StageWhileDetached(p) \/ WaitHold(p) \/ ReaderPick(p)
              \/ ReadAck(p)
       PROVE  DetachedClientReconnects'
  BY <1>11 DEF WriterAttach, WriterPark, WriterWake, WriterLeave, AckTimeout,
       StageWhileDetached, WaitHold, ReaderPick, ReadAck
<1>12. ASSUME NEW p \in Sides,
              \/ WriteAck(p) \/ WriteResume(p) \/ WriteNextLive(p) \/ WriterIdle(p)
              \/ WaitLive(p) \/ Heartbeat(p)
       PROVE  DetachedClientReconnects'
  <2>1. UNCHANGED <<status, loop, rechecking>>
    BY <1>12 DEF WriteAck, WriteResume, WriteNextLive, WriterIdle, WaitLive, Heartbeat
  <2>2. DetachTransport(p, wconn[p]) \/ UNCHANGED <<conn, starting>>
    BY <1>12 DEF WriteAck, WriteResume, WriteNextLive, WriterIdle, WaitLive, Heartbeat,
         WriteLive, Write, WriteFails
  <2> QED BY <2>1, <2>2, DetachReconnects
<1> QED
  BY <1>1, <1>2, <1>3, <1>4, <1>5, <1>6, <1>7, <1>8, <1>9, <1>10, <1>11, <1>12
     DEF Next, WriterStep, SendStep, ReaderStep, LoopStep, ServerStep

-----------------------------------------------------------------------------
(* Giving up.                                                              *)

LEMMA NextServerFirst ==
    ASSUME Typed, ServerFirst, Next, NoGap'
    PROVE  ServerFirst'
<1> USE DEF connVars, serverVars, ServerFirst, ClientOutlivesServer, RejectedIsGone, ClientOpen
<1>0. /\ status \in [Sides -> {"open", "expired", "rejected", "gap"}]
      /\ handler \in [Transports -> {"none", "asked", "answered", "done", "failed", "rejected"}]
      /\ dialing \in Transports \cup {None}
  BY DEF Typed, TypeOK
<1>1. CASE ClientRejected
  BY <1>0, <1>1 DEF ClientRejected, Rejected, MarkClosed, Sides
<1>2. CASE Expire
  BY <1>0, <1>2 DEF Expire, MarkClosed, Sides
<1>3. ASSUME NEW t \in Transports, ServerAnswer(t)
      PROVE  ServerFirst'
  BY <1>0, <1>3 DEF ServerAnswer, Resumable
<1>4. ASSUME NEW t \in Transports, ServerAttach(t)
      PROVE  ServerFirst'
  BY <1>0, <1>4 DEF ServerAttach
<1>5. CASE Dial
  BY <1>0, <1>5 DEF Dial
<1>6. ASSUME NEW p \in Sides, ReadData(p)
      PROVE  ServerFirst'
  <2>1. UNCHANGED handler /\ (MarkClosed(p, "gap") \/ UNCHANGED status)
    BY <1>6 DEF ReadData
  <2>2. UNCHANGED status
    BY <1>0, <2>1 DEF NoGap, MarkClosed
  <2> QED BY <2>1, <2>2
<1>7. CASE \/ LoopStart \/ ClientAttach \/ ResumeFails \/ LoopRelease \/ LoopRecheck
           \/ ResumeTimeout \/ \E t \in Transports : Break(t)
  BY <1>7 DEF LoopStart, ClientAttach, ResumeFails, LoopRelease, LoopRecheck, ResumeTimeout,
       Break
<1>8. CASE \E p \in Sides : WriterStep(p) \/ SendStep(p) \/ Heartbeat(p)
  BY <1>8 DEF WriterStep, SendStep, Heartbeat, WriterAttach, WriterPark, WriterWake,
       WriterLeave, WriteAck, WriteResume, WriteNextLive, WriterIdle, AckTimeout,
       StageWhileDetached, WaitLive, WaitHold
<1>9. CASE \E p \in Sides : ReaderPick(p) \/ ReadAck(p) \/ ReadError(p)
  BY <1>9 DEF ReaderPick, ReadAck, ReadError
<1> QED
  BY <1>1, <1>2, <1>3, <1>4, <1>5, <1>6, <1>7, <1>8, <1>9
     DEF Next, ReaderStep, LoopStep, ServerStep

-----------------------------------------------------------------------------
(* Waking.                                                                 *)

LEMMA AwakenedIs == Awakened <=> \A p \in Sides : Awake(p)
BY DEF Awakened, NoLostWakeup, NextIsAttached, Awake

(* What the wakeups depend on, and its types. *)
LEMMA WakeTypes ==
    ASSUME Typed
    PROVE  /\ conn \in [Sides -> Transports \cup {None}]
           /\ wconn \in [Sides -> Transports \cup {None}]
           /\ wpc \in [Sides -> {"top", "parked", "next", "wait", "ackWait", "overdue"}]
           /\ notify \in [Sides -> BOOLEAN] /\ held \in [Sides -> BOOLEAN]
           /\ ack \in [Sides -> {"idle", "delayed", "due"}]
           /\ ackPending \in [Sides -> Nat] /\ AckEvery \in Nat
           /\ status \in [Sides -> {"open", "expired", "rejected", "gap"}]
           /\ kept \in [Sides -> SUBSET Nat]
BY ConstantsAssumption DEF Typed, TypeOK

(* A side of which nothing changes, or which is signalled, does not sleep  *)
(* for longer than it may.                                                 *)
LEMMA KeepsAwake ==
    ASSUME NEW q \in Sides, Awake(q), Running(q)' => Running(q),
           \/ notify'[q]
           \/ /\ conn'[q] = conn[q] /\ wconn'[q] = wconn[q] /\ wpc'[q] = wpc[q]
              /\ notify'[q] = notify[q] /\ held'[q] = held[q] /\ ack'[q] = ack[q]
              /\ ackPending'[q] = ackPending[q] /\ kept'[q] = kept[q]
    PROVE  Awake(q)'
BY DEF Awake, HasRoom

(* The writer goes on with its transport only if that is attached. *)
LEMMA ContinueAwake ==
    ASSUME Typed, NEW p \in Sides, Continue(p), conn' = conn, wconn' = wconn
    PROVE  Awake(p)'
BY WakeTypes DEF Continue, Awake

(* Leaving writeTransport, it looks again before it parks. *)
LEMMA TopAwake ==
    ASSUME Typed, NEW p \in Sides, wpc' = [wpc EXCEPT ![p] = "top"]
    PROVE  Awake(p)'
BY WakeTypes DEF Awake

(* Another side's steps. *)
LEMMA DetachElsewhere ==
    ASSUME Typed, NEW p \in Sides, NEW t, DetachTransport(p, t)
    PROVE  \A q \in Sides : q # p => conn'[q] = conn[q] /\ notify'[q] = notify[q]
BY WakeTypes DEF DetachTransport, SignalSend

LEMMA WriteElsewhere ==
    ASSUME Typed, NEW p \in Sides, NEW f, Write(p, f) \/ WriteFails(p)
    PROVE  /\ \A q \in Sides : q # p => /\ conn'[q] = conn[q] /\ notify'[q] = notify[q]
                                        /\ wpc'[q] = wpc[q]
           /\ wconn' = wconn => Awake(p)'
<1>1. CASE Write(p, f)
  <2>1. Continue(p) /\ UNCHANGED <<conn, notify>>
    BY <1>1 DEF Write
  <2>2. \A q \in Sides : q # p => wpc'[q] = wpc[q]
    BY <2>1, WakeTypes DEF Continue
  <2> QED BY <2>1, <2>2, ContinueAwake
<1>2. CASE WriteFails(p)
  <2>1. DetachTransport(p, wconn[p]) /\ wpc' = [wpc EXCEPT ![p] = "top"]
    BY <1>2 DEF WriteFails
  <2> QED BY <2>1, WakeTypes, DetachElsewhere, TopAwake
<1> QED BY <1>1, <1>2

LEMMA StageElsewhere ==
    ASSUME Typed, NEW p \in Sides, Stage(p)
    PROVE  \A q \in Sides : q # p => kept'[q] = kept[q] /\ held'[q] = held[q]
BY WakeTypes DEF Stage

(* Every step of a writer leaves it awake, or asleep with nothing to do. *)
LEMMA WriterAwake ==
    ASSUME Typed, DelayedCoversFew, NEW p \in Sides, Awake(p),
           WriterStep(p) \/ SendStep(p) \/ Heartbeat(p)
    PROVE  Awake(p)'
<1> USE DEF connVars, sendVars, ackVars, writerVars, serverVars
<1>1. CASE WriterAttach(p)
  BY <1>1, WakeTypes DEF WriterAttach, Awake
<1>2. CASE WriterPark(p)
  BY <1>2, WakeTypes DEF WriterPark, Awake
<1>3. CASE WriterWake(p)
  BY <1>3, WakeTypes DEF WriterWake, Awake
<1>4. CASE WriterLeave(p) \/ StageWhileDetached(p)
  BY <1>4, TopAwake DEF WriterLeave, StageWhileDetached
<1>5. CASE WriteAck(p)
  BY <1>5, WriteElsewhere DEF WriteAck
<1>6. CASE WriteResume(p)
  <2>1. \/ Continue(p) /\ UNCHANGED conn
        \/ \E f : Write(p, f) \/ WriteFails(p)
    BY <1>6 DEF WriteResume
  <2>2. UNCHANGED wconn
    BY <1>6 DEF WriteResume
  <2> QED BY <2>1, <2>2, WriteElsewhere, ContinueAwake
<1>7. CASE WriteNextLive(p) \/ WaitLive(p)
  <2>1. \/ Continue(p) /\ UNCHANGED conn
        \/ \E f : Write(p, f) \/ WriteFails(p)
    BY <1>7 DEF WriteNextLive, WaitLive, WriteLive
  <2>2. UNCHANGED wconn
    BY <1>7 DEF WriteNextLive, WaitLive
  <2> QED BY <2>1, <2>2, WriteElsewhere, ContinueAwake
<1>8. CASE WriterIdle(p)
  <2>1. CASE WriteFails(p)
    BY <2>1, TopAwake DEF WriteFails
  <2>2. CASE ~WriteFails(p)
    <3>1. /\ Running(p) /\ wpc[p] = "next" /\ NextAckWait(p)
          /\ UNCHANGED <<conn, wconn, notify, ackPending, status, handler>>
      BY <1>8, <2>2 DEF WriterIdle
    <3>2. held'[p] => ~HasRoom(p)'
      BY <1>8, WakeTypes DEF WriterIdle, Stage, HasRoom
    <3>3. \/ wpc'[p] = "wait" /\ ack'[p] = "idle"
          \/ wpc'[p] = "ackWait" /\ ack'[p] = "delayed"
          \/ wpc'[p] = "overdue" /\ ack'[p] = "due" /\ ackPending[p] < AckEvery
      BY <3>1, WakeTypes DEF NextAckWait, DelayedCoversFew
    <3>4. Running(p)' => Running(p)
      BY <3>1 DEF Running
    <3>5. ~notify'[p] => conn'[p] = wconn'[p]
      BY <3>1 DEF Awake
    <3> QED BY <3>1, <3>2, <3>3, <3>4, <3>5 DEF Awake
  <2> QED BY <2>1, <2>2
<1>9. CASE AckTimeout(p) \/ WaitHold(p)
  BY <1>9, ContinueAwake DEF AckTimeout, WaitHold
<1>10. CASE Heartbeat(p)
  <2>1. UNCHANGED wconn
    BY <1>10 DEF Heartbeat
  <2>2. CASE WriteFails(p)
    BY <2>2, TopAwake DEF WriteFails
  <2>3. CASE ~WriteFails(p)
    BY <1>10, <2>1, <2>3, ContinueAwake DEF Heartbeat
  <2> QED BY <2>2, <2>3
<1> QED
  BY <1>1, <1>2, <1>3, <1>4, <1>5, <1>6, <1>7, <1>8, <1>9, <1>10 DEF WriterStep, SendStep

(* It leaves the other side alone. *)
LEMMA WriterElsewhere ==
    ASSUME Typed, NEW p \in Sides, WriterStep(p) \/ SendStep(p) \/ Heartbeat(p),
           NEW q \in Sides, q # p, Awake(q)
    PROVE  Awake(q)'
<1> USE DEF connVars, sendVars, ackVars, writerVars, serverVars
<1>1. UNCHANGED <<status, handler>>
  BY DEF WriterStep, SendStep, Heartbeat, WriterAttach, WriterPark, WriterWake,
       WriterLeave, WriteAck, WriteResume, WriteNextLive, WriterIdle, AckTimeout,
       StageWhileDetached, WaitLive, WaitHold
<1>2. CASE WriterAttach(p)
  BY <1>1, <1>2, WakeTypes, KeepsAwake DEF WriterAttach, ReplayAck, Running
<1>3. CASE WriterPark(p) \/ WriterWake(p) \/ WriterLeave(p)
  BY <1>1, <1>3, WakeTypes, KeepsAwake DEF WriterPark, WriterWake, WriterLeave, Running
<1>4. CASE StageWhileDetached(p) \/ WaitHold(p) \/ AckTimeout(p)
  BY <1>1, <1>4, WakeTypes, KeepsAwake, StageElsewhere
     DEF StageWhileDetached, WaitHold, AckTimeout, Continue, Running
<1>5. CASE WriteAck(p)
  BY <1>1, <1>5, WakeTypes, KeepsAwake, WriteElsewhere DEF WriteAck, TakeAck, Running
<1>6. CASE WriteResume(p)
  <2>1. \/ Continue(p) /\ UNCHANGED <<conn, notify>>
        \/ \E f : Write(p, f) \/ WriteFails(p)
    BY <1>6 DEF WriteResume
  <2>2. conn'[q] = conn[q] /\ notify'[q] = notify[q] /\ wpc'[q] = wpc[q]
    BY <2>1, WakeTypes, WriteElsewhere DEF Continue
  <2> QED BY <1>1, <1>6, <2>2, KeepsAwake DEF WriteResume, Running
<1>7. CASE WriteNextLive(p) \/ WaitLive(p)
  <2>1. \/ Continue(p) /\ UNCHANGED <<conn, notify>>
        \/ \E f : Write(p, f) \/ WriteFails(p)
    BY <1>7 DEF WriteNextLive, WaitLive, WriteLive
  <2>2. conn'[q] = conn[q] /\ notify'[q] = notify[q] /\ wpc'[q] = wpc[q]
    BY <2>1, WakeTypes, WriteElsewhere DEF Continue
  <2>3. kept'[q] = kept[q] /\ held'[q] = held[q]
    BY <1>7, StageElsewhere DEF WriteNextLive, WaitLive, WriteLive
  <2> QED BY <1>1, <1>7, <2>2, <2>3, KeepsAwake DEF WriteNextLive, WaitLive, Running
<1>8. CASE WriterIdle(p) \/ Heartbeat(p)
  <2>1. conn'[q] = conn[q] /\ notify'[q] = notify[q] /\ wpc'[q] = wpc[q]
    BY <1>8, WakeTypes, WriteElsewhere DEF WriterIdle, NextAckWait, Heartbeat, Continue
  <2>2. kept'[q] = kept[q] /\ held'[q] = held[q]
    BY <1>8, StageElsewhere DEF WriterIdle, Heartbeat
  <2>3. ack'[q] = ack[q] /\ ackPending'[q] = ackPending[q]
    BY <1>8, WakeTypes DEF WriterIdle, Heartbeat, NextAckWait
  <2> QED BY <1>1, <1>8, <2>1, <2>2, <2>3, KeepsAwake DEF WriterIdle, Heartbeat, Running
<1> QED
  BY <1>2, <1>3, <1>4, <1>5, <1>6, <1>7, <1>8 DEF WriterStep, SendStep

(* A reader signals its writer when there is something to do. *)
LEMMA ReaderAwake ==
    ASSUME Typed, NEW p \in Sides, ReaderStep(p), NEW q \in Sides, Awake(q)
    PROVE  Awake(q)'
<1> USE DEF connVars, sendVars, ackVars, writerVars, serverVars
<1>1. CASE ReaderPick(p)
  BY <1>1, KeepsAwake DEF ReaderPick, Running
<1>2. CASE ReadAck(p)
  BY <1>2, WakeTypes, KeepsAwake DEF ReadAck, ReplayAck, SignalSend, Running
<1>3. CASE ReadError(p)
  BY <1>3, WakeTypes, KeepsAwake DEF ReadError, DetachTransport, SignalSend, Running
<1>4. CASE ReadData(p)
  <2> DEFINE s == Head(Incoming(p)).seq
  <2>0. UNCHANGED <<kept, held, wpc, wconn, handler>>
    BY <1>4 DEF ReadData
  <2>1. CASE s <= lastRecv[p]
    <3>1. NoteDuplicate(p) /\ UNCHANGED <<conn, status>>
      BY <1>4, <2>1 DEF ReadData
    <3> QED BY <2>0, <3>1, WakeTypes, KeepsAwake DEF NoteDuplicate, SignalSend, Running
  <2>2. CASE ~(s <= lastRecv[p]) /\ s = lastRecv[p] + 1
    <3>1. NoteReceived(p, s) /\ UNCHANGED <<conn, status>>
      BY <1>4, <2>2 DEF ReadData
    <3>2. CASE q # p
      BY <2>0, <3>1, <3>2, WakeTypes, KeepsAwake DEF NoteReceived, Running
    <3>3. CASE q = p
      <4>1. ~notify'[p] => /\ ~notify[p] /\ ack[p] # "idle" /\ ack'[p] = ack[p]
                           /\ ackPending'[p] < AckEvery
        BY <3>1, ReceivedAck
      <4> QED BY <2>0, <3>1, <3>3, <4>1 DEF Awake, HasRoom, Running
    <3> QED BY <3>2, <3>3
  <2>3. CASE ~(s <= lastRecv[p]) /\ s # lastRecv[p] + 1
    <3>1. MarkClosed(p, "gap") /\ UNCHANGED <<notify, ack, ackPending>>
      BY <1>4, <2>3 DEF ReadData
    <3>2. CASE q # p
      BY <2>0, <3>1, <3>2, WakeTypes, KeepsAwake DEF MarkClosed, Running
    <3>3. CASE q = p
      BY <3>1, <3>3, WakeTypes DEF MarkClosed, Awake, Running
    <3> QED BY <3>2, <3>3
  <2> QED BY <2>1, <2>2, <2>3
<1> QED BY <1>1, <1>2, <1>3, <1>4 DEF ReaderStep

(* So does whoever attaches a transport. *)
LEMMA OtherAwake ==
    ASSUME Typed, NEW q \in Sides, Awake(q),
           \/ LoopStep \/ ResumeTimeout \/ ServerStep \/ Expire
           \/ \E t \in Transports : Break(t)
    PROVE  Awake(q)'
<1> USE DEF connVars, sendVars, ackVars, writerVars, serverVars
<1>0. /\ handler \in [Transports -> {"none", "asked", "answered", "done", "failed", "rejected"}]
      /\ 1 \in Transports /\ ntrans \in Transports
  BY ConstantsAssumption DEF Typed, TypeOK, Transports
<1>1. CASE \/ LoopStart \/ ResumeFails \/ ResumeTimeout \/ LoopRelease \/ LoopRecheck
           \/ \E t \in Transports : Break(t)
  BY <1>1, KeepsAwake
     DEF LoopStart, ResumeFails, ResumeTimeout, LoopRelease, LoopRecheck, Break, Running
<1>2. CASE Dial
  <2>1. handler'[1] = handler[1]
    BY <1>0, <1>2 DEF Dial, Transports
  <2> QED BY <1>2, <2>1, KeepsAwake DEF Dial, Running
<1>3. CASE ClientAttach
  BY <1>3, WakeTypes, KeepsAwake DEF ClientAttach, AttachTransport, SignalSend, Running
<1>4. CASE ClientRejected
  BY <1>4, WakeTypes, KeepsAwake DEF ClientRejected, MarkClosed, Awake, Running, Sides
<1>5. CASE Expire
  BY <1>5, WakeTypes, KeepsAwake DEF Expire, MarkClosed, Awake, Running, Sides
<1>6. ASSUME NEW t \in Transports, ServerAnswer(t)
      PROVE  Awake(q)'
  <2>1. handler'[1] = "done" => handler[1] = "done"
    BY <1>0, <1>6 DEF ServerAnswer
  <2> QED BY <1>6, <2>1, KeepsAwake DEF ServerAnswer, Running
<1>7. ASSUME NEW t \in Transports, ServerAttach(t)
      PROVE  Awake(q)'
  <2>1. CASE q = "server" /\ status["server"] = "open"
    <3>1. notify'[q]
      BY <1>7, <2>1, WakeTypes DEF ServerAttach, AttachTransport, SignalSend
    <3> QED BY <3>1 DEF Awake
  <2>2. CASE q = "server" /\ status["server"] # "open"
    BY <1>7, <2>2 DEF ServerAttach, Awake, Running
  <2>3. CASE q = "client"
    BY <1>7, <2>3, WakeTypes, KeepsAwake
       DEF ServerAttach, AttachTransport, SignalSend, Running, Sides
  <2> QED BY <2>1, <2>2, <2>3 DEF Sides
<1> QED
  BY <1>1, <1>2, <1>3, <1>4, <1>5, <1>6, <1>7 DEF LoopStep, ServerStep

LEMMA NextAwakened ==
    ASSUME Typed, AcksOwed, Awakened, Next
    PROVE  Awakened'
<1>1. \A q \in Sides : Awake(q)
  BY AwakenedIs
<1>2. \A q \in Sides : Awake(q)'
  <2> SUFFICES ASSUME NEW q \in Sides PROVE Awake(q)'
    OBVIOUS
  <2>1. ASSUME NEW p \in Sides, WriterStep(p) \/ SendStep(p) \/ Heartbeat(p)
        PROVE  Awake(q)'
    BY <1>1, <2>1, WriterAwake, WriterElsewhere DEF AcksOwed
  <2>2. ASSUME NEW p \in Sides, ReaderStep(p)
        PROVE  Awake(q)'
    BY <1>1, <2>2, ReaderAwake
  <2> QED BY <1>1, <2>1, <2>2, OtherAwake DEF Next
<1> QED BY <1>2 DEF Awakened, NoLostWakeup, NextIsAttached, Awake

-----------------------------------------------------------------------------
(* The theorems.                                                           *)

LEMMA InitSchedule == Init => ScheduleInv
<1> SUFFICES ASSUME Init PROVE ScheduleInv
  OBVIOUS
<1>1. AcksOwed
  BY DEF Init, InitRest, AcksOwed, AckScheduledIffOwed, AckSentReceived, DelayedCoversFew
<1>2. Awakened
  BY DEF Init, InitRest, Awakened, NoLostWakeup, NextIsAttached
<1>3. DetachedClientReconnects
  BY DEF Init, InitRest, DetachedClientReconnects, Sides, None
<1>4. ServerFirst
  BY DEF Init, InitRest, ServerFirst, ClientOutlivesServer, ClientOpen, RejectedIsGone, Sides
<1> QED BY <1>1, <1>2, <1>3, <1>4 DEF ScheduleInv

(* Every step keeps what the goroutines owe each other. *)
THEOREM ScheduleInvHolds == Spec => []ScheduleInv
<1>1. Init => ScheduleInv
  BY InitSchedule
<1>2. TypeOK /\ SessionInv /\ SessionInv' /\ ScheduleInv /\ [Next]_vars => ScheduleInv'
  <2>1. ASSUME TypeOK, SessionInv, SessionInv', ScheduleInv, Next PROVE ScheduleInv'
    <3>1. Typed /\ NoGap'
      BY <2>1 DEF Typed, SessionInv
    <3>2. AcksOwed /\ Awakened /\ DetachedClientReconnects /\ ServerFirst
      BY <2>1 DEF ScheduleInv
    <3>3. AcksOwed' /\ Awakened' /\ DetachedClientReconnects' /\ ServerFirst'
      BY <2>1, <3>1, <3>2, NextAcksOwed, NextAwakened, NextReconnects, NextServerFirst
    <3> QED BY <3>3 DEF ScheduleInv
  <2>2. ASSUME ScheduleInv, UNCHANGED vars PROVE ScheduleInv'
    BY <2>2
       DEF ScheduleInv, AcksOwed, AckScheduledIffOwed, AckSentReceived, DelayedCoversFew, Awakened,
           NoLostWakeup, NextIsAttached, DetachedClientReconnects, ServerFirst,
           ClientOutlivesServer, RejectedIsGone, ClientOpen, Running, HasRoom, vars,
           connVars, sendVars, recvVars, ackVars, writerVars, loopVars, serverVars
  <2> QED BY <2>1, <2>2
<1> QED BY <1>1, <1>2, TypesHold, SessionInvHolds, PTL DEF Spec

(* takePendingControl never finds a scheduled ACK that is not owed, and no *)
(* received frame waits for an ACK that nobody scheduled.                  *)
THEOREM AckScheduledIffOwedHolds == Spec => []AckScheduledIffOwed
<1>1. ScheduleInv => AckScheduledIffOwed
  BY DEF ScheduleInv, AcksOwed
<1> QED BY <1>1, ScheduleInvHolds, PTL

(* No wakeup is lost between stageWhileDetached or wait() and the          *)
(* goroutines that call signalSend.                                        *)
THEOREM NoLostWakeupHolds == Spec => []NoLostWakeup
<1>1. ScheduleInv => NoLostWakeup
  BY DEF ScheduleInv, Awakened
<1> QED BY <1>1, ScheduleInvHolds, PTL

(* However detachTransport races with the end of a reconnectLoop, one      *)
(* goroutine is left to reconnect.                                         *)
THEOREM DetachedClientReconnectsHolds == Spec => []DetachedClientReconnects
<1>1. ScheduleInv => DetachedClientReconnects
  BY DEF ScheduleInv
<1> QED BY <1>1, ScheduleInvHolds, PTL

(* ErrResumeRejected ends a client only after the server has closed.       *)
THEOREM ClientOutlivesServerHolds == Spec => []ClientOutlivesServer
<1>1. ScheduleInv => ClientOutlivesServer
  BY DEF ScheduleInv, ServerFirst
<1> QED BY <1>1, ScheduleInvHolds, PTL
=============================================================================
