---------------------------- MODULE RequestReply ----------------------------
(***************************************************************************)
(* Request and reply on one stream: SendRecv, Recv and PeekWire of the     *)
(* client's goroutines under the recv guard, with the timeout and the      *)
(* count of stale replies; Send without a receive; the server's handler    *)
(* loop, which answers each message once, and a task that a handler left   *)
(* running.  With once, the stream is the default stream of a OnceConn.    *)
(*                                                                         *)
(* Requests are numbered in the order in which they are sent.  A message   *)
(* to the client is the number of the request it answers, or Event for one *)
(* that a task sent.  The connection delivers in order (MessageChannel):   *)
(* toServer holds the requests on their way and in handlerCh, and a reply  *)
(* is in inbox once it has arrived.  ErrorReply and OkReply are replies.   *)
(*                                                                         *)
(* Operators marked faulty are used by no definition here: each is a       *)
(* plausible bug in the operator that follows it.                          *)
(***************************************************************************)
EXTENDS Naturals, Sequences, FiniteSets

CONSTANTS
    Callers,      \* goroutines of the client's application
    MaxCalls,     \* bound: calls of SendRecv that pass the recv guard
    MaxSends,     \* bound: calls of Send
    MaxOdd,       \* bound: messages that tasks send and replies that cannot be sent
    MaxTimeouts   \* bound: receive timers that fire

ASSUME RequestReplyAssumption ==
    /\ Callers # {} /\ IsFiniteSet(Callers)
    /\ MaxCalls \in Nat /\ MaxSends \in Nat /\ MaxOdd \in Nat /\ MaxTimeouts \in Nat

Event == 0
Requests == 1..(MaxCalls + MaxSends)

VARIABLES
    once, used,     \* a OnceConn, and OnceConn.used
    \* the client's stream
    recvActive,
    peeked,         \* the message that PeekWire left, if any (hasPeeked)
    staleReplies,
    inbox,
    shut,           \* Stream.closed
    closed,         \* Connection.closed
    ended,          \* the decode loop has closed inbox
    \* the client's goroutines
    pc,             \* "idle", "send" or "wait" in SendRecv, "recv", "peek"
    req,            \* the request of a goroutine in SendRecv
    \* the server
    toServer,       \* the first message is with its handler
    task,           \* StreamContext.handlerTaskActive
    \* bounds
    sends, events, timeouts,
    \* history
    sent,           \* requests sent, by SendRecv and by Send
    unsent,         \* requests whose reply could not be sent
    result, answer, \* how each request ended, and the reply that SendRecv returned
    received,       \* what Recv has returned
    discarded,      \* what readRaw has thrown away
    dropped,        \* a message was dropped while the stream closed
    mixed           \* not one conversation with one reply per request any more

onceVars == <<once, used>>
guardVars == <<recvActive, peeked, staleReplies>>
closeVars == <<shut, closed, ended>>
callerVars == <<pc, req>>
serverVars == <<toServer, task>>
boundVars == <<sends, events, timeouts>>
historyVars == <<sent, unsent, result, answer, received, discarded, dropped, mixed>>
vars == <<onceVars, guardVars, inbox, closeVars, callerVars, serverVars, boundVars,
          historyVars>>

Init ==
    /\ once \in BOOLEAN /\ used = FALSE
    /\ recvActive = FALSE /\ peeked = <<>> /\ staleReplies = 0
    /\ inbox = <<>> /\ shut = FALSE /\ closed = FALSE /\ ended = FALSE
    /\ pc = [g \in Callers |-> "idle"] /\ req = [g \in Callers |-> 0]
    /\ toServer = <<>> /\ task = FALSE
    /\ sends = 0 /\ events = 0 /\ timeouts = 0
    /\ sent = 0 /\ unsent = {}
    /\ result = [r \in Requests |-> "none"] /\ answer = [r \in Requests |-> Event]
    /\ received = <<>> /\ discarded = {} /\ dropped = FALSE
    /\ mixed = FALSE

-----------------------------------------------------------------------------
(* Entering and leaving.                                                   *)

(* recvGuard: CompareAndSwap of recvActive; a call that fails it returns   *)
(* ErrConcurrentRecv and changes nothing.                                  *)
RecvGuard == ~recvActive

(* OnceConn.SendRecv: used.Swap. *)
FirstUseNever == TRUE   \* faulty
FirstUse == ~used

(* Calls of SendRecv that have sent their request or are about to. *)
Calls == sent - sends + Cardinality({g \in Callers : pc[g] = "send"})

(* sendRecvAs, up to sendBoxed.  A OnceConn connects first: nobody else    *)
(* has the new connection's default stream.                                *)
Call(g) ==
    /\ pc[g] = "idle" /\ Calls < MaxCalls
    /\ IF once THEN FirstUse ELSE RecvGuard
    /\ used' = once
    /\ recvActive' = TRUE
    /\ pc' = [pc EXCEPT ![g] = "send"]
    /\ UNCHANGED <<once, peeked, staleReplies, inbox, closeVars, req, serverVars, sends,
                   events, timeouts, historyVars>>

(* A OnceConn that cannot connect is used up all the same. *)
OnceFails ==
    /\ once /\ FirstUse
    /\ used' = TRUE
    /\ UNCHANGED <<once, guardVars, inbox, closeVars, callerVars, serverVars, boundVars,
                   historyVars>>

(* recvRaw and peekRaw, up to takeRaw and readRaw. *)
Enter(g, op) ==
    /\ pc[g] = "idle" /\ ~once
    /\ RecvGuard
    /\ recvActive' = TRUE
    /\ pc' = [pc EXCEPT ![g] = op]
    /\ UNCHANGED <<onceVars, peeked, staleReplies, inbox, closeVars, req, serverVars,
                   boundVars, historyVars>>

Recv(g) == Enter(g, "recv")
PeekWire(g) == Enter(g, "peek")

(* The deferred release; a OnceConn closes its connection when SendRecv    *)
(* returns.                                                                *)
Leave(g) ==
    /\ recvActive' = FALSE
    /\ pc' = [pc EXCEPT ![g] = "idle"] /\ req' = [req EXCEPT ![g] = 0]
    /\ closed' = (closed \/ once)

-----------------------------------------------------------------------------
(* Sending.                                                                *)

CanSend == ~shut /\ ~closed

(* sendBoxed in SendRecv. *)
CallSend(g) ==
    /\ pc[g] = "send" /\ CanSend
    /\ sent' = sent + 1
    /\ toServer' = Append(toServer, sent + 1)
    /\ req' = [req EXCEPT ![g] = sent + 1]
    /\ result' = [result EXCEPT ![sent + 1] = "waiting"]
    /\ pc' = [pc EXCEPT ![g] = "wait"]
    /\ mixed' = (mixed \/ sends > Len(received))
    /\ UNCHANGED <<onceVars, guardVars, inbox, closeVars, task, boundVars, unsent,
                   answer, received, discarded, dropped>>

(* ... fails: closed, or the message does not encode or exceeds the limit. *)
CallSendFails(g) ==
    /\ pc[g] = "send"
    /\ Leave(g)
    /\ UNCHANGED <<onceVars, peeked, staleReplies, inbox, shut, ended, serverVars,
                   boundVars, historyVars>>

(* Stream.Send: the handler answers this message as well. *)
Send ==
    /\ sends < MaxSends /\ ~once /\ CanSend
    /\ sends' = sends + 1
    /\ sent' = sent + 1
    /\ toServer' = Append(toServer, sent + 1)
    /\ result' = [result EXCEPT ![sent + 1] = "sent"]
    /\ mixed' = (mixed \/ \E g \in Callers : pc[g] = "wait")
    /\ UNCHANGED <<onceVars, guardVars, inbox, closeVars, callerVars, task, events,
                   timeouts, unsent, answer, received, discarded, dropped>>

-----------------------------------------------------------------------------
(* Receiving.                                                              *)

(* SendRecv or Recv returns m.  A message of the wrong type makes it call  *)
(* protocolError, which sends an ErrorReply, for which the server has no   *)
(* handler, and closes the stream.                                         *)
Return(g, m) ==
    /\ IF pc[g] = "wait"
       THEN /\ result' = [result EXCEPT ![req[g]] = "replied"]
            /\ answer' = [answer EXCEPT ![req[g]] = m]
            /\ UNCHANGED received
       ELSE received' = Append(received, m) /\ UNCHANGED <<result, answer>>
    /\ \/ UNCHANGED shut
       \/ shut' = TRUE
    /\ Leave(g)

(* takeRaw with a message that PeekWire left. *)
TakePeeked(g) ==
    /\ pc[g] \in {"wait", "recv"} /\ peeked # <<>>
    /\ peeked' = <<>>
    /\ Return(g, Head(peeked))
    /\ UNCHANGED <<onceVars, staleReplies, inbox, ended, serverVars, boundVars, sent,
                   unsent, discarded, dropped, mixed>>

(* peekRaw returns the message it left before. *)
KeepsPeekedNot == FALSE   \* faulty
KeepsPeeked == peeked # <<>>

(* The caller is in readRaw. *)
Reading(g) ==
    \/ pc[g] \in {"wait", "recv"} /\ peeked = <<>>
    \/ pc[g] = "peek" /\ ~KeepsPeeked

(* readRaw throws away as many messages as there are late replies. *)
StaleAny == staleReplies >= 0   \* faulty
Stale == staleReplies > 0

Discard(g) ==
    /\ Reading(g) /\ inbox # <<>> /\ Stale
    /\ staleReplies' = staleReplies - 1
    /\ discarded' = discarded \cup {Head(inbox)}
    /\ inbox' = Tail(inbox)
    /\ UNCHANGED <<onceVars, recvActive, peeked, closeVars, callerVars, serverVars,
                   boundVars, sent, unsent, result, answer, received, dropped, mixed>>

(* readRaw returns the next message, also on a closed connection. *)
Take(g) ==
    /\ pc[g] \in {"wait", "recv"} /\ Reading(g) /\ inbox # <<>> /\ ~Stale
    /\ inbox' = Tail(inbox)
    /\ Return(g, Head(inbox))
    /\ UNCHANGED <<onceVars, peeked, staleReplies, ended, serverVars, boundVars, sent,
                   unsent, discarded, dropped, mixed>>

(* peekRaw keeps it. *)
PeekRead(g) ==
    /\ pc[g] = "peek" /\ Reading(g) /\ inbox # <<>> /\ ~Stale
    /\ inbox' = Tail(inbox)
    /\ peeked' = <<Head(inbox)>>
    /\ Leave(g)
    /\ UNCHANGED <<onceVars, staleReplies, shut, ended, serverVars, boundVars,
                   historyVars>>

PeekAgain(g) ==
    /\ pc[g] = "peek" /\ KeepsPeeked
    /\ Leave(g)
    /\ UNCHANGED <<onceVars, peeked, staleReplies, inbox, shut, ended, serverVars,
                   boundVars, historyVars>>

(* ErrRecvTimeout: of SendRecv it leaves a reply to come. *)
CountStaleNever(g) == staleReplies   \* faulty
CountStaleAlways(g) == staleReplies + 1   \* faulty
CountStale(g) == IF pc[g] = "wait" THEN staleReplies + 1 ELSE staleReplies

Timeout(g) ==
    /\ Reading(g) /\ timeouts < MaxTimeouts
    /\ timeouts' = timeouts + 1
    /\ staleReplies' = CountStale(g)
    /\ result' = IF pc[g] = "wait" THEN [result EXCEPT ![req[g]] = "timeout"] ELSE result
    /\ Leave(g)
    /\ UNCHANGED <<onceVars, peeked, inbox, shut, ended, serverVars, sends, events, sent,
                   unsent, answer, received, discarded, dropped, mixed>>

(* ErrClosed, once nothing is left. *)
RecvClosed(g) ==
    /\ Reading(g) /\ inbox = <<>> /\ (closed \/ ended)
    /\ result' = IF pc[g] = "wait" THEN [result EXCEPT ![req[g]] = "closed"] ELSE result
    /\ Leave(g)
    /\ UNCHANGED <<onceVars, peeked, staleReplies, inbox, shut, ended, serverVars,
                   boundVars, sent, unsent, answer, received, discarded, dropped, mixed>>

-----------------------------------------------------------------------------
(* Closing.                                                                *)

StreamClose ==
    /\ ~shut /\ ~once
    /\ shut' = TRUE
    /\ UNCHANGED <<onceVars, guardVars, inbox, closed, ended, callerVars, serverVars,
                   boundVars, historyVars>>

(* The connection fails or is closed; that of a OnceConn exists while its  *)
(* SendRecv runs.                                                          *)
ConnectionClosed ==
    /\ ~closed /\ (once => recvActive)
    /\ closed' = TRUE
    /\ UNCHANGED <<onceVars, guardVars, inbox, shut, ended, callerVars, serverVars,
                   boundVars, historyVars>>

DecodeEnd ==
    /\ (shut \/ closed) /\ ~ended
    /\ ended' = TRUE
    /\ UNCHANGED <<onceVars, guardVars, inbox, shut, closed, callerVars, serverVars,
                   boundVars, historyVars>>

-----------------------------------------------------------------------------
(* The server.                                                             *)

(* What the server sends reaches the inbox, unless the stream or the       *)
(* connection has closed.                                                  *)
Deliver(m) ==
    \/ ~ended /\ inbox' = Append(inbox, m) /\ UNCHANGED dropped
    \/ (shut \/ closed) /\ dropped' = TRUE /\ UNCHANGED inbox

(* handlerLoop: the handler returns, and the reply is sent: its message,   *)
(* OkReply or ErrorReply.                                                  *)
Reply ==
    /\ toServer # <<>>
    /\ Deliver(Head(toServer))
    /\ toServer' = Tail(toServer)
    /\ UNCHANGED <<onceVars, guardVars, closeVars, callerVars, task, boundVars, sent,
                   unsent, result, answer, received, discarded, mixed>>

(* Odd messages so far. *)
Odd == events + Cardinality(unsent)

(* A reply that does not encode or exceeds the frame limit: handlerLoop    *)
(* ignores the error of sendBoxed.                                         *)
ReplyUnsent ==
    /\ toServer # <<>> /\ Odd < MaxOdd
    /\ unsent' = unsent \cup {Head(toServer)}
    /\ toServer' = Tail(toServer)
    /\ mixed' = TRUE
    /\ UNCHANGED <<onceVars, guardVars, inbox, closeVars, callerVars, task, boundVars,
                   sent, result, answer, received, discarded, dropped>>

(* NewTask: one at a time, and it may send before the handler returns. *)
NewTask ==
    /\ toServer # <<>> /\ ~task /\ Odd < MaxOdd
    /\ task' = TRUE
    /\ UNCHANGED <<onceVars, guardVars, inbox, closeVars, callerVars, toServer,
                   boundVars, historyVars>>

TaskSend ==
    /\ task /\ Odd < MaxOdd
    /\ events' = events + 1
    /\ Deliver(Event)
    /\ mixed' = TRUE
    /\ UNCHANGED <<onceVars, guardVars, closeVars, callerVars, serverVars, sends,
                   timeouts, sent, unsent, result, answer, received, discarded>>

TaskEnd ==
    /\ task
    /\ task' = FALSE
    /\ UNCHANGED <<onceVars, guardVars, inbox, closeVars, callerVars, toServer,
                   boundVars, historyVars>>

-----------------------------------------------------------------------------
CallerStep(g) ==
    \/ CallSend(g) \/ CallSendFails(g) \/ TakePeeked(g) \/ Discard(g) \/ Take(g)
    \/ PeekRead(g) \/ PeekAgain(g) \/ RecvClosed(g)

Next ==
    \/ Send \/ OnceFails \/ StreamClose \/ ConnectionClosed
    \/ Reply \/ ReplyUnsent \/ NewTask \/ TaskSend \/ TaskEnd \/ DecodeEnd
    \/ \E g \in Callers : Call(g) \/ Recv(g) \/ PeekWire(g) \/ Timeout(g) \/ CallerStep(g)

Spec == Init /\ [][Next]_vars

(* Goroutines go on while they can, and handlers return.  No timer need be *)
(* set.                                                                    *)
FairSpec ==
    /\ Spec /\ WF_vars(Reply) /\ WF_vars(DecodeEnd)
    /\ \A g \in Callers : WF_vars(CallerStep(g))

-----------------------------------------------------------------------------
(* Properties.                                                             *)

Messages == Requests \cup {Event}

TypeOK ==
    /\ once \in BOOLEAN /\ used \in BOOLEAN
    /\ recvActive \in BOOLEAN /\ peeked \in Seq(Messages)
    /\ staleReplies \in Nat
    /\ inbox \in Seq(Messages)
    /\ shut \in BOOLEAN /\ closed \in BOOLEAN /\ ended \in BOOLEAN
    /\ pc \in [Callers -> {"idle", "send", "wait", "recv", "peek"}]
    /\ req \in [Callers -> Requests \cup {0}]
    /\ toServer \in Seq(Requests) /\ task \in BOOLEAN
    /\ sends \in 0..MaxSends /\ events \in 0..MaxOdd
    /\ timeouts \in 0..MaxTimeouts
    /\ sent \in 0..(MaxCalls + MaxSends) /\ unsent \subseteq Requests
    /\ result \in [Requests -> {"none", "sent", "waiting", "replied", "timeout", "closed"}]
    /\ answer \in [Requests -> Messages]
    /\ received \in Seq(Messages) /\ discarded \subseteq Messages
    /\ dropped \in BOOLEAN /\ mixed \in BOOLEAN

Orderly == ~mixed /\ ~dropped

(* "After ErrRecvTimeout the stream discards the late reply when it        *)
(* arrives, so the next request on this stream receives its own reply":    *)
(* what SendRecv returns answers its own request, and what Recv returns    *)
(* answers a Send, or a SendRecv that ended with ErrClosed, and readRaw    *)
(* discards nothing but replies to requests that timed out, as long as the *)
(* stream carries one conversation and loses nothing by closing.           *)
OwnReply ==
    Orderly => /\ \A r \in Requests : result[r] = "replied" => answer[r] = r
               /\ \A i \in DOMAIN received : result[received[i]] \in {"sent", "closed"}
               /\ \A r \in discarded : result[r] = "timeout"

(* A reply that arrived is in the inbox, kept by PeekWire, was returned or *)
(* was discarded: no reply is lost between PeekWire, Recv and SendRecv,    *)
(* whatever else the server sends.                                         *)
NothingLost ==
    ~shut /\ ~closed =>
       \A r \in 1..sent :
          \/ r \in unsent \/ r \in discarded
          \/ peeked = <<r>>
          \/ \E i \in DOMAIN toServer : toServer[i] = r
          \/ \E i \in DOMAIN inbox : inbox[i] = r
          \/ \E i \in DOMAIN received : received[i] = r
          \/ \E q \in Requests : result[q] = "replied" /\ answer[q] = r

(* "A OnceConn can be used only once": whoever calls it, one request at    *)
(* most is sent.                                                           *)
OnceSendsOnce == once => sent <= 1

(* SendRecv returns without a timer: its reply comes, however many earlier *)
(* replies are discarded first, or the stream closes.                      *)
CallReturns == \A g \in Callers : pc[g] = "wait" ~> pc[g] # "wait" \/ mixed
=============================================================================
