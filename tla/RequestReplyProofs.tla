------------------------- MODULE RequestReplyProofs -------------------------
(***************************************************************************)
(* Proofs about RequestReply, for every number of goroutines, calls,       *)
(* sends, timeouts and odd messages.                                       *)
(***************************************************************************)
EXTENDS RequestReply, FiniteSetTheorems, TLAPS

-----------------------------------------------------------------------------
(* The inductive invariant.                                                *)

(* One goroutine at a time is inside the recv guard; of a OnceConn only    *)
(* one ever is.                                                            *)
GuardHolds ==
    /\ \A g \in Callers : pc[g] # "idle" => recvActive
    /\ \A g \in Callers : \A h \in Callers : pc[g] # "idle" /\ pc[h] # "idle" => g = h
    /\ once /\ ~used => sent = 0 /\ \A g \in Callers : pc[g] = "idle"
    /\ ~once => ~used
    /\ once => sent <= 1 /\ sends = 0
    /\ once => \A g \in Callers : pc[g] = "send" => sent = 0

(* Requests are numbered up to sent, and each is within the bounds. *)
Numbered ==
    /\ sends <= sent /\ sent <= sends + MaxCalls
    /\ \A g \in Callers : pc[g] = "send" => sent < sends + MaxCalls
    /\ \A r \in Requests : r > sent => result[r] = "none"
    /\ \A i \in DOMAIN toServer : toServer[i] = sent - Len(toServer) + i
    /\ Len(toServer) <= sent
    /\ Len(peeked) <= 1
    /\ ended => shut \/ closed

(* A goroutine that waits for a reply has a request without a result. *)
WaitersWait ==
    \A g \in Callers : pc[g] = "wait" =>
       /\ req[g] \in Requests /\ req[g] <= sent
       /\ result[req[g]] = "waiting"

(* The last request that is neither on its way to the server nor its reply *)
(* in the inbox.                                                           *)
Base == sent - Len(toServer) - Len(inbox)
Waiting == \E g \in Callers : pc[g] = "wait"

(* On an orderly stream replies come in the order of their requests, *)
InOrder ==
    /\ Base >= Len(peeked)
    /\ \A i \in DOMAIN inbox : inbox[i] = Base + i
    /\ peeked # <<>> => peeked[1] = Base

(* ... the late ones first, then those of Sends and of calls that were     *)
(* ended by a close, or that of the call that waits,                       *)
LateFirst ==
    /\ staleReplies <= Len(inbox) + Len(toServer)
    /\ peeked # <<>> => result[Base] \in {"sent", "closed"}
    /\ \A r \in Requests : Base < r /\ r <= sent =>
          IF r <= Base + staleReplies THEN result[r] = "timeout"
          ELSE \/ result[r] \in {"sent", "closed"}
               \/ r = sent /\ result[r] = "waiting" /\ Waiting

(* ... which sent the last request: only late replies are before its own, *)
OneWaits ==
    \A g \in Callers : pc[g] = "wait" =>
       /\ req[g] = sent /\ peeked = <<>>
       /\ Len(inbox) + Len(toServer) = staleReplies + 1

(* ... and while the stream is open every reply to come is late, the one   *)
(* that is waited for, or that of a Send which nobody has received.        *)
Coming == Len(peeked) + Len(inbox) + Len(toServer) + Len(received)

Counted ==
    ~shut /\ ~closed =>
       /\ Waiting => Coming = staleReplies + sends + 1
       /\ ~Waiting => Coming = staleReplies + sends

Pipeline == Orderly => InOrder /\ LateFirst /\ OneWaits /\ Counted

(* What was returned and discarded so far. *)
Returned ==
    Orderly => /\ \A r \in Requests : result[r] = "replied" => answer[r] = r
               /\ \A i \in DOMAIN received :
                     received[i] \in Requests /\ result[received[i]] \in {"sent", "closed"}
               /\ \A r \in discarded : r \in Requests /\ result[r] = "timeout"

RequestInv ==
    TypeOK /\ GuardHolds /\ Numbered /\ WaitersWait /\ Pipeline /\ Returned /\ NothingLost

-----------------------------------------------------------------------------
(* Sequences.                                                              *)

(* What Head and Tail leave in place. *)
LEMMA TailFacts ==
    ASSUME NEW S, NEW s \in Seq(S), s # <<>>
    PROVE  /\ Len(s) \in Nat /\ Len(s) > 0 /\ 1 \in DOMAIN s /\ Head(s) = s[1] /\ Head(s) \in S
           /\ Tail(s) \in Seq(S) /\ Len(Tail(s)) = Len(s) - 1
           /\ DOMAIN s = 1..Len(s) /\ DOMAIN Tail(s) = 1..(Len(s) - 1)
           /\ \A i \in 1..(Len(s) - 1) : Tail(s)[i] = s[i + 1]
OBVIOUS

(* What Append adds. *)
LEMMA AppendFacts ==
    ASSUME NEW S, NEW s \in Seq(S), NEW m \in S
    PROVE  /\ Append(s, m) \in Seq(S) /\ Len(s) \in Nat /\ Len(Append(s, m)) = Len(s) + 1
           /\ DOMAIN s = 1..Len(s) /\ DOMAIN Append(s, m) = 1..(Len(s) + 1)
           /\ \A i \in 1..Len(s) : Append(s, m)[i] = s[i]
           /\ Append(s, m)[Len(s) + 1] = m
OBVIOUS

(* The requests and the messages are finitely many. *)
LEMMA FiniteRequests ==
    \A T : T \subseteq Requests => IsFiniteSet(T) /\ Cardinality(T) \in Nat
<1>1. IsFiniteSet(Requests)
  BY FS_Interval, RequestReplyAssumption DEF Requests
<1> QED BY <1>1, FS_Subset, FS_CardinalityType

-----------------------------------------------------------------------------
(* The guard and the numbers.                                              *)

(* The recv guard lets in one goroutine, and used only the first. *)
LEMMA NextGuard ==
    ASSUME RequestInv, Next
    PROVE  GuardHolds'
<1> USE DEF onceVars, guardVars, closeVars, callerVars, serverVars, boundVars, historyVars
<1>0. GuardHolds
  BY DEF RequestInv
<1>1. /\ recvActive \in BOOLEAN
      /\ pc \in [Callers -> {"idle", "send", "wait", "recv", "peek"}]
      /\ once \in BOOLEAN
      /\ used \in BOOLEAN
      /\ sent \in 0..(MaxCalls + MaxSends)
      /\ sends \in 0..MaxSends
  BY DEF RequestInv, TypeOK
<1>2. CASE StreamClose \/ ConnectionClosed \/ Reply \/ ReplyUnsent \/ NewTask \/ TaskSend \/
           TaskEnd \/ DecodeEnd
  BY <1>0, <1>2
     DEF GuardHolds, StreamClose, ConnectionClosed, Reply, ReplyUnsent, NewTask, TaskSend,
         TaskEnd, DecodeEnd
<1>3. CASE \E g \in Callers : Discard(g)
  BY <1>0, <1>3 DEF GuardHolds, Discard
<1>4. CASE Send
  BY <1>0, <1>1, <1>4 DEF Send, CanSend, GuardHolds
<1>5. CASE OnceFails
  BY <1>0, <1>1, <1>5 DEF OnceFails, FirstUse, GuardHolds
<1>6. ASSUME NEW g \in Callers, Call(g) PROVE GuardHolds'
  BY <1>0, <1>1, <1>6 DEF Call, RecvGuard, FirstUse, GuardHolds
<1>7. ASSUME NEW g \in Callers, Recv(g) PROVE GuardHolds'
  BY <1>0, <1>1, <1>7 DEF Recv, Enter, RecvGuard, GuardHolds
<1>8. ASSUME NEW g \in Callers, PeekWire(g) PROVE GuardHolds'
  BY <1>0, <1>1, <1>8 DEF PeekWire, Enter, RecvGuard, GuardHolds
<1>9. ASSUME NEW g \in Callers, Timeout(g) PROVE GuardHolds'
  BY <1>0, <1>1, <1>9 DEF Timeout, Leave, Reading, CountStale, KeepsPeeked, GuardHolds
<1>10. ASSUME NEW g \in Callers, CallSend(g) PROVE GuardHolds'
  BY <1>0, <1>1, <1>10 DEF CallSend, CanSend, GuardHolds
<1>11. ASSUME NEW g \in Callers, CallSendFails(g) PROVE GuardHolds'
  BY <1>0, <1>1, <1>11 DEF CallSendFails, Leave, GuardHolds
<1>12. ASSUME NEW g \in Callers, TakePeeked(g) PROVE GuardHolds'
  BY <1>0, <1>1, <1>12 DEF TakePeeked, Return, Leave, GuardHolds
<1>13. ASSUME NEW g \in Callers, Take(g) PROVE GuardHolds'
  BY <1>0, <1>1, <1>13 DEF Take, Return, Reading, Stale, Leave, KeepsPeeked, GuardHolds
<1>14. ASSUME NEW g \in Callers, PeekRead(g) PROVE GuardHolds'
  BY <1>0, <1>1, <1>14 DEF PeekRead, Leave, Reading, Stale, KeepsPeeked, GuardHolds
<1>15. ASSUME NEW g \in Callers, PeekAgain(g) PROVE GuardHolds'
  BY <1>0, <1>1, <1>15 DEF PeekAgain, Leave, KeepsPeeked, GuardHolds
<1>16. ASSUME NEW g \in Callers, RecvClosed(g) PROVE GuardHolds'
  BY <1>0, <1>1, <1>16 DEF RecvClosed, Leave, Reading, KeepsPeeked, GuardHolds
<1> QED
  BY <1>2, <1>3, <1>4, <1>5, <1>6, <1>7, <1>8, <1>9, <1>10, <1>11, <1>12, <1>13, <1>14, <1>15,
     <1>16 DEF Next, CallerStep

(* Requests are sent, and answered, in the order of their numbers. *)
LEMMA NextNumbered ==
    ASSUME RequestInv, Next
    PROVE  Numbered'
<1> USE DEF onceVars, guardVars, closeVars, callerVars, serverVars, boundVars, historyVars
<1>0. /\ Numbered
      /\ GuardHolds
      /\ WaitersWait
  BY DEF RequestInv
<1>1. /\ sends \in 0..MaxSends
      /\ sent \in 0..(MaxCalls + MaxSends)
      /\ pc \in [Callers -> {"idle", "send", "wait", "recv", "peek"}]
      /\ result \in [Requests -> {"none", "sent", "waiting", "replied", "timeout", "closed"}]
      /\ toServer \in Seq(Requests)
      /\ peeked \in Seq(Messages)
      /\ ended \in BOOLEAN
      /\ shut \in BOOLEAN
      /\ closed \in BOOLEAN
  BY DEF RequestInv, TypeOK
<1>2. CASE OnceFails \/ NewTask \/ TaskSend \/ TaskEnd
  BY <1>0, <1>2 DEF Numbered, GuardHolds, WaitersWait, OnceFails, NewTask, TaskSend, TaskEnd
<1>3. CASE \E g \in Callers : Discard(g)
  BY <1>0, <1>3 DEF Numbered, GuardHolds, WaitersWait, Discard
<1>4. CASE Send
  <2>1. sent + 1 \in Requests /\ sent' = sent + 1 /\ toServer' = Append(toServer, sent + 1)
    BY <1>0, <1>1, <1>4, RequestReplyAssumption DEF Send, Numbered, Requests
  <2>2. \A i \in DOMAIN toServer' : toServer'[i] = sent' - Len(toServer') + i
    BY <1>0, <1>1, <2>1, AppendFacts DEF Numbered
  <2>3. Len(toServer') <= sent'
    BY <1>0, <1>1, <2>1, AppendFacts DEF Numbered
  <2>4. \A r \in Requests : r > sent' => result'[r] = "none"
    BY <1>0, <1>1, <1>4, <2>1 DEF Send, Numbered, Requests
  <2> QED BY <1>0, <1>1, <1>4, <2>1, <2>2, <2>3, <2>4, RequestReplyAssumption DEF Send, Numbered, GuardHolds
<1>5. CASE StreamClose
  BY <1>0, <1>1, <1>5 DEF StreamClose, Numbered, GuardHolds, WaitersWait
<1>6. CASE ConnectionClosed
  BY <1>0, <1>1, <1>6 DEF ConnectionClosed, Numbered, GuardHolds, WaitersWait
<1>7. CASE Reply
  <2>1. toServer # <<>> /\ toServer' = Tail(toServer) /\ UNCHANGED sent
    BY <1>7 DEF Reply
  <2>2. \A i \in DOMAIN toServer' : toServer'[i] = sent' - Len(toServer') + i
    BY <1>0, <1>1, <2>1, TailFacts DEF Numbered
  <2>3. Len(toServer') <= sent'
    BY <1>0, <1>1, <2>1, TailFacts DEF Numbered
  <2> QED BY <1>0, <1>1, <1>7, <2>2, <2>3 DEF Reply, Numbered
<1>8. CASE ReplyUnsent
  <2>1. toServer # <<>> /\ toServer' = Tail(toServer) /\ UNCHANGED sent
    BY <1>8 DEF ReplyUnsent
  <2>2. \A i \in DOMAIN toServer' : toServer'[i] = sent' - Len(toServer') + i
    BY <1>0, <1>1, <2>1, TailFacts DEF Numbered
  <2>3. Len(toServer') <= sent'
    BY <1>0, <1>1, <2>1, TailFacts DEF Numbered
  <2> QED BY <1>0, <1>1, <1>8, <2>2, <2>3 DEF ReplyUnsent, Numbered
<1>9. CASE DecodeEnd
  BY <1>0, <1>1, <1>9 DEF DecodeEnd, Numbered, GuardHolds, WaitersWait
<1>10. ASSUME NEW g \in Callers, Call(g) PROVE Numbered'
  <2>1. \A h \in Callers : pc[h] = "idle"
    BY <1>0, <1>10 DEF Call, RecvGuard, FirstUse, GuardHolds
  <2>2. {h \in Callers : pc[h] = "send"} = {}
    BY <2>1
  <2>3. Cardinality({h \in Callers : pc[h] = "send"}) = 0
    BY <2>2, FS_EmptySet
  <2>4. sent < sends + MaxCalls
    BY <1>1, <1>10, <2>3, RequestReplyAssumption DEF Call, Calls
  <2> QED BY <1>0, <1>1, <1>10, <2>4 DEF Call, Numbered
<1>11. ASSUME NEW g \in Callers, Recv(g) PROVE Numbered'
  BY <1>0, <1>1, <1>11 DEF Recv, Enter, RecvGuard, Numbered, GuardHolds, WaitersWait
<1>12. ASSUME NEW g \in Callers, PeekWire(g) PROVE Numbered'
  BY <1>0, <1>1, <1>12 DEF PeekWire, Enter, RecvGuard, Numbered, GuardHolds, WaitersWait
<1>13. ASSUME NEW g \in Callers, Timeout(g) PROVE Numbered'
  BY <1>0, <1>1, <1>13
     DEF Timeout, Leave, Reading, CountStale, KeepsPeeked, Numbered, GuardHolds, WaitersWait
<1>14. ASSUME NEW g \in Callers, CallSend(g) PROVE Numbered'
  <2>1. sent + 1 \in Requests /\ sent' = sent + 1 /\ toServer' = Append(toServer, sent + 1)
    BY <1>0, <1>1, <1>14, RequestReplyAssumption DEF CallSend, Numbered, Requests
  <2>2. \A i \in DOMAIN toServer' : toServer'[i] = sent' - Len(toServer') + i
    BY <1>0, <1>1, <2>1, AppendFacts DEF Numbered
  <2>3. Len(toServer') <= sent'
    BY <1>0, <1>1, <2>1, AppendFacts DEF Numbered
  <2>4. \A r \in Requests : r > sent' => result'[r] = "none"
    BY <1>0, <1>1, <1>14, <2>1 DEF CallSend, Numbered, Requests
  <2> QED BY <1>0, <1>1, <1>14, <2>1, <2>2, <2>3, <2>4, RequestReplyAssumption DEF CallSend, Numbered, GuardHolds
<1>15. ASSUME NEW g \in Callers, CallSendFails(g) PROVE Numbered'
  BY <1>0, <1>1, <1>15 DEF CallSendFails, Leave, Numbered, GuardHolds, WaitersWait
<1>16. ASSUME NEW g \in Callers, TakePeeked(g) PROVE Numbered'
  BY <1>0, <1>1, <1>16 DEF TakePeeked, Return, Leave, Numbered, GuardHolds, WaitersWait
<1>17. ASSUME NEW g \in Callers, Take(g) PROVE Numbered'
  BY <1>0, <1>1, <1>17
     DEF Take, Return, Reading, Stale, Leave, KeepsPeeked, Numbered, GuardHolds, WaitersWait
<1>18. ASSUME NEW g \in Callers, PeekRead(g) PROVE Numbered'
  BY <1>0, <1>1, <1>18
     DEF PeekRead, Leave, Reading, Stale, KeepsPeeked, Numbered, GuardHolds, WaitersWait
<1>19. ASSUME NEW g \in Callers, PeekAgain(g) PROVE Numbered'
  BY <1>0, <1>1, <1>19 DEF PeekAgain, Leave, KeepsPeeked, Numbered, GuardHolds, WaitersWait
<1>20. ASSUME NEW g \in Callers, RecvClosed(g) PROVE Numbered'
  BY <1>0, <1>1, <1>20
     DEF RecvClosed, Leave, Reading, KeepsPeeked, Numbered, GuardHolds, WaitersWait
<1> QED
  BY <1>2, <1>3, <1>4, <1>5, <1>6, <1>7, <1>8, <1>9, <1>10, <1>11, <1>12, <1>13, <1>14, <1>15,
     <1>16, <1>17, <1>18, <1>19, <1>20 DEF Next, CallerStep

(* A request gets its result when its SendRecv returns. *)
LEMMA NextWaiters ==
    ASSUME RequestInv, Next
    PROVE  WaitersWait'
<1> USE DEF onceVars, guardVars, closeVars, callerVars, serverVars, boundVars, historyVars
<1>0. /\ WaitersWait
      /\ GuardHolds
      /\ Numbered
  BY DEF RequestInv
<1>1. /\ pc \in [Callers -> {"idle", "send", "wait", "recv", "peek"}]
      /\ req \in [Callers -> Requests \cup {0}]
      /\ sent \in 0..(MaxCalls + MaxSends)
      /\ result \in [Requests -> {"none", "sent", "waiting", "replied", "timeout", "closed"}]
      /\ sends \in 0..MaxSends
  BY DEF RequestInv, TypeOK
<1>2. CASE OnceFails \/ StreamClose \/ ConnectionClosed \/ Reply \/ ReplyUnsent \/ NewTask \/
           TaskSend \/ TaskEnd \/ DecodeEnd
  BY <1>0, <1>2
     DEF WaitersWait, GuardHolds, OnceFails, StreamClose, ConnectionClosed, Reply, ReplyUnsent,
         NewTask, TaskSend, TaskEnd, DecodeEnd
<1>3. CASE \E g \in Callers : Discard(g)
  BY <1>0, <1>3 DEF WaitersWait, GuardHolds, Discard
<1>4. CASE Send
  <2>1. sent + 1 \in Requests
    BY <1>0, <1>1, <1>4, RequestReplyAssumption DEF Send, Numbered, Requests
  <2>2. \A h \in Callers : pc[h] = "wait" => req[h] # sent + 1
    BY <1>0, <1>1, RequestReplyAssumption DEF WaitersWait, Requests
  <2> QED BY <1>0, <1>1, <1>4, <2>1, <2>2, RequestReplyAssumption DEF Send, WaitersWait, Requests
<1>5. ASSUME NEW g \in Callers, Call(g) PROVE WaitersWait'
  BY <1>0, <1>1, <1>5 DEF Call, RecvGuard, FirstUse, WaitersWait, GuardHolds
<1>6. ASSUME NEW g \in Callers, Recv(g) PROVE WaitersWait'
  BY <1>0, <1>1, <1>6 DEF Recv, Enter, RecvGuard, WaitersWait, GuardHolds
<1>7. ASSUME NEW g \in Callers, PeekWire(g) PROVE WaitersWait'
  BY <1>0, <1>1, <1>7 DEF PeekWire, Enter, RecvGuard, WaitersWait, GuardHolds
<1>8. ASSUME NEW g \in Callers, Timeout(g) PROVE WaitersWait'
  BY <1>0, <1>1, <1>8
     DEF Timeout, Leave, Reading, CountStale, KeepsPeeked, WaitersWait, GuardHolds
<1>9. ASSUME NEW g \in Callers, CallSend(g) PROVE WaitersWait'
  <2>1. sent + 1 \in Requests /\ (\A h \in Callers : h # g => pc[h] = "idle")
    BY <1>0, <1>1, <1>9, RequestReplyAssumption DEF CallSend, Numbered, GuardHolds, Requests
  <2> QED BY <1>0, <1>1, <1>9, <2>1 DEF CallSend, WaitersWait
<1>10. ASSUME NEW g \in Callers, CallSendFails(g) PROVE WaitersWait'
  BY <1>0, <1>1, <1>10 DEF CallSendFails, Leave, WaitersWait, GuardHolds
<1>11. ASSUME NEW g \in Callers, TakePeeked(g) PROVE WaitersWait'
  BY <1>0, <1>1, <1>11 DEF TakePeeked, Return, Leave, WaitersWait, GuardHolds
<1>12. ASSUME NEW g \in Callers, Take(g) PROVE WaitersWait'
  BY <1>0, <1>1, <1>12
     DEF Take, Return, Reading, Stale, Leave, KeepsPeeked, WaitersWait, GuardHolds
<1>13. ASSUME NEW g \in Callers, PeekRead(g) PROVE WaitersWait'
  BY <1>0, <1>1, <1>13 DEF PeekRead, Leave, Reading, Stale, KeepsPeeked, WaitersWait, GuardHolds
<1>14. ASSUME NEW g \in Callers, PeekAgain(g) PROVE WaitersWait'
  BY <1>0, <1>1, <1>14 DEF PeekAgain, Leave, KeepsPeeked, WaitersWait, GuardHolds
<1>15. ASSUME NEW g \in Callers, RecvClosed(g) PROVE WaitersWait'
  BY <1>0, <1>1, <1>15 DEF RecvClosed, Leave, Reading, KeepsPeeked, WaitersWait, GuardHolds
<1> QED
  BY <1>2, <1>3, <1>4, <1>5, <1>6, <1>7, <1>8, <1>9, <1>10, <1>11, <1>12, <1>13, <1>14, <1>15
     DEF Next, CallerStep

-----------------------------------------------------------------------------
(* The order of the replies.                                               *)

(* The types, with the lengths as numbers. *)
LEMMA PipelineTypes ==
    ASSUME RequestInv
    PROVE  /\ peeked \in Seq(Messages) /\ inbox \in Seq(Messages) /\ toServer \in Seq(Requests)
           /\ received \in Seq(Messages)
           /\ Len(peeked) \in Nat /\ Len(inbox) \in Nat /\ Len(toServer) \in Nat
           /\ Len(received) \in Nat /\ sent \in Nat /\ sends \in Nat /\ staleReplies \in Nat
           /\ Base \in Int /\ Coming \in Nat /\ \A r \in Requests : r \in Nat /\ r > 0
           /\ pc \in [Callers -> {"idle", "send", "wait", "recv", "peek"}]
           /\ req \in [Callers -> Requests \cup {0}]
           /\ result \in [Requests -> {"none", "sent", "waiting", "replied", "timeout", "closed"}]
<1>1. /\ peeked \in Seq(Messages) /\ inbox \in Seq(Messages) /\ toServer \in Seq(Requests)
      /\ received \in Seq(Messages) /\ staleReplies \in Nat
      /\ sent \in 0..(MaxCalls + MaxSends) /\ sends \in 0..MaxSends
      /\ pc \in [Callers -> {"idle", "send", "wait", "recv", "peek"}]
      /\ req \in [Callers -> Requests \cup {0}]
      /\ result \in [Requests -> {"none", "sent", "waiting", "replied", "timeout", "closed"}]
  BY DEF RequestInv, TypeOK
<1>2. /\ Len(peeked) \in Nat /\ Len(inbox) \in Nat /\ Len(toServer) \in Nat
      /\ Len(received) \in Nat /\ sent \in Nat /\ sends \in Nat
  BY <1>1, RequestReplyAssumption
<1> QED BY <1>1, <1>2, RequestReplyAssumption DEF Base, Coming, Requests

(* The numbers among them. *)
LEMMA Lengths ==
    ASSUME RequestInv
    PROVE  /\ Len(peeked) \in Nat /\ Len(inbox) \in Nat /\ Len(toServer) \in Nat
           /\ Len(received) \in Nat /\ sent \in Nat /\ sends \in Nat /\ staleReplies \in Nat
           /\ Base \in Int /\ Coming \in Nat
BY PipelineTypes

(* Base and the replies to come are the requests. *)
LEMMA BaseIs ==
    ASSUME RequestInv, NEW k \in Nat, Len(inbox) + Len(toServer) = k
    PROVE  sent = Base + k
<1>1. \A i, t, n \in Nat : n = n - t - i + (i + t)
  OBVIOUS
<1>2. sent = Base + (Len(inbox) + Len(toServer))
  BY <1>1, Lengths DEF Base
<1> QED BY <1>2


(* Nothing that is on its way changes, and nobody begins or ends to wait. *)
LEMMA QuietPipeline ==
    ASSUME Pipeline, Orderly' => Orderly,
           UNCHANGED <<sent, toServer, inbox, peeked, result, staleReplies, received, sends>>,
           \A h \in Callers : pc'[h] = "wait" <=> pc[h] = "wait",
           \A h \in Callers : pc[h] = "wait" => req'[h] = req[h],
           shut => shut', closed => closed'
    PROVE  Pipeline'
<1> SUFFICES ASSUME Orderly' PROVE (InOrder /\ LateFirst /\ OneWaits /\ Counted)'
  BY DEF Pipeline
<1>1. InOrder /\ LateFirst /\ OneWaits /\ Counted
  BY DEF Pipeline
<1>2. Base' = Base /\ Coming' = Coming /\ (Waiting' <=> Waiting)
  BY DEF Base, Coming, Waiting
<1>3. InOrder' /\ LateFirst' /\ OneWaits'
  BY <1>1, <1>2 DEF InOrder, LateFirst, OneWaits
<1>4. Counted'
  BY <1>1, <1>2 DEF Counted
<1> QED BY <1>3, <1>4

(* A Send while nobody waits. *)
LEMMA SendPipeline ==
    ASSUME RequestInv, Send
    PROVE  Pipeline'
<1> SUFFICES ASSUME Orderly' PROVE (InOrder /\ LateFirst /\ OneWaits /\ Counted)'
  BY DEF Pipeline
<1>1. /\ ~shut /\ ~closed /\ ~Waiting /\ Orderly
      /\ sends' = sends + 1 /\ sent' = sent + 1 /\ toServer' = Append(toServer, sent + 1)
      /\ result' = [result EXCEPT ![sent + 1] = "sent"]
      /\ UNCHANGED <<inbox, peeked, staleReplies, received, pc, req, shut, closed>>
  BY DEF Send, CanSend, Orderly, Waiting, guardVars, closeVars, callerVars
<1>2. InOrder /\ LateFirst /\ OneWaits /\ Counted /\ Numbered
  BY <1>1 DEF RequestInv, Pipeline
<1>3. sent + 1 \in Requests
  BY <1>2, RequestReplyAssumption, PipelineTypes, SMTT(30) DEF Send, Numbered, Requests
<1>4. Len(toServer') = Len(toServer) + 1 /\ Base' = Base /\ ~Waiting'
  BY <1>1, <1>3, AppendFacts, PipelineTypes DEF Base, Waiting
<1>5. InOrder'
  BY <1>1, <1>2, <1>4 DEF InOrder
<1>6. LateFirst'
  <2>1. Base + staleReplies <= sent /\ Base <= sent
    BY <1>2, PipelineTypes DEF LateFirst, Base
  <2>2. peeked' # <<>> => result'[Base'] \in {"sent", "closed"}
    BY <1>1, <1>2, <1>4, <2>1, PipelineTypes DEF LateFirst
  <2>3. ASSUME NEW r \in Requests, Base < r, r <= sent + 1
        PROVE  IF r <= Base + staleReplies THEN result'[r] = "timeout"
               ELSE result'[r] \in {"sent", "closed"}
    <3>1. CASE r = sent + 1
      BY <1>1, <1>3, <2>1, <3>1, PipelineTypes
    <3>2. CASE r # sent + 1
      <4>1. r <= sent /\ result'[r] = result[r]
        BY <1>1, <2>3, <3>2, PipelineTypes
      <4> QED BY <1>1, <1>2, <2>3, <4>1 DEF LateFirst
    <3> QED BY <3>1, <3>2
  <2> QED BY <1>1, <1>2, <1>4, <2>2, <2>3, PipelineTypes, SMTT(30) DEF LateFirst
<1>7. OneWaits'
  BY <1>4 DEF OneWaits, Waiting
<1>8. Counted'
  <2>1. Coming' = Coming + 1
    BY <1>1, <1>4, Lengths DEF Coming
  <2> QED BY <1>1, <1>2, <1>4, <2>1, Lengths, SMTT(30) DEF Counted
<1> QED BY <1>5, <1>6, <1>7, <1>8

(* A SendRecv sends when only late replies are to come. *)
LEMMA CallSendPipeline ==
    ASSUME RequestInv, NEW g \in Callers, CallSend(g)
    PROVE  Pipeline'
<1> SUFFICES ASSUME Orderly' PROVE (InOrder /\ LateFirst /\ OneWaits /\ Counted)'
  BY DEF Pipeline
<1>1. /\ ~shut /\ ~closed /\ Orderly /\ ~(sends > Len(received)) /\ pc[g] = "send"
      /\ sent' = sent + 1 /\ toServer' = Append(toServer, sent + 1)
      /\ result' = [result EXCEPT ![sent + 1] = "waiting"]
      /\ pc' = [pc EXCEPT ![g] = "wait"] /\ req' = [req EXCEPT ![g] = sent + 1]
      /\ UNCHANGED <<inbox, peeked, staleReplies, received, sends, shut, closed>>
  BY DEF CallSend, CanSend, Orderly, guardVars, closeVars, boundVars
<1>2. InOrder /\ LateFirst /\ OneWaits /\ Counted /\ Numbered /\ GuardHolds
  BY <1>1 DEF RequestInv, Pipeline
<1>3. sent + 1 \in Requests
  BY <1>1, <1>2, RequestReplyAssumption, PipelineTypes DEF Numbered, Requests, RequestInv, TypeOK
<1>4. Len(toServer') = Len(toServer) + 1 /\ Base' = Base
  BY <1>1, <1>3, AppendFacts, PipelineTypes DEF Base
<1>5. ~Waiting /\ Waiting' /\ \A h \in Callers : pc'[h] = "wait" => h = g
  BY <1>1, <1>2, PipelineTypes DEF Waiting, GuardHolds
<1>6. peeked = <<>> /\ Len(inbox) + Len(toServer) = staleReplies
  <2>1. Len(peeked) = 0 /\ Len(inbox) + Len(toServer) = staleReplies
    <3>1. Coming = staleReplies + sends
      BY <1>1, <1>2, <1>5 DEF Counted
    <3>2. staleReplies <= Len(inbox) + Len(toServer)
      BY <1>2 DEF LateFirst
    <3>3. ~(sends > Len(received))
      BY <1>1
    <3> QED BY <3>1, <3>2, <3>3, Lengths DEF Coming
  <2> QED BY <2>1, PipelineTypes
<1>7. InOrder'
  BY <1>1, <1>2, <1>4 DEF InOrder
<1>8. LateFirst'
  <2>1. Base + staleReplies = sent
    BY <1>6, PipelineTypes DEF Base
  <2>2. ASSUME NEW r \in Requests, Base < r, r <= sent + 1
        PROVE  IF r <= Base + staleReplies THEN result'[r] = "timeout"
               ELSE r = sent + 1 /\ result'[r] = "waiting"
    <3>1. CASE r = sent + 1
      BY <1>1, <1>3, <2>1, <3>1, PipelineTypes
    <3>2. CASE r # sent + 1
      <4>1. r <= sent /\ result'[r] = result[r]
        BY <1>1, <2>2, <3>2, PipelineTypes
      <4> QED BY <1>2, <2>1, <2>2, <4>1 DEF LateFirst
    <3> QED BY <3>1, <3>2
  <2> QED BY <1>1, <1>4, <1>5, <1>6, <2>2, PipelineTypes, SMTT(30) DEF LateFirst
<1>9. OneWaits'
  BY <1>1, <1>4, <1>5, <1>6, PipelineTypes DEF OneWaits
<1>10. Counted'
  <2>1. Coming' = Coming + 1
    BY <1>1, <1>4, Lengths DEF Coming
  <2> QED BY <1>1, <1>2, <1>5, <2>1, Lengths DEF Counted
<1> QED BY <1>7, <1>8, <1>9, <1>10

(* A reply comes from the server to the end of the inbox. *)
LEMMA ReplyPipeline ==
    ASSUME RequestInv, Reply
    PROVE  Pipeline'
<1> SUFFICES ASSUME Orderly' PROVE (InOrder /\ LateFirst /\ OneWaits /\ Counted)'
  BY DEF Pipeline
<1>1. /\ Orderly /\ toServer # <<>> /\ toServer' = Tail(toServer)
      /\ inbox' = Append(inbox, Head(toServer))
      /\ UNCHANGED <<sent, peeked, staleReplies, result, received, sends, pc, req, shut, closed>>
  BY DEF Reply, Deliver, Orderly, guardVars, closeVars, callerVars, boundVars
<1>2. InOrder /\ LateFirst /\ OneWaits /\ Counted /\ Numbered
  BY <1>1 DEF RequestInv, Pipeline
<1>3. /\ Head(toServer) = sent - Len(toServer) + 1 /\ Head(toServer) \in Messages
      /\ Len(toServer') = Len(toServer) - 1
  BY <1>1, <1>2, TailFacts, PipelineTypes DEF Numbered, Messages
<1>4. /\ Len(inbox') = Len(inbox) + 1 /\ DOMAIN inbox = 1..Len(inbox)
      /\ DOMAIN inbox' = 1..(Len(inbox) + 1) /\ inbox'[Len(inbox) + 1] = Head(toServer)
      /\ \A i \in 1..Len(inbox) : inbox'[i] = inbox[i]
  BY <1>1, <1>3, AppendFacts, PipelineTypes
<1>5. Base' = Base /\ (Waiting' <=> Waiting)
  BY <1>1, <1>3, <1>4, PipelineTypes, SMTT(30) DEF Base, Waiting
<1>6. InOrder'
  <2>1. \A i \in 1..Len(inbox) : inbox'[i] = Base + i
    BY <1>2, <1>4 DEF InOrder
  <2>2. inbox'[Len(inbox) + 1] = Base + (Len(inbox) + 1)
    BY <1>3, <1>4, PipelineTypes, SMTT(30) DEF Base
  <2>3. \A i \in 1..(Len(inbox) + 1) : inbox'[i] = Base + i
    BY <2>1, <2>2, PipelineTypes, SMTT(30)
  <2> QED BY <1>1, <1>2, <1>4, <1>5, <2>3 DEF InOrder
<1>7. LateFirst' /\ OneWaits'
  <2>1. Len(inbox') + Len(toServer') = Len(inbox) + Len(toServer)
    BY <1>3, <1>4, PipelineTypes
  <2>2. LateFirst'
    BY <1>1, <1>2, <1>5, <2>1 DEF LateFirst
  <2>3. OneWaits'
    BY <1>1, <1>2, <2>1 DEF OneWaits
  <2> QED BY <2>2, <2>3
<1>8. Counted'
  <2>1. Coming' = Coming
    BY <1>1, <1>3, <1>4, Lengths DEF Coming
  <2> QED BY <1>1, <1>2, <1>5, <2>1, Lengths DEF Counted
<1> QED BY <1>6, <1>7, <1>8

(* The call that waits gives up: its reply is the last of the late ones. *)
LEMMA TimeoutPipeline ==
    ASSUME RequestInv, NEW g \in Callers, Timeout(g)
    PROVE  Pipeline'
<1>1. CASE pc[g] = "wait"
  <2> SUFFICES ASSUME Orderly' PROVE (InOrder /\ LateFirst /\ OneWaits /\ Counted)'
    BY DEF Pipeline
  <2>1. /\ Orderly /\ staleReplies' = staleReplies + 1
        /\ result' = [result EXCEPT ![req[g]] = "timeout"]
        /\ pc' = [pc EXCEPT ![g] = "idle"] /\ (closed => closed')
        /\ UNCHANGED <<sent, toServer, inbox, peeked, received, sends, shut>>
    BY <1>1 DEF Timeout, CountStale, Leave, Orderly, serverVars
  <2>2. InOrder /\ LateFirst /\ OneWaits /\ Counted /\ GuardHolds /\ WaitersWait
    BY <2>1 DEF RequestInv, Pipeline
  <2>3. /\ req[g] = sent /\ sent \in Requests /\ peeked = <<>>
        /\ Len(inbox) + Len(toServer) = staleReplies + 1
    BY <1>1, <2>2 DEF OneWaits, WaitersWait
  <2>4. Base' = Base /\ sent = Base + staleReplies + 1
    <3>1. Base' = Base
      BY <2>1 DEF Base
    <3>2. Len(inbox) + Len(toServer) = staleReplies + 1
      BY <2>3
    <3>3. sent = Base + (staleReplies + 1)
      BY <3>2, BaseIs, Lengths
    <3> QED BY <3>1, <3>3, Lengths
  <2>w. Waiting /\ ~Waiting'
    BY <1>1, <2>1, <2>2, PipelineTypes DEF Waiting, GuardHolds
  <2>5. InOrder'
    BY <2>1, <2>2, <2>4 DEF InOrder
  <2>6. LateFirst'
    <3>1. ASSUME NEW r \in Requests, Base < r, r <= sent PROVE result'[r] = "timeout"
      BY <2>1, <2>2, <2>3, <2>4, <3>1, PipelineTypes DEF LateFirst
    <3> QED BY <2>1, <2>3, <2>4, <3>1, PipelineTypes, SMTT(30) DEF LateFirst
  <2>7. OneWaits'
    BY <2>w DEF OneWaits, Waiting
  <2>8. Counted'
    <3>1. Coming' = Coming
      BY <2>1, Lengths DEF Coming
    <3>2. ~shut' /\ ~closed' => Coming = staleReplies + sends + 1
      <4>1. ~shut' /\ ~closed' => ~shut /\ ~closed
        BY <2>1
      <4>2. Counted /\ Waiting
        BY <2>2, <2>w
      <4> QED BY <4>1, <4>2 DEF Counted
    <3>3. ~shut' /\ ~closed' => Coming' = staleReplies' + sends'
      BY <2>1, <3>1, <3>2, Lengths
    <3> QED BY <2>w, <3>3 DEF Counted
  <2> QED BY <2>5, <2>6, <2>7, <2>8
<1>2. CASE pc[g] # "wait"
  BY <1>2, QuietPipeline, PipelineTypes
     DEF Timeout, CountStale, Leave, RequestInv, Orderly, serverVars
<1> QED BY <1>1, <1>2

(* A late reply is thrown away. *)
LEMMA DiscardPipeline ==
    ASSUME RequestInv, NEW g \in Callers, Discard(g)
    PROVE  Pipeline'
<1> SUFFICES ASSUME Orderly' PROVE (InOrder /\ LateFirst /\ OneWaits /\ Counted)'
  BY DEF Pipeline
<1>1. /\ Orderly /\ inbox # <<>> /\ staleReplies > 0 /\ peeked = <<>>
      /\ staleReplies' = staleReplies - 1 /\ inbox' = Tail(inbox)
      /\ UNCHANGED <<sent, toServer, peeked, result, received, sends, pc, req, shut, closed>>
  BY DEF Discard, Stale, Reading, KeepsPeeked, Orderly, serverVars, closeVars, callerVars,
         boundVars
<1>2. InOrder /\ LateFirst /\ OneWaits /\ Counted
  BY <1>1 DEF RequestInv, Pipeline
<1>3. /\ Len(inbox) > 0 /\ Len(inbox') = Len(inbox) - 1 /\ DOMAIN inbox = 1..Len(inbox)
      /\ DOMAIN inbox' = 1..(Len(inbox) - 1)
      /\ \A i \in 1..(Len(inbox) - 1) : inbox'[i] = inbox[i + 1]
  BY <1>1, TailFacts, PipelineTypes
<1>4. Base' = Base + 1 /\ (Waiting' <=> Waiting) /\ Len(peeked) = 0
  BY <1>1, <1>3, PipelineTypes DEF Base, Waiting
<1>5. InOrder'
  <2>1. ASSUME NEW i \in 1..(Len(inbox) - 1) PROVE inbox'[i] = Base + 1 + i
    <3>1. i \in Nat /\ i + 1 \in 1..Len(inbox) /\ inbox'[i] = inbox[i + 1]
      BY <1>3, PipelineTypes
    <3>2. inbox[i + 1] = Base + (i + 1)
      BY <1>2, <1>3, <3>1 DEF InOrder
    <3> QED BY <3>1, <3>2, PipelineTypes
  <2> QED BY <1>1, <1>2, <1>3, <1>4, <2>1, PipelineTypes DEF InOrder
<1>6. LateFirst'
  <2>1. /\ peeked' = <<>> /\ sent' = sent /\ result' = result
        /\ staleReplies' <= Len(inbox') + Len(toServer')
    BY <1>1, <1>2, <1>3, PipelineTypes DEF LateFirst
  <2>2. ASSUME NEW r \in Requests, Base' < r, r <= sent
        PROVE  IF r <= Base' + staleReplies' THEN result[r] = "timeout"
               ELSE \/ result[r] \in {"sent", "closed"}
                    \/ r = sent /\ result[r] = "waiting" /\ Waiting
    <3>1. Base < r /\ (r <= Base' + staleReplies' <=> r <= Base + staleReplies)
      BY <1>1, <1>4, <2>2, PipelineTypes, SMTT(30)
    <3> QED BY <1>2, <2>2, <3>1 DEF LateFirst
  <2> QED BY <1>4, <2>1, <2>2 DEF LateFirst
<1>7. OneWaits'
  BY <1>1, <1>2, <1>3, PipelineTypes DEF OneWaits
<1>8. Counted'
  <2>1. Coming' = Coming - 1
    BY <1>1, <1>3, Lengths DEF Coming
  <2>2. /\ ~shut /\ ~closed /\ Waiting => Coming = staleReplies + sends + 1
        /\ ~shut /\ ~closed /\ ~Waiting => Coming = staleReplies + sends
    BY <1>2 DEF Counted
  <2>3. /\ Coming = staleReplies + sends + 1 => Coming' = staleReplies' + sends' + 1
        /\ Coming = staleReplies + sends => Coming' = staleReplies' + sends'
    <3>1. staleReplies' = staleReplies - 1 /\ sends' = sends
      BY <1>1
    <3>2. staleReplies \in Nat /\ sends \in Nat /\ Coming \in Nat
      BY Lengths
    <3> QED BY <2>1, <3>1, <3>2
  <2> QED BY <1>1, <1>4, <2>2, <2>3 DEF Counted
<1> QED BY <1>5, <1>6, <1>7, <1>8


(* SendRecv, Recv or PeekWire returns. *)
LEMMA LeaveFacts ==
    ASSUME NEW g \in Callers, Leave(g)
    PROVE  pc' = [pc EXCEPT ![g] = "idle"] /\ (closed => closed')
BY DEF Leave

LEMMA ReturnFacts ==
    ASSUME NEW g \in Callers, NEW m, Return(g, m)
    PROVE  /\ pc' = [pc EXCEPT ![g] = "idle"] /\ (shut => shut') /\ (closed => closed')
           /\ pc[g] = "wait" => /\ received' = received
                               /\ result' = [result EXCEPT ![req[g]] = "replied"]
                               /\ answer' = [answer EXCEPT ![req[g]] = m]
           /\ pc[g] # "wait" => /\ received' = Append(received, m)
                               /\ result' = result /\ answer' = answer
<1>1. Leave(g) /\ (shut => shut')
  BY DEF Return
<1>2. pc' = [pc EXCEPT ![g] = "idle"] /\ (closed => closed')
  BY <1>1, LeaveFacts
<1> QED BY <1>1, <1>2 DEF Return

(* The message that a Recv takes, or PeekWire leaves, is the next reply. *)
LEMMA PopInbox ==
    ASSUME RequestInv, InOrder, inbox # <<>>, inbox' = Tail(inbox),
           UNCHANGED <<sent, toServer>>
    PROVE  /\ Len(inbox) > 0 /\ Len(inbox') = Len(inbox) - 1
           /\ Base' = Base + 1 /\ Head(inbox) = Base + 1 /\ Base >= 0
           /\ \A i \in DOMAIN inbox' : inbox'[i] = Base' + i
<1>1. /\ Len(inbox) > 0 /\ Len(inbox') = Len(inbox) - 1 /\ DOMAIN inbox = 1..Len(inbox)
      /\ 1 \in DOMAIN inbox /\ Head(inbox) = inbox[1] /\ DOMAIN inbox' = 1..(Len(inbox) - 1)
      /\ \A i \in 1..(Len(inbox) - 1) : inbox'[i] = inbox[i + 1]
  BY TailFacts, PipelineTypes
<1>2. Base' = Base + 1
  BY <1>1, PipelineTypes DEF Base
<1>3. Head(inbox) = Base + 1 /\ Base >= 0
  <2>1. inbox[1] = Base + 1 /\ Base >= Len(peeked)
    BY <1>1 DEF InOrder
  <2> QED BY <1>1, <2>1, Lengths
<1>4. ASSUME NEW i \in 1..(Len(inbox) - 1) PROVE inbox'[i] = Base + 1 + i
  <2>1. i \in Nat /\ i + 1 \in 1..Len(inbox) /\ inbox'[i] = inbox[i + 1]
    BY <1>1, PipelineTypes
  <2>2. inbox[i + 1] = Base + (i + 1)
    BY <1>1, <2>1 DEF InOrder
  <2> QED BY <2>1, <2>2, PipelineTypes
<1> QED BY <1>1, <1>2, <1>3, <1>4

(* Recv returns what PeekWire left. *)
LEMMA TakePeekedPipeline ==
    ASSUME RequestInv, NEW g \in Callers, TakePeeked(g)
    PROVE  Pipeline'
<1> SUFFICES ASSUME Orderly' PROVE (InOrder /\ LateFirst /\ OneWaits /\ Counted)'
  BY DEF Pipeline
<1>1. /\ Orderly /\ pc[g] \in {"wait", "recv"} /\ peeked # <<>> /\ peeked' = <<>>
      /\ pc' = [pc EXCEPT ![g] = "idle"] /\ (shut => shut') /\ (closed => closed')
      /\ UNCHANGED <<sent, toServer, inbox, staleReplies, sends>>
  BY ReturnFacts DEF TakePeeked, Orderly, serverVars, boundVars
<1>2. InOrder /\ LateFirst /\ OneWaits /\ Counted /\ GuardHolds /\ Numbered
  BY <1>1 DEF RequestInv, Pipeline
<1>3. pc[g] = "recv" /\ ~Waiting /\ ~Waiting'
  <2>1. pc[g] = "recv"
    BY <1>1, <1>2 DEF OneWaits
  <2>2. \A h \in Callers : pc[h] # "wait"
    BY <1>2, <2>1 DEF GuardHolds
  <2> QED BY <1>1, <2>1, <2>2, PipelineTypes DEF Waiting
<1>4. result' = result /\ received' = Append(received, Head(peeked))
  BY <1>3, ReturnFacts DEF TakePeeked
<1>5. Len(peeked) = 1 /\ Len(peeked') = 0 /\ Len(received') = Len(received) + 1
  <2>1. Len(peeked) > 0 /\ Head(peeked) \in Messages
    BY <1>1, TailFacts, PipelineTypes
  <2>2. Len(received') = Len(received) + 1
    BY <1>4, <2>1, AppendFacts, PipelineTypes
  <2>3. Len(peeked) = 1
    <3>1. Len(peeked) <= 1 /\ Len(peeked) > 0
      BY <1>2, <2>1 DEF Numbered
    <3>2. \A n \in Nat : n <= 1 /\ n > 0 => n = 1
      OBVIOUS
    <3> QED BY <3>1, <3>2, Lengths
  <2> QED BY <1>1, <2>2, <2>3
<1>6. Base' = Base
  BY <1>1 DEF Base
<1>7. InOrder'
  BY <1>1, <1>2, <1>5, <1>6, PipelineTypes DEF InOrder
<1>8. LateFirst'
  BY <1>1, <1>2, <1>3, <1>4, <1>6 DEF LateFirst
<1>9. OneWaits'
  BY <1>3 DEF OneWaits, Waiting
<1>10. Counted'
  <2>1. Coming' = Coming
    BY <1>1, <1>5, Lengths DEF Coming
  <2> QED BY <1>1, <1>2, <1>3, <2>1 DEF Counted
<1> QED BY <1>7, <1>8, <1>9, <1>10

(* SendRecv returns the only reply that was to come. *)
LEMMA TakeReplyPipeline ==
    ASSUME RequestInv, NEW g \in Callers, Take(g), pc[g] = "wait"
    PROVE  Pipeline'
<1> SUFFICES ASSUME Orderly' PROVE (InOrder /\ LateFirst /\ OneWaits /\ Counted)'
  BY DEF Pipeline
<1>1. /\ Orderly /\ inbox # <<>> /\ inbox' = Tail(inbox) /\ ~(staleReplies > 0)
      /\ pc' = [pc EXCEPT ![g] = "idle"] /\ (shut => shut') /\ (closed => closed')
      /\ UNCHANGED <<sent, toServer, peeked, staleReplies, received, sends>>
  BY ReturnFacts DEF Take, Stale, Orderly, serverVars, boundVars
<1>2. InOrder /\ LateFirst /\ OneWaits /\ Counted /\ GuardHolds
  BY <1>1 DEF RequestInv, Pipeline
<1>3. Waiting /\ ~Waiting'
  BY <1>1, <1>2, PipelineTypes DEF Waiting, GuardHolds
<1>4. peeked = <<>> /\ Len(inbox) + Len(toServer) = staleReplies + 1
  BY <1>2 DEF OneWaits
<1>5. /\ Len(inbox') = Len(inbox) - 1 /\ Base' = Base + 1 /\ Base >= 0
      /\ \A i \in DOMAIN inbox' : inbox'[i] = Base' + i
  BY <1>1, <1>2, PopInbox
<1>6. staleReplies = 0 /\ Base' = sent
  <2>1. staleReplies = 0
    BY <1>1, Lengths
  <2>2. Len(inbox) + Len(toServer) = 1
    BY <1>4, <2>1, Lengths
  <2> QED BY <1>5, <2>1, <2>2, BaseIs, Lengths
<1>7. InOrder'
  BY <1>1, <1>4, <1>5, PipelineTypes DEF InOrder
<1>8. LateFirst'
  <2>1. \A r \in Requests : ~(Base' < r /\ r <= sent')
    BY <1>1, <1>6, PipelineTypes
  <2>2. staleReplies' <= Len(inbox') + Len(toServer')
    BY <1>1, <1>4, <1>5, <1>6, Lengths
  <2> QED BY <1>1, <1>4, <2>1, <2>2 DEF LateFirst
<1>9. OneWaits'
  BY <1>3 DEF OneWaits, Waiting
<1>10. Counted'
  <2>1. Coming' = Coming - 1
    BY <1>1, <1>5, Lengths DEF Coming
  <2> QED BY <1>1, <1>2, <1>3, <2>1, Lengths DEF Counted
<1> QED BY <1>7, <1>8, <1>9, <1>10

(* The reply that Recv takes or PeekWire leaves is nobody's that waits. *)
LEMMA NextReply ==
    ASSUME RequestInv, Orderly, InOrder, LateFirst, NEW g \in Callers,
           pc[g] \in {"recv", "peek"}, inbox # <<>>, ~(staleReplies > 0)
    PROVE  /\ ~Waiting /\ staleReplies = 0 /\ Head(inbox) = Base + 1
           /\ Base + 1 \in Requests /\ result[Base + 1] \in {"sent", "closed"}
<1>1. ~Waiting
  BY DEF RequestInv, GuardHolds, Waiting
<1>2. Base + 1 <= sent /\ Len(inbox) > 0 /\ Head(inbox) = inbox[1] /\ 1 \in DOMAIN inbox
  <2>1. Len(inbox) > 0 /\ Head(inbox) = inbox[1] /\ 1 \in DOMAIN inbox
    BY TailFacts, PipelineTypes
  <2>2. sent = Base + (Len(inbox) + Len(toServer))
    BY BaseIs, Lengths
  <2> QED BY <2>1, <2>2, Lengths
<1>3. Head(inbox) = Base + 1 /\ Base >= 0
  BY <1>2, Lengths DEF InOrder
<1>4. Base + 1 \in Requests
  <2>1. sent \in 0..(MaxCalls + MaxSends)
    BY DEF RequestInv, TypeOK
  <2> QED BY <1>2, <1>3, <2>1, Lengths, RequestReplyAssumption DEF Requests
<1>5. staleReplies = 0
  BY Lengths
<1>6. Base < Base + 1 /\ ~(Base + 1 <= Base + staleReplies)
  BY <1>5, Lengths
<1> QED BY <1>1, <1>2, <1>3, <1>4, <1>5, <1>6 DEF LateFirst

(* Recv returns the next reply. *)
LEMMA TakeRecvPipeline ==
    ASSUME RequestInv, NEW g \in Callers, Take(g), pc[g] = "recv"
    PROVE  Pipeline'
<1> SUFFICES ASSUME Orderly' PROVE (InOrder /\ LateFirst /\ OneWaits /\ Counted)'
  BY DEF Pipeline
<1>1. /\ Orderly /\ peeked = <<>> /\ inbox # <<>> /\ inbox' = Tail(inbox)
      /\ ~(staleReplies > 0) /\ received' = Append(received, Head(inbox))
      /\ pc' = [pc EXCEPT ![g] = "idle"] /\ (shut => shut') /\ (closed => closed')
      /\ UNCHANGED <<sent, toServer, peeked, staleReplies, sends, result>>
  BY ReturnFacts DEF Take, Reading, KeepsPeeked, Stale, Orderly, serverVars, boundVars
<1>2. InOrder /\ LateFirst /\ OneWaits /\ Counted
  BY <1>1 DEF RequestInv, Pipeline
<1>3. ~Waiting /\ staleReplies = 0
  BY <1>1, <1>2, NextReply
<1>4. ~Waiting'
  BY <1>1, <1>3, PipelineTypes DEF Waiting
<1>5. /\ Len(inbox) > 0 /\ Len(inbox') = Len(inbox) - 1 /\ Base' = Base + 1 /\ Base >= 0
      /\ \A i \in DOMAIN inbox' : inbox'[i] = Base' + i
  BY <1>1, <1>2, PopInbox
<1>6. Len(received') = Len(received) + 1
  <2>1. Head(inbox) \in Messages
    BY <1>1, TailFacts, PipelineTypes
  <2> QED BY <1>1, <2>1, AppendFacts, PipelineTypes
<1>7. InOrder'
  BY <1>1, <1>5, PipelineTypes DEF InOrder
<1>8. LateFirst'
  <2>1. staleReplies' <= Len(inbox') + Len(toServer')
    BY <1>1, <1>3, <1>5, Lengths
  <2>2. ASSUME NEW r \in Requests, Base' < r, r <= sent
        PROVE  ~(r <= Base' + staleReplies') /\ result[r] \in {"sent", "closed"}
    <3>1. Base < r /\ ~(r <= Base + staleReplies) /\ ~(r <= Base' + staleReplies')
      BY <1>1, <1>3, <1>5, <2>2, PipelineTypes
    <3> QED BY <1>2, <1>3, <2>2, <3>1 DEF LateFirst
  <2> QED BY <1>1, <2>1, <2>2 DEF LateFirst
<1>9. OneWaits'
  BY <1>4 DEF OneWaits, Waiting
<1>10. Counted'
  <2>1. Coming' = Coming
    BY <1>1, <1>5, <1>6, Lengths DEF Coming
  <2> QED BY <1>1, <1>2, <1>3, <1>4, <2>1 DEF Counted
<1> QED BY <1>7, <1>8, <1>9, <1>10

(* PeekWire leaves the next reply. *)
LEMMA PeekReadPipeline ==
    ASSUME RequestInv, NEW g \in Callers, PeekRead(g)
    PROVE  Pipeline'
<1> SUFFICES ASSUME Orderly' PROVE (InOrder /\ LateFirst /\ OneWaits /\ Counted)'
  BY DEF Pipeline
<1>1. /\ Orderly /\ pc[g] = "peek" /\ peeked = <<>> /\ inbox # <<>> /\ inbox' = Tail(inbox)
      /\ ~(staleReplies > 0) /\ peeked' = <<Head(inbox)>>
      /\ pc' = [pc EXCEPT ![g] = "idle"] /\ (closed => closed')
      /\ UNCHANGED <<sent, toServer, staleReplies, sends, result, received, shut>>
  BY DEF PeekRead, Reading, KeepsPeeked, Stale, Leave, Orderly, serverVars, boundVars,
         historyVars
<1>2. InOrder /\ LateFirst /\ OneWaits /\ Counted
  BY <1>1 DEF RequestInv, Pipeline
<1>3. /\ ~Waiting /\ staleReplies = 0 /\ Head(inbox) = Base + 1
      /\ result[Base + 1] \in {"sent", "closed"}
  BY <1>1, <1>2, NextReply
<1>4. ~Waiting'
  BY <1>1, <1>3, PipelineTypes DEF Waiting
<1>5. /\ Len(inbox) > 0 /\ Len(inbox') = Len(inbox) - 1 /\ Base' = Base + 1 /\ Base >= 0
      /\ \A i \in DOMAIN inbox' : inbox'[i] = Base' + i
  BY <1>1, <1>2, PopInbox
<1>6. Len(peeked) = 0 /\ Len(peeked') = 1 /\ peeked'[1] = Head(inbox)
  BY <1>1
<1>7. InOrder'
  BY <1>3, <1>5, <1>6, Lengths DEF InOrder
<1>8. LateFirst'
  <2>1. peeked' # <<>> => result'[Base'] \in {"sent", "closed"}
    BY <1>1, <1>3, <1>5
  <2>2. staleReplies' <= Len(inbox') + Len(toServer')
    BY <1>1, <1>3, <1>5, Lengths
  <2>3. ASSUME NEW r \in Requests, Base' < r, r <= sent
        PROVE  ~(r <= Base' + staleReplies') /\ result[r] \in {"sent", "closed"}
    <3>1. Base < r /\ ~(r <= Base + staleReplies) /\ ~(r <= Base' + staleReplies')
      BY <1>1, <1>3, <1>5, <2>3, PipelineTypes
    <3> QED BY <1>2, <1>3, <2>3, <3>1 DEF LateFirst
  <2> QED BY <1>1, <2>1, <2>2, <2>3 DEF LateFirst
<1>9. OneWaits'
  BY <1>4 DEF OneWaits, Waiting
<1>10. Counted'
  <2>1. Coming' = Coming
    BY <1>1, <1>5, <1>6, Lengths DEF Coming
  <2> QED BY <1>1, <1>2, <1>3, <1>4, <2>1 DEF Counted
<1> QED BY <1>7, <1>8, <1>9, <1>10

(* SendRecv ends with ErrClosed: its reply, if it comes, is nobody's. *)
LEMMA RecvClosedPipeline ==
    ASSUME RequestInv, NEW g \in Callers, RecvClosed(g)
    PROVE  Pipeline'
<1>1. CASE pc[g] = "wait"
  <2> SUFFICES ASSUME Orderly' PROVE (InOrder /\ LateFirst /\ OneWaits /\ Counted)'
    BY DEF Pipeline
  <2>1. /\ Orderly /\ (closed \/ ended) /\ result' = [result EXCEPT ![req[g]] = "closed"]
        /\ pc' = [pc EXCEPT ![g] = "idle"] /\ (closed => closed')
        /\ UNCHANGED <<sent, toServer, inbox, peeked, staleReplies, received, sends, shut>>
    BY <1>1 DEF RecvClosed, Leave, Orderly, serverVars, boundVars
  <2>2. InOrder /\ LateFirst /\ OneWaits /\ Counted /\ GuardHolds /\ WaitersWait /\ Numbered
    BY <2>1 DEF RequestInv, Pipeline
  <2>3. /\ req[g] = sent /\ sent \in Requests /\ peeked = <<>>
        /\ Len(inbox) + Len(toServer) = staleReplies + 1
    BY <1>1, <2>2 DEF OneWaits, WaitersWait
  <2>4. Base' = Base /\ sent = Base + (staleReplies + 1)
    <3>1. Base' = Base
      BY <2>1 DEF Base
    <3>2. sent = Base + (staleReplies + 1)
      BY <2>3, BaseIs, Lengths
    <3> QED BY <3>1, <3>2
  <2>5. ~Waiting'
    BY <1>1, <2>1, <2>2, PipelineTypes DEF Waiting, GuardHolds
  <2>6. InOrder'
    BY <2>1, <2>2, <2>4 DEF InOrder
  <2>7. LateFirst'
    <3>1. ASSUME NEW r \in Requests, Base < r, r <= sent
          PROVE  IF r <= Base + staleReplies THEN result'[r] = "timeout"
                 ELSE result'[r] \in {"sent", "closed"}
      <4>1. CASE r = sent
        BY <2>1, <2>3, <2>4, <4>1, PipelineTypes
      <4>2. CASE r # sent
        BY <2>1, <2>2, <2>3, <3>1, <4>2 DEF LateFirst
      <4> QED BY <4>1, <4>2
    <3> QED BY <2>1, <2>2, <2>3, <2>4, <3>1 DEF LateFirst
  <2>8. OneWaits'
    BY <2>5 DEF OneWaits, Waiting
  <2>9. Counted'
    BY <2>1, <2>2 DEF Counted, Numbered
  <2> QED BY <2>6, <2>7, <2>8, <2>9
<1>2. CASE pc[g] # "wait"
  BY <1>2, QuietPipeline, PipelineTypes
     DEF RecvClosed, Leave, RequestInv, Orderly, serverVars, boundVars
<1> QED BY <1>1, <1>2

(* Every step keeps the replies in order and counted. *)
LEMMA NextPipeline ==
    ASSUME RequestInv, Next
    PROVE  Pipeline'
<1> USE DEF onceVars, guardVars, closeVars, callerVars, serverVars, boundVars, historyVars
<1>0. Pipeline /\ GuardHolds
  BY DEF RequestInv
<1>1. pc \in [Callers -> {"idle", "send", "wait", "recv", "peek"}]
  BY PipelineTypes
<1>2. CASE OnceFails \/ StreamClose \/ ConnectionClosed \/ NewTask \/ TaskEnd \/ DecodeEnd
  BY <1>0, <1>2, QuietPipeline
     DEF OnceFails, StreamClose, ConnectionClosed, NewTask, TaskEnd, DecodeEnd, Orderly
<1>3. CASE ReplyUnsent \/ TaskSend
  BY <1>3 DEF ReplyUnsent, TaskSend, Pipeline, Orderly
<1>4. ASSUME NEW g \in Callers, Call(g) \/ Recv(g) \/ PeekWire(g)
      PROVE  Pipeline'
  BY <1>0, <1>1, <1>4, QuietPipeline DEF Call, Recv, PeekWire, Enter, Orderly
<1>5. ASSUME NEW g \in Callers, CallSendFails(g) \/ PeekAgain(g)
      PROVE  Pipeline'
  <2>1. /\ UNCHANGED <<sent, toServer, inbox, peeked, result, staleReplies, received, sends>>
        /\ UNCHANGED <<shut, mixed, dropped>> /\ pc[g] # "wait" /\ Leave(g)
    BY <1>5 DEF CallSendFails, PeekAgain
  <2>2. pc' = [pc EXCEPT ![g] = "idle"] /\ (closed => closed') /\ req' = [req EXCEPT ![g] = 0]
    BY <2>1, LeaveFacts DEF Leave
  <2>3. /\ \A h \in Callers : pc'[h] = "wait" <=> pc[h] = "wait"
        /\ \A h \in Callers : pc[h] = "wait" => req'[h] = req[h]
    BY <1>1, <2>1, <2>2, PipelineTypes
  <2> QED BY <1>0, <2>1, <2>2, <2>3, QuietPipeline DEF Orderly
<1>6. ASSUME NEW g \in Callers, Take(g)
      PROVE  Pipeline'
  BY <1>6, TakeReplyPipeline, TakeRecvPipeline DEF Take
<1> QED
  BY <1>2, <1>3, <1>4, <1>5, <1>6, SendPipeline, ReplyPipeline, CallSendPipeline,
     TimeoutPipeline, DiscardPipeline, TakePeekedPipeline, PeekReadPipeline,
     RecvClosedPipeline DEF Next, CallerStep


-----------------------------------------------------------------------------
(* What was returned and discarded.                                        *)

(* A result, once there, stays. *)
LEMMA KeepsReturned ==
    ASSUME TypeOK, Returned, Orderly' => Orderly, UNCHANGED <<received, discarded, answer>>,
           \A r \in Requests : \/ result'[r] = result[r]
                               \/ /\ result[r] \in {"none", "waiting"}
                                  /\ result'[r] # "replied"
    PROVE  Returned'
BY DEF Returned

LEMMA NextReturned ==
    ASSUME RequestInv, Next
    PROVE  Returned'
<1> USE DEF onceVars, guardVars, closeVars, callerVars, serverVars, boundVars, historyVars
<1>0. Returned /\ Pipeline /\ WaitersWait /\ Numbered /\ TypeOK
  BY DEF RequestInv
<1>1. CASE OnceFails \/ StreamClose \/ ConnectionClosed \/ NewTask \/ TaskEnd \/ DecodeEnd
  BY <1>0, <1>1, KeepsReturned
     DEF OnceFails, StreamClose, ConnectionClosed, NewTask, TaskEnd, DecodeEnd, Orderly
<1>2. CASE ReplyUnsent \/ TaskSend
  BY <1>2 DEF ReplyUnsent, TaskSend, Returned, Orderly
<1>3. CASE Reply
  <2>1. UNCHANGED <<received, discarded, answer, result, mixed>> /\ (Orderly' => Orderly)
    BY <1>3 DEF Reply, Deliver, Orderly
  <2> QED BY <1>0, <2>1, KeepsReturned
<1>4. ASSUME NEW g \in Callers,
             \/ Call(g) \/ Recv(g) \/ PeekWire(g) \/ CallSendFails(g) \/ PeekAgain(g)
             \/ PeekRead(g)
      PROVE  Returned'
  BY <1>0, <1>4, KeepsReturned
     DEF Call, Recv, PeekWire, Enter, CallSendFails, PeekAgain, PeekRead, Orderly
<1>5. CASE Send
  <2>1. \A r \in Requests : result'[r] = result[r] \/ r = sent + 1
    BY <1>5, PipelineTypes DEF Send
  <2>2. \A r \in Requests : r = sent + 1 => result[r] = "none" /\ result'[r] = "sent"
    BY <1>0, <1>5, PipelineTypes DEF Send, Numbered
  <2> QED BY <1>0, <1>5, <2>1, <2>2, KeepsReturned DEF Send, Orderly
<1>6. ASSUME NEW g \in Callers, CallSend(g)
      PROVE  Returned'
  <2>1. \A r \in Requests : result'[r] = result[r] \/ r = sent + 1
    BY <1>6, PipelineTypes DEF CallSend
  <2>2. \A r \in Requests : r = sent + 1 => result[r] = "none" /\ result'[r] = "waiting"
    BY <1>0, <1>6, PipelineTypes DEF CallSend, Numbered
  <2> QED BY <1>0, <1>6, <2>1, <2>2, KeepsReturned DEF CallSend, Orderly
<1>7. ASSUME NEW g \in Callers, Timeout(g) \/ RecvClosed(g)
      PROVE  Returned'
  <2>1. \A r \in Requests : \/ result'[r] = result[r]
                            \/ result[r] = "waiting" /\ result'[r] # "replied"
    BY <1>0, <1>7, PipelineTypes DEF Timeout, RecvClosed, WaitersWait
  <2>2. UNCHANGED <<received, discarded, answer, mixed, dropped>>
    BY <1>7 DEF Timeout, RecvClosed
  <2> QED BY <1>0, <2>1, <2>2, KeepsReturned DEF Orderly
<1>8. ASSUME NEW g \in Callers, Discard(g), Orderly'
      PROVE  Returned'
  <2>1. /\ Orderly /\ inbox # <<>> /\ staleReplies > 0 /\ UNCHANGED <<result, answer, received>>
        /\ discarded' = discarded \cup {Head(inbox)}
    BY <1>8 DEF Discard, Stale, Orderly
  <2>2. InOrder /\ LateFirst
    BY <1>0, <2>1 DEF Pipeline
  <2>3. Head(inbox) = Base + 1 /\ Base >= 0 /\ Base + 1 <= sent /\ Base + 1 <= Base + staleReplies
    <3>1. Len(inbox) > 0 /\ Head(inbox) = inbox[1] /\ 1 \in DOMAIN inbox
      BY <2>1, TailFacts, PipelineTypes
    <3>2. inbox[1] = Base + 1 /\ Base >= Len(peeked)
      BY <2>2, <3>1 DEF InOrder
    <3>3. sent = Base + (Len(inbox) + Len(toServer))
      BY BaseIs, Lengths
    <3> QED BY <2>1, <3>1, <3>2, <3>3, Lengths
  <2>4. Base + 1 \in Requests /\ Base < Base + 1
    BY <1>0, <2>3, Lengths, RequestReplyAssumption DEF TypeOK, Requests
  <2>5. result[Base + 1] = "timeout"
    BY <2>2, <2>3, <2>4 DEF LateFirst
  <2> QED BY <1>0, <2>1, <2>3, <2>4, <2>5 DEF Returned
<1>9. ASSUME NEW g \in Callers, NEW m \in Messages, NEW k \in Requests, Orderly, Returned,
             pc[g] # "wait", Return(g, m), UNCHANGED discarded,
             m = k, result[k] \in {"sent", "closed"}
      PROVE  Returned'
  <2>1. received' = Append(received, m) /\ result' = result /\ answer' = answer
    BY <1>9, ReturnFacts
  <2>2. \A i \in DOMAIN received' :
           received'[i] \in Requests /\ result'[received'[i]] \in {"sent", "closed"}
    BY <1>9, <2>1, AppendFacts, PipelineTypes DEF Returned
  <2> QED BY <1>9, <2>1, <2>2 DEF Returned
<1>10. ASSUME NEW g \in Callers, TakePeeked(g), Orderly'
       PROVE  Returned'
  <2>1. /\ Orderly /\ pc[g] \in {"wait", "recv"} /\ peeked # <<>> /\ Return(g, Head(peeked))
        /\ UNCHANGED discarded
    BY <1>10 DEF TakePeeked, Orderly
  <2>2. InOrder /\ LateFirst /\ OneWaits
    BY <1>0, <2>1 DEF Pipeline
  <2>3. pc[g] # "wait"
    BY <2>1, <2>2 DEF OneWaits
  <2>4. Head(peeked) = Base /\ Base > 0 /\ Head(peeked) \in Messages
    <3>1. Head(peeked) = peeked[1] /\ Head(peeked) \in Messages /\ Len(peeked) > 0
      BY <2>1, TailFacts, PipelineTypes
    <3>2. Base >= Len(peeked) /\ peeked[1] = Base
      BY <2>1, <2>2 DEF InOrder
    <3> QED BY <3>1, <3>2, Lengths
  <2>5. Base \in Requests
    <3>1. sent = Base + (Len(inbox) + Len(toServer))
      BY BaseIs, Lengths
    <3>2. Base <= sent
      BY <3>1, Lengths
    <3> QED BY <1>0, <2>4, <3>2, Lengths, RequestReplyAssumption DEF TypeOK, Requests
  <2>6. result[Base] \in {"sent", "closed"}
    BY <2>1, <2>2 DEF LateFirst
  <2> QED BY <1>0, <1>9, <2>1, <2>3, <2>4, <2>5, <2>6
<1>11. ASSUME NEW g \in Callers, Take(g), Orderly'
       PROVE  Returned'
  <2>1. /\ Orderly /\ pc[g] \in {"wait", "recv"} /\ inbox # <<>> /\ ~(staleReplies > 0)
        /\ Return(g, Head(inbox)) /\ UNCHANGED discarded
    BY <1>11 DEF Take, Stale, Orderly
  <2>2. InOrder /\ LateFirst /\ OneWaits
    BY <1>0, <2>1 DEF Pipeline
  <2>3. Head(inbox) \in Messages /\ 1 \in DOMAIN inbox /\ Len(inbox) > 0 /\ Head(inbox) = inbox[1]
    BY <2>1, TailFacts, PipelineTypes
  <2>4. CASE pc[g] = "recv"
    BY <1>0, <1>9, <2>1, <2>2, <2>3, <2>4, NextReply
  <2>5. CASE pc[g] = "wait"
    <3>1. req[g] = sent /\ Len(inbox) + Len(toServer) = staleReplies + 1
      BY <2>2, <2>5 DEF OneWaits
    <3>2. Len(inbox) + Len(toServer) = 1
      BY <2>1, <3>1, Lengths
    <3>3. sent = Base + 1
      BY <3>2, BaseIs
    <3>4. Head(inbox) = Base + 1
      BY <2>2, <2>3 DEF InOrder
    <3>5. /\ received' = received /\ result' = [result EXCEPT ![req[g]] = "replied"]
          /\ answer' = [answer EXCEPT ![req[g]] = req[g]]
      BY <2>1, <2>5, <3>1, <3>3, <3>4, ReturnFacts
    <3>6. req[g] \in Requests /\ result[req[g]] = "waiting"
      BY <1>0, <2>5 DEF WaitersWait
    <3> QED BY <1>0, <2>1, <3>5, <3>6 DEF Returned, TypeOK
  <2> QED BY <2>1, <2>4, <2>5
<1>12. ASSUME NEW g \in Callers, Discard(g) \/ TakePeeked(g) \/ Take(g)
       PROVE  Returned'
  BY <1>8, <1>10, <1>11, <1>12 DEF Returned
<1> QED
  BY <1>1, <1>2, <1>3, <1>4, <1>5, <1>6, <1>7, <1>12 DEF Next, CallerStep

-----------------------------------------------------------------------------
(* No reply is lost.                                                       *)

InSeq(r, s) == \E i \in DOMAIN s : s[i] = r

LEMMA InTail ==
    ASSUME NEW S, NEW s \in Seq(S), s # <<>>, NEW r
    PROVE  InSeq(r, s) => r = Head(s) \/ InSeq(r, Tail(s))
<1> SUFFICES ASSUME NEW i \in DOMAIN s, s[i] = r, r # Head(s)
             PROVE  \E j \in DOMAIN Tail(s) : Tail(s)[j] = r
  BY DEF InSeq
<1>1. i \in 1..Len(s) /\ i # 1 /\ Len(s) \in Nat
  BY TailFacts
<1>2. i - 1 \in 1..(Len(s) - 1) /\ (i - 1) + 1 = i
  BY <1>1
<1>3. i - 1 \in DOMAIN Tail(s) /\ Tail(s)[i - 1] = s[i]
  BY <1>2, TailFacts
<1> QED BY <1>3

LEMMA InAppend ==
    ASSUME NEW S, NEW s \in Seq(S), NEW m \in S, NEW r
    PROVE  InSeq(r, s) \/ r = m => InSeq(r, Append(s, m))
<1>1. ASSUME InSeq(r, s) PROVE InSeq(r, Append(s, m))
  BY <1>1, AppendFacts DEF InSeq
<1>2. ASSUME r = m PROVE InSeq(r, Append(s, m))
  <2>1. Len(s) + 1 \in DOMAIN Append(s, m) /\ Append(s, m)[Len(s) + 1] = r
    BY <1>2, AppendFacts
  <2> QED BY <2>1 DEF InSeq
<1> QED BY <1>1, <1>2

(* Where the reply to request r is. *)
Kept(r) ==
    \/ r \in unsent \/ r \in discarded
    \/ peeked = <<r>>
    \/ InSeq(r, toServer) \/ InSeq(r, inbox) \/ InSeq(r, received)
    \/ \E q \in Requests : result[q] = "replied" /\ answer[q] = r

(* A step loses nothing if it keeps each reply that was kept. *)
LEMMA KeepsAll ==
    ASSUME NothingLost, shut => shut', closed => closed', sent' = sent,
           ~shut' /\ ~closed' => \A r \in 1..sent : Kept(r) => Kept(r)'
    PROVE  NothingLost'
<1> SUFFICES ASSUME ~shut', ~closed', NEW r \in 1..sent'
             PROVE  Kept(r)'
  BY DEF NothingLost, Kept, InSeq
<1>1. Kept(r)
  BY DEF NothingLost, Kept, InSeq
<1> QED BY <1>1

(* A result that is not yet there is no reply. *)
LEMMA KeepsReplied ==
    ASSUME TypeOK, answer' = answer,
           \A q \in Requests : result[q] = "replied" => result'[q] = "replied", NEW r,
           \E q \in Requests : result[q] = "replied" /\ answer[q] = r
    PROVE  \E q \in Requests : result'[q] = "replied" /\ answer'[q] = r
OBVIOUS

LEMMA NextLost ==
    ASSUME RequestInv, Next
    PROVE  NothingLost'
<1> USE DEF onceVars, guardVars, closeVars, callerVars, serverVars, boundVars, historyVars
<1>0. NothingLost /\ WaitersWait /\ Numbered /\ TypeOK
  BY DEF RequestInv
<1>1. CASE OnceFails \/ StreamClose \/ ConnectionClosed \/ NewTask \/ TaskEnd \/ DecodeEnd
  BY <1>0, <1>1
     DEF OnceFails, StreamClose, ConnectionClosed, NewTask, TaskEnd, DecodeEnd, NothingLost
<1>2. ASSUME NEW g \in Callers,
             \/ Call(g) \/ Recv(g) \/ PeekWire(g) \/ CallSendFails(g) \/ PeekAgain(g)
      PROVE  NothingLost'
  <2>1. /\ UNCHANGED <<sent, unsent, discarded, peeked, toServer, inbox, received, result>>
        /\ UNCHANGED <<answer, shut>> /\ (closed => closed')
    BY <1>2, LeaveFacts DEF Call, Recv, PeekWire, Enter, CallSendFails, PeekAgain
  <2> QED BY <1>0, <2>1 DEF NothingLost
<1>3. ASSUME sent + 1 \in Requests, sent' = sent + 1, toServer' = Append(toServer, sent + 1),
             UNCHANGED <<unsent, discarded, peeked, inbox, received, answer, shut, closed>>,
             \E w \in {"sent", "waiting"} : result' = [result EXCEPT ![sent + 1] = w]
      PROVE  NothingLost'
  <2> SUFFICES ASSUME ~shut', ~closed', NEW r \in 1..(sent + 1)
               PROVE  Kept(r)'
    BY <1>3 DEF NothingLost, Kept, InSeq
  <2>1. CASE r = sent + 1
    BY <1>3, <2>1, InAppend, PipelineTypes DEF Kept
  <2>2. CASE r # sent + 1
    <3>1. r \in 1..sent
      BY <2>2, PipelineTypes
    <3>2. Kept(r)
      BY <1>0, <1>3, <3>1 DEF NothingLost, Kept, InSeq
    <3>3. \A q \in Requests : result[q] = "replied" => result'[q] = "replied"
      BY <1>0, <1>3, PipelineTypes DEF Numbered
    <3>4. InSeq(r, toServer) => InSeq(r, toServer')
      BY <1>3, InAppend, PipelineTypes
    <3>5. \/ ~(\E q \in Requests : result[q] = "replied" /\ answer[q] = r)
          \/ \E q \in Requests : result'[q] = "replied" /\ answer'[q] = r
      BY <1>0, <1>3, <3>3, KeepsReplied
    <3> QED BY <1>3, <3>2, <3>4, <3>5 DEF Kept
  <2> QED BY <2>1, <2>2
<1>4. CASE Send
  <2>1. sent + 1 \in Requests
    BY <1>0, <1>4, PipelineTypes, RequestReplyAssumption, SMTT(30) DEF Send, Numbered, Requests
  <2> QED BY <1>3, <1>4, <2>1 DEF Send
<1>5. ASSUME NEW g \in Callers, CallSend(g)
      PROVE  NothingLost'
  <2>1. sent + 1 \in Requests
    BY <1>0, <1>5, PipelineTypes, RequestReplyAssumption
       DEF CallSend, Numbered, Requests, TypeOK
  <2> QED BY <1>3, <1>5, <2>1 DEF CallSend
<1>6. CASE Reply
  <2>1. /\ toServer # <<>> /\ Deliver(Head(toServer)) /\ toServer' = Tail(toServer)
        /\ UNCHANGED <<sent, unsent, discarded, peeked, received, result, answer>>
        /\ UNCHANGED <<shut, closed>>
    BY <1>6 DEF Reply
  <2>2. ASSUME ~shut, ~closed, NEW r, Kept(r) PROVE Kept(r)'
    <3>1. inbox' = Append(inbox, Head(toServer)) /\ Head(toServer) \in Messages
      BY <2>1, <2>2, TailFacts, PipelineTypes DEF Deliver, Messages
    <3>2. InSeq(r, toServer) => r = Head(toServer) \/ InSeq(r, toServer')
      BY <2>1, InTail, PipelineTypes
    <3>3. InSeq(r, inbox) \/ r = Head(toServer) => InSeq(r, inbox')
      BY <3>1, InAppend, PipelineTypes
    <3> QED BY <2>1, <2>2, <3>2, <3>3 DEF Kept
  <2> QED BY <1>0, <2>1, <2>2, KeepsAll
<1>7. CASE ReplyUnsent
  <2>1. /\ toServer # <<>> /\ unsent' = unsent \cup {Head(toServer)}
        /\ toServer' = Tail(toServer)
        /\ UNCHANGED <<sent, discarded, peeked, inbox, received, result, answer>>
        /\ UNCHANGED <<shut, closed>>
    BY <1>7 DEF ReplyUnsent
  <2>2. ASSUME NEW r, Kept(r) PROVE Kept(r)'
    <3>1. InSeq(r, toServer) => r = Head(toServer) \/ InSeq(r, toServer')
      BY <2>1, InTail, PipelineTypes
    <3> QED BY <2>1, <2>2, <3>1 DEF Kept
  <2> QED BY <1>0, <2>1, <2>2, KeepsAll
<1>8. CASE TaskSend
  <2>1. /\ Deliver(Event) /\ UNCHANGED <<shut, closed>>
        /\ UNCHANGED <<sent, unsent, discarded, peeked, toServer, received, result, answer>>
    BY <1>8 DEF TaskSend
  <2>2. ASSUME ~shut, ~closed, NEW r, Kept(r) PROVE Kept(r)'
    <3>1. inbox' = Append(inbox, Event) /\ Event \in Messages
      BY <2>1, <2>2 DEF Deliver, Messages
    <3>2. InSeq(r, inbox) => InSeq(r, inbox')
      BY <3>1, InAppend, PipelineTypes
    <3> QED BY <2>1, <2>2, <3>2 DEF Kept
  <2> QED BY <1>0, <2>1, <2>2, KeepsAll
<1>9. ASSUME NEW g \in Callers, Timeout(g) \/ RecvClosed(g)
      PROVE  NothingLost'
  <2>1. /\ UNCHANGED <<sent, unsent, discarded, peeked, toServer, inbox, received, answer>>
        /\ UNCHANGED shut /\ (closed => closed')
    BY <1>9, LeaveFacts DEF Timeout, RecvClosed
  <2>2. \A q \in Requests : result[q] = "replied" => result'[q] = "replied"
    BY <1>0, <1>9, PipelineTypes DEF Timeout, RecvClosed, WaitersWait
  <2>3. ASSUME NEW r, Kept(r) PROVE Kept(r)'
    BY <1>0, <2>1, <2>2, <2>3, KeepsReplied DEF Kept
  <2> QED BY <1>0, <2>1, <2>3, KeepsAll
<1>10. ASSUME NEW g \in Callers, Discard(g)
       PROVE  NothingLost'
  <2>1. /\ inbox # <<>> /\ discarded' = discarded \cup {Head(inbox)} /\ inbox' = Tail(inbox)
        /\ UNCHANGED <<sent, unsent, peeked, toServer, received, result, answer>>
        /\ UNCHANGED <<shut, closed>>
    BY <1>10 DEF Discard
  <2>2. ASSUME NEW r, Kept(r) PROVE Kept(r)'
    <3>1. InSeq(r, inbox) => r = Head(inbox) \/ InSeq(r, inbox')
      BY <2>1, InTail, PipelineTypes
    <3> QED BY <2>1, <2>2, <3>1 DEF Kept
  <2> QED BY <1>0, <2>1, <2>2, KeepsAll
<1>11. ASSUME NEW g \in Callers, PeekRead(g)
       PROVE  NothingLost'
  <2>1. /\ inbox # <<>> /\ peeked = <<>> /\ peeked' = <<Head(inbox)>> /\ inbox' = Tail(inbox)
        /\ UNCHANGED <<sent, unsent, discarded, toServer, received, result, answer>>
        /\ UNCHANGED shut /\ (closed => closed')
    BY <1>11, LeaveFacts DEF PeekRead, Reading, KeepsPeeked
  <2>2. ASSUME NEW r, Kept(r) PROVE Kept(r)'
    <3>1. InSeq(r, inbox) => r = Head(inbox) \/ InSeq(r, inbox')
      BY <2>1, InTail, PipelineTypes
    <3>2. peeked # <<r>>
      BY <2>1
    <3> QED BY <2>1, <2>2, <3>1, <3>2 DEF Kept
  <2> QED BY <1>0, <2>1, <2>2, KeepsAll
<1>12. ASSUME NEW g \in Callers, NEW m \in Messages, NEW r, Return(g, m),
              \/ r = m \/ InSeq(r, received)
              \/ \E q \in Requests : result[q] = "replied" /\ answer[q] = r
       PROVE  \/ InSeq(r, received')
              \/ \E q \in Requests : result'[q] = "replied" /\ answer'[q] = r
  <2>1. CASE pc[g] = "wait"
    <3>1. /\ received' = received /\ result' = [result EXCEPT ![req[g]] = "replied"]
          /\ answer' = [answer EXCEPT ![req[g]] = m]
      BY <1>12, <2>1, ReturnFacts
    <3>2. req[g] \in Requests /\ result[req[g]] = "waiting"
      BY <1>0, <2>1 DEF WaitersWait
    <3>3. result'[req[g]] = "replied" /\ answer'[req[g]] = m
      BY <1>0, <3>1, <3>2 DEF TypeOK
    <3>4. ASSUME NEW q \in Requests, result[q] = "replied"
          PROVE  result'[q] = "replied" /\ answer'[q] = answer[q]
      BY <1>0, <3>1, <3>2, <3>4 DEF TypeOK
    <3> QED BY <1>12, <3>1, <3>2, <3>3, <3>4
  <2>2. CASE pc[g] # "wait"
    <3>1. received' = Append(received, m) /\ result' = result /\ answer' = answer
      BY <1>12, <2>2, ReturnFacts
    <3>2. InSeq(r, received) \/ r = m => InSeq(r, received')
      BY <3>1, InAppend, PipelineTypes
    <3> QED BY <1>12, <3>1, <3>2
  <2> QED BY <2>1, <2>2
<1>13. ASSUME NEW g \in Callers, TakePeeked(g)
       PROVE  NothingLost'
  <2>1. /\ peeked # <<>> /\ Return(g, Head(peeked))
        /\ UNCHANGED <<sent, unsent, discarded, toServer, inbox>>
    BY <1>13 DEF TakePeeked
  <2>2. Head(peeked) \in Messages /\ (shut => shut') /\ (closed => closed')
    BY <2>1, TailFacts, PipelineTypes, ReturnFacts
  <2>3. ASSUME NEW r, Kept(r) PROVE Kept(r)'
    <3>1. peeked = <<r>> => r = Head(peeked)
      OBVIOUS
    <3> QED BY <1>12, <2>1, <2>2, <2>3, <3>1 DEF Kept
  <2> QED BY <1>0, <2>1, <2>2, <2>3, KeepsAll
<1>14. ASSUME NEW g \in Callers, Take(g)
       PROVE  NothingLost'
  <2>1. /\ inbox # <<>> /\ inbox' = Tail(inbox) /\ Return(g, Head(inbox))
        /\ UNCHANGED <<sent, unsent, discarded, toServer, peeked>>
    BY <1>14 DEF Take
  <2>2. Head(inbox) \in Messages /\ (shut => shut') /\ (closed => closed')
    BY <2>1, TailFacts, PipelineTypes, ReturnFacts
  <2>3. ASSUME NEW r, Kept(r) PROVE Kept(r)'
    <3>1. InSeq(r, inbox) => r = Head(inbox) \/ InSeq(r, inbox')
      BY <2>1, InTail, PipelineTypes
    <3> QED BY <1>12, <2>1, <2>2, <2>3, <3>1 DEF Kept
  <2> QED BY <1>0, <2>1, <2>2, <2>3, KeepsAll
<1> QED
  BY <1>1, <1>2, <1>4, <1>5, <1>6, <1>7, <1>8, <1>9, <1>10, <1>11, <1>13, <1>14
     DEF Next, CallerStep


-----------------------------------------------------------------------------
(* The theorems.                                                           *)

LEMMA DeliverTypes ==
    ASSUME TypeOK, NEW m \in Messages, Deliver(m)
    PROVE  inbox' \in Seq(Messages) /\ dropped' \in BOOLEAN
<1>1. inbox \in Seq(Messages) /\ dropped \in BOOLEAN
  BY DEF TypeOK
<1>2. Append(inbox, m) \in Seq(Messages)
  BY <1>1, AppendFacts
<1> QED BY <1>1, <1>2 DEF Deliver

LEMMA ReturnTypes ==
    ASSUME TypeOK, NEW g \in Callers, NEW m \in Messages, Return(g, m)
    PROVE  /\ received' \in Seq(Messages)
           /\ result' \in [Requests -> {"none", "sent", "waiting", "replied", "timeout", "closed"}]
           /\ answer' \in [Requests -> Messages]
           /\ recvActive' \in BOOLEAN /\ shut' \in BOOLEAN /\ closed' \in BOOLEAN
           /\ pc' \in [Callers -> {"idle", "send", "wait", "recv", "peek"}]
           /\ req' \in [Callers -> Requests \cup {0}]
<1>1. /\ received \in Seq(Messages)
      /\ result \in [Requests -> {"none", "sent", "waiting", "replied", "timeout", "closed"}]
      /\ answer \in [Requests -> Messages]
      /\ shut \in BOOLEAN /\ closed \in BOOLEAN /\ once \in BOOLEAN
      /\ pc \in [Callers -> {"idle", "send", "wait", "recv", "peek"}]
      /\ req \in [Callers -> Requests \cup {0}]
  BY DEF TypeOK
<1>2. Append(received, m) \in Seq(Messages)
  BY <1>1, AppendFacts
<1>3. received' = received \/ received' = Append(received, m)
  BY ReturnFacts
<1>4. /\ result' = result /\ answer' = answer
      \/ /\ result' = [result EXCEPT ![req[g]] = "replied"]
         /\ answer' = [answer EXCEPT ![req[g]] = m]
  BY ReturnFacts
<1>5. recvActive' \in BOOLEAN /\ shut' \in BOOLEAN /\ closed' \in BOOLEAN
  BY <1>1 DEF Return, Leave
<1>6. /\ pc' \in [Callers -> {"idle", "send", "wait", "recv", "peek"}]
      /\ req' \in [Callers -> Requests \cup {0}]
  BY <1>1 DEF Return, Leave
<1> QED BY <1>1, <1>2, <1>3, <1>4, <1>5, <1>6

(* The types. *)
LEMMA NextTypes ==
    ASSUME RequestInv, Next
    PROVE  TypeOK'
<1> USE DEF onceVars, guardVars, closeVars, callerVars, serverVars, boundVars, historyVars
<1>0. /\ TypeOK
      /\ Numbered
  BY DEF RequestInv
<1>1. /\ once \in BOOLEAN
      /\ used \in BOOLEAN
      /\ recvActive \in BOOLEAN
      /\ peeked \in Seq(Messages)
      /\ staleReplies \in Nat
      /\ inbox \in Seq(Messages)
      /\ shut \in BOOLEAN
      /\ closed \in BOOLEAN
      /\ ended \in BOOLEAN
      /\ pc \in [Callers -> {"idle", "send", "wait", "recv", "peek"}]
      /\ req \in [Callers -> Requests \cup {0}]
      /\ toServer \in Seq(Requests)
      /\ task \in BOOLEAN
      /\ sends \in 0..MaxSends
      /\ events \in 0..MaxOdd
      /\ timeouts \in 0..MaxTimeouts
      /\ sent \in 0..(MaxCalls + MaxSends)
      /\ unsent \subseteq Requests
      /\ result \in [Requests -> {"none", "sent", "waiting", "replied", "timeout", "closed"}]
      /\ answer \in [Requests -> Messages]
      /\ received \in Seq(Messages)
      /\ discarded \subseteq Messages
      /\ dropped \in BOOLEAN
      /\ mixed \in BOOLEAN
  BY DEF RequestInv, TypeOK
<1>2. CASE Send
  <2>1. sent + 1 \in Requests /\ sent + 1 \in 0..(MaxCalls + MaxSends) /\ sends + 1 \in 0..MaxSends
    BY <1>0, <1>1, <1>2, RequestReplyAssumption DEF Send, Numbered, Requests
  <2>2. toServer' \in Seq(Requests)
    BY <1>1, <1>2, <2>1, AppendFacts DEF Send
  <2> QED BY <1>1, <1>2, <2>1, <2>2 DEF Send, TypeOK
<1>3. CASE OnceFails
  BY <1>0, <1>1, <1>3 DEF OnceFails, FirstUse, TypeOK
<1>4. CASE StreamClose
  BY <1>0, <1>1, <1>4 DEF StreamClose, TypeOK
<1>5. CASE ConnectionClosed
  BY <1>0, <1>1, <1>5 DEF ConnectionClosed, TypeOK
<1>6. CASE Reply
  <2>1. Head(toServer) \in Requests /\ Tail(toServer) \in Seq(Requests)
    BY <1>1, <1>6, TailFacts DEF Reply
  <2>2. inbox' \in Seq(Messages) /\ dropped' \in BOOLEAN
    BY <1>0, <1>6, <2>1, DeliverTypes DEF Reply, Messages
  <2> QED BY <1>1, <1>6, <2>1, <2>2 DEF Reply, TypeOK
<1>7. CASE ReplyUnsent
  <2>1. Head(toServer) \in Requests /\ Tail(toServer) \in Seq(Requests)
    BY <1>1, <1>7, TailFacts DEF ReplyUnsent
  <2> QED BY <1>1, <1>7, <2>1 DEF ReplyUnsent, TypeOK
<1>8. CASE NewTask
  BY <1>0, <1>1, <1>8 DEF NewTask, TypeOK
<1>9. CASE TaskSend
  <2>1. events + 1 \in 0..MaxOdd
    BY <1>1, <1>9, FiniteRequests, RequestReplyAssumption DEF TaskSend, Odd
  <2>2. inbox' \in Seq(Messages) /\ dropped' \in BOOLEAN
    BY <1>0, <1>9, DeliverTypes DEF TaskSend, Messages
  <2> QED BY <1>1, <1>9, <2>1, <2>2 DEF TaskSend, TypeOK
<1>10. CASE TaskEnd
  BY <1>0, <1>1, <1>10 DEF TaskEnd, TypeOK
<1>11. CASE DecodeEnd
  BY <1>0, <1>1, <1>11 DEF DecodeEnd, TypeOK
<1>12. ASSUME NEW g \in Callers, Call(g) PROVE TypeOK'
  BY <1>0, <1>1, <1>12 DEF Call, RecvGuard, FirstUse, TypeOK
<1>13. ASSUME NEW g \in Callers, Recv(g) PROVE TypeOK'
  BY <1>0, <1>1, <1>13 DEF Recv, Enter, RecvGuard, TypeOK
<1>14. ASSUME NEW g \in Callers, PeekWire(g) PROVE TypeOK'
  BY <1>0, <1>1, <1>14 DEF PeekWire, Enter, RecvGuard, TypeOK
<1>15. ASSUME NEW g \in Callers, Timeout(g) PROVE TypeOK'
  <2>1. staleReplies' \in Nat /\ timeouts' \in 0..MaxTimeouts
    BY <1>1, <1>15, RequestReplyAssumption DEF Timeout, CountStale
  <2>2. result' \in [Requests -> {"none", "sent", "waiting", "replied", "timeout", "closed"}]
    BY <1>1, <1>15 DEF Timeout
  <2> QED BY <1>1, <1>15, <2>1, <2>2 DEF Timeout, Leave, TypeOK
<1>16. ASSUME NEW g \in Callers, CallSend(g) PROVE TypeOK'
  <2>1. sent + 1 \in Requests /\ sent + 1 \in 0..(MaxCalls + MaxSends)
    BY <1>0, <1>1, <1>16, RequestReplyAssumption DEF CallSend, Numbered, Requests
  <2>2. toServer' \in Seq(Requests)
    BY <1>1, <1>16, <2>1, AppendFacts DEF CallSend
  <2> QED BY <1>1, <1>16, <2>1, <2>2 DEF CallSend, TypeOK
<1>17. ASSUME NEW g \in Callers, CallSendFails(g) PROVE TypeOK'
  BY <1>0, <1>1, <1>17 DEF CallSendFails, Leave, TypeOK
<1>18. ASSUME NEW g \in Callers, TakePeeked(g) PROVE TypeOK'
  <2>1. Head(peeked) \in Messages /\ Tail(peeked) \in Seq(Messages) /\ Return(g, Head(peeked))
    BY <1>1, <1>18, TailFacts DEF TakePeeked
  <2>2. /\ received' \in Seq(Messages)
        /\ result' \in [Requests -> {"none", "sent", "waiting", "replied", "timeout", "closed"}]
        /\ answer' \in [Requests -> Messages]
        /\ recvActive' \in BOOLEAN /\ shut' \in BOOLEAN /\ closed' \in BOOLEAN
        /\ pc' \in [Callers -> {"idle", "send", "wait", "recv", "peek"}]
        /\ req' \in [Callers -> Requests \cup {0}]
    BY <1>0, <2>1, ReturnTypes
  <2> QED BY <1>1, <1>18, <2>1, <2>2 DEF TakePeeked, TypeOK
<1>19. ASSUME NEW g \in Callers, Discard(g) PROVE TypeOK'
  <2>1. Head(inbox) \in Messages /\ Tail(inbox) \in Seq(Messages) /\ staleReplies - 1 \in Nat
    BY <1>1, <1>19, TailFacts DEF Discard, Stale
  <2> QED BY <1>1, <1>19, <2>1 DEF Discard, TypeOK
<1>20. ASSUME NEW g \in Callers, Take(g) PROVE TypeOK'
  <2>1. Head(inbox) \in Messages /\ Tail(inbox) \in Seq(Messages) /\ Return(g, Head(inbox))
    BY <1>1, <1>20, TailFacts DEF Take
  <2>2. /\ received' \in Seq(Messages)
        /\ result' \in [Requests -> {"none", "sent", "waiting", "replied", "timeout", "closed"}]
        /\ answer' \in [Requests -> Messages]
        /\ recvActive' \in BOOLEAN /\ shut' \in BOOLEAN /\ closed' \in BOOLEAN
        /\ pc' \in [Callers -> {"idle", "send", "wait", "recv", "peek"}]
        /\ req' \in [Callers -> Requests \cup {0}]
    BY <1>0, <2>1, ReturnTypes
  <2> QED BY <1>1, <1>20, <2>1, <2>2 DEF Take, TypeOK
<1>21. ASSUME NEW g \in Callers, PeekRead(g) PROVE TypeOK'
  <2>1. Head(inbox) \in Messages /\ Tail(inbox) \in Seq(Messages)
    BY <1>1, <1>21, TailFacts DEF PeekRead
  <2>2. peeked' \in Seq(Messages)
    BY <1>21, <2>1 DEF PeekRead
  <2> QED BY <1>1, <1>21, <2>1, <2>2 DEF PeekRead, Leave, TypeOK
<1>22. ASSUME NEW g \in Callers, PeekAgain(g) PROVE TypeOK'
  BY <1>0, <1>1, <1>22 DEF PeekAgain, Leave, KeepsPeeked, TypeOK
<1>23. ASSUME NEW g \in Callers, RecvClosed(g) PROVE TypeOK'
  <2>1. result' \in [Requests -> {"none", "sent", "waiting", "replied", "timeout", "closed"}]
    BY <1>1, <1>23 DEF RecvClosed
  <2> QED BY <1>1, <1>23, <2>1 DEF RecvClosed, Leave, TypeOK
<1> QED
  BY <1>2, <1>3, <1>4, <1>5, <1>6, <1>7, <1>8, <1>9, <1>10, <1>11, <1>12, <1>13, <1>14, <1>15,
     <1>16, <1>17, <1>18, <1>19, <1>20, <1>21, <1>22, <1>23 DEF Next, CallerStep


LEMMA InitRequest == Init => RequestInv
<1> SUFFICES ASSUME Init PROVE RequestInv
  OBVIOUS
<1>1. TypeOK
  <2>1. /\ answer \in [Requests -> Messages] /\ req \in [Callers -> Requests \cup {0}]
        /\ result \in [Requests -> {"none", "sent", "waiting", "replied", "timeout", "closed"}]
        /\ pc \in [Callers -> {"idle", "send", "wait", "recv", "peek"}]
    BY DEF Init, Messages
  <2>2. /\ peeked \in Seq(Messages) /\ inbox \in Seq(Messages) /\ toServer \in Seq(Requests)
        /\ received \in Seq(Messages)
    BY DEF Init
  <2>3. /\ sends \in 0..MaxSends /\ events \in 0..MaxOdd /\ timeouts \in 0..MaxTimeouts
        /\ sent \in 0..(MaxCalls + MaxSends) /\ staleReplies \in Nat
    BY RequestReplyAssumption DEF Init
  <2> QED BY <2>1, <2>2, <2>3 DEF Init, TypeOK
<1>2. ~Waiting /\ Len(inbox) = 0 /\ Len(toServer) = 0 /\ Len(peeked) = 0 /\ Len(received) = 0
  BY DEF Init, Waiting
<1>3. GuardHolds /\ Numbered /\ WaitersWait
  BY <1>2, RequestReplyAssumption DEF Init, GuardHolds, Numbered, WaitersWait
<1>4. Base = 0 /\ Coming = 0
  <2>1. sent = 0
    BY DEF Init
  <2> QED BY <1>2, <2>1 DEF Base, Coming
<1>5. InOrder
  BY <1>2, <1>4 DEF Init, InOrder
<1>6. LateFirst /\ OneWaits
  BY <1>2, <1>4, RequestReplyAssumption DEF Init, LateFirst, OneWaits, Requests
<1>7. Counted
  BY <1>2, <1>4 DEF Init, Counted
<1>8. Returned /\ NothingLost
  BY DEF Init, Returned, NothingLost
<1> QED BY <1>1, <1>3, <1>5, <1>6, <1>7, <1>8 DEF RequestInv, Pipeline

LEMMA StutterRequest ==
    ASSUME RequestInv, UNCHANGED vars
    PROVE  RequestInv'
<1> USE DEF vars, onceVars, guardVars, closeVars, callerVars, serverVars, boundVars, historyVars
<1>1. TypeOK' /\ GuardHolds' /\ Numbered' /\ WaitersWait'
  BY DEF RequestInv, TypeOK, GuardHolds, Numbered, WaitersWait
<1>2. Pipeline'
  BY QuietPipeline DEF RequestInv, Orderly
<1>3. Returned' /\ NothingLost'
  BY DEF RequestInv, Returned, NothingLost, Orderly
<1> QED BY <1>1, <1>2, <1>3 DEF RequestInv

(* Every behaviour of SendRecv, Recv, PeekWire, Send and the handlers      *)
(* keeps the invariant.                                                    *)
THEOREM RequestInvHolds == Spec => []RequestInv
<1>1. Init => RequestInv
  BY InitRequest
<1>2. RequestInv /\ [Next]_vars => RequestInv'
  <2>1. ASSUME RequestInv, Next PROVE RequestInv'
    BY <2>1, NextTypes, NextGuard, NextNumbered, NextWaiters, NextPipeline, NextReturned,
       NextLost DEF RequestInv
  <2> QED BY <2>1, StutterRequest
<1> QED BY <1>1, <1>2, PTL DEF Spec

(* The types of every variable, for every bound. *)
THEOREM RequestTypesHold == Spec => []TypeOK
<1>1. RequestInv => TypeOK
  BY DEF RequestInv
<1> QED BY <1>1, RequestInvHolds, PTL

(* SendRecv returns the reply to its own request, however many timeouts    *)
(* came before, Recv never returns one of a SendRecv that got its own, and *)
(* readRaw discards nothing but late replies.                              *)
THEOREM OwnReplyHolds == Spec => []OwnReply
<1>1. RequestInv => OwnReply
  BY DEF RequestInv, Returned, OwnReply
<1> QED BY <1>1, RequestInvHolds, PTL

(* While the stream is open no reply is lost between PeekWire, Recv and    *)
(* SendRecv.                                                               *)
THEOREM NothingLostHolds == Spec => []NothingLost
<1>1. RequestInv => NothingLost
  BY DEF RequestInv
<1> QED BY <1>1, RequestInvHolds, PTL

(* However many goroutines call a OnceConn, it sends one request at most.  *)
THEOREM OnceSendsOnceHolds == Spec => []OnceSendsOnce
<1>1. RequestInv => OnceSendsOnce
  BY DEF RequestInv, GuardHolds, OnceSendsOnce
<1> QED BY <1>1, RequestInvHolds, PTL
=============================================================================
