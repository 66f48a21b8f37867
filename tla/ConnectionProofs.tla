-------------------------- MODULE ConnectionProofs --------------------------
(***************************************************************************)
(* Proofs about Connection, for every number of streams and messages, all  *)
(* sizes of the queues and any number of failures and timeouts.            *)
(***************************************************************************)
EXTENDS Connection, TLAPS

-----------------------------------------------------------------------------
(* The inductive invariant.                                                *)

Frames(p) == [id : Ids, msg : 0..MaxSend(p)]
Reads(p) == rpc[p] \in {"read", "push"}
Pushing(p, i) == rpc[p] = "push" /\ rframe[p].id = i

(* What is on its way was sent on a stream. *)
Framed ==
    \A p \in Sides :
       /\ \A k \in DOMAIN outbound[p] : outbound[p][k] = Marker \/ outbound[p][k] \in Frames(p)
       /\ \A k \in DOMAIN wire[p] : wire[p][k] \in Frames(Peer(p))
       /\ rpc[p] = "push" => rframe[p] \in Frames(Peer(p))
       /\ \A i \in Ids : /\ sent[p][i] <= MaxSend(p)
                         /\ sender[p][i] = "queue" => sent[p][i] < MaxSend(p)
                         /\ decoder[p][i] = "dispatch" => job[p][i] # Fin

(* Nothing is known of an ID before NewStream returns it. *)
Known ==
    \A p \in Sides :
       /\ \A k \in DOMAIN outbound[p] : outbound[p][k].id <= nextId
       /\ \A k \in DOMAIN wire[p] : wire[p][k].id <= nextId
       /\ \A i \in Ids : i > nextId =>
             opened[p][i] = 0 /\ sender[p][i] = "idle" /\ closer[p][i] = "idle"

(* Every stream was opened once, and released once when it left the table, *)
(* which nothing enters after the sweep.                                   *)
Tabled == ReleasedOnce /\ NeverReopened /\ \A p \in Sides : swept[p] => closed[p]

(* Where the reader is says how far the connection has closed; NewStream   *)
(* registers a stream until then.                                          *)
Staged ==
    /\ \A p \in Sides : /\ rpc[p] = "drain" => closing[p]
                        /\ rpc[p] = "end" => closed[p]
    /\ \A i \in Ids : i <= nextId /\ opened["client"][i] = 0 => closed["client"]

(* A stream that was never in the table has nothing of one. *)
Unborn ==
    \A p \in Sides, i \in Ids : opened[p][i] = 0 =>
       /\ decoder[p][i] = "none" /\ incoming[p][i] = <<>>
       /\ i \notin toFin[p] /\ ~Pushing(p, i) /\ closer[p][i] = "idle"

(* One that has left it is done; an ID is reserved by Stream.Close. *)
Left ==
    \A p \in Sides, i \in Ids :
       /\ opened[p][i] = 1 /\ i \notin open[p] => done[p][i]
       /\ i \in reserved[p] => closer[p][i] # "idle"

(* Stream.Close holds back every Send after it, *)
Finished(i) == /\ shut["client"][i] /\ closer["client"][i] \in {"remove", "done"}
               /\ sender["client"][i] = "idle"
ClosersShut ==
    \A i \in Ids : /\ closer["client"][i] # "idle" =>
                         shut["client"][i] /\ sender["client"][i] = "idle"
                   /\ closer["server"][i] # "queue"

(* ... and only a client queues a FIN. *)
ClientFins ==
    /\ \A k \in DOMAIN outbound["server"] :
          outbound["server"][k] = Marker \/ outbound["server"][k].msg # Fin
    /\ \A k \in DOMAIN wire["client"] : wire["client"][k].msg # Fin
    /\ rpc["client"] = "push" => rframe["client"].msg # Fin

(* A FIN is the last frame of its stream in the queue and on the wire. *)
FinsLast ==
    /\ \A i \in Ids : \A k \in DOMAIN outbound["client"] :
          outbound["client"][k] = Frame(i, Fin) =>
             /\ Finished(i)
             /\ \A l \in DOMAIN outbound["client"] : l > k => outbound["client"][l].id # i
    /\ \A i \in Ids : \A k \in DOMAIN wire["server"] :
          wire["server"][k] = Frame(i, Fin) =>
             /\ Finished(i)
             /\ \A l \in DOMAIN wire["server"] : l > k => wire["server"][l].id # i
             /\ \A l \in DOMAIN outbound["client"] : outbound["client"][l].id # i

(* The server has read the FIN of a stream: nothing more comes on it. *)
FinPassed(i) ==
    /\ Finished(i)
    /\ \A l \in DOMAIN wire["server"] : wire["server"][l].id # i
    /\ \A l \in DOMAIN outbound["client"] : outbound["client"][l].id # i

FinsPass ==
    /\ rpc["server"] = "push" /\ rframe["server"].msg = Fin => FinPassed(rframe["server"].id)
    /\ \A i \in Ids :
         Reads("server") =>
          /\ \A k \in DOMAIN incoming["server"][i] :
                incoming["server"][i][k] = Fin => FinPassed(i)
          /\ /\ opened["server"][i] = 1 /\ ~closed["server"]
             /\ i \notin open["server"] \/ closer["server"][i] = "remove"
             /\ i \notin reserved["server"]
             => FinPassed(i)
    /\ \A i \in Ids :
         Reads("client") =>
            \A k \in DOMAIN incoming["client"][i] : incoming["client"][i][k] # Fin

TableInv ==
    /\ TypeOK /\ Framed /\ Known /\ Tabled /\ Staged /\ Unborn /\ Left
    /\ ClosersShut /\ ClientFins /\ FinsLast /\ FinsPass

-----------------------------------------------------------------------------
(* Sides and sequences.                                                    *)

(* A side is not its peer. *)
LEMMA PeerFacts ==
    ASSUME NEW p \in Sides
    PROVE  Peer(p) \in Sides /\ Peer(p) # p /\ Peer(Peer(p)) = p
BY DEF Peer, Sides

(* The ranges of the constants. *)
LEMMA Constants ==
    /\ NStreams \in Nat /\ ClientMessages \in Nat /\ ServerMessages \in Nat
    /\ QueueSize \in Nat /\ OutboundSize \in Nat /\ MaxFailures \in Nat /\ MaxTimeouts \in Nat
    /\ \A p \in Sides : MaxSend(p) \in Nat /\ 1..MaxSend(p) \subseteq Numbers
    /\ Fin \notin Numbers /\ Numbers \subseteq Nat /\ Ids \subseteq Nat
    /\ \A i \in Ids : i > 0 /\ i <= NStreams
BY ConnectionAssumption DEF MaxSend, Sides, Numbers, Fin, Ids

(* What Head and Tail leave in place. *)
LEMMA TailFacts ==
    ASSUME NEW S, NEW s \in Seq(S), s # <<>>
    PROVE  /\ Len(s) \in Nat /\ Len(s) > 0 /\ 1 \in DOMAIN s /\ Head(s) = s[1] /\ Head(s) \in S
           /\ Tail(s) \in Seq(S) /\ Len(Tail(s)) = Len(s) - 1
           /\ DOMAIN s = 1..Len(s) /\ DOMAIN Tail(s) = 1..(Len(s) - 1)
           /\ \A k \in 1..(Len(s) - 1) : Tail(s)[k] = s[k + 1]
OBVIOUS

(* What Append adds. *)
LEMMA AppendFacts ==
    ASSUME NEW S, NEW s \in Seq(S), NEW m \in S
    PROVE  /\ Append(s, m) \in Seq(S) /\ Len(s) \in Nat /\ Len(Append(s, m)) = Len(s) + 1
           /\ DOMAIN s = 1..Len(s) /\ DOMAIN Append(s, m) = 1..(Len(s) + 1)
           /\ \A k \in 1..Len(s) : Append(s, m)[k] = s[k]
           /\ Append(s, m)[Len(s) + 1] = m
OBVIOUS

(* What an assignment to a field of one stream changes. *)
LEMMA UpdateStream ==
    ASSUME NEW S, NEW f \in [Sides -> [Ids -> S]], NEW p \in Sides, NEW i \in Ids, NEW v \in S
    PROVE  /\ [f EXCEPT ![p][i] = v] \in [Sides -> [Ids -> S]]
           /\ \A q \in Sides, j \in Ids :
                 [f EXCEPT ![p][i] = v][q][j] = IF q = p /\ j = i THEN v ELSE f[q][j]
OBVIOUS

(* t is s with m behind it, or without its head: where their frames are. *)
Appends(s, t, m) ==
    /\ Len(s) \in Nat /\ Len(s) + 1 \in DOMAIN t /\ t[Len(s) + 1] = m
    /\ \A k \in DOMAIN s : k \in Nat /\ k <= Len(s) /\ k \in DOMAIN t /\ t[k] = s[k]
    /\ \A k \in DOMAIN t : k \in DOMAIN s \/ k = Len(s) + 1

Takes(s, t) ==
    /\ 1 \in DOMAIN s /\ Head(s) = s[1]
    /\ \A k \in DOMAIN t : k \in Nat /\ k > 0 /\ k + 1 \in DOMAIN s /\ t[k] = s[k + 1]
    /\ \A k \in DOMAIN s : k \in Nat /\ (k = 1 \/ (k > 1 /\ k - 1 \in DOMAIN t /\ s[k] = t[k - 1]))

USE DEF Appends, Takes

(* What appending to the queue of one side, or taking its head, does. *)
LEMMA AppendTo ==
    ASSUME NEW S, NEW f \in [Sides -> Seq(S)], NEW g, NEW p \in Sides, NEW m \in S,
           g = [f EXCEPT ![p] = Append(f[p], m)]
    PROVE  Appends(f[p], g[p], m) /\ \A q \in Sides : q # p => g[q] = f[q]
<1>1. g[p] = Append(f[p], m) /\ f[p] \in Seq(S) /\ \A q \in Sides : q # p => g[q] = f[q]
  OBVIOUS
<1> QED BY <1>1, AppendFacts

(* Tail takes the head of a sequence. *)
LEMMA TakesTail ==
    ASSUME NEW S, NEW s \in Seq(S), s # <<>>
    PROVE  Takes(s, Tail(s))
<1>1. /\ 1 \in DOMAIN s /\ Head(s) = s[1] /\ Len(s) \in Nat
      /\ DOMAIN s = 1..Len(s) /\ DOMAIN Tail(s) = 1..(Len(s) - 1)
      /\ \A k \in 1..(Len(s) - 1) : Tail(s)[k] = s[k + 1]
  BY TailFacts
<1> QED BY <1>1

-----------------------------------------------------------------------------
(* Types, frames and the stream table.                                     *)

(* What the operators that actions share change. *)
LEMMA RegisterFacts ==
    ASSUME NEW p \in Sides, NEW i \in Ids, Register(p, i), TypeOK
    PROVE  \A q \in Sides, j \in Ids :
              /\ q = p /\ j = i => /\ j \in open'[q] /\ opened'[q][j] = opened[q][j] + 1
                                   /\ decoder'[q][j] = "select"
              /\ q # p \/ j # i => /\ j \in open'[q] <=> j \in open[q]
                                   /\ opened'[q][j] = opened[q][j]
                                   /\ decoder'[q][j] = decoder[q][j]
<1>1. /\ open \in [Sides -> SUBSET Ids] /\ opened \in [Sides -> [Ids -> Nat]]
      /\ decoder \in [Sides -> [Ids -> {"none", "select", "dispatch", "fin", "end"}]]
  BY DEF TypeOK, Each, EachStream
<1> QED BY <1>1 DEF Register

(* What removeStream changes, *)
LEMMA RemoveFacts ==
    ASSUME NEW p \in Sides, NEW i \in Ids, RemoveStream(p, i), TypeOK
    PROVE  /\ \A q \in Sides, j \in Ids :
                 /\ q = p /\ j = i => j \notin open'[q]
                 /\ q = p /\ j = i /\ j \in open[q] =>
                       shut'[q][j] /\ done'[q][j] /\ released'[q][j] = released[q][j] + 1
                 /\ q # p \/ j # i => j \in open'[q] <=> j \in open[q]
                 /\ q # p \/ j # i \/ j \notin open[q] =>
                       /\ shut'[q][j] = shut[q][j] /\ done'[q][j] = done[q][j]
                       /\ released'[q][j] = released[q][j]
<1>1. /\ open \in [Sides -> SUBSET Ids] /\ shut \in [Sides -> [Ids -> BOOLEAN]]
      /\ done \in [Sides -> [Ids -> BOOLEAN]] /\ released \in [Sides -> [Ids -> Nat]]
  BY DEF TypeOK, Each, EachStream
<1>2. CASE i \in open[p]
  <2>1. /\ open' = [open EXCEPT ![p] = @ \ {i}] /\ shut' = [shut EXCEPT ![p][i] = TRUE]
        /\ done' = [done EXCEPT ![p][i] = TRUE]
        /\ released' = [released EXCEPT ![p][i] = released[p][i] + 1]
    BY <1>2 DEF RemoveStream
  <2>2. \A q \in Sides, j \in Ids :
           released'[q][j] = IF q = p /\ j = i THEN released[q][j] + 1 ELSE released[q][j]
    BY <1>1, <2>1
  <2>3. /\ shut'[p][i] /\ done'[p][i]
        /\ \A q \in Sides, j \in Ids : q # p \/ j # i => /\ shut'[q][j] = shut[q][j]
                                                         /\ done'[q][j] = done[q][j]
    BY <1>1, <2>1
  <2>4. \A q \in Sides, j \in Ids : j \in open'[q] <=> j \in open[q] /\ ~(q = p /\ j = i)
    BY <1>1, <2>1
  <2> QED BY <1>2, <2>2, <2>3, <2>4
<1>3. CASE i \notin open[p]
  BY <1>1, <1>3 DEF RemoveStream
<1> QED BY <1>2, <1>3

(* ... and markClosed. *)
LEMMA MarkClosedFacts ==
    ASSUME NEW p \in Sides, MarkClosed(p), TypeOK
    PROVE  /\ closed'[p] /\ closed'[Peer(p)] = closed[Peer(p)] /\ half'[p] = half[p]
           /\ \A q \in Sides : closed[q] => closed'[q]
           /\ closed[p] => UNCHANGED <<closed, half>>
           /\ ~closed[p] => half'[Peer(p)] = IF wire[p] # <<>> \/ half[Peer(p)] = "reset"
                                             THEN "reset" ELSE "eof"
<1>1. closed \in [Sides -> BOOLEAN] /\ half \in [Sides -> {"open", "eof", "reset"}]
  BY DEF TypeOK, Each
<1> QED BY <1>1, PeerFacts DEF MarkClosed

(* ... and the types of what they assign. *)
LEMMA RegisterTypes ==
    ASSUME NEW p \in Sides, NEW i \in Ids, Register(p, i), TypeOK
    PROVE  /\ open' \in [Sides -> SUBSET Ids]
           /\ opened' \in [Sides -> [Ids -> Nat]]
           /\ decoder' \in [Sides -> [Ids -> {"none", "select", "dispatch", "fin", "end"}]]
<1>1. /\ open \in [Sides -> SUBSET Ids]
      /\ opened \in [Sides -> [Ids -> Nat]]
      /\ decoder \in [Sides -> [Ids -> {"none", "select", "dispatch", "fin", "end"}]]
  BY DEF TypeOK, Each, EachStream
<1>2. open' \in [Sides -> SUBSET Ids]
  BY <1>1 DEF Register
<1>3. opened' \in [Sides -> [Ids -> Nat]]
  BY <1>1 DEF Register
<1>4. decoder' \in [Sides -> [Ids -> {"none", "select", "dispatch", "fin", "end"}]]
  BY <1>1 DEF Register
<1> QED BY <1>2, <1>3, <1>4

(* removeStream keeps the types of the table, *)
LEMMA RemoveTypes ==
    ASSUME NEW p \in Sides, NEW i \in Ids, RemoveStream(p, i), TypeOK
    PROVE  /\ open' \in [Sides -> SUBSET Ids]
           /\ shut' \in [Sides -> [Ids -> BOOLEAN]]
           /\ done' \in [Sides -> [Ids -> BOOLEAN]]
           /\ released' \in [Sides -> [Ids -> Nat]]
<1>1. /\ open \in [Sides -> SUBSET Ids]
      /\ shut \in [Sides -> [Ids -> BOOLEAN]]
      /\ done \in [Sides -> [Ids -> BOOLEAN]]
      /\ released \in [Sides -> [Ids -> Nat]]
  BY DEF TypeOK, Each, EachStream
<1>2. CASE i \in open[p]
  <2>1. /\ open' = [open EXCEPT ![p] = @ \ {i}] /\ shut' = [shut EXCEPT ![p][i] = TRUE]
        /\ done' = [done EXCEPT ![p][i] = TRUE]
        /\ released' = [released EXCEPT ![p][i] = released[p][i] + 1]
    BY <1>2 DEF RemoveStream
  <2>2. open' \in [Sides -> SUBSET Ids]
    BY <1>1, <2>1
  <2>3. released' \in [Sides -> [Ids -> Nat]]
    BY <1>1, <2>1, UpdateStream
  <2>4. shut' \in [Sides -> [Ids -> BOOLEAN]] /\ done' \in [Sides -> [Ids -> BOOLEAN]]
    BY <1>1, <2>1, UpdateStream
  <2> QED BY <2>2, <2>3, <2>4
<1>3. CASE i \notin open[p]
  BY <1>1, <1>3 DEF RemoveStream
<1> QED BY <1>2, <1>3

(* ... and markClosed those of the connection. *)
LEMMA MarkClosedTypes ==
    ASSUME NEW p \in Sides, MarkClosed(p), TypeOK
    PROVE  /\ closed' \in [Sides -> BOOLEAN]
           /\ half' \in [Sides -> {"open", "eof", "reset"}]
<1>1. closed \in [Sides -> BOOLEAN] /\ half \in [Sides -> {"open", "eof", "reset"}]
  BY DEF TypeOK, Each
<1> QED BY <1>1, PeerFacts DEF MarkClosed

(* Every step keeps the types, and the queues within their capacity. *)
LEMMA NextTypes ==
    ASSUME TableInv, Next
    PROVE  TypeOK'
<1> USE DEF connVars, outVars, tableVars, readerVars, queueVars, streamVars, appVars, netVars
<1>0. /\ TypeOK
      /\ Framed
  BY DEF TableInv
<1>1. /\ closing \in [Sides -> BOOLEAN]
      /\ closed \in [Sides -> BOOLEAN]
      /\ swept \in [Sides -> BOOLEAN]
      /\ cpc \in [Sides -> {"idle", "mark", "flush", "peer", "done"}]
      /\ outbound \in [Sides -> Seq([id : 0..NStreams, msg : Nat])]
      /\ writer \in [Sides -> {"run", "marked", "end"}]
      /\ nextId \in 0..NStreams
      /\ open \in [Sides -> SUBSET Ids]
      /\ reserved \in [Sides -> SUBSET Ids]
      /\ opened \in [Sides -> [Ids -> Nat]]
      /\ released \in [Sides -> [Ids -> Nat]]
      /\ rpc \in [Sides -> {"read", "push", "drain", "end"}]
      /\ rframe \in [Sides -> [id : 0..NStreams, msg : Nat]]
      /\ toFin \in [Sides -> SUBSET Ids]
      /\ toDrain \in [Sides -> SUBSET Ids]
      /\ incoming \in [Sides -> [Ids -> Seq(Numbers \cup {Fin})]]
      /\ inbox \in [Sides -> [Ids -> Seq(Numbers)]]
      /\ decoder \in [Sides -> [Ids -> {"none", "select", "dispatch", "fin", "end"}]]
      /\ job \in [Sides -> [Ids -> Numbers \cup {Fin}]]
      /\ shut \in [Sides -> [Ids -> BOOLEAN]]
      /\ done \in [Sides -> [Ids -> BOOLEAN]]
      /\ sender \in [Sides -> [Ids -> {"idle", "queue"}]]
      /\ closer \in [Sides -> [Ids -> {"idle", "queue", "remove", "done"}]]
      /\ sent \in [Sides -> [Ids -> Nat]]
      /\ flushed \in [Sides -> [Ids -> Nat]]
      /\ got \in [Sides -> [Ids -> Seq(Numbers)]]
      /\ wire \in [Sides -> Seq([id : Ids, msg : Nat])]
      /\ half \in [Sides -> {"open", "eof", "reset"}]
      /\ failures \in 0..MaxFailures
      /\ timeouts \in 0..MaxTimeouts
  BY DEF TableInv, TypeOK, Each, EachStream
<1>2. CASE NewStream
  <2>1. nextId + 1 \in Ids /\ nextId + 1 \in 0..NStreams /\ "client" \in Sides
    BY <1>1, <1>2, Constants DEF NewStream, Ids, Sides
  <2>2. /\ nextId \in 0..NStreams
        /\ open \in [Sides -> SUBSET Ids]
        /\ opened \in [Sides -> [Ids -> Nat]]
        /\ decoder \in [Sides -> [Ids -> {"none", "select", "dispatch", "fin", "end"}]]
    BY <1>0, <1>1 DEF TypeOK
  <2>3. /\ open' \in [Sides -> SUBSET Ids]
        /\ opened' \in [Sides -> [Ids -> Nat]]
        /\ decoder' \in [Sides -> [Ids -> {"none", "select", "dispatch", "fin", "end"}]]
    BY <1>0, <1>2, <2>2, <2>1, RegisterTypes DEF NewStream
  <2>4. nextId' \in 0..NStreams
    BY <2>2, <1>2, <2>1 DEF NewStream
  <2> QED
    BY <1>0, <1>2, <2>1, <2>3, <2>4 DEF NewStream, TypeOK, Each, EachStream
<1>3. CASE Break
  <2>1. /\ half \in [Sides -> {"open", "eof", "reset"}]
        /\ failures \in 0..MaxFailures
    BY <1>0, <1>1 DEF TypeOK
  <2>2. half' \in [Sides -> {"open", "eof", "reset"}]
    BY <2>1, <1>3, PeerFacts DEF Break
  <2>3. failures' \in 0..MaxFailures
    BY <2>1, <1>3, Constants DEF Break
  <2> QED
    BY <1>0, <1>3, <2>2, <2>3 DEF Break, TypeOK, Each, EachStream
<1>4. ASSUME NEW p \in Sides, CloseAllStreams(p) PROVE TypeOK'
  <2>1. /\ swept \in [Sides -> BOOLEAN]
        /\ open \in [Sides -> SUBSET Ids]
        /\ released \in [Sides -> [Ids -> Nat]]
        /\ shut \in [Sides -> [Ids -> BOOLEAN]]
        /\ done \in [Sides -> [Ids -> BOOLEAN]]
    BY <1>0, <1>1 DEF TypeOK
  <2>2. swept' \in [Sides -> BOOLEAN]
    BY <2>1, <1>4 DEF CloseAllStreams
  <2>3. open' \in [Sides -> SUBSET Ids]
    BY <2>1, <1>4 DEF CloseAllStreams
  <2>4. released' \in [Sides -> [Ids -> Nat]]
    BY <2>1, <1>4 DEF CloseAllStreams
  <2>5. shut' \in [Sides -> [Ids -> BOOLEAN]]
    BY <2>1, <1>4 DEF CloseAllStreams
  <2>6. done' \in [Sides -> [Ids -> BOOLEAN]]
    BY <2>1, <1>4 DEF CloseAllStreams
  <2> QED
    BY <1>0, <1>4, <2>2, <2>3, <2>4, <2>5, <2>6 DEF CloseAllStreams, TypeOK, Each, EachStream
<1>5. ASSUME NEW p \in Sides, ReadFin(p) PROVE TypeOK'
  <2>1. Head(wire[p]).id \in Ids /\ Head(wire[p]) \in [id : 0..NStreams, msg : Nat] /\ Tail(wire[p]) \in Seq([id : Ids, msg : Nat])
    <3>1. Head(wire[p]) \in [id : Ids, msg : Nat] /\ Tail(wire[p]) \in Seq([id : Ids, msg : Nat])
      BY <1>1, <1>5, TailFacts DEF ReadFin, ReadFrame
    <3> QED BY <3>1, Constants DEF Ids
  <2>2. /\ reserved \in [Sides -> SUBSET Ids]
        /\ rpc \in [Sides -> {"read", "push", "drain", "end"}]
        /\ rframe \in [Sides -> [id : 0..NStreams, msg : Nat]]
        /\ wire \in [Sides -> Seq([id : Ids, msg : Nat])]
    BY <1>0, <1>1 DEF TypeOK
  <2>3. reserved' \in [Sides -> SUBSET Ids]
    BY <2>2, <1>5, <2>1 DEF ReadFin, ReadFrame
  <2>4. rpc' \in [Sides -> {"read", "push", "drain", "end"}]
    BY <2>2, <1>5, <2>1 DEF ReadFin, ReadFrame
  <2>5. rframe' \in [Sides -> [id : 0..NStreams, msg : Nat]]
    BY <2>2, <1>5, <2>1 DEF ReadFin, ReadFrame
  <2>6. wire' \in [Sides -> Seq([id : Ids, msg : Nat])]
    BY <2>2, <1>5, <2>1, PeerFacts DEF ReadFin, ReadFrame
  <2> QED
    BY <1>0, <1>5, <2>1, <2>3, <2>4, <2>5, <2>6 DEF ReadFin, TypeOK, Each, EachStream
<1>6. ASSUME NEW p \in Sides, ReadMessage(p) PROVE TypeOK'
  <2>1. Head(wire[p]).id \in Ids /\ Head(wire[p]) \in [id : 0..NStreams, msg : Nat] /\ Tail(wire[p]) \in Seq([id : Ids, msg : Nat])
    <3>1. Head(wire[p]) \in [id : Ids, msg : Nat] /\ Tail(wire[p]) \in Seq([id : Ids, msg : Nat])
      BY <1>1, <1>6, TailFacts DEF ReadMessage, ReadFrame
    <3> QED BY <3>1, Constants DEF Ids
  <2>2. /\ open \in [Sides -> SUBSET Ids]
        /\ opened \in [Sides -> [Ids -> Nat]]
        /\ rpc \in [Sides -> {"read", "push", "drain", "end"}]
        /\ rframe \in [Sides -> [id : 0..NStreams, msg : Nat]]
        /\ decoder \in [Sides -> [Ids -> {"none", "select", "dispatch", "fin", "end"}]]
        /\ wire \in [Sides -> Seq([id : Ids, msg : Nat])]
    BY <1>0, <1>1 DEF TypeOK
  <2>3. /\ open' \in [Sides -> SUBSET Ids]
        /\ opened' \in [Sides -> [Ids -> Nat]]
        /\ decoder' \in [Sides -> [Ids -> {"none", "select", "dispatch", "fin", "end"}]]
    BY <1>0, <1>6, <2>2, <2>1, RegisterTypes DEF ReadMessage
  <2>4. rpc' \in [Sides -> {"read", "push", "drain", "end"}]
    BY <2>2, <1>6, <2>1 DEF ReadMessage, ReadFrame
  <2>5. rframe' \in [Sides -> [id : 0..NStreams, msg : Nat]]
    BY <2>2, <1>6, <2>1 DEF ReadMessage, ReadFrame
  <2>6. wire' \in [Sides -> Seq([id : Ids, msg : Nat])]
    BY <2>2, <1>6, <2>1, PeerFacts DEF ReadMessage, ReadFrame
  <2> QED
    BY <1>0, <1>6, <2>1, <2>3, <2>4, <2>5, <2>6 DEF ReadMessage, TypeOK, Each, EachStream
<1>7. ASSUME NEW p \in Sides, Push(p) PROVE TypeOK'
  <2>1. /\ rframe[p].id \in Ids /\ rframe[p].msg \in Numbers \cup {Fin}
        /\ Append(incoming[p][rframe[p].id], rframe[p].msg) \in Seq(Numbers \cup {Fin})
        /\ Len(Append(incoming[p][rframe[p].id], rframe[p].msg)) = Len(incoming[p][rframe[p].id]) + 1
    <3>1. rframe[p].id \in Ids /\ rframe[p].msg \in 0..MaxSend(Peer(p))
      BY <1>0, <1>7 DEF Push, Framed, Frames
    <3>2. 0..MaxSend(Peer(p)) \subseteq Numbers \cup {Fin}
      BY PeerFacts, Constants DEF Fin
    <3> QED BY <1>1, <3>1, <3>2, AppendFacts
  <2>2. /\ rpc \in [Sides -> {"read", "push", "drain", "end"}]
        /\ incoming \in [Sides -> [Ids -> Seq(Numbers \cup {Fin})]]
        /\ \A q \in Sides, j \in Ids : Len(incoming[q][j]) <= QueueSize
    BY <1>0, <1>1 DEF TypeOK
  <2>3. rpc' \in [Sides -> {"read", "push", "drain", "end"}]
    BY <2>2, <1>7, <2>1 DEF Push
  <2>4. incoming' \in [Sides -> [Ids -> Seq(Numbers \cup {Fin})]]
    <3>1. CASE incoming' = [incoming EXCEPT ![p][rframe[p].id] = Append(incoming[p][rframe[p].id], rframe[p].msg)]
      BY <2>2, <2>1, <3>1, UpdateStream
    <3>2. CASE UNCHANGED incoming
      BY <2>2, <3>2
    <3> QED BY <1>7, <3>1, <3>2 DEF Push
  <2>5. \A q \in Sides, j \in Ids : Len(incoming'[q][j]) <= QueueSize
    <3>1. CASE /\ Len(incoming[p][rframe[p].id]) < QueueSize
               /\ incoming' = [incoming EXCEPT ![p][rframe[p].id] = Append(incoming[p][rframe[p].id], rframe[p].msg)]
      <4>1. Len(Append(incoming[p][rframe[p].id], rframe[p].msg)) <= QueueSize
        BY <2>1, <2>2, <3>1, Constants
      <4> QED BY <2>1, <2>2, <3>1, <4>1, UpdateStream
    <3>2. CASE UNCHANGED incoming
      BY <2>2, <3>2
    <3> QED BY <1>7, <3>1, <3>2 DEF Push
  <2> QED
    BY <1>0, <1>7, <2>1, <2>3, <2>4, <2>5 DEF Push, TypeOK, Each, EachStream
<1>8. ASSUME NEW p \in Sides, ReadError(p) PROVE TypeOK'
  <2>1. /\ closed \in [Sides -> BOOLEAN]
        /\ rpc \in [Sides -> {"read", "push", "drain", "end"}]
        /\ half \in [Sides -> {"open", "eof", "reset"}]
    BY <1>0, <1>1 DEF TypeOK
  <2>2. /\ closed' \in [Sides -> BOOLEAN]
        /\ half' \in [Sides -> {"open", "eof", "reset"}]
    BY <1>0, <1>8, <2>1, MarkClosedTypes DEF ReadError
  <2>3. rpc' \in [Sides -> {"read", "push", "drain", "end"}]
    BY <2>1, <1>8 DEF ReadError
  <2> QED
    BY <1>0, <1>8, <2>2, <2>3 DEF ReadError, TypeOK, Each, EachStream
<1>9. ASSUME NEW p \in Sides, ReadEOF(p) PROVE TypeOK'
  <2>1. /\ closing \in [Sides -> BOOLEAN]
        /\ closed \in [Sides -> BOOLEAN]
        /\ rpc \in [Sides -> {"read", "push", "drain", "end"}]
        /\ toFin \in [Sides -> SUBSET Ids]
        /\ toDrain \in [Sides -> SUBSET Ids]
        /\ half \in [Sides -> {"open", "eof", "reset"}]
    BY <1>0, <1>1 DEF TypeOK
  <2>2. /\ closed' \in [Sides -> BOOLEAN]
        /\ half' \in [Sides -> {"open", "eof", "reset"}]
    BY <1>0, <1>9, <2>1, MarkClosedTypes DEF ReadEOF
  <2>3. closing' \in [Sides -> BOOLEAN]
    BY <2>1, <1>9 DEF ReadEOF, StreamsToDrain
  <2>4. rpc' \in [Sides -> {"read", "push", "drain", "end"}]
    BY <2>1, <1>9 DEF ReadEOF, StreamsToDrain
  <2>5. toFin' \in [Sides -> SUBSET Ids]
    <3>1. CASE closing[p]
      BY <2>1, <1>9, <3>1 DEF ReadEOF
    <3>2. CASE ~closing[p]
      <4>1. open[p] \in SUBSET Ids /\ toFin' = [toFin EXCEPT ![p] = open[p]]
        BY <1>1, <1>9, <3>2 DEF ReadEOF, StreamsToDrain
      <4> QED BY <2>1, <4>1
    <3> QED BY <3>1, <3>2
  <2>6. toDrain' \in [Sides -> SUBSET Ids]
    <3>1. CASE closing[p]
      BY <2>1, <1>9, <3>1 DEF ReadEOF
    <3>2. CASE ~closing[p]
      <4>1. open[p] \in SUBSET Ids /\ toDrain' = [toDrain EXCEPT ![p] = open[p]]
        BY <1>1, <1>9, <3>2 DEF ReadEOF, StreamsToDrain
      <4> QED BY <2>1, <4>1
    <3> QED BY <3>1, <3>2
  <2> QED
    BY <1>0, <1>9, <2>2, <2>3, <2>4, <2>5, <2>6 DEF ReadEOF, TypeOK, Each, EachStream
<1>10. ASSUME NEW p \in Sides, DrainEnd(p) PROVE TypeOK'
  <2>1. /\ closed \in [Sides -> BOOLEAN]
        /\ rpc \in [Sides -> {"read", "push", "drain", "end"}]
        /\ half \in [Sides -> {"open", "eof", "reset"}]
        /\ timeouts \in 0..MaxTimeouts
    BY <1>0, <1>1 DEF TypeOK
  <2>2. /\ closed' \in [Sides -> BOOLEAN]
        /\ half' \in [Sides -> {"open", "eof", "reset"}]
    BY <1>0, <1>10, <2>1, MarkClosedTypes DEF DrainEnd
  <2>3. rpc' \in [Sides -> {"read", "push", "drain", "end"}]
    BY <2>1, <1>10 DEF DrainEnd
  <2>4. timeouts' \in 0..MaxTimeouts
    BY <2>1, <1>10, Constants DEF DrainEnd
  <2> QED
    BY <1>0, <1>10, <2>2, <2>3, <2>4 DEF DrainEnd, TypeOK, Each, EachStream
<1>11. ASSUME NEW p \in Sides, Write(p) PROVE TypeOK'
  <2>1. /\ Tail(outbound[p]) \in Seq([id : 0..NStreams, msg : Nat]) /\ Len(Tail(outbound[p])) <= Len(outbound[p])
        /\ Head(outbound[p]) # Marker => Append(wire[Peer(p)], Head(outbound[p])) \in Seq([id : Ids, msg : Nat])
    <3>1. Head(outbound[p]) # Marker => Head(outbound[p]) \in Frames(p)
      BY <1>0, <1>1, <1>11, TailFacts DEF Write, Framed
    <3>2. Frames(p) \subseteq [id : Ids, msg : Nat]
      BY Constants DEF Frames
    <3>3. Tail(outbound[p]) \in Seq([id : 0..NStreams, msg : Nat]) /\ Len(Tail(outbound[p])) <= Len(outbound[p])
      <4>1. outbound[p] \in Seq([id : 0..NStreams, msg : Nat]) /\ outbound[p] # <<>>
        BY <1>1, <1>11 DEF Write
      <4> QED BY <4>1, TailFacts
    <3>4. Head(outbound[p]) # Marker => Append(wire[Peer(p)], Head(outbound[p])) \in Seq([id : Ids, msg : Nat])
      BY <1>1, <3>1, <3>2, PeerFacts, AppendFacts
    <3> QED BY <3>3, <3>4
  <2>2. /\ closed \in [Sides -> BOOLEAN]
        /\ outbound \in [Sides -> Seq([id : 0..NStreams, msg : Nat])]
        /\ writer \in [Sides -> {"run", "marked", "end"}]
        /\ wire \in [Sides -> Seq([id : Ids, msg : Nat])]
        /\ half \in [Sides -> {"open", "eof", "reset"}]
        /\ \A q \in Sides : Len(outbound[q]) <= OutboundSize
    BY <1>0, <1>1 DEF TypeOK
  <2>3. /\ closed' \in [Sides -> BOOLEAN]
        /\ half' \in [Sides -> {"open", "eof", "reset"}]
    BY <1>0, <1>11, <2>2, <2>1, MarkClosedTypes DEF Write
  <2>4. outbound' \in [Sides -> Seq([id : 0..NStreams, msg : Nat])]
    BY <2>2, <1>11, <2>1 DEF Write
  <2>5. \A q \in Sides : Len(outbound'[q]) <= OutboundSize
    BY <2>2, <1>11, <2>1, Constants DEF Write
  <2>6. writer' \in [Sides -> {"run", "marked", "end"}]
    BY <2>2, <1>11, <2>1 DEF Write
  <2>7. wire' \in [Sides -> Seq([id : Ids, msg : Nat])]
    BY <2>2, <1>11, <2>1, PeerFacts DEF Write
  <2> QED
    BY <1>0, <1>11, <2>1, <2>3, <2>4, <2>5, <2>6, <2>7 DEF Write, TypeOK, Each, EachStream
<1>12. ASSUME NEW p \in Sides, WriterEnd(p) PROVE TypeOK'
  <2>1. /\ writer \in [Sides -> {"run", "marked", "end"}]
    BY <1>0, <1>1 DEF TypeOK
  <2>2. writer' \in [Sides -> {"run", "marked", "end"}]
    BY <2>1, <1>12 DEF WriterEnd
  <2> QED
    BY <1>0, <1>12, <2>2 DEF WriterEnd, TypeOK, Each, EachStream
<1>13. ASSUME NEW p \in Sides, Close(p) PROVE TypeOK'
  <2>1. /\ closing \in [Sides -> BOOLEAN]
        /\ closed \in [Sides -> BOOLEAN]
        /\ cpc \in [Sides -> {"idle", "mark", "flush", "peer", "done"}]
        /\ half \in [Sides -> {"open", "eof", "reset"}]
    BY <1>0, <1>1 DEF TypeOK
  <2>2. /\ closed' \in [Sides -> BOOLEAN]
        /\ half' \in [Sides -> {"open", "eof", "reset"}]
    BY <1>0, <1>13, <2>1, MarkClosedTypes DEF Close
  <2>3. closing' \in [Sides -> BOOLEAN]
    BY <2>1, <1>13 DEF Close
  <2>4. cpc' \in [Sides -> {"idle", "mark", "flush", "peer", "done"}]
    BY <2>1, <1>13 DEF Close
  <2> QED
    BY <1>0, <1>13, <2>2, <2>3, <2>4 DEF Close, TypeOK, Each, EachStream
<1>14. ASSUME NEW p \in Sides, CloseQueue(p) PROVE TypeOK'
  <2>1. /\ Append(outbound[p], Marker) \in Seq([id : 0..NStreams, msg : Nat])
        /\ Len(Append(outbound[p], Marker)) = Len(outbound[p]) + 1
    <3>1. Marker \in [id : 0..NStreams, msg : Nat]
      BY Constants DEF Marker
    <3>2. outbound[p] \in Seq([id : 0..NStreams, msg : Nat])
      BY <1>1
    <3> QED BY <3>1, <3>2, AppendFacts
  <2>2. /\ cpc \in [Sides -> {"idle", "mark", "flush", "peer", "done"}]
        /\ outbound \in [Sides -> Seq([id : 0..NStreams, msg : Nat])]
        /\ \A q \in Sides : Len(outbound[q]) <= OutboundSize
    BY <1>0, <1>1 DEF TypeOK
  <2>3. cpc' \in [Sides -> {"idle", "mark", "flush", "peer", "done"}]
    BY <2>2, <1>14, <2>1 DEF CloseQueue, OutboundRoom, CloseMark
  <2>4. outbound' \in [Sides -> Seq([id : 0..NStreams, msg : Nat])]
    BY <2>2, <1>14, <2>1 DEF CloseQueue, OutboundRoom, CloseMark
  <2>5. \A q \in Sides : Len(outbound'[q]) <= OutboundSize
    BY <2>2, <1>14, <2>1, Constants DEF CloseQueue, OutboundRoom, CloseMark
  <2> QED
    BY <1>0, <1>14, <2>1, <2>3, <2>4, <2>5 DEF CloseQueue, TypeOK, Each, EachStream
<1>15. ASSUME NEW p \in Sides, CloseWrite(p) PROVE TypeOK'
  <2>1. /\ cpc \in [Sides -> {"idle", "mark", "flush", "peer", "done"}]
        /\ half \in [Sides -> {"open", "eof", "reset"}]
    BY <1>0, <1>1 DEF TypeOK
  <2>2. cpc' \in [Sides -> {"idle", "mark", "flush", "peer", "done"}]
    BY <2>1, <1>15 DEF CloseWrite
  <2>3. half' \in [Sides -> {"open", "eof", "reset"}]
    BY <2>1, <1>15, PeerFacts DEF CloseWrite
  <2> QED
    BY <1>0, <1>15, <2>2, <2>3 DEF CloseWrite, TypeOK, Each, EachStream
<1>16. ASSUME NEW p \in Sides, CloseEnd(p) PROVE TypeOK'
  <2>1. /\ closed \in [Sides -> BOOLEAN]
        /\ cpc \in [Sides -> {"idle", "mark", "flush", "peer", "done"}]
        /\ half \in [Sides -> {"open", "eof", "reset"}]
        /\ timeouts \in 0..MaxTimeouts
    BY <1>0, <1>1 DEF TypeOK
  <2>2. /\ closed' \in [Sides -> BOOLEAN]
        /\ half' \in [Sides -> {"open", "eof", "reset"}]
    BY <1>0, <1>16, <2>1, MarkClosedTypes DEF CloseEnd
  <2>3. cpc' \in [Sides -> {"idle", "mark", "flush", "peer", "done"}]
    BY <2>1, <1>16 DEF CloseEnd
  <2>4. timeouts' \in 0..MaxTimeouts
    BY <2>1, <1>16, Constants DEF CloseEnd
  <2> QED
    BY <1>0, <1>16, <2>2, <2>3, <2>4 DEF CloseEnd, TypeOK, Each, EachStream
<1>17. ASSUME NEW p \in Sides, NEW i \in Ids, Send(p, i) PROVE TypeOK'
  <2>1. /\ sender \in [Sides -> [Ids -> {"idle", "queue"}]]
    BY <1>0, <1>1 DEF TypeOK
  <2>2. sender' \in [Sides -> [Ids -> {"idle", "queue"}]]
    BY <2>1, <1>17 DEF Send, SendFree
  <2> QED
    BY <1>0, <1>17, <2>2 DEF Send, TypeOK, Each, EachStream
<1>18. ASSUME NEW p \in Sides, NEW i \in Ids, Enqueue(p, i) PROVE TypeOK'
  <2>1. /\ sent[p][i] + 1 \in Nat /\ Frame(i, sent[p][i] + 1) \in [id : 0..NStreams, msg : Nat]
        /\ Append(outbound[p], Frame(i, sent[p][i] + 1)) \in Seq([id : 0..NStreams, msg : Nat])
    <3>1. sent[p][i] + 1 \in Nat
      BY <1>1
    <3>2. Frame(i, sent[p][i] + 1) \in [id : 0..NStreams, msg : Nat]
      BY <3>1, Constants DEF Frame, Ids
    <3> QED BY <1>1, <3>1, <3>2, AppendFacts
  <2>2. /\ outbound \in [Sides -> Seq([id : 0..NStreams, msg : Nat])]
        /\ sender \in [Sides -> [Ids -> {"idle", "queue"}]]
        /\ sent \in [Sides -> [Ids -> Nat]]
        /\ flushed \in [Sides -> [Ids -> Nat]]
        /\ \A q \in Sides : Len(outbound[q]) <= OutboundSize
    BY <1>0, <1>1 DEF TypeOK
  <2>3. outbound' \in [Sides -> Seq([id : 0..NStreams, msg : Nat])]
    BY <2>2, <1>18, <2>1 DEF Enqueue, OutboundRoom
  <2>4. \A q \in Sides : Len(outbound'[q]) <= OutboundSize
    BY <2>2, <1>18, <2>1, AppendFacts, Constants DEF Enqueue, OutboundRoom
  <2>5. sender' \in [Sides -> [Ids -> {"idle", "queue"}]]
    BY <2>2, <1>18, <2>1 DEF Enqueue, OutboundRoom
  <2>6. sent' \in [Sides -> [Ids -> Nat]]
    BY <2>2, <1>18, <2>1 DEF Enqueue, OutboundRoom
  <2>7. flushed' \in [Sides -> [Ids -> Nat]]
    BY <2>2, <1>18, <2>1 DEF Enqueue, OutboundRoom
  <2> QED
    BY <1>0, <1>18, <2>1, <2>3, <2>4, <2>5, <2>6, <2>7 DEF Enqueue, TypeOK, Each, EachStream
<1>19. ASSUME NEW p \in Sides, NEW i \in Ids, SendClosed(p, i) PROVE TypeOK'
  <2>1. /\ sender \in [Sides -> [Ids -> {"idle", "queue"}]]
    BY <1>0, <1>1 DEF TypeOK
  <2>2. sender' \in [Sides -> [Ids -> {"idle", "queue"}]]
    BY <2>1, <1>19 DEF SendClosed
  <2> QED
    BY <1>0, <1>19, <2>2 DEF SendClosed, TypeOK, Each, EachStream
<1>20. ASSUME NEW p \in Sides, NEW i \in Ids, CloseOpened(p, i) PROVE TypeOK'
  <2>1. /\ shut \in [Sides -> [Ids -> BOOLEAN]]
        /\ closer \in [Sides -> [Ids -> {"idle", "queue", "remove", "done"}]]
    BY <1>0, <1>1 DEF TypeOK
  <2>2. shut' \in [Sides -> [Ids -> BOOLEAN]]
    BY <2>1, <1>20 DEF CloseOpened, SendFree
  <2>3. closer' \in [Sides -> [Ids -> {"idle", "queue", "remove", "done"}]]
    BY <2>1, <1>20 DEF CloseOpened, SendFree
  <2> QED
    BY <1>0, <1>20, <2>2, <2>3 DEF CloseOpened, TypeOK, Each, EachStream
<1>21. ASSUME NEW p \in Sides, NEW i \in Ids, CloseFin(p, i) PROVE TypeOK'
  <2>1. /\ Append(outbound[p], Frame(i, Fin)) \in Seq([id : 0..NStreams, msg : Nat])
        /\ Len(Append(outbound[p], Frame(i, Fin))) = Len(outbound[p]) + 1
    <3>1. Frame(i, Fin) \in [id : 0..NStreams, msg : Nat]
      BY Constants DEF Frame, Fin, Ids
    <3>2. outbound[p] \in Seq([id : 0..NStreams, msg : Nat])
      BY <1>1
    <3> QED BY <3>1, <3>2, AppendFacts
  <2>2. /\ outbound \in [Sides -> Seq([id : 0..NStreams, msg : Nat])]
        /\ closer \in [Sides -> [Ids -> {"idle", "queue", "remove", "done"}]]
        /\ \A q \in Sides : Len(outbound[q]) <= OutboundSize
    BY <1>0, <1>1 DEF TypeOK
  <2>3. outbound' \in [Sides -> Seq([id : 0..NStreams, msg : Nat])]
    BY <2>2, <1>21, <2>1 DEF CloseFin, OutboundRoom
  <2>4. \A q \in Sides : Len(outbound'[q]) <= OutboundSize
    <3>1. CASE OutboundRoom(p) /\ outbound' = [outbound EXCEPT ![p] = Append(outbound[p], Frame(i, Fin))]
      BY <2>1, <2>2, <3>1, Constants DEF OutboundRoom
    <3>2. CASE UNCHANGED outbound
      BY <2>2, <3>2
    <3> QED BY <1>21, <3>1, <3>2 DEF CloseFin
  <2>5. closer' \in [Sides -> [Ids -> {"idle", "queue", "remove", "done"}]]
    BY <2>2, <1>21, <2>1 DEF CloseFin, OutboundRoom
  <2> QED
    BY <1>0, <1>21, <2>1, <2>3, <2>4, <2>5 DEF CloseFin, TypeOK, Each, EachStream
<1>22. ASSUME NEW p \in Sides, NEW i \in Ids, ClosePeerStream(p, i) PROVE TypeOK'
  <2>1. /\ reserved \in [Sides -> SUBSET Ids]
        /\ closer \in [Sides -> [Ids -> {"idle", "queue", "remove", "done"}]]
    BY <1>0, <1>1 DEF TypeOK
  <2>2. reserved' \in [Sides -> SUBSET Ids]
    BY <2>1, <1>22 DEF ClosePeerStream, Reserve
  <2>3. closer' \in [Sides -> [Ids -> {"idle", "queue", "remove", "done"}]]
    BY <2>1, <1>22 DEF ClosePeerStream, Reserve
  <2> QED
    BY <1>0, <1>22, <2>2, <2>3 DEF ClosePeerStream, TypeOK, Each, EachStream
<1>23. ASSUME NEW p \in Sides, NEW i \in Ids, CloseRemove(p, i) PROVE TypeOK'
  <2>1. /\ open \in [Sides -> SUBSET Ids]
        /\ released \in [Sides -> [Ids -> Nat]]
        /\ shut \in [Sides -> [Ids -> BOOLEAN]]
        /\ done \in [Sides -> [Ids -> BOOLEAN]]
        /\ closer \in [Sides -> [Ids -> {"idle", "queue", "remove", "done"}]]
    BY <1>0, <1>1 DEF TypeOK
  <2>2. /\ open' \in [Sides -> SUBSET Ids]
        /\ released' \in [Sides -> [Ids -> Nat]]
        /\ shut' \in [Sides -> [Ids -> BOOLEAN]]
        /\ done' \in [Sides -> [Ids -> BOOLEAN]]
    BY <1>0, <1>23, <2>1, RemoveTypes DEF CloseRemove
  <2>3. closer' \in [Sides -> [Ids -> {"idle", "queue", "remove", "done"}]]
    BY <2>1, <1>23 DEF CloseRemove
  <2> QED
    BY <1>0, <1>23, <2>2, <2>3 DEF CloseRemove, TypeOK, Each, EachStream
<1>24. ASSUME NEW p \in Sides, NEW i \in Ids, Recv(p, i) PROVE TypeOK'
  <2>1. /\ Head(inbox[p][i]) \in Numbers /\ Tail(inbox[p][i]) \in Seq(Numbers)
        /\ Len(Tail(inbox[p][i])) <= Len(inbox[p][i])
        /\ Append(got[p][i], Head(inbox[p][i])) \in Seq(Numbers)
    BY <1>1, <1>24, TailFacts, AppendFacts DEF Recv
  <2>2. /\ inbox \in [Sides -> [Ids -> Seq(Numbers)]]
        /\ got \in [Sides -> [Ids -> Seq(Numbers)]]
        /\ \A q \in Sides, j \in Ids : Len(inbox[q][j]) <= QueueSize
    BY <1>0, <1>1 DEF TypeOK
  <2>3. inbox' \in [Sides -> [Ids -> Seq(Numbers)]]
    BY <2>2, <1>24, <2>1 DEF Recv
  <2>4. \A q \in Sides, j \in Ids : Len(inbox'[q][j]) <= QueueSize
    BY <2>2, <1>24, <2>1, Constants DEF Recv
  <2>5. got' \in [Sides -> [Ids -> Seq(Numbers)]]
    BY <2>2, <1>24, <2>1 DEF Recv
  <2> QED
    BY <1>0, <1>24, <2>1, <2>3, <2>4, <2>5 DEF Recv, TypeOK, Each, EachStream
<1>25. ASSUME NEW p \in Sides, NEW i \in Ids, DecodeTake(p, i) PROVE TypeOK'
  <2>1. /\ Head(incoming[p][i]) \in Numbers \cup {Fin} /\ Tail(incoming[p][i]) \in Seq(Numbers \cup {Fin})
        /\ Len(Tail(incoming[p][i])) <= Len(incoming[p][i])
    <3>1. incoming[p][i] \in Seq(Numbers \cup {Fin}) /\ incoming[p][i] # <<>>
      BY <1>1, <1>25 DEF DecodeTake
    <3>2. /\ Head(incoming[p][i]) \in Numbers \cup {Fin} /\ Len(incoming[p][i]) \in Nat
          /\ Tail(incoming[p][i]) \in Seq(Numbers \cup {Fin})
          /\ Len(Tail(incoming[p][i])) = Len(incoming[p][i]) - 1
      BY <3>1, TailFacts
    <3> QED BY <3>2
  <2>2. /\ incoming \in [Sides -> [Ids -> Seq(Numbers \cup {Fin})]]
        /\ decoder \in [Sides -> [Ids -> {"none", "select", "dispatch", "fin", "end"}]]
        /\ job \in [Sides -> [Ids -> Numbers \cup {Fin}]]
        /\ \A q \in Sides, j \in Ids : Len(incoming[q][j]) <= QueueSize
    BY <1>0, <1>1 DEF TypeOK
  <2>3. incoming' \in [Sides -> [Ids -> Seq(Numbers \cup {Fin})]]
    BY <2>2, <1>25, <2>1 DEF DecodeTake
  <2>4. \A q \in Sides, j \in Ids : Len(incoming'[q][j]) <= QueueSize
    BY <2>2, <1>25, <2>1, Constants DEF DecodeTake
  <2>5. decoder' \in [Sides -> [Ids -> {"none", "select", "dispatch", "fin", "end"}]]
    BY <2>2, <1>25, <2>1 DEF DecodeTake
  <2>6. job' \in [Sides -> [Ids -> Numbers \cup {Fin}]]
    BY <2>2, <1>25, <2>1 DEF DecodeTake
  <2> QED
    BY <1>0, <1>25, <2>1, <2>3, <2>4, <2>5, <2>6 DEF DecodeTake, TypeOK, Each, EachStream
<1>26. ASSUME NEW p \in Sides, NEW i \in Ids, Dispatch(p, i) PROVE TypeOK'
  <2>1. /\ Append(inbox[p][i], job[p][i]) \in Seq(Numbers)
        /\ Len(Append(inbox[p][i], job[p][i])) = Len(inbox[p][i]) + 1
    BY <1>0, <1>1, <1>26, AppendFacts DEF Dispatch, Framed
  <2>2. /\ inbox \in [Sides -> [Ids -> Seq(Numbers)]]
        /\ decoder \in [Sides -> [Ids -> {"none", "select", "dispatch", "fin", "end"}]]
        /\ job \in [Sides -> [Ids -> Numbers \cup {Fin}]]
        /\ \A q \in Sides, j \in Ids : Len(inbox[q][j]) <= QueueSize
    BY <1>0, <1>1 DEF TypeOK
  <2>3. inbox' \in [Sides -> [Ids -> Seq(Numbers)]]
    <3>1. CASE inbox' = [inbox EXCEPT ![p][i] = Append(inbox[p][i], job[p][i])]
      BY <2>2, <2>1, <3>1, UpdateStream
    <3>2. CASE UNCHANGED inbox
      BY <2>2, <3>2
    <3> QED BY <1>26, <3>1, <3>2 DEF Dispatch
  <2>4. \A q \in Sides, j \in Ids : Len(inbox'[q][j]) <= QueueSize
    <3>1. CASE /\ Len(inbox[p][i]) < QueueSize
               /\ inbox' = [inbox EXCEPT ![p][i] = Append(inbox[p][i], job[p][i])]
      <4>1. Len(Append(inbox[p][i], job[p][i])) <= QueueSize
        BY <2>1, <2>2, <3>1, Constants
      <4> QED BY <2>1, <2>2, <3>1, <4>1, UpdateStream
    <3>2. CASE UNCHANGED inbox
      BY <2>2, <3>2
    <3> QED BY <1>26, <3>1, <3>2 DEF Dispatch
  <2>5. decoder' \in [Sides -> [Ids -> {"none", "select", "dispatch", "fin", "end"}]]
    BY <2>2, <1>26, <2>1 DEF Dispatch
  <2>6. job' \in [Sides -> [Ids -> Numbers \cup {Fin}]]
    BY <2>2, <1>26, <2>1 DEF Dispatch
  <2> QED
    BY <1>0, <1>26, <2>1, <2>3, <2>4, <2>5, <2>6 DEF Dispatch, TypeOK, Each, EachStream
<1>27. ASSUME NEW p \in Sides, NEW i \in Ids, DecodeFin(p, i) PROVE TypeOK'
  <2>1. /\ Tail(incoming[p][i]) \in Seq(Numbers \cup {Fin}) /\ Len(Tail(incoming[p][i])) <= Len(incoming[p][i])
    <3>1. incoming[p][i] \in Seq(Numbers \cup {Fin}) /\ incoming[p][i] # <<>>
      BY <1>1, <1>27 DEF DecodeFin
    <3>2. /\ Tail(incoming[p][i]) \in Seq(Numbers \cup {Fin}) /\ Len(incoming[p][i]) \in Nat
          /\ Len(Tail(incoming[p][i])) = Len(incoming[p][i]) - 1
      BY <3>1, TailFacts
    <3> QED BY <3>2
  <2>2. /\ open \in [Sides -> SUBSET Ids]
        /\ released \in [Sides -> [Ids -> Nat]]
        /\ incoming \in [Sides -> [Ids -> Seq(Numbers \cup {Fin})]]
        /\ decoder \in [Sides -> [Ids -> {"none", "select", "dispatch", "fin", "end"}]]
        /\ shut \in [Sides -> [Ids -> BOOLEAN]]
        /\ done \in [Sides -> [Ids -> BOOLEAN]]
        /\ \A q \in Sides, j \in Ids : Len(incoming[q][j]) <= QueueSize
    BY <1>0, <1>1 DEF TypeOK
  <2>3. /\ open' \in [Sides -> SUBSET Ids]
        /\ released' \in [Sides -> [Ids -> Nat]]
        /\ shut' \in [Sides -> [Ids -> BOOLEAN]]
        /\ done' \in [Sides -> [Ids -> BOOLEAN]]
    BY <1>0, <1>27, <2>2, <2>1, RemoveTypes DEF DecodeFin
  <2>4. incoming' \in [Sides -> [Ids -> Seq(Numbers \cup {Fin})]]
    BY <2>2, <1>27, <2>1 DEF DecodeFin
  <2>5. \A q \in Sides, j \in Ids : Len(incoming'[q][j]) <= QueueSize
    BY <2>2, <1>27, <2>1, Constants DEF DecodeFin
  <2>6. decoder' \in [Sides -> [Ids -> {"none", "select", "dispatch", "fin", "end"}]]
    BY <2>2, <1>27, <2>1 DEF DecodeFin
  <2> QED
    BY <1>0, <1>27, <2>1, <2>3, <2>4, <2>5, <2>6 DEF DecodeFin, TypeOK, Each, EachStream
<1>28. ASSUME NEW p \in Sides, NEW i \in Ids, DecodeEnd(p, i) PROVE TypeOK'
  <2>1. /\ decoder \in [Sides -> [Ids -> {"none", "select", "dispatch", "fin", "end"}]]
    BY <1>0, <1>1 DEF TypeOK
  <2>2. decoder' \in [Sides -> [Ids -> {"none", "select", "dispatch", "fin", "end"}]]
    BY <2>1, <1>28 DEF DecodeEnd
  <2> QED
    BY <1>0, <1>28, <2>2 DEF DecodeEnd, TypeOK, Each, EachStream
<1>29. ASSUME NEW p \in Sides, NEW i \in Ids, DrainFin(p, i) PROVE TypeOK'
  <2>1. /\ Append(incoming[p][i], Fin) \in Seq(Numbers \cup {Fin})
        /\ Len(Append(incoming[p][i], Fin)) = Len(incoming[p][i]) + 1
    BY <1>1, AppendFacts
  <2>2. /\ toFin \in [Sides -> SUBSET Ids]
        /\ incoming \in [Sides -> [Ids -> Seq(Numbers \cup {Fin})]]
        /\ \A q \in Sides, j \in Ids : Len(incoming[q][j]) <= QueueSize
    BY <1>0, <1>1 DEF TypeOK
  <2>3. toFin' \in [Sides -> SUBSET Ids]
    BY <2>2, <1>29, <2>1 DEF DrainFin
  <2>4. incoming' \in [Sides -> [Ids -> Seq(Numbers \cup {Fin})]]
    <3>1. CASE incoming' = [incoming EXCEPT ![p][i] = Append(incoming[p][i], Fin)]
      BY <2>2, <2>1, <3>1, UpdateStream
    <3>2. CASE UNCHANGED incoming
      BY <2>2, <3>2
    <3> QED BY <1>29, <3>1, <3>2 DEF DrainFin
  <2>5. \A q \in Sides, j \in Ids : Len(incoming'[q][j]) <= QueueSize
    <3>1. CASE /\ Len(incoming[p][i]) < QueueSize
               /\ incoming' = [incoming EXCEPT ![p][i] = Append(incoming[p][i], Fin)]
      <4>1. Len(Append(incoming[p][i], Fin)) <= QueueSize
        BY <2>1, <2>2, <3>1, Constants
      <4> QED BY <2>1, <2>2, <3>1, <4>1, UpdateStream
    <3>2. CASE UNCHANGED incoming
      BY <2>2, <3>2
    <3> QED BY <1>29, <3>1, <3>2 DEF DrainFin
  <2> QED
    BY <1>0, <1>29, <2>1, <2>3, <2>4, <2>5 DEF DrainFin, TypeOK, Each, EachStream
<1> QED
  BY <1>2, <1>3, <1>4, <1>5, <1>6, <1>7, <1>8, <1>9, <1>10, <1>11, <1>12, <1>13, <1>14, <1>15,
     <1>16, <1>17, <1>18, <1>19, <1>20, <1>21, <1>22, <1>23, <1>24, <1>25, <1>26, <1>27, <1>28,
     <1>29 DEF Next, AppStep, ReaderStep, WriterStep, CloseStep, StreamStep

-----------------------------------------------------------------------------
(* What the actions do to outbound and to the wire.                        *)

(* A message, a FIN or the marker is queued. *)
LEMMA EnqueueFrames ==
    ASSUME TypeOK, NEW p \in Sides, NEW i \in Ids, Enqueue(p, i)
    PROVE  /\ \A q \in Sides : q # p => outbound'[q] = outbound[q]
           /\ Appends(outbound[p], outbound'[p], Frame(i, sent[p][i] + 1))
<1> DEFINE S == [id : 0..NStreams, msg : Nat]
<1> DEFINE m == Frame(i, sent[p][i] + 1)
<1>1. outbound \in [Sides -> Seq(S)] /\ sent[p][i] \in Nat
  <2>1. outbound \in [Sides -> Seq(S)]
    BY DEF TypeOK, Each
  <2>2. sent \in [Sides -> [Ids -> Nat]]
    BY DEF TypeOK, EachStream
  <2> QED BY <2>1, <2>2
<1>2. m \in S
  <2>1. sent[p][i] + 1 \in Nat
    BY <1>1
  <2> QED BY <2>1, Constants DEF Frame, Ids
<1>3. outbound' = [outbound EXCEPT ![p] = Append(outbound[p], m)]
  BY DEF Enqueue
<1> HIDE DEF Appends, S, m
<1>4. Appends(outbound[p], outbound'[p], m) /\ \A q \in Sides : q # p => outbound'[q] = outbound[q]
  BY <1>1, <1>2, <1>3, AppendTo
<1> QED BY <1>4 DEF m

(* A Stream.Close that changes outbound queues a FIN. *)
LEMMA CloseFinFrames ==
    ASSUME TypeOK, NEW p \in Sides, NEW i \in Ids, CloseFin(p, i), outbound' # outbound
    PROVE  /\ \A q \in Sides : q # p => outbound'[q] = outbound[q]
           /\ Appends(outbound[p], outbound'[p], Frame(i, Fin))
<1>1. outbound \in [Sides -> Seq([id : 0..NStreams, msg : Nat])]
  BY DEF TypeOK, Each
<1>2. Frame(i, Fin) \in [id : 0..NStreams, msg : Nat]
  BY Constants DEF Frame, Fin, Ids
<1>3. outbound' = [outbound EXCEPT ![p] = Append(outbound[p], Frame(i, Fin))]
  BY DEF CloseFin
<1> QED BY <1>1, <1>2, <1>3, AppendTo

(* Connection.Close queues the marker. *)
LEMMA CloseQueueFrames ==
    ASSUME TypeOK, NEW p \in Sides, CloseQueue(p)
    PROVE  /\ \A q \in Sides : q # p => outbound'[q] = outbound[q]
           /\ Appends(outbound[p], outbound'[p], Marker)
<1>1. outbound \in [Sides -> Seq([id : 0..NStreams, msg : Nat])]
  BY DEF TypeOK, Each
<1>2. Marker \in [id : 0..NStreams, msg : Nat]
  BY Constants DEF Marker
<1>3. outbound' = [outbound EXCEPT ![p] = Append(outbound[p], Marker)]
  BY DEF CloseQueue, CloseMark
<1> QED BY <1>1, <1>2, <1>3, AppendTo

(* The writer takes a frame, and the reader another. *)
LEMMA WriteFrames ==
    ASSUME TypeOK, NEW p \in Sides, Write(p)
    PROVE  /\ \A q \in Sides : q # p => outbound'[q] = outbound[q]
           /\ Takes(outbound[p], outbound'[p])
<1>1. outbound \in [Sides -> Seq([id : 0..NStreams, msg : Nat])]
  BY DEF TypeOK, Each
<1>2. outbound' = [outbound EXCEPT ![p] = Tail(outbound[p])] /\ outbound[p] # <<>>
  BY DEF Write
<1>3. /\ outbound'[p] = Tail(outbound[p]) /\ outbound[p] \in Seq([id : 0..NStreams, msg : Nat])
      /\ \A q \in Sides : q # p => outbound'[q] = outbound[q]
  BY <1>1, <1>2
<1>4. Takes(outbound[p], Tail(outbound[p]))
  <2> HIDE DEF Takes
  <2> QED BY <1>2, <1>3, TakesTail
<1> QED BY <1>3, <1>4

(* The reader takes the head of its wire. *)
LEMMA ReadFrames ==
    ASSUME TypeOK, NEW p \in Sides, ReadFrame(p)
    PROVE  /\ \A q \in Sides : q # p => wire'[q] = wire[q]
           /\ Takes(wire[p], wire'[p])
<1>1. wire \in [Sides -> Seq([id : Ids, msg : Nat])]
  BY DEF TypeOK, Each
<1>2. wire' = [wire EXCEPT ![p] = Tail(wire[p])] /\ wire[p] # <<>>
  BY DEF ReadFrame
<1>3. /\ wire'[p] = Tail(wire[p]) /\ wire[p] \in Seq([id : Ids, msg : Nat])
      /\ \A q \in Sides : q # p => wire'[q] = wire[q]
  BY <1>1, <1>2
<1>4. Takes(wire[p], Tail(wire[p]))
  <2> HIDE DEF Takes
  <2> QED BY <1>2, <1>3, TakesTail
<1> QED BY <1>3, <1>4

(* A frame that is written goes to the peer's wire, or is lost. *)
LEMMA WireFrames ==
    ASSUME TypeOK, Framed, NEW p \in Sides, Write(p), wire' # wire
    PROVE  /\ \A q \in Sides : q # Peer(p) => wire'[q] = wire[q]
           /\ Appends(wire[Peer(p)], wire'[Peer(p)], outbound[p][1]) /\ outbound[p][1] # Marker
           /\ ~closed[Peer(p)] /\ half[p] # "reset" /\ UNCHANGED <<writer, closed, half>>
<1>1. wire \in [Sides -> Seq([id : Ids, msg : Nat])]
  BY DEF TypeOK, Each
<1>2. /\ Head(outbound[p]) = outbound[p][1] /\ 1 \in DOMAIN outbound[p]
  BY WriteFrames
<1>3. /\ outbound[p][1] # Marker
      /\ wire' = [wire EXCEPT ![Peer(p)] = Append(wire[Peer(p)], outbound[p][1])]
      /\ ~closed[Peer(p)] /\ half[p] # "reset" /\ UNCHANGED <<writer, closed, half>>
  BY <1>2 DEF Write
<1>4. outbound[p][1] \in Frames(p)
  BY <1>2, <1>3 DEF Framed
<1>5. outbound[p][1] \in [id : Ids, msg : Nat]
  BY <1>4, Constants DEF Frames
<1> QED BY <1>1, <1>3, <1>5, PeerFacts, AppendTo

(* Only what was sent on a stream is on its way, up to the bound. *)
LEMMA NextFramed ==
    ASSUME TableInv, Next
    PROVE  Framed'
<1> USE DEF connVars, outVars, tableVars, readerVars, queueVars, streamVars, appVars, netVars
<1>0. /\ Framed
      /\ TypeOK
  BY DEF TableInv
<1>1. /\ outbound \in [Sides -> Seq([id : 0..NStreams, msg : Nat])]
      /\ wire \in [Sides -> Seq([id : Ids, msg : Nat])]
      /\ rpc \in [Sides -> {"read", "push", "drain", "end"}]
      /\ rframe \in [Sides -> [id : 0..NStreams, msg : Nat]]
      /\ sent \in [Sides -> [Ids -> Nat]]
      /\ sender \in [Sides -> [Ids -> {"idle", "queue"}]]
      /\ decoder \in [Sides -> [Ids -> {"none", "select", "dispatch", "fin", "end"}]]
      /\ job \in [Sides -> [Ids -> Numbers \cup {Fin}]]
      /\ nextId \in 0..NStreams
  BY DEF TableInv, TypeOK, Each, EachStream
<1>2. CASE Break
  BY <1>0, <1>2 DEF Framed, Break
<1>3. CASE \E p \in Sides : CloseAllStreams(p) \/ WriterEnd(p) \/ Close(p) \/ CloseWrite(p)
                            \/ CloseEnd(p)
  BY <1>0, <1>3 DEF Framed, CloseAllStreams, WriterEnd, Close, CloseWrite, CloseEnd
<1>4. CASE \E p \in Sides, i \in Ids : CloseOpened(p, i) \/ ClosePeerStream(p, i) \/
                                       CloseRemove(p, i) \/ Recv(p, i) \/ DrainFin(p, i)
  BY <1>0, <1>4 DEF Framed, CloseOpened, ClosePeerStream, CloseRemove, Recv, DrainFin
<1>5. CASE NewStream
  <2>1. "client" \in Sides /\ nextId + 1 \in Ids
    BY <1>1, <1>5, Constants DEF NewStream, Sides, Ids
  <2>2. \A q \in Sides, j \in Ids : decoder'[q][j] = "dispatch" => decoder[q][j] = "dispatch"
    BY <1>0, <1>5, <2>1, RegisterFacts DEF NewStream
  <2> QED BY <1>0, <1>5, <2>2 DEF NewStream, Framed
<1>6. ASSUME NEW p \in Sides, ReadFin(p) PROVE Framed'
  <2>1. /\ \A q \in Sides : q # p => wire'[q] = wire[q]
        /\ Takes(wire[p], wire'[p])
    BY <1>0, <1>6, ReadFrames DEF ReadFin
  <2>2. \A q \in Sides : \A k \in DOMAIN wire'[q] : wire'[q][k] \in Frames(Peer(q))
    BY <1>0, <2>1 DEF Framed
  <2>3. \A q \in Sides : rpc'[q] = "push" => rframe'[q] \in Frames(Peer(q))
    BY <1>0, <1>1, <1>6, <2>1 DEF ReadFin, Framed
  <2>4. \A q \in Sides, j \in Ids : decoder'[q][j] = "dispatch" => decoder[q][j] = "dispatch"
    BY <1>1, <1>6 DEF ReadFin
  <2> QED BY <1>0, <1>6, <2>2, <2>3, <2>4 DEF ReadFin, Framed
<1>7. ASSUME NEW p \in Sides, ReadMessage(p) PROVE Framed'
  <2>1. /\ \A q \in Sides : q # p => wire'[q] = wire[q]
        /\ Takes(wire[p], wire'[p])
    BY <1>0, <1>7, ReadFrames DEF ReadMessage
  <2>2. \A q \in Sides : \A k \in DOMAIN wire'[q] : wire'[q][k] \in Frames(Peer(q))
    BY <1>0, <2>1 DEF Framed
  <2>3. \A q \in Sides : rpc'[q] = "push" => rframe'[q] \in Frames(Peer(q))
    BY <1>0, <1>1, <1>7, <2>1 DEF ReadMessage, Framed
  <2>4. \A q \in Sides, j \in Ids : decoder'[q][j] = "dispatch" => decoder[q][j] = "dispatch"
    <3>1. Head(wire[p]).id \in Ids
      BY <1>0, <1>7, <2>1 DEF Framed, Frames
    <3> QED BY <1>0, <1>7, <3>1, RegisterFacts DEF ReadMessage
  <2> QED BY <1>0, <1>7, <2>2, <2>3, <2>4 DEF ReadMessage, Framed
<1>8. ASSUME NEW p \in Sides, Push(p) PROVE Framed'
  BY <1>0, <1>1, <1>8 DEF Push, GiveUp, Framed
<1>9. ASSUME NEW p \in Sides, ReadError(p) PROVE Framed'
  BY <1>0, <1>1, <1>9 DEF ReadError, MarkClosed, Framed
<1>10. ASSUME NEW p \in Sides, ReadEOF(p) PROVE Framed'
  BY <1>0, <1>1, <1>10 DEF ReadEOF, MarkClosed, StreamsToDrain, Framed
<1>11. ASSUME NEW p \in Sides, DrainEnd(p) PROVE Framed'
  BY <1>0, <1>1, <1>11 DEF DrainEnd, MarkClosed, Framed
<1>12. ASSUME NEW p \in Sides, Write(p) PROVE Framed'
  <2>1. /\ \A q \in Sides : q # p => outbound'[q] = outbound[q]
        /\ Takes(outbound[p], outbound'[p])
    BY <1>0, <1>12, WriteFrames
  <2>2. \A q \in Sides : \A k \in DOMAIN outbound'[q] :
            outbound'[q][k] = Marker \/ outbound'[q][k] \in Frames(q)
    BY <1>0, <2>1 DEF Framed
  <2>3. \A q \in Sides : \A k \in DOMAIN wire'[q] : wire'[q][k] \in Frames(Peer(q))
    <3>1. CASE wire' # wire
      <4>1. outbound[p][1] \in Frames(Peer(Peer(p)))
        BY <1>0, <1>12, <2>1, <3>1, WireFrames, PeerFacts DEF Framed
      <4> QED BY <1>0, <1>12, <3>1, <4>1, WireFrames DEF Framed
    <3>2. CASE wire' = wire
      BY <1>0, <3>2 DEF Framed
    <3> QED BY <3>1, <3>2
  <2> QED BY <1>0, <1>12, <2>2, <2>3 DEF Write, Framed
<1>13. ASSUME NEW p \in Sides, CloseQueue(p) PROVE Framed'
  <2>1. /\ \A q \in Sides : q # p => outbound'[q] = outbound[q]
        /\ Appends(outbound[p], outbound'[p], Marker)
    BY <1>0, <1>13, CloseQueueFrames
  <2>2. \A q \in Sides : \A k \in DOMAIN outbound'[q] :
            outbound'[q][k] = Marker \/ outbound'[q][k] \in Frames(q)
    BY <1>0, <2>1 DEF Framed
  <2> QED BY <1>0, <1>13, <2>2 DEF CloseQueue, Framed
<1>14. ASSUME NEW p \in Sides, NEW i \in Ids, Send(p, i) PROVE Framed'
  BY <1>0, <1>1, <1>14 DEF Send, Accepting, SendFree, Framed
<1>15. ASSUME NEW p \in Sides, NEW i \in Ids, Enqueue(p, i) PROVE Framed'
  <2>1. /\ \A q \in Sides : q # p => outbound'[q] = outbound[q]
        /\ Appends(outbound[p], outbound'[p], Frame(i, sent[p][i] + 1))
    BY <1>0, <1>15, EnqueueFrames
  <2>2. Frame(i, sent[p][i] + 1) \in Frames(p)
    BY <1>0, <1>1, <1>15, Constants DEF Enqueue, Framed, Frames, Frame
  <2>3. \A q \in Sides : \A k \in DOMAIN outbound'[q] :
            outbound'[q][k] = Marker \/ outbound'[q][k] \in Frames(q)
    BY <1>0, <2>1, <2>2 DEF Framed
  <2>4. \A q \in Sides, j \in Ids : /\ sent'[q][j] <= MaxSend(q)
                                    /\ sender'[q][j] = "queue" => sent'[q][j] < MaxSend(q)
    <3>1. \A q \in Sides, j \in Ids :
             /\ sent'[q][j] = IF q = p /\ j = i THEN sent[q][j] + 1 ELSE sent[q][j]
             /\ sender'[q][j] = IF q = p /\ j = i THEN "idle" ELSE sender[q][j]
      BY <1>1, <1>15 DEF Enqueue
    <3>2. sent[p][i] < MaxSend(p) /\ sent[p][i] \in Nat /\ MaxSend(p) \in Nat
      BY <1>0, <1>1, <1>15, Constants DEF Enqueue, Framed
    <3> QED BY <1>0, <3>1, <3>2 DEF Framed
  <2> QED BY <1>0, <1>15, <2>3, <2>4 DEF Enqueue, Framed
<1>16. ASSUME NEW p \in Sides, NEW i \in Ids, SendClosed(p, i) PROVE Framed'
  BY <1>0, <1>1, <1>16 DEF SendClosed, Framed
<1>17. ASSUME NEW p \in Sides, NEW i \in Ids, CloseFin(p, i) PROVE Framed'
  <2>1. CASE outbound' # outbound
    <3>1. /\ \A q \in Sides : q # p => outbound'[q] = outbound[q]
          /\ Appends(outbound[p], outbound'[p], Frame(i, Fin))
      BY <1>0, <1>17, <2>1, CloseFinFrames
    <3>2. Frame(i, Fin) \in Frames(p)
      BY Constants DEF Frames, Frame, Fin
    <3>3. \A q \in Sides : \A k \in DOMAIN outbound'[q] :
              outbound'[q][k] = Marker \/ outbound'[q][k] \in Frames(q)
      BY <1>0, <3>1, <3>2 DEF Framed
    <3> QED BY <1>0, <1>17, <3>3 DEF CloseFin, Framed
  <2>2. CASE outbound' = outbound
    BY <1>0, <1>17, <2>2 DEF CloseFin, Framed
  <2> QED BY <2>1, <2>2
<1>18. ASSUME NEW p \in Sides, NEW i \in Ids, DecodeTake(p, i) PROVE Framed'
  BY <1>0, <1>1, <1>18 DEF DecodeTake, Framed
<1>19. ASSUME NEW p \in Sides, NEW i \in Ids, Dispatch(p, i) PROVE Framed'
  BY <1>0, <1>1, <1>19 DEF Dispatch, GiveUp, Framed
<1>20. ASSUME NEW p \in Sides, NEW i \in Ids, DecodeFin(p, i) PROVE Framed'
  BY <1>0, <1>1, <1>20 DEF DecodeFin, RemoveStream, Framed
<1>21. ASSUME NEW p \in Sides, NEW i \in Ids, DecodeEnd(p, i) PROVE Framed'
  BY <1>0, <1>1, <1>21 DEF DecodeEnd, Framed
<1> QED
  BY <1>2, <1>3, <1>4, <1>5, <1>6, <1>7, <1>8, <1>9, <1>10, <1>11, <1>12, <1>13, <1>14, <1>15,
     <1>16, <1>17, <1>18, <1>19, <1>20, <1>21
     DEF Next, AppStep, ReaderStep, WriterStep, CloseStep, StreamStep

(* Frames and streams have IDs that NewStream has returned. *)
LEMMA NextKnown ==
    ASSUME TableInv, Next
    PROVE  Known'
<1> USE DEF connVars, outVars, tableVars, readerVars, queueVars, streamVars, appVars, netVars
<1>0. /\ Known
      /\ TypeOK
      /\ Framed
  BY DEF TableInv
<1>1. /\ outbound \in [Sides -> Seq([id : 0..NStreams, msg : Nat])]
      /\ wire \in [Sides -> Seq([id : Ids, msg : Nat])]
      /\ nextId \in 0..NStreams
      /\ opened \in [Sides -> [Ids -> Nat]]
      /\ sender \in [Sides -> [Ids -> {"idle", "queue"}]]
      /\ closer \in [Sides -> [Ids -> {"idle", "queue", "remove", "done"}]]
  BY DEF TableInv, TypeOK, Each, EachStream
<1>2. CASE Break
  BY <1>0, <1>2 DEF Known, Break
<1>3. CASE \E p \in Sides : CloseAllStreams(p) \/ Push(p) \/ ReadError(p) \/ ReadEOF(p) \/
                            DrainEnd(p) \/ WriterEnd(p) \/ Close(p) \/ CloseWrite(p) \/
                            CloseEnd(p)
  BY <1>0, <1>3
     DEF Known, CloseAllStreams, Push, ReadError, ReadEOF, DrainEnd, WriterEnd, Close,
         CloseWrite, CloseEnd
<1>4. CASE \E p \in Sides, i \in Ids : Recv(p, i) \/ DecodeTake(p, i) \/ Dispatch(p, i) \/
                                       DecodeFin(p, i) \/ DecodeEnd(p, i) \/ DrainFin(p, i)
  BY <1>0, <1>4 DEF Known, Recv, DecodeTake, Dispatch, DecodeFin, DecodeEnd, DrainFin
<1>5. CASE NewStream
  <2>1. "client" \in Sides /\ nextId + 1 \in Ids /\ nextId' = nextId + 1 /\ nextId \in Nat
    BY <1>1, <1>5, Constants DEF NewStream, Sides, Ids
  <2>2. \A q \in Sides, j \in Ids : j > nextId' => opened'[q][j] = opened[q][j]
    BY <1>0, <1>5, <2>1, RegisterFacts, Constants DEF NewStream
  <2>3. \A q \in Sides : /\ \A k \in DOMAIN outbound[q] : outbound[q][k].id \in Nat
                         /\ \A k \in DOMAIN wire[q] : wire[q][k].id \in Nat
    <3>1. \A q \in Sides : \A k \in DOMAIN outbound[q] : outbound[q][k].id \in Nat
      <4>1. Marker.id \in Nat
        BY DEF Marker
      <4>2. \A q \in Sides : \A f \in Frames(q) : f.id \in Nat
        BY Constants DEF Frames
      <4> QED BY <1>0, <4>1, <4>2 DEF Framed
    <3>2. \A q \in Sides : \A k \in DOMAIN wire[q] : wire[q][k].id \in Nat
      BY <1>0, Constants DEF Framed, Frames
    <3> QED BY <3>1, <3>2
  <2>4. \A n \in Nat : n <= nextId => n <= nextId'
    BY <2>1
  <2>5. \A j \in Ids : j > nextId' => j > nextId
    BY <2>1, Constants
  <2> QED BY <1>0, <1>5, <2>2, <2>3, <2>4, <2>5 DEF NewStream, Known
<1>6. ASSUME NEW p \in Sides, ReadFin(p) PROVE Known'
  <2>1. /\ \A q \in Sides : q # p => wire'[q] = wire[q]
        /\ Takes(wire[p], wire'[p])
    BY <1>0, <1>6, ReadFrames DEF ReadFin
  <2>2. \A q \in Sides : \A k \in DOMAIN wire'[q] : wire'[q][k].id <= nextId
    BY <1>0, <2>1 DEF Known
  <2> QED BY <1>0, <1>6, <2>2 DEF ReadFin, Known
<1>7. ASSUME NEW p \in Sides, ReadMessage(p) PROVE Known'
  <2>1. /\ \A q \in Sides : q # p => wire'[q] = wire[q]
        /\ Takes(wire[p], wire'[p])
    BY <1>0, <1>7, ReadFrames DEF ReadMessage
  <2>2. \A q \in Sides : \A k \in DOMAIN wire'[q] : wire'[q][k].id <= nextId
    BY <1>0, <2>1 DEF Known
  <2>3. Head(wire[p]).id \in Ids /\ Head(wire[p]).id <= nextId
    BY <1>0, <1>7, <2>1 DEF Framed, Frames, Known
  <2>4. \A q \in Sides, j \in Ids : j > nextId => opened'[q][j] = opened[q][j]
    <3>1. CASE Register(p, Head(wire[p]).id)
      <4>1. \A j \in Ids : j > nextId => j # Head(wire[p]).id
        BY <1>1, <2>3, Constants
      <4> QED BY <1>0, <2>3, <3>1, <4>1, RegisterFacts
    <3>2. CASE UNCHANGED opened
      BY <3>2
    <3> QED BY <1>7, <3>1, <3>2 DEF ReadMessage
  <2> QED BY <1>0, <1>7, <2>2, <2>4 DEF ReadMessage, Known
<1>8. ASSUME NEW p \in Sides, Write(p) PROVE Known'
  <2>1. /\ \A q \in Sides : q # p => outbound'[q] = outbound[q]
        /\ Takes(outbound[p], outbound'[p])
    BY <1>0, <1>8, WriteFrames
  <2>2. \A q \in Sides : \A k \in DOMAIN outbound'[q] : outbound'[q][k].id <= nextId
    BY <1>0, <2>1 DEF Known
  <2>3. \A q \in Sides : \A k \in DOMAIN wire'[q] : wire'[q][k].id <= nextId
    <3>1. CASE wire' # wire
      BY <1>0, <1>8, <2>1, <3>1, WireFrames DEF Known
    <3>2. CASE wire' = wire
      BY <1>0, <3>2 DEF Known
    <3> QED BY <3>1, <3>2
  <2> QED BY <1>0, <1>8, <2>2, <2>3 DEF Write, Known
<1>9. ASSUME NEW p \in Sides, CloseQueue(p) PROVE Known'
  <2>1. /\ \A q \in Sides : q # p => outbound'[q] = outbound[q]
        /\ Appends(outbound[p], outbound'[p], Marker)
    BY <1>0, <1>9, CloseQueueFrames
  <2>2. Marker.id <= nextId
    BY <1>1, Constants DEF Marker
  <2>3. \A q \in Sides : \A k \in DOMAIN outbound'[q] : outbound'[q][k].id <= nextId
    BY <1>0, <2>1, <2>2 DEF Known
  <2> QED BY <1>0, <1>9, <2>3 DEF CloseQueue, Known
<1>10. ASSUME NEW p \in Sides, NEW i \in Ids, Send(p, i) PROVE Known'
  <2>1. i <= nextId
    <3>1. ~(i > nextId)
      BY <1>0, <1>1, <1>10 DEF Send, Known
    <3> QED BY <1>1, <3>1, Constants
  <2>2. \A q \in Sides, j \in Ids : j > nextId => sender'[q][j] = sender[q][j]
    BY <1>1, <1>10, <2>1, Constants DEF Send
  <2> QED BY <1>0, <1>10, <2>2 DEF Send, Known
<1>11. ASSUME NEW p \in Sides, NEW i \in Ids, Enqueue(p, i) PROVE Known'
  <2>1. /\ \A q \in Sides : q # p => outbound'[q] = outbound[q]
        /\ Appends(outbound[p], outbound'[p], Frame(i, sent[p][i] + 1))
    BY <1>0, <1>11, EnqueueFrames
  <2>2. Frame(i, sent[p][i] + 1).id <= nextId
    <3>1. ~(i > nextId)
      BY <1>0, <1>11 DEF Enqueue, Known
    <3> QED BY <1>1, <3>1, Constants DEF Frame
  <2>3. \A q \in Sides : \A k \in DOMAIN outbound'[q] : outbound'[q][k].id <= nextId
    BY <1>0, <2>1, <2>2 DEF Known
  <2>4. \A q \in Sides, j \in Ids : sender'[q][j] = "idle" \/ sender'[q][j] = sender[q][j]
    BY <1>1, <1>11 DEF Enqueue
  <2> QED BY <1>0, <1>11, <2>3, <2>4 DEF Enqueue, Known
<1>12. ASSUME NEW p \in Sides, NEW i \in Ids, SendClosed(p, i) PROVE Known'
  BY <1>0, <1>1, <1>12 DEF SendClosed, Known
<1>13. ASSUME NEW p \in Sides, NEW i \in Ids, CloseOpened(p, i) PROVE Known'
  <2>1. i <= nextId
    <3>1. ~(i > nextId)
      BY <1>0, <1>1, <1>13 DEF CloseOpened, Known
    <3> QED BY <1>1, <3>1, Constants
  <2>2. \A q \in Sides, j \in Ids : j > nextId => closer'[q][j] = closer[q][j]
    BY <1>1, <1>13, <2>1, Constants DEF CloseOpened
  <2> QED BY <1>0, <1>13, <2>2 DEF CloseOpened, Known
<1>14. ASSUME NEW p \in Sides, NEW i \in Ids, CloseFin(p, i) PROVE Known'
  <2>1. i <= nextId
    <3>1. ~(i > nextId)
      BY <1>0, <1>14 DEF CloseFin, Known
    <3> QED BY <1>1, <3>1, Constants
  <2>2. \A q \in Sides : \A k \in DOMAIN outbound'[q] : outbound'[q][k].id <= nextId
    <3>1. CASE outbound' # outbound
      <4>1. /\ \A q \in Sides : q # p => outbound'[q] = outbound[q]
            /\ Appends(outbound[p], outbound'[p], Frame(i, Fin))
        BY <1>0, <1>14, <3>1, CloseFinFrames
      <4>2. Frame(i, Fin).id <= nextId
        BY <2>1 DEF Frame
      <4> QED BY <1>0, <4>1, <4>2 DEF Known
    <3>2. CASE outbound' = outbound
      BY <1>0, <3>2 DEF Known
    <3> QED BY <3>1, <3>2
  <2> QED BY <1>0, <1>1, <1>14, <2>1, <2>2, Constants DEF CloseFin, Known
<1>15. ASSUME NEW p \in Sides, NEW i \in Ids, ClosePeerStream(p, i) PROVE Known'
  <2>1. i <= nextId
    <3>1. ~(i > nextId)
      BY <1>0, <1>1, <1>15 DEF ClosePeerStream, Known
    <3> QED BY <1>1, <3>1, Constants
  <2>2. \A q \in Sides, j \in Ids : j > nextId => closer'[q][j] = closer[q][j]
    BY <1>1, <1>15, <2>1, Constants DEF ClosePeerStream
  <2> QED BY <1>0, <1>15, <2>2 DEF ClosePeerStream, Known
<1>16. ASSUME NEW p \in Sides, NEW i \in Ids, CloseRemove(p, i) PROVE Known'
  <2>1. i <= nextId
    <3>1. ~(i > nextId)
      BY <1>0, <1>1, <1>16 DEF CloseRemove, Known
    <3> QED BY <1>1, <3>1, Constants
  <2>2. \A q \in Sides, j \in Ids : j > nextId => closer'[q][j] = closer[q][j]
    BY <1>1, <1>16, <2>1, Constants DEF CloseRemove
  <2> QED BY <1>0, <1>16, <2>2 DEF CloseRemove, Known
<1> QED
  BY <1>2, <1>3, <1>4, <1>5, <1>6, <1>7, <1>8, <1>9, <1>10, <1>11, <1>12, <1>13, <1>14, <1>15,
     <1>16 DEF Next, AppStep, ReaderStep, WriterStep, CloseStep, StreamStep

(* A message whose stream is not open opens one only if it never was. *)
LEMMA NotReopened ==
    ASSUME TableInv, NEW p \in Sides, ReadMessage(p), Head(wire[p]).id \notin open[p],
           ~KnownClosed(p, Head(wire[p]).id)
    PROVE  opened[p][Head(wire[p]).id] = 0
<1> DEFINE i == Head(wire[p]).id
<1>1. 1 \in DOMAIN wire[p] /\ Head(wire[p]) = wire[p][1]
  BY ReadFrames DEF TableInv, ReadMessage
<1>2. i \in Ids /\ i <= nextId
  BY <1>1 DEF TableInv, Framed, Frames, Known
<1>3. p = "server"
  BY <1>2 DEF Sides, KnownClosed, OpenedStream
<1>4. ~closed["server"] /\ rpc["server"] = "read" /\ i \notin reserved["server"]
  BY <1>3 DEF ReadMessage, CanRegister, ReadFrame, KnownClosed
<1>5. opened["server"][i] # 1
  BY <1>1, <1>2, <1>3, <1>4 DEF TableInv, FinsPass, FinPassed, Reads
<1>6. opened["server"][i] \in Nat /\ opened["server"][i] <= 1
  BY <1>2, <1>3 DEF TableInv, Tabled, NeverReopened, TypeOK, EachStream
<1> QED BY <1>3, <1>5, <1>6

(* The table opens and releases every stream once. *)
LEMMA NextTabled ==
    ASSUME TableInv, Next
    PROVE  Tabled'
<1> USE DEF connVars, outVars, tableVars, readerVars, queueVars, streamVars, appVars, netVars
<1>0. /\ Tabled
      /\ TypeOK
      /\ Framed
      /\ Known
  BY DEF TableInv
<1>1. /\ open \in [Sides -> SUBSET Ids]
      /\ opened \in [Sides -> [Ids -> Nat]]
      /\ released \in [Sides -> [Ids -> Nat]]
      /\ swept \in [Sides -> BOOLEAN]
      /\ closed \in [Sides -> BOOLEAN]
      /\ nextId \in 0..NStreams
  BY DEF TableInv, TypeOK, Each, EachStream
<1>2. CASE Break
  BY <1>0, <1>2 DEF Tabled, ReleasedOnce, NeverReopened, Break
<1>3. CASE \E p \in Sides : ReadFin(p) \/ Push(p) \/ WriterEnd(p) \/ CloseQueue(p) \/
                            CloseWrite(p)
  BY <1>0, <1>3
     DEF Tabled, ReleasedOnce, NeverReopened, ReadFin, Push, WriterEnd, CloseQueue, CloseWrite
<1>4. CASE \E p \in Sides, i \in Ids : Send(p, i) \/ Enqueue(p, i) \/ SendClosed(p, i) \/
                                       CloseOpened(p, i) \/ CloseFin(p, i) \/
                                       ClosePeerStream(p, i) \/ Recv(p, i) \/
                                       DecodeTake(p, i) \/ Dispatch(p, i) \/ DecodeEnd(p, i)
                                       \/ DrainFin(p, i)
  BY <1>0, <1>4
     DEF Tabled, ReleasedOnce, NeverReopened, Send, Enqueue, SendClosed, CloseOpened, CloseFin,
         ClosePeerStream, Recv, DecodeTake, Dispatch, DecodeEnd, DrainFin
<1>5. CASE NewStream
  <2>1. "client" \in Sides /\ nextId + 1 \in Ids /\ opened["client"][nextId + 1] = 0
    BY <1>0, <1>1, <1>5, Constants DEF NewStream, Sides, Ids, Known
  <2>2. nextId + 1 \notin open["client"] /\ released["client"][nextId + 1] = 0
    BY <1>0, <1>1, <2>1 DEF Tabled, ReleasedOnce
  <2>3. CASE CanRegister("client")
    <3>1. Register("client", nextId + 1) /\ UNCHANGED <<released, swept, closed>> /\ ~swept["client"]
      BY <1>0, <1>5, <2>1, <2>3 DEF NewStream, CanRegister, Tabled
    <3>2. \A q \in Sides, j \in Ids :
             /\ opened'[q][j] = released'[q][j] + (IF j \in open'[q] THEN 1 ELSE 0)
             /\ opened'[q][j] <= 1
      BY <1>0, <2>1, <2>2, <3>1, RegisterFacts DEF Tabled, ReleasedOnce, NeverReopened
    <3>3. \A q \in Sides : swept'[q] => open'[q] = {}
      BY <1>0, <1>1, <3>1 DEF Tabled, ReleasedOnce, Register
    <3> QED BY <1>0, <3>1, <3>2, <3>3 DEF Tabled, ReleasedOnce, NeverReopened
  <2>4. CASE ~CanRegister("client")
    BY <1>0, <1>5, <2>4 DEF NewStream, Tabled, ReleasedOnce, NeverReopened
  <2> QED BY <2>3, <2>4
<1>6. ASSUME NEW p \in Sides, CloseAllStreams(p) PROVE Tabled'
  BY <1>0, <1>1, <1>6 DEF CloseAllStreams, Tabled, ReleasedOnce, NeverReopened
<1>7. ASSUME NEW p \in Sides, ReadMessage(p) PROVE Tabled'
  <2> DEFINE i == Head(wire[p]).id
  <2>1. i \in Ids
    BY <1>0, <1>7, ReadFrames DEF ReadMessage, Framed, Frames
  <2>2. CASE Register(p, i) /\ i \notin open[p] /\ ~KnownClosed(p, i)
    <3>1. opened[p][i] = 0
      BY <1>7, <2>2, NotReopened
    <3>2. ~swept[p]
      BY <1>0, <1>7 DEF ReadMessage, CanRegister, Tabled
    <3>3. released[p][i] = 0 /\ UNCHANGED <<released, swept, closed>>
      BY <1>0, <1>1, <1>7, <2>1, <2>2, <3>1 DEF ReadMessage, Tabled, ReleasedOnce
    <3>4. \A q \in Sides, j \in Ids :
             /\ opened'[q][j] = released'[q][j] + (IF j \in open'[q] THEN 1 ELSE 0)
             /\ opened'[q][j] <= 1
      BY <1>0, <2>1, <2>2, <3>1, <3>3, RegisterFacts DEF Tabled, ReleasedOnce, NeverReopened
    <3>5. \A q \in Sides : swept'[q] => open'[q] = {}
      BY <1>0, <1>1, <2>2, <3>2, <3>3 DEF Tabled, ReleasedOnce, Register
    <3> QED BY <1>0, <3>3, <3>4, <3>5 DEF Tabled, ReleasedOnce, NeverReopened
  <2>3. CASE UNCHANGED <<open, opened>>
    BY <1>0, <1>7, <2>3 DEF ReadMessage, Tabled, ReleasedOnce, NeverReopened
  <2> QED BY <1>7, <2>2, <2>3 DEF ReadMessage
<1>8. ASSUME NEW p \in Sides, ReadError(p) PROVE Tabled'
  <2>1. (MarkClosed(p) \/ UNCHANGED closed) /\ UNCHANGED <<open, opened, released, swept>>
    BY <1>8 DEF ReadError
  <2>2. \A q \in Sides : closed[q] => closed'[q]
    BY <1>0, <2>1, MarkClosedFacts
  <2> QED BY <1>0, <2>1, <2>2 DEF Tabled, ReleasedOnce, NeverReopened
<1>9. ASSUME NEW p \in Sides, ReadEOF(p) PROVE Tabled'
  <2>1. (MarkClosed(p) \/ UNCHANGED closed) /\ UNCHANGED <<open, opened, released, swept>>
    BY <1>9 DEF ReadEOF
  <2>2. \A q \in Sides : closed[q] => closed'[q]
    BY <1>0, <2>1, MarkClosedFacts
  <2> QED BY <1>0, <2>1, <2>2 DEF Tabled, ReleasedOnce, NeverReopened
<1>10. ASSUME NEW p \in Sides, DrainEnd(p) PROVE Tabled'
  <2>1. (MarkClosed(p) \/ UNCHANGED closed) /\ UNCHANGED <<open, opened, released, swept>>
    BY <1>10 DEF DrainEnd
  <2>2. \A q \in Sides : closed[q] => closed'[q]
    BY <1>0, <2>1, MarkClosedFacts
  <2> QED BY <1>0, <2>1, <2>2 DEF Tabled, ReleasedOnce, NeverReopened
<1>11. ASSUME NEW p \in Sides, Write(p) PROVE Tabled'
  <2>1. (MarkClosed(p) \/ UNCHANGED closed) /\ UNCHANGED <<open, opened, released, swept>>
    BY <1>11 DEF Write
  <2>2. \A q \in Sides : closed[q] => closed'[q]
    BY <1>0, <2>1, MarkClosedFacts
  <2> QED BY <1>0, <2>1, <2>2 DEF Tabled, ReleasedOnce, NeverReopened
<1>12. ASSUME NEW p \in Sides, Close(p) PROVE Tabled'
  <2>1. (MarkClosed(p) \/ UNCHANGED closed) /\ UNCHANGED <<open, opened, released, swept>>
    BY <1>12 DEF Close
  <2>2. \A q \in Sides : closed[q] => closed'[q]
    BY <1>0, <2>1, MarkClosedFacts
  <2> QED BY <1>0, <2>1, <2>2 DEF Tabled, ReleasedOnce, NeverReopened
<1>13. ASSUME NEW p \in Sides, CloseEnd(p) PROVE Tabled'
  <2>1. (MarkClosed(p) \/ UNCHANGED closed) /\ UNCHANGED <<open, opened, released, swept>>
    BY <1>13 DEF CloseEnd
  <2>2. \A q \in Sides : closed[q] => closed'[q]
    BY <1>0, <2>1, MarkClosedFacts
  <2> QED BY <1>0, <2>1, <2>2 DEF Tabled, ReleasedOnce, NeverReopened
<1>14. ASSUME NEW p \in Sides, NEW i \in Ids, CloseRemove(p, i) PROVE Tabled'
  <2>1. RemoveStream(p, i) /\ UNCHANGED <<opened, swept, closed>>
    BY <1>14 DEF CloseRemove
  <2>2. \A q \in Sides, j \in Ids :
           /\ opened'[q][j] = released'[q][j] + (IF j \in open'[q] THEN 1 ELSE 0)
           /\ opened'[q][j] <= 1
    <3>1. \A q \in Sides, j \in Ids : released[q][j] \in Nat
      BY <1>1
    <3> QED BY <1>0, <2>1, <3>1, RemoveFacts DEF Tabled, ReleasedOnce, NeverReopened
  <2>3. \A q \in Sides : swept'[q] => open'[q] = {}
    <3>1. \A q \in Sides : open'[q] \subseteq open[q]
      BY <1>1, <2>1 DEF RemoveStream
    <3> QED BY <1>0, <2>1, <3>1 DEF Tabled, ReleasedOnce
  <2> QED BY <1>0, <2>1, <2>2, <2>3 DEF Tabled, ReleasedOnce, NeverReopened
<1>15. ASSUME NEW p \in Sides, NEW i \in Ids, DecodeFin(p, i) PROVE Tabled'
  <2>1. RemoveStream(p, i) /\ UNCHANGED <<opened, swept, closed>>
    BY <1>15 DEF DecodeFin
  <2>2. \A q \in Sides, j \in Ids :
           /\ opened'[q][j] = released'[q][j] + (IF j \in open'[q] THEN 1 ELSE 0)
           /\ opened'[q][j] <= 1
    <3>1. \A q \in Sides, j \in Ids : released[q][j] \in Nat
      BY <1>1
    <3> QED BY <1>0, <2>1, <3>1, RemoveFacts DEF Tabled, ReleasedOnce, NeverReopened
  <2>3. \A q \in Sides : swept'[q] => open'[q] = {}
    <3>1. \A q \in Sides : open'[q] \subseteq open[q]
      BY <1>1, <2>1 DEF RemoveStream
    <3> QED BY <1>0, <2>1, <3>1 DEF Tabled, ReleasedOnce
  <2> QED BY <1>0, <2>1, <2>2, <2>3 DEF Tabled, ReleasedOnce, NeverReopened
<1> QED
  BY <1>2, <1>3, <1>4, <1>5, <1>6, <1>7, <1>8, <1>9, <1>10, <1>11, <1>12, <1>13, <1>14, <1>15
     DEF Next, AppStep, ReaderStep, WriterStep, CloseStep, StreamStep

(* The reader ends with the connection. *)
LEMMA NextStaged ==
    ASSUME TableInv, Next
    PROVE  Staged'
<1> USE DEF connVars, outVars, tableVars, readerVars, queueVars, streamVars, appVars, netVars
<1>0. /\ Staged
      /\ TypeOK
      /\ Framed
  BY DEF TableInv
<1>1. /\ closing \in [Sides -> BOOLEAN]
      /\ closed \in [Sides -> BOOLEAN]
      /\ rpc \in [Sides -> {"read", "push", "drain", "end"}]
      /\ nextId \in 0..NStreams
      /\ opened \in [Sides -> [Ids -> Nat]]
  BY DEF TableInv, TypeOK, Each, EachStream
<1>2. CASE Break
  BY <1>0, <1>2 DEF Staged, Break
<1>3. CASE \E p \in Sides : CloseAllStreams(p) \/ WriterEnd(p) \/ CloseQueue(p) \/
                            CloseWrite(p)
  BY <1>0, <1>3 DEF Staged, CloseAllStreams, WriterEnd, CloseQueue, CloseWrite
<1>4. CASE \E p \in Sides, i \in Ids : Send(p, i) \/ Enqueue(p, i) \/ SendClosed(p, i) \/
                                       CloseOpened(p, i) \/ CloseFin(p, i) \/
                                       ClosePeerStream(p, i) \/ CloseRemove(p, i) \/
                                       Recv(p, i) \/ DecodeTake(p, i) \/ Dispatch(p, i) \/
                                       DecodeFin(p, i) \/ DecodeEnd(p, i) \/ DrainFin(p, i)
  BY <1>0, <1>4
     DEF Staged, Send, Enqueue, SendClosed, CloseOpened, CloseFin, ClosePeerStream, CloseRemove,
         Recv, DecodeTake, Dispatch, DecodeFin, DecodeEnd, DrainFin
<1>5. CASE NewStream
  <2>1. "client" \in Sides /\ nextId + 1 \in Ids /\ nextId' = nextId + 1 /\ nextId \in Nat
    BY <1>1, <1>5, Constants DEF NewStream, Sides, Ids
  <2>2. \A j \in Ids : j <= nextId' => j <= nextId \/ j = nextId + 1
    BY <2>1, Constants
  <2>3. opened["client"][nextId + 1] \in Nat
    BY <1>1, <2>1
  <2>4. ~closed["client"] => opened'["client"][nextId + 1] # 0
    BY <1>0, <1>5, <2>1, <2>3, RegisterFacts DEF NewStream, CanRegister
  <2>5. \A j \in Ids : j # nextId + 1 => opened'["client"][j] = opened["client"][j]
    BY <1>0, <1>5, <2>1, RegisterFacts DEF NewStream
  <2> QED BY <1>0, <1>5, <2>1, <2>2, <2>4, <2>5 DEF NewStream, Staged
<1>6. ASSUME NEW p \in Sides, ReadFin(p) PROVE Staged'
  BY <1>0, <1>1, <1>6 DEF ReadFin, ReadFrame, Staged
<1>7. ASSUME NEW p \in Sides, ReadMessage(p) PROVE Staged'
  <2>1. Head(wire[p]).id \in Ids /\ "client" \in Sides
    BY <1>0, <1>7, ReadFrames DEF ReadMessage, Framed, Frames, Sides
  <2>2. \A j \in Ids : opened'["client"][j] = 0 => opened["client"][j] = 0
    <3>1. CASE Register(p, Head(wire[p]).id)
      <4>1. opened[p][Head(wire[p]).id] \in Nat
        BY <1>1, <2>1
      <4> QED BY <1>0, <2>1, <3>1, <4>1, RegisterFacts
    <3>2. CASE UNCHANGED opened
      BY <3>2
    <3> QED BY <1>7, <3>1, <3>2 DEF ReadMessage
  <2> QED BY <1>0, <1>1, <1>7, <2>2 DEF ReadMessage, Staged
<1>8. ASSUME NEW p \in Sides, Push(p) PROVE Staged'
  BY <1>0, <1>1, <1>8 DEF Push, GiveUp, Staged
<1>9. ASSUME NEW p \in Sides, ReadError(p) PROVE Staged'
  <2>1. \A q \in Sides : closed[q] => closed'[q]
    BY <1>0, <1>9, MarkClosedFacts DEF ReadError
  <2>2. "client" \in Sides /\ \A q \in Sides : closing[q] => closing'[q]
    BY <1>1, <1>9 DEF ReadError, Sides
  <2>3. /\ \A q \in Sides : q # p => rpc'[q] = rpc[q]
        /\ rpc'[p] = "drain" => closing'[p]
        /\ rpc'[p] = "end" => closed'[p]
    BY <1>0, <1>1, <1>9, MarkClosedFacts DEF ReadError
  <2> QED BY <1>0, <1>9, <2>1, <2>2, <2>3 DEF ReadError, Staged
<1>10. ASSUME NEW p \in Sides, ReadEOF(p) PROVE Staged'
  <2>1. \A q \in Sides : closed[q] => closed'[q]
    BY <1>0, <1>10, MarkClosedFacts DEF ReadEOF
  <2>2. "client" \in Sides /\ \A q \in Sides : closing[q] => closing'[q]
    BY <1>1, <1>10 DEF ReadEOF, Sides
  <2>3. /\ \A q \in Sides : q # p => rpc'[q] = rpc[q]
        /\ rpc'[p] = "drain" => closing'[p]
        /\ rpc'[p] = "end" => closed'[p]
    BY <1>0, <1>1, <1>10, MarkClosedFacts DEF ReadEOF
  <2> QED BY <1>0, <1>10, <2>1, <2>2, <2>3 DEF ReadEOF, Staged
<1>11. ASSUME NEW p \in Sides, DrainEnd(p) PROVE Staged'
  <2>1. \A q \in Sides : closed[q] => closed'[q]
    BY <1>0, <1>11, MarkClosedFacts DEF DrainEnd
  <2>2. "client" \in Sides /\ \A q \in Sides : closing[q] => closing'[q]
    BY <1>1, <1>11 DEF DrainEnd, Sides
  <2>3. /\ \A q \in Sides : q # p => rpc'[q] = rpc[q]
        /\ rpc'[p] = "drain" => closing'[p]
        /\ rpc'[p] = "end" => closed'[p]
    BY <1>0, <1>1, <1>11, MarkClosedFacts DEF DrainEnd
  <2> QED BY <1>0, <1>11, <2>1, <2>2, <2>3 DEF DrainEnd, Staged
<1>12. ASSUME NEW p \in Sides, Write(p) PROVE Staged'
  <2>1. \A q \in Sides : closed[q] => closed'[q]
    BY <1>0, <1>12, MarkClosedFacts DEF Write
  <2>2. "client" \in Sides
    BY DEF Sides
  <2>3. \A q \in Sides : closing[q] => closing'[q]
    BY <1>1, <1>12 DEF Write
  <2> QED BY <1>0, <1>12, <2>1, <2>2, <2>3 DEF Write, Staged
<1>13. ASSUME NEW p \in Sides, Close(p) PROVE Staged'
  <2>1. \A q \in Sides : closed[q] => closed'[q]
    BY <1>0, <1>13, MarkClosedFacts DEF Close
  <2>2. "client" \in Sides
    BY DEF Sides
  <2>3. \A q \in Sides : closing[q] => closing'[q]
    BY <1>1, <1>13 DEF Close
  <2> QED BY <1>0, <1>13, <2>1, <2>2, <2>3 DEF Close, Staged
<1>14. ASSUME NEW p \in Sides, CloseEnd(p) PROVE Staged'
  <2>1. \A q \in Sides : closed[q] => closed'[q]
    BY <1>0, <1>14, MarkClosedFacts DEF CloseEnd
  <2>2. "client" \in Sides
    BY DEF Sides
  <2>3. \A q \in Sides : closing[q] => closing'[q]
    BY <1>1, <1>14 DEF CloseEnd
  <2> QED BY <1>0, <1>14, <2>1, <2>2, <2>3 DEF CloseEnd, Staged
<1> QED
  BY <1>2, <1>3, <1>4, <1>5, <1>6, <1>7, <1>8, <1>9, <1>10, <1>11, <1>12, <1>13, <1>14
     DEF Next, AppStep, ReaderStep, WriterStep, CloseStep, StreamStep

(* Nothing happens on a stream before it is opened. *)
LEMMA NextUnborn ==
    ASSUME TableInv, Next
    PROVE  Unborn'
<1> USE DEF connVars, outVars, tableVars, readerVars, queueVars, streamVars, appVars, netVars
<1>0. /\ Unborn
      /\ TypeOK
      /\ Framed
      /\ Tabled
  BY DEF TableInv
<1>1. /\ opened \in [Sides -> [Ids -> Nat]]
      /\ decoder \in [Sides -> [Ids -> {"none", "select", "dispatch", "fin", "end"}]]
      /\ incoming \in [Sides -> [Ids -> Seq(Numbers \cup {Fin})]]
      /\ toFin \in [Sides -> SUBSET Ids]
      /\ rpc \in [Sides -> {"read", "push", "drain", "end"}]
      /\ rframe \in [Sides -> [id : 0..NStreams, msg : Nat]]
      /\ closer \in [Sides -> [Ids -> {"idle", "queue", "remove", "done"}]]
      /\ open \in [Sides -> SUBSET Ids]
      /\ nextId \in 0..NStreams
      /\ released \in [Sides -> [Ids -> Nat]]
  BY DEF TableInv, TypeOK, Each, EachStream
<1>2. CASE Break
  BY <1>0, <1>2 DEF Unborn, Pushing, Break
<1>3. CASE \E p \in Sides : CloseAllStreams(p) \/ Write(p) \/ WriterEnd(p) \/ Close(p) \/
                            CloseQueue(p) \/ CloseWrite(p) \/ CloseEnd(p)
  BY <1>0, <1>3
     DEF Unborn, Pushing, CloseAllStreams, Write, WriterEnd, Close, CloseQueue, CloseWrite,
         CloseEnd
<1>4. CASE \E p \in Sides, i \in Ids : Send(p, i) \/ Enqueue(p, i) \/ SendClosed(p, i) \/
                                       Recv(p, i)
  BY <1>0, <1>4 DEF Unborn, Pushing, Send, Enqueue, SendClosed, Recv
<1>5. CASE NewStream
  <2>1. "client" \in Sides /\ nextId + 1 \in Ids
    BY <1>1, <1>5, Constants DEF NewStream, Sides, Ids
  <2>2. opened["client"][nextId + 1] \in Nat
    BY <1>1, <2>1
  <2>3. CASE CanRegister("client")
    BY <1>0, <1>5, <2>1, <2>2, <2>3, RegisterFacts DEF NewStream, Unborn, Pushing
  <2>4. CASE ~CanRegister("client")
    BY <1>0, <1>5, <2>4 DEF NewStream, Unborn, Pushing
  <2> QED BY <2>3, <2>4
<1>6. ASSUME NEW p \in Sides, ReadFin(p) PROVE Unborn'
  <2>1. open[p] \subseteq Ids /\ \A j \in open[p] : opened[p][j] # 0
    BY <1>0, <1>1 DEF Tabled, ReleasedOnce
  <2>2. \A q \in Sides, j \in Ids : Pushing(q, j)' => Pushing(q, j) \/ (q = p /\ j \in open[p])
    BY <1>1, <1>6 DEF ReadFin, Pushing
  <2> QED BY <1>0, <1>6, <2>1, <2>2 DEF ReadFin, Unborn
<1>7. ASSUME NEW p \in Sides, ReadMessage(p) PROVE Unborn'
  <2> DEFINE i == Head(wire[p]).id
  <2>1. i \in Ids
    BY <1>0, <1>7, ReadFrames DEF ReadMessage, Framed, Frames
  <2>2. open[p] \subseteq Ids /\ \A j \in open[p] : opened[p][j] # 0
    BY <1>0, <1>1 DEF Tabled, ReleasedOnce
  <2>3. \A q \in Sides, j \in Ids : opened'[q][j] = 0 => opened[q][j] = 0 /\ decoder'[q][j] = decoder[q][j]
    <3>1. CASE Register(p, i)
      <4>1. opened[p][i] \in Nat
        BY <1>1, <2>1
      <4> QED BY <1>0, <2>1, <3>1, <4>1, RegisterFacts
    <3>2. CASE UNCHANGED <<opened, decoder>>
      BY <3>2
    <3> QED BY <1>7, <3>1, <3>2 DEF ReadMessage
  <2>4. \A q \in Sides, j \in Ids :
           Pushing(q, j)' => Pushing(q, j) \/ (q = p /\ j = i /\ (i \in open[p] \/ Register(p, i)))
    BY <1>1, <1>7 DEF ReadMessage, Pushing, ReadFrame
  <2>5. Register(p, i) => opened'[p][i] # 0
    <3>1. opened[p][i] \in Nat
      BY <1>1, <2>1
    <3> QED BY <1>0, <2>1, <3>1, RegisterFacts
  <2> QED BY <1>0, <1>7, <2>2, <2>3, <2>4, <2>5 DEF ReadMessage, Unborn
<1>8. ASSUME NEW p \in Sides, Push(p) PROVE Unborn'
  <2>1. rframe[p].id \in Ids /\ opened[p][rframe[p].id] # 0
    BY <1>0, <1>1, <1>8 DEF Push, Unborn, Pushing, Framed, Frames
  <2>2. \A q \in Sides, j \in Ids : q # p \/ j # rframe[p].id => incoming'[q][j] = incoming[q][j]
    <3>1. incoming \in [Sides -> [Ids -> Seq(Numbers \cup {Fin})]]
      BY <1>1
    <3>2. \/ incoming' = incoming
          \/ incoming' = [incoming EXCEPT ![p][rframe[p].id] =
                                       Append(incoming[p][rframe[p].id], rframe[p].msg)]
      BY <1>8 DEF Push
    <3> HIDE DEF Appends, Takes
    <3> QED BY <2>1, <3>1, <3>2
  <2>3. \A q \in Sides, j \in Ids : Pushing(q, j)' => Pushing(q, j)
    BY <1>1, <1>8 DEF Push, Pushing
  <2> QED BY <1>0, <1>8, <2>1, <2>2, <2>3 DEF Push, Unborn
<1>9. ASSUME NEW p \in Sides, ReadError(p) PROVE Unborn'
  <2>1. \A q \in Sides, j \in Ids : Pushing(q, j)' => Pushing(q, j)
    BY <1>1, <1>9 DEF ReadError, Pushing
  <2> QED BY <1>0, <1>9, <2>1 DEF ReadError, Unborn
<1>10. ASSUME NEW p \in Sides, ReadEOF(p) PROVE Unborn'
  <2>1. open[p] \subseteq Ids /\ \A j \in open[p] : opened[p][j] # 0
    BY <1>0, <1>1 DEF Tabled, ReleasedOnce
  <2>2. \A q \in Sides, j \in Ids : /\ Pushing(q, j)' => Pushing(q, j)
                                    /\ j \in toFin'[q] => j \in toFin[q] \/ (q = p /\ j \in open[p])
    BY <1>1, <1>10 DEF ReadEOF, Pushing, StreamsToDrain
  <2> QED BY <1>0, <1>10, <2>1, <2>2 DEF ReadEOF, Unborn
<1>11. ASSUME NEW p \in Sides, DrainEnd(p) PROVE Unborn'
  <2>1. \A q \in Sides, j \in Ids : Pushing(q, j)' => Pushing(q, j)
    BY <1>1, <1>11 DEF DrainEnd, Pushing
  <2> QED BY <1>0, <1>11, <2>1 DEF DrainEnd, Unborn
<1>12. ASSUME NEW p \in Sides, NEW i \in Ids, CloseOpened(p, i) PROVE Unborn'
  <2>1. opened[p][i] # 0
    BY <1>0, <1>1, <1>12 DEF CloseOpened, Unborn
  <2>2. \A q \in Sides, j \in Ids : q # p \/ j # i => closer'[q][j] = closer[q][j]
    BY <1>1, <1>12 DEF CloseOpened
  <2> QED BY <1>0, <1>12, <2>1, <2>2 DEF CloseOpened, Unborn, Pushing
<1>13. ASSUME NEW p \in Sides, NEW i \in Ids, CloseFin(p, i) PROVE Unborn'
  <2>1. opened[p][i] # 0
    BY <1>0, <1>1, <1>13 DEF CloseFin, Unborn
  <2>2. \A q \in Sides, j \in Ids : q # p \/ j # i => closer'[q][j] = closer[q][j]
    BY <1>1, <1>13 DEF CloseFin
  <2> QED BY <1>0, <1>13, <2>1, <2>2 DEF CloseFin, Unborn, Pushing
<1>14. ASSUME NEW p \in Sides, NEW i \in Ids, ClosePeerStream(p, i) PROVE Unborn'
  <2>1. opened[p][i] # 0
    BY <1>0, <1>1, <1>14 DEF ClosePeerStream, Unborn
  <2>2. \A q \in Sides, j \in Ids : q # p \/ j # i => closer'[q][j] = closer[q][j]
    BY <1>1, <1>14 DEF ClosePeerStream
  <2> QED BY <1>0, <1>14, <2>1, <2>2 DEF ClosePeerStream, Unborn, Pushing
<1>15. ASSUME NEW p \in Sides, NEW i \in Ids, CloseRemove(p, i) PROVE Unborn'
  <2>1. opened[p][i] # 0
    BY <1>0, <1>1, <1>15 DEF CloseRemove, Unborn
  <2>2. \A q \in Sides, j \in Ids : q # p \/ j # i => closer'[q][j] = closer[q][j]
    BY <1>1, <1>15 DEF CloseRemove
  <2> QED BY <1>0, <1>15, <2>1, <2>2 DEF CloseRemove, Unborn, Pushing
<1>16. ASSUME NEW p \in Sides, NEW i \in Ids, DecodeTake(p, i) PROVE Unborn'
  <2>1. opened[p][i] # 0
    BY <1>0, <1>16 DEF DecodeTake, Unborn
  <2>2. \A q \in Sides, j \in Ids : q # p \/ j # i =>
           incoming'[q][j] = incoming[q][j] /\ decoder'[q][j] = decoder[q][j]
    BY <1>1, <1>16 DEF DecodeTake
  <2> QED BY <1>0, <1>16, <2>1, <2>2 DEF DecodeTake, Unborn, Pushing
<1>17. ASSUME NEW p \in Sides, NEW i \in Ids, Dispatch(p, i) PROVE Unborn'
  <2>1. opened[p][i] # 0
    BY <1>0, <1>17 DEF Dispatch, Unborn
  <2>2. \A q \in Sides, j \in Ids : q # p \/ j # i =>
           incoming'[q][j] = incoming[q][j] /\ decoder'[q][j] = decoder[q][j]
    BY <1>1, <1>17 DEF Dispatch
  <2> QED BY <1>0, <1>17, <2>1, <2>2 DEF Dispatch, Unborn, Pushing
<1>18. ASSUME NEW p \in Sides, NEW i \in Ids, DecodeFin(p, i) PROVE Unborn'
  <2>1. opened[p][i] # 0
    BY <1>0, <1>18 DEF DecodeFin, Unborn
  <2>2. \A q \in Sides, j \in Ids : q # p \/ j # i =>
           incoming'[q][j] = incoming[q][j] /\ decoder'[q][j] = decoder[q][j]
    BY <1>1, <1>18 DEF DecodeFin
  <2> QED BY <1>0, <1>18, <2>1, <2>2 DEF DecodeFin, Unborn, Pushing
<1>19. ASSUME NEW p \in Sides, NEW i \in Ids, DecodeEnd(p, i) PROVE Unborn'
  <2>1. opened[p][i] # 0
    BY <1>0, <1>19 DEF DecodeEnd, Unborn
  <2>2. \A q \in Sides, j \in Ids : q # p \/ j # i =>
           incoming'[q][j] = incoming[q][j] /\ decoder'[q][j] = decoder[q][j]
    BY <1>1, <1>19 DEF DecodeEnd
  <2> QED BY <1>0, <1>19, <2>1, <2>2 DEF DecodeEnd, Unborn, Pushing
<1>20. ASSUME NEW p \in Sides, NEW i \in Ids, DrainFin(p, i) PROVE Unborn'
  <2>1. opened[p][i] # 0
    BY <1>0, <1>20 DEF DrainFin, Unborn
  <2>2. \A q \in Sides, j \in Ids : /\ q # p \/ j # i => incoming'[q][j] = incoming[q][j]
                                    /\ j \in toFin'[q] => j \in toFin[q]
    <3>1. \/ incoming' = incoming
          \/ incoming' = [incoming EXCEPT ![p][i] = Append(incoming[p][i], Fin)]
      BY <1>20 DEF DrainFin
    <3>2. toFin' = [toFin EXCEPT ![p] = toFin[p] \ {i}]
      BY <1>20 DEF DrainFin
    <3>3. incoming \in [Sides -> [Ids -> Seq(Numbers \cup {Fin})]] /\ toFin \in [Sides -> SUBSET Ids]
      BY <1>1
    <3> HIDE DEF Appends, Takes
    <3>4. \A q \in Sides, j \in Ids : q # p \/ j # i => incoming'[q][j] = incoming[q][j]
      BY <3>1, <3>3
    <3>5. \A q \in Sides, j \in Ids : j \in toFin'[q] => j \in toFin[q]
      BY <3>2, <3>3
    <3> QED BY <3>4, <3>5
  <2> QED BY <1>0, <1>20, <2>1, <2>2 DEF DrainFin, Unborn, Pushing
<1> QED
  BY <1>2, <1>3, <1>4, <1>5, <1>6, <1>7, <1>8, <1>9, <1>10, <1>11, <1>12, <1>13, <1>14, <1>15,
     <1>16, <1>17, <1>18, <1>19, <1>20
     DEF Next, AppStep, ReaderStep, WriterStep, CloseStep, StreamStep

(* A stream leaves the table done, and Stream.Close reserves IDs. *)
LEMMA NextLeft ==
    ASSUME TableInv, Next
    PROVE  Left'
<1> USE DEF connVars, outVars, tableVars, readerVars, queueVars, streamVars, appVars, netVars
<1>0. /\ Left
      /\ TypeOK
      /\ Framed
  BY DEF TableInv
<1>1. /\ opened \in [Sides -> [Ids -> Nat]]
      /\ open \in [Sides -> SUBSET Ids]
      /\ done \in [Sides -> [Ids -> BOOLEAN]]
      /\ reserved \in [Sides -> SUBSET Ids]
      /\ closer \in [Sides -> [Ids -> {"idle", "queue", "remove", "done"}]]
      /\ nextId \in 0..NStreams
  BY DEF TableInv, TypeOK, Each, EachStream
<1>2. CASE Break
  BY <1>0, <1>2 DEF Left, Break
<1>3. CASE \E p \in Sides : Push(p) \/ ReadError(p) \/ ReadEOF(p) \/ DrainEnd(p) \/ Write(p)
                            \/ WriterEnd(p) \/ Close(p) \/ CloseQueue(p) \/ CloseWrite(p) \/
                            CloseEnd(p)
  BY <1>0, <1>3
     DEF Left, Push, ReadError, ReadEOF, DrainEnd, Write, WriterEnd, Close, CloseQueue,
         CloseWrite, CloseEnd
<1>4. CASE \E p \in Sides, i \in Ids : Send(p, i) \/ Enqueue(p, i) \/ SendClosed(p, i) \/
                                       Recv(p, i) \/ DecodeTake(p, i) \/ Dispatch(p, i) \/
                                       DecodeEnd(p, i) \/ DrainFin(p, i)
  BY <1>0, <1>4
     DEF Left, Send, Enqueue, SendClosed, Recv, DecodeTake, Dispatch, DecodeEnd, DrainFin
<1>5. CASE NewStream
  <2>1. "client" \in Sides /\ nextId + 1 \in Ids /\ UNCHANGED <<done, reserved, closer>>
    BY <1>1, <1>5, Constants DEF NewStream, Sides, Ids
  <2>2. \A q \in Sides, j \in Ids :
           opened'[q][j] = 1 /\ j \notin open'[q] => opened[q][j] = 1 /\ j \notin open[q]
    BY <1>0, <1>5, <2>1, RegisterFacts DEF NewStream
  <2> QED BY <1>0, <2>1, <2>2 DEF Left
<1>6. ASSUME NEW p \in Sides, CloseAllStreams(p) PROVE Left'
  <2>1. \A j \in Ids : done'[p][j] <=> done[p][j] \/ j \in open[p]
    BY <1>1, <1>6 DEF CloseAllStreams
  <2>2. \A q \in Sides : q # p => done'[q] = done[q] /\ open'[q] = open[q]
    BY <1>1, <1>6 DEF CloseAllStreams
  <2>3. UNCHANGED <<opened, reserved, closer>>
    BY <1>6 DEF CloseAllStreams
  <2> QED BY <1>0, <2>1, <2>2, <2>3 DEF Left
<1>7. ASSUME NEW p \in Sides, ReadFin(p) PROVE Left'
  BY <1>0, <1>1, <1>7 DEF ReadFin, ReadFrame, Left
<1>8. ASSUME NEW p \in Sides, ReadMessage(p) PROVE Left'
  <2>1. Head(wire[p]).id \in Ids /\ UNCHANGED <<done, reserved, closer>>
    BY <1>0, <1>8, ReadFrames DEF ReadMessage, Framed, Frames
  <2>2. \A q \in Sides, j \in Ids :
           opened'[q][j] = 1 /\ j \notin open'[q] => opened[q][j] = 1 /\ j \notin open[q]
    BY <1>0, <1>8, <2>1, RegisterFacts DEF ReadMessage
  <2> QED BY <1>0, <2>1, <2>2 DEF Left
<1>9. ASSUME NEW p \in Sides, NEW i \in Ids, CloseOpened(p, i) PROVE Left'
  BY <1>0, <1>1, <1>9 DEF CloseOpened, OpenedStream, Accepting, SendFree, Left
<1>10. ASSUME NEW p \in Sides, NEW i \in Ids, CloseFin(p, i) PROVE Left'
  BY <1>0, <1>1, <1>10 DEF CloseFin, OutboundRoom, Left
<1>11. ASSUME NEW p \in Sides, NEW i \in Ids, ClosePeerStream(p, i) PROVE Left'
  BY <1>0, <1>1, <1>11 DEF ClosePeerStream, OpenedStream, Reserve, Left
<1>12. ASSUME NEW p \in Sides, NEW i \in Ids, CloseRemove(p, i) PROVE Left'
  <2>1. RemoveStream(p, i) /\ UNCHANGED <<opened, reserved>>
    BY <1>12 DEF CloseRemove
  <2>2. \A q \in Sides, j \in Ids : opened'[q][j] = 1 /\ j \notin open'[q] => done'[q][j]
    BY <1>0, <2>1, RemoveFacts DEF Left
  <2>3. \A q \in Sides, j \in Ids : closer[q][j] # "idle" => closer'[q][j] # "idle"
    BY <1>1, <1>12 DEF CloseRemove
  <2> QED BY <1>0, <2>1, <2>2, <2>3 DEF Left
<1>13. ASSUME NEW p \in Sides, NEW i \in Ids, DecodeFin(p, i) PROVE Left'
  <2>1. RemoveStream(p, i) /\ UNCHANGED <<opened, reserved, closer>>
    BY <1>13 DEF DecodeFin
  <2>2. \A q \in Sides, j \in Ids : opened'[q][j] = 1 /\ j \notin open'[q] => done'[q][j]
    BY <1>0, <2>1, RemoveFacts DEF Left
  <2> QED BY <1>0, <2>1, <2>2 DEF Left
<1> QED
  BY <1>2, <1>3, <1>4, <1>5, <1>6, <1>7, <1>8, <1>9, <1>10, <1>11, <1>12, <1>13
     DEF Next, AppStep, ReaderStep, WriterStep, CloseStep, StreamStep

(* Stream.Close waits for the Send before it and holds back those after. *)
LEMMA NextClosersShut ==
    ASSUME TableInv, Next
    PROVE  ClosersShut'
<1> USE DEF connVars, outVars, tableVars, readerVars, queueVars, streamVars, appVars, netVars
<1>0. /\ ClosersShut
      /\ TypeOK
      /\ Known
  BY DEF TableInv
<1>1. /\ closer \in [Sides -> [Ids -> {"idle", "queue", "remove", "done"}]]
      /\ sender \in [Sides -> [Ids -> {"idle", "queue"}]]
      /\ shut \in [Sides -> [Ids -> BOOLEAN]]
      /\ nextId \in 0..NStreams
      /\ opened \in [Sides -> [Ids -> Nat]]
  BY DEF TableInv, TypeOK, Each, EachStream
<1>2. CASE NewStream \/ Break
  BY <1>0, <1>2 DEF ClosersShut, NewStream, Break
<1>3. CASE \E p \in Sides : ReadFin(p) \/ ReadMessage(p) \/ Push(p) \/ ReadError(p) \/
                            ReadEOF(p) \/ DrainEnd(p) \/ Write(p) \/ WriterEnd(p) \/
                            Close(p) \/ CloseQueue(p) \/ CloseWrite(p) \/ CloseEnd(p)
  BY <1>0, <1>3
     DEF ClosersShut, ReadFin, ReadMessage, Push, ReadError, ReadEOF, DrainEnd, Write,
         WriterEnd, Close, CloseQueue, CloseWrite, CloseEnd
<1>4. CASE \E p \in Sides, i \in Ids : Recv(p, i) \/ DecodeTake(p, i) \/ Dispatch(p, i) \/
                                       DecodeEnd(p, i) \/ DrainFin(p, i)
  BY <1>0, <1>4 DEF ClosersShut, Recv, DecodeTake, Dispatch, DecodeEnd, DrainFin
<1>5. ASSUME NEW p \in Sides, CloseAllStreams(p) PROVE ClosersShut'
  <2>1. UNCHANGED <<sender, closer>>
    BY <1>5 DEF CloseAllStreams
  <2>2. \A q \in Sides, j \in Ids : shut[q][j] => shut'[q][j]
    BY <1>1, <1>5 DEF CloseAllStreams
  <2> QED BY <1>0, <2>1, <2>2 DEF ClosersShut, Sides
<1>6. ASSUME NEW p \in Sides, NEW i \in Ids, Send(p, i) PROVE ClosersShut'
  <2>1. closer["client"][i] # "idle" => p # "client"
    BY <1>0, <1>6 DEF Send, ClosersShut
  <2>2. \A q \in Sides, j \in Ids : q # p \/ j # i => sender'[q][j] = sender[q][j]
    BY <1>1, <1>6 DEF Send
  <2> QED BY <1>0, <1>6, <2>1, <2>2 DEF Send, ClosersShut, Sides
<1>7. ASSUME NEW p \in Sides, NEW i \in Ids, Enqueue(p, i) PROVE ClosersShut'
  <2>1. \A q \in Sides, j \in Ids : sender'[q][j] = "idle" \/ sender'[q][j] = sender[q][j]
    BY <1>1, <1>7 DEF Enqueue
  <2> QED BY <1>0, <1>7, <2>1 DEF Enqueue, ClosersShut, Sides
<1>8. ASSUME NEW p \in Sides, NEW i \in Ids, SendClosed(p, i) PROVE ClosersShut'
  <2>1. \A q \in Sides, j \in Ids : sender'[q][j] = "idle" \/ sender'[q][j] = sender[q][j]
    BY <1>1, <1>8 DEF SendClosed
  <2> QED BY <1>0, <1>8, <2>1 DEF SendClosed, ClosersShut, Sides
<1>9. ASSUME NEW p \in Sides, NEW i \in Ids, CloseOpened(p, i) PROVE ClosersShut'
  <2>1. p = "client" /\ sender[p][i] = "idle" /\ UNCHANGED sender
    BY <1>9 DEF CloseOpened, OpenedStream, SendFree
  <2>2. /\ shut'[p][i]
        /\ \A q \in Sides, j \in Ids : q # p \/ j # i => /\ closer'[q][j] = closer[q][j]
                                                         /\ shut'[q][j] = shut[q][j]
    BY <1>1, <1>9 DEF CloseOpened
  <2> QED BY <1>0, <2>1, <2>2 DEF ClosersShut, Sides
<1>10. ASSUME NEW p \in Sides, NEW i \in Ids, CloseFin(p, i) PROVE ClosersShut'
  <2>1. UNCHANGED <<sender, shut>> /\ closer[p][i] # "idle"
    BY <1>10 DEF CloseFin
  <2>2. /\ closer'[p][i] = "remove"
        /\ \A q \in Sides, j \in Ids : q # p \/ j # i => closer'[q][j] = closer[q][j]
    BY <1>1, <1>10 DEF CloseFin
  <2> QED BY <1>0, <2>1, <2>2 DEF ClosersShut, Sides
<1>11. ASSUME NEW p \in Sides, NEW i \in Ids, ClosePeerStream(p, i) PROVE ClosersShut'
  <2>1. UNCHANGED <<sender, shut>>
    BY <1>11 DEF ClosePeerStream
  <2>2. p # "client"
    <3>1. ~(i > nextId)
      BY <1>0, <1>1, <1>11 DEF ClosePeerStream, Known
    <3>2. i <= nextId
      BY <1>1, <3>1, Constants
    <3> QED BY <1>11, <3>2 DEF ClosePeerStream, OpenedStream
  <2>3. /\ closer'[p][i] = "remove"
        /\ \A q \in Sides, j \in Ids : q # p \/ j # i => closer'[q][j] = closer[q][j]
    BY <1>1, <1>11 DEF ClosePeerStream
  <2> QED BY <1>0, <2>1, <2>2, <2>3 DEF ClosersShut, Sides
<1>12. ASSUME NEW p \in Sides, NEW i \in Ids, CloseRemove(p, i) PROVE ClosersShut'
  <2>1. UNCHANGED sender /\ closer[p][i] = "remove" /\ RemoveStream(p, i)
    BY <1>12 DEF CloseRemove
  <2>2. /\ closer'[p][i] = "done"
        /\ \A q \in Sides, j \in Ids : q # p \/ j # i => closer'[q][j] = closer[q][j]
    BY <1>1, <1>12 DEF CloseRemove
  <2>3. \A q \in Sides, j \in Ids : shut[q][j] => shut'[q][j]
    BY <1>0, <2>1, RemoveFacts
  <2> QED BY <1>0, <2>1, <2>2, <2>3 DEF ClosersShut, Sides
<1>13. ASSUME NEW p \in Sides, NEW i \in Ids, DecodeFin(p, i) PROVE ClosersShut'
  <2>1. UNCHANGED <<sender, closer>> /\ RemoveStream(p, i)
    BY <1>13 DEF DecodeFin
  <2>2. \A q \in Sides, j \in Ids : shut[q][j] => shut'[q][j]
    BY <1>0, <2>1, RemoveFacts
  <2> QED BY <1>0, <2>1, <2>2 DEF ClosersShut, Sides
<1> QED
  BY <1>2, <1>3, <1>4, <1>5, <1>6, <1>7, <1>8, <1>9, <1>10, <1>11, <1>12, <1>13
     DEF Next, AppStep, ReaderStep, WriterStep, CloseStep, StreamStep

(* A stream whose FIN is queued sends no more. *)
LEMMA FinishedStays ==
    ASSUME TableInv, Next, NEW j \in Ids, Finished(j)
    PROVE  Finished(j)'
<1> USE DEF connVars, outVars, tableVars, readerVars, queueVars, streamVars, appVars, netVars
<1>0. /\ Finished(j)
      /\ TypeOK
  BY DEF TableInv
<1>1. /\ closer \in [Sides -> [Ids -> {"idle", "queue", "remove", "done"}]]
      /\ sender \in [Sides -> [Ids -> {"idle", "queue"}]]
      /\ shut \in [Sides -> [Ids -> BOOLEAN]]
  BY DEF TableInv, TypeOK, Each, EachStream
<1>2. CASE NewStream \/ Break
  BY <1>0, <1>2 DEF Finished, NewStream, Break
<1>3. CASE \E p \in Sides : ReadFin(p) \/ ReadMessage(p) \/ Push(p) \/ ReadError(p) \/
                            ReadEOF(p) \/ DrainEnd(p) \/ Write(p) \/ WriterEnd(p) \/
                            Close(p) \/ CloseQueue(p) \/ CloseWrite(p) \/ CloseEnd(p)
  BY <1>0, <1>3
     DEF Finished, ReadFin, ReadMessage, Push, ReadError, ReadEOF, DrainEnd, Write, WriterEnd,
         Close, CloseQueue, CloseWrite, CloseEnd
<1>4. CASE \E p \in Sides, i \in Ids : Recv(p, i) \/ DecodeTake(p, i) \/ Dispatch(p, i) \/
                                       DecodeEnd(p, i) \/ DrainFin(p, i)
  BY <1>0, <1>4 DEF Finished, Recv, DecodeTake, Dispatch, DecodeEnd, DrainFin
<1>5. ASSUME NEW p \in Sides, CloseAllStreams(p) PROVE Finished(j)'
  <2>1. shut'["client"][j]
    BY <1>0, <1>1, <1>5 DEF CloseAllStreams, Finished, Sides
  <2> QED BY <1>0, <1>5, <2>1 DEF CloseAllStreams, Finished
<1>6. ASSUME NEW p \in Sides, NEW i \in Ids, Send(p, i) PROVE Finished(j)'
  <2>1. ~(p = "client" /\ i = j)
    BY <1>0, <1>6 DEF Send, Finished
  <2>2. sender'["client"][j] = "idle"
    BY <1>0, <1>1, <1>6, <2>1 DEF Send, Finished, Sides
  <2> QED BY <1>0, <1>6, <2>2 DEF Send, Finished
<1>7. ASSUME NEW p \in Sides, NEW i \in Ids, Enqueue(p, i) PROVE Finished(j)'
  <2>1. sender'["client"][j] = "idle"
    BY <1>0, <1>1, <1>7 DEF Enqueue, Finished, Sides
  <2> QED BY <1>0, <1>7, <2>1 DEF Enqueue, Finished
<1>8. ASSUME NEW p \in Sides, NEW i \in Ids, SendClosed(p, i) PROVE Finished(j)'
  <2>1. sender'["client"][j] = "idle"
    BY <1>0, <1>1, <1>8 DEF SendClosed, Finished, Sides
  <2> QED BY <1>0, <1>8, <2>1 DEF SendClosed, Finished
<1>9. ASSUME NEW p \in Sides, NEW i \in Ids, CloseOpened(p, i) PROVE Finished(j)'
  <2>1. ~(p = "client" /\ i = j)
    BY <1>0, <1>9 DEF CloseOpened, Finished
  <2>2. closer'["client"][j] = closer["client"][j] /\ shut'["client"][j] = shut["client"][j]
    BY <1>1, <1>9, <2>1 DEF CloseOpened, Sides
  <2> QED BY <1>0, <1>9, <2>2 DEF CloseOpened, Finished
<1>10. ASSUME NEW p \in Sides, NEW i \in Ids, CloseFin(p, i) PROVE Finished(j)'
  <2>1. ~(p = "client" /\ i = j)
    BY <1>0, <1>10 DEF CloseFin, Finished
  <2>2. closer'["client"][j] = closer["client"][j] /\ shut'["client"][j] = shut["client"][j]
    BY <1>1, <1>10, <2>1 DEF CloseFin, Sides
  <2> QED BY <1>0, <1>10, <2>2 DEF CloseFin, Finished
<1>11. ASSUME NEW p \in Sides, NEW i \in Ids, ClosePeerStream(p, i) PROVE Finished(j)'
  <2>1. ~(p = "client" /\ i = j)
    BY <1>0, <1>11 DEF ClosePeerStream, Finished
  <2>2. closer'["client"][j] = closer["client"][j] /\ shut'["client"][j] = shut["client"][j]
    BY <1>1, <1>11, <2>1 DEF ClosePeerStream, Sides
  <2> QED BY <1>0, <1>11, <2>2 DEF ClosePeerStream, Finished
<1>12. ASSUME NEW p \in Sides, NEW i \in Ids, CloseRemove(p, i) PROVE Finished(j)'
  <2>1. closer'["client"][j] \in {"remove", "done"}
    BY <1>0, <1>1, <1>12 DEF CloseRemove, Finished, Sides
  <2>2. shut'["client"][j]
    BY <1>0, <1>12, RemoveFacts DEF CloseRemove, Finished, Sides
  <2> QED BY <1>0, <1>12, <2>1, <2>2 DEF CloseRemove, Finished
<1>13. ASSUME NEW p \in Sides, NEW i \in Ids, DecodeFin(p, i) PROVE Finished(j)'
  <2>1. shut'["client"][j]
    BY <1>0, <1>13, RemoveFacts DEF DecodeFin, Finished, Sides
  <2> QED BY <1>0, <1>13, <2>1 DEF DecodeFin, Finished
<1> QED
  BY <1>2, <1>3, <1>4, <1>5, <1>6, <1>7, <1>8, <1>9, <1>10, <1>11, <1>12, <1>13
     DEF Next, AppStep, ReaderStep, WriterStep, CloseStep, StreamStep

(* Only a client queues a FIN. *)
LEMMA NextClientFins ==
    ASSUME TableInv, Next
    PROVE  ClientFins'
<1> USE DEF connVars, outVars, tableVars, readerVars, queueVars, streamVars, appVars, netVars
<1>0. /\ ClientFins
      /\ TypeOK
      /\ Framed
      /\ ClosersShut
  BY DEF TableInv
<1>1. /\ outbound \in [Sides -> Seq([id : 0..NStreams, msg : Nat])]
      /\ wire \in [Sides -> Seq([id : Ids, msg : Nat])]
      /\ rpc \in [Sides -> {"read", "push", "drain", "end"}]
      /\ rframe \in [Sides -> [id : 0..NStreams, msg : Nat]]
      /\ sent \in [Sides -> [Ids -> Nat]]
  BY DEF TableInv, TypeOK, Each, EachStream
<1>2. CASE NewStream \/ Break
  BY <1>0, <1>2 DEF ClientFins, NewStream, Break
<1>3. CASE \E p \in Sides : CloseAllStreams(p) \/ WriterEnd(p) \/ Close(p) \/ CloseWrite(p)
                            \/ CloseEnd(p)
  BY <1>0, <1>3 DEF ClientFins, CloseAllStreams, WriterEnd, Close, CloseWrite, CloseEnd
<1>4. CASE \E p \in Sides, i \in Ids : Send(p, i) \/ SendClosed(p, i) \/ CloseOpened(p, i)
                                       \/ ClosePeerStream(p, i) \/ CloseRemove(p, i) \/
                                       Recv(p, i) \/ DecodeTake(p, i) \/ Dispatch(p, i) \/
                                       DecodeFin(p, i) \/ DecodeEnd(p, i) \/ DrainFin(p, i)
  BY <1>0, <1>4
     DEF ClientFins, Send, SendClosed, CloseOpened, ClosePeerStream, CloseRemove, Recv,
         DecodeTake, Dispatch, DecodeFin, DecodeEnd, DrainFin
<1>5. ASSUME NEW p \in Sides, ReadFin(p) PROVE ClientFins'
  <2>1. /\ \A q \in Sides : q # p => wire'[q] = wire[q]
        /\ Takes(wire[p], wire'[p])
    BY <1>0, <1>5, ReadFrames DEF ReadFin
  <2>2. \A k \in DOMAIN wire'["client"] : wire'["client"][k].msg # Fin
    BY <1>0, <2>1 DEF ClientFins, Sides
  <2>3. rpc'["client"] = "push" => rframe'["client"].msg # Fin
    BY <1>0, <1>1, <1>5, <2>1 DEF ReadFin, ClientFins, Sides
  <2> QED BY <1>0, <1>5, <2>2, <2>3 DEF ReadFin, ClientFins
<1>6. ASSUME NEW p \in Sides, ReadMessage(p) PROVE ClientFins'
  <2>1. /\ \A q \in Sides : q # p => wire'[q] = wire[q]
        /\ Takes(wire[p], wire'[p])
    BY <1>0, <1>6, ReadFrames DEF ReadMessage
  <2>2. \A k \in DOMAIN wire'["client"] : wire'["client"][k].msg # Fin
    BY <1>0, <2>1 DEF ClientFins, Sides
  <2>3. rpc'["client"] = "push" => rframe'["client"].msg # Fin
    BY <1>0, <1>1, <1>6, <2>1 DEF ReadMessage, ClientFins, Sides
  <2> QED BY <1>0, <1>6, <2>2, <2>3 DEF ReadMessage, ClientFins
<1>7. ASSUME NEW p \in Sides, Push(p) PROVE ClientFins'
  <2>1. rpc'["client"] = "push" => rpc["client"] = "push"
    BY <1>1, <1>7 DEF Push, Sides
  <2> QED BY <1>0, <1>7, <2>1 DEF Push, ClientFins
<1>8. ASSUME NEW p \in Sides, ReadError(p) PROVE ClientFins'
  <2>1. rpc'["client"] = "push" => rpc["client"] = "push"
    BY <1>1, <1>8 DEF ReadError, Sides
  <2> QED BY <1>0, <1>8, <2>1 DEF ReadError, ClientFins
<1>9. ASSUME NEW p \in Sides, ReadEOF(p) PROVE ClientFins'
  <2>1. rpc'["client"] = "push" => rpc["client"] = "push"
    BY <1>1, <1>9 DEF ReadEOF, Sides
  <2> QED BY <1>0, <1>9, <2>1 DEF ReadEOF, ClientFins
<1>10. ASSUME NEW p \in Sides, DrainEnd(p) PROVE ClientFins'
  <2>1. rpc'["client"] = "push" => rpc["client"] = "push"
    BY <1>1, <1>10 DEF DrainEnd, Sides
  <2> QED BY <1>0, <1>10, <2>1 DEF DrainEnd, ClientFins
<1>11. ASSUME NEW p \in Sides, Write(p) PROVE ClientFins'
  <2>1. /\ \A q \in Sides : q # p => outbound'[q] = outbound[q]
        /\ Takes(outbound[p], outbound'[p])
    BY <1>0, <1>11, WriteFrames
  <2>2. \A k \in DOMAIN outbound'["server"] : outbound'["server"][k] = Marker \/ outbound'["server"][k].msg # Fin
    BY <1>0, <2>1 DEF ClientFins, Sides
  <2>3. \A k \in DOMAIN wire'["client"] : wire'["client"][k].msg # Fin
    <3>1. CASE wire' # wire /\ p = "server"
      <4>1. Peer(p) = "client" /\ outbound[p][1].msg # Fin
        BY <1>0, <1>11, <2>1, <3>1, WireFrames DEF ClientFins, Peer
      <4> QED BY <1>0, <1>11, <3>1, <4>1, WireFrames DEF ClientFins
    <3>2. CASE wire'["client"] = wire["client"]
      BY <1>0, <3>2 DEF ClientFins
    <3>3. ASSUME wire' # wire, p # "server" PROVE wire'["client"] = wire["client"]
      <4>1. Peer(p) # "client" /\ "client" \in Sides
        BY <3>3 DEF Peer, Sides
      <4> QED BY <1>0, <1>11, <3>3, <4>1, WireFrames
    <3> QED BY <3>1, <3>2, <3>3
  <2> QED BY <1>0, <1>11, <2>2, <2>3 DEF Write, ClientFins
<1>12. ASSUME NEW p \in Sides, CloseQueue(p) PROVE ClientFins'
  <2>1. /\ \A q \in Sides : q # p => outbound'[q] = outbound[q]
        /\ Appends(outbound[p], outbound'[p], Marker)
    BY <1>0, <1>12, CloseQueueFrames
  <2>2. \A k \in DOMAIN outbound'["server"] : outbound'["server"][k] = Marker \/ outbound'["server"][k].msg # Fin
    BY <1>0, <2>1 DEF ClientFins, Sides
  <2> QED BY <1>0, <1>12, <2>2 DEF CloseQueue, ClientFins
<1>13. ASSUME NEW p \in Sides, NEW i \in Ids, Enqueue(p, i) PROVE ClientFins'
  <2>1. /\ \A q \in Sides : q # p => outbound'[q] = outbound[q]
        /\ Appends(outbound[p], outbound'[p], Frame(i, sent[p][i] + 1))
    BY <1>0, <1>13, EnqueueFrames
  <2>2. Frame(i, sent[p][i] + 1).msg # Fin
    <3>1. sent[p][i] \in Nat
      BY <1>1
    <3> QED BY <3>1 DEF Frame, Fin
  <2>3. \A k \in DOMAIN outbound'["server"] : outbound'["server"][k] = Marker \/ outbound'["server"][k].msg # Fin
    BY <1>0, <2>1, <2>2 DEF ClientFins, Sides
  <2> QED BY <1>0, <1>13, <2>3 DEF Enqueue, ClientFins
<1>14. ASSUME NEW p \in Sides, NEW i \in Ids, CloseFin(p, i) PROVE ClientFins'
  <2>1. p = "client"
    BY <1>0, <1>14 DEF CloseFin, ClosersShut, Sides
  <2>2. outbound'["server"] = outbound["server"]
    BY <1>1, <1>14, <2>1 DEF CloseFin, Sides
  <2> QED BY <1>0, <1>14, <2>2 DEF CloseFin, ClientFins
<1> QED
  BY <1>2, <1>3, <1>4, <1>5, <1>6, <1>7, <1>8, <1>9, <1>10, <1>11, <1>12, <1>13, <1>14
     DEF Next, AppStep, ReaderStep, WriterStep, CloseStep, StreamStep

-----------------------------------------------------------------------------
(* Nothing comes behind a FIN.                                             *)

(* The two sides by name. *)
LEMMA BothSides ==
    /\ "client" \in Sides /\ "server" \in Sides
    /\ Peer("client") = "server" /\ Peer("server") = "client"
BY DEF Sides, Peer

(* A closed connection stays closed, *)
LEMMA ClosedStays ==
    ASSUME TableInv, Next, NEW q \in Sides, closed[q]
    PROVE  closed[q]'
<1> USE DEF connVars, outVars, tableVars, readerVars, queueVars, streamVars, appVars, netVars
<1>0. /\ closed[q]
      /\ TypeOK
  BY DEF TableInv
<1>1. /\ closed \in [Sides -> BOOLEAN]
  BY DEF TableInv, TypeOK, Each, EachStream
<1>2. CASE NewStream \/ Break
  BY <1>0, <1>2 DEF NewStream, Break
<1>3. CASE \E p \in Sides : CloseAllStreams(p) \/ ReadFin(p) \/ ReadMessage(p) \/ Push(p) \/
                            WriterEnd(p) \/ CloseQueue(p) \/ CloseWrite(p)
  BY <1>0, <1>3
     DEF CloseAllStreams, ReadFin, ReadMessage, Push, WriterEnd, CloseQueue, CloseWrite
<1>4. CASE \E p \in Sides, i \in Ids : Send(p, i) \/ Enqueue(p, i) \/ SendClosed(p, i) \/
                                       CloseOpened(p, i) \/ CloseFin(p, i) \/
                                       ClosePeerStream(p, i) \/ CloseRemove(p, i) \/
                                       Recv(p, i) \/ DecodeTake(p, i) \/ Dispatch(p, i) \/
                                       DecodeFin(p, i) \/ DecodeEnd(p, i) \/ DrainFin(p, i)
  BY <1>0, <1>4
     DEF Send, Enqueue, SendClosed, CloseOpened, CloseFin, ClosePeerStream, CloseRemove, Recv,
         DecodeTake, Dispatch, DecodeFin, DecodeEnd, DrainFin
<1>5. ASSUME NEW p \in Sides, ReadError(p) PROVE closed[q]'
  <2>1. MarkClosed(p) \/ UNCHANGED closed
    BY <1>5 DEF ReadError
  <2> QED BY <1>0, <2>1, MarkClosedFacts
<1>6. ASSUME NEW p \in Sides, ReadEOF(p) PROVE closed[q]'
  <2>1. MarkClosed(p) \/ UNCHANGED closed
    BY <1>6 DEF ReadEOF
  <2> QED BY <1>0, <2>1, MarkClosedFacts
<1>7. ASSUME NEW p \in Sides, DrainEnd(p) PROVE closed[q]'
  <2>1. MarkClosed(p) \/ UNCHANGED closed
    BY <1>7 DEF DrainEnd
  <2> QED BY <1>0, <2>1, MarkClosedFacts
<1>8. ASSUME NEW p \in Sides, Write(p) PROVE closed[q]'
  <2>1. MarkClosed(p) \/ UNCHANGED closed
    BY <1>8 DEF Write
  <2> QED BY <1>0, <2>1, MarkClosedFacts
<1>9. ASSUME NEW p \in Sides, Close(p) PROVE closed[q]'
  <2>1. MarkClosed(p) \/ UNCHANGED closed
    BY <1>9 DEF Close
  <2> QED BY <1>0, <2>1, MarkClosedFacts
<1>10. ASSUME NEW p \in Sides, CloseEnd(p) PROVE closed[q]'
  <2>1. MarkClosed(p) \/ UNCHANGED closed
    BY <1>10 DEF CloseEnd
  <2> QED BY <1>0, <2>1, MarkClosedFacts
<1> QED
  BY <1>2, <1>3, <1>4, <1>5, <1>6, <1>7, <1>8, <1>9, <1>10
     DEF Next, AppStep, ReaderStep, WriterStep, CloseStep, StreamStep

(* a reader that drains or has ended reads no more, *)
LEMMA ReadsNoMore ==
    ASSUME TableInv, Next, NEW q \in Sides, ~Reads(q)
    PROVE  ~Reads(q)'
<1> USE DEF connVars, outVars, tableVars, readerVars, queueVars, streamVars, appVars, netVars
<1>0. /\ ~Reads(q)
      /\ TypeOK
  BY DEF TableInv
<1>1. /\ rpc \in [Sides -> {"read", "push", "drain", "end"}]
  BY DEF TableInv, TypeOK, Each, EachStream
<1>2. CASE NewStream \/ Break
  BY <1>0, <1>2 DEF Reads, NewStream, Break
<1>3. CASE \E p \in Sides : CloseAllStreams(p) \/ Write(p) \/ WriterEnd(p) \/ Close(p) \/
                            CloseQueue(p) \/ CloseWrite(p) \/ CloseEnd(p)
  BY <1>0, <1>3
     DEF Reads, CloseAllStreams, Write, WriterEnd, Close, CloseQueue, CloseWrite, CloseEnd
<1>4. CASE \E p \in Sides, i \in Ids : Send(p, i) \/ Enqueue(p, i) \/ SendClosed(p, i) \/
                                       CloseOpened(p, i) \/ CloseFin(p, i) \/
                                       ClosePeerStream(p, i) \/ CloseRemove(p, i) \/
                                       Recv(p, i) \/ DecodeTake(p, i) \/ Dispatch(p, i) \/
                                       DecodeFin(p, i) \/ DecodeEnd(p, i) \/ DrainFin(p, i)
  BY <1>0, <1>4
     DEF Reads, Send, Enqueue, SendClosed, CloseOpened, CloseFin, ClosePeerStream, CloseRemove,
         Recv, DecodeTake, Dispatch, DecodeFin, DecodeEnd, DrainFin
<1>5. ASSUME NEW p \in Sides, ReadFin(p) PROVE ~Reads(q)'
  BY <1>0, <1>1, <1>5 DEF ReadFin, ReadFrame, Reads
<1>6. ASSUME NEW p \in Sides, ReadMessage(p) PROVE ~Reads(q)'
  BY <1>0, <1>1, <1>6
     DEF ReadMessage, Register, CanRegister, ReadFrame, KnownClosed, OpenedStream, Reads
<1>7. ASSUME NEW p \in Sides, Push(p) PROVE ~Reads(q)'
  BY <1>0, <1>1, <1>7 DEF Push, GiveUp, Reads, ReadFrame
<1>8. ASSUME NEW p \in Sides, ReadError(p) PROVE ~Reads(q)'
  BY <1>0, <1>1, <1>8 DEF ReadError, MarkClosed, Reads, ReadFrame
<1>9. ASSUME NEW p \in Sides, ReadEOF(p) PROVE ~Reads(q)'
  BY <1>0, <1>1, <1>9 DEF ReadEOF, MarkClosed, StreamsToDrain, Reads, ReadFrame
<1>10. ASSUME NEW p \in Sides, DrainEnd(p) PROVE ~Reads(q)'
  BY <1>0, <1>1, <1>10 DEF DrainEnd, MarkClosed, Reads, ReadFrame
<1> QED
  BY <1>2, <1>3, <1>4, <1>5, <1>6, <1>7, <1>8, <1>9, <1>10
     DEF Next, AppStep, ReaderStep, WriterStep, CloseStep, StreamStep

(* and a stream that this side closes stays so. *)
LEMMA ClosersStay ==
    ASSUME TableInv, Next, NEW q \in Sides, NEW j \in Ids, closer[q][j] # "idle"
    PROVE  (closer[q][j] # "idle")'
<1> USE DEF connVars, outVars, tableVars, readerVars, queueVars, streamVars, appVars, netVars
<1>0. /\ (closer[q][j] # "idle")
      /\ TypeOK
  BY DEF TableInv
<1>1. /\ closer \in [Sides -> [Ids -> {"idle", "queue", "remove", "done"}]]
  BY DEF TableInv, TypeOK, Each, EachStream
<1>2. CASE NewStream \/ Break
  BY <1>0, <1>2 DEF NewStream, Break
<1>3. CASE \E p \in Sides : CloseAllStreams(p) \/ ReadFin(p) \/ ReadMessage(p) \/ Push(p) \/
                            ReadError(p) \/ ReadEOF(p) \/ DrainEnd(p) \/ Write(p) \/
                            WriterEnd(p) \/ Close(p) \/ CloseQueue(p) \/ CloseWrite(p) \/
                            CloseEnd(p)
  BY <1>0, <1>3
     DEF CloseAllStreams, ReadFin, ReadMessage, Push, ReadError, ReadEOF, DrainEnd, Write,
         WriterEnd, Close, CloseQueue, CloseWrite, CloseEnd
<1>4. CASE \E p \in Sides, i \in Ids : Send(p, i) \/ Enqueue(p, i) \/ SendClosed(p, i) \/
                                       Recv(p, i) \/ DecodeTake(p, i) \/ Dispatch(p, i) \/
                                       DecodeFin(p, i) \/ DecodeEnd(p, i) \/ DrainFin(p, i)
  BY <1>0, <1>4
     DEF Send, Enqueue, SendClosed, Recv, DecodeTake, Dispatch, DecodeFin, DecodeEnd, DrainFin
<1>5. ASSUME NEW p \in Sides, NEW i \in Ids, CloseOpened(p, i) PROVE (closer[q][j] # "idle")'
  BY <1>0, <1>1, <1>5 DEF CloseOpened
<1>6. ASSUME NEW p \in Sides, NEW i \in Ids, CloseFin(p, i) PROVE (closer[q][j] # "idle")'
  BY <1>0, <1>1, <1>6 DEF CloseFin
<1>7. ASSUME NEW p \in Sides, NEW i \in Ids, ClosePeerStream(p, i) PROVE (closer[q][j] # "idle")'
  BY <1>0, <1>1, <1>7 DEF ClosePeerStream
<1>8. ASSUME NEW p \in Sides, NEW i \in Ids, CloseRemove(p, i) PROVE (closer[q][j] # "idle")'
  BY <1>0, <1>1, <1>8 DEF CloseRemove
<1> QED
  BY <1>2, <1>3, <1>4, <1>5, <1>6, <1>7, <1>8
     DEF Next, AppStep, ReaderStep, WriterStep, CloseStep, StreamStep

(* A frame queued by a client on a stream whose FIN is not queued. *)
LEMMA QueueFinsLast ==
    ASSUME TypeOK, FinsLast, UNCHANGED wire, NEW f \in [id : 0..NStreams, msg : Nat],
           outbound' = [outbound EXCEPT !["client"] = Append(outbound["client"], f)],
           \A j \in Ids : Finished(j) => Finished(j)' /\ f.id # j,
           \A j \in Ids : f = Frame(j, Fin) => Finished(j)'
    PROVE  FinsLast'
<1>1. outbound \in [Sides -> Seq([id : 0..NStreams, msg : Nat])]
  BY DEF TypeOK, Each
<1>2. /\ \A q \in Sides : q # "client" => outbound'[q] = outbound[q]
      /\ Appends(outbound["client"], outbound'["client"], f)
  BY <1>1, BothSides, AppendTo
<1>3. ASSUME NEW j \in Ids, NEW k \in DOMAIN outbound'["client"],
             outbound'["client"][k] = Frame(j, Fin)
      PROVE  /\ Finished(j)'
             /\ \A l \in DOMAIN outbound'["client"] : l > k => outbound'["client"][l].id # j
  <2>1. CASE k \in DOMAIN outbound["client"]
    <3>1. Finished(j) /\ \A l \in DOMAIN outbound["client"] : l > k => outbound["client"][l].id # j
      BY <1>2, <1>3, <2>1 DEF FinsLast
    <3> QED BY <1>2, <3>1
  <2>2. CASE k = Len(outbound["client"]) + 1
    <3>1. f = Frame(j, Fin)
      BY <1>2, <1>3, <2>2
    <3>2. \A l \in DOMAIN outbound'["client"] : ~(l > k)
      BY <1>2, <2>2
    <3> QED BY <3>1, <3>2
  <2> QED BY <1>2, <2>1, <2>2
<1>4. ASSUME NEW j \in Ids, NEW k \in DOMAIN wire["server"], wire["server"][k] = Frame(j, Fin)
      PROVE  /\ Finished(j)'
             /\ \A l \in DOMAIN wire["server"] : l > k => wire["server"][l].id # j
             /\ \A l \in DOMAIN outbound'["client"] : outbound'["client"][l].id # j
  BY <1>2, <1>4 DEF FinsLast
<1> QED BY <1>3, <1>4 DEF FinsLast

(* A FIN stays the last frame of its stream. *)
LEMMA NextFinsLast ==
    ASSUME TableInv, Next
    PROVE  FinsLast'
<1> USE DEF connVars, outVars, tableVars, readerVars, queueVars, streamVars, appVars, netVars
<1>0. /\ FinsLast
      /\ TypeOK
      /\ Framed
      /\ ClosersShut
  BY DEF TableInv
<1>1. /\ outbound \in [Sides -> Seq([id : 0..NStreams, msg : Nat])]
      /\ wire \in [Sides -> Seq([id : Ids, msg : Nat])]
      /\ sent \in [Sides -> [Ids -> Nat]]
      /\ closer \in [Sides -> [Ids -> {"idle", "queue", "remove", "done"}]]
      /\ shut \in [Sides -> [Ids -> BOOLEAN]]
      /\ sender \in [Sides -> [Ids -> {"idle", "queue"}]]
  BY DEF TableInv, TypeOK, Each, EachStream
<1>a. \A j \in Ids : Finished(j) => Finished(j)'
  BY FinishedStays
<1>2. CASE NewStream \/ Break
  <2>1. UNCHANGED <<outbound, wire>>
    BY <1>2 DEF NewStream, Break
  <2> QED BY <1>0, <1>a, <2>1 DEF FinsLast
<1>3. CASE \E p \in Sides : CloseAllStreams(p) \/ Push(p) \/ ReadError(p) \/ ReadEOF(p) \/
                            DrainEnd(p) \/ WriterEnd(p) \/ Close(p) \/ CloseWrite(p) \/
                            CloseEnd(p)
  <2>1. UNCHANGED <<outbound, wire>>
    BY <1>3
       DEF CloseAllStreams, Push, ReadError, ReadEOF, DrainEnd, WriterEnd, Close, CloseWrite,
           CloseEnd
  <2> QED BY <1>0, <1>a, <2>1 DEF FinsLast
<1>4. CASE \E p \in Sides, i \in Ids : Send(p, i) \/ SendClosed(p, i) \/ CloseOpened(p, i)
                                       \/ ClosePeerStream(p, i) \/ CloseRemove(p, i) \/
                                       Recv(p, i) \/ DecodeTake(p, i) \/ Dispatch(p, i) \/
                                       DecodeFin(p, i) \/ DecodeEnd(p, i) \/ DrainFin(p, i)
  <2>1. UNCHANGED <<outbound, wire>>
    BY <1>4
       DEF Send, SendClosed, CloseOpened, ClosePeerStream, CloseRemove, Recv, DecodeTake,
           Dispatch, DecodeFin, DecodeEnd, DrainFin
  <2> QED BY <1>0, <1>a, <2>1 DEF FinsLast
<1>5. ASSUME NEW p \in Sides, ReadFin(p) PROVE FinsLast'
  <2>1. CASE p = "server"
    <3>1. UNCHANGED outbound
      BY <1>5 DEF ReadFin
    <3>2. /\ \A q \in Sides : q # "server" => wire'[q] = wire[q]
          /\ Takes(wire["server"], wire'["server"])
      BY <1>0, <1>5, <2>1, ReadFrames DEF ReadFin
    <3> QED BY <1>0, <1>a, <3>1, <3>2 DEF FinsLast
  <2>2. CASE p # "server"
    <3>1. wire'["server"] = wire["server"] /\ UNCHANGED outbound
      BY <1>1, <1>5, <2>2, BothSides DEF ReadFin, ReadFrame
    <3> QED BY <1>0, <1>a, <3>1 DEF FinsLast
  <2> QED BY <2>1, <2>2
<1>6. ASSUME NEW p \in Sides, ReadMessage(p) PROVE FinsLast'
  <2>1. CASE p = "server"
    <3>1. UNCHANGED outbound
      BY <1>6 DEF ReadMessage
    <3>2. /\ \A q \in Sides : q # "server" => wire'[q] = wire[q]
          /\ Takes(wire["server"], wire'["server"])
      BY <1>0, <1>6, <2>1, ReadFrames DEF ReadMessage
    <3> QED BY <1>0, <1>a, <3>1, <3>2 DEF FinsLast
  <2>2. CASE p # "server"
    <3>1. wire'["server"] = wire["server"] /\ UNCHANGED outbound
      BY <1>1, <1>6, <2>2, BothSides DEF ReadMessage, ReadFrame
    <3> QED BY <1>0, <1>a, <3>1 DEF FinsLast
  <2> QED BY <2>1, <2>2
<1>7. ASSUME NEW p \in Sides, Write(p) PROVE FinsLast'
  <2>1. CASE p = "client"
    <3>1. /\ \A q \in Sides : q # "client" => outbound'[q] = outbound[q]
          /\ Takes(outbound["client"], outbound'["client"])
      BY <1>0, <1>7, <2>1, WriteFrames
    <3>2. \A j \in Ids : \A k \in DOMAIN outbound'["client"] : outbound'["client"][k] = Frame(j, Fin) =>
             /\ Finished(j)'
             /\ \A l \in DOMAIN outbound'["client"] : l > k => outbound'["client"][l].id # j
      BY <1>0, <1>a, <3>1 DEF FinsLast
    <3>3. ASSUME NEW j \in Ids, NEW n \in DOMAIN wire'["server"], wire'["server"][n] = Frame(j, Fin)
          PROVE  /\ Finished(j)'
                 /\ \A l \in DOMAIN wire'["server"] : l > n => wire'["server"][l].id # j
                 /\ \A l \in DOMAIN outbound'["client"] : outbound'["client"][l].id # j
      <4>1. CASE wire' # wire
        <5>1. /\ \A q \in Sides : q # "server" => wire'[q] = wire[q]
              /\ Appends(wire["server"], wire'["server"], outbound["client"][1])
          BY <1>0, <1>7, <2>1, <4>1, WireFrames, BothSides
        <5>2. CASE n \in DOMAIN wire["server"]
          <6>1. /\ Finished(j) /\ \A l \in DOMAIN wire["server"] : l > n => wire["server"][l].id # j
                /\ \A l \in DOMAIN outbound["client"] : outbound["client"][l].id # j
            BY <1>0, <3>3, <5>1, <5>2 DEF FinsLast
          <6> QED BY <1>a, <3>1, <5>1, <6>1
        <5>3. CASE n = Len(wire["server"]) + 1
          <6>1. /\ Finished(j) /\ \A l \in DOMAIN outbound["client"] : l > 1 => outbound["client"][l].id # j
            BY <1>0, <3>1, <3>3, <5>1, <5>3 DEF FinsLast
          <6>2. \A l \in DOMAIN wire'["server"] : ~(l > n)
            BY <5>1, <5>3
          <6> QED BY <1>a, <3>1, <6>1, <6>2
        <5> QED BY <5>1, <5>2, <5>3
      <4>2. CASE wire' = wire
        <5>1. /\ Finished(j) /\ \A l \in DOMAIN wire["server"] : l > n => wire["server"][l].id # j
              /\ \A l \in DOMAIN outbound["client"] : outbound["client"][l].id # j
          BY <1>0, <3>3, <4>2 DEF FinsLast
        <5> QED BY <1>a, <3>1, <4>2, <5>1
      <4> QED BY <4>1, <4>2
    <3> QED BY <3>2, <3>3 DEF FinsLast
  <2>2. CASE p # "client"
    <3>1. outbound'["client"] = outbound["client"] /\ wire'["server"] = wire["server"]
      <4>1. p = "server" /\ Peer(p) = "client"
        BY <2>2 DEF Sides, Peer
      <4> QED BY <1>1, <1>7, <4>1, BothSides DEF Write
    <3> QED BY <1>0, <1>a, <3>1 DEF FinsLast
  <2> QED BY <2>1, <2>2
<1>8. ASSUME NEW p \in Sides, CloseQueue(p) PROVE FinsLast'
  <2>1. CASE p = "client" /\ outbound' # outbound
    <3>1. /\ UNCHANGED wire /\ Marker \in [id : 0..NStreams, msg : Nat]
          /\ outbound' = [outbound EXCEPT !["client"] = Append(outbound["client"], Marker)]
      <4>1. Marker \in [id : 0..NStreams, msg : Nat]
        BY Constants DEF Marker
      <4> QED BY <4>1, <1>8, <2>1 DEF CloseQueue, CloseMark
    <3>2. \A j \in Ids : Finished(j) => Marker.id # j
      BY Constants DEF Marker
    <3>3. \A j \in Ids : Marker = Frame(j, Fin) => Finished(j)'
      BY Constants DEF Marker, Frame
    <3> HIDE DEF Frame, Marker
    <3> QED BY <1>0, <1>a, <3>1, <3>2, <3>3, QueueFinsLast
  <2>2. CASE p # "client" \/ outbound' = outbound
    <3>1. outbound'["client"] = outbound["client"] /\ UNCHANGED wire
      BY <1>1, <1>8, <2>2, BothSides DEF CloseQueue
    <3> QED BY <1>0, <1>a, <3>1 DEF FinsLast
  <2> QED BY <2>1, <2>2
<1>9. ASSUME NEW p \in Sides, NEW i \in Ids, Enqueue(p, i) PROVE FinsLast'
  <2>1. CASE p = "client" /\ outbound' # outbound
    <3>1. /\ UNCHANGED wire /\ Frame(i, sent[p][i] + 1) \in [id : 0..NStreams, msg : Nat]
          /\ outbound' = [outbound EXCEPT !["client"] = Append(outbound["client"], Frame(i, sent[p][i] + 1))]
      <4>1. sent[p][i] + 1 \in Nat
        BY <1>1
      <4>2. Frame(i, sent[p][i] + 1) \in [id : 0..NStreams, msg : Nat]
        BY <4>1, Constants DEF Frame, Ids
      <4> QED BY <4>2, <1>9, <2>1 DEF Enqueue
    <3>2. \A j \in Ids : Finished(j) => Frame(i, sent[p][i] + 1).id # j
      <4>1. ~Finished(i)
        BY <1>9, <2>1 DEF Enqueue, Finished
      <4> QED BY <4>1 DEF Frame
    <3>3. \A j \in Ids : Frame(i, sent[p][i] + 1) = Frame(j, Fin) => Finished(j)'
      <4>1. sent[p][i] + 1 # Fin
        <5>1. sent[p][i] \in Nat
          BY <1>1
        <5> QED BY <5>1 DEF Fin
      <4> QED BY <4>1 DEF Frame
    <3> HIDE DEF Frame, Marker
    <3> QED BY <1>0, <1>a, <3>1, <3>2, <3>3, QueueFinsLast
  <2>2. CASE p # "client" \/ outbound' = outbound
    <3>1. outbound'["client"] = outbound["client"] /\ UNCHANGED wire
      BY <1>1, <1>9, <2>2, BothSides DEF Enqueue
    <3> QED BY <1>0, <1>a, <3>1 DEF FinsLast
  <2> QED BY <2>1, <2>2
<1>10. ASSUME NEW p \in Sides, NEW i \in Ids, CloseFin(p, i) PROVE FinsLast'
  <2>1. CASE p = "client" /\ outbound' # outbound
    <3>1. /\ UNCHANGED wire /\ Frame(i, Fin) \in [id : 0..NStreams, msg : Nat]
          /\ outbound' = [outbound EXCEPT !["client"] = Append(outbound["client"], Frame(i, Fin))]
      <4>1. Frame(i, Fin) \in [id : 0..NStreams, msg : Nat]
        BY Constants DEF Frame, Ids, Fin
      <4> QED BY <4>1, <1>10, <2>1 DEF CloseFin
    <3>2. \A j \in Ids : Finished(j) => Frame(i, Fin).id # j
      <4>1. ~Finished(i)
        BY <1>10, <2>1 DEF CloseFin, Finished
      <4> QED BY <4>1 DEF Frame
    <3>3. \A j \in Ids : Frame(i, Fin) = Frame(j, Fin) => Finished(j)'
      <4>1. Finished(i)'
        BY <1>0, <1>1, <1>10, <2>1 DEF CloseFin, Finished, ClosersShut
      <4> QED BY <4>1 DEF Frame
    <3> HIDE DEF Frame, Marker
    <3> QED BY <1>0, <1>a, <3>1, <3>2, <3>3, QueueFinsLast
  <2>2. CASE p # "client" \/ outbound' = outbound
    <3>1. outbound'["client"] = outbound["client"] /\ UNCHANGED wire
      BY <1>1, <1>10, <2>2, BothSides DEF CloseFin
    <3> QED BY <1>0, <1>a, <3>1 DEF FinsLast
  <2> QED BY <2>1, <2>2
<1> QED
  BY <1>2, <1>3, <1>4, <1>5, <1>6, <1>7, <1>8, <1>9, <1>10
     DEF Next, AppStep, ReaderStep, WriterStep, CloseStep, StreamStep

(* A stream whose FIN has been read has no frame left. *)
LEMMA FinPassedStays ==
    ASSUME TableInv, Next, NEW j \in Ids, FinPassed(j)
    PROVE  FinPassed(j)'
<1> USE DEF connVars, outVars, tableVars, readerVars, queueVars, streamVars, appVars, netVars
<1>0. /\ FinPassed(j)
      /\ TypeOK
      /\ Framed
  BY DEF TableInv
<1>1. /\ outbound \in [Sides -> Seq([id : 0..NStreams, msg : Nat])]
      /\ wire \in [Sides -> Seq([id : Ids, msg : Nat])]
  BY DEF TableInv, TypeOK, Each, EachStream
<1>a. Finished(j) /\ Finished(j)'
  BY FinishedStays DEF FinPassed
<1>2. CASE NewStream \/ Break
  <2>1. UNCHANGED <<outbound, wire>>
    BY <1>2 DEF NewStream, Break
  <2> QED BY <1>0, <1>a, <2>1 DEF FinPassed
<1>3. CASE \E p \in Sides : CloseAllStreams(p) \/ Push(p) \/ ReadError(p) \/ ReadEOF(p) \/
                            DrainEnd(p) \/ WriterEnd(p) \/ Close(p) \/ CloseWrite(p) \/
                            CloseEnd(p)
  <2>1. UNCHANGED <<outbound, wire>>
    BY <1>3
       DEF CloseAllStreams, Push, ReadError, ReadEOF, DrainEnd, WriterEnd, Close, CloseWrite,
           CloseEnd
  <2> QED BY <1>0, <1>a, <2>1 DEF FinPassed
<1>4. CASE \E p \in Sides, i \in Ids : Send(p, i) \/ SendClosed(p, i) \/ CloseOpened(p, i)
                                       \/ ClosePeerStream(p, i) \/ CloseRemove(p, i) \/
                                       Recv(p, i) \/ DecodeTake(p, i) \/ Dispatch(p, i) \/
                                       DecodeFin(p, i) \/ DecodeEnd(p, i) \/ DrainFin(p, i)
  <2>1. UNCHANGED <<outbound, wire>>
    BY <1>4
       DEF Send, SendClosed, CloseOpened, ClosePeerStream, CloseRemove, Recv, DecodeTake,
           Dispatch, DecodeFin, DecodeEnd, DrainFin
  <2> QED BY <1>0, <1>a, <2>1 DEF FinPassed
<1>5. ASSUME NEW p \in Sides, ReadFin(p) PROVE FinPassed(j)'
  <2>1. CASE p = "server"
    <3>1. UNCHANGED outbound
      BY <1>5 DEF ReadFin
    <3>2. /\ \A q \in Sides : q # "server" => wire'[q] = wire[q]
          /\ Takes(wire["server"], wire'["server"])
      BY <1>0, <1>5, <2>1, ReadFrames DEF ReadFin
    <3> QED BY <1>0, <1>a, <3>1, <3>2 DEF FinPassed
  <2>2. CASE p # "server"
    <3>1. wire'["server"] = wire["server"] /\ UNCHANGED outbound
      BY <1>1, <1>5, <2>2, BothSides DEF ReadFin, ReadFrame
    <3> QED BY <1>0, <1>a, <3>1 DEF FinPassed
  <2> QED BY <2>1, <2>2
<1>6. ASSUME NEW p \in Sides, ReadMessage(p) PROVE FinPassed(j)'
  <2>1. CASE p = "server"
    <3>1. UNCHANGED outbound
      BY <1>6 DEF ReadMessage
    <3>2. /\ \A q \in Sides : q # "server" => wire'[q] = wire[q]
          /\ Takes(wire["server"], wire'["server"])
      BY <1>0, <1>6, <2>1, ReadFrames DEF ReadMessage
    <3> QED BY <1>0, <1>a, <3>1, <3>2 DEF FinPassed
  <2>2. CASE p # "server"
    <3>1. wire'["server"] = wire["server"] /\ UNCHANGED outbound
      BY <1>1, <1>6, <2>2, BothSides DEF ReadMessage, ReadFrame
    <3> QED BY <1>0, <1>a, <3>1 DEF FinPassed
  <2> QED BY <2>1, <2>2
<1>7. ASSUME NEW p \in Sides, Write(p) PROVE FinPassed(j)'
  <2>1. CASE p = "client"
    <3>1. /\ \A q \in Sides : q # "client" => outbound'[q] = outbound[q]
          /\ Takes(outbound["client"], outbound'["client"])
      BY <1>0, <1>7, <2>1, WriteFrames
    <3>2. \A l \in DOMAIN outbound'["client"] : outbound'["client"][l].id # j
      BY <1>0, <3>1 DEF FinPassed
    <3>3. CASE wire' # wire
      <4>1. /\ \A q \in Sides : q # "server" => wire'[q] = wire[q]
            /\ Appends(wire["server"], wire'["server"], outbound["client"][1])
        BY <1>0, <1>7, <2>1, <3>3, WireFrames, BothSides
      <4>2. \A l \in DOMAIN wire'["server"] : wire'["server"][l].id # j
        BY <1>0, <3>1, <4>1 DEF FinPassed
      <4> QED BY <1>a, <3>2, <4>2 DEF FinPassed
    <3>4. CASE wire' = wire
      BY <1>0, <1>a, <3>2, <3>4 DEF FinPassed
    <3> QED BY <3>3, <3>4
  <2>2. CASE p # "client"
    <3>1. outbound'["client"] = outbound["client"] /\ wire'["server"] = wire["server"]
      <4>1. p = "server" /\ Peer(p) = "client"
        BY <2>2 DEF Sides, Peer
      <4> QED BY <1>1, <1>7, <4>1, BothSides DEF Write
    <3> QED BY <1>0, <1>a, <3>1 DEF FinPassed
  <2> QED BY <2>1, <2>2
<1>8. ASSUME NEW p \in Sides, CloseQueue(p) PROVE FinPassed(j)'
  <2>1. CASE p = "client" /\ outbound' # outbound
    <3>1. /\ \A q \in Sides : q # "client" => outbound'[q] = outbound[q]
          /\ Appends(outbound["client"], outbound'["client"], Marker)
      BY <1>0, <1>8, <2>1, CloseQueueFrames
    <3>2. Marker.id # j
      BY Constants DEF Marker
    <3>3. \A l \in DOMAIN outbound'["client"] : outbound'["client"][l].id # j
      BY <1>0, <3>1, <3>2 DEF FinPassed
    <3> QED BY <1>0, <1>a, <1>8, <3>3 DEF CloseQueue, FinPassed
  <2>2. CASE p # "client" \/ outbound' = outbound
    <3>1. outbound'["client"] = outbound["client"] /\ UNCHANGED wire
      BY <1>1, <1>8, <2>2, BothSides DEF CloseQueue
    <3> QED BY <1>0, <1>a, <3>1 DEF FinPassed
  <2> QED BY <2>1, <2>2
<1>9. ASSUME NEW p \in Sides, NEW i \in Ids, Enqueue(p, i) PROVE FinPassed(j)'
  <2>1. CASE p = "client" /\ outbound' # outbound
    <3>1. /\ \A q \in Sides : q # "client" => outbound'[q] = outbound[q]
          /\ Appends(outbound["client"], outbound'["client"], Frame(i, sent[p][i] + 1))
      BY <1>0, <1>9, <2>1, EnqueueFrames
    <3>2. Frame(i, sent[p][i] + 1).id # j
      BY <1>a, <1>9, <2>1 DEF Enqueue, Finished, Frame
    <3>3. \A l \in DOMAIN outbound'["client"] : outbound'["client"][l].id # j
      BY <1>0, <3>1, <3>2 DEF FinPassed
    <3> QED BY <1>0, <1>a, <1>9, <3>3 DEF Enqueue, FinPassed
  <2>2. CASE p # "client" \/ outbound' = outbound
    <3>1. outbound'["client"] = outbound["client"] /\ UNCHANGED wire
      BY <1>1, <1>9, <2>2, BothSides DEF Enqueue
    <3> QED BY <1>0, <1>a, <3>1 DEF FinPassed
  <2> QED BY <2>1, <2>2
<1>10. ASSUME NEW p \in Sides, NEW i \in Ids, CloseFin(p, i) PROVE FinPassed(j)'
  <2>1. CASE p = "client" /\ outbound' # outbound
    <3>1. /\ \A q \in Sides : q # "client" => outbound'[q] = outbound[q]
          /\ Appends(outbound["client"], outbound'["client"], Frame(i, Fin))
      BY <1>0, <1>10, <2>1, CloseFinFrames
    <3>2. Frame(i, Fin).id # j
      BY <1>a, <1>10, <2>1 DEF CloseFin, Finished, Frame
    <3>3. \A l \in DOMAIN outbound'["client"] : outbound'["client"][l].id # j
      BY <1>0, <3>1, <3>2 DEF FinPassed
    <3> QED BY <1>0, <1>a, <1>10, <3>3 DEF CloseFin, FinPassed
  <2>2. CASE p # "client" \/ outbound' = outbound
    <3>1. outbound'["client"] = outbound["client"] /\ UNCHANGED wire
      BY <1>1, <1>10, <2>2, BothSides DEF CloseFin
    <3> QED BY <1>0, <1>a, <3>1 DEF FinPassed
  <2> QED BY <2>1, <2>2
<1> QED
  BY <1>2, <1>3, <1>4, <1>5, <1>6, <1>7, <1>8, <1>9, <1>10
     DEF Next, AppStep, ReaderStep, WriterStep, CloseStep, StreamStep

(* What the reader and the decode loop do to the queue of a stream. *)
LEMMA PushFrames ==
    ASSUME TypeOK, Framed, NEW p \in Sides, Push(p)
    PROVE  \A q \in Sides, j \in Ids : \A k \in DOMAIN incoming'[q][j] :
              \/ k \in DOMAIN incoming[q][j] /\ incoming'[q][j][k] = incoming[q][j][k]
              \/ q = p /\ j = rframe[p].id /\ incoming'[q][j][k] = rframe[p].msg
<1>1. incoming \in [Sides -> [Ids -> Seq(Numbers \cup {Fin})]] /\ rframe[p].id \in Ids
  BY DEF TypeOK, EachStream, Framed, Frames, Push
<1>2. rframe[p].msg \in Numbers \cup {Fin}
  <2>1. rframe[p].msg \in 0..MaxSend(Peer(p))
    BY DEF Framed, Frames, Push
  <2> QED BY <2>1, Constants, PeerFacts DEF Fin
<1>3. CASE UNCHANGED incoming
  BY <1>3
<1>4. CASE incoming' = [incoming EXCEPT ![p][rframe[p].id] = Append(@, rframe[p].msg)]
  <2>1. /\ incoming'[p][rframe[p].id] = Append(incoming[p][rframe[p].id], rframe[p].msg)
        /\ \A q \in Sides, j \in Ids : q # p \/ j # rframe[p].id => incoming'[q][j] = incoming[q][j]
        /\ incoming[p][rframe[p].id] \in Seq(Numbers \cup {Fin})
    BY <1>1, <1>4
  <2>2. \A k \in DOMAIN incoming'[p][rframe[p].id] :
           \/ k \in DOMAIN incoming[p][rframe[p].id]
              /\ incoming'[p][rframe[p].id][k] = incoming[p][rframe[p].id][k]
           \/ incoming'[p][rframe[p].id][k] = rframe[p].msg
    BY <1>2, <2>1, AppendFacts
  <2> QED BY <2>1, <2>2
<1> QED BY <1>3, <1>4 DEF Push

(* The decode loop takes the head of incoming and moves up what follows. *)
LEMMA TakeFrames ==
    ASSUME TypeOK, NEW p \in Sides, NEW i \in Ids, DecodeTake(p, i) \/ DecodeFin(p, i)
    PROVE  /\ \A q \in Sides, j \in Ids : \A k \in DOMAIN incoming'[q][j] :
                 \/ k + 1 \in DOMAIN incoming[q][j] /\ incoming'[q][j][k] = incoming[q][j][k + 1]
                 \/ k \in DOMAIN incoming[q][j] /\ incoming'[q][j][k] = incoming[q][j][k]
           /\ 1 \in DOMAIN incoming[p][i] /\ Head(incoming[p][i]) = incoming[p][i][1]
<1>1. incoming \in [Sides -> [Ids -> Seq(Numbers \cup {Fin})]]
  BY DEF TypeOK, EachStream
<1>2. incoming' = [incoming EXCEPT ![p][i] = Tail(incoming[p][i])]
  BY DEF DecodeTake, DecodeFin
<1>3. /\ incoming'[p][i] = Tail(incoming[p][i]) /\ incoming[p][i] \in Seq(Numbers \cup {Fin})
      /\ \A q \in Sides, j \in Ids : q # p \/ j # i => incoming'[q][j] = incoming[q][j]
  BY <1>1, <1>2
<1> DEFINE s == incoming[p][i]
<1>7. s # <<>> /\ s \in Seq(Numbers \cup {Fin})
  BY <1>3 DEF DecodeTake, DecodeFin
<1> HIDE DEF s
<1>8. /\ Len(s) \in Nat /\ 1 \in DOMAIN s /\ Head(s) = s[1] /\ DOMAIN s = 1..Len(s)
      /\ DOMAIN Tail(s) = 1..(Len(s) - 1)
      /\ \A k \in 1..(Len(s) - 1) : Tail(s)[k] = s[k + 1]
  BY <1>7, TailFacts
<1> USE DEF s
<1>4. /\ 1 \in DOMAIN incoming[p][i] /\ Head(incoming[p][i]) = incoming[p][i][1]
      /\ Len(incoming[p][i]) \in Nat /\ DOMAIN incoming[p][i] = 1..Len(incoming[p][i])
      /\ DOMAIN incoming'[p][i] = 1..(Len(incoming[p][i]) - 1)
      /\ \A k \in 1..(Len(incoming[p][i]) - 1) : incoming'[p][i][k] = incoming[p][i][k + 1]
  BY <1>3, <1>8
<1>5. \A k \in DOMAIN incoming'[p][i] :
         k + 1 \in DOMAIN incoming[p][i] /\ incoming'[p][i][k] = incoming[p][i][k + 1]
  BY <1>4
<1>6. ASSUME NEW q \in Sides, NEW j \in Ids, NEW k \in DOMAIN incoming'[q][j]
      PROVE  \/ k + 1 \in DOMAIN incoming[q][j] /\ incoming'[q][j][k] = incoming[q][j][k + 1]
             \/ k \in DOMAIN incoming[q][j] /\ incoming'[q][j][k] = incoming[q][j][k]
  <2>1. CASE q = p /\ j = i
    BY <1>5, <1>6, <2>1
  <2>2. CASE q # p \/ j # i
    BY <1>3, <1>6, <2>2
  <2> QED BY <2>1, <2>2
<1> QED BY <1>4, <1>6

(* The FIN that the server reads was the last frame of its stream. *)
LEMMA ReadFinPasses ==
    ASSUME TableInv, Next, ReadFin("server")
    PROVE  \E j \in Ids : Head(wire["server"]).id = j /\ FinPassed(j)'
<1>1. TypeOK /\ Framed /\ FinsLast /\ UNCHANGED outbound
  BY DEF TableInv, ReadFin, outVars
<1>2. /\ \A q \in Sides : q # "server" => wire'[q] = wire[q]
      /\ Takes(wire["server"], wire'["server"])
  BY <1>1, BothSides, ReadFrames DEF ReadFin
<1>3. wire["server"][1] \in Frames("client") /\ wire["server"][1].msg = Fin
  BY <1>1, <1>2, BothSides DEF Framed, ReadFin
<1>4. PICK i \in Ids : wire["server"][1] = Frame(i, Fin) /\ wire["server"][1].id = i
  BY <1>3 DEF Frames, Frame
<1>5. /\ Finished(i)
      /\ \A l \in DOMAIN wire["server"] : l > 1 => wire["server"][l].id # i
      /\ \A l \in DOMAIN outbound["client"] : outbound["client"][l].id # i
  BY <1>1, <1>2, <1>4 DEF FinsLast
<1>6. Finished(i)'
  BY <1>4, <1>5, FinishedStays
<1>7. \A l \in DOMAIN wire'["server"] : wire'["server"][l].id # i
  BY <1>2, <1>5
<1> QED BY <1>1, <1>2, <1>4, <1>5, <1>6, <1>7 DEF FinPassed

(* A stream that has left the table of a server has no frame left. *)
LEMMA NextFinsPass ==
    ASSUME TableInv, Next
    PROVE  FinsPass'
<1> USE DEF connVars, outVars, tableVars, readerVars, queueVars, streamVars, appVars, netVars
<1>0. /\ FinsPass
      /\ TypeOK
      /\ Framed
      /\ ClosersShut
      /\ ClientFins
      /\ Unborn
  BY DEF TableInv
<1>1. /\ rpc \in [Sides -> {"read", "push", "drain", "end"}]
      /\ rframe \in [Sides -> [id : 0..NStreams, msg : Nat]]
      /\ incoming \in [Sides -> [Ids -> Seq(Numbers \cup {Fin})]]
      /\ opened \in [Sides -> [Ids -> Nat]]
      /\ open \in [Sides -> SUBSET Ids]
      /\ reserved \in [Sides -> SUBSET Ids]
      /\ closed \in [Sides -> BOOLEAN]
      /\ closer \in [Sides -> [Ids -> {"idle", "queue", "remove", "done"}]]
  BY DEF TableInv, TypeOK, Each, EachStream
<1>a. \A j \in Ids : FinPassed(j) => FinPassed(j)'
  BY FinPassedStays
<1>b. /\ closed["server"] => closed'["server"]
      /\ Reads("server")' => Reads("server")
      /\ Reads("client")' => Reads("client")
  BY ClosedStays, ReadsNoMore, BothSides
<1>c. rpc["server"] = "push" => rframe["server"].id \in Ids
  BY <1>0, BothSides DEF Framed, Frames
<1>2. CASE Break
  <2>1. UNCHANGED <<rpc, rframe, incoming, opened, open, reserved, closed, closer>>
    BY <1>2 DEF Break
  <2> QED BY <1>0, <1>a, <1>b, <1>c, <2>1 DEF FinsPass
<1>3. CASE \E p \in Sides : WriterEnd(p) \/ CloseQueue(p) \/ CloseWrite(p)
  <2>1. UNCHANGED <<rpc, rframe, incoming, opened, open, reserved, closed, closer>>
    BY <1>3 DEF WriterEnd, CloseQueue, CloseWrite
  <2> QED BY <1>0, <1>a, <1>b, <1>c, <2>1 DEF FinsPass
<1>4. CASE \E p \in Sides, i \in Ids : Send(p, i) \/ Enqueue(p, i) \/ SendClosed(p, i) \/
                                       Recv(p, i) \/ Dispatch(p, i) \/ DecodeEnd(p, i)
  <2>1. UNCHANGED <<rpc, rframe, incoming, opened, open, reserved, closed, closer>>
    BY <1>4 DEF Send, Enqueue, SendClosed, Recv, Dispatch, DecodeEnd
  <2> QED BY <1>0, <1>a, <1>b, <1>c, <2>1 DEF FinsPass
<1>5. CASE NewStream
  <2>1. rpc'["server"] = "push" /\ rframe'["server"].msg = Fin =>
           \E j \in Ids : rframe'["server"].id = j /\ FinPassed(j)'
    <3>1. UNCHANGED <<rpc, rframe>>
      BY <1>5 DEF NewStream
    <3> QED BY <1>0, <1>a, <1>c, <3>1 DEF FinsPass
  <2>2. \A j \in Ids : Reads("server")' =>
           \A k \in DOMAIN incoming'["server"][j] : incoming'["server"][j][k] = Fin => FinPassed(j)'
    <3>1. UNCHANGED <<incoming>>
      BY <1>5 DEF NewStream
    <3> QED BY <1>0, <1>a, <1>b, <3>1 DEF FinsPass
  <2>3. \A j \in Ids : /\ Reads("server")' /\ opened'["server"][j] = 1 /\ ~closed'["server"]
                       /\ j \notin open'["server"] \/ closer'["server"][j] = "remove"
                       /\ j \notin reserved'["server"]
                       => FinPassed(j)'
    <3>1. /\ opened'["server"] = opened["server"] /\ open'["server"] = open["server"]
          /\ UNCHANGED <<reserved, closer>>
      BY <1>1, <1>5, BothSides DEF NewStream, Register
    <3> QED BY <1>0, <1>a, <1>b, <3>1 DEF FinsPass
  <2>4. \A j \in Ids : Reads("client")' =>
           \A k \in DOMAIN incoming'["client"][j] : incoming'["client"][j][k] # Fin
    <3>1. UNCHANGED <<incoming>>
      BY <1>5 DEF NewStream
    <3> QED BY <1>0, <1>a, <1>b, <3>1 DEF FinsPass
  <2> QED BY <2>1, <2>2, <2>3, <2>4 DEF FinsPass
<1>6. ASSUME NEW p \in Sides, CloseAllStreams(p) PROVE FinsPass'
  <2>1. rpc'["server"] = "push" /\ rframe'["server"].msg = Fin =>
           \E j \in Ids : rframe'["server"].id = j /\ FinPassed(j)'
    <3>1. UNCHANGED <<rpc, rframe>>
      BY <1>6 DEF CloseAllStreams
    <3> QED BY <1>0, <1>a, <1>c, <3>1 DEF FinsPass
  <2>2. \A j \in Ids : Reads("server")' =>
           \A k \in DOMAIN incoming'["server"][j] : incoming'["server"][j][k] = Fin => FinPassed(j)'
    <3>1. UNCHANGED <<incoming>>
      BY <1>6 DEF CloseAllStreams
    <3> QED BY <1>0, <1>a, <1>b, <3>1 DEF FinsPass
  <2>3. \A j \in Ids : /\ Reads("server")' /\ opened'["server"][j] = 1 /\ ~closed'["server"]
                       /\ j \notin open'["server"] \/ closer'["server"][j] = "remove"
                       /\ j \notin reserved'["server"]
                       => FinPassed(j)'
    <3>1. UNCHANGED <<opened, reserved, closer>> /\ closed[p]
      BY <1>6 DEF CloseAllStreams
    <3>2. p # "server" => open'["server"] = open["server"]
      BY <1>1, <1>6, BothSides DEF CloseAllStreams
    <3> QED BY <1>0, <1>a, <1>b, <3>1, <3>2 DEF FinsPass
  <2>4. \A j \in Ids : Reads("client")' =>
           \A k \in DOMAIN incoming'["client"][j] : incoming'["client"][j][k] # Fin
    <3>1. UNCHANGED <<incoming>>
      BY <1>6 DEF CloseAllStreams
    <3> QED BY <1>0, <1>a, <1>b, <3>1 DEF FinsPass
  <2> QED BY <2>1, <2>2, <2>3, <2>4 DEF FinsPass
<1>7. ASSUME NEW p \in Sides, ReadFin(p) PROVE FinsPass'
  <2>1. rpc'["server"] = "push" /\ rframe'["server"].msg = Fin =>
           \E j \in Ids : rframe'["server"].id = j /\ FinPassed(j)'
    <3>1. CASE p = "server"
      <4>1. rframe'["server"] = Head(wire["server"]) /\ p = "server"
        BY <1>1, <1>7, <3>1, BothSides DEF ReadFin
      <4>2. \E j \in Ids : Head(wire["server"]).id = j /\ FinPassed(j)'
        BY <1>7, <3>1, ReadFinPasses
      <4> QED BY <4>1, <4>2
    <3>2. CASE p # "server"
      <4>1. rframe'["server"] = rframe["server"] /\ rpc'["server"] = rpc["server"]
        BY <1>1, <1>7, <3>2, BothSides DEF ReadFin
      <4> QED BY <1>0, <1>a, <1>c, <4>1 DEF FinsPass
    <3> QED BY <3>1, <3>2
  <2>2. \A j \in Ids : Reads("server")' =>
           \A k \in DOMAIN incoming'["server"][j] : incoming'["server"][j][k] = Fin => FinPassed(j)'
    <3>1. UNCHANGED <<incoming>>
      BY <1>7 DEF ReadFin
    <3> QED BY <1>0, <1>a, <1>b, <3>1 DEF FinsPass
  <2>3. \A j \in Ids : /\ Reads("server")' /\ opened'["server"][j] = 1 /\ ~closed'["server"]
                       /\ j \notin open'["server"] \/ closer'["server"][j] = "remove"
                       /\ j \notin reserved'["server"]
                       => FinPassed(j)'
    <3>1. UNCHANGED <<opened, open, closer>>
      BY <1>7 DEF ReadFin
    <3>2. CASE p = "server"
      <4>1. \A j \in Ids : j \notin reserved'["server"] =>
               j \notin reserved["server"] \/ j = Head(wire["server"]).id
        BY <1>1, <1>7, <3>2, BothSides DEF ReadFin
      <4>2. \E j \in Ids : Head(wire["server"]).id = j /\ FinPassed(j)'
        BY <1>7, <3>2, ReadFinPasses
      <4> QED BY <1>0, <1>a, <1>b, <3>1, <4>1, <4>2 DEF FinsPass
    <3>3. CASE p # "server"
      <4>1. reserved'["server"] = reserved["server"]
        BY <1>1, <1>7, <3>3, BothSides DEF ReadFin
      <4> QED BY <1>0, <1>a, <1>b, <3>1, <4>1 DEF FinsPass
    <3> QED BY <3>2, <3>3
  <2>4. \A j \in Ids : Reads("client")' =>
           \A k \in DOMAIN incoming'["client"][j] : incoming'["client"][j][k] # Fin
    <3>1. UNCHANGED <<incoming>>
      BY <1>7 DEF ReadFin
    <3> QED BY <1>0, <1>a, <1>b, <3>1 DEF FinsPass
  <2> QED BY <2>1, <2>2, <2>3, <2>4 DEF FinsPass
<1>8. ASSUME NEW p \in Sides, ReadMessage(p) PROVE FinsPass'
  <2>1. rpc'["server"] = "push" /\ rframe'["server"].msg = Fin =>
           \E j \in Ids : rframe'["server"].id = j /\ FinPassed(j)'
    <3>1. CASE p = "server"
      <4>1. rframe'["server"].msg # Fin
        BY <1>1, <1>8, <3>1, BothSides DEF ReadMessage
      <4> QED BY <4>1
    <3>2. CASE p # "server"
      <4>1. rframe'["server"] = rframe["server"] /\ rpc'["server"] = rpc["server"]
        BY <1>1, <1>8, <3>2, BothSides DEF ReadMessage
      <4> QED BY <1>0, <1>a, <1>c, <4>1 DEF FinsPass
    <3> QED BY <3>1, <3>2
  <2>2. \A j \in Ids : Reads("server")' =>
           \A k \in DOMAIN incoming'["server"][j] : incoming'["server"][j][k] = Fin => FinPassed(j)'
    <3>1. UNCHANGED <<incoming>>
      BY <1>8 DEF ReadMessage
    <3> QED BY <1>0, <1>a, <1>b, <3>1 DEF FinsPass
  <2>3. \A j \in Ids : /\ Reads("server")' /\ opened'["server"][j] = 1 /\ ~closed'["server"]
                       /\ j \notin open'["server"] \/ closer'["server"][j] = "remove"
                       /\ j \notin reserved'["server"]
                       => FinPassed(j)'
    <3> DEFINE m == Head(wire[p]).id
    <3>1. UNCHANGED <<reserved, closer>> /\ m \in Ids
      BY <1>0, <1>8, ReadFrames DEF ReadMessage, Framed, Frames
    <3>2. CASE UNCHANGED <<open, opened>>
      BY <1>0, <1>a, <1>b, <3>1, <3>2 DEF FinsPass
    <3>3. CASE Register(p, m) /\ m \notin open[p] /\ ~KnownClosed(p, m)
      <4>1. opened[p][m] = 0
        BY <1>8, <3>3, NotReopened
      <4>2. closer[p][m] = "idle"
        BY <1>0, <3>1, <4>1 DEF Unborn
      <4>3. \A j \in Ids : p # "server" \/ j # m =>
               (j \in open'["server"] <=> j \in open["server"]) /\ opened'["server"][j] = opened["server"][j]
        BY <1>0, <3>1, <3>3, RegisterFacts, BothSides
      <4>4. p = "server" => m \in open'["server"]
        BY <1>0, <3>1, <3>3, RegisterFacts
      <4> QED BY <1>0, <1>a, <1>b, <3>1, <4>2, <4>3, <4>4 DEF FinsPass
    <3> QED BY <1>8, <3>2, <3>3 DEF ReadMessage
  <2>4. \A j \in Ids : Reads("client")' =>
           \A k \in DOMAIN incoming'["client"][j] : incoming'["client"][j][k] # Fin
    <3>1. UNCHANGED <<incoming>>
      BY <1>8 DEF ReadMessage
    <3> QED BY <1>0, <1>a, <1>b, <3>1 DEF FinsPass
  <2> QED BY <2>1, <2>2, <2>3, <2>4 DEF FinsPass
<1>9. ASSUME NEW p \in Sides, Push(p) PROVE FinsPass'
  <2>1. rpc'["server"] = "push" /\ rframe'["server"].msg = Fin =>
           \E j \in Ids : rframe'["server"].id = j /\ FinPassed(j)'
    <3>1. rpc'["server"] = "push" => rpc["server"] = "push"
      BY <1>1, <1>9, BothSides DEF Push
    <3>2. UNCHANGED rframe
      BY <1>9 DEF Push
    <3> QED BY <1>0, <1>a, <1>c, <3>1, <3>2 DEF FinsPass
  <2>2. \A j \in Ids : Reads("server")' =>
           \A k \in DOMAIN incoming'["server"][j] : incoming'["server"][j][k] = Fin => FinPassed(j)'
    <3>1. rframe[p].id \in Ids /\ rpc[p] = "push"
      BY <1>0, <1>9 DEF Push, Framed, Frames
    <3>2. \A q \in Sides, j \in Ids : \A k \in DOMAIN incoming'[q][j] :
             \/ k \in DOMAIN incoming[q][j] /\ incoming'[q][j][k] = incoming[q][j][k]
             \/ q = p /\ j = rframe[p].id /\ incoming'[q][j][k] = rframe[p].msg
      BY <1>0, <1>9, PushFrames
    <3> QED BY <1>0, <1>a, <1>b, <3>1, <3>2, BothSides DEF FinsPass
  <2>3. \A j \in Ids : /\ Reads("server")' /\ opened'["server"][j] = 1 /\ ~closed'["server"]
                       /\ j \notin open'["server"] \/ closer'["server"][j] = "remove"
                       /\ j \notin reserved'["server"]
                       => FinPassed(j)'
    <3>1. UNCHANGED <<opened, open, reserved, closer>>
      BY <1>9 DEF Push
    <3> QED BY <1>0, <1>a, <1>b, <3>1 DEF FinsPass
  <2>4. \A j \in Ids : Reads("client")' =>
           \A k \in DOMAIN incoming'["client"][j] : incoming'["client"][j][k] # Fin
    <3>1. rframe[p].id \in Ids /\ rpc[p] = "push"
      BY <1>0, <1>9 DEF Push, Framed, Frames
    <3>2. \A q \in Sides, j \in Ids : \A k \in DOMAIN incoming'[q][j] :
             \/ k \in DOMAIN incoming[q][j] /\ incoming'[q][j][k] = incoming[q][j][k]
             \/ q = p /\ j = rframe[p].id /\ incoming'[q][j][k] = rframe[p].msg
      BY <1>0, <1>9, PushFrames
    <3> QED BY <1>0, <1>a, <1>b, <3>1, <3>2, BothSides DEF FinsPass, ClientFins
  <2> QED BY <2>1, <2>2, <2>3, <2>4 DEF FinsPass
<1>10. ASSUME NEW p \in Sides, ReadError(p) PROVE FinsPass'
  <2>1. rpc'["server"] = "push" /\ rframe'["server"].msg = Fin =>
           \E j \in Ids : rframe'["server"].id = j /\ FinPassed(j)'
    <3>1. (rpc'["server"] = "push" => rpc["server"] = "push") /\ UNCHANGED rframe
      BY <1>1, <1>10, BothSides DEF ReadError
    <3> QED BY <1>0, <1>a, <1>c, <3>1 DEF FinsPass
  <2>2. \A j \in Ids : Reads("server")' =>
           \A k \in DOMAIN incoming'["server"][j] : incoming'["server"][j][k] = Fin => FinPassed(j)'
    <3>1. UNCHANGED <<incoming>>
      BY <1>10 DEF ReadError
    <3> QED BY <1>0, <1>a, <1>b, <3>1 DEF FinsPass
  <2>3. \A j \in Ids : /\ Reads("server")' /\ opened'["server"][j] = 1 /\ ~closed'["server"]
                       /\ j \notin open'["server"] \/ closer'["server"][j] = "remove"
                       /\ j \notin reserved'["server"]
                       => FinPassed(j)'
    <3>1. UNCHANGED <<opened, open, reserved, closer>>
      BY <1>10 DEF ReadError
    <3> QED BY <1>0, <1>a, <1>b, <3>1 DEF FinsPass
  <2>4. \A j \in Ids : Reads("client")' =>
           \A k \in DOMAIN incoming'["client"][j] : incoming'["client"][j][k] # Fin
    <3>1. UNCHANGED <<incoming>>
      BY <1>10 DEF ReadError
    <3> QED BY <1>0, <1>a, <1>b, <3>1 DEF FinsPass
  <2> QED BY <2>1, <2>2, <2>3, <2>4 DEF FinsPass
<1>11. ASSUME NEW p \in Sides, ReadEOF(p) PROVE FinsPass'
  <2>1. rpc'["server"] = "push" /\ rframe'["server"].msg = Fin =>
           \E j \in Ids : rframe'["server"].id = j /\ FinPassed(j)'
    <3>1. (rpc'["server"] = "push" => rpc["server"] = "push") /\ UNCHANGED rframe
      BY <1>1, <1>11, BothSides DEF ReadEOF
    <3> QED BY <1>0, <1>a, <1>c, <3>1 DEF FinsPass
  <2>2. \A j \in Ids : Reads("server")' =>
           \A k \in DOMAIN incoming'["server"][j] : incoming'["server"][j][k] = Fin => FinPassed(j)'
    <3>1. UNCHANGED <<incoming>>
      BY <1>11 DEF ReadEOF
    <3> QED BY <1>0, <1>a, <1>b, <3>1 DEF FinsPass
  <2>3. \A j \in Ids : /\ Reads("server")' /\ opened'["server"][j] = 1 /\ ~closed'["server"]
                       /\ j \notin open'["server"] \/ closer'["server"][j] = "remove"
                       /\ j \notin reserved'["server"]
                       => FinPassed(j)'
    <3>1. UNCHANGED <<opened, open, reserved, closer>>
      BY <1>11 DEF ReadEOF
    <3> QED BY <1>0, <1>a, <1>b, <3>1 DEF FinsPass
  <2>4. \A j \in Ids : Reads("client")' =>
           \A k \in DOMAIN incoming'["client"][j] : incoming'["client"][j][k] # Fin
    <3>1. UNCHANGED <<incoming>>
      BY <1>11 DEF ReadEOF
    <3> QED BY <1>0, <1>a, <1>b, <3>1 DEF FinsPass
  <2> QED BY <2>1, <2>2, <2>3, <2>4 DEF FinsPass
<1>12. ASSUME NEW p \in Sides, DrainEnd(p) PROVE FinsPass'
  <2>1. rpc'["server"] = "push" /\ rframe'["server"].msg = Fin =>
           \E j \in Ids : rframe'["server"].id = j /\ FinPassed(j)'
    <3>1. (rpc'["server"] = "push" => rpc["server"] = "push") /\ UNCHANGED rframe
      BY <1>1, <1>12, BothSides DEF DrainEnd
    <3> QED BY <1>0, <1>a, <1>c, <3>1 DEF FinsPass
  <2>2. \A j \in Ids : Reads("server")' =>
           \A k \in DOMAIN incoming'["server"][j] : incoming'["server"][j][k] = Fin => FinPassed(j)'
    <3>1. UNCHANGED <<incoming>>
      BY <1>12 DEF DrainEnd
    <3> QED BY <1>0, <1>a, <1>b, <3>1 DEF FinsPass
  <2>3. \A j \in Ids : /\ Reads("server")' /\ opened'["server"][j] = 1 /\ ~closed'["server"]
                       /\ j \notin open'["server"] \/ closer'["server"][j] = "remove"
                       /\ j \notin reserved'["server"]
                       => FinPassed(j)'
    <3>1. UNCHANGED <<opened, open, reserved, closer>>
      BY <1>12 DEF DrainEnd
    <3> QED BY <1>0, <1>a, <1>b, <3>1 DEF FinsPass
  <2>4. \A j \in Ids : Reads("client")' =>
           \A k \in DOMAIN incoming'["client"][j] : incoming'["client"][j][k] # Fin
    <3>1. UNCHANGED <<incoming>>
      BY <1>12 DEF DrainEnd
    <3> QED BY <1>0, <1>a, <1>b, <3>1 DEF FinsPass
  <2> QED BY <2>1, <2>2, <2>3, <2>4 DEF FinsPass
<1>13. ASSUME NEW p \in Sides, Write(p) PROVE FinsPass'
  <2>1. rpc'["server"] = "push" /\ rframe'["server"].msg = Fin =>
           \E j \in Ids : rframe'["server"].id = j /\ FinPassed(j)'
    <3>1. (rpc'["server"] = "push" => rpc["server"] = "push") /\ UNCHANGED rframe
      BY <1>1, <1>13, BothSides DEF Write
    <3> QED BY <1>0, <1>a, <1>c, <3>1 DEF FinsPass
  <2>2. \A j \in Ids : Reads("server")' =>
           \A k \in DOMAIN incoming'["server"][j] : incoming'["server"][j][k] = Fin => FinPassed(j)'
    <3>1. UNCHANGED <<incoming>>
      BY <1>13 DEF Write
    <3> QED BY <1>0, <1>a, <1>b, <3>1 DEF FinsPass
  <2>3. \A j \in Ids : /\ Reads("server")' /\ opened'["server"][j] = 1 /\ ~closed'["server"]
                       /\ j \notin open'["server"] \/ closer'["server"][j] = "remove"
                       /\ j \notin reserved'["server"]
                       => FinPassed(j)'
    <3>1. UNCHANGED <<opened, open, reserved, closer>>
      BY <1>13 DEF Write
    <3> QED BY <1>0, <1>a, <1>b, <3>1 DEF FinsPass
  <2>4. \A j \in Ids : Reads("client")' =>
           \A k \in DOMAIN incoming'["client"][j] : incoming'["client"][j][k] # Fin
    <3>1. UNCHANGED <<incoming>>
      BY <1>13 DEF Write
    <3> QED BY <1>0, <1>a, <1>b, <3>1 DEF FinsPass
  <2> QED BY <2>1, <2>2, <2>3, <2>4 DEF FinsPass
<1>14. ASSUME NEW p \in Sides, Close(p) PROVE FinsPass'
  <2>1. rpc'["server"] = "push" /\ rframe'["server"].msg = Fin =>
           \E j \in Ids : rframe'["server"].id = j /\ FinPassed(j)'
    <3>1. (rpc'["server"] = "push" => rpc["server"] = "push") /\ UNCHANGED rframe
      BY <1>1, <1>14, BothSides DEF Close
    <3> QED BY <1>0, <1>a, <1>c, <3>1 DEF FinsPass
  <2>2. \A j \in Ids : Reads("server")' =>
           \A k \in DOMAIN incoming'["server"][j] : incoming'["server"][j][k] = Fin => FinPassed(j)'
    <3>1. UNCHANGED <<incoming>>
      BY <1>14 DEF Close
    <3> QED BY <1>0, <1>a, <1>b, <3>1 DEF FinsPass
  <2>3. \A j \in Ids : /\ Reads("server")' /\ opened'["server"][j] = 1 /\ ~closed'["server"]
                       /\ j \notin open'["server"] \/ closer'["server"][j] = "remove"
                       /\ j \notin reserved'["server"]
                       => FinPassed(j)'
    <3>1. UNCHANGED <<opened, open, reserved, closer>>
      BY <1>14 DEF Close
    <3> QED BY <1>0, <1>a, <1>b, <3>1 DEF FinsPass
  <2>4. \A j \in Ids : Reads("client")' =>
           \A k \in DOMAIN incoming'["client"][j] : incoming'["client"][j][k] # Fin
    <3>1. UNCHANGED <<incoming>>
      BY <1>14 DEF Close
    <3> QED BY <1>0, <1>a, <1>b, <3>1 DEF FinsPass
  <2> QED BY <2>1, <2>2, <2>3, <2>4 DEF FinsPass
<1>15. ASSUME NEW p \in Sides, CloseEnd(p) PROVE FinsPass'
  <2>1. rpc'["server"] = "push" /\ rframe'["server"].msg = Fin =>
           \E j \in Ids : rframe'["server"].id = j /\ FinPassed(j)'
    <3>1. (rpc'["server"] = "push" => rpc["server"] = "push") /\ UNCHANGED rframe
      BY <1>1, <1>15, BothSides DEF CloseEnd
    <3> QED BY <1>0, <1>a, <1>c, <3>1 DEF FinsPass
  <2>2. \A j \in Ids : Reads("server")' =>
           \A k \in DOMAIN incoming'["server"][j] : incoming'["server"][j][k] = Fin => FinPassed(j)'
    <3>1. UNCHANGED <<incoming>>
      BY <1>15 DEF CloseEnd
    <3> QED BY <1>0, <1>a, <1>b, <3>1 DEF FinsPass
  <2>3. \A j \in Ids : /\ Reads("server")' /\ opened'["server"][j] = 1 /\ ~closed'["server"]
                       /\ j \notin open'["server"] \/ closer'["server"][j] = "remove"
                       /\ j \notin reserved'["server"]
                       => FinPassed(j)'
    <3>1. UNCHANGED <<opened, open, reserved, closer>>
      BY <1>15 DEF CloseEnd
    <3> QED BY <1>0, <1>a, <1>b, <3>1 DEF FinsPass
  <2>4. \A j \in Ids : Reads("client")' =>
           \A k \in DOMAIN incoming'["client"][j] : incoming'["client"][j][k] # Fin
    <3>1. UNCHANGED <<incoming>>
      BY <1>15 DEF CloseEnd
    <3> QED BY <1>0, <1>a, <1>b, <3>1 DEF FinsPass
  <2> QED BY <2>1, <2>2, <2>3, <2>4 DEF FinsPass
<1>16. ASSUME NEW p \in Sides, NEW i \in Ids, CloseOpened(p, i) PROVE FinsPass'
  <2>1. rpc'["server"] = "push" /\ rframe'["server"].msg = Fin =>
           \E j \in Ids : rframe'["server"].id = j /\ FinPassed(j)'
    <3>1. UNCHANGED <<rpc, rframe>>
      BY <1>16 DEF CloseOpened
    <3> QED BY <1>0, <1>a, <1>c, <3>1 DEF FinsPass
  <2>2. \A j \in Ids : Reads("server")' =>
           \A k \in DOMAIN incoming'["server"][j] : incoming'["server"][j][k] = Fin => FinPassed(j)'
    <3>1. UNCHANGED <<incoming>>
      BY <1>16 DEF CloseOpened
    <3> QED BY <1>0, <1>a, <1>b, <3>1 DEF FinsPass
  <2>3. \A j \in Ids : /\ Reads("server")' /\ opened'["server"][j] = 1 /\ ~closed'["server"]
                       /\ j \notin open'["server"] \/ closer'["server"][j] = "remove"
                       /\ j \notin reserved'["server"]
                       => FinPassed(j)'
    <3>1. UNCHANGED <<opened, open, reserved>> /\ p = "client"
      BY <1>0, <1>16 DEF CloseOpened, OpenedStream, ClosersShut, Sides
    <3>2. closer'["server"] = closer["server"]
      BY <1>1, <1>16, <3>1, BothSides DEF CloseOpened
    <3> QED BY <1>0, <1>a, <1>b, <3>1, <3>2 DEF FinsPass
  <2>4. \A j \in Ids : Reads("client")' =>
           \A k \in DOMAIN incoming'["client"][j] : incoming'["client"][j][k] # Fin
    <3>1. UNCHANGED <<incoming>>
      BY <1>16 DEF CloseOpened
    <3> QED BY <1>0, <1>a, <1>b, <3>1 DEF FinsPass
  <2> QED BY <2>1, <2>2, <2>3, <2>4 DEF FinsPass
<1>17. ASSUME NEW p \in Sides, NEW i \in Ids, CloseFin(p, i) PROVE FinsPass'
  <2>1. rpc'["server"] = "push" /\ rframe'["server"].msg = Fin =>
           \E j \in Ids : rframe'["server"].id = j /\ FinPassed(j)'
    <3>1. UNCHANGED <<rpc, rframe>>
      BY <1>17 DEF CloseFin
    <3> QED BY <1>0, <1>a, <1>c, <3>1 DEF FinsPass
  <2>2. \A j \in Ids : Reads("server")' =>
           \A k \in DOMAIN incoming'["server"][j] : incoming'["server"][j][k] = Fin => FinPassed(j)'
    <3>1. UNCHANGED <<incoming>>
      BY <1>17 DEF CloseFin
    <3> QED BY <1>0, <1>a, <1>b, <3>1 DEF FinsPass
  <2>3. \A j \in Ids : /\ Reads("server")' /\ opened'["server"][j] = 1 /\ ~closed'["server"]
                       /\ j \notin open'["server"] \/ closer'["server"][j] = "remove"
                       /\ j \notin reserved'["server"]
                       => FinPassed(j)'
    <3>1. UNCHANGED <<opened, open, reserved>> /\ p = "client"
      BY <1>0, <1>17 DEF CloseFin, OpenedStream, ClosersShut, Sides
    <3>2. closer'["server"] = closer["server"]
      BY <1>1, <1>17, <3>1, BothSides DEF CloseFin
    <3> QED BY <1>0, <1>a, <1>b, <3>1, <3>2 DEF FinsPass
  <2>4. \A j \in Ids : Reads("client")' =>
           \A k \in DOMAIN incoming'["client"][j] : incoming'["client"][j][k] # Fin
    <3>1. UNCHANGED <<incoming>>
      BY <1>17 DEF CloseFin
    <3> QED BY <1>0, <1>a, <1>b, <3>1 DEF FinsPass
  <2> QED BY <2>1, <2>2, <2>3, <2>4 DEF FinsPass
<1>18. ASSUME NEW p \in Sides, NEW i \in Ids, ClosePeerStream(p, i) PROVE FinsPass'
  <2>1. rpc'["server"] = "push" /\ rframe'["server"].msg = Fin =>
           \E j \in Ids : rframe'["server"].id = j /\ FinPassed(j)'
    <3>1. UNCHANGED <<rpc, rframe>>
      BY <1>18 DEF ClosePeerStream
    <3> QED BY <1>0, <1>a, <1>c, <3>1 DEF FinsPass
  <2>2. \A j \in Ids : Reads("server")' =>
           \A k \in DOMAIN incoming'["server"][j] : incoming'["server"][j][k] = Fin => FinPassed(j)'
    <3>1. UNCHANGED <<incoming>>
      BY <1>18 DEF ClosePeerStream
    <3> QED BY <1>0, <1>a, <1>b, <3>1 DEF FinsPass
  <2>3. \A j \in Ids : /\ Reads("server")' /\ opened'["server"][j] = 1 /\ ~closed'["server"]
                       /\ j \notin open'["server"] \/ closer'["server"][j] = "remove"
                       /\ j \notin reserved'["server"]
                       => FinPassed(j)'
    <3>1. UNCHANGED <<opened, open>>
      BY <1>18 DEF ClosePeerStream
    <3>2. \A j \in Ids : j \notin reserved'["server"] => j \notin reserved["server"]
      BY <1>1, <1>18, BothSides DEF ClosePeerStream, Reserve
    <3>3. \A j \in Ids : closer'["server"][j] = "remove" =>
             closer["server"][j] = "remove" \/ j \in reserved'["server"] \/ j \notin open["server"]
      BY <1>1, <1>18, BothSides DEF ClosePeerStream, Reserve
    <3> QED BY <1>0, <1>a, <1>b, <3>1, <3>2, <3>3 DEF FinsPass
  <2>4. \A j \in Ids : Reads("client")' =>
           \A k \in DOMAIN incoming'["client"][j] : incoming'["client"][j][k] # Fin
    <3>1. UNCHANGED <<incoming>>
      BY <1>18 DEF ClosePeerStream
    <3> QED BY <1>0, <1>a, <1>b, <3>1 DEF FinsPass
  <2> QED BY <2>1, <2>2, <2>3, <2>4 DEF FinsPass
<1>19. ASSUME NEW p \in Sides, NEW i \in Ids, CloseRemove(p, i) PROVE FinsPass'
  <2>1. rpc'["server"] = "push" /\ rframe'["server"].msg = Fin =>
           \E j \in Ids : rframe'["server"].id = j /\ FinPassed(j)'
    <3>1. UNCHANGED <<rpc, rframe>>
      BY <1>19 DEF CloseRemove
    <3> QED BY <1>0, <1>a, <1>c, <3>1 DEF FinsPass
  <2>2. \A j \in Ids : Reads("server")' =>
           \A k \in DOMAIN incoming'["server"][j] : incoming'["server"][j][k] = Fin => FinPassed(j)'
    <3>1. UNCHANGED <<incoming>>
      BY <1>19 DEF CloseRemove
    <3> QED BY <1>0, <1>a, <1>b, <3>1 DEF FinsPass
  <2>3. \A j \in Ids : /\ Reads("server")' /\ opened'["server"][j] = 1 /\ ~closed'["server"]
                       /\ j \notin open'["server"] \/ closer'["server"][j] = "remove"
                       /\ j \notin reserved'["server"]
                       => FinPassed(j)'
    <3>1. UNCHANGED <<opened, reserved>> /\ RemoveStream(p, i) /\ closer[p][i] = "remove"
      BY <1>19 DEF CloseRemove
    <3>2. \A j \in Ids : closer'["server"][j] = "remove" => closer["server"][j] = "remove"
      BY <1>1, <1>19, BothSides DEF CloseRemove
    <3>3. \A j \in Ids : j \notin open'["server"] => j \notin open["server"] \/ closer["server"][j] = "remove"
      BY <1>0, <3>1, RemoveFacts, BothSides
    <3> QED BY <1>0, <1>a, <1>b, <3>1, <3>2, <3>3 DEF FinsPass
  <2>4. \A j \in Ids : Reads("client")' =>
           \A k \in DOMAIN incoming'["client"][j] : incoming'["client"][j][k] # Fin
    <3>1. UNCHANGED <<incoming>>
      BY <1>19 DEF CloseRemove
    <3> QED BY <1>0, <1>a, <1>b, <3>1 DEF FinsPass
  <2> QED BY <2>1, <2>2, <2>3, <2>4 DEF FinsPass
<1>20. ASSUME NEW p \in Sides, NEW i \in Ids, DecodeTake(p, i) PROVE FinsPass'
  <2>1. rpc'["server"] = "push" /\ rframe'["server"].msg = Fin =>
           \E j \in Ids : rframe'["server"].id = j /\ FinPassed(j)'
    <3>1. UNCHANGED <<rpc, rframe>>
      BY <1>20 DEF DecodeTake
    <3> QED BY <1>0, <1>a, <1>c, <3>1 DEF FinsPass
  <2>2. \A j \in Ids : Reads("server")' =>
           \A k \in DOMAIN incoming'["server"][j] : incoming'["server"][j][k] = Fin => FinPassed(j)'
    <3>1. \A q \in Sides, j \in Ids : \A k \in DOMAIN incoming'[q][j] :
             \/ k + 1 \in DOMAIN incoming[q][j] /\ incoming'[q][j][k] = incoming[q][j][k + 1]
             \/ k \in DOMAIN incoming[q][j] /\ incoming'[q][j][k] = incoming[q][j][k]
      BY <1>0, <1>20, TakeFrames
    <3> QED BY <1>0, <1>a, <1>b, <3>1, BothSides DEF FinsPass
  <2>3. \A j \in Ids : /\ Reads("server")' /\ opened'["server"][j] = 1 /\ ~closed'["server"]
                       /\ j \notin open'["server"] \/ closer'["server"][j] = "remove"
                       /\ j \notin reserved'["server"]
                       => FinPassed(j)'
    <3>1. UNCHANGED <<opened, open, reserved, closer>>
      BY <1>20 DEF DecodeTake
    <3> QED BY <1>0, <1>a, <1>b, <3>1 DEF FinsPass
  <2>4. \A j \in Ids : Reads("client")' =>
           \A k \in DOMAIN incoming'["client"][j] : incoming'["client"][j][k] # Fin
    <3>1. \A q \in Sides, j \in Ids : \A k \in DOMAIN incoming'[q][j] :
             \/ k + 1 \in DOMAIN incoming[q][j] /\ incoming'[q][j][k] = incoming[q][j][k + 1]
             \/ k \in DOMAIN incoming[q][j] /\ incoming'[q][j][k] = incoming[q][j][k]
      BY <1>0, <1>20, TakeFrames
    <3> QED BY <1>0, <1>a, <1>b, <3>1, BothSides DEF FinsPass
  <2> QED BY <2>1, <2>2, <2>3, <2>4 DEF FinsPass
<1>21. ASSUME NEW p \in Sides, NEW i \in Ids, DecodeFin(p, i) PROVE FinsPass'
  <2>1. rpc'["server"] = "push" /\ rframe'["server"].msg = Fin =>
           \E j \in Ids : rframe'["server"].id = j /\ FinPassed(j)'
    <3>1. UNCHANGED <<rpc, rframe>>
      BY <1>21 DEF DecodeFin
    <3> QED BY <1>0, <1>a, <1>c, <3>1 DEF FinsPass
  <2>2. \A j \in Ids : Reads("server")' =>
           \A k \in DOMAIN incoming'["server"][j] : incoming'["server"][j][k] = Fin => FinPassed(j)'
    <3>1. \A q \in Sides, j \in Ids : \A k \in DOMAIN incoming'[q][j] :
             \/ k + 1 \in DOMAIN incoming[q][j] /\ incoming'[q][j][k] = incoming[q][j][k + 1]
             \/ k \in DOMAIN incoming[q][j] /\ incoming'[q][j][k] = incoming[q][j][k]
      BY <1>0, <1>21, TakeFrames
    <3> QED BY <1>0, <1>a, <1>b, <3>1, BothSides DEF FinsPass
  <2>3. \A j \in Ids : /\ Reads("server")' /\ opened'["server"][j] = 1 /\ ~closed'["server"]
                       /\ j \notin open'["server"] \/ closer'["server"][j] = "remove"
                       /\ j \notin reserved'["server"]
                       => FinPassed(j)'
    <3>1. UNCHANGED <<opened, reserved, closer>> /\ RemoveStream(p, i)
      BY <1>21 DEF DecodeFin
    <3>2. \A j \in Ids : j \notin open'["server"] => j \notin open["server"] \/ (p = "server" /\ j = i)
      BY <1>0, <3>1, RemoveFacts, BothSides
    <3>3. 1 \in DOMAIN incoming[p][i] /\ incoming[p][i][1] = Fin
      BY <1>0, <1>21, TakeFrames DEF DecodeFin
    <3> QED BY <1>0, <1>a, <1>b, <3>1, <3>2, <3>3 DEF FinsPass
  <2>4. \A j \in Ids : Reads("client")' =>
           \A k \in DOMAIN incoming'["client"][j] : incoming'["client"][j][k] # Fin
    <3>1. \A q \in Sides, j \in Ids : \A k \in DOMAIN incoming'[q][j] :
             \/ k + 1 \in DOMAIN incoming[q][j] /\ incoming'[q][j][k] = incoming[q][j][k + 1]
             \/ k \in DOMAIN incoming[q][j] /\ incoming'[q][j][k] = incoming[q][j][k]
      BY <1>0, <1>21, TakeFrames
    <3> QED BY <1>0, <1>a, <1>b, <3>1, BothSides DEF FinsPass
  <2> QED BY <2>1, <2>2, <2>3, <2>4 DEF FinsPass
<1>22. ASSUME NEW p \in Sides, NEW i \in Ids, DrainFin(p, i) PROVE FinsPass'
  <2>1. rpc'["server"] = "push" /\ rframe'["server"].msg = Fin =>
           \E j \in Ids : rframe'["server"].id = j /\ FinPassed(j)'
    <3>1. UNCHANGED <<rpc, rframe>>
      BY <1>22 DEF DrainFin
    <3> QED BY <1>0, <1>a, <1>c, <3>1 DEF FinsPass
  <2>2. \A j \in Ids : Reads("server")' =>
           \A k \in DOMAIN incoming'["server"][j] : incoming'["server"][j][k] = Fin => FinPassed(j)'
    <3>1. ~Reads(p)
      BY <1>22 DEF DrainFin, Reads
    <3>2. \A q \in Sides : q # p => incoming'[q] = incoming[q]
      BY <1>1, <1>22 DEF DrainFin
    <3> QED BY <1>0, <1>a, <1>b, <3>1, <3>2, BothSides DEF FinsPass
  <2>3. \A j \in Ids : /\ Reads("server")' /\ opened'["server"][j] = 1 /\ ~closed'["server"]
                       /\ j \notin open'["server"] \/ closer'["server"][j] = "remove"
                       /\ j \notin reserved'["server"]
                       => FinPassed(j)'
    <3>1. UNCHANGED <<opened, open, reserved, closer>>
      BY <1>22 DEF DrainFin
    <3> QED BY <1>0, <1>a, <1>b, <3>1 DEF FinsPass
  <2>4. \A j \in Ids : Reads("client")' =>
           \A k \in DOMAIN incoming'["client"][j] : incoming'["client"][j][k] # Fin
    <3>1. ~Reads(p)
      BY <1>22 DEF DrainFin, Reads
    <3>2. \A q \in Sides : q # p => incoming'[q] = incoming[q]
      BY <1>1, <1>22 DEF DrainFin
    <3> QED BY <1>0, <1>a, <1>b, <3>1, <3>2, BothSides DEF FinsPass
  <2> QED BY <2>1, <2>2, <2>3, <2>4 DEF FinsPass
<1> QED
  BY <1>2, <1>3, <1>4, <1>5, <1>6, <1>7, <1>8, <1>9, <1>10, <1>11, <1>12, <1>13, <1>14, <1>15,
     <1>16, <1>17, <1>18, <1>19, <1>20, <1>21, <1>22
     DEF Next, AppStep, ReaderStep, WriterStep, CloseStep, StreamStep

-----------------------------------------------------------------------------
(* The theorems about the stream table.                                    *)

(* TableInv holds at first, *)
LEMMA InitTable == Init => TableInv
<1> SUFFICES ASSUME Init PROVE TableInv
  OBVIOUS
<1>1. TypeOK
  <2>1. Marker \in [id : 0..NStreams, msg : Nat] /\ <<>> \in Seq([id : 0..NStreams, msg : Nat])
        /\ <<>> \in Seq([id : Ids, msg : Nat]) /\ <<>> \in Seq(Numbers) /\ <<>> \in Seq(Numbers \cup {Fin})
        /\ Len(<<>>) = 0
    BY Constants DEF Marker
  <2>2. Len(<<>>) <= OutboundSize /\ Len(<<>>) <= QueueSize /\ 0 \in 0..NStreams
        /\ 0 \in 0..MaxFailures /\ 0 \in 0..MaxTimeouts
    BY Constants, <2>1
  <2> QED BY <2>1, <2>2 DEF Init, TypeOK, Each, EachStream
<1>2. Framed
  <2>1. \A p \in Sides : MaxSend(p) \in Nat /\ 0 <= MaxSend(p)
    BY Constants
  <2>2. \A p \in Sides : DOMAIN outbound[p] = {} /\ DOMAIN wire[p] = {}
    BY DEF Init
  <2> QED BY <2>1, <2>2 DEF Init, Framed
<1>3. Known /\ Unborn /\ Left
  <2>1. \A p \in Sides : DOMAIN outbound[p] = {} /\ DOMAIN wire[p] = {}
    BY DEF Init
  <2> QED BY <2>1 DEF Init, Known, Unborn, Left, Pushing
<1>4. Tabled /\ Staged
  BY Constants, BothSides DEF Init, Tabled, ReleasedOnce, NeverReopened, Staged
<1>5. ClosersShut /\ ClientFins
  <2>1. DOMAIN outbound["server"] = {} /\ DOMAIN wire["client"] = {}
    BY BothSides DEF Init
  <2> QED BY <2>1, BothSides DEF Init, ClosersShut, ClientFins
<1>6. FinsLast /\ FinsPass
  <2>1. DOMAIN outbound["client"] = {} /\ DOMAIN wire["server"] = {}
    BY BothSides DEF Init
  <2>2. \A i \in Ids : DOMAIN incoming["server"][i] = {} /\ DOMAIN incoming["client"][i] = {}
    BY BothSides DEF Init
  <2> QED BY <2>1, <2>2, BothSides DEF Init, FinsLast, FinsPass
<1> QED BY <1>1, <1>2, <1>3, <1>4, <1>5, <1>6 DEF TableInv

(* ... and while nothing happens. *)
LEMMA StutterTable == TableInv /\ UNCHANGED vars => TableInv'
<1> SUFFICES ASSUME TableInv, UNCHANGED vars PROVE TableInv'
  OBVIOUS
<1> USE DEF TableInv, vars, connVars, outVars, tableVars, readerVars, queueVars, streamVars,
            appVars, netVars
<1>1. TypeOK' /\ Framed'
  BY DEF TypeOK, Framed
<1>2. Known' /\ Tabled' /\ Staged'
  BY DEF Known, Tabled, ReleasedOnce, NeverReopened, Staged
<1>3. Unborn' /\ Left' /\ ClosersShut' /\ ClientFins'
  BY DEF Unborn, Pushing, Left, ClosersShut, ClientFins
<1>4. FinsLast' /\ FinsPass'
  BY DEF FinsLast, FinsPass, FinPassed, Finished, Reads
<1> QED BY <1>1, <1>2, <1>3, <1>4

(* A reachable connection satisfies the invariant. *)
THEOREM TableInvariant == Spec => []TableInv
<1>1. TableInv /\ [Next]_vars => TableInv'
  <2>1. ASSUME TableInv, Next PROVE TableInv'
    BY <2>1, NextTypes, NextFramed, NextKnown, NextTabled, NextStaged, NextUnborn,
       NextLeft, NextClosersShut, NextClientFins, NextFinsLast, NextFinsPass
       DEF TableInv
  <2> QED BY <2>1, StutterTable
<1> QED BY InitTable, <1>1, PTL DEF Spec

(* Types: in particular no goroutine of either side ever sends on a        *)
(* channel that is full, whatever is being closed.                         *)
THEOREM ConnTypesHold == Spec => []TypeOK
<1>1. TableInv => TypeOK
  BY DEF TableInv
<1> QED BY <1>1, TableInvariant, PTL

(* getStreamCtx opens no stream twice: a server that has released a stream *)
(* either reserves its ID or has read its FIN, and the FIN was the last    *)
(* frame of the stream that the client queued.                             *)
THEOREM NeverReopenedHolds == Spec => []NeverReopened
<1>1. TableInv => NeverReopened
  BY DEF TableInv, Tabled
<1> QED BY <1>1, TableInvariant, PTL

(* OnCloseStream runs once for every stream that leaves the table, and     *)
(* none enters it after the sweep of markClosed.                           *)
THEOREM ReleasedOnceHolds == Spec => []ReleasedOnce
<1>1. TableInv => ReleasedOnce
  BY DEF TableInv, Tabled
<1> QED BY <1>1, TableInvariant, PTL
=============================================================================
