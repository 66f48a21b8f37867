---------------------------- MODULE StreamProofs ----------------------------
(***************************************************************************)
(* Proofs about the messages of a stream of Connection: what a stream, and *)
(* what Connection.Close, delivers.                                        *)
(***************************************************************************)
EXTENDS ConnectionProofs

USE DEF Appends, Takes

-----------------------------------------------------------------------------
(* The inductive invariant: the messages of a stream,                      *)

(* The messages of a stream that have left incoming, and those that have   *)
(* left the wire. *)
Decoded(p, i) ==
    Len(got[p][i]) + Len(inbox[p][i]) + (IF decoder[p][i] = "dispatch" THEN 1 ELSE 0)
Taken(p, i) == Decoded(p, i) + Len(incoming[p][i]) + (IF Pushing(p, i) THEN 1 ELSE 0)

(* The queues of a stream are in order, with nothing but FINs after a FIN. *)
InOrder(p, i) ==
    /\ \A k \in DOMAIN got[p][i] : got[p][i][k] = k
    /\ \A k \in DOMAIN inbox[p][i] : inbox[p][i][k] = Len(got[p][i]) + k
    /\ decoder[p][i] = "dispatch" => job[p][i] = Decoded(p, i)
    /\ \A k \in DOMAIN incoming[p][i] :
          /\ incoming[p][i][k] = Fin \/ incoming[p][i][k] = Decoded(p, i) + k
          /\ \A l \in DOMAIN incoming[p][i] :
                k < l /\ incoming[p][i][k] = Fin => incoming[p][i][l] = Fin
          /\ decoder[p][i] = "fin" => incoming[p][i][k] = Fin
    /\ decoder[p][i] # "end"
    /\ done[p][i] => decoder[p][i] = "fin"

Fresh(p, i) == closer[p][i] = "idle" /\ ~closed[p]
Queued == \A p \in Sides, i \in Ids : Fresh(p, i) => InOrder(p, i)

(* In outbound and on the wire a stream's messages are in order. *)
SentInOrder(p, i) ==
    /\ \A k \in DOMAIN outbound[p] : outbound[p][k].id = i =>
          /\ outbound[p][k].msg <= sent[p][i]
          /\ \A l \in DOMAIN outbound[p] :
                k < l /\ outbound[p][l].id = i /\ outbound[p][l].msg # Fin
                   => outbound[p][k].msg < outbound[p][l].msg
    /\ \A k \in DOMAIN wire[Peer(p)] : wire[Peer(p)][k].id = i =>
          /\ wire[Peer(p)][k].msg <= sent[p][i]
          /\ \A l \in DOMAIN wire[Peer(p)] :
                k < l /\ wire[Peer(p)][l].id = i /\ wire[Peer(p)][l].msg # Fin
                   => wire[Peer(p)][k].msg < wire[Peer(p)][l].msg
          /\ \A l \in DOMAIN outbound[p] :
                outbound[p][l].id = i /\ outbound[p][l].msg # Fin
                   => wire[Peer(p)][k].msg < outbound[p][l].msg
Ordered == \A p \in Sides, i \in Ids : SentInOrder(p, i)

(* What follows the messages that a side has taken of a stream is still    *)
(* there: on the wire without a gap, and all of it unless the transport    *)
(* has failed; before a FIN it is in any case.                             *)
OnWire(p, i, n) == \E k \in DOMAIN wire[p] : wire[p][k] = Frame(i, n)
InOutbound(p, i, n) == \E k \in DOMAIN outbound[p] : outbound[p][k] = Frame(i, n)

Follows(p, i) ==
    /\ Pushing(p, i) => rframe[p].msg = Taken(p, i)
    /\ Taken(p, i) <= sent[Peer(p)][i]
    /\ \A n \in Nat \ {0} : OnWire(p, i, n) =>
          /\ n > Taken(p, i)
          /\ n > Taken(p, i) + 1 => OnWire(p, i, n - 1)
    /\ \A n \in Nat \ {0} : InOutbound(Peer(p), i, n) => n > Taken(p, i)
    /\ \A n \in Nat : n > Taken(p, i) /\ n <= sent[Peer(p)][i] =>
          /\ half[Peer(p)] # "reset" => OnWire(p, i, n) \/ InOutbound(Peer(p), i, n)
          /\ OnWire(p, i, Fin) => OnWire(p, i, n)

(* No FIN has come on a stream that is read. *)
HasFin(p, i) == \/ \E k \in DOMAIN incoming[p][i] : incoming[p][i][k] = Fin
                \/ Pushing(p, i) /\ rframe[p].msg = Fin
                \/ decoder[p][i] = "fin"
Flow == \A p \in Sides, i \in Ids :
           Fresh(p, i) /\ Reads(p) /\ ~HasFin(p, i) => Follows(p, i)

(* Once it has come, everything that was sent on the stream has, *)
Complete(i) ==
    /\ \A k \in DOMAIN incoming["server"][i] : incoming["server"][i][k] = Fin =>
          Decoded("server", i) + k = sent["client"][i] + 1
    /\ Pushing("server", i) /\ rframe["server"].msg = Fin =>
          Decoded("server", i) + Len(incoming["server"][i]) = sent["client"][i]
    /\ decoder["server"][i] = "fin" => Decoded("server", i) = sent["client"][i]
FinsComplete == \A i \in Ids : Fresh("server", i) /\ Reads("server") => Complete(i)

(* ... and nothing comes after it. *)
FinEnds(p, i) ==
    \/ decoder[p][i] # "fin" /\ \A k \in DOMAIN incoming[p][i] : incoming[p][i][k] # Fin
    \/ p = "server" /\ FinPassed(i) /\ ~Pushing(p, i)
FinsFollow == \A p \in Sides, i \in Ids : Fresh(p, i) /\ Reads(p) => FinEnds(p, i)

StreamInv == Queued /\ Ordered /\ Flow /\ FinsComplete /\ FinsFollow

-----------------------------------------------------------------------------
(* ... and Close.                                                          *)

(* The marker comes behind everything that was queued before Close. *)
MarkerQueued(p) ==
    /\ cpc[p] \in {"mark", "flush", "peer"} \/ writer[p] = "marked" => closing[p]
    /\ \A k \in DOMAIN outbound[p] : outbound[p][k] = Marker => closing[p]
Behind(p, i) ==
    /\ flushed[p][i] <= sent[p][i]
    /\ ~closing[p] => flushed[p][i] = sent[p][i]
    /\ \A l \in DOMAIN outbound[p] :
          outbound[p][l].id = i /\ outbound[p][l].msg # Fin =>
             /\ writer[p] = "marked" => outbound[p][l].msg > flushed[p][i]
             /\ \A k \in DOMAIN outbound[p] :
                   k < l /\ outbound[p][k] = Marker => outbound[p][l].msg > flushed[p][i]
Marked == \A p \in Sides : MarkerQueued(p) /\ \A i \in Ids : Behind(p, i)

(* A side that has not called Close is closed only by its reader. *)
ReaderCloses(p) ==
    /\ rpc[p] = "drain" => half[p] # "open"
    /\ closing[p] /\ Reads(p) => cpc[p] # "idle"

(* Nothing but the peer's Close has begun to close this side: then the     *)
(* peer waits until this side has closed.                                  *)
Graceful(p) == cpc[p] = "idle" /\ failures = 0 /\ timeouts = 0
Waits(p) ==
    /\ closed[Peer(p)] \/ half[p] = "reset" => closed[p]
    /\ closed[p] => rpc[p] = "end"
    /\ ~closed[p] => half[Peer(p)] = "open"
    /\ ~closed[p] /\ half[p] = "eof" => writer[Peer(p)] = "marked"
    /\ rpc[p] = "drain" => half[p] = "eof" /\ wire[p] = <<>>
    /\ ~Reads(p) => closing[Peer(p)]
PeerWaits == \A p \in Sides : ReaderCloses(p) /\ (Graceful(p) => Waits(p))

(* closeByPeer leaves no stream with a message that was flushed: while it  *)
(* waits such a message is delivered or queued, and what it does not wait  *)
(* for has nothing queued.                                                 *)
Draining(p, i) ==
    /\ \A n \in 1..flushed[Peer(p)][i] :
          n <= Decoded(p, i) \/ \E k \in DOMAIN incoming[p][i] : incoming[p][i][k] = n
    /\ i \in toFin[p] => i \in toDrain[p]
    /\ i \notin toDrain[p] => /\ decoder[p][i] \in {"none", "select", "fin"}
                              /\ decoder[p][i] # "fin" => incoming[p][i] = <<>>
Drained(p, i) ==
    /\ \A k \in DOMAIN got[p][i] : got[p][i][k] = k
    /\ \A k \in DOMAIN inbox[p][i] : inbox[p][i][k] = Len(got[p][i]) + k
    /\ Len(got[p][i]) + Len(inbox[p][i]) >= flushed[Peer(p)][i]
    /\ decoder[p][i] # "dispatch"
    /\ decoder[p][i] = "select" => incoming[p][i] = <<>>
DrainsAll ==
    \A p \in Sides, i \in Ids : Graceful(p) /\ closer[p][i] = "idle" =>
       /\ rpc[p] = "drain" => Draining(p, i)
       /\ rpc[p] = "end" => Drained(p, i)

CloseInv == Marked /\ PeerWaits /\ DrainsAll

-----------------------------------------------------------------------------
(* The messages of a stream.                                               *)

(* The indices of a sequence. *)
LEMMA SeqFacts ==
    ASSUME NEW S, NEW s \in Seq(S)
    PROVE  Len(s) \in Nat /\ DOMAIN s = 1..Len(s) /\ \A k \in DOMAIN s : k \in Nat /\ k > 0 /\ s[k] \in S
OBVIOUS

(* Append, by the elements it leaves in place. *)
LEMMA AppendsAppend ==
    ASSUME NEW S, NEW s \in Seq(S), NEW m \in S
    PROVE  Appends(s, Append(s, m), m) /\ Len(Append(s, m)) = Len(s) + 1
BY AppendFacts

(* What Recv, the decode loop and the reader do to the queues of a stream. *)
LEMMA RecvStream ==
    ASSUME TypeOK, NEW p \in Sides, NEW i \in Ids, Recv(p, i)
    PROVE  /\ Takes(inbox[p][i], inbox'[p][i]) /\ Len(inbox'[p][i]) = Len(inbox[p][i]) - 1
           /\ Appends(got[p][i], got'[p][i], inbox[p][i][1])
           /\ Len(got'[p][i]) = Len(got[p][i]) + 1 /\ Len(inbox[p][i]) \in Nat
           /\ \A q \in Sides, j \in Ids : q # p \/ j # i =>
                 inbox'[q][j] = inbox[q][j] /\ got'[q][j] = got[q][j]
<1>1. /\ inbox \in [Sides -> [Ids -> Seq(Numbers)]] /\ got \in [Sides -> [Ids -> Seq(Numbers)]]
  BY DEF TypeOK, EachStream
<1> DEFINE s == inbox[p][i]
<1> DEFINE g == got[p][i]
<1>2. s \in Seq(Numbers) /\ s # <<>> /\ g \in Seq(Numbers)
  BY <1>1 DEF Recv
<1>3. /\ inbox'[p][i] = Tail(s) /\ got'[p][i] = Append(g, Head(s))
      /\ \A q \in Sides, j \in Ids : q # p \/ j # i =>
            inbox'[q][j] = inbox[q][j] /\ got'[q][j] = got[q][j]
  BY <1>1 DEF Recv
<1> HIDE DEF s, g
<1>4. /\ Takes(s, Tail(s)) /\ Len(Tail(s)) = Len(s) - 1 /\ Len(s) \in Nat
      /\ Head(s) \in Numbers /\ Head(s) = s[1]
  <2> HIDE DEF Takes
  <2> QED BY <1>2, TakesTail, TailFacts
<1>5. Appends(g, Append(g, Head(s)), Head(s)) /\ Len(Append(g, Head(s))) = Len(g) + 1
  <2> HIDE DEF Appends
  <2> QED BY <1>2, <1>4, AppendsAppend
<1> HIDE DEF Takes, Appends
<1> QED BY <1>3, <1>4, <1>5 DEF s, g

(* decodeLoop takes the head of incoming, *)
LEMMA TakeStream ==
    ASSUME TypeOK, NEW p \in Sides, NEW i \in Ids, DecodeTake(p, i) \/ DecodeFin(p, i)
    PROVE  /\ Takes(incoming[p][i], incoming'[p][i]) /\ Len(incoming[p][i]) \in Nat
           /\ Len(incoming'[p][i]) = Len(incoming[p][i]) - 1
           /\ \A q \in Sides, j \in Ids : q # p \/ j # i => incoming'[q][j] = incoming[q][j]
<1>1. incoming \in [Sides -> [Ids -> Seq(Numbers \cup {Fin})]]
  BY DEF TypeOK, EachStream
<1> DEFINE s == incoming[p][i]
<1>2. s \in Seq(Numbers \cup {Fin}) /\ s # <<>>
  BY <1>1 DEF DecodeTake, DecodeFin
<1>3. incoming' = [incoming EXCEPT ![p][i] = Tail(incoming[p][i])]
  BY DEF DecodeTake, DecodeFin
<1>4. /\ incoming'[p][i] = Tail(s)
      /\ \A q \in Sides, j \in Ids : q # p \/ j # i => incoming'[q][j] = incoming[q][j]
  BY <1>1, <1>3
<1> HIDE DEF s
<1>5. Takes(s, Tail(s)) /\ Len(Tail(s)) = Len(s) - 1 /\ Len(s) \in Nat
  <2> HIDE DEF Takes
  <2> QED BY <1>2, TakesTail, TailFacts
<1> HIDE DEF Takes
<1> QED BY <1>4, <1>5 DEF s

(* ... and puts it behind inbox unless it gives it up. *)
LEMMA DispatchStream ==
    ASSUME TypeOK, Framed, NEW p \in Sides, NEW i \in Ids, Dispatch(p, i), ~GiveUp(p, i)
    PROVE  /\ Appends(inbox[p][i], inbox'[p][i], job[p][i]) /\ Len(inbox[p][i]) \in Nat
           /\ Len(inbox'[p][i]) = Len(inbox[p][i]) + 1
           /\ \A q \in Sides, j \in Ids : q # p \/ j # i => inbox'[q][j] = inbox[q][j]
<1>1. inbox \in [Sides -> [Ids -> Seq(Numbers)]] /\ job \in [Sides -> [Ids -> Numbers \cup {Fin}]]
  BY DEF TypeOK, EachStream
<1> DEFINE s == inbox[p][i]
<1>2. s \in Seq(Numbers) /\ job[p][i] \in Numbers
  BY <1>1 DEF Dispatch, Framed
<1>3. inbox' = [inbox EXCEPT ![p][i] = Append(inbox[p][i], job[p][i])]
  BY DEF Dispatch
<1>4. /\ inbox'[p][i] = Append(s, job[p][i])
      /\ \A q \in Sides, j \in Ids : q # p \/ j # i => inbox'[q][j] = inbox[q][j]
  BY <1>1, <1>3
<1> HIDE DEF s
<1>5. Appends(s, Append(s, job[p][i]), job[p][i]) /\ Len(Append(s, job[p][i])) = Len(s) + 1 /\ Len(s) \in Nat
  <2> HIDE DEF Appends
  <2> QED BY <1>2, AppendsAppend, SeqFacts
<1> HIDE DEF Appends
<1> QED BY <1>4, <1>5 DEF s

(* The reader queues a frame, or closeByPeer a FIN. *)
LEMMA QueueStream ==
    ASSUME TypeOK, NEW p \in Sides, NEW i \in Ids, NEW m \in Numbers \cup {Fin},
           incoming' = [incoming EXCEPT ![p][i] = Append(@, m)]
    PROVE  /\ Appends(incoming[p][i], incoming'[p][i], m) /\ Len(incoming[p][i]) \in Nat
           /\ Len(incoming'[p][i]) = Len(incoming[p][i]) + 1
           /\ \A q \in Sides, j \in Ids : q # p \/ j # i => incoming'[q][j] = incoming[q][j]
<1>1. incoming \in [Sides -> [Ids -> Seq(Numbers \cup {Fin})]]
  BY DEF TypeOK, EachStream
<1> DEFINE s == incoming[p][i]
<1>2. s \in Seq(Numbers \cup {Fin})
  BY <1>1
<1>3. /\ incoming'[p][i] = Append(s, m)
      /\ \A q \in Sides, j \in Ids : q # p \/ j # i => incoming'[q][j] = incoming[q][j]
  BY <1>1
<1> HIDE DEF s
<1>4. Appends(s, Append(s, m), m) /\ Len(Append(s, m)) = Len(s) + 1 /\ Len(s) \in Nat
  <2> HIDE DEF Appends
  <2> QED BY <1>2, AppendsAppend, SeqFacts
<1> HIDE DEF Appends
<1> QED BY <1>3, <1>4 DEF s

(* What the reader pushes is a message or a FIN of a stream. *)
LEMMA PushedMessage ==
    ASSUME TypeOK, Framed, NEW p \in Sides, Push(p)
    PROVE  rframe[p].id \in Ids /\ rframe[p].msg \in Numbers \cup {Fin}
<1>1. rframe[p].id \in Ids /\ rframe[p].msg \in 0..MaxSend(Peer(p))
  BY DEF Framed, Frames, Push
<1> QED BY <1>1, Constants, PeerFacts DEF Fin

(* A side that has not closed a stream had not before. *)
LEMMA FreshBefore ==
    ASSUME TableInv, Next, NEW q \in Sides, NEW j \in Ids, Fresh(q, j)'
    PROVE  Fresh(q, j)
BY ClosedStays, ClosersStay DEF Fresh

(* Frames are numbered. *)
LEMMA FrameNumbers ==
    ASSUME TypeOK, NEW p \in Sides
    PROVE  /\ \A k \in DOMAIN outbound[p] : k \in Nat /\ outbound[p][k].id \in Nat /\ outbound[p][k].msg \in Nat
           /\ \A k \in DOMAIN wire[p] : k \in Nat /\ wire[p][k].id \in Nat /\ wire[p][k].msg \in Nat
<1>1. outbound[p] \in Seq([id : 0..NStreams, msg : Nat]) /\ wire[p] \in Seq([id : Ids, msg : Nat])
  BY DEF TypeOK, Each
<1>2. \A k \in DOMAIN outbound[p] : k \in Nat /\ outbound[p][k] \in [id : 0..NStreams, msg : Nat]
  BY <1>1, SeqFacts
<1>3. \A k \in DOMAIN wire[p] : k \in Nat /\ wire[p][k] \in [id : Ids, msg : Nat]
  BY <1>1, SeqFacts
<1>4. \A f \in [id : 0..NStreams, msg : Nat] : f.id \in Nat /\ f.msg \in Nat
  BY Constants
<1>5. \A f \in [id : Ids, msg : Nat] : f.id \in Nat /\ f.msg \in Nat
  BY Constants
<1>6. \A k \in DOMAIN outbound[p] : k \in Nat /\ outbound[p][k].id \in Nat /\ outbound[p][k].msg \in Nat
  BY <1>2, <1>4
<1>7. \A k \in DOMAIN wire[p] : k \in Nat /\ wire[p][k].id \in Nat /\ wire[p][k].msg \in Nat
  BY <1>3, <1>5
<1> QED BY <1>6, <1>7

(* A frame behind those of its stream, with a larger number or a FIN. *)
LEMMA QueueInOrder ==
    ASSUME TypeOK, NEW q \in Sides, NEW j \in Ids, SentInOrder(q, j), UNCHANGED wire,
           NEW f, Appends(outbound[q], outbound'[q], f),
           sent[q][j] <= sent'[q][j], sent'[q][j] \in Nat,
           f.id = j => /\ f.msg \in Nat /\ f.msg <= sent'[q][j]
                       /\ f.msg = Fin \/ f.msg > sent[q][j]
    PROVE  SentInOrder(q, j)'
<1>1. /\ \A k \in DOMAIN outbound[q] : k \in Nat /\ outbound[q][k].msg \in Nat
      /\ \A k \in DOMAIN wire[Peer(q)] : k \in Nat /\ wire[Peer(q)][k].msg \in Nat
  <2> HIDE DEF Appends
  <2> QED BY FrameNumbers, PeerFacts
<1>2. sent[q][j] \in Nat
  BY DEF TypeOK, EachStream
<1>3. ASSUME NEW k \in DOMAIN outbound'[q], outbound'[q][k].id = j
      PROVE  /\ outbound'[q][k].msg <= sent'[q][j]
             /\ \A l \in DOMAIN outbound'[q] :
                   k < l /\ outbound'[q][l].id = j /\ outbound'[q][l].msg # Fin
                      => outbound'[q][k].msg < outbound'[q][l].msg
  <2>1. CASE k \in DOMAIN outbound[q]
    <3>1. outbound'[q][k] = outbound[q][k] /\ outbound[q][k].msg <= sent[q][j]
      BY <1>3, <2>1 DEF SentInOrder
    <3>2. outbound[q][k].msg <= sent'[q][j]
      BY <1>1, <1>2, <2>1, <3>1
    <3>3. ASSUME NEW l \in DOMAIN outbound'[q], k < l, outbound'[q][l].id = j, outbound'[q][l].msg # Fin
          PROVE  outbound[q][k].msg < outbound'[q][l].msg
      <4>1. CASE l \in DOMAIN outbound[q]
        BY <1>3, <2>1, <3>1, <3>3, <4>1 DEF SentInOrder
      <4>2. CASE l = Len(outbound[q]) + 1
        <5>1. outbound'[q][l] = f
          BY <4>2
        <5> QED BY <1>1, <1>2, <2>1, <3>1, <3>3, <5>1
      <4> QED BY <3>3, <4>1, <4>2
    <3> QED BY <3>1, <3>2, <3>3
  <2>2. CASE k = Len(outbound[q]) + 1
    <3>1. outbound'[q][k] = f /\ \A l \in DOMAIN outbound'[q] : ~(k < l)
      BY <2>2
    <3> QED BY <1>3, <3>1
  <2> QED BY <1>3, <2>1, <2>2
<1>4. ASSUME NEW k \in DOMAIN wire[Peer(q)], wire[Peer(q)][k].id = j
      PROVE  /\ wire[Peer(q)][k].msg <= sent'[q][j]
             /\ \A l \in DOMAIN wire[Peer(q)] :
                   k < l /\ wire[Peer(q)][l].id = j /\ wire[Peer(q)][l].msg # Fin
                      => wire[Peer(q)][k].msg < wire[Peer(q)][l].msg
             /\ \A l \in DOMAIN outbound'[q] :
                   outbound'[q][l].id = j /\ outbound'[q][l].msg # Fin
                      => wire[Peer(q)][k].msg < outbound'[q][l].msg
  <2>1. /\ wire[Peer(q)][k].msg <= sent[q][j] /\ wire[Peer(q)][k].msg \in Nat
        /\ \A l \in DOMAIN wire[Peer(q)] :
              k < l /\ wire[Peer(q)][l].id = j /\ wire[Peer(q)][l].msg # Fin
                 => wire[Peer(q)][k].msg < wire[Peer(q)][l].msg
        /\ \A l \in DOMAIN outbound[q] :
                   outbound[q][l].id = j /\ outbound[q][l].msg # Fin
                      => wire[Peer(q)][k].msg < outbound[q][l].msg
    BY <1>1, <1>4 DEF SentInOrder
  <2>2. wire[Peer(q)][k].msg <= sent'[q][j]
    BY <1>2, <2>1
  <2>3. ASSUME NEW l \in DOMAIN outbound'[q], outbound'[q][l].id = j, outbound'[q][l].msg # Fin
        PROVE  wire[Peer(q)][k].msg < outbound'[q][l].msg
    <3>1. CASE l \in DOMAIN outbound[q]
      BY <2>1, <2>3, <3>1
    <3>2. CASE l = Len(outbound[q]) + 1
      <4>1. outbound'[q][l] = f
        BY <3>2
      <4> QED BY <1>2, <2>1, <2>3, <4>1
    <3> QED BY <2>3, <3>1, <3>2
  <2> QED BY <2>1, <2>2, <2>3
<1> QED BY <1>3, <1>4 DEF SentInOrder

(* Send numbers the frames of a stream in the order in which it queues   *)
(* them, and the writer keeps it. *)
LEMMA NextSentInOrder ==
    ASSUME TableInv, StreamInv, Next, NEW q \in Sides, NEW j \in Ids
    PROVE  SentInOrder(q, j)'
<1> USE DEF connVars, outVars, tableVars, readerVars, queueVars, streamVars, appVars, netVars
<1>0. /\ SentInOrder(q, j)
      /\ TypeOK
      /\ Framed
  BY DEF TableInv, StreamInv, Ordered
<1>1. /\ outbound \in [Sides -> Seq([id : 0..NStreams, msg : Nat])]
      /\ wire \in [Sides -> Seq([id : Ids, msg : Nat])]
      /\ sent \in [Sides -> [Ids -> Nat]]
  BY DEF TableInv, StreamInv, Ordered, TypeOK, Each, EachStream
<1>a. SentInOrder(q, j)
  BY DEF StreamInv, Ordered
<1>2. CASE NewStream \/ Break
  <2>1. UNCHANGED <<outbound, wire, sent>>
    BY <1>2 DEF NewStream, Break
  <2> QED BY <1>0, <1>a, <2>1 DEF SentInOrder
<1>3. CASE \E p \in Sides : CloseAllStreams(p) \/ Push(p) \/ ReadError(p) \/ ReadEOF(p) \/
                            DrainEnd(p) \/ WriterEnd(p) \/ Close(p) \/ CloseWrite(p) \/
                            CloseEnd(p)
  <2>1. UNCHANGED <<outbound, wire, sent>>
    BY <1>3
       DEF CloseAllStreams, Push, ReadError, ReadEOF, DrainEnd, WriterEnd, Close, CloseWrite,
           CloseEnd
  <2> QED BY <1>0, <1>a, <2>1 DEF SentInOrder
<1>4. CASE \E p \in Sides, i \in Ids : Send(p, i) \/ SendClosed(p, i) \/ CloseOpened(p, i)
                                       \/ ClosePeerStream(p, i) \/ CloseRemove(p, i) \/
                                       Recv(p, i) \/ DecodeTake(p, i) \/ Dispatch(p, i) \/
                                       DecodeFin(p, i) \/ DecodeEnd(p, i) \/ DrainFin(p, i)
  <2>1. UNCHANGED <<outbound, wire, sent>>
    BY <1>4
       DEF Send, SendClosed, CloseOpened, ClosePeerStream, CloseRemove, Recv, DecodeTake,
           Dispatch, DecodeFin, DecodeEnd, DrainFin
  <2> QED BY <1>0, <1>a, <2>1 DEF SentInOrder
<1>5. ASSUME NEW p \in Sides, ReadFin(p) PROVE SentInOrder(q, j)'
  <2>1. UNCHANGED <<outbound, sent>> /\ Peer(q) \in Sides
    BY <1>5, PeerFacts DEF ReadFin
  <2>2. CASE Peer(q) = p
    <3>1. Takes(wire[Peer(q)], wire'[Peer(q)])
      BY <1>0, <1>5, <2>2, ReadFrames DEF ReadFin
    <3> QED BY <1>a, <2>1, <3>1 DEF SentInOrder
  <2>3. CASE Peer(q) # p
    <3>1. wire'[Peer(q)] = wire[Peer(q)]
      BY <1>1, <1>5, <2>1, <2>3 DEF ReadFin, ReadFrame
    <3> QED BY <1>a, <2>1, <3>1 DEF SentInOrder
  <2> QED BY <2>2, <2>3
<1>6. ASSUME NEW p \in Sides, ReadMessage(p) PROVE SentInOrder(q, j)'
  <2>1. UNCHANGED <<outbound, sent>> /\ Peer(q) \in Sides
    BY <1>6, PeerFacts DEF ReadMessage
  <2>2. CASE Peer(q) = p
    <3>1. Takes(wire[Peer(q)], wire'[Peer(q)])
      BY <1>0, <1>6, <2>2, ReadFrames DEF ReadMessage
    <3> QED BY <1>a, <2>1, <3>1 DEF SentInOrder
  <2>3. CASE Peer(q) # p
    <3>1. wire'[Peer(q)] = wire[Peer(q)]
      BY <1>1, <1>6, <2>1, <2>3 DEF ReadMessage, ReadFrame
    <3> QED BY <1>a, <2>1, <3>1 DEF SentInOrder
  <2> QED BY <2>2, <2>3
<1>7. ASSUME NEW p \in Sides, Write(p) PROVE SentInOrder(q, j)'
  <2>1. CASE q = p
    <3>1. Takes(outbound[q], outbound'[q]) /\ UNCHANGED sent
      BY <1>0, <1>7, <2>1, WriteFrames DEF Write
    <3>2. \A k \in DOMAIN outbound[q] : k \in Nat
      BY <1>0, FrameNumbers
    <3>3. \A k \in DOMAIN outbound'[q] : outbound'[q][k].id = j =>
             /\ outbound'[q][k].msg <= sent'[q][j]
             /\ \A l \in DOMAIN outbound'[q] :
                   k < l /\ outbound'[q][l].id = j /\ outbound'[q][l].msg # Fin
                      => outbound'[q][k].msg < outbound'[q][l].msg
      BY <1>a, <3>1 DEF SentInOrder
    <3>4. CASE wire' # wire
      <4>1. Appends(wire[Peer(q)], wire'[Peer(q)], outbound[q][1])
        BY <1>0, <1>7, <2>1, <3>4, WireFrames
      <4>2. ASSUME NEW k \in DOMAIN wire'[Peer(q)], wire'[Peer(q)][k].id = j
            PROVE  /\ wire'[Peer(q)][k].msg <= sent'[q][j]
                   /\ \A l \in DOMAIN wire'[Peer(q)] :
                         k < l /\ wire'[Peer(q)][l].id = j /\ wire'[Peer(q)][l].msg # Fin
                            => wire'[Peer(q)][k].msg < wire'[Peer(q)][l].msg
                   /\ \A l \in DOMAIN outbound'[q] :
                         outbound'[q][l].id = j /\ outbound'[q][l].msg # Fin
                            => wire'[Peer(q)][k].msg < outbound'[q][l].msg
        <5>1. CASE k \in DOMAIN wire[Peer(q)]
          <6>1. wire'[Peer(q)][k] = wire[Peer(q)][k] /\ wire[Peer(q)][k].msg <= sent'[q][j]
            BY <1>a, <3>1, <4>1, <4>2, <5>1 DEF SentInOrder
          <6>2. ASSUME NEW l \in DOMAIN wire'[Peer(q)], k < l, wire'[Peer(q)][l].id = j,
                       wire'[Peer(q)][l].msg # Fin
                PROVE  wire'[Peer(q)][k].msg < wire'[Peer(q)][l].msg
            <7>1. CASE l \in DOMAIN wire[Peer(q)]
              BY <1>a, <4>1, <4>2, <5>1, <6>2, <7>1 DEF SentInOrder
            <7>2. CASE l = Len(wire[Peer(q)]) + 1
              <8>1. wire'[Peer(q)][l] = outbound[q][1] /\ 1 \in DOMAIN outbound[q]
                BY <3>1, <4>1, <7>2
              <8> QED BY <1>a, <4>1, <4>2, <5>1, <6>2, <8>1 DEF SentInOrder
            <7> QED BY <4>1, <6>2, <7>1, <7>2
          <6>3. \A l \in DOMAIN outbound'[q] : outbound'[q][l].id = j /\ outbound'[q][l].msg # Fin
                            => wire'[Peer(q)][k].msg < outbound'[q][l].msg
            BY <1>a, <3>1, <4>1, <4>2, <5>1 DEF SentInOrder
          <6> QED BY <6>1, <6>2, <6>3
        <5>2. CASE k = Len(wire[Peer(q)]) + 1
          <6>1. /\ wire'[Peer(q)][k] = outbound[q][1] /\ 1 \in DOMAIN outbound[q]
                /\ \A l \in DOMAIN wire'[Peer(q)] : ~(k < l)
            BY <3>1, <4>1, <5>2
          <6>2. \A l \in DOMAIN outbound'[q] : l \in Nat /\ 1 < l + 1 /\ l + 1 \in DOMAIN outbound[q]
                                               /\ outbound'[q][l] = outbound[q][l + 1]
            BY <3>1
          <6> QED BY <1>a, <3>1, <4>2, <6>1, <6>2 DEF SentInOrder
        <5> QED BY <4>1, <4>2, <5>1, <5>2
      <4> QED BY <3>3, <4>2 DEF SentInOrder
    <3>5. CASE wire' = wire
      <4>1. \A l \in DOMAIN outbound'[q] : l + 1 \in DOMAIN outbound[q] /\ outbound'[q][l] = outbound[q][l + 1]
        BY <3>1
      <4> QED BY <1>a, <3>1, <3>3, <3>5, <4>1 DEF SentInOrder
    <3> QED BY <3>4, <3>5
  <2>2. CASE q # p
    <3>1. outbound'[q] = outbound[q] /\ sent' = sent /\ wire'[Peer(q)] = wire[Peer(q)]
      <4>1. Peer(q) \in Sides /\ Peer(p) \in Sides /\ Peer(q) # Peer(p)
        BY <2>2 DEF Peer, Sides
      <4> QED BY <1>1, <1>7, <2>2, <4>1 DEF Write
    <3> QED BY <1>a, <3>1 DEF SentInOrder
  <2> QED BY <2>1, <2>2
<1>8. ASSUME NEW p \in Sides, CloseQueue(p) PROVE SentInOrder(q, j)'
  <2>1. CASE q = p
    <3>1. Appends(outbound[q], outbound'[q], Marker) /\ UNCHANGED wire
      <4>1. UNCHANGED wire
        BY <1>8 DEF CloseQueue
      <4>2. Appends(outbound[p], outbound'[p], Marker)
        <5> HIDE DEF Appends
        <5> QED BY <1>0, <1>8, <2>1, CloseQueueFrames
      <4> QED BY <2>1, <4>1, <4>2
    <3>2. sent[q][j] <= sent'[q][j] /\ sent'[q][j] \in Nat
      <4>1. sent[q][j] \in Nat /\ sent' = sent
        BY <1>1, <1>8 DEF CloseQueue
      <4> QED BY <4>1
    <3>3. Marker.id # j
      BY Constants DEF Marker
    <3> HIDE DEF Appends
    <3> QED BY <1>0, <1>a, <3>1, <3>2, <3>3, QueueInOrder
  <2>2. CASE q # p
    <3>1. outbound'[q] = outbound[q] /\ sent'[q][j] = sent[q][j] /\ UNCHANGED wire
      BY <1>1, <1>8, <2>2 DEF CloseQueue
    <3> QED BY <1>a, <3>1 DEF SentInOrder
  <2> QED BY <2>1, <2>2
<1>9. ASSUME NEW p \in Sides, NEW i \in Ids, Enqueue(p, i) PROVE SentInOrder(q, j)'
  <2>1. CASE q = p
    <3>1. Appends(outbound[q], outbound'[q], Frame(i, sent[p][i] + 1)) /\ UNCHANGED wire
      <4>1. UNCHANGED wire
        BY <1>9 DEF Enqueue
      <4>2. Appends(outbound[p], outbound'[p], Frame(i, sent[p][i] + 1))
        <5> HIDE DEF Appends
        <5> QED BY <1>0, <1>9, <2>1, EnqueueFrames
      <4> QED BY <2>1, <4>1, <4>2
    <3>2. sent[q][j] <= sent'[q][j] /\ sent'[q][j] \in Nat
      <4>1. sent'[q][j] = IF i = j THEN sent[q][j] + 1 ELSE sent[q][j]
        BY <1>1, <1>9, <2>1 DEF Enqueue
      <4>2. sent[q][j] \in Nat
        BY <1>1
      <4> QED BY <4>1, <4>2
    <3>3. Frame(i, sent[p][i] + 1).id = j =>
             /\ Frame(i, sent[p][i] + 1).msg \in Nat /\ Frame(i, sent[p][i] + 1).msg <= sent'[q][j]
             /\ Frame(i, sent[p][i] + 1).msg = Fin \/ Frame(i, sent[p][i] + 1).msg > sent[q][j]
      <4>1. i = j => sent'[q][j] = sent[q][j] + 1
        BY <1>1, <1>9, <2>1 DEF Enqueue
      <4>2. sent[q][j] \in Nat
        BY <1>1
      <4> QED BY <2>1, <4>1, <4>2 DEF Frame
    <3> HIDE DEF Appends
    <3> QED BY <1>0, <1>a, <3>1, <3>2, <3>3, QueueInOrder
  <2>2. CASE q # p
    <3>1. outbound'[q] = outbound[q] /\ sent'[q][j] = sent[q][j] /\ UNCHANGED wire
      BY <1>1, <1>9, <2>2 DEF Enqueue
    <3> QED BY <1>a, <3>1 DEF SentInOrder
  <2> QED BY <2>1, <2>2
<1>10. ASSUME NEW p \in Sides, NEW i \in Ids, CloseFin(p, i) PROVE SentInOrder(q, j)'
  <2>1. CASE q = p /\ outbound' # outbound
    <3>1. Appends(outbound[q], outbound'[q], Frame(i, Fin)) /\ UNCHANGED wire
      <4>1. UNCHANGED wire
        BY <1>10 DEF CloseFin
      <4>2. Appends(outbound[p], outbound'[p], Frame(i, Fin))
        <5> HIDE DEF Appends
        <5> QED BY <1>0, <1>10, <2>1, CloseFinFrames
      <4> QED BY <2>1, <4>1, <4>2
    <3>2. sent[q][j] <= sent'[q][j] /\ sent'[q][j] \in Nat
      <4>1. sent[q][j] \in Nat /\ sent' = sent
        BY <1>1, <1>10 DEF CloseFin
      <4> QED BY <4>1
    <3>3. Frame(i, Fin).id = j => /\ Frame(i, Fin).msg \in Nat /\ Frame(i, Fin).msg <= sent'[q][j]
                                  /\ Frame(i, Fin).msg = Fin \/ Frame(i, Fin).msg > sent[q][j]
      BY <3>2 DEF Frame, Fin
    <3> HIDE DEF Appends
    <3> QED BY <1>0, <1>a, <3>1, <3>2, <3>3, QueueInOrder
  <2>2. CASE q # p \/ outbound' = outbound
    <3>1. outbound'[q] = outbound[q] /\ sent'[q][j] = sent[q][j] /\ UNCHANGED wire
      BY <1>1, <1>10, <2>2 DEF CloseFin
    <3> QED BY <1>a, <3>1 DEF SentInOrder
  <2> QED BY <2>1, <2>2
<1> QED
  BY <1>2, <1>3, <1>4, <1>5, <1>6, <1>7, <1>8, <1>9, <1>10
     DEF Next, AppStep, ReaderStep, WriterStep, CloseStep, StreamStep

(* Sums of lengths. *)
LEMMA Sums ==
    \A a, b \in Nat : /\ (a + 1) + (b - 1) = a + b
                      /\ (a + 1) + b = a + (b + 1)
                      /\ a + (b + 1) = a + b + 1
                      /\ a + (b + 1) + 0 = a + b + 1
OBVIOUS

(* The lengths of the queues of a stream, and their indices, are numbers. *)
LEMMA StreamNumbers ==
    ASSUME TypeOK, NEW p \in Sides, NEW i \in Ids
    PROVE  /\ Len(got[p][i]) \in Nat /\ Len(inbox[p][i]) \in Nat /\ Len(incoming[p][i]) \in Nat
           /\ Decoded(p, i) \in Nat /\ Taken(p, i) \in Nat /\ sent[p][i] \in Nat
           /\ \A k \in DOMAIN got[p][i] : k \in Nat /\ k > 0
           /\ \A k \in DOMAIN inbox[p][i] : k \in Nat /\ k > 0
           /\ \A k \in DOMAIN incoming[p][i] : k \in Nat /\ k > 0 /\ k <= Len(incoming[p][i])
<1>1. /\ got[p][i] \in Seq(Numbers) /\ inbox[p][i] \in Seq(Numbers)
      /\ incoming[p][i] \in Seq(Numbers \cup {Fin}) /\ sent[p][i] \in Nat
  BY DEF TypeOK, EachStream
<1>2. Len(got[p][i]) \in Nat /\ Len(inbox[p][i]) \in Nat /\ Len(incoming[p][i]) \in Nat
  BY <1>1, SeqFacts
<1>3. /\ \A k \in DOMAIN got[p][i] : k \in Nat /\ k > 0
      /\ \A k \in DOMAIN inbox[p][i] : k \in Nat /\ k > 0
  BY <1>1, SeqFacts
<1>4. \A k \in DOMAIN incoming[p][i] : k \in Nat /\ k > 0 /\ k <= Len(incoming[p][i])
  BY <1>1, SeqFacts
<1>5. Decoded(p, i) \in Nat
  <2>1. \A a, b \in Nat : a + b + 1 \in Nat /\ a + b + 0 \in Nat
    OBVIOUS
  <2>2. CASE decoder[p][i] = "dispatch"
    BY <1>2, <2>1, <2>2 DEF Decoded
  <2>3. CASE decoder[p][i] # "dispatch"
    BY <1>2, <2>1, <2>3 DEF Decoded
  <2> QED BY <2>2, <2>3
<1>6. Taken(p, i) \in Nat
  BY <1>2, <1>5 DEF Taken
<1> QED BY <1>1, <1>2, <1>3, <1>4, <1>5, <1>6

(* A stream whose queues do not change. *)
LEMMA SameStream ==
    ASSUME NEW q \in Sides, NEW j \in Ids, InOrder(q, j), got'[q][j] = got[q][j],
           inbox'[q][j] = inbox[q][j], incoming'[q][j] = incoming[q][j],
           decoder'[q][j] = decoder[q][j], job'[q][j] = job[q][j], done'[q][j] = done[q][j]
    PROVE  InOrder(q, j)'
BY DEF InOrder, Decoded

(* The reader pushes the next message of a stream, or its FIN. *)
LEMMA PushesNext ==
    ASSUME TableInv, StreamInv, NEW p \in Sides, NEW i \in Ids, Pushing(p, i), Fresh(p, i),
           rframe[p].msg # Fin
    PROVE  /\ rframe[p].msg = Decoded(p, i) + Len(incoming[p][i]) + 1
           /\ decoder[p][i] # "fin" /\ \A k \in DOMAIN incoming[p][i] : incoming[p][i][k] # Fin
<1>1. Reads(p) /\ Pushing(p, i)
  BY DEF Pushing, Reads
<1>2. decoder[p][i] # "fin" /\ \A k \in DOMAIN incoming[p][i] : incoming[p][i][k] # Fin
  BY <1>1 DEF StreamInv, FinsFollow, FinEnds
<1>3. ~HasFin(p, i)
  BY <1>2 DEF HasFin
<1>4. rframe[p].msg = Taken(p, i)
  BY <1>1, <1>3 DEF StreamInv, Flow, Follows
<1> QED BY <1>1, <1>2, <1>4 DEF Taken

(* The queues of a stream stay in order until its side closes it. *)
LEMMA NextInOrder ==
    ASSUME TableInv, StreamInv, Next, NEW q \in Sides, NEW j \in Ids, Fresh(q, j)'
    PROVE  InOrder(q, j)'
<1> USE DEF connVars, outVars, tableVars, readerVars, queueVars, streamVars, appVars, netVars
<1>0. /\ TypeOK
      /\ Framed
      /\ Known
      /\ Unborn
  BY DEF TableInv
<1>1. /\ got \in [Sides -> [Ids -> Seq(Numbers)]]
      /\ inbox \in [Sides -> [Ids -> Seq(Numbers)]]
      /\ incoming \in [Sides -> [Ids -> Seq(Numbers \cup {Fin})]]
      /\ decoder \in [Sides -> [Ids -> {"none", "select", "dispatch", "fin", "end"}]]
      /\ job \in [Sides -> [Ids -> Numbers \cup {Fin}]]
      /\ done \in [Sides -> [Ids -> BOOLEAN]]
      /\ nextId \in 0..NStreams
      /\ opened \in [Sides -> [Ids -> Nat]]
  BY DEF TableInv, TypeOK, Each, EachStream
<1>a. Fresh(q, j) /\ InOrder(q, j)
  BY FreshBefore DEF StreamInv, Queued
<1>2. CASE Break
  <2>1. UNCHANGED <<got, inbox, incoming, decoder, job, done>>
    BY <1>2 DEF Break
  <2> QED BY <1>0, <1>a, SameStream, <2>1
<1>3. CASE \E p \in Sides : ReadFin(p) \/ ReadError(p) \/ ReadEOF(p) \/ DrainEnd(p) \/
                            Write(p) \/ WriterEnd(p) \/ Close(p) \/ CloseQueue(p) \/
                            CloseWrite(p) \/ CloseEnd(p)
  <2>1. UNCHANGED <<got, inbox, incoming, decoder, job, done>>
    BY <1>3
       DEF ReadFin, ReadError, ReadEOF, DrainEnd, Write, WriterEnd, Close, CloseQueue,
           CloseWrite, CloseEnd
  <2> QED BY <1>0, <1>a, SameStream, <2>1
<1>4. CASE \E p \in Sides, i \in Ids : Send(p, i) \/ Enqueue(p, i) \/ SendClosed(p, i) \/
                                       CloseOpened(p, i) \/ CloseFin(p, i) \/
                                       ClosePeerStream(p, i)
  <2>1. UNCHANGED <<got, inbox, incoming, decoder, job, done>>
    BY <1>4 DEF Send, Enqueue, SendClosed, CloseOpened, CloseFin, ClosePeerStream
  <2> QED BY <1>0, <1>a, SameStream, <2>1
<1>5. CASE NewStream
  <2>1. CASE Register("client", nextId + 1) /\ q = "client" /\ j = nextId + 1
    <3>1. opened[q][j] = 0
      <4>1. j > nextId
        BY <1>1, <2>1
      <4> QED BY <1>0, <4>1 DEF Known
    <3>2. decoder[q][j] = "none" /\ incoming[q][j] = <<>> /\ ~done[q][j]
      BY <1>0, <1>a, <3>1 DEF Unborn, InOrder
    <3>3. UNCHANGED <<got, inbox, incoming, job, done>> /\ decoder'[q][j] = "select"
      BY <1>0, <1>5, <2>1, RegisterFacts DEF NewStream
    <3>4. \A k \in DOMAIN incoming'[q][j] : FALSE
      BY <3>2, <3>3
    <3> QED BY <1>a, <3>2, <3>3, <3>4 DEF InOrder
  <2>2. CASE ~(Register("client", nextId + 1) /\ q = "client" /\ j = nextId + 1)
    <3>1. UNCHANGED <<got, inbox, incoming, job, done>> /\ decoder'[q][j] = decoder[q][j]
      <4>1. "client" \in Sides /\ nextId + 1 \in Ids
        BY <1>1, <1>5, Constants DEF NewStream, Sides, Ids
      <4> QED BY <1>0, <1>5, <2>2, <4>1, RegisterFacts DEF NewStream
    <3> QED BY <1>a, <3>1, SameStream
  <2> QED BY <2>1, <2>2
<1>6. ASSUME NEW p \in Sides, CloseAllStreams(p) PROVE InOrder(q, j)'
  <2>1. q # p
    BY <1>a, <1>6 DEF CloseAllStreams, Fresh
  <2>2. UNCHANGED <<got, inbox, incoming, decoder, job>> /\ done'[q][j] = done[q][j]
    BY <1>1, <1>6, <2>1 DEF CloseAllStreams
  <2> QED BY <1>a, <2>2, SameStream
<1>7. ASSUME NEW p \in Sides, ReadMessage(p) PROVE InOrder(q, j)'
  <2>1. CASE Register(p, Head(wire[p]).id) /\ q = p /\ j = Head(wire[p]).id
    <3>1. opened[q][j] = 0
      <4>1. CASE j \in open[q] \/ KnownClosed(q, j)
        <5>1. UNCHANGED <<open, opened>>
          BY <1>7, <2>1, <4>1 DEF ReadMessage
        <5>2. opened'[q][j] = opened[q][j] + 1 /\ opened[q][j] \in Nat
          BY <1>0, <1>1, <2>1, RegisterFacts
        <5> QED BY <5>1, <5>2
      <4>2. CASE j \notin open[q] /\ ~KnownClosed(q, j)
        BY <1>7, <2>1, <4>2, NotReopened
      <4> QED BY <4>1, <4>2
    <3>2. decoder[q][j] = "none" /\ incoming[q][j] = <<>> /\ ~done[q][j]
      BY <1>0, <1>a, <3>1 DEF Unborn, InOrder
    <3>3. UNCHANGED <<got, inbox, incoming, job, done>> /\ decoder'[q][j] = "select"
      BY <1>0, <1>7, <2>1, RegisterFacts DEF ReadMessage
    <3>4. \A k \in DOMAIN incoming'[q][j] : FALSE
      BY <3>2, <3>3
    <3> QED BY <1>a, <3>2, <3>3, <3>4 DEF InOrder
  <2>2. CASE ~(Register(p, Head(wire[p]).id) /\ q = p /\ j = Head(wire[p]).id)
    <3>1. UNCHANGED <<got, inbox, incoming, job, done>> /\ decoder'[q][j] = decoder[q][j]
      <4>1. Head(wire[p]).id \in Ids
        BY <1>0, <1>7, ReadFrames DEF ReadMessage, Framed, Frames
      <4> QED BY <1>0, <1>7, <2>2, <4>1, RegisterFacts DEF ReadMessage
    <3> QED BY <1>a, <3>1, SameStream
  <2> QED BY <2>1, <2>2
<1>8. ASSUME NEW p \in Sides, Push(p) PROVE InOrder(q, j)'
  <2>1. CASE q = p /\ j = rframe[p].id /\ incoming' # incoming
    <3>1. Appends(incoming[q][j], incoming'[q][j], rframe[q].msg) /\ Len(incoming[q][j]) \in Nat
      <4>1. incoming' = [incoming EXCEPT ![q][j] = Append(incoming[q][j], rframe[q].msg)]
        BY <1>8, <2>1 DEF Push
      <4>2. rframe[q].msg \in Numbers \cup {Fin}
        BY <1>0, <1>8, <2>1, PushedMessage
      <4> HIDE DEF Appends
      <4> QED BY <1>0, <4>1, <4>2, QueueStream
    <3>2. UNCHANGED <<got, inbox, decoder, job, done>> /\ Decoded(q, j)' = Decoded(q, j)
      BY <1>8 DEF Push, Decoded
    <3>3. \/ rframe[q].msg = Fin
          \/ /\ rframe[q].msg = Decoded(q, j) + Len(incoming[q][j]) + 1 /\ Decoded(q, j) \in Nat
             /\ decoder[q][j] # "fin" /\ \A k \in DOMAIN incoming[q][j] : incoming[q][j][k] # Fin
      <4>1. Pushing(q, j) /\ Decoded(q, j) \in Nat
        BY <1>0, <1>8, <2>1, StreamNumbers DEF Push, Pushing
      <4> QED BY <1>a, <4>1, PushesNext
    <3>4. \A k \in DOMAIN incoming'[q][j] :
             /\ incoming'[q][j][k] = Fin \/ incoming'[q][j][k] = Decoded(q, j)' + k
             /\ \A l \in DOMAIN incoming'[q][j] :
                   k < l /\ incoming'[q][j][k] = Fin => incoming'[q][j][l] = Fin
             /\ decoder'[q][j] = "fin" => incoming'[q][j][k] = Fin
      <4>1. ASSUME NEW k \in DOMAIN incoming'[q][j]
            PROVE  /\ incoming'[q][j][k] = Fin \/ incoming'[q][j][k] = Decoded(q, j) + k
                   /\ \A l \in DOMAIN incoming'[q][j] :
                         k < l /\ incoming'[q][j][k] = Fin => incoming'[q][j][l] = Fin
                   /\ decoder[q][j] = "fin" => incoming'[q][j][k] = Fin
        <5>1. CASE k \in DOMAIN incoming[q][j]
          <6>1. /\ incoming'[q][j][k] = incoming[q][j][k]
                /\ incoming[q][j][k] = Fin \/ incoming[q][j][k] = Decoded(q, j) + k
                /\ decoder[q][j] = "fin" => incoming[q][j][k] = Fin
                /\ \A l \in DOMAIN incoming[q][j] :
                         k < l /\ incoming[q][j][k] = Fin => incoming[q][j][l] = Fin
            BY <1>a, <3>1, <5>1 DEF InOrder
          <6> QED BY <3>1, <3>3, <5>1, <6>1
        <5>2. CASE k = Len(incoming[q][j]) + 1
          <6>1. incoming'[q][j][k] = rframe[q].msg /\ \A l \in DOMAIN incoming'[q][j] : ~(k < l)
            BY <3>1, <5>2
          <6> QED BY <3>3, <5>2, <6>1
        <5> QED BY <3>1, <5>1, <5>2
      <4> QED BY <3>2, <4>1
    <3> QED BY <1>a, <3>2, <3>4 DEF InOrder
  <2>2. CASE q # p \/ j # rframe[p].id \/ incoming' = incoming
    <3>1. UNCHANGED <<got, inbox, decoder, job, done>> /\ incoming'[q][j] = incoming[q][j]
      <4>1. rframe[p].id \in Ids
        BY <1>0, <1>8, PushedMessage
      <4>2. incoming' = incoming \/ incoming' = [incoming EXCEPT ![p][rframe[p].id] = Append(incoming[p][rframe[p].id], rframe[p].msg)]
        BY <1>8 DEF Push
      <4>3. incoming'[q][j] = incoming[q][j]
        <5>1. incoming \in [Sides -> [Ids -> Seq(Numbers \cup {Fin})]]
          BY <1>1
        <5>2. CASE incoming' = incoming
          BY <5>2
        <5>3. CASE q # p \/ j # rframe[p].id
          BY <4>1, <4>2, <5>1, <5>3
        <5> QED BY <2>2, <5>2, <5>3
      <4> QED BY <1>8, <4>3 DEF Push
    <3> QED BY <1>a, <3>1, SameStream
  <2> QED BY <2>1, <2>2
<1>9. ASSUME NEW p \in Sides, NEW i \in Ids, CloseRemove(p, i) PROVE InOrder(q, j)'
  <2>1. ~(q = p /\ j = i)
    BY <1>a, <1>9 DEF CloseRemove, Fresh
  <2>2. UNCHANGED <<got, inbox, incoming, decoder, job>> /\ done'[q][j] = done[q][j]
    BY <1>0, <1>9, <2>1, RemoveFacts DEF CloseRemove
  <2> QED BY <1>a, <2>2, SameStream
<1>10. ASSUME NEW p \in Sides, NEW i \in Ids, Recv(p, i) PROVE InOrder(q, j)'
  <2>1. CASE q = p /\ j = i
    <3>1. /\ Takes(inbox[q][j], inbox'[q][j]) /\ Len(inbox'[q][j]) = Len(inbox[q][j]) - 1
          /\ Appends(got[q][j], got'[q][j], inbox[q][j][1]) /\ Len(got'[q][j]) = Len(got[q][j]) + 1
      <4> HIDE DEF Takes, Appends
      <4> QED BY <1>0, <1>10, <2>1, RecvStream
    <3>2. UNCHANGED <<incoming, decoder, job, done>>
      BY <1>10 DEF Recv
    <3>3. /\ Len(got[q][j]) \in Nat /\ Len(inbox[q][j]) \in Nat
          /\ \A k \in DOMAIN inbox[q][j] : k \in Nat
      BY <1>0, StreamNumbers
    <3>4. Decoded(q, j)' = Decoded(q, j)
      <4>1. Len(got'[q][j]) + Len(inbox'[q][j]) = Len(got[q][j]) + Len(inbox[q][j])
        <5>1. Len(inbox'[q][j]) = Len(inbox[q][j]) - 1 /\ Len(got'[q][j]) = Len(got[q][j]) + 1
          BY <3>1
        <5> HIDE DEF Takes, Appends
        <5> QED BY <3>3, <5>1, Sums
      <4> QED BY <3>2, <4>1 DEF Decoded
    <3>5. \A k \in DOMAIN got'[q][j] : got'[q][j][k] = k
      <4> SUFFICES ASSUME NEW k \in DOMAIN got'[q][j] PROVE got'[q][j][k] = k
        OBVIOUS
      <4>1. CASE k \in DOMAIN got[q][j]
        BY <1>a, <3>1, <4>1 DEF InOrder
      <4>2. CASE k \notin DOMAIN got[q][j]
        <5>1. k = Len(got[q][j]) + 1 /\ got'[q][j][k] = inbox[q][j][1] /\ 1 \in DOMAIN inbox[q][j]
          BY <3>1, <3>3, <4>2
        <5>2. inbox[q][j][1] = Len(got[q][j]) + 1
          BY <1>a, <5>1 DEF InOrder
        <5> QED BY <5>1, <5>2
      <4> QED BY <4>1, <4>2
    <3>6. ASSUME NEW k \in DOMAIN inbox'[q][j]
          PROVE  inbox'[q][j][k] = Len(got'[q][j]) + k
      <4>1. k \in Nat /\ k + 1 \in DOMAIN inbox[q][j] /\ inbox'[q][j][k] = inbox[q][j][k + 1]
        BY <3>1
      <4>2. inbox'[q][j][k] = Len(got[q][j]) + (k + 1)
        BY <1>a, <4>1 DEF InOrder
      <4>3. Len(got'[q][j]) = Len(got[q][j]) + 1
        BY <3>1
      <4> HIDE DEF Takes, Appends
      <4>4. Len(got'[q][j]) + k = Len(got[q][j]) + (k + 1)
        <5>1. (Len(got[q][j]) + 1) + k = Len(got[q][j]) + (k + 1)
          BY <3>3, <4>1, Sums
        <5> QED BY <4>3, <5>1
      <4> QED BY <4>2, <4>4
    <3> QED BY <1>a, <3>2, <3>4, <3>5, <3>6 DEF InOrder
  <2>2. CASE q # p \/ j # i
    <3>1. /\ got'[q][j] = got[q][j] /\ inbox'[q][j] = inbox[q][j]
          /\ incoming'[q][j] = incoming[q][j] /\ decoder'[q][j] = decoder[q][j]
          /\ job'[q][j] = job[q][j] /\ done'[q][j] = done[q][j]
      BY <1>1, <1>10, <2>2 DEF Recv
    <3> QED BY <1>a, <3>1, SameStream
  <2> QED BY <2>1, <2>2
<1>11. ASSUME NEW p \in Sides, NEW i \in Ids, DecodeTake(p, i) PROVE InOrder(q, j)'
  <2>1. CASE q = p /\ j = i
    <3>1. Takes(incoming[q][j], incoming'[q][j])
      <4> HIDE DEF Takes
      <4> QED BY <1>0, <1>11, <2>1, TakeStream
    <3>2. /\ UNCHANGED <<got, inbox, done>> /\ decoder[q][j] = "select"
          /\ decoder'[q][j] = "dispatch" /\ job'[q][j] = incoming[q][j][1] /\ incoming[q][j][1] # Fin
      BY <1>1, <1>11, <2>1, <3>1 DEF DecodeTake
    <3>3. Decoded(q, j) \in Nat /\ Len(got[q][j]) \in Nat /\ Len(inbox[q][j]) \in Nat
      BY <1>0, StreamNumbers
    <3>4. Decoded(q, j)' = Decoded(q, j) + 1
      BY <3>2, <3>3 DEF Decoded
    <3>5. job'[q][j] = Decoded(q, j)'
      BY <1>a, <3>1, <3>2, <3>4 DEF InOrder
    <3>6. ASSUME NEW k \in DOMAIN incoming'[q][j]
          PROVE  /\ incoming'[q][j][k] = Fin \/ incoming'[q][j][k] = Decoded(q, j)' + k
                 /\ \A l \in DOMAIN incoming'[q][j] :
                       k < l /\ incoming'[q][j][k] = Fin => incoming'[q][j][l] = Fin
      <4>1. k \in Nat /\ k + 1 \in DOMAIN incoming[q][j] /\ incoming'[q][j][k] = incoming[q][j][k + 1]
        BY <3>1
      <4>2. Decoded(q, j)' + k = Decoded(q, j) + (k + 1)
        BY <3>3, <3>4, <4>1
      <4>3. incoming'[q][j][k] = Fin \/ incoming'[q][j][k] = Decoded(q, j)' + k
        BY <1>a, <4>1, <4>2 DEF InOrder
      <4>4. \A l \in DOMAIN incoming'[q][j] : k < l /\ incoming'[q][j][k] = Fin => incoming'[q][j][l] = Fin
        BY <1>a, <3>1, <4>1 DEF InOrder
      <4> QED BY <4>3, <4>4
    <3> QED BY <1>a, <3>2, <3>5, <3>6 DEF InOrder
  <2>2. CASE q # p \/ j # i
    <3>1. /\ got'[q][j] = got[q][j] /\ inbox'[q][j] = inbox[q][j]
          /\ incoming'[q][j] = incoming[q][j] /\ decoder'[q][j] = decoder[q][j]
          /\ job'[q][j] = job[q][j] /\ done'[q][j] = done[q][j]
      BY <1>1, <1>11, <2>2 DEF DecodeTake
    <3> QED BY <1>a, <3>1, SameStream
  <2> QED BY <2>1, <2>2
<1>12. ASSUME NEW p \in Sides, NEW i \in Ids, Dispatch(p, i) PROVE InOrder(q, j)'
  <2>1. CASE q = p /\ j = i
    <3>1. decoder[q][j] = "dispatch" /\ ~GiveUp(q, j)
      BY <1>a, <1>12, <2>1 DEF Dispatch, GiveUp, InOrder, Fresh
    <3>2. Appends(inbox[q][j], inbox'[q][j], job[q][j]) /\ Len(inbox'[q][j]) = Len(inbox[q][j]) + 1
      <4> HIDE DEF Appends
      <4> QED BY <1>0, <1>12, <2>1, <3>1, DispatchStream
    <3>3. UNCHANGED <<got, incoming, done>> /\ decoder'[q][j] = "select"
      BY <1>1, <1>12, <2>1 DEF Dispatch
    <3>4. Len(got[q][j]) \in Nat /\ Len(inbox[q][j]) \in Nat
      BY <1>0, StreamNumbers
    <3>5. Decoded(q, j)' = Decoded(q, j) /\ job[q][j] = Len(got[q][j]) + Len(inbox[q][j]) + 1
      <4>1. job[q][j] = Decoded(q, j)
        BY <1>a, <3>1 DEF InOrder
      <4>2. Decoded(q, j) = Len(got[q][j]) + Len(inbox[q][j]) + 1
        BY <3>1 DEF Decoded
      <4>3. Decoded(q, j)' = Len(got[q][j]) + Len(inbox'[q][j]) + 0
        BY <3>3 DEF Decoded
      <4>4. Len(inbox'[q][j]) = Len(inbox[q][j]) + 1
        BY <3>2
      <4> HIDE DEF Appends
      <4>5. Len(got[q][j]) + Len(inbox'[q][j]) + 0 = Len(got[q][j]) + Len(inbox[q][j]) + 1
        BY <3>4, <4>4, Sums, ZenonT(40)
      <4> QED BY <4>1, <4>2, <4>3, <4>5
    <3>6. ASSUME NEW k \in DOMAIN inbox'[q][j]
          PROVE  inbox'[q][j][k] = Len(got'[q][j]) + k
      <4>1. CASE k \in DOMAIN inbox[q][j]
        BY <1>a, <3>2, <3>3, <4>1 DEF InOrder
      <4>2. CASE k = Len(inbox[q][j]) + 1
        <5>1. inbox'[q][j][k] = Len(got[q][j]) + Len(inbox[q][j]) + 1
          BY <3>2, <3>5, <4>2
        <5> HIDE DEF Appends
        <5> QED BY <3>3, <3>4, <4>2, <5>1, Sums
      <4> QED BY <3>2, <3>6, <4>1, <4>2
    <3> QED BY <1>a, <3>1, <3>3, <3>5, <3>6 DEF InOrder
  <2>2. CASE q # p \/ j # i
    <3>1. /\ got'[q][j] = got[q][j] /\ inbox'[q][j] = inbox[q][j]
          /\ incoming'[q][j] = incoming[q][j] /\ decoder'[q][j] = decoder[q][j]
          /\ job'[q][j] = job[q][j] /\ done'[q][j] = done[q][j]
      <4>1. UNCHANGED <<got, incoming, done>>
        BY <1>12 DEF Dispatch
      <4>2. decoder'[q][j] = decoder[q][j] /\ job'[q][j] = job[q][j]
        BY <1>1, <1>12, <2>2 DEF Dispatch
      <4>3. \/ inbox' = inbox
            \/ inbox' = [inbox EXCEPT ![p][i] = Append(inbox[p][i], job[p][i])]
        BY <1>12 DEF Dispatch
      <4>4. inbox'[q][j] = inbox[q][j]
        <5>1. inbox \in [Sides -> [Ids -> Seq(Numbers)]]
          BY <1>1
        <5> HIDE DEF Appends, Takes
        <5> QED BY <2>2, <4>3, <5>1
      <4> QED BY <4>1, <4>2, <4>4
    <3> QED BY <1>a, <3>1, SameStream
  <2> QED BY <2>1, <2>2
<1>13. ASSUME NEW p \in Sides, NEW i \in Ids, DecodeFin(p, i) PROVE InOrder(q, j)'
  <2>1. CASE q = p /\ j = i
    <3>1. Takes(incoming[q][j], incoming'[q][j])
      <4> HIDE DEF Takes
      <4> QED BY <1>0, <1>13, <2>1, TakeStream
    <3>2. /\ UNCHANGED <<got, inbox, job>> /\ decoder[q][j] = "select" /\ decoder'[q][j] = "fin"
          /\ incoming[q][j][1] = Fin /\ 1 \in DOMAIN incoming[q][j]
      BY <1>1, <1>13, <2>1, <3>1 DEF DecodeFin
    <3>3. Decoded(q, j)' = Decoded(q, j)
      BY <3>2 DEF Decoded
    <3>4. \A k \in DOMAIN incoming'[q][j] : incoming'[q][j][k] = Fin
      <4>1. \A k \in DOMAIN incoming'[q][j] :
               1 < k + 1 /\ k + 1 \in DOMAIN incoming[q][j] /\ incoming'[q][j][k] = incoming[q][j][k + 1]
        BY <3>1
      <4> QED BY <1>a, <3>2, <4>1 DEF InOrder
    <3> QED BY <1>a, <3>2, <3>3, <3>4 DEF InOrder
  <2>2. CASE q # p \/ j # i
    <3>1. /\ got'[q][j] = got[q][j] /\ inbox'[q][j] = inbox[q][j]
          /\ incoming'[q][j] = incoming[q][j] /\ decoder'[q][j] = decoder[q][j]
          /\ job'[q][j] = job[q][j] /\ done'[q][j] = done[q][j]
      <4>1. done'[q][j] = done[q][j]
        BY <1>0, <1>13, <2>2, RemoveFacts DEF DecodeFin
      <4> QED BY <1>1, <1>13, <2>2, <4>1 DEF DecodeFin
    <3> QED BY <1>a, <3>1, SameStream
  <2> QED BY <2>1, <2>2
<1>14. ASSUME NEW p \in Sides, NEW i \in Ids, DecodeEnd(p, i) PROVE InOrder(q, j)'
  <2>1. CASE q = p /\ j = i
    <3>1. FALSE
      BY <1>a, <1>14, <2>1 DEF DecodeEnd, InOrder, Fresh
    <3> QED BY <3>1
  <2>2. CASE q # p \/ j # i
    <3>1. /\ got'[q][j] = got[q][j] /\ inbox'[q][j] = inbox[q][j]
          /\ incoming'[q][j] = incoming[q][j] /\ decoder'[q][j] = decoder[q][j]
          /\ job'[q][j] = job[q][j] /\ done'[q][j] = done[q][j]
      BY <1>1, <1>14, <2>2 DEF DecodeEnd
    <3> QED BY <1>a, <3>1, SameStream
  <2> QED BY <2>1, <2>2
<1>15. ASSUME NEW p \in Sides, NEW i \in Ids, DrainFin(p, i) PROVE InOrder(q, j)'
  <2>1. CASE q = p /\ j = i /\ incoming' # incoming
    <3>1. Appends(incoming[q][j], incoming'[q][j], Fin) /\ Len(incoming[q][j]) \in Nat
      <4>1. incoming' = [incoming EXCEPT ![q][j] = Append(incoming[q][j], Fin)]
        BY <1>15, <2>1 DEF DrainFin
      <4> HIDE DEF Appends
      <4> QED BY <1>0, <4>1, QueueStream
    <3>2. UNCHANGED <<got, inbox, decoder, job, done>> /\ Decoded(q, j)' = Decoded(q, j)
      BY <1>15 DEF DrainFin, Decoded
    <3>3. TRUE
      OBVIOUS
    <3>4. \A k \in DOMAIN incoming'[q][j] :
             /\ incoming'[q][j][k] = Fin \/ incoming'[q][j][k] = Decoded(q, j)' + k
             /\ \A l \in DOMAIN incoming'[q][j] :
                   k < l /\ incoming'[q][j][k] = Fin => incoming'[q][j][l] = Fin
             /\ decoder'[q][j] = "fin" => incoming'[q][j][k] = Fin
      <4>1. ASSUME NEW k \in DOMAIN incoming'[q][j]
            PROVE  /\ incoming'[q][j][k] = Fin \/ incoming'[q][j][k] = Decoded(q, j) + k
                   /\ \A l \in DOMAIN incoming'[q][j] :
                         k < l /\ incoming'[q][j][k] = Fin => incoming'[q][j][l] = Fin
                   /\ decoder[q][j] = "fin" => incoming'[q][j][k] = Fin
        <5>1. CASE k \in DOMAIN incoming[q][j]
          <6>1. /\ incoming'[q][j][k] = incoming[q][j][k]
                /\ incoming[q][j][k] = Fin \/ incoming[q][j][k] = Decoded(q, j) + k
                /\ decoder[q][j] = "fin" => incoming[q][j][k] = Fin
                /\ \A l \in DOMAIN incoming[q][j] :
                         k < l /\ incoming[q][j][k] = Fin => incoming[q][j][l] = Fin
            BY <1>a, <3>1, <5>1 DEF InOrder
          <6> QED BY <3>1, <3>3, <5>1, <6>1
        <5>2. CASE k = Len(incoming[q][j]) + 1
          <6>1. incoming'[q][j][k] = Fin /\ \A l \in DOMAIN incoming'[q][j] : ~(k < l)
            BY <3>1, <5>2
          <6> QED BY <3>3, <5>2, <6>1
        <5> QED BY <3>1, <5>1, <5>2
      <4> QED BY <3>2, <4>1
    <3> QED BY <1>a, <3>2, <3>4 DEF InOrder
  <2>2. CASE q # p \/ j # i \/ incoming' = incoming
    <3>1. UNCHANGED <<got, inbox, decoder, job, done>> /\ incoming'[q][j] = incoming[q][j]
      <4>1. UNCHANGED <<got, inbox, decoder, job, done>>
        BY <1>15 DEF DrainFin
      <4>2. \/ incoming' = incoming
            \/ incoming' = [incoming EXCEPT ![p][i] = Append(incoming[p][i], Fin)]
        BY <1>15 DEF DrainFin
      <4>3. incoming'[q][j] = incoming[q][j]
        <5>1. incoming \in [Sides -> [Ids -> Seq(Numbers \cup {Fin})]]
          BY <1>1
        <5> HIDE DEF Appends, Takes
        <5> QED BY <2>2, <4>2, <5>1
      <4> QED BY <4>1, <4>3
    <3> QED BY <1>a, <3>1, SameStream
  <2> QED BY <2>1, <2>2
<1> QED
  BY <1>2, <1>3, <1>4, <1>5, <1>6, <1>7, <1>8, <1>9, <1>10, <1>11, <1>12, <1>13, <1>14, <1>15
     DEF Next, AppStep, ReaderStep, WriterStep, CloseStep, StreamStep

(* Nothing of a stream comes behind its FIN. *)
LEMMA NextFinEnds ==
    ASSUME TableInv, StreamInv, Next, NEW q \in Sides, NEW j \in Ids, Fresh(q, j)', Reads(q)'
    PROVE  FinEnds(q, j)'
<1> USE DEF connVars, outVars, tableVars, readerVars, queueVars, streamVars, appVars, netVars
<1>0. /\ TypeOK
      /\ Framed
      /\ ClientFins
      /\ FinsPass
  BY DEF TableInv
<1>1. /\ decoder \in [Sides -> [Ids -> {"none", "select", "dispatch", "fin", "end"}]]
      /\ incoming \in [Sides -> [Ids -> Seq(Numbers \cup {Fin})]]
      /\ rpc \in [Sides -> {"read", "push", "drain", "end"}]
      /\ rframe \in [Sides -> [id : 0..NStreams, msg : Nat]]
      /\ nextId \in 0..NStreams
  BY DEF TableInv, TypeOK, Each, EachStream
<1>a. Fresh(q, j) /\ Reads(q) /\ FinEnds(q, j)
  BY FreshBefore, ReadsNoMore DEF StreamInv, FinsFollow
<1>b. FinPassed(j) => FinPassed(j)'
  BY FinPassedStays
<1>2. CASE Break
  <2>1. UNCHANGED <<decoder, incoming, rpc, rframe>>
    BY <1>2 DEF Break
  <2> QED BY <1>0, <1>a, <1>b, <2>1 DEF FinEnds, Pushing
<1>3. CASE \E p \in Sides : CloseAllStreams(p) \/ Write(p) \/ WriterEnd(p) \/ Close(p) \/
                            CloseQueue(p) \/ CloseWrite(p) \/ CloseEnd(p)
  <2>1. UNCHANGED <<decoder, incoming, rpc, rframe>>
    BY <1>3 DEF CloseAllStreams, Write, WriterEnd, Close, CloseQueue, CloseWrite, CloseEnd
  <2> QED BY <1>0, <1>a, <1>b, <2>1 DEF FinEnds, Pushing
<1>4. CASE \E p \in Sides, i \in Ids : Send(p, i) \/ Enqueue(p, i) \/ SendClosed(p, i) \/
                                       CloseOpened(p, i) \/ CloseFin(p, i) \/
                                       ClosePeerStream(p, i) \/ CloseRemove(p, i) \/
                                       Recv(p, i)
  <2>1. UNCHANGED <<decoder, incoming, rpc, rframe>>
    BY <1>4
       DEF Send, Enqueue, SendClosed, CloseOpened, CloseFin, ClosePeerStream, CloseRemove, Recv
  <2> QED BY <1>0, <1>a, <1>b, <2>1 DEF FinEnds, Pushing
<1>5. CASE NewStream
  <2>1. decoder'[q][j] = "fin" => decoder[q][j] = "fin"
    <3>1. "client" \in Sides /\ nextId + 1 \in Ids
      BY <1>1, <1>5, Constants DEF NewStream, Sides, Ids
    <3> QED BY <1>0, <1>5, <3>1, RegisterFacts DEF NewStream
  <2>2. incoming'[q][j] = incoming[q][j]
    BY <1>5 DEF NewStream
  <2>3. Pushing(q, j)' => Pushing(q, j)
    BY <1>5 DEF NewStream, Pushing
  <2> QED BY <1>a, <1>b, <2>1, <2>2, <2>3 DEF FinEnds
<1>6. ASSUME NEW p \in Sides, ReadFin(p) PROVE FinEnds(q, j)'
  <2>1. incoming'[q][j] = incoming[q][j]
    BY <1>6 DEF ReadFin
  <2>2. decoder'[q][j] = "fin" => decoder[q][j] = "fin"
    BY <1>6 DEF ReadFin
  <2>3. Pushing(q, j)' => Pushing(q, j) \/ (q = p /\ wire[q][1].id = j /\ 1 \in DOMAIN wire[q])
    <3>1. 1 \in DOMAIN wire[p] /\ Head(wire[p]) = wire[p][1]
      BY <1>0, <1>6, ReadFrames DEF ReadFin
    <3>2. CASE q = p
      <4>1. rframe'[p] = Head(wire[p])
        BY <1>1, <1>6 DEF ReadFin
      <4> QED BY <3>1, <3>2, <4>1 DEF Pushing
    <3>3. CASE q # p
      <4>1. rframe'[q] = rframe[q] /\ rpc'[q] = rpc[q]
        BY <1>1, <1>6, <3>3 DEF ReadFin
      <4> QED BY <4>1 DEF Pushing
    <3> QED BY <3>2, <3>3
  <2> QED BY <1>a, <1>b, <2>1, <2>2, <2>3 DEF FinEnds, FinPassed
<1>7. ASSUME NEW p \in Sides, ReadMessage(p) PROVE FinEnds(q, j)'
  <2>1. incoming'[q][j] = incoming[q][j]
    BY <1>7 DEF ReadMessage
  <2>2. decoder'[q][j] = "fin" => decoder[q][j] = "fin"
    <3>1. Head(wire[p]).id \in Ids
      BY <1>0, <1>7, ReadFrames DEF ReadMessage, Framed, Frames
    <3> QED BY <1>0, <1>7, <3>1, RegisterFacts DEF ReadMessage
  <2>3. Pushing(q, j)' => Pushing(q, j) \/ (q = p /\ wire[q][1].id = j /\ 1 \in DOMAIN wire[q])
    <3>1. 1 \in DOMAIN wire[p] /\ Head(wire[p]) = wire[p][1]
      BY <1>0, <1>7, ReadFrames DEF ReadMessage
    <3>2. CASE q = p
      <4>1. rframe'[p] = Head(wire[p])
        BY <1>1, <1>7 DEF ReadMessage
      <4> QED BY <3>1, <3>2, <4>1 DEF Pushing
    <3>3. CASE q # p
      <4>1. rframe'[q] = rframe[q] /\ rpc'[q] = rpc[q]
        BY <1>1, <1>7, <3>3 DEF ReadMessage
      <4> QED BY <4>1 DEF Pushing
    <3> QED BY <3>2, <3>3
  <2> QED BY <1>a, <1>b, <2>1, <2>2, <2>3 DEF FinEnds, FinPassed
<1>8. ASSUME NEW p \in Sides, Push(p) PROVE FinEnds(q, j)'
  <2>1. UNCHANGED <<decoder, rframe>> /\ (Pushing(q, j)' => Pushing(q, j))
    BY <1>1, <1>8 DEF Push, Pushing
  <2>2. CASE q = p /\ j = rframe[p].id /\ rframe[p].msg = Fin
    <3>1. q = "server" /\ FinPassed(j)
      BY <1>0, <1>8, <2>2 DEF Push, ClientFins, FinsPass, Sides
    <3>2. ~Pushing(q, j)'
      BY <1>1, <1>8, <2>2 DEF Push, Pushing
    <3> QED BY <1>b, <3>1, <3>2 DEF FinEnds
  <2>3. CASE ~(q = p /\ j = rframe[p].id /\ rframe[p].msg = Fin)
    <3>1. \A k \in DOMAIN incoming'[q][j] : incoming'[q][j][k] = Fin =>
             \E l \in DOMAIN incoming[q][j] : incoming[q][j][l] = Fin
      BY <1>0, <1>8, <2>3, PushFrames
    <3> QED BY <1>a, <1>b, <2>1, <3>1 DEF FinEnds
  <2> QED BY <2>2, <2>3
<1>9. ASSUME NEW p \in Sides, ReadError(p) PROVE FinEnds(q, j)'
  <2>1. decoder'[q][j] = "fin" => decoder[q][j] = "fin"
    BY <1>9 DEF ReadError
  <2>2. incoming'[q][j] = incoming[q][j]
    BY <1>9 DEF ReadError
  <2>3. Pushing(q, j)' => Pushing(q, j)
    BY <1>1, <1>9 DEF ReadError, Pushing
  <2> QED BY <1>a, <1>b, <2>1, <2>2, <2>3 DEF FinEnds
<1>10. ASSUME NEW p \in Sides, ReadEOF(p) PROVE FinEnds(q, j)'
  <2>1. decoder'[q][j] = "fin" => decoder[q][j] = "fin"
    BY <1>10 DEF ReadEOF
  <2>2. incoming'[q][j] = incoming[q][j]
    BY <1>10 DEF ReadEOF
  <2>3. Pushing(q, j)' => Pushing(q, j)
    BY <1>1, <1>10 DEF ReadEOF, Pushing
  <2> QED BY <1>a, <1>b, <2>1, <2>2, <2>3 DEF FinEnds
<1>11. ASSUME NEW p \in Sides, DrainEnd(p) PROVE FinEnds(q, j)'
  <2>1. decoder'[q][j] = "fin" => decoder[q][j] = "fin"
    BY <1>11 DEF DrainEnd
  <2>2. incoming'[q][j] = incoming[q][j]
    BY <1>11 DEF DrainEnd
  <2>3. Pushing(q, j)' => Pushing(q, j)
    BY <1>1, <1>11 DEF DrainEnd, Pushing
  <2> QED BY <1>a, <1>b, <2>1, <2>2, <2>3 DEF FinEnds
<1>12. ASSUME NEW p \in Sides, NEW i \in Ids, DecodeTake(p, i) PROVE FinEnds(q, j)'
  <2>1. decoder'[q][j] = "fin" => decoder[q][j] = "fin"
    BY <1>1, <1>12 DEF DecodeTake
  <2>2. \A k \in DOMAIN incoming'[q][j] : \E l \in DOMAIN incoming[q][j] : incoming'[q][j][k] = incoming[q][j][l]
    BY <1>0, <1>12, TakeFrames
  <2>3. Pushing(q, j)' => Pushing(q, j)
    BY <1>12 DEF DecodeTake, Pushing
  <2> QED BY <1>a, <1>b, <2>1, <2>2, <2>3 DEF FinEnds
<1>13. ASSUME NEW p \in Sides, NEW i \in Ids, Dispatch(p, i) PROVE FinEnds(q, j)'
  <2>1. decoder'[q][j] = "fin" => decoder[q][j] = "fin"
    BY <1>1, <1>13 DEF Dispatch
  <2>2. incoming'[q][j] = incoming[q][j]
    BY <1>13 DEF Dispatch
  <2>3. Pushing(q, j)' => Pushing(q, j)
    BY <1>13 DEF Dispatch, Pushing
  <2> QED BY <1>a, <1>b, <2>1, <2>2, <2>3 DEF FinEnds
<1>14. ASSUME NEW p \in Sides, NEW i \in Ids, DecodeFin(p, i) PROVE FinEnds(q, j)'
  <2>1. CASE q = p /\ j = i
    <3>1. 1 \in DOMAIN incoming[q][j] /\ incoming[q][j][1] = Fin
      BY <1>0, <1>14, <2>1, TakeFrames DEF DecodeFin
    <3>2. UNCHANGED <<rpc, rframe>>
      BY <1>14 DEF DecodeFin
    <3> QED BY <1>a, <1>b, <3>1, <3>2 DEF FinEnds, Pushing
  <2>2. CASE q # p \/ j # i
    <3>1. decoder'[q][j] = decoder[q][j] /\ incoming'[q][j] = incoming[q][j] /\ UNCHANGED <<rpc, rframe>>
      BY <1>1, <1>14, <2>2 DEF DecodeFin
    <3> QED BY <1>a, <1>b, <3>1 DEF FinEnds, Pushing
  <2> QED BY <2>1, <2>2
<1>15. ASSUME NEW p \in Sides, NEW i \in Ids, DecodeEnd(p, i) PROVE FinEnds(q, j)'
  <2>1. decoder'[q][j] = "fin" => decoder[q][j] = "fin"
    BY <1>1, <1>15 DEF DecodeEnd
  <2>2. incoming'[q][j] = incoming[q][j]
    BY <1>15 DEF DecodeEnd
  <2>3. Pushing(q, j)' => Pushing(q, j)
    BY <1>15 DEF DecodeEnd, Pushing
  <2> QED BY <1>a, <1>b, <2>1, <2>2, <2>3 DEF FinEnds
<1>16. ASSUME NEW p \in Sides, NEW i \in Ids, DrainFin(p, i) PROVE FinEnds(q, j)'
  <2>1. q # p
    BY <1>a, <1>16 DEF DrainFin, Reads
  <2>2. incoming'[q][j] = incoming[q][j] /\ UNCHANGED <<decoder, rpc, rframe>>
    BY <1>1, <1>16, <2>1 DEF DrainFin
  <2> QED BY <1>a, <1>b, <2>2 DEF FinEnds, Pushing
<1> QED
  BY <1>2, <1>3, <1>4, <1>5, <1>6, <1>7, <1>8, <1>9, <1>10, <1>11, <1>12, <1>13, <1>14, <1>15,
     <1>16 DEF Next, AppStep, ReaderStep, WriterStep, CloseStep, StreamStep

(* A FIN that has come is not lost. *)
LEMMA FinStays ==
    ASSUME TableInv, StreamInv, Next, NEW q \in Sides, NEW j \in Ids, Fresh(q, j)', HasFin(q, j)
    PROVE  HasFin(q, j)'
<1> USE DEF connVars, outVars, tableVars, readerVars, queueVars, streamVars, appVars, netVars
<1>0. /\ TypeOK
      /\ Framed
      /\ Known
      /\ Unborn
  BY DEF TableInv
<1>1. /\ decoder \in [Sides -> [Ids -> {"none", "select", "dispatch", "fin", "end"}]]
      /\ incoming \in [Sides -> [Ids -> Seq(Numbers \cup {Fin})]]
      /\ rpc \in [Sides -> {"read", "push", "drain", "end"}]
      /\ rframe \in [Sides -> [id : 0..NStreams, msg : Nat]]
      /\ nextId \in 0..NStreams
  BY DEF TableInv, TypeOK, Each, EachStream
<1>a. Fresh(q, j) /\ InOrder(q, j)
  BY FreshBefore DEF StreamInv, Queued
<1>2. CASE Break
  <2>1. UNCHANGED <<decoder, incoming, rpc, rframe>>
    BY <1>2 DEF Break
  <2> QED BY <1>0, HasFin(q, j), <2>1 DEF HasFin, Pushing
<1>3. CASE \E p \in Sides : CloseAllStreams(p) \/ Write(p) \/ WriterEnd(p) \/ Close(p) \/
                            CloseQueue(p) \/ CloseWrite(p) \/ CloseEnd(p)
  <2>1. UNCHANGED <<decoder, incoming, rpc, rframe>>
    BY <1>3 DEF CloseAllStreams, Write, WriterEnd, Close, CloseQueue, CloseWrite, CloseEnd
  <2> QED BY <1>0, HasFin(q, j), <2>1 DEF HasFin, Pushing
<1>4. CASE \E p \in Sides, i \in Ids : Send(p, i) \/ Enqueue(p, i) \/ SendClosed(p, i) \/
                                       CloseOpened(p, i) \/ CloseFin(p, i) \/
                                       ClosePeerStream(p, i) \/ CloseRemove(p, i) \/
                                       Recv(p, i)
  <2>1. UNCHANGED <<decoder, incoming, rpc, rframe>>
    BY <1>4
       DEF Send, Enqueue, SendClosed, CloseOpened, CloseFin, ClosePeerStream, CloseRemove, Recv
  <2> QED BY <1>0, HasFin(q, j), <2>1 DEF HasFin, Pushing
<1>5. CASE NewStream
  <2>1. CASE Register("client", nextId + 1) /\ q = "client" /\ j = nextId + 1
    <3>1. j > nextId
      BY <1>1, <2>1
    <3>2. decoder[q][j] # "fin"
      BY <1>0, <3>1 DEF Known, Unborn
    <3> QED BY <1>5, <3>2 DEF NewStream, HasFin, Pushing
  <2>2. CASE ~(Register("client", nextId + 1) /\ q = "client" /\ j = nextId + 1)
    <3>1. "client" \in Sides /\ nextId + 1 \in Ids
      BY <1>1, <1>5, Constants DEF NewStream, Sides, Ids
    <3>2. decoder'[q][j] = decoder[q][j]
      BY <1>0, <1>5, <2>2, <3>1, RegisterFacts DEF NewStream
    <3> QED BY <1>5, <3>2 DEF NewStream, HasFin, Pushing
  <2> QED BY <2>1, <2>2
<1>6. ASSUME NEW p \in Sides, ReadFin(p) PROVE HasFin(q, j)'
  <2>1. UNCHANGED <<incoming, decoder>>
    BY <1>6 DEF ReadFin
  <2>2. Pushing(q, j) => q # p
    BY <1>6 DEF ReadFin, ReadFrame, Pushing
  <2>3. q # p => rpc'[q] = rpc[q] /\ rframe'[q] = rframe[q]
    BY <1>1, <1>6 DEF ReadFin
  <2> QED BY <2>1, <2>2, <2>3 DEF HasFin, Pushing
<1>7. ASSUME NEW p \in Sides, ReadMessage(p) PROVE HasFin(q, j)'
  <2>1. UNCHANGED incoming
    BY <1>7 DEF ReadMessage
  <2>2. Pushing(q, j) => q # p
    BY <1>7 DEF ReadMessage, ReadFrame, Pushing
  <2>3. q # p => rpc'[q] = rpc[q] /\ rframe'[q] = rframe[q]
    BY <1>1, <1>7 DEF ReadMessage
  <2>4. decoder[q][j] = "fin" => decoder'[q][j] = "fin"
    <3>1. Head(wire[p]).id \in Ids
      BY <1>0, <1>7, ReadFrames DEF ReadMessage, Framed, Frames
    <3>2. CASE Register(p, Head(wire[p]).id) /\ Head(wire[p]).id \notin open[p] /\ ~KnownClosed(p, Head(wire[p]).id)
      <4>1. opened[p][Head(wire[p]).id] = 0
        BY <1>7, <3>2, NotReopened
      <4>2. decoder[p][Head(wire[p]).id] # "fin"
        BY <1>0, <3>1, <4>1 DEF Unborn
      <4> QED BY <1>0, <3>1, <3>2, <4>2, RegisterFacts
    <3>3. CASE UNCHANGED decoder
      BY <3>3
    <3> QED BY <1>7, <3>2, <3>3 DEF ReadMessage
  <2> QED BY <2>1, <2>2, <2>3, <2>4 DEF HasFin, Pushing
<1>8. ASSUME NEW p \in Sides, Push(p) PROVE HasFin(q, j)'
  <2>1. decoder'[q][j] = decoder[q][j]
    BY <1>8 DEF Push
  <2>2. (\E k \in DOMAIN incoming[q][j] : incoming[q][j][k] = Fin)
           => \E k \in DOMAIN incoming'[q][j] : incoming'[q][j][k] = Fin
    <3>1. CASE incoming' = [incoming EXCEPT ![p][rframe[p].id] = Append(incoming[p][rframe[p].id], rframe[p].msg)] /\ q = p /\ j = rframe[p].id
      <4>1. Appends(incoming[q][j], incoming'[q][j], rframe[q].msg)
        <5>1. rframe[q].msg \in Numbers \cup {Fin}
          BY <1>0, <1>8, <3>1, PushedMessage
        <5>2. incoming' = [incoming EXCEPT ![q][j] = Append(incoming[q][j], rframe[q].msg)]
          BY <3>1
        <5> HIDE DEF Appends
        <5> QED BY <1>0, <5>1, <5>2, QueueStream
      <4> QED BY <4>1
    <3>2. CASE incoming'[q][j] = incoming[q][j]
      BY <3>2
    <3>3. ASSUME ~(q = p /\ j = rframe[p].id) PROVE incoming'[q][j] = incoming[q][j]
      <4>1. rframe[p].id \in Ids /\ incoming \in [Sides -> [Ids -> Seq(Numbers \cup {Fin})]]
        BY <1>0, <1>1, <1>8, PushedMessage
      <4>2. incoming' = incoming \/ incoming' = [incoming EXCEPT ![p][rframe[p].id] = Append(incoming[p][rframe[p].id], rframe[p].msg)]
        BY <1>8 DEF Push
      <4> QED BY <3>3, <4>1, <4>2
    <3> QED BY <1>8, <3>1, <3>2, <3>3 DEF Push
  <2>3. CASE q = p /\ j = rframe[p].id
    <3>1. CASE incoming' = [incoming EXCEPT ![p][rframe[p].id] = Append(incoming[p][rframe[p].id], rframe[p].msg)]
      <4>1. Appends(incoming[q][j], incoming'[q][j], rframe[q].msg)
        <5>1. rframe[q].msg \in Numbers \cup {Fin}
          BY <1>0, <1>8, <2>3, PushedMessage
        <5>2. incoming' = [incoming EXCEPT ![q][j] = Append(incoming[q][j], rframe[q].msg)]
          BY <2>3, <3>1
        <5> HIDE DEF Appends
        <5> QED BY <1>0, <5>1, <5>2, QueueStream
      <4> QED BY <2>1, <2>2, <4>1 DEF HasFin
    <3>2. CASE GiveUp(p, rframe[p].id) /\ UNCHANGED incoming
      <4>1. decoder[q][j] = "fin"
        BY <1>a, <2>3, <3>2 DEF GiveUp, InOrder, Fresh
      <4> QED BY <2>1, <4>1 DEF HasFin
    <3> QED BY <1>8, <3>1, <3>2 DEF Push
  <2>4. CASE q # p \/ j # rframe[p].id
    <3>1. Pushing(q, j) => q # p /\ rpc'[q] = rpc[q] /\ rframe'[q] = rframe[q]
      BY <1>1, <1>8, <2>4 DEF Push, Pushing
    <3> QED BY <2>1, <2>2, <3>1 DEF HasFin, Pushing
  <2> QED BY <2>3, <2>4
<1>9. ASSUME NEW p \in Sides, ReadError(p) PROVE HasFin(q, j)'
  <2>1. Pushing(q, j) => Pushing(q, j)'
    BY <1>1, <1>9 DEF ReadError, Pushing
  <2> QED BY <1>9, <2>1 DEF ReadError, HasFin
<1>10. ASSUME NEW p \in Sides, ReadEOF(p) PROVE HasFin(q, j)'
  <2>1. Pushing(q, j) => Pushing(q, j)'
    BY <1>1, <1>10 DEF ReadEOF, Pushing
  <2> QED BY <1>10, <2>1 DEF ReadEOF, HasFin
<1>11. ASSUME NEW p \in Sides, DrainEnd(p) PROVE HasFin(q, j)'
  <2>1. Pushing(q, j) => Pushing(q, j)'
    BY <1>1, <1>11 DEF DrainEnd, Pushing
  <2> QED BY <1>11, <2>1 DEF DrainEnd, HasFin
<1>12. ASSUME NEW p \in Sides, NEW i \in Ids, DecodeTake(p, i) PROVE HasFin(q, j)'
  <2>1. CASE q = p /\ j = i
    <3>1. Takes(incoming[q][j], incoming'[q][j]) /\ incoming[q][j][1] # Fin
      <4>1. Takes(incoming[q][j], incoming'[q][j])
        <5> HIDE DEF Takes
        <5> QED BY <1>0, <1>12, <2>1, TakeStream
      <4> QED BY <1>12, <2>1, <4>1 DEF DecodeTake
    <3>2. decoder[q][j] # "fin" /\ UNCHANGED <<rpc, rframe>>
      BY <1>12, <2>1 DEF DecodeTake
    <3>3. (\E k \in DOMAIN incoming[q][j] : incoming[q][j][k] = Fin)
             => \E k \in DOMAIN incoming'[q][j] : incoming'[q][j][k] = Fin
      BY <3>1
    <3> QED BY <3>2, <3>3 DEF HasFin, Pushing
  <2>2. CASE q # p \/ j # i
    <3>1. decoder'[q][j] = decoder[q][j] /\ incoming'[q][j] = incoming[q][j] /\ UNCHANGED <<rpc, rframe>>
      BY <1>1, <1>12, <2>2 DEF DecodeTake
    <3> QED BY <3>1 DEF HasFin, Pushing
  <2> QED BY <2>1, <2>2
<1>13. ASSUME NEW p \in Sides, NEW i \in Ids, Dispatch(p, i) PROVE HasFin(q, j)'
  <2>1. decoder[q][j] = "fin" => decoder'[q][j] = "fin"
    BY <1>1, <1>13 DEF Dispatch
  <2> QED BY <1>13, <2>1 DEF Dispatch, HasFin, Pushing
<1>14. ASSUME NEW p \in Sides, NEW i \in Ids, DecodeFin(p, i) PROVE HasFin(q, j)'
  <2>1. CASE q = p /\ j = i
    BY <1>1, <1>14, <2>1 DEF DecodeFin, HasFin
  <2>2. CASE q # p \/ j # i
    <3>1. decoder'[q][j] = decoder[q][j] /\ incoming'[q][j] = incoming[q][j] /\ UNCHANGED <<rpc, rframe>>
      BY <1>1, <1>14, <2>2 DEF DecodeFin
    <3> QED BY <3>1 DEF HasFin, Pushing
  <2> QED BY <2>1, <2>2
<1>15. ASSUME NEW p \in Sides, NEW i \in Ids, DecodeEnd(p, i) PROVE HasFin(q, j)'
  <2>1. decoder[q][j] = "fin" => decoder'[q][j] = "fin"
    BY <1>1, <1>15 DEF DecodeEnd
  <2> QED BY <1>15, <2>1 DEF DecodeEnd, HasFin, Pushing
<1>16. ASSUME NEW p \in Sides, NEW i \in Ids, DrainFin(p, i) PROVE HasFin(q, j)'
  <2>1. decoder'[q][j] = decoder[q][j]
    BY <1>16 DEF DrainFin
  <2>2. (\E k \in DOMAIN incoming[q][j] : incoming[q][j][k] = Fin)
           => \E k \in DOMAIN incoming'[q][j] : incoming'[q][j][k] = Fin
    <3>1. CASE incoming' = [incoming EXCEPT ![p][i] = Append(incoming[p][i], Fin)] /\ q = p /\ j = i
      <4>1. Appends(incoming[q][j], incoming'[q][j], Fin)
        <5>1. Fin \in Numbers \cup {Fin}
          OBVIOUS
        <5>2. incoming' = [incoming EXCEPT ![q][j] = Append(incoming[q][j], Fin)]
          BY <3>1
        <5> HIDE DEF Appends
        <5> QED BY <1>0, <5>1, <5>2, QueueStream
      <4> QED BY <4>1
    <3>2. CASE incoming'[q][j] = incoming[q][j]
      BY <3>2
    <3>3. ASSUME ~(q = p /\ j = i) PROVE incoming'[q][j] = incoming[q][j]
      <4>1. i \in Ids /\ incoming \in [Sides -> [Ids -> Seq(Numbers \cup {Fin})]]
        BY <1>1
      <4>2. incoming' = incoming \/ incoming' = [incoming EXCEPT ![p][i] = Append(incoming[p][i], Fin)]
        BY <1>16 DEF DrainFin
      <4> QED BY <3>3, <4>1, <4>2
    <3> QED BY <1>16, <3>1, <3>2, <3>3 DEF DrainFin
  <2> QED BY <1>16, <2>1, <2>2 DEF DrainFin, HasFin, Pushing
<1> QED
  BY <1>2, <1>3, <1>4, <1>5, <1>6, <1>7, <1>8, <1>9, <1>10, <1>11, <1>12, <1>13, <1>14, <1>15,
     <1>16 DEF Next, AppStep, ReaderStep, WriterStep, CloseStep, StreamStep

(* A stream is registered before its decode loop has begun. *)
LEMMA Registers ==
    ASSUME TableInv, NEW q \in Sides, NEW j \in Ids,
           NewStream \/ \E p \in Sides : ReadMessage(p)
    PROVE  \/ decoder'[q][j] = decoder[q][j]
           \/ decoder[q][j] = "none" /\ decoder'[q][j] = "select"
<1>0. TypeOK /\ Framed /\ Known /\ Unborn
  BY DEF TableInv
<1>1. CASE NewStream
  <2>1. "client" \in Sides /\ nextId + 1 \in Ids /\ nextId \in Nat
    BY <1>0, <1>1, Constants DEF NewStream, Sides, Ids, TypeOK
  <2>2. decoder["client"][nextId + 1] = "none"
    <3>1. nextId + 1 > nextId
      BY <2>1
    <3> QED BY <1>0, <2>1, <3>1 DEF Known, Unborn
  <2> QED BY <1>0, <1>1, <2>1, <2>2, RegisterFacts DEF NewStream
<1>2. ASSUME NEW p \in Sides, ReadMessage(p)
      PROVE  \/ decoder'[q][j] = decoder[q][j]
             \/ decoder[q][j] = "none" /\ decoder'[q][j] = "select"
  <2>1. Head(wire[p]).id \in Ids
    BY <1>0, <1>2, ReadFrames DEF ReadMessage, Framed, Frames
  <2>2. CASE Register(p, Head(wire[p]).id) /\ Head(wire[p]).id \notin open[p] /\ ~KnownClosed(p, Head(wire[p]).id)
    <3>1. opened[p][Head(wire[p]).id] = 0
      BY <1>2, <2>2, NotReopened
    <3>2. decoder[p][Head(wire[p]).id] = "none"
      BY <1>0, <2>1, <3>1 DEF Unborn
    <3> QED BY <1>0, <2>1, <2>2, <3>2, RegisterFacts
  <2>3. CASE UNCHANGED decoder
    BY <2>3
  <2> QED BY <1>2, <2>2, <2>3 DEF ReadMessage
<1> QED BY <1>1, <1>2

(* Only the decode loop moves a message out of incoming. *)
LEMMA DecodedMoves ==
    ASSUME TableInv, StreamInv, Next, NEW q \in Sides, NEW j \in Ids, Fresh(q, j)'
    PROVE  \/ Decoded(q, j)' = Decoded(q, j)
           \/ DecodeTake(q, j) /\ Decoded(q, j)' = Decoded(q, j) + 1
<1> USE DEF connVars, outVars, tableVars, readerVars, queueVars, streamVars, appVars, netVars
<1>0. /\ TypeOK
      /\ Framed
      /\ Known
      /\ Unborn
  BY DEF TableInv
<1>1. /\ got \in [Sides -> [Ids -> Seq(Numbers)]]
      /\ inbox \in [Sides -> [Ids -> Seq(Numbers)]]
      /\ decoder \in [Sides -> [Ids -> {"none", "select", "dispatch", "fin", "end"}]]
  BY DEF TableInv, TypeOK, Each, EachStream
<1>a. Fresh(q, j) /\ InOrder(q, j)
  BY FreshBefore DEF StreamInv, Queued
<1>2. CASE Break
  <2>1. UNCHANGED <<got, inbox, decoder>>
    BY <1>2 DEF Break
  <2> QED BY <1>0, <2>1 DEF Decoded
<1>3. CASE \E p \in Sides : CloseAllStreams(p) \/ ReadFin(p) \/ Push(p) \/ ReadError(p) \/
                            ReadEOF(p) \/ DrainEnd(p) \/ Write(p) \/ WriterEnd(p) \/
                            Close(p) \/ CloseQueue(p) \/ CloseWrite(p) \/ CloseEnd(p)
  <2>1. UNCHANGED <<got, inbox, decoder>>
    BY <1>3
       DEF CloseAllStreams, ReadFin, Push, ReadError, ReadEOF, DrainEnd, Write, WriterEnd,
           Close, CloseQueue, CloseWrite, CloseEnd
  <2> QED BY <1>0, <2>1 DEF Decoded
<1>4. CASE \E p \in Sides, i \in Ids : Send(p, i) \/ Enqueue(p, i) \/ SendClosed(p, i) \/
                                       CloseOpened(p, i) \/ CloseFin(p, i) \/
                                       ClosePeerStream(p, i) \/ CloseRemove(p, i) \/
                                       DrainFin(p, i)
  <2>1. UNCHANGED <<got, inbox, decoder>>
    BY <1>4
       DEF Send, Enqueue, SendClosed, CloseOpened, CloseFin, ClosePeerStream, CloseRemove,
           DrainFin
  <2> QED BY <1>0, <2>1 DEF Decoded
<1>5. CASE NewStream
  <2>1. UNCHANGED <<got, inbox>>
    BY <1>5 DEF NewStream
  <2>2. decoder'[q][j] = "dispatch" <=> decoder[q][j] = "dispatch"
    BY <1>5, Registers
  <2> QED BY <2>1, <2>2 DEF Decoded
<1>6. ASSUME NEW p \in Sides, ReadMessage(p) PROVE (Decoded(q, j)' = Decoded(q, j) \/ (DecodeTake(q, j) /\ Decoded(q, j)' = Decoded(q, j) + 1))
  <2>1. UNCHANGED <<got, inbox>>
    BY <1>6 DEF ReadMessage
  <2>2. decoder'[q][j] = "dispatch" <=> decoder[q][j] = "dispatch"
    BY <1>6, Registers
  <2> QED BY <2>1, <2>2 DEF Decoded
<1>7. ASSUME NEW p \in Sides, NEW i \in Ids, Recv(p, i) PROVE (Decoded(q, j)' = Decoded(q, j) \/ (DecodeTake(q, j) /\ Decoded(q, j)' = Decoded(q, j) + 1))
  <2>1. CASE q = p /\ j = i
    <3>1. Len(inbox'[q][j]) = Len(inbox[q][j]) - 1 /\ Len(got'[q][j]) = Len(got[q][j]) + 1
      <4> HIDE DEF Takes, Appends
      <4> QED BY <1>0, <1>7, <2>1, RecvStream
    <3>2. Len(got[q][j]) \in Nat /\ Len(inbox[q][j]) \in Nat
      BY <1>0, StreamNumbers
    <3>3. Len(got'[q][j]) + Len(inbox'[q][j]) = Len(got[q][j]) + Len(inbox[q][j])
      BY <3>1, <3>2, Sums
    <3> QED BY <1>7, <3>3 DEF Recv, Decoded
  <2>2. CASE q # p \/ j # i
    <3>1. /\ got'[q][j] = got[q][j] /\ inbox'[q][j] = inbox[q][j] /\ decoder'[q][j] = decoder[q][j]
      BY <1>1, <1>7, <2>2 DEF Recv
    <3> QED BY <3>1 DEF Decoded
  <2> QED BY <2>1, <2>2
<1>8. ASSUME NEW p \in Sides, NEW i \in Ids, DecodeTake(p, i) PROVE (Decoded(q, j)' = Decoded(q, j) \/ (DecodeTake(q, j) /\ Decoded(q, j)' = Decoded(q, j) + 1))
  <2>1. CASE q = p /\ j = i
    <3>1. UNCHANGED <<got, inbox>> /\ decoder[q][j] = "select" /\ decoder'[q][j] = "dispatch"
      BY <1>1, <1>8, <2>1 DEF DecodeTake
    <3>2. Len(got[q][j]) \in Nat /\ Len(inbox[q][j]) \in Nat
      BY <1>0, StreamNumbers
    <3>3. Decoded(q, j)' = Decoded(q, j) + 1
      BY <3>1, <3>2 DEF Decoded
    <3> QED BY <1>8, <2>1, <3>3
  <2>2. CASE q # p \/ j # i
    <3>1. /\ got'[q][j] = got[q][j] /\ inbox'[q][j] = inbox[q][j] /\ decoder'[q][j] = decoder[q][j]
      BY <1>1, <1>8, <2>2 DEF DecodeTake
    <3> QED BY <3>1 DEF Decoded
  <2> QED BY <2>1, <2>2
<1>9. ASSUME NEW p \in Sides, NEW i \in Ids, Dispatch(p, i) PROVE (Decoded(q, j)' = Decoded(q, j) \/ (DecodeTake(q, j) /\ Decoded(q, j)' = Decoded(q, j) + 1))
  <2>1. CASE q = p /\ j = i
    <3>1. decoder[q][j] = "dispatch" /\ ~GiveUp(q, j)
      BY <1>a, <1>9, <2>1 DEF Dispatch, GiveUp, InOrder, Fresh
    <3>2. Len(inbox'[q][j]) = Len(inbox[q][j]) + 1
      <4> HIDE DEF Appends
      <4> QED BY <1>0, <1>9, <2>1, <3>1, DispatchStream
    <3>3. UNCHANGED got /\ decoder'[q][j] = "select"
      BY <1>1, <1>9, <2>1 DEF Dispatch
    <3>4. Len(got[q][j]) \in Nat /\ Len(inbox[q][j]) \in Nat
      BY <1>0, StreamNumbers
    <3>5. Len(got[q][j]) + Len(inbox'[q][j]) + 0 = Len(got[q][j]) + Len(inbox[q][j]) + 1
      BY <3>2, <3>4, Sums, ZenonT(40)
    <3> QED BY <3>1, <3>3, <3>5 DEF Decoded
  <2>2. CASE q # p \/ j # i
    <3>1. /\ got'[q][j] = got[q][j] /\ inbox'[q][j] = inbox[q][j] /\ decoder'[q][j] = decoder[q][j]
      BY <1>1, <1>9, <2>2 DEF Dispatch
    <3> QED BY <3>1 DEF Decoded
  <2> QED BY <2>1, <2>2
<1>10. ASSUME NEW p \in Sides, NEW i \in Ids, DecodeFin(p, i) PROVE (Decoded(q, j)' = Decoded(q, j) \/ (DecodeTake(q, j) /\ Decoded(q, j)' = Decoded(q, j) + 1))
  <2>1. UNCHANGED <<got, inbox>> /\ (decoder'[q][j] = "dispatch" <=> decoder[q][j] = "dispatch")
    BY <1>1, <1>10 DEF DecodeFin
  <2> QED BY <2>1 DEF Decoded
<1>11. ASSUME NEW p \in Sides, NEW i \in Ids, DecodeEnd(p, i) PROVE (Decoded(q, j)' = Decoded(q, j) \/ (DecodeTake(q, j) /\ Decoded(q, j)' = Decoded(q, j) + 1))
  <2>1. UNCHANGED <<got, inbox>> /\ (decoder'[q][j] = "dispatch" <=> decoder[q][j] = "dispatch")
    BY <1>1, <1>11 DEF DecodeEnd
  <2> QED BY <2>1 DEF Decoded
<1> QED
  BY <1>2, <1>3, <1>4, <1>5, <1>6, <1>7, <1>8, <1>9, <1>10, <1>11
     DEF Next, AppStep, ReaderStep, WriterStep, CloseStep, StreamStep

(* Once the FIN of a stream has come at the server, nothing else does. *)
LEMMA FinSettles ==
    ASSUME TableInv, StreamInv, NEW j \in Ids, Fresh("server", j), Reads("server"), HasFin("server", j)
    PROVE  FinPassed(j)
<1>1. FinEnds("server", j) /\ FinsPass
  BY BothSides DEF StreamInv, FinsFollow, TableInv
<1> QED BY <1>1 DEF FinEnds, HasFin, FinsPass, Pushing, Reads

(* The FIN of a stream comes at the server behind everything sent on it. *)
LEMMA NextComplete ==
    ASSUME TableInv, StreamInv, Next, NEW j \in Ids, Fresh("server", j)', Reads("server")'
    PROVE  Complete(j)'
<1> USE DEF connVars, outVars, tableVars, readerVars, queueVars, streamVars, appVars, netVars
<1>0. /\ TypeOK
      /\ Framed
      /\ FinsLast
  BY DEF TableInv
<1>1. /\ got \in [Sides -> [Ids -> Seq(Numbers)]]
      /\ inbox \in [Sides -> [Ids -> Seq(Numbers)]]
      /\ incoming \in [Sides -> [Ids -> Seq(Numbers \cup {Fin})]]
      /\ decoder \in [Sides -> [Ids -> {"none", "select", "dispatch", "fin", "end"}]]
      /\ rpc \in [Sides -> {"read", "push", "drain", "end"}]
      /\ rframe \in [Sides -> [id : 0..NStreams, msg : Nat]]
      /\ sent \in [Sides -> [Ids -> Nat]]
      /\ wire \in [Sides -> Seq([id : Ids, msg : Nat])]
  BY DEF TableInv, TypeOK, Each, EachStream
<1>a. /\ Fresh("server", j) /\ Reads("server") /\ InOrder("server", j)
      /\ Complete(j) /\ FinEnds("server", j)
  BY FreshBefore, ReadsNoMore, BothSides DEF StreamInv, Queued, FinsComplete, FinsFollow
<1>b. /\ Decoded("server", j) \in Nat /\ Len(incoming["server"][j]) \in Nat
      /\ \A k \in DOMAIN incoming["server"][j] : k \in Nat /\ k > 0
  BY <1>0, StreamNumbers, BothSides
<1>2. CASE Break
  <2>1. UNCHANGED <<got, inbox, incoming, decoder, rpc, rframe, sent>>
    BY <1>2 DEF Break
  <2> QED BY <1>0, <1>a, <2>1 DEF Complete, Decoded, Pushing
<1>3. CASE \E p \in Sides : CloseAllStreams(p) \/ Write(p) \/ WriterEnd(p) \/ Close(p) \/
                            CloseQueue(p) \/ CloseWrite(p) \/ CloseEnd(p)
  <2>1. UNCHANGED <<got, inbox, incoming, decoder, rpc, rframe, sent>>
    BY <1>3 DEF CloseAllStreams, Write, WriterEnd, Close, CloseQueue, CloseWrite, CloseEnd
  <2> QED BY <1>0, <1>a, <2>1 DEF Complete, Decoded, Pushing
<1>4. CASE \E p \in Sides, i \in Ids : Send(p, i) \/ SendClosed(p, i) \/ CloseOpened(p, i)
                                       \/ CloseFin(p, i) \/ ClosePeerStream(p, i) \/
                                       CloseRemove(p, i)
  <2>1. UNCHANGED <<got, inbox, incoming, decoder, rpc, rframe, sent>>
    BY <1>4 DEF Send, SendClosed, CloseOpened, CloseFin, ClosePeerStream, CloseRemove
  <2> QED BY <1>0, <1>a, <2>1 DEF Complete, Decoded, Pushing
<1>5. CASE NewStream
  <2>1. UNCHANGED sent
    BY <1>5 DEF NewStream
  <2>5. Decoded("server", j)' = Decoded("server", j)
    <3>1. decoder'["server"][j] = "dispatch" <=> decoder["server"][j] = "dispatch"
      BY <1>5, Registers, BothSides
    <3> QED BY <1>5, <3>1 DEF NewStream, Decoded
  <2>2. incoming'["server"][j] = incoming["server"][j]
    BY <1>5 DEF NewStream
  <2>3. decoder'["server"][j] = "fin" => decoder["server"][j] = "fin"
    BY <1>5, Registers, BothSides
  <2>4. Pushing("server", j)' /\ rframe'["server"].msg = Fin => Pushing("server", j) /\ rframe["server"].msg = Fin
    BY <1>5 DEF NewStream, Pushing
  <2> QED BY <1>a, <2>1, <2>2, <2>3, <2>4, <2>5 DEF Complete
<1>6. ASSUME NEW p \in Sides, ReadFin(p) PROVE Complete(j)'
  <2>1. UNCHANGED <<got, inbox, incoming, decoder, sent>> /\ Decoded("server", j)' = Decoded("server", j)
    BY <1>6 DEF ReadFin, Decoded
  <2>2. CASE Pushing("server", j)' /\ p = "server"
    <3>1. Takes(wire["server"], wire'["server"])
      <4> HIDE DEF Takes
      <4> QED BY <1>0, <1>6, <2>2, ReadFrames DEF ReadFin
    <3>2. wire["server"][1].id = j /\ wire["server"][1].msg = Fin /\ rpc["server"] = "read"
      BY <1>1, <1>6, <2>2, <3>1 DEF ReadFin, ReadFrame, Pushing
    <3>3. wire["server"][1] = Frame(j, Fin)
      <4>1. wire["server"][1] \in Frames("client")
        BY <1>0, <3>1, BothSides DEF Framed
      <4> QED BY <3>2, <4>1 DEF Frames, Frame
    <3>4. ~HasFin("server", j)
      <4>1. ~FinPassed(j)
        BY <3>1, <3>2 DEF FinPassed
      <4> QED BY <1>a, <4>1, FinSettles
    <3>5. Follows("server", j)
      BY <1>a, <3>4, BothSides DEF StreamInv, Flow
    <3>6. Taken("server", j) = Decoded("server", j) + Len(incoming["server"][j])
      BY <1>b, <3>2 DEF Taken, Pushing
    <3>7. Taken("server", j) \in Nat /\ sent["client"][j] \in Nat /\ Taken("server", j) <= sent["client"][j]
      BY <1>0, <3>5, StreamNumbers, BothSides DEF Follows
    <3>8. OnWire("server", j, Fin)
      BY <3>1, <3>3 DEF OnWire
    <3>9. ~(Taken("server", j) < sent["client"][j])
      <4>1. SUFFICES ASSUME Taken("server", j) < sent["client"][j] PROVE FALSE
        OBVIOUS
      <4>2. OnWire("server", j, sent["client"][j])
        BY <3>5, <3>7, <3>8, <4>1, BothSides DEF Follows
      <4>3. PICK k \in DOMAIN wire["server"] : wire["server"][k] = Frame(j, sent["client"][j])
        BY <4>2 DEF OnWire
      <4>4. wire["server"][k].id = j /\ wire["server"][k].msg # Fin
        BY <3>7, <4>1, <4>3 DEF Frame, Fin
      <4>5. k > 1
        BY <3>1, <3>2, <4>4
      <4> QED BY <1>0, <3>1, <3>3, <4>4, <4>5 DEF FinsLast
    <3>10. Decoded("server", j) + Len(incoming["server"][j]) = sent["client"][j]
      BY <3>6, <3>7, <3>9
    <3> QED BY <1>a, <2>1, <3>10 DEF Complete
  <2>3. CASE ~(Pushing("server", j)' /\ p = "server")
    <3>1. Pushing("server", j)' /\ rframe'["server"].msg = Fin => Pushing("server", j) /\ rframe["server"].msg = Fin
      <4>1. p # "server" => rpc'["server"] = rpc["server"] /\ rframe'["server"] = rframe["server"]
        BY <1>1, <1>6, BothSides DEF ReadFin
      <4> QED BY <2>3, <4>1 DEF Pushing
    <3> QED BY <1>a, <2>1, <3>1 DEF Complete
  <2> QED BY <2>2, <2>3
<1>7. ASSUME NEW p \in Sides, ReadMessage(p) PROVE Complete(j)'
  <2>1. UNCHANGED sent
    BY <1>7 DEF ReadMessage
  <2>5. Decoded("server", j)' = Decoded("server", j)
    <3>1. decoder'["server"][j] = "dispatch" <=> decoder["server"][j] = "dispatch"
      BY <1>7, Registers, BothSides
    <3> QED BY <1>7, <3>1 DEF ReadMessage, Decoded
  <2>2. incoming'["server"][j] = incoming["server"][j]
    BY <1>7 DEF ReadMessage
  <2>3. decoder'["server"][j] = "fin" => decoder["server"][j] = "fin"
    BY <1>7, Registers, BothSides
  <2>4. Pushing("server", j)' /\ rframe'["server"].msg = Fin => Pushing("server", j) /\ rframe["server"].msg = Fin
    <3>1. CASE p = "server"
      <4>1. rframe'["server"].msg # Fin
        BY <1>1, <1>7, <3>1 DEF ReadMessage
      <4> QED BY <4>1
    <3>2. CASE p # "server"
      <4>1. rpc'["server"] = rpc["server"] /\ rframe'["server"] = rframe["server"]
        BY <1>1, <1>7, <3>2, BothSides DEF ReadMessage
      <4> QED BY <4>1 DEF Pushing
    <3> QED BY <3>1, <3>2
  <2> QED BY <1>a, <2>1, <2>2, <2>3, <2>4, <2>5 DEF Complete
<1>8. ASSUME NEW p \in Sides, Push(p) PROVE Complete(j)'
  <2>1. UNCHANGED <<got, inbox, decoder, rframe, sent>> /\ Decoded("server", j)' = Decoded("server", j)
    BY <1>8 DEF Push, Decoded
  <2>2. CASE p = "server" /\ j = rframe[p].id /\ incoming' # incoming
    <3>1. Appends(incoming["server"][j], incoming'["server"][j], rframe["server"].msg)
      <4>1. incoming' = [incoming EXCEPT !["server"][j] = Append(incoming["server"][j], rframe["server"].msg)]
        BY <1>8, <2>2 DEF Push
      <4>2. rframe["server"].msg \in Numbers \cup {Fin}
        BY <1>0, <1>8, <2>2, PushedMessage
      <4> HIDE DEF Appends
      <4> QED BY <1>0, <4>1, <4>2, QueueStream, BothSides
    <3>2. ~Pushing("server", j)' /\ Pushing("server", j)
      BY <1>1, <1>8, <2>2 DEF Push, Pushing
    <3>3. ASSUME NEW k \in DOMAIN incoming'["server"][j], incoming'["server"][j][k] = Fin
          PROVE  Decoded("server", j) + k = sent["client"][j] + 1
      <4>1. CASE k \in DOMAIN incoming["server"][j]
        BY <1>a, <3>1, <3>3, <4>1 DEF Complete
      <4>2. CASE k = Len(incoming["server"][j]) + 1
        <5>1. rframe["server"].msg = Fin
          BY <3>1, <3>3, <4>2
        <5>2. Decoded("server", j) + Len(incoming["server"][j]) = sent["client"][j]
          BY <1>a, <3>2, <5>1 DEF Complete
        <5> HIDE DEF Appends
        <5> QED BY <1>b, <4>2, <5>2
      <4> QED BY <3>1, <3>3, <4>1, <4>2
    <3> QED BY <1>a, <2>1, <3>2, <3>3 DEF Complete
  <2>3. CASE ~(p = "server" /\ j = rframe[p].id /\ incoming' # incoming)
    <3>1. incoming'["server"][j] = incoming["server"][j]
      <4>1. rframe[p].id \in Ids /\ incoming \in [Sides -> [Ids -> Seq(Numbers \cup {Fin})]]
        BY <1>0, <1>1, <1>8, PushedMessage
      <4>2. incoming' = incoming \/ incoming' = [incoming EXCEPT ![p][rframe[p].id] = Append(incoming[p][rframe[p].id], rframe[p].msg)]
        BY <1>8 DEF Push
      <4>3. CASE incoming' = incoming
        BY <4>3
      <4>4. CASE p # "server" \/ j # rframe[p].id
        BY <4>1, <4>2, <4>4, BothSides
      <4> QED BY <2>3, <4>3, <4>4
    <3>2. Pushing("server", j)' => Pushing("server", j)
      BY <1>1, <1>8, BothSides DEF Push, Pushing
    <3> QED BY <1>a, <2>1, <3>1, <3>2 DEF Complete
  <2> QED BY <2>2, <2>3
<1>9. ASSUME NEW p \in Sides, ReadError(p) PROVE Complete(j)'
  <2>1. UNCHANGED sent
    BY <1>9 DEF ReadError
  <2>5. Decoded("server", j)' = Decoded("server", j)
    BY <1>9 DEF ReadError, Decoded
  <2>2. incoming'["server"][j] = incoming["server"][j]
    BY <1>9 DEF ReadError
  <2>3. decoder'["server"][j] = "fin" => decoder["server"][j] = "fin"
    BY <1>9 DEF ReadError
  <2>4. Pushing("server", j)' /\ rframe'["server"].msg = Fin => Pushing("server", j) /\ rframe["server"].msg = Fin
    <3>1. p # "server"
      BY <1>1, <1>9, BothSides DEF ReadError, Reads
    <3> QED BY <1>1, <1>9, <3>1, BothSides DEF ReadError, Pushing
  <2> QED BY <1>a, <2>1, <2>2, <2>3, <2>4, <2>5 DEF Complete
<1>10. ASSUME NEW p \in Sides, ReadEOF(p) PROVE Complete(j)'
  <2>1. UNCHANGED sent
    BY <1>10 DEF ReadEOF
  <2>5. Decoded("server", j)' = Decoded("server", j)
    BY <1>10 DEF ReadEOF, Decoded
  <2>2. incoming'["server"][j] = incoming["server"][j]
    BY <1>10 DEF ReadEOF
  <2>3. decoder'["server"][j] = "fin" => decoder["server"][j] = "fin"
    BY <1>10 DEF ReadEOF
  <2>4. Pushing("server", j)' /\ rframe'["server"].msg = Fin => Pushing("server", j) /\ rframe["server"].msg = Fin
    <3>1. p # "server"
      BY <1>1, <1>10, BothSides DEF ReadEOF, Reads
    <3> QED BY <1>1, <1>10, <3>1, BothSides DEF ReadEOF, Pushing
  <2> QED BY <1>a, <2>1, <2>2, <2>3, <2>4, <2>5 DEF Complete
<1>11. ASSUME NEW p \in Sides, DrainEnd(p) PROVE Complete(j)'
  <2>1. UNCHANGED sent
    BY <1>11 DEF DrainEnd
  <2>5. Decoded("server", j)' = Decoded("server", j)
    BY <1>11 DEF DrainEnd, Decoded
  <2>2. incoming'["server"][j] = incoming["server"][j]
    BY <1>11 DEF DrainEnd
  <2>3. decoder'["server"][j] = "fin" => decoder["server"][j] = "fin"
    BY <1>11 DEF DrainEnd
  <2>4. Pushing("server", j)' /\ rframe'["server"].msg = Fin => Pushing("server", j) /\ rframe["server"].msg = Fin
    <3>1. p # "server"
      BY <1>1, <1>11, BothSides DEF DrainEnd, Reads
    <3> QED BY <1>1, <1>11, <3>1, BothSides DEF DrainEnd, Pushing
  <2> QED BY <1>a, <2>1, <2>2, <2>3, <2>4, <2>5 DEF Complete
<1>12. ASSUME NEW p \in Sides, NEW i \in Ids, Enqueue(p, i) PROVE Complete(j)'
  <2>1. UNCHANGED <<got, inbox, incoming, decoder, rpc, rframe>>
    BY <1>12 DEF Enqueue
  <2>2. CASE p = "client" /\ i = j
    <3>1. ~FinPassed(j)
      BY <1>12, <2>2 DEF Enqueue, FinPassed, Finished
    <3>2. ~HasFin("server", j)
      BY <1>a, <3>1, FinSettles
    <3> QED BY <2>1, <3>2 DEF Complete, HasFin, Pushing
  <2>3. CASE p # "client" \/ i # j
    <3>1. sent'["client"][j] = sent["client"][j]
      BY <1>1, <1>12, <2>3, BothSides DEF Enqueue
    <3> QED BY <1>a, <2>1, <3>1 DEF Complete, Decoded, Pushing
  <2> QED BY <2>2, <2>3
<1>13. ASSUME NEW p \in Sides, NEW i \in Ids, Recv(p, i) PROVE Complete(j)'
  <2>1. UNCHANGED sent
    BY <1>13 DEF Recv
  <2>5. Decoded("server", j)' = Decoded("server", j)
    <3>1. decoder'["server"][j] # "dispatch" \/ decoder["server"][j] = "dispatch"
      BY <1>1, <1>13, BothSides DEF Recv
    <3>2. ~DecodeTake("server", j) \/ Decoded("server", j)' = Decoded("server", j)
      BY <1>1, <3>1, BothSides DEF DecodeTake
    <3> QED BY <3>2, DecodedMoves, BothSides
  <2>2. incoming'["server"][j] = incoming["server"][j]
    BY <1>13 DEF Recv
  <2>3. decoder'["server"][j] = "fin" => decoder["server"][j] = "fin"
    BY <1>1, <1>13, BothSides DEF Recv
  <2>4. Pushing("server", j)' /\ rframe'["server"].msg = Fin => Pushing("server", j) /\ rframe["server"].msg = Fin
    BY <1>13 DEF Recv, Pushing
  <2> QED BY <1>a, <2>1, <2>2, <2>3, <2>4, <2>5 DEF Complete
<1>14. ASSUME NEW p \in Sides, NEW i \in Ids, DecodeTake(p, i) PROVE Complete(j)'
  <2>1. CASE p = "server" /\ i = j
    <3>1. /\ Takes(incoming["server"][j], incoming'["server"][j])
          /\ Len(incoming'["server"][j]) = Len(incoming["server"][j]) - 1
      <4> HIDE DEF Takes
      <4> QED BY <1>0, <1>14, <2>1, TakeStream
    <3>2. UNCHANGED <<rpc, rframe, sent>> /\ decoder'["server"][j] = "dispatch"
      BY <1>1, <1>14, <2>1 DEF DecodeTake
    <3>3. Decoded("server", j)' = Decoded("server", j) + 1
      <4>1. decoder["server"][j] = "select" /\ UNCHANGED <<got, inbox>>
        BY <1>14, <2>1 DEF DecodeTake
      <4>2. Len(got["server"][j]) \in Nat /\ Len(inbox["server"][j]) \in Nat
        BY <1>0, StreamNumbers, BothSides
      <4> QED BY <3>2, <4>1, <4>2 DEF Decoded
    <3>4. ASSUME NEW k \in DOMAIN incoming'["server"][j], incoming'["server"][j][k] = Fin
          PROVE  Decoded("server", j)' + k = sent["client"][j] + 1
      <4>1. k \in Nat /\ Decoded("server", j) + (k + 1) = sent["client"][j] + 1
        BY <1>a, <3>1, <3>4 DEF Complete
      <4>2. Decoded("server", j)' + k = Decoded("server", j) + (k + 1)
        BY <1>b, <3>3, <4>1
      <4> QED BY <4>1, <4>2
    <3>5. Decoded("server", j)' + Len(incoming'["server"][j]) = Decoded("server", j) + Len(incoming["server"][j])
      <4>1. Len(incoming'["server"][j]) = Len(incoming["server"][j]) - 1
        BY <3>1
      <4> HIDE DEF Takes
      <4> HIDE DEF Decoded
      <4> QED BY <1>b, <3>3, <4>1, Sums
    <3>6. Pushing("server", j)' /\ rframe'["server"].msg = Fin => Decoded("server", j)' + Len(incoming'["server"][j]) = sent["client"][j]
      BY <1>a, <3>2, <3>5 DEF Complete, Pushing
    <3> QED BY <3>2, <3>4, <3>6 DEF Complete
  <2>2. CASE p # "server" \/ i # j
    <3>1. /\ incoming'["server"][j] = incoming["server"][j] /\ decoder'["server"][j] = decoder["server"][j]
          /\ UNCHANGED <<got, inbox, rpc, rframe, sent>>
      BY <1>1, <1>14, <2>2, BothSides DEF DecodeTake
    <3> QED BY <1>a, <3>1 DEF Complete, Decoded, Pushing
  <2> QED BY <2>1, <2>2
<1>15. ASSUME NEW p \in Sides, NEW i \in Ids, Dispatch(p, i) PROVE Complete(j)'
  <2>1. UNCHANGED sent
    BY <1>15 DEF Dispatch
  <2>5. Decoded("server", j)' = Decoded("server", j)
    <3>1. decoder'["server"][j] # "dispatch" \/ decoder["server"][j] = "dispatch"
      BY <1>1, <1>15, BothSides DEF Dispatch
    <3>2. ~DecodeTake("server", j) \/ Decoded("server", j)' = Decoded("server", j)
      BY <1>1, <3>1, BothSides DEF DecodeTake
    <3> QED BY <3>2, DecodedMoves, BothSides
  <2>2. incoming'["server"][j] = incoming["server"][j]
    BY <1>15 DEF Dispatch
  <2>3. decoder'["server"][j] = "fin" => decoder["server"][j] = "fin"
    BY <1>1, <1>15, BothSides DEF Dispatch
  <2>4. Pushing("server", j)' /\ rframe'["server"].msg = Fin => Pushing("server", j) /\ rframe["server"].msg = Fin
    BY <1>15 DEF Dispatch, Pushing
  <2> QED BY <1>a, <2>1, <2>2, <2>3, <2>4, <2>5 DEF Complete
<1>16. ASSUME NEW p \in Sides, NEW i \in Ids, DecodeFin(p, i) PROVE Complete(j)'
  <2>1. CASE p = "server" /\ i = j
    <3>1. /\ Takes(incoming["server"][j], incoming'["server"][j])
          /\ Len(incoming'["server"][j]) = Len(incoming["server"][j]) - 1
      <4> HIDE DEF Takes
      <4> QED BY <1>0, <1>16, <2>1, TakeStream
    <3>2. /\ UNCHANGED <<rpc, rframe, sent>> /\ Decoded("server", j)' = Decoded("server", j)
          /\ incoming["server"][j][1] = Fin /\ 1 \in DOMAIN incoming["server"][j]
      <4>1. UNCHANGED <<rpc, rframe, sent, got, inbox>> /\ incoming["server"][j][1] = Fin
        BY <1>16, <2>1, <3>1 DEF DecodeFin
      <4>2. decoder["server"][j] = "select" /\ decoder'["server"][j] = "fin"
        BY <1>1, <1>16, <2>1 DEF DecodeFin
      <4> QED BY <3>1, <4>1, <4>2 DEF Decoded
    <3>3. Decoded("server", j) + 1 = sent["client"][j] + 1
      BY <1>a, <3>2 DEF Complete
    <3>4. \A k \in DOMAIN incoming'["server"][j] : incoming'["server"][j][k] # Fin
      <4>1. SUFFICES ASSUME NEW k \in DOMAIN incoming'["server"][j], incoming'["server"][j][k] = Fin
                     PROVE  FALSE
        OBVIOUS
      <4>2. k \in Nat /\ k > 0 /\ Decoded("server", j) + (k + 1) = sent["client"][j] + 1
        BY <1>a, <3>1, <4>1 DEF Complete
      <4>3. Decoded("server", j) + (k + 1) = Decoded("server", j) + 1
        BY <3>3, <4>2
      <4> HIDE DEF Takes
      <4> QED BY <1>b, <4>2, <4>3
    <3>5. ~Pushing("server", j)'
      <4>1. ~Pushing("server", j)
        BY <1>a, <3>2 DEF FinEnds
      <4> QED BY <3>2, <4>1 DEF Pushing
    <3>6. Decoded("server", j)' = sent'["client"][j]
      <4>1. sent["client"][j] \in Nat
        BY <1>0, StreamNumbers, BothSides
      <4>2. Decoded("server", j) = sent["client"][j]
        BY <1>b, <3>3, <4>1
      <4> QED BY <3>2, <4>2
    <3> QED BY <3>4, <3>5, <3>6 DEF Complete
  <2>2. CASE p # "server" \/ i # j
    <3>1. /\ incoming'["server"][j] = incoming["server"][j] /\ decoder'["server"][j] = decoder["server"][j]
          /\ UNCHANGED <<got, inbox, rpc, rframe, sent>>
      BY <1>1, <1>16, <2>2, BothSides DEF DecodeFin
    <3> QED BY <1>a, <3>1 DEF Complete, Decoded, Pushing
  <2> QED BY <2>1, <2>2
<1>17. ASSUME NEW p \in Sides, NEW i \in Ids, DecodeEnd(p, i) PROVE Complete(j)'
  <2>1. UNCHANGED sent
    BY <1>17 DEF DecodeEnd
  <2>5. Decoded("server", j)' = Decoded("server", j)
    <3>1. decoder'["server"][j] # "dispatch" \/ decoder["server"][j] = "dispatch"
      BY <1>1, <1>17, BothSides DEF DecodeEnd
    <3>2. ~DecodeTake("server", j) \/ Decoded("server", j)' = Decoded("server", j)
      BY <1>1, <3>1, BothSides DEF DecodeTake
    <3> QED BY <3>2, DecodedMoves, BothSides
  <2>2. incoming'["server"][j] = incoming["server"][j]
    BY <1>17 DEF DecodeEnd
  <2>3. decoder'["server"][j] = "fin" => decoder["server"][j] = "fin"
    BY <1>1, <1>17, BothSides DEF DecodeEnd
  <2>4. Pushing("server", j)' /\ rframe'["server"].msg = Fin => Pushing("server", j) /\ rframe["server"].msg = Fin
    BY <1>17 DEF DecodeEnd, Pushing
  <2> QED BY <1>a, <2>1, <2>2, <2>3, <2>4, <2>5 DEF Complete
<1>18. ASSUME NEW p \in Sides, NEW i \in Ids, DrainFin(p, i) PROVE Complete(j)'
  <2>1. UNCHANGED sent
    BY <1>18 DEF DrainFin
  <2>5. Decoded("server", j)' = Decoded("server", j)
    BY <1>18 DEF DrainFin, Decoded
  <2>2. incoming'["server"][j] = incoming["server"][j]
    <3>1. p # "server"
      BY <1>a, <1>18 DEF DrainFin, Reads
    <3> QED BY <1>1, <1>18, <3>1, BothSides DEF DrainFin
  <2>3. decoder'["server"][j] = "fin" => decoder["server"][j] = "fin"
    BY <1>18 DEF DrainFin
  <2>4. Pushing("server", j)' /\ rframe'["server"].msg = Fin => Pushing("server", j) /\ rframe["server"].msg = Fin
    BY <1>18 DEF DrainFin, Pushing
  <2> QED BY <1>a, <2>1, <2>2, <2>3, <2>4, <2>5 DEF Complete
<1> QED
  BY <1>2, <1>3, <1>4, <1>5, <1>6, <1>7, <1>8, <1>9, <1>10, <1>11, <1>12, <1>13, <1>14, <1>15,
     <1>16, <1>17, <1>18 DEF Next, AppStep, ReaderStep, WriterStep, CloseStep, StreamStep

(* Where a frame is in a queue that grows, and in one whose head is taken. *)
LEMMA FrameFacts == \A i, n, j, m : /\ Frame(i, n) = Frame(j, m) <=> i = j /\ n = m
                                    /\ Frame(i, n).id = i /\ Frame(i, n).msg = n
BY DEF Frame

(* A frame is its ID and its message. *)
LEMMA FrameIs ==
    ASSUME NEW p \in Sides, NEW f \in Frames(p)
    PROVE  f = Frame(f.id, f.msg)
BY DEF Frames, Frame

(* The frames of a queue after Append, *)
LEMMA AppendedFrames ==
    ASSUME NEW s, NEW t, NEW f, Appends(s, t, f)
    PROVE  \A i, n : (\E k \in DOMAIN t : t[k] = Frame(i, n)) <=>
                        (\E k \in DOMAIN s : s[k] = Frame(i, n)) \/ f = Frame(i, n)
OBVIOUS

(* ... and after its head was taken. *)
LEMMA TakenFrames ==
    ASSUME NEW s, NEW t, Takes(s, t)
    PROVE  \A i, n : (\E k \in DOMAIN s : s[k] = Frame(i, n)) <=>
                        (\E k \in DOMAIN t : t[k] = Frame(i, n)) \/ s[1] = Frame(i, n)
<1> SUFFICES ASSUME NEW i, NEW n
             PROVE  (\E k \in DOMAIN s : s[k] = Frame(i, n)) <=>
                        (\E k \in DOMAIN t : t[k] = Frame(i, n)) \/ s[1] = Frame(i, n)
  OBVIOUS
<1>1. ASSUME NEW k \in DOMAIN s, s[k] = Frame(i, n)
      PROVE  (\E l \in DOMAIN t : t[l] = Frame(i, n)) \/ s[1] = Frame(i, n)
  BY <1>1
<1>2. ASSUME NEW k \in DOMAIN t, t[k] = Frame(i, n)
      PROVE  \E l \in DOMAIN s : s[l] = Frame(i, n)
  BY <1>2
<1> QED BY <1>1, <1>2

(* Reading takes a frame off the wire. *)
LEMMA ReadChanges ==
    ASSUME TypeOK, NEW p \in Sides, ReadFrame(p)
    PROVE  wire' # wire
<1>1. wire \in [Sides -> Seq([id : Ids, msg : Nat])]
  BY DEF TypeOK, Each
<1>2. wire' = [wire EXCEPT ![p] = Tail(wire[p])] /\ wire[p] # <<>>
  BY DEF ReadFrame
<1>3. wire'[p] = Tail(wire[p]) /\ wire[p] \in Seq([id : Ids, msg : Nat])
  BY <1>1, <1>2
<1>4. Len(Tail(wire[p])) = Len(wire[p]) - 1 /\ Len(wire[p]) \in Nat
  BY <1>2, <1>3, TailFacts
<1>5. \A n \in Nat : n # n - 1
  OBVIOUS
<1>6. Tail(wire[p]) # wire[p]
  BY <1>4, <1>5
<1> QED BY <1>3, <1>6

(* A message of a stream that is read and has not ended is not dropped. *)
LEMMA ReadTakes ==
    ASSUME TableInv, StreamInv, NEW q \in Sides, ReadMessage(q), NEW j \in Ids, Head(wire[q]).id = j,
           Fresh(q, j), ~HasFin(q, j)
    PROVE  rpc'[q] = "push" /\ rframe'[q] = Head(wire[q])
<1>0. TypeOK /\ Staged /\ Left /\ Tabled /\ InOrder(q, j)
  BY DEF TableInv, StreamInv, Queued
<1>1. rpc \in [Sides -> {"read", "push", "drain", "end"}] /\ rframe \in [Sides -> [id : 0..NStreams, msg : Nat]]
  BY <1>0 DEF TypeOK, Each
<1>2. rframe'[q] = Head(wire[q])
  BY <1>1 DEF ReadMessage
<1>3. j \in open[q] \/ ~KnownClosed(q, j)
  <2>1. SUFFICES ASSUME j \notin open[q], KnownClosed(q, j) PROVE FALSE
    OBVIOUS
  <2>2. j \notin reserved[q]
    BY <1>0 DEF Left, Fresh
  <2>3. q = "client" /\ j <= nextId
    BY <2>1, <2>2 DEF KnownClosed, OpenedStream
  <2>4. opened[q][j] # 0
    BY <1>0, <2>3 DEF Staged, Fresh
  <2>5. opened[q][j] = 1
    <3>1. opened[q][j] \in Nat /\ opened[q][j] <= 1
      BY <1>0 DEF Tabled, NeverReopened, TypeOK, EachStream
    <3> QED BY <2>4, <3>1
  <2>6. done[q][j]
    BY <1>0, <2>1, <2>5 DEF Left
  <2> QED BY <1>0, <2>6 DEF InOrder, HasFin
<1> QED BY <1>1, <1>2, <1>3 DEF ReadMessage

(* Only the reader takes a message of a stream off the wire. *)
LEMMA TakenMoves ==
    ASSUME TableInv, StreamInv, Next, NEW q \in Sides, NEW j \in Ids, Fresh(q, j)', Reads(q)', ~HasFin(q, j)'
    PROVE  \/ /\ Taken(q, j)' = Taken(q, j)
              /\ Pushing(q, j)' => Pushing(q, j) /\ rframe'[q] = rframe[q]
           \/ /\ ReadMessage(q) /\ Head(wire[q]).id = j /\ Taken(q, j)' = Taken(q, j) + 1
              /\ Pushing(q, j)' /\ rframe'[q] = Head(wire[q])
<1> USE DEF connVars, outVars, tableVars, readerVars, queueVars, streamVars, appVars, netVars
<1>0. /\ TypeOK
      /\ Framed
  BY DEF TableInv
<1>1. /\ got \in [Sides -> [Ids -> Seq(Numbers)]]
      /\ inbox \in [Sides -> [Ids -> Seq(Numbers)]]
      /\ incoming \in [Sides -> [Ids -> Seq(Numbers \cup {Fin})]]
      /\ decoder \in [Sides -> [Ids -> {"none", "select", "dispatch", "fin", "end"}]]
      /\ rpc \in [Sides -> {"read", "push", "drain", "end"}]
      /\ rframe \in [Sides -> [id : 0..NStreams, msg : Nat]]
  BY DEF TableInv, TypeOK, Each, EachStream
<1>a. Fresh(q, j) /\ Reads(q) /\ ~HasFin(q, j) /\ InOrder(q, j)
  BY FreshBefore, ReadsNoMore, FinStays DEF StreamInv, Queued
<1>b. /\ Decoded(q, j) \in Nat /\ Len(incoming[q][j]) \in Nat /\ Taken(q, j) \in Nat
  BY <1>0, StreamNumbers
<1>c. \/ Decoded(q, j)' = Decoded(q, j)
      \/ DecodeTake(q, j) /\ Decoded(q, j)' = Decoded(q, j) + 1
  BY DecodedMoves
<1>2. CASE Break
  <2>1. UNCHANGED <<got, inbox, incoming, decoder, rpc, rframe>>
    BY <1>2 DEF Break
  <2> QED BY <1>0, <2>1 DEF Taken, Decoded, Pushing
<1>3. CASE \E p \in Sides : CloseAllStreams(p) \/ Write(p) \/ WriterEnd(p) \/ Close(p) \/
                            CloseQueue(p) \/ CloseWrite(p) \/ CloseEnd(p)
  <2>1. UNCHANGED <<got, inbox, incoming, decoder, rpc, rframe>>
    BY <1>3 DEF CloseAllStreams, Write, WriterEnd, Close, CloseQueue, CloseWrite, CloseEnd
  <2> QED BY <1>0, <2>1 DEF Taken, Decoded, Pushing
<1>4. CASE \E p \in Sides, i \in Ids : Send(p, i) \/ Enqueue(p, i) \/ SendClosed(p, i) \/
                                       CloseOpened(p, i) \/ CloseFin(p, i) \/
                                       ClosePeerStream(p, i) \/ CloseRemove(p, i)
  <2>1. UNCHANGED <<got, inbox, incoming, decoder, rpc, rframe>>
    BY <1>4 DEF Send, Enqueue, SendClosed, CloseOpened, CloseFin, ClosePeerStream, CloseRemove
  <2> QED BY <1>0, <2>1 DEF Taken, Decoded, Pushing
<1>5. CASE NewStream
  <2>1. Decoded(q, j)' = Decoded(q, j)
    <3>1. decoder'[q][j] = "dispatch" <=> decoder[q][j] = "dispatch"
      BY <1>5, Registers
    <3> QED BY <1>5, <3>1 DEF NewStream, Decoded
  <2>2. incoming'[q][j] = incoming[q][j]
    BY <1>5 DEF NewStream
  <2>3. rpc'[q] = rpc[q] /\ rframe'[q] = rframe[q]
    BY <1>5 DEF NewStream
  <2>4. Pushing(q, j)' <=> Pushing(q, j)
    BY <2>3 DEF Pushing
  <2> QED BY <2>1, <2>2, <2>3, <2>4 DEF Taken
<1>6. ASSUME NEW p \in Sides, ReadFin(p) PROVE (Taken(q, j)' = Taken(q, j) /\ (Pushing(q, j)' => Pushing(q, j) /\ rframe'[q] = rframe[q])) \/ (ReadMessage(q) /\ Head(wire[q]).id = j /\ Taken(q, j)' = Taken(q, j) + 1 /\ Pushing(q, j)' /\ rframe'[q] = Head(wire[q]))
  <2>1. UNCHANGED <<got, inbox, incoming, decoder>> /\ Decoded(q, j)' = Decoded(q, j)
    BY <1>6 DEF ReadFin, Decoded
  <2>2. CASE q = p
    <3>1. rframe'[q].msg = Fin /\ rpc[q] = "read"
      BY <1>1, <1>6, <2>2 DEF ReadFin, ReadFrame
    <3>2. ~Pushing(q, j)' /\ ~Pushing(q, j)
      BY <3>1 DEF HasFin, Pushing
    <3> QED BY <2>1, <3>2 DEF Taken
  <2>3. CASE q # p
    <3>1. rpc'[q] = rpc[q] /\ rframe'[q] = rframe[q]
      BY <1>1, <1>6, <2>3 DEF ReadFin
    <3> QED BY <2>1, <3>1 DEF Taken, Pushing
  <2> QED BY <2>2, <2>3
<1>7. ASSUME NEW p \in Sides, ReadMessage(p) PROVE (Taken(q, j)' = Taken(q, j) /\ (Pushing(q, j)' => Pushing(q, j) /\ rframe'[q] = rframe[q])) \/ (ReadMessage(q) /\ Head(wire[q]).id = j /\ Taken(q, j)' = Taken(q, j) + 1 /\ Pushing(q, j)' /\ rframe'[q] = Head(wire[q]))
  <2>1. UNCHANGED incoming /\ Decoded(q, j)' = Decoded(q, j)
    <3>1. decoder'[q][j] = "dispatch" <=> decoder[q][j] = "dispatch"
      BY <1>7, Registers
    <3> QED BY <1>7, <3>1 DEF ReadMessage, Decoded
  <2>2. CASE q = p /\ Head(wire[q]).id = j
    <3>1. rpc'[q] = "push" /\ rframe'[q] = Head(wire[q]) /\ rpc[q] = "read"
      BY <1>a, <1>7, <2>2, ReadTakes DEF ReadMessage, ReadFrame
    <3>2. Pushing(q, j)' /\ ~Pushing(q, j)
      BY <2>2, <3>1 DEF Pushing
    <3>3. Taken(q, j)' = Taken(q, j) + 1
      BY <1>b, <2>1, <3>2 DEF Taken
    <3> QED BY <1>7, <2>2, <3>1, <3>2, <3>3
  <2>3. CASE q = p /\ Head(wire[q]).id # j
    <3>1. rframe'[q] = Head(wire[q]) /\ rpc[q] = "read"
      BY <1>1, <1>7, <2>3 DEF ReadMessage, ReadFrame
    <3>2. ~Pushing(q, j)' /\ ~Pushing(q, j)
      BY <2>3, <3>1 DEF Pushing
    <3> QED BY <2>1, <3>2 DEF Taken
  <2>4. CASE q # p
    <3>1. rpc'[q] = rpc[q] /\ rframe'[q] = rframe[q]
      BY <1>1, <1>7, <2>4 DEF ReadMessage
    <3> QED BY <2>1, <3>1 DEF Taken, Pushing
  <2> QED BY <2>2, <2>3, <2>4
<1>8. ASSUME NEW p \in Sides, Push(p) PROVE (Taken(q, j)' = Taken(q, j) /\ (Pushing(q, j)' => Pushing(q, j) /\ rframe'[q] = rframe[q])) \/ (ReadMessage(q) /\ Head(wire[q]).id = j /\ Taken(q, j)' = Taken(q, j) + 1 /\ Pushing(q, j)' /\ rframe'[q] = Head(wire[q]))
  <2>1. UNCHANGED <<got, inbox, decoder, rframe>> /\ Decoded(q, j)' = Decoded(q, j)
    BY <1>8 DEF Push, Decoded
  <2>2. CASE q = p /\ j = rframe[p].id
    <3>1. ~GiveUp(q, j)
      BY <1>a DEF GiveUp, Fresh, InOrder, HasFin
    <3>2. Len(incoming'[q][j]) = Len(incoming[q][j]) + 1
      <4>1. incoming' = [incoming EXCEPT ![q][j] = Append(incoming[q][j], rframe[q].msg)]
        BY <1>8, <2>2, <3>1 DEF Push
      <4>2. rframe[q].msg \in Numbers \cup {Fin}
        BY <1>0, <1>8, <2>2, PushedMessage
      <4> HIDE DEF Appends
      <4> QED BY <1>0, <4>1, <4>2, QueueStream
    <3>3. Pushing(q, j) /\ ~Pushing(q, j)'
      BY <1>1, <1>8, <2>2 DEF Push, Pushing
    <3>4. Taken(q, j)' = Taken(q, j)
      BY <1>b, <2>1, <3>2, <3>3 DEF Taken
    <3> QED BY <3>3, <3>4
  <2>3. CASE q # p \/ j # rframe[p].id
    <3>1. incoming'[q][j] = incoming[q][j]
      <4>1. rframe[p].id \in Ids /\ incoming \in [Sides -> [Ids -> Seq(Numbers \cup {Fin})]]
        BY <1>0, <1>1, <1>8, PushedMessage
      <4>2. incoming' = incoming \/ incoming' = [incoming EXCEPT ![p][rframe[p].id] = Append(incoming[p][rframe[p].id], rframe[p].msg)]
        BY <1>8 DEF Push
      <4> QED BY <2>3, <4>1, <4>2
    <3>2. Pushing(q, j)' <=> Pushing(q, j)
      BY <1>1, <1>8, <2>3 DEF Push, Pushing
    <3> QED BY <2>1, <3>1, <3>2 DEF Taken
  <2> QED BY <2>2, <2>3
<1>9. ASSUME NEW p \in Sides, ReadError(p) PROVE (Taken(q, j)' = Taken(q, j) /\ (Pushing(q, j)' => Pushing(q, j) /\ rframe'[q] = rframe[q])) \/ (ReadMessage(q) /\ Head(wire[q]).id = j /\ Taken(q, j)' = Taken(q, j) + 1 /\ Pushing(q, j)' /\ rframe'[q] = Head(wire[q]))
  <2>1. Decoded(q, j)' = Decoded(q, j)
    BY <1>9 DEF ReadError, Decoded
  <2>2. incoming'[q][j] = incoming[q][j]
    BY <1>9 DEF ReadError
  <2>3. rpc'[q] = rpc[q] /\ rframe'[q] = rframe[q]
    <3>1. p # q
      BY <1>1, <1>9 DEF ReadError, Reads
    <3> QED BY <1>1, <1>9, <3>1 DEF ReadError
  <2>4. Pushing(q, j)' <=> Pushing(q, j)
    BY <2>3 DEF Pushing
  <2> QED BY <2>1, <2>2, <2>3, <2>4 DEF Taken
<1>10. ASSUME NEW p \in Sides, ReadEOF(p) PROVE (Taken(q, j)' = Taken(q, j) /\ (Pushing(q, j)' => Pushing(q, j) /\ rframe'[q] = rframe[q])) \/ (ReadMessage(q) /\ Head(wire[q]).id = j /\ Taken(q, j)' = Taken(q, j) + 1 /\ Pushing(q, j)' /\ rframe'[q] = Head(wire[q]))
  <2>1. Decoded(q, j)' = Decoded(q, j)
    BY <1>10 DEF ReadEOF, Decoded
  <2>2. incoming'[q][j] = incoming[q][j]
    BY <1>10 DEF ReadEOF
  <2>3. rpc'[q] = rpc[q] /\ rframe'[q] = rframe[q]
    <3>1. p # q
      BY <1>1, <1>10 DEF ReadEOF, Reads
    <3> QED BY <1>1, <1>10, <3>1 DEF ReadEOF
  <2>4. Pushing(q, j)' <=> Pushing(q, j)
    BY <2>3 DEF Pushing
  <2> QED BY <2>1, <2>2, <2>3, <2>4 DEF Taken
<1>11. ASSUME NEW p \in Sides, DrainEnd(p) PROVE (Taken(q, j)' = Taken(q, j) /\ (Pushing(q, j)' => Pushing(q, j) /\ rframe'[q] = rframe[q])) \/ (ReadMessage(q) /\ Head(wire[q]).id = j /\ Taken(q, j)' = Taken(q, j) + 1 /\ Pushing(q, j)' /\ rframe'[q] = Head(wire[q]))
  <2>1. Decoded(q, j)' = Decoded(q, j)
    BY <1>11 DEF DrainEnd, Decoded
  <2>2. incoming'[q][j] = incoming[q][j]
    BY <1>11 DEF DrainEnd
  <2>3. rpc'[q] = rpc[q] /\ rframe'[q] = rframe[q]
    <3>1. p # q
      BY <1>1, <1>11 DEF DrainEnd, Reads
    <3> QED BY <1>1, <1>11, <3>1 DEF DrainEnd
  <2>4. Pushing(q, j)' <=> Pushing(q, j)
    BY <2>3 DEF Pushing
  <2> QED BY <2>1, <2>2, <2>3, <2>4 DEF Taken
<1>12. ASSUME NEW p \in Sides, NEW i \in Ids, Recv(p, i) PROVE (Taken(q, j)' = Taken(q, j) /\ (Pushing(q, j)' => Pushing(q, j) /\ rframe'[q] = rframe[q])) \/ (ReadMessage(q) /\ Head(wire[q]).id = j /\ Taken(q, j)' = Taken(q, j) + 1 /\ Pushing(q, j)' /\ rframe'[q] = Head(wire[q]))
  <2>1. Decoded(q, j)' = Decoded(q, j)
    <3>1. decoder'[q][j] # "dispatch" \/ decoder[q][j] = "dispatch"
      BY <1>1, <1>12 DEF Recv
    <3>2. ~DecodeTake(q, j) \/ Decoded(q, j)' = Decoded(q, j)
      BY <1>1, <3>1 DEF DecodeTake
    <3> QED BY <1>c, <3>2
  <2>2. incoming'[q][j] = incoming[q][j]
    BY <1>12 DEF Recv
  <2>3. rpc'[q] = rpc[q] /\ rframe'[q] = rframe[q]
    BY <1>12 DEF Recv
  <2>4. Pushing(q, j)' <=> Pushing(q, j)
    BY <2>3 DEF Pushing
  <2> QED BY <2>1, <2>2, <2>3, <2>4 DEF Taken
<1>13. ASSUME NEW p \in Sides, NEW i \in Ids, DecodeTake(p, i) PROVE (Taken(q, j)' = Taken(q, j) /\ (Pushing(q, j)' => Pushing(q, j) /\ rframe'[q] = rframe[q])) \/ (ReadMessage(q) /\ Head(wire[q]).id = j /\ Taken(q, j)' = Taken(q, j) + 1 /\ Pushing(q, j)' /\ rframe'[q] = Head(wire[q]))
  <2>1. CASE q = p /\ j = i
    <3>1. Len(incoming'[q][j]) = Len(incoming[q][j]) - 1
      <4> HIDE DEF Takes
      <4> QED BY <1>0, <1>13, <2>1, TakeStream
    <3>2. Decoded(q, j)' = Decoded(q, j) + 1
      <4>1. UNCHANGED <<got, inbox>> /\ decoder[q][j] = "select" /\ decoder'[q][j] = "dispatch"
        BY <1>1, <1>13, <2>1 DEF DecodeTake
      <4>2. Len(got[q][j]) \in Nat /\ Len(inbox[q][j]) \in Nat
        BY <1>0, StreamNumbers
      <4> QED BY <4>1, <4>2 DEF Decoded
    <3>3. Decoded(q, j)' + Len(incoming'[q][j]) = Decoded(q, j) + Len(incoming[q][j])
      <4>1. Len(incoming'[q][j]) = Len(incoming[q][j]) - 1
        BY <3>1
      <4> HIDE DEF Takes, Decoded
      <4> QED BY <1>b, <3>2, <4>1, Sums
    <3>4. UNCHANGED <<rpc, rframe>>
      BY <1>13 DEF DecodeTake
    <3> QED BY <3>3, <3>4 DEF Taken, Pushing
  <2>2. CASE q # p \/ j # i
    <3>1. /\ got'[q][j] = got[q][j] /\ inbox'[q][j] = inbox[q][j] /\ incoming'[q][j] = incoming[q][j]
          /\ decoder'[q][j] = decoder[q][j] /\ UNCHANGED <<rpc, rframe>>
      BY <1>1, <1>13, <2>2 DEF DecodeTake
    <3> QED BY <3>1 DEF Taken, Decoded, Pushing
  <2> QED BY <2>1, <2>2
<1>14. ASSUME NEW p \in Sides, NEW i \in Ids, Dispatch(p, i) PROVE (Taken(q, j)' = Taken(q, j) /\ (Pushing(q, j)' => Pushing(q, j) /\ rframe'[q] = rframe[q])) \/ (ReadMessage(q) /\ Head(wire[q]).id = j /\ Taken(q, j)' = Taken(q, j) + 1 /\ Pushing(q, j)' /\ rframe'[q] = Head(wire[q]))
  <2>1. Decoded(q, j)' = Decoded(q, j)
    <3>1. decoder'[q][j] # "dispatch" \/ decoder[q][j] = "dispatch"
      BY <1>1, <1>14 DEF Dispatch
    <3>2. ~DecodeTake(q, j) \/ Decoded(q, j)' = Decoded(q, j)
      BY <1>1, <3>1 DEF DecodeTake
    <3> QED BY <1>c, <3>2
  <2>2. incoming'[q][j] = incoming[q][j]
    BY <1>14 DEF Dispatch
  <2>3. rpc'[q] = rpc[q] /\ rframe'[q] = rframe[q]
    BY <1>14 DEF Dispatch
  <2>4. Pushing(q, j)' <=> Pushing(q, j)
    BY <2>3 DEF Pushing
  <2> QED BY <2>1, <2>2, <2>3, <2>4 DEF Taken
<1>15. ASSUME NEW p \in Sides, NEW i \in Ids, DecodeFin(p, i) PROVE (Taken(q, j)' = Taken(q, j) /\ (Pushing(q, j)' => Pushing(q, j) /\ rframe'[q] = rframe[q])) \/ (ReadMessage(q) /\ Head(wire[q]).id = j /\ Taken(q, j)' = Taken(q, j) + 1 /\ Pushing(q, j)' /\ rframe'[q] = Head(wire[q]))
  <2>1. CASE q = p /\ j = i
    <3>1. decoder'[q][j] = "fin"
      BY <1>1, <1>15, <2>1 DEF DecodeFin
    <3> QED BY <3>1 DEF HasFin
  <2>2. CASE q # p \/ j # i
    <3>1. /\ got'[q][j] = got[q][j] /\ inbox'[q][j] = inbox[q][j] /\ incoming'[q][j] = incoming[q][j]
          /\ decoder'[q][j] = decoder[q][j] /\ UNCHANGED <<rpc, rframe>>
      BY <1>1, <1>15, <2>2 DEF DecodeFin
    <3> QED BY <3>1 DEF Taken, Decoded, Pushing
  <2> QED BY <2>1, <2>2
<1>16. ASSUME NEW p \in Sides, NEW i \in Ids, DecodeEnd(p, i) PROVE (Taken(q, j)' = Taken(q, j) /\ (Pushing(q, j)' => Pushing(q, j) /\ rframe'[q] = rframe[q])) \/ (ReadMessage(q) /\ Head(wire[q]).id = j /\ Taken(q, j)' = Taken(q, j) + 1 /\ Pushing(q, j)' /\ rframe'[q] = Head(wire[q]))
  <2>1. Decoded(q, j)' = Decoded(q, j)
    <3>1. decoder'[q][j] # "dispatch" \/ decoder[q][j] = "dispatch"
      BY <1>1, <1>16 DEF DecodeEnd
    <3>2. ~DecodeTake(q, j) \/ Decoded(q, j)' = Decoded(q, j)
      BY <1>1, <3>1 DEF DecodeTake
    <3> QED BY <1>c, <3>2
  <2>2. incoming'[q][j] = incoming[q][j]
    BY <1>16 DEF DecodeEnd
  <2>3. rpc'[q] = rpc[q] /\ rframe'[q] = rframe[q]
    BY <1>16 DEF DecodeEnd
  <2>4. Pushing(q, j)' <=> Pushing(q, j)
    BY <2>3 DEF Pushing
  <2> QED BY <2>1, <2>2, <2>3, <2>4 DEF Taken
<1>17. ASSUME NEW p \in Sides, NEW i \in Ids, DrainFin(p, i) PROVE (Taken(q, j)' = Taken(q, j) /\ (Pushing(q, j)' => Pushing(q, j) /\ rframe'[q] = rframe[q])) \/ (ReadMessage(q) /\ Head(wire[q]).id = j /\ Taken(q, j)' = Taken(q, j) + 1 /\ Pushing(q, j)' /\ rframe'[q] = Head(wire[q]))
  <2>1. Decoded(q, j)' = Decoded(q, j)
    BY <1>17 DEF DrainFin, Decoded
  <2>2. incoming'[q][j] = incoming[q][j]
    <3>1. p # q
      BY <1>a, <1>17 DEF DrainFin, Reads
    <3> QED BY <1>1, <1>17, <3>1 DEF DrainFin
  <2>3. rpc'[q] = rpc[q] /\ rframe'[q] = rframe[q]
    BY <1>17 DEF DrainFin
  <2>4. Pushing(q, j)' <=> Pushing(q, j)
    BY <2>3 DEF Pushing
  <2> QED BY <2>1, <2>2, <2>3, <2>4 DEF Taken
<1> QED
  BY <1>2, <1>3, <1>4, <1>5, <1>6, <1>7, <1>8, <1>9, <1>10, <1>11, <1>12, <1>13, <1>14, <1>15,
     <1>16, <1>17 DEF Next, AppStep, ReaderStep, WriterStep, CloseStep, StreamStep

(* A failure of the transport is final. *)
LEMMA HalfStays ==
    ASSUME TableInv, Next, NEW q \in Sides, half[q] = "reset"
    PROVE  (half[q] = "reset")'
<1> USE DEF connVars, outVars, tableVars, readerVars, queueVars, streamVars, appVars, netVars
<1>0. /\ half[q] = "reset"
      /\ TypeOK
  BY DEF TableInv
<1>1. /\ half \in [Sides -> {"open", "eof", "reset"}]
  BY DEF TableInv, TypeOK, Each, EachStream
<1>2. CASE NewStream
  BY <1>0, <1>2 DEF NewStream
<1>3. CASE \E p \in Sides : CloseAllStreams(p) \/ ReadFin(p) \/ ReadMessage(p) \/ Push(p) \/
                            WriterEnd(p) \/ CloseQueue(p)
  BY <1>0, <1>3 DEF CloseAllStreams, ReadFin, ReadMessage, Push, WriterEnd, CloseQueue
<1>4. CASE \E p \in Sides, i \in Ids : Send(p, i) \/ Enqueue(p, i) \/ SendClosed(p, i) \/
                                       CloseOpened(p, i) \/ CloseFin(p, i) \/
                                       ClosePeerStream(p, i) \/ CloseRemove(p, i) \/
                                       Recv(p, i) \/ DecodeTake(p, i) \/ Dispatch(p, i) \/
                                       DecodeFin(p, i) \/ DecodeEnd(p, i) \/ DrainFin(p, i)
  BY <1>0, <1>4
     DEF Send, Enqueue, SendClosed, CloseOpened, CloseFin, ClosePeerStream, CloseRemove, Recv,
         DecodeTake, Dispatch, DecodeFin, DecodeEnd, DrainFin
<1>5. CASE Break
  BY <1>5 DEF Break
<1>6. ASSUME NEW p \in Sides, ReadError(p) PROVE (half[q] = "reset")'
  <2>1. CASE MarkClosed(p)
    BY <1>0, <1>1, <2>1 DEF MarkClosed
  <2>2. CASE UNCHANGED half
    BY <1>0, <2>2
  <2> QED BY <1>6, <2>1, <2>2 DEF ReadError
<1>7. ASSUME NEW p \in Sides, ReadEOF(p) PROVE (half[q] = "reset")'
  <2>1. CASE MarkClosed(p)
    BY <1>0, <1>1, <2>1 DEF MarkClosed
  <2>2. CASE UNCHANGED half
    BY <1>0, <2>2
  <2> QED BY <1>7, <2>1, <2>2 DEF ReadEOF
<1>8. ASSUME NEW p \in Sides, DrainEnd(p) PROVE (half[q] = "reset")'
  <2>1. CASE MarkClosed(p)
    BY <1>0, <1>1, <2>1 DEF MarkClosed
  <2>2. CASE UNCHANGED half
    BY <1>0, <2>2
  <2> QED BY <1>8, <2>1, <2>2 DEF DrainEnd
<1>9. ASSUME NEW p \in Sides, Write(p) PROVE (half[q] = "reset")'
  <2>1. CASE MarkClosed(p)
    BY <1>0, <1>1, <2>1 DEF MarkClosed
  <2>2. CASE UNCHANGED half \/ half' = [half EXCEPT ![p] = "reset"]
    BY <1>0, <1>1, <2>2
  <2> QED BY <1>9, <2>1, <2>2 DEF Write
<1>10. ASSUME NEW p \in Sides, Close(p) PROVE (half[q] = "reset")'
  <2>1. CASE MarkClosed(p)
    BY <1>0, <1>1, <2>1 DEF MarkClosed
  <2>2. CASE UNCHANGED half
    BY <1>0, <2>2
  <2> QED BY <1>10, <2>1, <2>2 DEF Close
<1>11. ASSUME NEW p \in Sides, CloseWrite(p) PROVE (half[q] = "reset")'
  BY <1>0, <1>1, <1>11 DEF CloseWrite
<1>12. ASSUME NEW p \in Sides, CloseEnd(p) PROVE (half[q] = "reset")'
  <2>1. CASE MarkClosed(p)
    BY <1>0, <1>1, <2>1 DEF MarkClosed
  <2>2. CASE UNCHANGED half
    BY <1>0, <2>2
  <2> QED BY <1>12, <2>1, <2>2 DEF CloseEnd
<1> QED
  BY <1>2, <1>3, <1>4, <1>5, <1>6, <1>7, <1>8, <1>9, <1>10, <1>11, <1>12
     DEF Next, AppStep, ReaderStep, WriterStep, CloseStep, StreamStep

(* A stream of which nothing is sent, written or read. *)
LEMMA SameFollows ==
    ASSUME NEW q \in Sides, NEW j \in Ids, Follows(q, j), Taken(q, j)' = Taken(q, j),
           Pushing(q, j)' => Pushing(q, j) /\ rframe'[q] = rframe[q],
           sent'[Peer(q)][j] = sent[Peer(q)][j],
           \A n \in Nat \ {0} : OnWire(q, j, n)' <=> OnWire(q, j, n),
           OnWire(q, j, Fin)' => OnWire(q, j, Fin),
           \A n \in Nat \ {0} : InOutbound(Peer(q), j, n)' => InOutbound(Peer(q), j, n),
           half'[Peer(q)] # "reset" =>
              /\ half[Peer(q)] # "reset"
              /\ \A n \in Nat \ {0} : InOutbound(Peer(q), j, n) => InOutbound(Peer(q), j, n)',
           Taken(q, j) \in Nat
    PROVE  Follows(q, j)'
<1>1. Pushing(q, j)' => rframe'[q].msg = Taken(q, j)'
  BY DEF Follows
<1>2. Taken(q, j)' <= sent'[Peer(q)][j]
  BY DEF Follows
<1>3. ASSUME NEW n \in Nat \ {0}, OnWire(q, j, n)'
      PROVE  n > Taken(q, j)' /\ (n > Taken(q, j)' + 1 => OnWire(q, j, n - 1)')
  <2>1. n > Taken(q, j) /\ (n > Taken(q, j) + 1 => OnWire(q, j, n - 1))
    BY <1>3 DEF Follows
  <2>2. n > Taken(q, j) + 1 => n - 1 \in Nat \ {0}
    OBVIOUS
  <2> QED BY <2>1, <2>2
<1>4. ASSUME NEW n \in Nat \ {0}, InOutbound(Peer(q), j, n)'
      PROVE  n > Taken(q, j)'
  BY <1>4 DEF Follows
<1>5. ASSUME NEW n \in Nat, n > Taken(q, j)', n <= sent'[Peer(q)][j]
      PROVE  /\ half'[Peer(q)] # "reset" => OnWire(q, j, n)' \/ InOutbound(Peer(q), j, n)'
             /\ OnWire(q, j, Fin)' => OnWire(q, j, n)'
  <2>1. n \in Nat \ {0} /\ n > Taken(q, j) /\ n <= sent[Peer(q)][j]
    BY <1>5
  <2>2. /\ half[Peer(q)] # "reset" => OnWire(q, j, n) \/ InOutbound(Peer(q), j, n)
        /\ OnWire(q, j, Fin) => OnWire(q, j, n)
    BY <2>1 DEF Follows
  <2> QED BY <2>1, <2>2
<1> HIDE DEF Taken, OnWire, InOutbound, Pushing
<1> QED BY <1>1, <1>2, <1>3, <1>4, <1>5 DEF Follows

(* What is read next on a stream is what was sent next. *)
LEMMA NextFollows ==
    ASSUME TableInv, StreamInv, Next, NEW q \in Sides, NEW j \in Ids, Fresh(q, j)', Reads(q)', ~HasFin(q, j)'
    PROVE  Follows(q, j)'
<1> USE DEF connVars, outVars, tableVars, readerVars, queueVars, streamVars, appVars, netVars
<1>0. /\ TypeOK
      /\ Framed
      /\ ClientFins
      /\ FinsLast
  BY DEF TableInv
<1>1. /\ wire \in [Sides -> Seq([id : Ids, msg : Nat])]
      /\ outbound \in [Sides -> Seq([id : 0..NStreams, msg : Nat])]
      /\ sent \in [Sides -> [Ids -> Nat]]
      /\ rpc \in [Sides -> {"read", "push", "drain", "end"}]
      /\ rframe \in [Sides -> [id : 0..NStreams, msg : Nat]]
      /\ half \in [Sides -> {"open", "eof", "reset"}]
  BY DEF TableInv, TypeOK, Each, EachStream
<1>a. Fresh(q, j) /\ Reads(q) /\ ~HasFin(q, j) /\ Follows(q, j)
  BY FreshBefore, ReadsNoMore, FinStays DEF StreamInv, Flow
<1>b. /\ Taken(q, j) \in Nat /\ Peer(q) \in Sides /\ Peer(q) # q /\ Peer(Peer(q)) = q
      /\ sent[Peer(q)][j] \in Nat
  BY <1>0, StreamNumbers, PeerFacts
<1>c. \/ /\ Taken(q, j)' = Taken(q, j)
         /\ Pushing(q, j)' => Pushing(q, j) /\ rframe'[q] = rframe[q]
      \/ /\ ReadMessage(q) /\ Head(wire[q]).id = j /\ Taken(q, j)' = Taken(q, j) + 1
         /\ Pushing(q, j)' /\ rframe'[q] = Head(wire[q])
  BY TakenMoves
<1>d. half'[Peer(q)] # "reset" => half[Peer(q)] # "reset"
  BY <1>b, HalfStays
<1>2. CASE NewStream \/ Break
  <2>1. UNCHANGED <<wire, outbound, sent>>
    BY <1>2 DEF NewStream, Break
  <2>2. ~ReadMessage(q)
    BY <1>0, <2>1, ReadChanges DEF ReadMessage
  <2>3. (\A n : OnWire(q, j, n)' <=> OnWire(q, j, n)) /\ \A n : InOutbound(Peer(q), j, n)' <=> InOutbound(Peer(q), j, n)
    BY <2>1 DEF OnWire, InOutbound
  <2> QED BY <1>a, <1>b, <1>c, <1>d, <2>1, <2>2, <2>3, SameFollows
<1>3. CASE \E p \in Sides : CloseAllStreams(p) \/ Push(p) \/ ReadError(p) \/ ReadEOF(p) \/
                            DrainEnd(p) \/ WriterEnd(p) \/ Close(p) \/ CloseWrite(p) \/
                            CloseEnd(p)
  <2>1. UNCHANGED <<wire, outbound, sent>>
    BY <1>3
       DEF CloseAllStreams, Push, ReadError, ReadEOF, DrainEnd, WriterEnd, Close, CloseWrite,
           CloseEnd
  <2>2. ~ReadMessage(q)
    BY <1>0, <2>1, ReadChanges DEF ReadMessage
  <2>3. (\A n : OnWire(q, j, n)' <=> OnWire(q, j, n)) /\ \A n : InOutbound(Peer(q), j, n)' <=> InOutbound(Peer(q), j, n)
    BY <2>1 DEF OnWire, InOutbound
  <2> QED BY <1>a, <1>b, <1>c, <1>d, <2>1, <2>2, <2>3, SameFollows
<1>4. CASE \E p \in Sides, i \in Ids : Send(p, i) \/ SendClosed(p, i) \/ CloseOpened(p, i)
                                       \/ ClosePeerStream(p, i) \/ CloseRemove(p, i) \/
                                       Recv(p, i) \/ DecodeTake(p, i) \/ Dispatch(p, i) \/
                                       DecodeFin(p, i) \/ DecodeEnd(p, i) \/ DrainFin(p, i)
  <2>1. UNCHANGED <<wire, outbound, sent>>
    BY <1>4
       DEF Send, SendClosed, CloseOpened, ClosePeerStream, CloseRemove, Recv, DecodeTake,
           Dispatch, DecodeFin, DecodeEnd, DrainFin
  <2>2. ~ReadMessage(q)
    BY <1>0, <2>1, ReadChanges DEF ReadMessage
  <2>3. (\A n : OnWire(q, j, n)' <=> OnWire(q, j, n)) /\ \A n : InOutbound(Peer(q), j, n)' <=> InOutbound(Peer(q), j, n)
    BY <2>1 DEF OnWire, InOutbound
  <2> QED BY <1>a, <1>b, <1>c, <1>d, <2>1, <2>2, <2>3, SameFollows
<1>5. ASSUME NEW p \in Sides, ReadFin(p) PROVE Follows(q, j)'
  <2>1. UNCHANGED <<outbound, sent, half>> /\ (~ReadMessage(q) \/ q # p)
    BY <1>5 DEF ReadFin, ReadMessage
  <2>2. /\ Taken(q, j)' = Taken(q, j)
        /\ Pushing(q, j)' => Pushing(q, j) /\ rframe'[q] = rframe[q]
    <3>1. ~ReadMessage(q)
      <4>1. CASE q = p
        BY <1>5, <4>1 DEF ReadFin, ReadMessage
      <4>2. CASE q # p
        <5>1. wire'[q] = wire[q]
          <6> HIDE DEF Takes
          <6> QED BY <1>0, <1>5, <4>2, ReadFrames DEF ReadFin
        <5>2. rpc'[q] = rpc[q]
          BY <1>1, <1>5, <4>2 DEF ReadFin
        <5>3. CASE ReadMessage(q)
          <6>1. wire' = [wire EXCEPT ![q] = Tail(wire[q])] /\ wire' = [wire EXCEPT ![p] = Tail(wire[p])]
            BY <1>5, <5>3 DEF ReadFin, ReadMessage, ReadFrame
          <6>2. wire'[q] = Tail(wire[q]) /\ wire[q] \in Seq([id : Ids, msg : Nat]) /\ wire[q] # <<>>
            BY <1>1, <5>3, <6>1 DEF ReadMessage, ReadFrame
          <6>3. Len(Tail(wire[q])) = Len(wire[q]) - 1 /\ Len(wire[q]) \in Nat
            BY <6>2, TailFacts
          <6>4. \A n \in Nat : n # n - 1
            OBVIOUS
          <6>5. Tail(wire[q]) # wire[q]
            BY <6>3, <6>4
          <6> QED BY <5>1, <6>2, <6>5
        <5> QED BY <5>3
      <4> QED BY <4>1, <4>2
    <3> QED BY <1>c, <3>1
  <2>3. /\ \A n \in Nat \ {0} : OnWire(q, j, n)' <=> OnWire(q, j, n)
        /\ OnWire(q, j, Fin)' => OnWire(q, j, Fin)
    <3>1. CASE q = p
      <4>1. Takes(wire[q], wire'[q])
        <5> HIDE DEF Takes
        <5> QED BY <1>0, <1>5, <3>1, ReadFrames DEF ReadFin
      <4>2. wire[q][1].msg = Fin
        BY <1>5, <3>1, <4>1 DEF ReadFin
      <4>3. \A n \in Nat \ {0} : wire[q][1] # Frame(j, n)
        BY <4>2, FrameFacts DEF Fin
      <4> HIDE DEF Takes
      <4> QED BY <4>1, <4>3, TakenFrames DEF OnWire
    <3>2. CASE q # p
      <4>1. wire'[q] = wire[q]
        <5> HIDE DEF Takes
        <5> QED BY <1>0, <1>5, <3>2, ReadFrames DEF ReadFin
      <4> QED BY <4>1 DEF OnWire
    <3> QED BY <3>1, <3>2
  <2>4. \A n : InOutbound(Peer(q), j, n)' <=> InOutbound(Peer(q), j, n)
    BY <2>1 DEF InOutbound
  <2> HIDE DEF Appends, Takes
  <2> QED BY <1>a, <1>b, <1>d, <2>2, <2>1, <2>3, <2>4, SameFollows
<1>6. ASSUME NEW p \in Sides, ReadMessage(p) PROVE Follows(q, j)'
  <2>1. UNCHANGED <<outbound, sent, half>> /\ rpc[p] = "read" /\ Head(wire[p]).msg # Fin
    BY <1>6 DEF ReadMessage, ReadFrame
  <2>2. \A n : InOutbound(Peer(q), j, n)' <=> InOutbound(Peer(q), j, n)
    BY <2>1 DEF InOutbound
  <2>3. CASE q = p /\ Head(wire[q]).id = j
    <3>1. Takes(wire[q], wire'[q])
      <4> HIDE DEF Takes
      <4> QED BY <1>0, <1>6, <2>3, ReadFrames DEF ReadMessage
    <3> DEFINE m == wire[q][1].msg
    <3>2. wire[q][1] = Frame(j, m) /\ m \in Nat /\ m # Fin /\ 1 \in DOMAIN wire[q]
      <4>1. wire[q][1] \in Frames(Peer(q)) /\ wire[q][1].id = j /\ wire[q][1].msg # Fin
        BY <1>0, <2>1, <2>3, <3>1 DEF Framed
      <4>2. wire[q][1] = Frame(wire[q][1].id, wire[q][1].msg)
        <5> HIDE DEF Takes
        <5> QED BY <1>b, <4>1, FrameIs
      <4>3. m \in Nat
        BY <1>b, <4>1, Constants DEF Frames
      <4> QED BY <3>1, <4>1, <4>2, <4>3
    <3>3. /\ Taken(q, j)' = Taken(q, j) + 1 /\ rframe'[q] = wire[q][1] /\ Pushing(q, j)'
      <4>1. rpc'[q] = "push" /\ rframe'[q] = Head(wire[q])
        BY <1>a, <1>6, <2>3, ReadTakes
      <4>2. Pushing(q, j)' /\ ~Pushing(q, j)
        BY <2>1, <2>3, <4>1 DEF Pushing
      <4> QED BY <1>c, <3>1, <4>1, <4>2
    <3>4. /\ m <= sent[Peer(q)][j]
          /\ \A l \in DOMAIN wire[q] : l > 1 /\ wire[q][l].id = j /\ wire[q][l].msg # Fin => m < wire[q][l].msg
          /\ \A l \in DOMAIN outbound[Peer(q)] :
                outbound[Peer(q)][l].id = j /\ outbound[Peer(q)][l].msg # Fin => m < outbound[Peer(q)][l].msg
      <4>1. SentInOrder(Peer(q), j) /\ wire[q][1].id = j
        BY <1>b, <3>2, FrameFacts DEF StreamInv, Ordered
      <4> HIDE DEF Takes
      <4> QED BY <1>b, <3>2, <4>1 DEF SentInOrder
    <3>5. /\ \A n : OnWire(q, j, n) <=> OnWire(q, j, n)' \/ n = m
          /\ \A n \in Nat \ {0} : OnWire(q, j, n)' => m < n
          /\ \A n \in Nat \ {0} : InOutbound(Peer(q), j, n) => m < n
      <4>1. \A n : OnWire(q, j, n) <=> OnWire(q, j, n)' \/ n = m
        <5>1. \A n : wire[q][1] = Frame(j, n) <=> n = m
          BY <3>2, FrameFacts
        <5> HIDE DEF Takes, m
        <5> QED BY <3>1, <5>1, TakenFrames DEF OnWire
      <4>2. ASSUME NEW n \in Nat \ {0}, OnWire(q, j, n)' PROVE m < n
        <5>1. PICK k \in DOMAIN wire'[q] : wire'[q][k] = Frame(j, n)
          BY <4>2 DEF OnWire
        <5>2. k \in Nat /\ k > 0 /\ k + 1 \in DOMAIN wire[q] /\ wire[q][k + 1] = Frame(j, n)
          BY <3>1, <5>1
        <5> HIDE DEF Takes, m
        <5>3. k + 1 > 1 /\ wire[q][k + 1].id = j /\ wire[q][k + 1].msg = n /\ n # Fin
          BY <5>2, FrameFacts DEF Fin
        <5> QED BY <3>4, <5>2, <5>3 DEF m
      <4>3. ASSUME NEW n \in Nat \ {0}, InOutbound(Peer(q), j, n) PROVE m < n
        <5>1. PICK k \in DOMAIN outbound[Peer(q)] : outbound[Peer(q)][k] = Frame(j, n)
          BY <4>3 DEF InOutbound
        <5>2. outbound[Peer(q)][k].id = j /\ outbound[Peer(q)][k].msg = n /\ n # Fin
          BY <5>1, FrameFacts DEF Fin
        <5> HIDE DEF Takes, m
        <5> QED BY <3>4, <5>2 DEF m
      <4> QED BY <4>1, <4>2, <4>3
    <3> HIDE DEF Takes, m
    <3>6. m = Taken(q, j) + 1
      <4>1. m \in Nat \ {0} /\ OnWire(q, j, m)
        BY <3>2, <3>5 DEF Fin
      <4>2. m > Taken(q, j) /\ (m > Taken(q, j) + 1 => OnWire(q, j, m - 1))
        BY <1>a, <4>1 DEF Follows
      <4>3. CASE m > Taken(q, j) + 1
        <5>1. OnWire(q, j, m - 1) /\ m - 1 \in Nat \ {0} /\ m - 1 # m /\ ~(m < m - 1)
          BY <1>b, <4>1, <4>2, <4>3
        <5> QED BY <3>5, <5>1
      <4> QED BY <1>b, <4>1, <4>2, <4>3
    <3>7. rframe'[q].msg = Taken(q, j)' /\ Taken(q, j)' <= sent'[Peer(q)][j]
      BY <2>1, <3>3, <3>4, <3>6 DEF m
    <3>8. ASSUME NEW n \in Nat \ {0}, OnWire(q, j, n)'
          PROVE  n > Taken(q, j)' /\ (n > Taken(q, j)' + 1 => OnWire(q, j, n - 1)')
      <4>1. n > m /\ OnWire(q, j, n)
        BY <1>b, <3>5, <3>6, <3>8
      <4>2. CASE n > m + 1
        <5>1. n > Taken(q, j) + 1 /\ n - 1 # m
          BY <1>b, <3>6, <4>2
        <5>2. OnWire(q, j, n - 1)
          BY <1>a, <4>1, <5>1 DEF Follows
        <5> QED BY <3>3, <3>5, <3>6, <4>1, <5>1, <5>2
      <4> QED BY <3>3, <3>6, <4>1, <4>2
    <3>9. ASSUME NEW n \in Nat \ {0}, InOutbound(Peer(q), j, n)'
          PROVE  n > Taken(q, j)'
      <4>1. m < n
        BY <2>2, <3>5, <3>9
      <4> QED BY <1>b, <3>3, <3>6, <4>1
    <3>10. ASSUME NEW n \in Nat, n > Taken(q, j)', n <= sent'[Peer(q)][j]
          PROVE  /\ half'[Peer(q)] # "reset" => OnWire(q, j, n)' \/ InOutbound(Peer(q), j, n)'
                 /\ OnWire(q, j, Fin)' => OnWire(q, j, n)'
      <4>1. n > Taken(q, j) /\ n # m /\ n <= sent[Peer(q)][j]
        BY <1>b, <2>1, <3>3, <3>6, <3>10
      <4>2. /\ half[Peer(q)] # "reset" => OnWire(q, j, n) \/ InOutbound(Peer(q), j, n)
            /\ OnWire(q, j, Fin) => OnWire(q, j, n)
        BY <1>a, <4>1 DEF Follows
      <4> QED BY <2>1, <2>2, <3>5, <4>1, <4>2
    <3> HIDE DEF Taken, OnWire, InOutbound, Pushing
    <3> QED BY <3>7, <3>8, <3>9, <3>10 DEF Follows
  <2>4. CASE ~(q = p /\ Head(wire[q]).id = j)
    <3>1. /\ Taken(q, j)' = Taken(q, j)
          /\ Pushing(q, j)' => Pushing(q, j) /\ rframe'[q] = rframe[q]
      <4>1. q # p => rpc'[q] = rpc[q] /\ rframe'[q] = rframe[q] /\ wire'[q] = wire[q]
        <5>1. q # p => wire'[q] = wire[q]
          <6> HIDE DEF Takes
          <6> QED BY <1>0, <1>6, ReadFrames DEF ReadMessage
        <5> QED BY <1>1, <1>6, <5>1 DEF ReadMessage
      <4>2. ~(ReadMessage(q) /\ Head(wire[q]).id = j /\ Pushing(q, j)')
        <5>1. CASE q = p
          BY <2>4, <5>1
        <5>2. CASE q # p
          BY <4>1, <5>2 DEF ReadMessage, ReadFrame, Pushing
        <5> QED BY <5>1, <5>2
      <4> QED BY <1>c, <4>2
    <3>2. \A n : OnWire(q, j, n)' <=> OnWire(q, j, n)
      <4>1. CASE q = p
        <5>1. Takes(wire[q], wire'[q])
          <6> HIDE DEF Takes
          <6> QED BY <1>0, <1>6, <4>1, ReadFrames DEF ReadMessage
        <5>2. \A n : wire[q][1] # Frame(j, n)
          BY <2>4, <4>1, <5>1, FrameFacts
        <5> HIDE DEF Takes
        <5> QED BY <5>1, <5>2, TakenFrames DEF OnWire
      <4>2. CASE q # p
        <5>1. wire'[q] = wire[q]
          <6> HIDE DEF Takes
          <6> QED BY <1>0, <1>6, <4>2, ReadFrames DEF ReadMessage
        <5> QED BY <5>1 DEF OnWire
      <4> QED BY <4>1, <4>2
    <3> HIDE DEF Takes
    <3> QED BY <1>a, <1>b, <1>d, <2>1, <2>2, <3>1, <3>2, SameFollows
  <2> QED BY <2>3, <2>4
<1>7. ASSUME NEW p \in Sides, Write(p) PROVE Follows(q, j)'
  <2>1. UNCHANGED <<sent, rpc, rframe>>
    BY <1>7 DEF Write
  <2>2. /\ Taken(q, j)' = Taken(q, j)
        /\ Pushing(q, j)' => Pushing(q, j) /\ rframe'[q] = rframe[q]
    <3>1. ~(ReadMessage(q) /\ Pushing(q, j)')
      BY <2>1 DEF ReadMessage, ReadFrame, Pushing
    <3> QED BY <1>c, <3>1
  <2>3. CASE p # Peer(q)
    <3>1. outbound'[Peer(q)] = outbound[Peer(q)]
      <4> HIDE DEF Takes
      <4> QED BY <1>0, <1>b, <1>7, <2>3, WriteFrames
    <3>2. wire'[q] = wire[q]
      <4>1. q # Peer(p)
        BY <2>3, PeerFacts
      <4> HIDE DEF Appends
      <4> QED BY <1>0, <1>7, <4>1, WireFrames
    <3>3. (\A n : OnWire(q, j, n)' <=> OnWire(q, j, n)) /\ \A n : InOutbound(Peer(q), j, n)' <=> InOutbound(Peer(q), j, n)
      BY <3>1, <3>2 DEF OnWire, InOutbound
    <3> HIDE DEF Takes, Appends
    <3> QED BY <1>a, <1>b, <1>d, <2>1, <2>2, <3>3, SameFollows
  <2>4. CASE p = Peer(q)
    <3>1. Takes(outbound[Peer(q)], outbound'[Peer(q)])
      <4> HIDE DEF Takes
      <4> QED BY <1>0, <1>7, <2>4, WriteFrames
    <3> DEFINE f == outbound[Peer(q)][1]
    <3>2. 1 \in DOMAIN outbound[Peer(q)] /\ Head(outbound[Peer(q)]) = f
      BY <3>1
    <3>3. \A n : InOutbound(Peer(q), j, n) <=> InOutbound(Peer(q), j, n)' \/ f = Frame(j, n)
      <4> HIDE DEF Takes
      <4> QED BY <3>1, TakenFrames DEF InOutbound
    <3>4. CASE wire' = wire
      <4>1. \A n : OnWire(q, j, n)' <=> OnWire(q, j, n)
        BY <3>4 DEF OnWire
      <4>2. half'[Peer(q)] # "reset" => \A n : f # Frame(j, n)
        <5>1. CASE f = Marker
          BY <5>1, Constants DEF Marker, Frame
        <5>2. CASE f # Marker /\ half'[Peer(q)] # "reset"
          <6>1. half[Peer(q)] # "reset" /\ ~closed[q]
            BY <1>a, <1>d, <5>2 DEF Fresh
          <6>2. wire' = [wire EXCEPT ![q] = Append(wire[q], f)]
            BY <1>1, <1>b, <1>7, <2>4, <3>2, <5>2, <6>1 DEF Write
          <6>3. wire[q] \in Seq([id : Ids, msg : Nat]) /\ f \in [id : Ids, msg : Nat]
            <7>1. f \in Frames(Peer(q))
              BY <1>0, <1>b, <3>2, <5>2 DEF Framed
            <7>2. wire[q] \in Seq([id : Ids, msg : Nat])
              BY <1>1
            <7>3. MaxSend(Peer(q)) \in Nat
              BY <1>b, Constants
            <7> HIDE DEF f, Takes
            <7>4. f \in [id : Ids, msg : Nat]
              BY <7>1, <7>3 DEF Frames
            <7> QED BY <7>2, <7>4
          <6>4. Len(wire'[q]) = Len(wire[q]) + 1 /\ Len(wire[q]) \in Nat
            <7>1. wire'[q] = Append(wire[q], f)
              BY <1>1, <6>2
            <7> HIDE DEF f
            <7> QED BY <6>3, <7>1, AppendFacts
          <6>5. \A n \in Nat : n # n + 1
            OBVIOUS
          <6> QED BY <3>4, <6>4, <6>5
        <5> QED BY <5>1, <5>2
      <4>3. half'[Peer(q)] # "reset" => \A n : InOutbound(Peer(q), j, n) => InOutbound(Peer(q), j, n)'
        <5> HIDE DEF Takes, f
        <5> QED BY <3>3, <4>2
      <4>4. \A n : InOutbound(Peer(q), j, n)' => InOutbound(Peer(q), j, n)
        <5> HIDE DEF Takes, f
        <5> QED BY <3>3
      <4> HIDE DEF Takes, Appends, f
      <4> QED BY <1>a, <1>b, <1>d, <2>1, <2>2, <4>1, <4>3, <4>4, SameFollows
    <3>5. CASE wire' # wire
      <4>1. /\ Appends(wire[q], wire'[q], f) /\ f # Marker
            /\ half[Peer(q)] # "reset" /\ UNCHANGED half
        <5> HIDE DEF Appends
        <5> QED BY <1>0, <1>b, <1>7, <2>4, <3>5, WireFrames
      <4>2. \A n : OnWire(q, j, n)' <=> OnWire(q, j, n) \/ f = Frame(j, n)
        <5> HIDE DEF Appends
        <5> QED BY <4>1, AppendedFrames DEF OnWire
      <4>3. f \in Frames(Peer(q))
        BY <1>0, <1>b, <3>2, <4>1 DEF Framed
      <4>4. f = Frame(f.id, f.msg) /\ f.msg \in Nat
        <5>1. f = Frame(f.id, f.msg)
          BY <1>b, <4>3, FrameIs
        <5> QED BY <1>b, <4>3, <5>1, Constants DEF Frames
      <4>5. CASE f.id # j
        <5>1. \A n : f # Frame(j, n)
          BY <4>5, FrameFacts
        <5> HIDE DEF Takes, Appends, f
        <5> QED BY <1>a, <1>b, <1>d, <2>1, <2>2, <3>3, <4>2, <5>1, SameFollows
      <4>6. CASE f.id = j /\ f.msg = Fin
        <5>1. \A n : f = Frame(j, n) <=> n = Fin
          BY <4>4, <4>6, FrameFacts
        <5>2. \A n \in Nat \ {0} : ~InOutbound(Peer(q), j, n)
          <6>1. q = "server"
            <7>1. q # "client"
              BY <1>0, <3>2, <4>1, <4>6, BothSides DEF ClientFins
            <7> QED BY <7>1 DEF Sides
          <6>2. \A l \in DOMAIN outbound[Peer(q)] : l > 1 => outbound[Peer(q)][l].id # j
            BY <1>0, <3>2, <4>4, <4>6, <6>1, BothSides DEF FinsLast
          <6>3. \A k \in DOMAIN outbound[Peer(q)] : k = 1 \/ k > 1
            BY <3>1
          <6> HIDE DEF Takes, Appends
          <6> QED BY <4>6, <6>2, <6>3, FrameFacts DEF InOutbound, Fin
        <5> HIDE DEF Takes, Appends, f
        <5>3. \A n \in Nat \ {0} : OnWire(q, j, n)' <=> OnWire(q, j, n)
          BY <4>2, <5>1 DEF Fin
        <5>4. \A n \in Nat \ {0} : ~InOutbound(Peer(q), j, n)'
          BY <3>3, <5>2
        <5>5. Pushing(q, j)' => rframe'[q].msg = Taken(q, j)'
          BY <1>a, <2>2 DEF Follows
        <5>6. Taken(q, j)' <= sent'[Peer(q)][j]
          BY <1>a, <2>1, <2>2 DEF Follows
        <5>7. ASSUME NEW n \in Nat \ {0}, OnWire(q, j, n)'
              PROVE  n > Taken(q, j)' /\ (n > Taken(q, j)' + 1 => OnWire(q, j, n - 1)')
          <6>1. n > Taken(q, j) /\ (n > Taken(q, j) + 1 => OnWire(q, j, n - 1))
            BY <1>a, <5>3, <5>7 DEF Follows
          <6> QED BY <2>2, <4>2, <6>1
        <5>8. ASSUME NEW n \in Nat, n > Taken(q, j)', n <= sent'[Peer(q)][j]
              PROVE  OnWire(q, j, n)'
          <6>1. n \in Nat \ {0} /\ n > Taken(q, j) /\ n <= sent[Peer(q)][j]
            BY <1>b, <2>1, <2>2, <5>8
          <6>2. OnWire(q, j, n) \/ InOutbound(Peer(q), j, n)
            BY <1>a, <4>1, <6>1 DEF Follows
          <6> QED BY <5>2, <5>3, <6>1, <6>2
        <5> HIDE DEF Taken, OnWire, InOutbound, Pushing
        <5> QED BY <5>4, <5>5, <5>6, <5>7, <5>8 DEF Follows
      <4>7. CASE f.id = j /\ f.msg # Fin
        <5> DEFINE m == f.msg
        <5>1. \A n : f = Frame(j, n) <=> n = m
          BY <4>4, <4>7, FrameFacts
        <5>2. m \in Nat \ {0} /\ InOutbound(Peer(q), j, m)
          BY <3>3, <4>4, <4>7, <5>1 DEF Fin
        <5>3. /\ m <= sent[Peer(q)][j]
              /\ \A n \in Nat \ {0} : InOutbound(Peer(q), j, n) => n >= m
          <6>1. SentInOrder(Peer(q), j)
            BY <1>b DEF StreamInv, Ordered
          <6>2. /\ m <= sent[Peer(q)][j]
                /\ \A l \in DOMAIN outbound[Peer(q)] : l > 1 /\ outbound[Peer(q)][l].id = j /\ outbound[Peer(q)][l].msg # Fin
                      => m < outbound[Peer(q)][l].msg
            <7> HIDE DEF Takes, Appends
            <7> QED BY <3>2, <4>7, <6>1 DEF SentInOrder
          <6>3. ASSUME NEW n \in Nat \ {0}, InOutbound(Peer(q), j, n) PROVE n >= m
            <7>1. PICK k \in DOMAIN outbound[Peer(q)] : outbound[Peer(q)][k] = Frame(j, n)
              BY <6>3 DEF InOutbound
            <7>2. outbound[Peer(q)][k].id = j /\ outbound[Peer(q)][k].msg = n /\ n # Fin
              BY <7>1, FrameFacts DEF Fin
            <7>3. k = 1 \/ k > 1
              BY <3>1
            <7> HIDE DEF Takes, Appends
            <7>4. CASE k = 1
              BY <5>2, <7>2, <7>4
            <7>5. CASE k > 1
              BY <5>2, <6>2, <7>2, <7>5
            <7> QED BY <7>3, <7>4, <7>5
          <6> QED BY <6>2, <6>3
        <5> HIDE DEF Takes, Appends, f, m
        <5>4. m > Taken(q, j) /\ (m > Taken(q, j) + 1 => OnWire(q, j, m - 1))
          <6>1. m > Taken(q, j)
            BY <1>a, <5>2 DEF Follows
          <6>2. CASE m > Taken(q, j) + 1
            <7>1. m - 1 \in Nat \ {0} /\ m - 1 > Taken(q, j) /\ m - 1 <= sent[Peer(q)][j] /\ ~(m - 1 >= m)
              BY <1>b, <5>2, <5>3, <6>2
            <7>2. OnWire(q, j, m - 1) \/ InOutbound(Peer(q), j, m - 1)
              BY <1>a, <4>1, <7>1 DEF Follows
            <7> QED BY <5>3, <6>1, <7>1, <7>2
          <6> QED BY <6>1, <6>2
        <5>5. Pushing(q, j)' => rframe'[q].msg = Taken(q, j)'
          BY <1>a, <2>2 DEF Follows
        <5>6. Taken(q, j)' <= sent'[Peer(q)][j]
          BY <1>a, <2>1, <2>2 DEF Follows
        <5>7. ASSUME NEW n \in Nat \ {0}, OnWire(q, j, n)'
              PROVE  n > Taken(q, j)' /\ (n > Taken(q, j)' + 1 => OnWire(q, j, n - 1)')
          <6>1. CASE OnWire(q, j, n)
            <7>1. n > Taken(q, j) /\ (n > Taken(q, j) + 1 => OnWire(q, j, n - 1))
              BY <1>a, <6>1, <5>7 DEF Follows
            <7> QED BY <2>2, <4>2, <7>1
          <6>2. CASE n = m
            BY <2>2, <4>2, <5>4, <6>2
          <6> QED BY <4>2, <5>1, <5>7, <6>1, <6>2
        <5>8. ASSUME NEW n \in Nat \ {0}, InOutbound(Peer(q), j, n)'
              PROVE  n > Taken(q, j)'
          BY <1>a, <2>2, <3>3, <5>8 DEF Follows
        <5>9. ASSUME NEW n \in Nat, n > Taken(q, j)', n <= sent'[Peer(q)][j]
              PROVE  /\ OnWire(q, j, n)' \/ InOutbound(Peer(q), j, n)'
                     /\ OnWire(q, j, Fin)' => OnWire(q, j, n)'
          <6>1. n > Taken(q, j) /\ n <= sent[Peer(q)][j]
            BY <2>1, <2>2, <5>9
          <6>2. /\ OnWire(q, j, n) \/ InOutbound(Peer(q), j, n)
                /\ OnWire(q, j, Fin) => OnWire(q, j, n)
            BY <1>a, <4>1, <6>1 DEF Follows
          <6>3. OnWire(q, j, Fin)' => OnWire(q, j, Fin)
            BY <4>2, <5>1, <5>2 DEF Fin
          <6> QED BY <3>3, <4>2, <5>1, <6>2, <6>3
        <5> HIDE DEF Taken, OnWire, InOutbound, Pushing
        <5> QED BY <5>5, <5>6, <5>7, <5>8, <5>9 DEF Follows
      <4> QED BY <4>5, <4>6, <4>7
    <3> QED BY <3>4, <3>5
  <2> QED BY <2>3, <2>4
<1>8. ASSUME NEW p \in Sides, CloseQueue(p) PROVE Follows(q, j)'
  <2>1. UNCHANGED <<wire, half, sent>>
    BY <1>8 DEF CloseQueue
  <2>2. /\ Taken(q, j)' = Taken(q, j)
        /\ Pushing(q, j)' => Pushing(q, j) /\ rframe'[q] = rframe[q]
    <3>1. ~ReadMessage(q)
      BY <1>0, <2>1, ReadChanges DEF ReadMessage
    <3> QED BY <1>c, <3>1
  <2>3. \A n : OnWire(q, j, n)' <=> OnWire(q, j, n)
    BY <2>1 DEF OnWire
  <2>4. \A n : InOutbound(Peer(q), j, n)' <=> InOutbound(Peer(q), j, n)
    <3>1. CASE p = Peer(q)
      <4>1. Appends(outbound[Peer(q)], outbound'[Peer(q)], Marker)
        <5> HIDE DEF Appends
        <5> QED BY <1>0, <1>8, <3>1, CloseQueueFrames
      <4>2. \A n : Marker # Frame(j, n)
        BY Constants DEF Marker, Frame
      <4> HIDE DEF Appends
      <4> QED BY <4>1, <4>2, AppendedFrames DEF InOutbound
    <3>2. CASE p # Peer(q)
      <4>1. outbound'[Peer(q)] = outbound[Peer(q)]
        <5> HIDE DEF Appends
        <5> QED BY <1>0, <1>b, <1>8, <3>2, CloseQueueFrames
      <4> QED BY <4>1 DEF InOutbound
    <3> QED BY <3>1, <3>2
  <2> HIDE DEF Appends, Takes
  <2> QED BY <1>a, <1>b, <1>d, <2>2, <2>1, <2>3, <2>4, SameFollows
<1>9. ASSUME NEW p \in Sides, NEW i \in Ids, Enqueue(p, i) PROVE Follows(q, j)'
  <2>1. UNCHANGED <<wire, half>>
    BY <1>9 DEF Enqueue
  <2>2. /\ Taken(q, j)' = Taken(q, j)
        /\ Pushing(q, j)' => Pushing(q, j) /\ rframe'[q] = rframe[q]
    <3>1. ~ReadMessage(q)
      BY <1>0, <2>1, ReadChanges DEF ReadMessage
    <3> QED BY <1>c, <3>1
  <2>3. \A n : OnWire(q, j, n)' <=> OnWire(q, j, n)
    BY <2>1 DEF OnWire
  <2>4. CASE p = Peer(q) /\ i = j
    <3>1. Appends(outbound[Peer(q)], outbound'[Peer(q)], Frame(j, sent[Peer(q)][j] + 1))
      <4> HIDE DEF Appends
      <4> QED BY <1>0, <1>9, <2>4, EnqueueFrames
    <3>2. \A n : InOutbound(Peer(q), j, n)' <=> InOutbound(Peer(q), j, n) \/ n = sent[Peer(q)][j] + 1
      <4> HIDE DEF Appends
      <4> QED BY <3>1, AppendedFrames, FrameFacts DEF InOutbound
    <3>3. sent'[Peer(q)][j] = sent[Peer(q)][j] + 1
      BY <1>1, <1>9, <2>4 DEF Enqueue
    <3>4. ~OnWire(q, j, Fin)
      <4>1. CASE q = "client"
        <5>1. \A k \in DOMAIN wire["client"] : wire["client"][k].msg # Fin
          BY <1>0 DEF ClientFins
        <5> QED BY <4>1, <5>1, FrameFacts DEF OnWire
      <4>2. CASE q = "server"
        <5>1. sender["client"][j] # "idle"
          BY <1>9, <2>4, <4>2, BothSides DEF Enqueue
        <5> QED BY <1>0, <4>2, <5>1 DEF OnWire, FinsLast, Finished
      <4> QED BY <4>1, <4>2 DEF Sides
    <3> HIDE DEF Appends
    <3>5. Pushing(q, j)' => rframe'[q].msg = Taken(q, j)'
      BY <1>a, <2>2 DEF Follows
    <3>6. Taken(q, j) <= sent[Peer(q)][j] /\ Taken(q, j)' <= sent'[Peer(q)][j]
      <4>1. Taken(q, j) <= sent[Peer(q)][j]
        BY <1>a DEF Follows
      <4> QED BY <1>b, <2>2, <3>3, <4>1
    <3>7. ASSUME NEW n \in Nat \ {0}, OnWire(q, j, n)'
          PROVE  n > Taken(q, j)' /\ (n > Taken(q, j)' + 1 => OnWire(q, j, n - 1)')
      <4>1. n > Taken(q, j) /\ (n > Taken(q, j) + 1 => OnWire(q, j, n - 1))
        BY <1>a, <2>3, <3>7 DEF Follows
      <4> QED BY <2>2, <2>3, <4>1
    <3>8. ASSUME NEW n \in Nat \ {0}, InOutbound(Peer(q), j, n)'
          PROVE  n > Taken(q, j)'
      <4>1. CASE InOutbound(Peer(q), j, n)
        BY <1>a, <2>2, <4>1 DEF Follows
      <4>2. CASE n = sent[Peer(q)][j] + 1
        BY <1>b, <2>2, <3>6, <4>2
      <4> QED BY <3>2, <3>8, <4>1, <4>2
    <3>9. ASSUME NEW n \in Nat, n > Taken(q, j)', n <= sent'[Peer(q)][j]
          PROVE  /\ half'[Peer(q)] # "reset" => OnWire(q, j, n)' \/ InOutbound(Peer(q), j, n)'
                 /\ OnWire(q, j, Fin)' => OnWire(q, j, n)'
      <4>1. CASE n = sent[Peer(q)][j] + 1
        BY <2>3, <3>2, <3>4, <4>1
      <4>2. CASE n <= sent[Peer(q)][j]
        <5>1. half[Peer(q)] # "reset" => OnWire(q, j, n) \/ InOutbound(Peer(q), j, n)
          BY <1>a, <2>2, <3>9, <4>2 DEF Follows
        <5> QED BY <1>d, <2>3, <3>2, <3>4, <5>1
      <4> QED BY <1>b, <3>3, <3>9, <4>1, <4>2
    <3> HIDE DEF Taken, OnWire, InOutbound, Pushing
    <3> QED BY <3>5, <3>6, <3>7, <3>8, <3>9 DEF Follows
  <2>5. CASE p # Peer(q) \/ i # j
    <3>1. sent'[Peer(q)][j] = sent[Peer(q)][j]
      BY <1>1, <1>b, <1>9, <2>5 DEF Enqueue
    <3>2. \A n : InOutbound(Peer(q), j, n)' <=> InOutbound(Peer(q), j, n)
      <4>1. CASE p = Peer(q)
        <5>1. Appends(outbound[Peer(q)], outbound'[Peer(q)], Frame(i, sent[p][i] + 1))
          <6> HIDE DEF Appends
          <6> QED BY <1>0, <1>9, <4>1, EnqueueFrames
        <5>2. \A n : Frame(i, sent[p][i] + 1) # Frame(j, n)
          BY <2>5, <4>1, FrameFacts
        <5> HIDE DEF Appends
        <5> QED BY <5>1, <5>2, AppendedFrames DEF InOutbound
      <4>2. CASE p # Peer(q)
        <5>1. outbound'[Peer(q)] = outbound[Peer(q)]
          <6> HIDE DEF Appends
          <6> QED BY <1>0, <1>b, <1>9, <4>2, EnqueueFrames
        <5> QED BY <5>1 DEF InOutbound
      <4> QED BY <4>1, <4>2
    <3> HIDE DEF Appends
    <3> QED BY <1>a, <1>b, <1>d, <2>2, <2>3, <3>1, <3>2, SameFollows
  <2> QED BY <2>4, <2>5
<1>10. ASSUME NEW p \in Sides, NEW i \in Ids, CloseFin(p, i) PROVE Follows(q, j)'
  <2>1. UNCHANGED <<wire, half, sent>>
    BY <1>10 DEF CloseFin
  <2>2. /\ Taken(q, j)' = Taken(q, j)
        /\ Pushing(q, j)' => Pushing(q, j) /\ rframe'[q] = rframe[q]
    <3>1. ~ReadMessage(q)
      BY <1>0, <2>1, ReadChanges DEF ReadMessage
    <3> QED BY <1>c, <3>1
  <2>3. \A n : OnWire(q, j, n)' <=> OnWire(q, j, n)
    BY <2>1 DEF OnWire
  <2>4. \A n \in Nat \ {0} : InOutbound(Peer(q), j, n)' <=> InOutbound(Peer(q), j, n)
    <3>1. CASE p = Peer(q) /\ outbound' # outbound
      <4>1. Appends(outbound[Peer(q)], outbound'[Peer(q)], Frame(i, Fin))
        <5> HIDE DEF Appends
        <5> QED BY <1>0, <1>10, <3>1, CloseFinFrames
      <4>2. \A n \in Nat \ {0} : Frame(i, Fin) # Frame(j, n)
        BY FrameFacts DEF Fin
      <4> HIDE DEF Appends
      <4> QED BY <4>1, <4>2, AppendedFrames DEF InOutbound
    <3>2. CASE p # Peer(q) \/ outbound' = outbound
      <4>1. outbound'[Peer(q)] = outbound[Peer(q)]
        <5> HIDE DEF Appends
        <5> QED BY <1>0, <1>b, <1>10, <3>2, CloseFinFrames
      <4> QED BY <4>1 DEF InOutbound
    <3> QED BY <3>1, <3>2
  <2> HIDE DEF Appends, Takes
  <2> QED BY <1>a, <1>b, <1>d, <2>2, <2>1, <2>3, <2>4, SameFollows
<1> QED
  BY <1>2, <1>3, <1>4, <1>5, <1>6, <1>7, <1>8, <1>9, <1>10
     DEF Next, AppStep, ReaderStep, WriterStep, CloseStep, StreamStep

(* The invariant holds at first, when nothing was sent, *)
LEMMA InitStream == Init => StreamInv
<1> SUFFICES ASSUME Init PROVE StreamInv
  OBVIOUS
<1>1. ASSUME NEW p \in Sides, NEW i \in Ids
      PROVE  /\ got[p][i] = <<>> /\ inbox[p][i] = <<>> /\ incoming[p][i] = <<>>
             /\ decoder[p][i] = "none" /\ ~done[p][i] /\ sent[p][i] = 0 /\ rpc[p] = "read"
             /\ outbound[p] = <<>> /\ wire[p] = <<>>
  BY <1>1 DEF Init
<1>2. ASSUME NEW p \in Sides, NEW i \in Ids PROVE Taken(p, i) = 0 /\ Decoded(p, i) = 0 /\ ~Pushing(p, i)
  <2>1. Len(got[p][i]) = 0 /\ Len(inbox[p][i]) = 0 /\ Len(incoming[p][i]) = 0
    BY <1>1
  <2>2. Decoded(p, i) = 0 /\ ~Pushing(p, i)
    BY <1>1, <2>1 DEF Decoded, Pushing
  <2> QED BY <2>1, <2>2 DEF Taken
<1>3. Queued
  BY <1>1 DEF Queued, InOrder
<1>4. Ordered
  BY <1>1, PeerFacts DEF Ordered, SentInOrder
<1>5. ASSUME NEW p \in Sides, NEW i \in Ids PROVE Follows(p, i)
  <2>1. Peer(p) \in Sides /\ sent[Peer(p)][i] = 0
    BY <1>1, PeerFacts
  <2>2. \A n : ~OnWire(p, i, n) /\ ~InOutbound(Peer(p), i, n)
    BY <1>1, <2>1 DEF OnWire, InOutbound
  <2>3. \A n \in Nat : ~(n > 0 /\ n <= 0)
    OBVIOUS
  <2> QED BY <1>2, <2>1, <2>2, <2>3 DEF Follows
<1>6. FinsComplete
  BY <1>1, <1>2, BothSides DEF FinsComplete, Complete
<1>7. FinsFollow
  BY <1>1 DEF FinsFollow, FinEnds
<1> QED BY <1>3, <1>4, <1>5, <1>6, <1>7 DEF StreamInv, Flow

(* every step keeps it, *)
LEMMA NextStream == TableInv /\ StreamInv /\ Next => StreamInv'
<1> SUFFICES ASSUME TableInv, StreamInv, Next PROVE StreamInv'
  OBVIOUS
<1>1. Queued'
  BY NextInOrder DEF Queued
<1>2. Ordered'
  BY NextSentInOrder DEF Ordered
<1>3. Flow'
  BY NextFollows DEF Flow
<1>4. FinsComplete'
  BY NextComplete DEF FinsComplete
<1>5. FinsFollow'
  BY NextFinEnds DEF FinsFollow
<1> QED BY <1>1, <1>2, <1>3, <1>4, <1>5 DEF StreamInv

(* ... and it holds while nothing happens. *)
LEMMA StutterStream == StreamInv /\ UNCHANGED vars => StreamInv'
<1> SUFFICES ASSUME StreamInv, UNCHANGED vars PROVE StreamInv'
  OBVIOUS
<1>1. /\ UNCHANGED <<closed, outbound, rpc, rframe, incoming, inbox, decoder, job, done>>
      /\ UNCHANGED <<closer, wire, half, sent, got, shut, sender>>
  BY DEF vars, connVars, outVars, tableVars, readerVars, queueVars, streamVars, appVars, netVars
<1>2. Queued'
  <2> SUFFICES ASSUME NEW p \in Sides, NEW i \in Ids, Fresh(p, i)' PROVE InOrder(p, i)'
    BY DEF Queued
  <2>1. InOrder(p, i)
    BY <1>1 DEF StreamInv, Queued, Fresh
  <2> QED BY <1>1, <2>1, SameStream
<1>3. Ordered'
  BY <1>1 DEF StreamInv, Ordered, SentInOrder
<1>4. Flow'
  <2> SUFFICES ASSUME NEW p \in Sides, NEW i \in Ids, Fresh(p, i)', Reads(p)', ~HasFin(p, i)'
               PROVE  Follows(p, i)'
    BY DEF Flow
  <2>1. Follows(p, i)
    BY <1>1 DEF StreamInv, Flow, Fresh, Reads, HasFin, Pushing
  <2> QED BY <1>1, <2>1 DEF Follows, Taken, Decoded, Pushing, OnWire, InOutbound
<1>5. FinsComplete'
  BY <1>1 DEF StreamInv, FinsComplete, Complete, Fresh, Reads, Decoded, Pushing
<1>6. FinsFollow'
  BY <1>1 DEF StreamInv, FinsFollow, FinEnds, Fresh, Reads, Pushing, FinPassed, Finished
<1> QED BY <1>2, <1>3, <1>4, <1>5, <1>6 DEF StreamInv

(* The messages of a stream are neither lost nor reordered on their way    *)
(* from Send to Recv while the transport works, and a FIN comes behind all *)
(* of them.                                                                *)
THEOREM StreamInvariant == Spec => []StreamInv
<1>1. Init => StreamInv
  BY InitStream
<1>2. TableInv /\ StreamInv /\ [Next]_vars => StreamInv'
  BY NextStream, StutterStream
<1> QED BY <1>1, <1>2, TableInvariant, PTL DEF Spec

(* A sequence whose k-th element is k is the one that counts. *)
LEMMA Counting ==
    ASSUME NEW S, NEW c \in Seq(S), \A k \in 1..Len(c) : c[k] = k
    PROVE  c = [k \in 1..Len(c) |-> k]
<1>1. c \in [1..Len(c) -> S]
  OBVIOUS
<1>2. c = [k \in 1..Len(c) |-> c[k]]
  BY <1>1
<1> QED BY <1>2

(* What a stream of which the queues are in order has delivered. *)
LEMMA ReceivedInOrder ==
    ASSUME TypeOK, NEW p \in Sides, NEW i \in Ids,
           \A k \in DOMAIN got[p][i] : got[p][i][k] = k,
           \A k \in DOMAIN inbox[p][i] : inbox[p][i][k] = Len(got[p][i]) + k
    PROVE  /\ Received(p, i) = UpTo(Len(Received(p, i)))
           /\ Len(Received(p, i)) = Len(got[p][i]) + Len(inbox[p][i])
<1> DEFINE g == got[p][i]
<1> DEFINE b == inbox[p][i]
<1>1. g \in Seq(Numbers) /\ b \in Seq(Numbers)
  BY DEF TypeOK, EachStream
<1>2. (\A k \in DOMAIN g : g[k] = k) /\ \A k \in DOMAIN b : b[k] = Len(g) + k
  OBVIOUS
<1> HIDE DEF g, b
<1>3. /\ Len(g) \in Nat /\ Len(b) \in Nat /\ DOMAIN g = 1..Len(g) /\ DOMAIN b = 1..Len(b)
  BY <1>1
<1>4. g \o b \in Seq(Numbers) /\ Len(g \o b) = Len(g) + Len(b)
  BY <1>1
<1>5. ASSUME NEW k \in 1..(Len(g) + Len(b)) PROVE (g \o b)[k] = k
  <2>1. (g \o b)[k] = IF k <= Len(g) THEN g[k] ELSE b[k - Len(g)]
    BY <1>1, <1>3
  <2>2. CASE k <= Len(g)
    BY <1>2, <1>3, <2>1, <2>2
  <2>3. CASE k > Len(g)
    <3>1. k - Len(g) \in DOMAIN b
      BY <1>3, <2>3
    <3>2. b[k - Len(g)] = Len(g) + (k - Len(g))
      BY <1>2, <3>1
    <3> QED BY <1>3, <2>1, <2>3, <3>2
  <2> QED BY <1>3, <2>2, <2>3
<1>6. g \o b = [k \in 1..Len(g \o b) |-> k]
  <2>1. \A k \in 1..Len(g \o b) : (g \o b)[k] = k
    BY <1>4, <1>5
  <2> QED BY <1>4, <2>1, Counting
<1> QED BY <1>4, <1>6 DEF Received, UpTo, g, b

(* FinDelivers, for any number of streams and messages and every size of   *)
(* the queues: while a stream is open what Recv gets of it has no gap, and *)
(* when its decode loop has ended after the peer's FIN, Recv has or will   *)
(* get all that was sent on it.                                            *)
THEOREM FinDeliversHolds == Spec => []FinDelivers
<1>1. ASSUME TableInv, StreamInv PROVE FinDelivers
  <2> SUFFICES ASSUME NEW p \in Sides, NEW i \in Ids, closer[p][i] = "idle", ~closed[p]
               PROVE  /\ Received(p, i) = UpTo(Len(Received(p, i)))
                      /\ decoder[p][i] \in {"fin", "end"} /\ ~closing[p]
                            => Len(Received(p, i)) = sent[Peer(p)][i]
    BY DEF FinDelivers
  <2>1. TypeOK /\ Staged /\ Fresh(p, i) /\ InOrder(p, i)
    BY <1>1 DEF TableInv, Fresh, StreamInv, Queued
  <2>2. /\ Received(p, i) = UpTo(Len(Received(p, i)))
        /\ Len(Received(p, i)) = Len(got[p][i]) + Len(inbox[p][i])
    BY <2>1, ReceivedInOrder DEF InOrder
  <2>3. ASSUME decoder[p][i] \in {"fin", "end"}, ~closing[p]
        PROVE  Len(Received(p, i)) = sent[Peer(p)][i]
    <3>1. decoder[p][i] = "fin"
      BY <2>1, <2>3 DEF InOrder
    <3>2. Reads(p)
      <4>1. rpc[p] \in {"read", "push", "drain", "end"}
        BY <2>1 DEF TypeOK, Each
      <4> QED BY <2>1, <2>3, <4>1 DEF Reads, Staged
    <3>3. FinEnds(p, i)
      BY <1>1, <2>1, <3>2 DEF StreamInv, FinsFollow
    <3>4. p = "server"
      BY <3>1, <3>3 DEF FinEnds
    <3>5. Decoded(p, i) = sent[Peer(p)][i]
      BY <1>1, <2>1, <3>1, <3>2, <3>4, BothSides DEF StreamInv, FinsComplete, Complete
    <3>6. Decoded(p, i) = Len(got[p][i]) + Len(inbox[p][i])
      <4>1. Len(got[p][i]) \in Nat /\ Len(inbox[p][i]) \in Nat
        BY <2>1, StreamNumbers
      <4> QED BY <3>1, <4>1 DEF Decoded
    <3> QED BY <2>2, <3>5, <3>6
  <2> QED BY <2>2, <2>3
<1> QED BY <1>1, TableInvariant, StreamInvariant, PTL

-----------------------------------------------------------------------------
(* Connection.Close.                                                       *)

(* What has begun to close goes on closing, *)
LEMMA ClosingStays ==
    ASSUME TableInv, Next, NEW q \in Sides, closing[q]
    PROVE  closing[q]'
<1> USE DEF connVars, outVars, tableVars, readerVars, queueVars, streamVars, appVars, netVars
<1>0. /\ closing[q]
      /\ TypeOK
  BY DEF TableInv
<1>1. /\ closing \in [Sides -> BOOLEAN]
  BY DEF TableInv, TypeOK, Each, EachStream
<1>2. CASE NewStream \/ Break
  BY <1>0, <1>2 DEF NewStream, Break
<1>3. CASE \E p \in Sides : CloseAllStreams(p) \/ ReadFin(p) \/ ReadMessage(p) \/ Push(p) \/
                            ReadError(p) \/ DrainEnd(p) \/ Write(p) \/ WriterEnd(p) \/
                            CloseQueue(p) \/ CloseWrite(p) \/ CloseEnd(p)
  BY <1>0, <1>3
     DEF CloseAllStreams, ReadFin, ReadMessage, Push, ReadError, DrainEnd, Write, WriterEnd,
         CloseQueue, CloseWrite, CloseEnd
<1>4. CASE \E p \in Sides, i \in Ids : Send(p, i) \/ Enqueue(p, i) \/ SendClosed(p, i) \/
                                       CloseOpened(p, i) \/ CloseFin(p, i) \/
                                       ClosePeerStream(p, i) \/ CloseRemove(p, i) \/
                                       Recv(p, i) \/ DecodeTake(p, i) \/ Dispatch(p, i) \/
                                       DecodeFin(p, i) \/ DecodeEnd(p, i) \/ DrainFin(p, i)
  BY <1>0, <1>4
     DEF Send, Enqueue, SendClosed, CloseOpened, CloseFin, ClosePeerStream, CloseRemove, Recv,
         DecodeTake, Dispatch, DecodeFin, DecodeEnd, DrainFin
<1>5. ASSUME NEW p \in Sides, ReadEOF(p) PROVE closing[q]'
  BY <1>0, <1>1, <1>5 DEF ReadEOF, MarkClosed, StreamsToDrain
<1>6. ASSUME NEW p \in Sides, Close(p) PROVE closing[q]'
  BY <1>0, <1>1, <1>6 DEF Close, MarkClosed
<1> QED
  BY <1>2, <1>3, <1>4, <1>5, <1>6
     DEF Next, AppStep, ReaderStep, WriterStep, CloseStep, StreamStep

(* ... with the failure, the timeout or the Close that began it, *)
LEMMA NotGraceful ==
    ASSUME TableInv, Next, NEW q \in Sides, ~Graceful(q)
    PROVE  ~Graceful(q)'
<1> USE DEF connVars, outVars, tableVars, readerVars, queueVars, streamVars, appVars, netVars
<1>0. /\ ~Graceful(q)
      /\ TypeOK
  BY DEF TableInv
<1>1. /\ cpc \in [Sides -> {"idle", "mark", "flush", "peer", "done"}]
      /\ failures \in 0..MaxFailures
      /\ timeouts \in 0..MaxTimeouts
  BY DEF TableInv, TypeOK, Each, EachStream
<1>2. CASE NewStream
  BY <1>0, <1>2 DEF Graceful, NewStream
<1>3. CASE \E p \in Sides : CloseAllStreams(p) \/ ReadFin(p) \/ ReadMessage(p) \/ Push(p) \/
                            ReadError(p) \/ ReadEOF(p) \/ Write(p) \/ WriterEnd(p)
  BY <1>0, <1>3
     DEF Graceful, CloseAllStreams, ReadFin, ReadMessage, Push, ReadError, ReadEOF, Write,
         WriterEnd
<1>4. CASE \E p \in Sides, i \in Ids : Send(p, i) \/ Enqueue(p, i) \/ SendClosed(p, i) \/
                                       CloseOpened(p, i) \/ CloseFin(p, i) \/
                                       ClosePeerStream(p, i) \/ CloseRemove(p, i) \/
                                       Recv(p, i) \/ DecodeTake(p, i) \/ Dispatch(p, i) \/
                                       DecodeFin(p, i) \/ DecodeEnd(p, i) \/ DrainFin(p, i)
  BY <1>0, <1>4
     DEF Graceful, Send, Enqueue, SendClosed, CloseOpened, CloseFin, ClosePeerStream,
         CloseRemove, Recv, DecodeTake, Dispatch, DecodeFin, DecodeEnd, DrainFin
<1>5. CASE Break
  <2>1. failures' # 0
    BY <1>1, <1>5, Constants DEF Break
  <2> QED BY <2>1 DEF Graceful
<1>6. ASSUME NEW p \in Sides, DrainEnd(p) PROVE ~Graceful(q)'
  <2>1. timeouts' = timeouts \/ timeouts' = timeouts + 1
    BY <1>6 DEF DrainEnd
  <2>2. timeouts # 0 => timeouts' # 0
    BY <1>1, <2>1, Constants
  <2>3. (cpc[q] # "idle" => cpc'[q] # "idle") /\ UNCHANGED failures
    BY <1>1, <1>6 DEF DrainEnd
  <2> QED BY <1>0, <2>2, <2>3 DEF Graceful
<1>7. ASSUME NEW p \in Sides, Close(p) PROVE ~Graceful(q)'
  <2>1. (cpc[q] # "idle" => cpc'[q] # "idle") /\ UNCHANGED <<failures, timeouts>>
    BY <1>1, <1>7 DEF Close
  <2> QED BY <1>0, <2>1 DEF Graceful
<1>8. ASSUME NEW p \in Sides, CloseQueue(p) PROVE ~Graceful(q)'
  <2>1. (cpc[q] # "idle" => cpc'[q] # "idle") /\ UNCHANGED <<failures, timeouts>>
    BY <1>1, <1>8 DEF CloseQueue
  <2> QED BY <1>0, <2>1 DEF Graceful
<1>9. ASSUME NEW p \in Sides, CloseWrite(p) PROVE ~Graceful(q)'
  <2>1. (cpc[q] # "idle" => cpc'[q] # "idle") /\ UNCHANGED <<failures, timeouts>>
    BY <1>1, <1>9 DEF CloseWrite
  <2> QED BY <1>0, <2>1 DEF Graceful
<1>10. ASSUME NEW p \in Sides, CloseEnd(p) PROVE ~Graceful(q)'
  <2>1. timeouts' = timeouts \/ timeouts' = timeouts + 1
    BY <1>10 DEF CloseEnd
  <2>2. timeouts # 0 => timeouts' # 0
    BY <1>1, <2>1, Constants
  <2>3. (cpc[q] # "idle" => cpc'[q] # "idle") /\ UNCHANGED failures
    BY <1>1, <1>10 DEF CloseEnd
  <2> QED BY <1>0, <2>2, <2>3 DEF Graceful
<1> QED
  BY <1>2, <1>3, <1>4, <1>5, <1>6, <1>7, <1>8, <1>9, <1>10
     DEF Next, AppStep, ReaderStep, WriterStep, CloseStep, StreamStep

(* and so does a half of the transport that has ended, *)
LEMMA HalfEnds ==
    ASSUME TableInv, Next, NEW q \in Sides, half[q] # "open"
    PROVE  (half[q] # "open")'
<1> USE DEF connVars, outVars, tableVars, readerVars, queueVars, streamVars, appVars, netVars
<1>0. /\ (half[q] # "open")
      /\ TypeOK
  BY DEF TableInv
<1>1. /\ half \in [Sides -> {"open", "eof", "reset"}]
  BY DEF TableInv, TypeOK, Each, EachStream
<1>2. CASE NewStream
  BY <1>0, <1>2 DEF NewStream
<1>3. CASE \E p \in Sides : CloseAllStreams(p) \/ ReadFin(p) \/ ReadMessage(p) \/ Push(p) \/
                            WriterEnd(p) \/ CloseQueue(p)
  BY <1>0, <1>3 DEF CloseAllStreams, ReadFin, ReadMessage, Push, WriterEnd, CloseQueue
<1>4. CASE \E p \in Sides, i \in Ids : Send(p, i) \/ Enqueue(p, i) \/ SendClosed(p, i) \/
                                       CloseOpened(p, i) \/ CloseFin(p, i) \/
                                       ClosePeerStream(p, i) \/ CloseRemove(p, i) \/
                                       Recv(p, i) \/ DecodeTake(p, i) \/ Dispatch(p, i) \/
                                       DecodeFin(p, i) \/ DecodeEnd(p, i) \/ DrainFin(p, i)
  BY <1>0, <1>4
     DEF Send, Enqueue, SendClosed, CloseOpened, CloseFin, ClosePeerStream, CloseRemove, Recv,
         DecodeTake, Dispatch, DecodeFin, DecodeEnd, DrainFin
<1>5. CASE Break
  BY <1>5 DEF Break
<1>6. ASSUME NEW p \in Sides, ReadError(p) PROVE (half[q] # "open")'
  <2>1. CASE MarkClosed(p)
    BY <1>0, <1>1, <2>1 DEF MarkClosed
  <2>2. CASE UNCHANGED half
    BY <1>0, <2>2
  <2> QED BY <1>6, <2>1, <2>2 DEF ReadError
<1>7. ASSUME NEW p \in Sides, ReadEOF(p) PROVE (half[q] # "open")'
  <2>1. CASE MarkClosed(p)
    BY <1>0, <1>1, <2>1 DEF MarkClosed
  <2>2. CASE UNCHANGED half
    BY <1>0, <2>2
  <2> QED BY <1>7, <2>1, <2>2 DEF ReadEOF
<1>8. ASSUME NEW p \in Sides, DrainEnd(p) PROVE (half[q] # "open")'
  <2>1. CASE MarkClosed(p)
    BY <1>0, <1>1, <2>1 DEF MarkClosed
  <2>2. CASE UNCHANGED half
    BY <1>0, <2>2
  <2> QED BY <1>8, <2>1, <2>2 DEF DrainEnd
<1>9. ASSUME NEW p \in Sides, Write(p) PROVE (half[q] # "open")'
  <2>1. CASE MarkClosed(p)
    BY <1>0, <1>1, <2>1 DEF MarkClosed
  <2>2. CASE UNCHANGED half \/ half' = [half EXCEPT ![p] = "reset"]
    BY <1>0, <1>1, <2>2
  <2> QED BY <1>9, <2>1, <2>2 DEF Write
<1>10. ASSUME NEW p \in Sides, Close(p) PROVE (half[q] # "open")'
  <2>1. CASE MarkClosed(p)
    BY <1>0, <1>1, <2>1 DEF MarkClosed
  <2>2. CASE UNCHANGED half
    BY <1>0, <2>2
  <2> QED BY <1>10, <2>1, <2>2 DEF Close
<1>11. ASSUME NEW p \in Sides, CloseWrite(p) PROVE (half[q] # "open")'
  BY <1>0, <1>1, <1>11 DEF CloseWrite
<1>12. ASSUME NEW p \in Sides, CloseEnd(p) PROVE (half[q] # "open")'
  <2>1. CASE MarkClosed(p)
    BY <1>0, <1>1, <2>1 DEF MarkClosed
  <2>2. CASE UNCHANGED half
    BY <1>0, <2>2
  <2> QED BY <1>12, <2>1, <2>2 DEF CloseEnd
<1> QED
  BY <1>2, <1>3, <1>4, <1>5, <1>6, <1>7, <1>8, <1>9, <1>10, <1>11, <1>12
     DEF Next, AppStep, ReaderStep, WriterStep, CloseStep, StreamStep

(* and a reader. *)
LEMMA EndStays ==
    ASSUME TableInv, Next, NEW q \in Sides, rpc[q] = "end"
    PROVE  (rpc[q] = "end")'
<1> USE DEF connVars, outVars, tableVars, readerVars, queueVars, streamVars, appVars, netVars
<1>0. /\ (rpc[q] = "end")
      /\ TypeOK
  BY DEF TableInv
<1>1. /\ rpc \in [Sides -> {"read", "push", "drain", "end"}]
  BY DEF TableInv, TypeOK, Each, EachStream
<1>2. CASE NewStream \/ Break
  BY <1>0, <1>2 DEF NewStream, Break
<1>3. CASE \E p \in Sides : CloseAllStreams(p) \/ Write(p) \/ WriterEnd(p) \/ Close(p) \/
                            CloseQueue(p) \/ CloseWrite(p) \/ CloseEnd(p)
  BY <1>0, <1>3 DEF CloseAllStreams, Write, WriterEnd, Close, CloseQueue, CloseWrite, CloseEnd
<1>4. CASE \E p \in Sides, i \in Ids : Send(p, i) \/ Enqueue(p, i) \/ SendClosed(p, i) \/
                                       CloseOpened(p, i) \/ CloseFin(p, i) \/
                                       ClosePeerStream(p, i) \/ CloseRemove(p, i) \/
                                       Recv(p, i) \/ DecodeTake(p, i) \/ Dispatch(p, i) \/
                                       DecodeFin(p, i) \/ DecodeEnd(p, i) \/ DrainFin(p, i)
  BY <1>0, <1>4
     DEF Send, Enqueue, SendClosed, CloseOpened, CloseFin, ClosePeerStream, CloseRemove, Recv,
         DecodeTake, Dispatch, DecodeFin, DecodeEnd, DrainFin
<1>5. ASSUME NEW p \in Sides, ReadFin(p) PROVE (rpc[q] = "end")'
  BY <1>0, <1>1, <1>5 DEF ReadFin, ReadFrame
<1>6. ASSUME NEW p \in Sides, ReadMessage(p) PROVE (rpc[q] = "end")'
  BY <1>0, <1>1, <1>6 DEF ReadMessage, ReadFrame
<1>7. ASSUME NEW p \in Sides, Push(p) PROVE (rpc[q] = "end")'
  BY <1>0, <1>1, <1>7 DEF Push, GiveUp
<1>8. ASSUME NEW p \in Sides, ReadError(p) PROVE (rpc[q] = "end")'
  BY <1>0, <1>1, <1>8 DEF ReadError, MarkClosed
<1>9. ASSUME NEW p \in Sides, ReadEOF(p) PROVE (rpc[q] = "end")'
  BY <1>0, <1>1, <1>9 DEF ReadEOF, MarkClosed, StreamsToDrain
<1>10. ASSUME NEW p \in Sides, DrainEnd(p) PROVE (rpc[q] = "end")'
  BY <1>0, <1>1, <1>10 DEF DrainEnd, MarkClosed
<1> QED
  BY <1>2, <1>3, <1>4, <1>5, <1>6, <1>7, <1>8, <1>9, <1>10
     DEF Next, AppStep, ReaderStep, WriterStep, CloseStep, StreamStep

(* The marker is queued by Close only. *)
LEMMA NextMarkerQueued ==
    ASSUME TableInv, StreamInv, CloseInv, Next, NEW q \in Sides
    PROVE  MarkerQueued(q)'
<1> USE DEF connVars, outVars, tableVars, readerVars, queueVars, streamVars, appVars, netVars
<1>0. /\ TypeOK
  BY DEF TableInv
<1>1. /\ closing \in [Sides -> BOOLEAN]
      /\ cpc \in [Sides -> {"idle", "mark", "flush", "peer", "done"}]
      /\ writer \in [Sides -> {"run", "marked", "end"}]
      /\ outbound \in [Sides -> Seq([id : 0..NStreams, msg : Nat])]
  BY DEF TableInv, TypeOK, Each, EachStream
<1>a. MarkerQueued(q) /\ (closing[q] => closing'[q])
  BY ClosingStays DEF CloseInv, Marked
<1>2. CASE NewStream \/ Break
  <2>1. UNCHANGED <<closing, cpc, writer, outbound>>
    BY <1>2 DEF NewStream, Break
  <2> QED BY <1>0, <1>a, <2>1 DEF MarkerQueued
<1>3. CASE \E p \in Sides : CloseAllStreams(p) \/ ReadFin(p) \/ ReadMessage(p) \/ Push(p) \/
                            ReadError(p) \/ DrainEnd(p)
  <2>1. UNCHANGED <<closing, cpc, writer, outbound>>
    BY <1>3 DEF CloseAllStreams, ReadFin, ReadMessage, Push, ReadError, DrainEnd
  <2> QED BY <1>0, <1>a, <2>1 DEF MarkerQueued
<1>4. CASE \E p \in Sides, i \in Ids : Send(p, i) \/ SendClosed(p, i) \/ CloseOpened(p, i)
                                       \/ ClosePeerStream(p, i) \/ CloseRemove(p, i) \/
                                       Recv(p, i) \/ DecodeTake(p, i) \/ Dispatch(p, i) \/
                                       DecodeFin(p, i) \/ DecodeEnd(p, i) \/ DrainFin(p, i)
  <2>1. UNCHANGED <<closing, cpc, writer, outbound>>
    BY <1>4
       DEF Send, SendClosed, CloseOpened, ClosePeerStream, CloseRemove, Recv, DecodeTake,
           Dispatch, DecodeFin, DecodeEnd, DrainFin
  <2> QED BY <1>0, <1>a, <2>1 DEF MarkerQueued
<1>5. ASSUME NEW p \in Sides, ReadEOF(p) PROVE MarkerQueued(q)'
  <2>1. UNCHANGED outbound /\ (writer'[q] = "marked" => writer[q] = "marked")
    BY <1>1, <1>5 DEF ReadEOF
  <2>2. cpc'[q] \in {"mark", "flush", "peer"} => cpc[q] \in {"mark", "flush", "peer"} \/ closing'[q]
    BY <1>1, <1>5 DEF ReadEOF
  <2> QED BY <1>a, <2>1, <2>2 DEF MarkerQueued
<1>6. ASSUME NEW p \in Sides, Write(p) PROVE MarkerQueued(q)'
  <2>1. UNCHANGED <<closing, cpc>>
    BY <1>6 DEF Write
  <2>2. CASE q = p
    <3>1. Takes(outbound[q], outbound'[q])
      <4> HIDE DEF Takes
      <4> QED BY <1>0, <1>6, <2>2, WriteFrames
    <3>2. writer'[q] = "marked" => outbound[q][1] = Marker
      BY <1>1, <1>6, <2>2, <3>1 DEF Write
    <3> QED BY <1>a, <2>1, <3>1, <3>2 DEF MarkerQueued
  <2>3. CASE q # p
    <3>1. outbound'[q] = outbound[q]
      <4> HIDE DEF Takes
      <4> QED BY <1>0, <1>6, <2>3, WriteFrames
    <3>2. writer'[q] = writer[q]
      BY <1>1, <1>6, <2>3 DEF Write
    <3> QED BY <1>a, <2>1, <3>1, <3>2 DEF MarkerQueued
  <2> QED BY <2>2, <2>3
<1>7. ASSUME NEW p \in Sides, WriterEnd(p) PROVE MarkerQueued(q)'
  <2>1. UNCHANGED outbound /\ (writer'[q] = "marked" => writer[q] = "marked")
    BY <1>1, <1>7 DEF WriterEnd
  <2>2. cpc'[q] \in {"mark", "flush", "peer"} => cpc[q] \in {"mark", "flush", "peer"} \/ closing'[q]
    BY <1>1, <1>7 DEF WriterEnd
  <2> QED BY <1>a, <2>1, <2>2 DEF MarkerQueued
<1>8. ASSUME NEW p \in Sides, Close(p) PROVE MarkerQueued(q)'
  <2>1. UNCHANGED outbound /\ (writer'[q] = "marked" => writer[q] = "marked")
    BY <1>1, <1>8 DEF Close
  <2>2. cpc'[q] \in {"mark", "flush", "peer"} => cpc[q] \in {"mark", "flush", "peer"} \/ closing'[q]
    BY <1>1, <1>8 DEF Close
  <2> QED BY <1>a, <2>1, <2>2 DEF MarkerQueued
<1>9. ASSUME NEW p \in Sides, CloseQueue(p) PROVE MarkerQueued(q)'
  <2>1. UNCHANGED <<writer, closing>>
    BY <1>9 DEF CloseQueue
  <2>2. CASE q = p
    <3>1. Appends(outbound[q], outbound'[q], Marker)
      <4> HIDE DEF Appends
      <4> QED BY <1>0, <1>9, <2>2, CloseQueueFrames
    <3>2. closing[q]
      BY <1>a, <1>9, <2>2 DEF CloseQueue, MarkerQueued
    <3> QED BY <2>1, <3>2 DEF MarkerQueued
  <2>3. CASE ~(q = p)
    <3>1. outbound'[q] = outbound[q]
      <4> HIDE DEF Appends
      <4> QED BY <1>0, <1>9, <2>3, CloseQueueFrames
    <3>2. cpc'[q] = cpc[q]
      BY <1>1, <1>9, <2>3 DEF CloseQueue
    <3> QED BY <1>a, <2>1, <3>1, <3>2 DEF MarkerQueued
  <2> QED BY <2>2, <2>3
<1>10. ASSUME NEW p \in Sides, CloseWrite(p) PROVE MarkerQueued(q)'
  <2>1. UNCHANGED outbound /\ (writer'[q] = "marked" => writer[q] = "marked")
    BY <1>1, <1>10 DEF CloseWrite
  <2>2. cpc'[q] \in {"mark", "flush", "peer"} => cpc[q] \in {"mark", "flush", "peer"} \/ closing'[q]
    BY <1>1, <1>10 DEF CloseWrite
  <2> QED BY <1>a, <2>1, <2>2 DEF MarkerQueued
<1>11. ASSUME NEW p \in Sides, CloseEnd(p) PROVE MarkerQueued(q)'
  <2>1. UNCHANGED outbound /\ (writer'[q] = "marked" => writer[q] = "marked")
    BY <1>1, <1>11 DEF CloseEnd
  <2>2. cpc'[q] \in {"mark", "flush", "peer"} => cpc[q] \in {"mark", "flush", "peer"} \/ closing'[q]
    BY <1>1, <1>11 DEF CloseEnd
  <2> QED BY <1>a, <2>1, <2>2 DEF MarkerQueued
<1>12. ASSUME NEW p \in Sides, NEW i \in Ids, Enqueue(p, i) PROVE MarkerQueued(q)'
  <2>1. UNCHANGED <<writer, closing, cpc>>
    BY <1>12 DEF Enqueue
  <2>2. CASE q = p
    <3>1. Appends(outbound[q], outbound'[q], Frame(i, sent[p][i] + 1))
      <4> HIDE DEF Appends
      <4> QED BY <1>0, <1>12, <2>2, EnqueueFrames
    <3>2. Frame(i, sent[p][i] + 1) # Marker
      BY Constants DEF Frame, Marker
    <3> QED BY <1>a, <2>1, <3>1, <3>2 DEF MarkerQueued
  <2>3. CASE ~(q = p)
    <3>1. outbound'[q] = outbound[q]
      <4> HIDE DEF Appends
      <4> QED BY <1>0, <1>12, <2>3, EnqueueFrames
    <3> QED BY <1>a, <2>1, <3>1 DEF MarkerQueued
  <2> QED BY <2>2, <2>3
<1>13. ASSUME NEW p \in Sides, NEW i \in Ids, CloseFin(p, i) PROVE MarkerQueued(q)'
  <2>1. UNCHANGED <<writer, closing, cpc>>
    BY <1>13 DEF CloseFin
  <2>2. CASE q = p /\ outbound' # outbound
    <3>1. Appends(outbound[q], outbound'[q], Frame(i, Fin))
      <4> HIDE DEF Appends
      <4> QED BY <1>0, <1>13, <2>2, CloseFinFrames
    <3>2. Frame(i, Fin) # Marker
      BY Constants DEF Frame, Marker
    <3> QED BY <1>a, <2>1, <3>1, <3>2 DEF MarkerQueued
  <2>3. CASE ~(q = p /\ outbound' # outbound)
    <3>1. outbound'[q] = outbound[q]
      <4> HIDE DEF Appends
      <4> QED BY <1>0, <1>13, <2>3, CloseFinFrames
    <3> QED BY <1>a, <2>1, <3>1 DEF MarkerQueued
  <2> QED BY <2>2, <2>3
<1> QED
  BY <1>2, <1>3, <1>4, <1>5, <1>6, <1>7, <1>8, <1>9, <1>10, <1>11, <1>12, <1>13
     DEF Next, AppStep, ReaderStep, WriterStep, CloseStep, StreamStep

(* What was sent before Close comes before the marker. *)
LEMMA NextBehind ==
    ASSUME TableInv, StreamInv, CloseInv, Next, NEW q \in Sides, NEW j \in Ids
    PROVE  Behind(q, j)'
<1> USE DEF connVars, outVars, tableVars, readerVars, queueVars, streamVars, appVars, netVars
<1>0. /\ TypeOK
  BY DEF TableInv
<1>1. /\ closing \in [Sides -> BOOLEAN]
      /\ writer \in [Sides -> {"run", "marked", "end"}]
      /\ outbound \in [Sides -> Seq([id : 0..NStreams, msg : Nat])]
      /\ sent \in [Sides -> [Ids -> Nat]]
      /\ flushed \in [Sides -> [Ids -> Nat]]
  BY DEF TableInv, TypeOK, Each, EachStream
<1>a. Behind(q, j) /\ MarkerQueued(q) /\ (closing[q] => closing'[q])
  BY ClosingStays DEF CloseInv, Marked
<1>b. flushed[q][j] \in Nat /\ sent[q][j] \in Nat
  BY <1>0 DEF TypeOK, EachStream
<1>2. CASE NewStream \/ Break
  <2>1. UNCHANGED <<closing, writer, outbound, sent, flushed>>
    BY <1>2 DEF NewStream, Break
  <2> QED BY <1>0, <1>a, <2>1 DEF Behind
<1>3. CASE \E p \in Sides : CloseAllStreams(p) \/ ReadFin(p) \/ ReadMessage(p) \/ Push(p) \/
                            ReadError(p) \/ DrainEnd(p) \/ CloseWrite(p) \/ CloseEnd(p)
  <2>1. UNCHANGED <<closing, writer, outbound, sent, flushed>>
    BY <1>3
       DEF CloseAllStreams, ReadFin, ReadMessage, Push, ReadError, DrainEnd, CloseWrite,
           CloseEnd
  <2> QED BY <1>0, <1>a, <2>1 DEF Behind
<1>4. CASE \E p \in Sides, i \in Ids : Send(p, i) \/ SendClosed(p, i) \/ CloseOpened(p, i)
                                       \/ ClosePeerStream(p, i) \/ CloseRemove(p, i) \/
                                       Recv(p, i) \/ DecodeTake(p, i) \/ Dispatch(p, i) \/
                                       DecodeFin(p, i) \/ DecodeEnd(p, i) \/ DrainFin(p, i)
  <2>1. UNCHANGED <<closing, writer, outbound, sent, flushed>>
    BY <1>4
       DEF Send, SendClosed, CloseOpened, ClosePeerStream, CloseRemove, Recv, DecodeTake,
           Dispatch, DecodeFin, DecodeEnd, DrainFin
  <2> QED BY <1>0, <1>a, <2>1 DEF Behind
<1>5. ASSUME NEW p \in Sides, ReadEOF(p) PROVE Behind(q, j)'
  <2>1. UNCHANGED <<flushed, sent, outbound>> /\ (writer'[q] = "marked" => writer[q] = "marked")
    BY <1>1, <1>5 DEF ReadEOF
  <2> QED BY <1>a, <2>1 DEF Behind
<1>6. ASSUME NEW p \in Sides, Write(p) PROVE Behind(q, j)'
  <2>1. UNCHANGED <<closing, flushed, sent>>
    BY <1>6 DEF Write
  <2>2. CASE q = p
    <3>1. Takes(outbound[q], outbound'[q])
      <4> HIDE DEF Takes
      <4> QED BY <1>0, <1>6, <2>2, WriteFrames
    <3>2. writer'[q] = "marked" => outbound[q][1] = Marker
      BY <1>1, <1>6, <2>2, <3>1 DEF Write
    <3>3. ASSUME NEW l \in DOMAIN outbound'[q], outbound'[q][l].id = j, outbound'[q][l].msg # Fin
          PROVE  /\ writer'[q] = "marked" => outbound'[q][l].msg > flushed'[q][j]
                 /\ \A k \in DOMAIN outbound'[q] :
                       k < l /\ outbound'[q][k] = Marker => outbound'[q][l].msg > flushed'[q][j]
      <4>1. l \in Nat /\ 1 < l + 1 /\ l + 1 \in DOMAIN outbound[q] /\ outbound'[q][l] = outbound[q][l + 1] /\ 1 \in DOMAIN outbound[q]
        BY <3>1, <3>3
      <4>2. \A k \in DOMAIN outbound'[q] : k < l => k + 1 < l + 1 /\ k + 1 \in DOMAIN outbound[q] /\ outbound'[q][k] = outbound[q][k + 1]
        BY <3>1, <4>1
      <4>3. \A k \in DOMAIN outbound[q] : k < l + 1 /\ outbound[q][k] = Marker => outbound[q][l + 1].msg > flushed[q][j]
        <5> HIDE DEF Takes
        <5> QED BY <1>a, <3>3, <4>1 DEF Behind
      <4> HIDE DEF Takes
      <4> QED BY <2>1, <3>2, <4>1, <4>2, <4>3
    <3> QED BY <1>a, <2>1, <3>3 DEF Behind
  <2>3. CASE q # p
    <3>1. outbound'[q] = outbound[q]
      <4> HIDE DEF Takes
      <4> QED BY <1>0, <1>6, <2>3, WriteFrames
    <3>2. writer'[q] = writer[q]
      BY <1>1, <1>6, <2>3 DEF Write
    <3> QED BY <1>a, <2>1, <3>1, <3>2 DEF Behind
  <2> QED BY <2>2, <2>3
<1>7. ASSUME NEW p \in Sides, WriterEnd(p) PROVE Behind(q, j)'
  <2>1. UNCHANGED <<flushed, sent, outbound>> /\ (writer'[q] = "marked" => writer[q] = "marked")
    BY <1>1, <1>7 DEF WriterEnd
  <2> QED BY <1>a, <2>1 DEF Behind
<1>8. ASSUME NEW p \in Sides, Close(p) PROVE Behind(q, j)'
  <2>1. UNCHANGED <<flushed, sent, outbound>> /\ (writer'[q] = "marked" => writer[q] = "marked")
    BY <1>1, <1>8 DEF Close
  <2> QED BY <1>a, <2>1 DEF Behind
<1>9. ASSUME NEW p \in Sides, CloseQueue(p) PROVE Behind(q, j)'
  <2>1. UNCHANGED <<writer, closing>>
    BY <1>9 DEF CloseQueue
  <2>2. CASE q = p
    <3>1. Appends(outbound[q], outbound'[q], Marker)
      <4> HIDE DEF Appends
      <4> QED BY <1>0, <1>9, <2>2, CloseQueueFrames
    <3>2. Marker.msg = Fin /\ UNCHANGED <<flushed, sent>>
      BY <1>9 DEF CloseQueue, Frame, Marker, Fin
    <3>3. ASSUME NEW l \in DOMAIN outbound'[q], outbound'[q][l].id = j, outbound'[q][l].msg # Fin
          PROVE  /\ writer'[q] = "marked" => outbound'[q][l].msg > flushed'[q][j]
                 /\ \A k \in DOMAIN outbound'[q] :
                       k < l /\ outbound'[q][k] = Marker => outbound'[q][l].msg > flushed'[q][j]
      <4>1. l \in DOMAIN outbound[q] /\ outbound'[q][l] = outbound[q][l]
        BY <3>1, <3>2, <3>3
      <4>2. \A k \in DOMAIN outbound'[q] : k < l => k \in DOMAIN outbound[q] /\ outbound'[q][k] = outbound[q][k]
        BY <3>1, <4>1
      <4> HIDE DEF Appends
      <4> QED BY <1>a, <2>1, <3>2, <3>3, <4>1, <4>2 DEF Behind
    <3> QED BY <1>a, <2>1, <3>2, <3>3 DEF Behind
  <2>3. CASE ~(q = p)
    <3>1. outbound'[q] = outbound[q]
      <4> HIDE DEF Appends
      <4> QED BY <1>0, <1>9, <2>3, CloseQueueFrames
    <3>2. flushed'[q][j] = flushed[q][j] /\ sent'[q][j] = sent[q][j]
      BY <1>9 DEF CloseQueue
    <3> QED BY <1>a, <2>1, <3>1, <3>2 DEF Behind
  <2> QED BY <2>2, <2>3
<1>10. ASSUME NEW p \in Sides, NEW i \in Ids, Enqueue(p, i) PROVE Behind(q, j)'
  <2>1. UNCHANGED <<writer, closing>>
    BY <1>10 DEF Enqueue
  <2>2. CASE q = p
    <3>1. Appends(outbound[q], outbound'[q], Frame(i, sent[p][i] + 1))
      <4> HIDE DEF Appends
      <4> QED BY <1>0, <1>10, <2>2, EnqueueFrames
    <3>2. CASE i = j
      <4>1. /\ sent'[q][j] = sent[q][j] + 1
            /\ flushed'[q][j] = IF closing[q] THEN flushed[q][j] ELSE sent[q][j] + 1
        BY <1>1, <1>10, <2>2, <3>2 DEF Enqueue
      <4>2. flushed'[q][j] <= sent'[q][j] /\ (~closing[q] => flushed'[q][j] = sent'[q][j])
        BY <1>a, <1>b, <4>1 DEF Behind
      <4>3. CASE closing[q]
        <5>1. flushed'[q][j] = flushed[q][j] /\ sent[q][j] + 1 > flushed[q][j]
          BY <1>a, <1>b, <4>1, <4>3 DEF Behind
        <5>2. Frame(i, sent[p][i] + 1).msg = sent[q][j] + 1
          BY <2>2, <3>2 DEF Frame
        <5>3. ASSUME NEW l \in DOMAIN outbound'[q], outbound'[q][l].id = j, outbound'[q][l].msg # Fin
              PROVE  /\ writer'[q] = "marked" => outbound'[q][l].msg > flushed'[q][j]
                     /\ \A k \in DOMAIN outbound'[q] :
                           k < l /\ outbound'[q][k] = Marker => outbound'[q][l].msg > flushed'[q][j]
          <6>1. CASE l \in DOMAIN outbound[q]
            <7>1. outbound'[q][l] = outbound[q][l]
              BY <3>1, <6>1
            <7>2. \A k \in DOMAIN outbound'[q] : k < l => k \in DOMAIN outbound[q] /\ outbound'[q][k] = outbound[q][k]
              BY <3>1, <6>1
            <7> HIDE DEF Appends
            <7> QED BY <1>a, <2>1, <5>1, <5>3, <6>1, <7>1, <7>2 DEF Behind
          <6>2. CASE l = Len(outbound[q]) + 1
            <7>1. outbound'[q][l].msg = sent[q][j] + 1
              BY <3>1, <5>2, <6>2
            <7> HIDE DEF Appends
            <7> QED BY <5>1, <7>1
          <6> QED BY <3>1, <5>3, <6>1, <6>2
        <5> QED BY <2>1, <4>2, <5>3 DEF Behind
      <4>4. CASE ~closing[q]
        <5>1. writer[q] # "marked" /\ \A k \in DOMAIN outbound[q] : outbound[q][k] # Marker
          BY <1>a, <4>4 DEF MarkerQueued
        <5>2. Frame(i, sent[p][i] + 1) # Marker
          BY Constants DEF Frame, Marker
        <5>3. \A k \in DOMAIN outbound'[q] : outbound'[q][k] # Marker
          BY <3>1, <5>1, <5>2
        <5> HIDE DEF Appends
        <5> QED BY <2>1, <4>2, <5>1, <5>3 DEF Behind
      <4> QED BY <4>3, <4>4
    <3>3. CASE i # j
      <4>1. sent'[q][j] = sent[q][j] /\ flushed'[q][j] = flushed[q][j]
        BY <1>1, <1>10, <2>2, <3>3 DEF Enqueue
      <4>2. Frame(i, sent[p][i] + 1).id # j
        BY <3>3 DEF Frame
      <4>3. ASSUME NEW l \in DOMAIN outbound'[q], outbound'[q][l].id = j, outbound'[q][l].msg # Fin
            PROVE  /\ writer'[q] = "marked" => outbound'[q][l].msg > flushed'[q][j]
                   /\ \A k \in DOMAIN outbound'[q] :
                         k < l /\ outbound'[q][k] = Marker => outbound'[q][l].msg > flushed'[q][j]
        <5>1. l \in DOMAIN outbound[q] /\ outbound'[q][l] = outbound[q][l]
          BY <3>1, <4>2, <4>3
        <5>2. \A k \in DOMAIN outbound'[q] : k < l => k \in DOMAIN outbound[q] /\ outbound'[q][k] = outbound[q][k]
          BY <3>1, <5>1
        <5> HIDE DEF Appends
        <5> QED BY <1>a, <2>1, <4>1, <4>3, <5>1, <5>2 DEF Behind
      <4> QED BY <1>a, <2>1, <4>1, <4>3 DEF Behind
    <3> QED BY <3>2, <3>3
  <2>3. CASE ~(q = p)
    <3>1. outbound'[q] = outbound[q]
      <4> HIDE DEF Appends
      <4> QED BY <1>0, <1>10, <2>3, EnqueueFrames
    <3>2. flushed'[q][j] = flushed[q][j] /\ sent'[q][j] = sent[q][j]
      BY <1>1, <1>10, <2>3 DEF Enqueue
    <3> QED BY <1>a, <2>1, <3>1, <3>2 DEF Behind
  <2> QED BY <2>2, <2>3
<1>11. ASSUME NEW p \in Sides, NEW i \in Ids, CloseFin(p, i) PROVE Behind(q, j)'
  <2>1. UNCHANGED <<writer, closing>>
    BY <1>11 DEF CloseFin
  <2>2. CASE q = p /\ outbound' # outbound
    <3>1. Appends(outbound[q], outbound'[q], Frame(i, Fin))
      <4> HIDE DEF Appends
      <4> QED BY <1>0, <1>11, <2>2, CloseFinFrames
    <3>2. Frame(i, Fin).msg = Fin /\ UNCHANGED <<flushed, sent>>
      BY <1>11 DEF CloseFin, Frame, Marker, Fin
    <3>3. ASSUME NEW l \in DOMAIN outbound'[q], outbound'[q][l].id = j, outbound'[q][l].msg # Fin
          PROVE  /\ writer'[q] = "marked" => outbound'[q][l].msg > flushed'[q][j]
                 /\ \A k \in DOMAIN outbound'[q] :
                       k < l /\ outbound'[q][k] = Marker => outbound'[q][l].msg > flushed'[q][j]
      <4>1. l \in DOMAIN outbound[q] /\ outbound'[q][l] = outbound[q][l]
        BY <3>1, <3>2, <3>3
      <4>2. \A k \in DOMAIN outbound'[q] : k < l => k \in DOMAIN outbound[q] /\ outbound'[q][k] = outbound[q][k]
        BY <3>1, <4>1
      <4> HIDE DEF Appends
      <4> QED BY <1>a, <2>1, <3>2, <3>3, <4>1, <4>2 DEF Behind
    <3> QED BY <1>a, <2>1, <3>2, <3>3 DEF Behind
  <2>3. CASE ~(q = p /\ outbound' # outbound)
    <3>1. outbound'[q] = outbound[q]
      <4> HIDE DEF Appends
      <4> QED BY <1>0, <1>11, <2>3, CloseFinFrames
    <3>2. flushed'[q][j] = flushed[q][j] /\ sent'[q][j] = sent[q][j]
      BY <1>11 DEF CloseFin
    <3> QED BY <1>a, <2>1, <3>1, <3>2 DEF Behind
  <2> QED BY <2>2, <2>3
<1> QED
  BY <1>2, <1>3, <1>4, <1>5, <1>6, <1>7, <1>8, <1>9, <1>10, <1>11
     DEF Next, AppStep, ReaderStep, WriterStep, CloseStep, StreamStep

(* Only the reader closes a side that has not called Close. *)
LEMMA NextReaderCloses ==
    ASSUME TableInv, StreamInv, CloseInv, Next, NEW q \in Sides
    PROVE  ReaderCloses(q)'
<1> USE DEF connVars, outVars, tableVars, readerVars, queueVars, streamVars, appVars, netVars
<1>0. /\ TypeOK
  BY DEF TableInv
<1>1. /\ rpc \in [Sides -> {"read", "push", "drain", "end"}]
      /\ half \in [Sides -> {"open", "eof", "reset"}]
      /\ closing \in [Sides -> BOOLEAN]
      /\ cpc \in [Sides -> {"idle", "mark", "flush", "peer", "done"}]
  BY DEF TableInv, TypeOK, Each, EachStream
<1>a. /\ ReaderCloses(q) /\ (half[q] # "open" => half'[q] # "open") /\ (Reads(q)' => Reads(q))
  BY HalfEnds, ReadsNoMore DEF CloseInv, PeerWaits
<1>2. CASE NewStream
  <2>1. UNCHANGED <<rpc, half, closing, cpc>>
    BY <1>2 DEF NewStream
  <2> QED BY <1>0, <1>a, <2>1 DEF ReaderCloses, Reads
<1>3. CASE \E p \in Sides : CloseAllStreams(p) \/ WriterEnd(p)
  <2>1. UNCHANGED <<rpc, half, closing, cpc>>
    BY <1>3 DEF CloseAllStreams, WriterEnd
  <2> QED BY <1>0, <1>a, <2>1 DEF ReaderCloses, Reads
<1>4. CASE \E p \in Sides, i \in Ids : Send(p, i) \/ Enqueue(p, i) \/ SendClosed(p, i) \/
                                       CloseOpened(p, i) \/ CloseFin(p, i) \/
                                       ClosePeerStream(p, i) \/ CloseRemove(p, i) \/
                                       Recv(p, i) \/ DecodeTake(p, i) \/ Dispatch(p, i) \/
                                       DecodeFin(p, i) \/ DecodeEnd(p, i) \/ DrainFin(p, i)
  <2>1. UNCHANGED <<rpc, half, closing, cpc>>
    BY <1>4
       DEF Send, Enqueue, SendClosed, CloseOpened, CloseFin, ClosePeerStream, CloseRemove, Recv,
           DecodeTake, Dispatch, DecodeFin, DecodeEnd, DrainFin
  <2> QED BY <1>0, <1>a, <2>1 DEF ReaderCloses, Reads
<1>5. CASE Break
  <2>1. /\ rpc'[q] = "drain" => rpc[q] = "drain"
        /\ closing'[q] => closing[q]
        /\ cpc[q] # "idle" => cpc'[q] # "idle"
    BY <1>1, <1>5 DEF Break
  <2> QED BY <1>a, <2>1 DEF ReaderCloses
<1>6. ASSUME NEW p \in Sides, ReadFin(p) PROVE ReaderCloses(q)'
  <2>1. /\ rpc'[q] = "drain" => rpc[q] = "drain"
        /\ closing'[q] => closing[q]
        /\ cpc[q] # "idle" => cpc'[q] # "idle"
    BY <1>1, <1>6 DEF ReadFin
  <2> QED BY <1>a, <2>1 DEF ReaderCloses
<1>7. ASSUME NEW p \in Sides, ReadMessage(p) PROVE ReaderCloses(q)'
  <2>1. /\ rpc'[q] = "drain" => rpc[q] = "drain"
        /\ closing'[q] => closing[q]
        /\ cpc[q] # "idle" => cpc'[q] # "idle"
    BY <1>1, <1>7 DEF ReadMessage
  <2> QED BY <1>a, <2>1 DEF ReaderCloses
<1>8. ASSUME NEW p \in Sides, Push(p) PROVE ReaderCloses(q)'
  <2>1. /\ rpc'[q] = "drain" => rpc[q] = "drain"
        /\ closing'[q] => closing[q]
        /\ cpc[q] # "idle" => cpc'[q] # "idle"
    BY <1>1, <1>8 DEF Push
  <2> QED BY <1>a, <2>1 DEF ReaderCloses
<1>9. ASSUME NEW p \in Sides, ReadError(p) PROVE ReaderCloses(q)'
  <2>1. /\ rpc'[q] = "drain" => rpc[q] = "drain"
        /\ closing'[q] => closing[q]
        /\ cpc[q] # "idle" => cpc'[q] # "idle"
    BY <1>1, <1>9 DEF ReadError
  <2> QED BY <1>a, <2>1 DEF ReaderCloses
<1>10. ASSUME NEW p \in Sides, ReadEOF(p) PROVE ReaderCloses(q)'
  <2>1. CASE q = p
    <3>1. half[q] # "open" /\ rpc'[q] \in {"drain", "end"}
      BY <1>1, <1>10, <2>1 DEF ReadEOF
    <3> QED BY <1>a, <3>1 DEF ReaderCloses, Reads
  <2>2. CASE q # p
    <3>1. rpc'[q] = rpc[q] /\ closing'[q] = closing[q] /\ cpc'[q] = cpc[q]
      BY <1>1, <1>10, <2>2 DEF ReadEOF
    <3> QED BY <1>a, <3>1 DEF ReaderCloses
  <2> QED BY <2>1, <2>2
<1>11. ASSUME NEW p \in Sides, DrainEnd(p) PROVE ReaderCloses(q)'
  <2>1. /\ rpc'[q] = "drain" => rpc[q] = "drain"
        /\ closing'[q] => closing[q]
        /\ cpc[q] # "idle" => cpc'[q] # "idle"
    BY <1>1, <1>11 DEF DrainEnd
  <2> QED BY <1>a, <2>1 DEF ReaderCloses
<1>12. ASSUME NEW p \in Sides, Write(p) PROVE ReaderCloses(q)'
  <2>1. /\ rpc'[q] = "drain" => rpc[q] = "drain"
        /\ closing'[q] => closing[q]
        /\ cpc[q] # "idle" => cpc'[q] # "idle"
    BY <1>1, <1>12 DEF Write
  <2> QED BY <1>a, <2>1 DEF ReaderCloses
<1>13. ASSUME NEW p \in Sides, Close(p) PROVE ReaderCloses(q)'
  <2>1. /\ rpc'[q] = rpc[q]
        /\ closing'[q] => closing[q] \/ cpc'[q] # "idle"
        /\ cpc[q] # "idle" => cpc'[q] # "idle"
    BY <1>1, <1>13 DEF Close
  <2> QED BY <1>a, <2>1 DEF ReaderCloses
<1>14. ASSUME NEW p \in Sides, CloseQueue(p) PROVE ReaderCloses(q)'
  <2>1. /\ rpc'[q] = "drain" => rpc[q] = "drain"
        /\ closing'[q] => closing[q]
        /\ cpc[q] # "idle" => cpc'[q] # "idle"
    BY <1>1, <1>14 DEF CloseQueue
  <2> QED BY <1>a, <2>1 DEF ReaderCloses
<1>15. ASSUME NEW p \in Sides, CloseWrite(p) PROVE ReaderCloses(q)'
  <2>1. /\ rpc'[q] = "drain" => rpc[q] = "drain"
        /\ closing'[q] => closing[q]
        /\ cpc[q] # "idle" => cpc'[q] # "idle"
    BY <1>1, <1>15 DEF CloseWrite
  <2> QED BY <1>a, <2>1 DEF ReaderCloses
<1>16. ASSUME NEW p \in Sides, CloseEnd(p) PROVE ReaderCloses(q)'
  <2>1. /\ rpc'[q] = "drain" => rpc[q] = "drain"
        /\ closing'[q] => closing[q]
        /\ cpc[q] # "idle" => cpc'[q] # "idle"
    BY <1>1, <1>16 DEF CloseEnd
  <2> QED BY <1>a, <2>1 DEF ReaderCloses
<1> QED
  BY <1>2, <1>3, <1>4, <1>5, <1>6, <1>7, <1>8, <1>9, <1>10, <1>11, <1>12, <1>13, <1>14, <1>15,
     <1>16 DEF Next, AppStep, ReaderStep, WriterStep, CloseStep, StreamStep

(* While a side waits for its peer to close nothing else ends it. *)
LEMMA StillOpen ==
    ASSUME TableInv, CloseInv, NEW q \in Sides, Graceful(q), ~closed[q]
    PROVE  /\ ~closed[Peer(q)] /\ half[Peer(q)] = "open" /\ half[q] # "reset" /\ Reads(Peer(q))
           /\ closing[q] => rpc[q] = "drain"
           /\ closing[Peer(q)] => cpc[Peer(q)] # "idle"
           /\ rpc[q] # "end"
<1>1. Peer(q) \in Sides
  BY PeerFacts
<1>2. /\ ~closed[Peer(q)] /\ half[Peer(q)] = "open" /\ half[q] # "reset"
  BY DEF CloseInv, PeerWaits, Waits
<1>3. ReaderCloses(q) /\ ReaderCloses(Peer(q))
  BY <1>1 DEF CloseInv, PeerWaits
<1>4. rpc[q] # "end" /\ rpc[Peer(q)] # "end"
  BY <1>1, <1>2 DEF TableInv, Staged
<1>5. rpc[q] \in {"read", "push", "drain", "end"} /\ rpc[Peer(q)] \in {"read", "push", "drain", "end"}
  BY <1>1 DEF TableInv, TypeOK, Each
<1>6. Reads(Peer(q))
  BY <1>2, <1>3, <1>4, <1>5 DEF ReaderCloses, Reads
<1>7. closing[q] => rpc[q] = "drain"
  BY <1>3, <1>4, <1>5 DEF ReaderCloses, Reads, Graceful
<1> QED BY <1>2, <1>3, <1>4, <1>6, <1>7 DEF ReaderCloses

(* The peer waits until this side has closed, *)
LEMMA OpenWaits ==
    ASSUME TableInv, StreamInv, CloseInv, Next, NEW q \in Sides, ~closed[q], Graceful(q)'
    PROVE  Waits(q)'
<1> USE DEF connVars, outVars, tableVars, readerVars, queueVars, streamVars, appVars, netVars
<1>0. /\ TypeOK
  BY DEF TableInv
<1>1. /\ closed \in [Sides -> BOOLEAN]
      /\ half \in [Sides -> {"open", "eof", "reset"}]
      /\ rpc \in [Sides -> {"read", "push", "drain", "end"}]
      /\ writer \in [Sides -> {"run", "marked", "end"}]
      /\ wire \in [Sides -> Seq([id : Ids, msg : Nat])]
      /\ closing \in [Sides -> BOOLEAN]
      /\ cpc \in [Sides -> {"idle", "mark", "flush", "peer", "done"}]
      /\ failures \in 0..MaxFailures
      /\ timeouts \in 0..MaxTimeouts
  BY DEF TableInv, TypeOK, Each, EachStream
<1>a. Graceful(q) /\ Waits(q) /\ ~closed[q] /\ MarkerQueued(Peer(q))
  BY NotGraceful, PeerFacts DEF CloseInv, PeerWaits, Marked
<1>b. Peer(q) \in Sides /\ Peer(q) # q /\ Peer(Peer(q)) = q
  BY PeerFacts
<1>c. /\ ~closed[Peer(q)] /\ half[Peer(q)] = "open" /\ half[q] # "reset" /\ Reads(Peer(q))
      /\ closing[q] => rpc[q] = "drain"
      /\ closing[Peer(q)] => cpc[Peer(q)] # "idle"
      /\ rpc[q] # "end"
  BY <1>a, StillOpen
<1>d. closing[Peer(q)] => closing'[Peer(q)]
  BY <1>b, ClosingStays
<1>e. \A p \in Sides : p = q \/ p = Peer(q)
  BY <1>b DEF Sides
<1>f. Graceful(q)' 
  OBVIOUS
<1>2. CASE NewStream
  <2>1. UNCHANGED <<closed, half, rpc, writer, wire, closing>>
    BY <1>2 DEF NewStream
  <2> QED BY <1>0, <1>a, <1>b, <2>1 DEF Waits, Reads
<1>3. CASE \E p \in Sides : CloseAllStreams(p) \/ CloseQueue(p)
  <2>1. UNCHANGED <<closed, half, rpc, writer, wire, closing>>
    BY <1>3 DEF CloseAllStreams, CloseQueue
  <2> QED BY <1>0, <1>a, <1>b, <2>1 DEF Waits, Reads
<1>4. CASE \E p \in Sides, i \in Ids : Send(p, i) \/ Enqueue(p, i) \/ SendClosed(p, i) \/
                                       CloseOpened(p, i) \/ CloseFin(p, i) \/
                                       ClosePeerStream(p, i) \/ CloseRemove(p, i) \/
                                       Recv(p, i) \/ DecodeTake(p, i) \/ Dispatch(p, i) \/
                                       DecodeFin(p, i) \/ DecodeEnd(p, i) \/ DrainFin(p, i)
  <2>1. UNCHANGED <<closed, half, rpc, writer, wire, closing>>
    BY <1>4
       DEF Send, Enqueue, SendClosed, CloseOpened, CloseFin, ClosePeerStream, CloseRemove, Recv,
           DecodeTake, Dispatch, DecodeFin, DecodeEnd, DrainFin
  <2> QED BY <1>0, <1>a, <1>b, <2>1 DEF Waits, Reads
<1>5. CASE Break
  <2>1. failures' # 0
    BY <1>1, <1>5, Constants DEF Break
  <2> QED BY <1>f, <2>1 DEF Graceful
<1>6. ASSUME NEW p \in Sides, ReadFin(p) PROVE Waits(q)'
  <2>1. UNCHANGED <<closed, half, writer, closing>>
    BY <1>6 DEF ReadFin
  <2>2. CASE q = p
    <3>1. rpc[q] = "read" /\ rpc'[q] \in {"read", "push"}
      BY <1>1, <1>6, <2>2 DEF ReadFin, ReadFrame
    <3> QED BY <1>a, <1>b, <2>1, <3>1 DEF Waits, Reads
  <2>3. CASE q # p
    <3>1. rpc'[q] = rpc[q] /\ wire'[q] = wire[q]
      BY <1>1, <1>6, <2>3 DEF ReadFin, ReadFrame
    <3> QED BY <1>a, <1>b, <2>1, <3>1 DEF Waits, Reads
  <2> QED BY <2>2, <2>3
<1>7. ASSUME NEW p \in Sides, ReadMessage(p) PROVE Waits(q)'
  <2>1. UNCHANGED <<closed, half, writer, closing>>
    BY <1>7 DEF ReadMessage
  <2>2. CASE q = p
    <3>1. rpc[q] = "read" /\ rpc'[q] \in {"read", "push"}
      BY <1>1, <1>7, <2>2 DEF ReadMessage, ReadFrame
    <3> QED BY <1>a, <1>b, <2>1, <3>1 DEF Waits, Reads
  <2>3. CASE q # p
    <3>1. rpc'[q] = rpc[q] /\ wire'[q] = wire[q]
      BY <1>1, <1>7, <2>3 DEF ReadMessage, ReadFrame
    <3> QED BY <1>a, <1>b, <2>1, <3>1 DEF Waits, Reads
  <2> QED BY <2>2, <2>3
<1>8. ASSUME NEW p \in Sides, Push(p) PROVE Waits(q)'
  <2>1. UNCHANGED <<closed, half, writer, closing, wire>>
    BY <1>8 DEF Push
  <2>2. rpc'[q] = rpc[q] \/ (Reads(q) /\ rpc'[q] = "read")
    BY <1>1, <1>8 DEF Push, Reads
  <2> QED BY <1>a, <1>b, <2>1, <2>2 DEF Waits, Reads
<1>9. ASSUME NEW p \in Sides, ReadError(p) PROVE Waits(q)'
  <2>1. FALSE
    BY <1>a, <1>c, <1>e, <1>9 DEF ReadError
  <2> QED BY <2>1
<1>10. ASSUME NEW p \in Sides, ReadEOF(p) PROVE Waits(q)'
  <2>1. q = p /\ ~closing[q]
    BY <1>c, <1>e, <1>10 DEF ReadEOF
  <2>2. /\ UNCHANGED <<closed, half, writer, wire>> /\ rpc'[q] = "drain"
        /\ half[q] = "eof" /\ wire[q] = <<>> /\ closing'[Peer(q)] = closing[Peer(q)]
    BY <1>1, <1>b, <1>10, <2>1 DEF ReadEOF
  <2>3. closing[Peer(q)]
    BY <1>a, <2>2 DEF Waits, MarkerQueued
  <2> QED BY <1>a, <1>b, <1>c, <2>2, <2>3 DEF Waits
<1>11. ASSUME NEW p \in Sides, DrainEnd(p) PROVE Waits(q)'
  <2>1. q = p
    BY <1>c, <1>e, <1>11 DEF DrainEnd, Reads
  <2>2. rpc[q] = "drain" /\ rpc'[q] = "end" /\ UNCHANGED closing
    BY <1>1, <1>11, <2>1 DEF DrainEnd
  <2>3. closed'[q]
    BY <1>0, <1>11, <2>1, MarkClosedFacts DEF DrainEnd
  <2>4. closing[Peer(q)]
    BY <1>a, <2>2 DEF Waits, Reads
  <2> QED BY <2>2, <2>3, <2>4 DEF Waits
<1>12. ASSUME NEW p \in Sides, Write(p) PROVE Waits(q)'
  <2>1. UNCHANGED <<rpc, closing>> /\ writer[p] = "run"
    BY <1>12 DEF Write
  <2>2. half[p] # "reset" /\ ~closed[Peer(p)]
    BY <1>a, <1>b, <1>c, <1>e
  <2>3. UNCHANGED <<closed, half>>
    BY <1>12, <2>2 DEF Write
  <2>4. writer[Peer(q)] = "marked" => writer'[Peer(q)] = "marked"
    BY <1>1, <1>b, <1>12, <2>2 DEF Write
  <2>5. rpc[q] = "drain" => wire'[q] = wire[q]
    <3>1. CASE p = Peer(q)
      BY <1>a, <2>1, <3>1 DEF Waits
    <3>2. CASE p = q
      BY <1>1, <1>b, <1>12, <2>2, <3>2 DEF Write
    <3> QED BY <1>e, <3>1, <3>2
  <2> QED BY <1>a, <1>b, <2>1, <2>3, <2>4, <2>5 DEF Waits, Reads
<1>13. ASSUME NEW p \in Sides, WriterEnd(p) PROVE Waits(q)'
  <2>1. FALSE
    BY <1>a, <1>c, <1>e, <1>13 DEF WriterEnd
  <2> QED BY <2>1
<1>14. ASSUME NEW p \in Sides, Close(p) PROVE Waits(q)'
  <2>1. p = Peer(q)
    <3>1. CASE p = q
      <4>1. cpc'[q] # "idle"
        BY <1>1, <1>14, <3>1 DEF Close
      <4> QED BY <1>f, <4>1 DEF Graceful
    <3> QED BY <1>e, <3>1
  <2>2. ~closing[Peer(q)]
    BY <1>c, <1>14, <2>1 DEF Close
  <2>3. UNCHANGED <<closed, half, rpc, writer, wire>>
    BY <1>14, <2>1, <2>2 DEF Close
  <2> QED BY <1>a, <1>b, <1>d, <2>3 DEF Waits, Reads
<1>15. ASSUME NEW p \in Sides, CloseWrite(p) PROVE Waits(q)'
  <2>1. p = Peer(q)
    BY <1>a, <1>e, <1>15 DEF CloseWrite, Graceful
  <2>2. UNCHANGED <<closed, rpc, writer, wire, closing>> /\ writer[Peer(q)] = "marked"
    BY <1>15, <2>1 DEF CloseWrite
  <2>3. half'[q] = "eof" /\ half'[Peer(q)] = half[Peer(q)]
    <3>1. half' = [half EXCEPT ![q] = IF half[q] = "open" THEN "eof" ELSE half[q]]
      BY <1>b, <1>15, <2>1 DEF CloseWrite
    <3>2. half[q] \in {"open", "eof", "reset"}
      BY <1>1
    <3> QED BY <1>1, <1>b, <1>c, <3>1, <3>2
  <2> QED BY <1>a, <1>b, <2>2, <2>3 DEF Waits, Reads
<1>16. ASSUME NEW p \in Sides, CloseEnd(p) PROVE Waits(q)'
  <2>1. p = Peer(q)
    BY <1>a, <1>e, <1>16 DEF CloseEnd, Graceful
  <2>2. timeouts' = timeouts + 1
    BY <1>c, <1>16, <2>1 DEF CloseEnd
  <2>3. timeouts' # 0
    BY <1>1, <2>2, Constants
  <2> QED BY <1>f, <2>3 DEF Graceful
<1> QED
  BY <1>2, <1>3, <1>4, <1>5, <1>6, <1>7, <1>8, <1>9, <1>10, <1>11, <1>12, <1>13, <1>14, <1>15,
     <1>16 DEF Next, AppStep, ReaderStep, WriterStep, CloseStep, StreamStep

(* ... and after it. *)
LEMMA NextWaits ==
    ASSUME TableInv, StreamInv, CloseInv, Next, NEW q \in Sides, Graceful(q)'
    PROVE  Waits(q)'
<1>1. CASE ~closed[q]
  BY <1>1, OpenWaits
<1>2. CASE closed[q]
  <2>1. Waits(q)
    BY NotGraceful DEF CloseInv, PeerWaits
  <2>2. rpc[q] = "end" /\ closing[Peer(q)]
    BY <1>2, <2>1 DEF Waits, Reads
  <2>3. closed'[q] /\ rpc'[q] = "end" /\ closing'[Peer(q)]
    BY <1>2, <2>2, ClosedStays, EndStays, ClosingStays, PeerFacts
  <2> QED BY <2>3 DEF Waits
<1> QED BY <1>1, <1>2

(* When the reader has come to the end of what its peer wrote, every       *)
(* message that was flushed is in a queue of its stream.                   *)
LEMMA EofQueued ==
    ASSUME TableInv, StreamInv, CloseInv, NEW q \in Sides, NEW j \in Ids, Graceful(q), Fresh(q, j),
           ReadEOF(q), NEW n \in 1..flushed[Peer(q)][j], ~(n <= Decoded(q, j))
    PROVE  \E k \in DOMAIN incoming[q][j] : incoming[q][j][k] = n
<1>0. TypeOK /\ InOrder(q, j) /\ Waits(q) /\ Behind(Peer(q), j) /\ Reads(q) /\ Peer(q) \in Sides
  BY PeerFacts DEF TableInv, StreamInv, Queued, CloseInv, PeerWaits, Marked, ReadEOF, Reads
<1>1. rpc[q] = "read" /\ ~closed[q] /\ wire[q] = <<>> /\ half[q] = "eof"
  BY DEF ReadEOF
<1>2. writer[Peer(q)] = "marked" /\ half[Peer(q)] # "reset"
  BY <1>0, <1>1 DEF Waits
<1>3. /\ flushed[Peer(q)][j] \in Nat /\ sent[Peer(q)][j] \in Nat
      /\ flushed[Peer(q)][j] <= sent[Peer(q)][j]
  BY <1>0 DEF TypeOK, EachStream, Behind
<1>4. Decoded(q, j) \in Nat /\ Len(incoming[q][j]) \in Nat
  BY <1>0, StreamNumbers
<1>5. n \in Nat \ {0} /\ n <= flushed[Peer(q)][j] /\ n <= sent[Peer(q)][j] /\ n > Decoded(q, j)
  BY <1>3, <1>4
<1>6. DOMAIN incoming[q][j] = 1..Len(incoming[q][j])
  <2>1. incoming[q][j] \in Seq(Numbers \cup {Fin})
    <3>1. incoming \in [Sides -> [Ids -> Seq(Numbers \cup {Fin})]]
      BY <1>0 DEF TypeOK, EachStream
    <3> QED BY <3>1
  <2> QED BY <2>1, SeqFacts
<1> DEFINE k == n - Decoded(q, j)
<1>7. k \in Nat /\ k > 0 /\ Decoded(q, j) + k = n
  BY <1>4, <1>5
<1> HIDE DEF k
<1>8. CASE ~HasFin(q, j)
  <2>1. Follows(q, j)
    BY <1>0, <1>8 DEF StreamInv, Flow
  <2>2. Taken(q, j) = Decoded(q, j) + Len(incoming[q][j])
    BY <1>1, <1>4 DEF Taken, Pushing
  <2>3. n <= Taken(q, j)
    <3>1. SUFFICES ASSUME n > Taken(q, j) PROVE FALSE
      BY <1>4, <1>5, <2>2
    <3>2. ~OnWire(q, j, n)
      BY <1>1 DEF OnWire
    <3>3. InOutbound(Peer(q), j, n)
      BY <1>2, <1>5, <2>1, <3>1, <3>2 DEF Follows
    <3>4. PICK l \in DOMAIN outbound[Peer(q)] : outbound[Peer(q)][l] = Frame(j, n)
      BY <3>3 DEF InOutbound
    <3>5. outbound[Peer(q)][l].id = j /\ outbound[Peer(q)][l].msg = n /\ n # Fin
      BY <1>5, <3>4, FrameFacts DEF Fin
    <3>6. n > flushed[Peer(q)][j]
      BY <1>0, <1>2, <3>5 DEF Behind
    <3> QED BY <1>3, <1>5, <3>6
  <2>4. k \in DOMAIN incoming[q][j]
    BY <1>4, <1>6, <1>7, <2>2, <2>3
  <2>5. incoming[q][j][k] # Fin
    BY <1>8, <2>4 DEF HasFin
  <2> QED BY <1>0, <1>7, <2>4, <2>5 DEF InOrder
<1>9. CASE HasFin(q, j)
  <2>1. FinEnds(q, j) /\ ~Pushing(q, j)
    BY <1>0, <1>1 DEF StreamInv, FinsFollow, Pushing
  <2>2. q = "server"
    BY <1>9, <2>1 DEF FinEnds, HasFin
  <2>3. Complete(j)
    BY <1>0, <2>2 DEF StreamInv, FinsComplete
  <2>4. decoder[q][j] # "fin"
    BY <1>4, <1>5, <2>2, <2>3, BothSides DEF Complete
  <2>5. PICK l \in DOMAIN incoming[q][j] : incoming[q][j][l] = Fin
    BY <1>9, <2>1, <2>4 DEF HasFin
  <2>6. Decoded(q, j) + l = sent[Peer(q)][j] + 1 /\ l \in Nat
    BY <1>6, <2>2, <2>3, <2>5, BothSides DEF Complete
  <2>7. k < l
    BY <1>3, <1>4, <1>5, <1>7, <2>6
  <2>8. k \in DOMAIN incoming[q][j]
    BY <1>4, <1>6, <1>7, <2>5, <2>6, <2>7
  <2>9. incoming[q][j][k] # Fin
    <3>1. SUFFICES ASSUME incoming[q][j][k] = Fin PROVE FALSE
      OBVIOUS
    <3>2. Decoded(q, j) + k = sent[Peer(q)][j] + 1
      BY <2>2, <2>3, <2>8, <3>1, BothSides DEF Complete
    <3> QED BY <1>3, <1>5, <1>7, <3>2
  <2> QED BY <1>0, <1>7, <2>8, <2>9 DEF InOrder
<1> QED BY <1>8, <1>9

(* closeByPeer waits for every stream that has something queued, *)
LEMMA EofDrains ==
    ASSUME TableInv, StreamInv, CloseInv, NEW q \in Sides, NEW j \in Ids, Graceful(q), Fresh(q, j),
           ReadEOF(q)
    PROVE  Draining(q, j)'
<1> USE DEF connVars, outVars, tableVars, readerVars, queueVars, streamVars, appVars, netVars
<1>0. TypeOK /\ InOrder(q, j) /\ Unborn /\ Left /\ Tabled /\ ~closing[q]
  <2>1. ~closed[q] /\ rpc[q] = "read"
    BY DEF ReadEOF
  <2>2. ~closing[q]
    BY <2>1, StillOpen
  <2> QED BY <2>2 DEF TableInv, StreamInv, Queued
<1>1. /\ toFin \in [Sides -> SUBSET Ids] /\ toDrain \in [Sides -> SUBSET Ids]
  BY <1>0 DEF TypeOK, Each
<1>2. /\ toFin'[q] = open[q] /\ toDrain'[q] = open[q]
      /\ UNCHANGED <<got, inbox, incoming, decoder, flushed>>
  BY <1>0, <1>1 DEF ReadEOF, StreamsToDrain
<1>3. \A n \in 1..flushed[Peer(q)][j] :
         n <= Decoded(q, j) \/ \E k \in DOMAIN incoming[q][j] : incoming[q][j][k] = n
  BY EofQueued
<1>4. ASSUME j \notin open[q]
      PROVE  /\ decoder[q][j] \in {"none", "select", "fin"}
             /\ decoder[q][j] # "fin" => incoming[q][j] = <<>>
  <2>1. CASE opened[q][j] = 0
    BY <1>0, <2>1 DEF Unborn
  <2>2. CASE opened[q][j] # 0
    <3>1. opened[q][j] \in Nat /\ opened[q][j] <= 1
      BY <1>0 DEF Tabled, NeverReopened, TypeOK, EachStream
    <3>2. opened[q][j] = 1
      BY <2>2, <3>1
    <3>3. done[q][j]
      BY <1>0, <1>4, <3>2 DEF Left
    <3> QED BY <1>0, <3>3 DEF InOrder
  <2> QED BY <2>1, <2>2
<1>5. Decoded(q, j)' = Decoded(q, j)
  BY <1>2 DEF Decoded
<1> QED BY <1>2, <1>3, <1>4, <1>5 DEF Draining

(* and goes on to wait for it. *)
LEMMA DrainGoesOn ==
    ASSUME TableInv, StreamInv, CloseInv, Next, NEW q \in Sides, NEW j \in Ids, Graceful(q)', closer'[q][j] = "idle", rpc[q] = "drain", rpc'[q] = "drain"
    PROVE  Draining(q, j)'
<1> USE DEF connVars, outVars, tableVars, readerVars, queueVars, streamVars, appVars, netVars
<1>0. /\ TypeOK
      /\ Framed
  BY DEF TableInv
<1>1. /\ got \in [Sides -> [Ids -> Seq(Numbers)]]
      /\ inbox \in [Sides -> [Ids -> Seq(Numbers)]]
      /\ incoming \in [Sides -> [Ids -> Seq(Numbers \cup {Fin})]]
      /\ decoder \in [Sides -> [Ids -> {"none", "select", "dispatch", "fin", "end"}]]
      /\ toFin \in [Sides -> SUBSET Ids]
      /\ toDrain \in [Sides -> SUBSET Ids]
      /\ flushed \in [Sides -> [Ids -> Nat]]
  BY DEF TableInv, TypeOK, Each, EachStream
<1>a. /\ Fresh(q, j) /\ InOrder(q, j) /\ Draining(q, j) /\ closing[Peer(q)] /\ Peer(q) \in Sides
  <2>1. Graceful(q) /\ Waits(q) /\ closer[q][j] = "idle" /\ Peer(q) \in Sides
    BY NotGraceful, ClosersStay, PeerFacts DEF CloseInv, PeerWaits
  <2>2. ~closed[q] /\ closing[Peer(q)]
    BY <2>1 DEF Waits, Reads
  <2> QED BY <2>1, <2>2 DEF Fresh, StreamInv, Queued, CloseInv, DrainsAll
<1>b. Fresh(q, j)'
  BY NextWaits DEF Waits, Fresh
<1>c. \/ Decoded(q, j)' = Decoded(q, j)
      \/ DecodeTake(q, j) /\ Decoded(q, j)' = Decoded(q, j) + 1
  BY <1>b, DecodedMoves
<1>d. Decoded(q, j) \in Nat
  BY <1>0, StreamNumbers
<1>2. CASE Break
  <2>1. UNCHANGED <<got, inbox, incoming, decoder, toFin, toDrain, flushed>>
    BY <1>2 DEF Break
  <2> QED BY <1>0, <1>a, <2>1 DEF Draining, Decoded
<1>3. CASE \E p \in Sides : CloseAllStreams(p) \/ ReadFin(p) \/ ReadError(p) \/ DrainEnd(p)
                            \/ Write(p) \/ WriterEnd(p) \/ Close(p) \/ CloseQueue(p) \/
                            CloseWrite(p) \/ CloseEnd(p)
  <2>1. UNCHANGED <<got, inbox, incoming, decoder, toFin, toDrain, flushed>>
    BY <1>3
       DEF CloseAllStreams, ReadFin, ReadError, DrainEnd, Write, WriterEnd, Close, CloseQueue,
           CloseWrite, CloseEnd
  <2> QED BY <1>0, <1>a, <2>1 DEF Draining, Decoded
<1>4. CASE \E p \in Sides, i \in Ids : Send(p, i) \/ SendClosed(p, i) \/ CloseOpened(p, i)
                                       \/ CloseFin(p, i) \/ ClosePeerStream(p, i) \/
                                       CloseRemove(p, i)
  <2>1. UNCHANGED <<got, inbox, incoming, decoder, toFin, toDrain, flushed>>
    BY <1>4 DEF Send, SendClosed, CloseOpened, CloseFin, ClosePeerStream, CloseRemove
  <2> QED BY <1>0, <1>a, <2>1 DEF Draining, Decoded
<1>5. CASE NewStream
  <2>1. Decoded(q, j)' = Decoded(q, j)
    <3>1. decoder'[q][j] = "dispatch" <=> decoder[q][j] = "dispatch"
      BY <1>5, Registers
    <3> QED BY <1>5, <3>1 DEF NewStream, Decoded
  <2>2. UNCHANGED <<incoming, toFin, toDrain, flushed>>
    BY <1>5 DEF NewStream
  <2>3. decoder'[q][j] = decoder[q][j] \/ (decoder[q][j] = "none" /\ decoder'[q][j] = "select")
    BY <1>5, Registers
  <2> QED BY <1>a, <2>1, <2>2, <2>3 DEF Draining
<1>6. ASSUME NEW p \in Sides, ReadMessage(p) PROVE Draining(q, j)'
  <2>1. Decoded(q, j)' = Decoded(q, j)
    <3>1. decoder'[q][j] = "dispatch" <=> decoder[q][j] = "dispatch"
      BY <1>6, Registers
    <3> QED BY <1>6, <3>1 DEF ReadMessage, Decoded
  <2>2. UNCHANGED <<incoming, toFin, toDrain, flushed>>
    BY <1>6 DEF ReadMessage
  <2>3. decoder'[q][j] = decoder[q][j] \/ (decoder[q][j] = "none" /\ decoder'[q][j] = "select")
    BY <1>6, Registers
  <2> QED BY <1>a, <2>1, <2>2, <2>3 DEF Draining
<1>7. ASSUME NEW p \in Sides, Push(p) PROVE Draining(q, j)'
  <2>1. q # p
    BY <1>7 DEF Push
  <2>2. incoming'[q][j] = incoming[q][j] /\ UNCHANGED <<got, inbox, decoder, toFin, toDrain, flushed>>
    <3>1. rframe[p].id \in Ids /\ incoming \in [Sides -> [Ids -> Seq(Numbers \cup {Fin})]]
      BY <1>0, <1>1, <1>7, PushedMessage
    <3>2. incoming' = incoming \/ incoming' = [incoming EXCEPT ![p][rframe[p].id] = Append(incoming[p][rframe[p].id], rframe[p].msg)]
      BY <1>7 DEF Push
    <3>3. incoming'[q][j] = incoming[q][j]
      BY <2>1, <3>1, <3>2
    <3> QED BY <1>7, <3>3 DEF Push
  <2> QED BY <1>a, <2>2 DEF Draining, Decoded
<1>8. ASSUME NEW p \in Sides, ReadEOF(p) PROVE Draining(q, j)'
  <2>1. q # p
    BY <1>8 DEF ReadEOF
  <2>2. /\ toFin'[q] = toFin[q] /\ toDrain'[q] = toDrain[q]
        /\ UNCHANGED <<got, inbox, incoming, decoder, flushed>>
    BY <1>1, <1>8, <2>1 DEF ReadEOF
  <2> QED BY <1>a, <2>2 DEF Draining, Decoded
<1>9. ASSUME NEW p \in Sides, NEW i \in Ids, Enqueue(p, i) PROVE Draining(q, j)'
  <2>1. flushed'[Peer(q)][j] = flushed[Peer(q)][j] /\ UNCHANGED <<got, inbox, incoming, decoder, toFin, toDrain>>
    BY <1>1, <1>a, <1>9 DEF Enqueue
  <2> QED BY <1>a, <2>1 DEF Draining, Decoded
<1>10. ASSUME NEW p \in Sides, NEW i \in Ids, Recv(p, i) PROVE Draining(q, j)'
  <2>1. Decoded(q, j)' = Decoded(q, j)
    <3>1. decoder'[q][j] # "dispatch" \/ decoder[q][j] = "dispatch"
      BY <1>1, <1>10 DEF Recv
    <3>2. ~DecodeTake(q, j) \/ Decoded(q, j)' = Decoded(q, j)
      BY <1>1, <3>1 DEF DecodeTake
    <3> QED BY <1>c, <3>2
  <2>2. UNCHANGED <<incoming, decoder, toFin, toDrain, flushed>>
    BY <1>10 DEF Recv
  <2> QED BY <1>a, <2>1, <2>2 DEF Draining
<1>11. ASSUME NEW p \in Sides, NEW i \in Ids, DecodeTake(p, i) PROVE Draining(q, j)'
  <2>1. CASE q = p /\ j = i
    <3>1. Takes(incoming[q][j], incoming'[q][j])
      <4> HIDE DEF Takes
      <4> QED BY <1>0, <1>11, <2>1, TakeStream
    <3>2. /\ UNCHANGED <<got, inbox, toFin, toDrain, flushed>> /\ decoder[q][j] = "select"
          /\ decoder'[q][j] = "dispatch" /\ incoming[q][j] # <<>> /\ incoming[q][j][1] # Fin
      BY <1>1, <1>11, <2>1, <3>1 DEF DecodeTake
    <3>3. j \in toDrain[q]
      BY <1>a, <3>2 DEF Draining
    <3>4. Decoded(q, j)' = Decoded(q, j) + 1
      <4>1. Len(got[q][j]) \in Nat /\ Len(inbox[q][j]) \in Nat
        BY <1>0, StreamNumbers
      <4> QED BY <3>2, <4>1 DEF Decoded
    <3>5. incoming[q][j][1] = Decoded(q, j) + 1
      BY <1>a, <3>1, <3>2 DEF InOrder
    <3>6. ASSUME NEW n \in 1..flushed[Peer(q)][j]
          PROVE  n <= Decoded(q, j)' \/ \E k \in DOMAIN incoming'[q][j] : incoming'[q][j][k] = n
      <4>1. CASE n <= Decoded(q, j)
        BY <1>d, <3>4, <4>1
      <4>2. CASE \E k \in DOMAIN incoming[q][j] : incoming[q][j][k] = n
        <5>1. PICK k \in DOMAIN incoming[q][j] : incoming[q][j][k] = n
          BY <4>2
        <5>2. CASE k = 1
          <6>1. n = Decoded(q, j)'
            BY <3>4, <3>5, <5>1, <5>2
          <6>2. Decoded(q, j)' \in Nat
            BY <1>d, <3>4
          <6> QED BY <6>1, <6>2
        <5>3. CASE k # 1
          BY <3>1, <5>1, <5>3
        <5> QED BY <5>2, <5>3
      <4> QED BY <1>a, <4>1, <4>2 DEF Draining
    <3> QED BY <1>a, <3>2, <3>3, <3>6 DEF Draining
  <2>2. CASE q # p \/ j # i
    <3>1. /\ incoming'[q][j] = incoming[q][j] /\ decoder'[q][j] = decoder[q][j]
          /\ UNCHANGED <<got, inbox, toFin, toDrain, flushed>>
      BY <1>1, <1>11, <2>2 DEF DecodeTake
    <3> QED BY <1>a, <3>1 DEF Draining, Decoded
  <2> QED BY <2>1, <2>2
<1>12. ASSUME NEW p \in Sides, NEW i \in Ids, Dispatch(p, i) PROVE Draining(q, j)'
  <2>1. Decoded(q, j)' = Decoded(q, j)
    <3>1. decoder'[q][j] # "dispatch" \/ decoder[q][j] = "dispatch"
      BY <1>1, <1>12 DEF Dispatch
    <3>2. ~DecodeTake(q, j) \/ Decoded(q, j)' = Decoded(q, j)
      BY <1>1, <3>1 DEF DecodeTake
    <3> QED BY <1>c, <3>2
  <2>2. UNCHANGED <<incoming, toFin, toDrain, flushed>>
    BY <1>12 DEF Dispatch
  <2>3. j \notin toDrain[q] => decoder'[q][j] = decoder[q][j]
    BY <1>1, <1>a, <1>12 DEF Dispatch, Draining
  <2> QED BY <1>a, <2>1, <2>2, <2>3 DEF Draining
<1>13. ASSUME NEW p \in Sides, NEW i \in Ids, DecodeFin(p, i) PROVE Draining(q, j)'
  <2>1. CASE q = p /\ j = i
    <3>1. Takes(incoming[q][j], incoming'[q][j])
      <4> HIDE DEF Takes
      <4> QED BY <1>0, <1>13, <2>1, TakeStream
    <3>2. /\ UNCHANGED <<got, inbox, toFin, toDrain, flushed>> /\ decoder[q][j] = "select"
          /\ decoder'[q][j] = "fin" /\ incoming[q][j][1] = Fin /\ 1 \in DOMAIN incoming[q][j]
      BY <1>1, <1>13, <2>1, <3>1 DEF DecodeFin
    <3>3. Decoded(q, j)' = Decoded(q, j)
      BY <3>2 DEF Decoded
    <3>4. \A k \in DOMAIN incoming[q][j] : incoming[q][j][k] = Fin
      BY <1>a, <3>1, <3>2 DEF InOrder
    <3>5. ASSUME NEW n \in 1..flushed[Peer(q)][j] PROVE n <= Decoded(q, j)
      <4>1. n # Fin
        BY DEF Fin
      <4> QED BY <1>a, <3>4, <4>1 DEF Draining
    <3> QED BY <1>a, <3>2, <3>3, <3>5 DEF Draining
  <2>2. CASE q # p \/ j # i
    <3>1. /\ incoming'[q][j] = incoming[q][j] /\ decoder'[q][j] = decoder[q][j]
          /\ UNCHANGED <<got, inbox, toFin, toDrain, flushed>>
      BY <1>1, <1>13, <2>2 DEF DecodeFin
    <3> QED BY <1>a, <3>1 DEF Draining, Decoded
  <2> QED BY <2>1, <2>2
<1>14. ASSUME NEW p \in Sides, NEW i \in Ids, DecodeEnd(p, i) PROVE Draining(q, j)'
  <2>1. ~(q = p /\ j = i)
    BY <1>a, <1>14 DEF DecodeEnd, InOrder, Fresh
  <2>2. decoder'[q][j] = decoder[q][j] /\ UNCHANGED <<got, inbox, incoming, toFin, toDrain, flushed>>
    BY <1>1, <1>14, <2>1 DEF DecodeEnd
  <2> QED BY <1>a, <2>2 DEF Draining, Decoded
<1>15. ASSUME NEW p \in Sides, NEW i \in Ids, DrainFin(p, i) PROVE Draining(q, j)'
  <2>1. /\ UNCHANGED <<got, inbox, decoder, toDrain, flushed>>
        /\ Decoded(q, j)' = Decoded(q, j) /\ (j \in toFin'[q] => j \in toFin[q])
    BY <1>1, <1>15 DEF DrainFin, Decoded
  <2>2. CASE q = p /\ j = i /\ incoming' # incoming
    <3>1. Appends(incoming[q][j], incoming'[q][j], Fin)
      <4>1. incoming' = [incoming EXCEPT ![q][j] = Append(incoming[q][j], Fin)]
        BY <1>15, <2>2 DEF DrainFin
      <4> HIDE DEF Appends
      <4> QED BY <1>0, <4>1, QueueStream
    <3>2. j \in toDrain[q]
      BY <1>a, <1>15, <2>2 DEF DrainFin, Draining
    <3>3. \A n : (\E k \in DOMAIN incoming[q][j] : incoming[q][j][k] = n)
                    => \E k \in DOMAIN incoming'[q][j] : incoming'[q][j][k] = n
      BY <3>1
    <3> HIDE DEF Appends
    <3> QED BY <1>a, <2>1, <3>2, <3>3 DEF Draining
  <2>3. CASE ~(q = p /\ j = i /\ incoming' # incoming)
    <3>1. incoming'[q][j] = incoming[q][j]
      BY <1>1, <1>15, <2>3 DEF DrainFin
    <3> QED BY <1>a, <2>1, <3>1 DEF Draining
  <2> QED BY <2>2, <2>3
<1> QED
  BY <1>2, <1>3, <1>4, <1>5, <1>6, <1>7, <1>8, <1>9, <1>10, <1>11, <1>12, <1>13, <1>14, <1>15
     DEF Next, AppStep, ReaderStep, WriterStep, CloseStep, StreamStep

(* What was drained stays, also for a Recv still to come. *)
LEMMA DrainedStays ==
    ASSUME TableInv, StreamInv, CloseInv, Next, NEW q \in Sides, NEW j \in Ids, Graceful(q)', closer'[q][j] = "idle", rpc[q] = "end"
    PROVE  Drained(q, j)'
<1> USE DEF connVars, outVars, tableVars, readerVars, queueVars, streamVars, appVars, netVars
<1>0. /\ TypeOK
      /\ Framed
  BY DEF TableInv
<1>1. /\ got \in [Sides -> [Ids -> Seq(Numbers)]]
      /\ inbox \in [Sides -> [Ids -> Seq(Numbers)]]
      /\ incoming \in [Sides -> [Ids -> Seq(Numbers \cup {Fin})]]
      /\ decoder \in [Sides -> [Ids -> {"none", "select", "dispatch", "fin", "end"}]]
      /\ flushed \in [Sides -> [Ids -> Nat]]
      /\ nextId \in 0..NStreams
  BY DEF TableInv, TypeOK, Each, EachStream
<1>a. /\ Drained(q, j) /\ closing[Peer(q)] /\ closed[q] /\ Peer(q) \in Sides
  <2>1. Graceful(q) /\ Waits(q) /\ closer[q][j] = "idle" /\ Peer(q) \in Sides
    BY NotGraceful, ClosersStay, PeerFacts DEF CloseInv, PeerWaits
  <2>2. closed[q] /\ closing[Peer(q)]
    BY <2>1 DEF TableInv, Staged, Waits, Reads
  <2> QED BY <2>1, <2>2 DEF CloseInv, DrainsAll
<1>2. CASE Break
  <2>1. UNCHANGED <<got, inbox, incoming, decoder, flushed>>
    BY <1>2 DEF Break
  <2> QED BY <1>0, <1>a, <2>1 DEF Drained
<1>3. CASE \E p \in Sides : CloseAllStreams(p) \/ ReadFin(p) \/ ReadError(p) \/ ReadEOF(p)
                            \/ DrainEnd(p) \/ Write(p) \/ WriterEnd(p) \/ Close(p) \/
                            CloseQueue(p) \/ CloseWrite(p) \/ CloseEnd(p)
  <2>1. UNCHANGED <<got, inbox, incoming, decoder, flushed>>
    BY <1>3
       DEF CloseAllStreams, ReadFin, ReadError, ReadEOF, DrainEnd, Write, WriterEnd, Close,
           CloseQueue, CloseWrite, CloseEnd
  <2> QED BY <1>0, <1>a, <2>1 DEF Drained
<1>4. CASE \E p \in Sides, i \in Ids : Send(p, i) \/ SendClosed(p, i) \/ CloseOpened(p, i)
                                       \/ CloseFin(p, i) \/ ClosePeerStream(p, i) \/
                                       CloseRemove(p, i)
  <2>1. UNCHANGED <<got, inbox, incoming, decoder, flushed>>
    BY <1>4 DEF Send, SendClosed, CloseOpened, CloseFin, ClosePeerStream, CloseRemove
  <2> QED BY <1>0, <1>a, <2>1 DEF Drained
<1>5. CASE NewStream
  <2>1. /\ got'[q][j] = got[q][j] /\ inbox'[q][j] = inbox[q][j] /\ incoming'[q][j] = incoming[q][j]
        /\ flushed'[Peer(q)][j] = flushed[Peer(q)][j] /\ decoder'[q][j] = decoder[q][j]
    <3>1. "client" \in Sides /\ nextId + 1 \in Ids /\ q \in {"client", "server"}
      BY <1>1, <1>5, Constants DEF NewStream, Sides, Ids
    <3>2. decoder'[q][j] = decoder[q][j]
      BY <1>0, <1>a, <1>5, <3>1, RegisterFacts DEF NewStream, CanRegister
    <3> QED BY <1>5, <3>2 DEF NewStream
  <2> QED BY <1>a, <2>1 DEF Drained
<1>6. ASSUME NEW p \in Sides, ReadMessage(p) PROVE Drained(q, j)'
  <2>1. /\ got'[q][j] = got[q][j] /\ inbox'[q][j] = inbox[q][j] /\ incoming'[q][j] = incoming[q][j]
        /\ flushed'[Peer(q)][j] = flushed[Peer(q)][j] /\ decoder'[q][j] = decoder[q][j]
    <3>1. q # p
      BY <1>6 DEF ReadMessage, ReadFrame
    <3>2. Head(wire[p]).id \in Ids
      BY <1>0, <1>6, ReadFrames DEF ReadMessage, Framed, Frames
    <3>3. decoder'[q][j] = decoder[q][j]
      BY <1>0, <1>6, <3>1, <3>2, RegisterFacts DEF ReadMessage
    <3> QED BY <1>6, <3>3 DEF ReadMessage
  <2> QED BY <1>a, <2>1 DEF Drained
<1>7. ASSUME NEW p \in Sides, Push(p) PROVE Drained(q, j)'
  <2>1. /\ got'[q][j] = got[q][j] /\ inbox'[q][j] = inbox[q][j] /\ incoming'[q][j] = incoming[q][j]
        /\ flushed'[Peer(q)][j] = flushed[Peer(q)][j] /\ decoder'[q][j] = decoder[q][j]
    <3>1. q # p
      BY <1>7 DEF Push
    <3>2. rframe[p].id \in Ids /\ incoming \in [Sides -> [Ids -> Seq(Numbers \cup {Fin})]]
      BY <1>0, <1>1, <1>7, PushedMessage
    <3>3. incoming' = incoming \/ incoming' = [incoming EXCEPT ![p][rframe[p].id] = Append(incoming[p][rframe[p].id], rframe[p].msg)]
      BY <1>7 DEF Push
    <3>4. incoming'[q][j] = incoming[q][j]
      BY <3>1, <3>2, <3>3
    <3> QED BY <1>7, <3>4 DEF Push
  <2> QED BY <1>a, <2>1 DEF Drained
<1>8. ASSUME NEW p \in Sides, NEW i \in Ids, Enqueue(p, i) PROVE Drained(q, j)'
  <2>1. /\ got'[q][j] = got[q][j] /\ inbox'[q][j] = inbox[q][j] /\ incoming'[q][j] = incoming[q][j]
        /\ flushed'[Peer(q)][j] = flushed[Peer(q)][j] /\ decoder'[q][j] = decoder[q][j]
    BY <1>1, <1>a, <1>8 DEF Enqueue
  <2> QED BY <1>a, <2>1 DEF Drained
<1>9. ASSUME NEW p \in Sides, NEW i \in Ids, Recv(p, i) PROVE Drained(q, j)'
  <2>1. CASE q = p /\ j = i
    <3>1. /\ Takes(inbox[q][j], inbox'[q][j]) /\ Len(inbox'[q][j]) = Len(inbox[q][j]) - 1
          /\ Appends(got[q][j], got'[q][j], inbox[q][j][1]) /\ Len(got'[q][j]) = Len(got[q][j]) + 1
      <4> HIDE DEF Takes, Appends
      <4> QED BY <1>0, <1>9, <2>1, RecvStream
    <3>2. UNCHANGED <<incoming, decoder, flushed>>
      BY <1>9 DEF Recv
    <3>3. Len(got[q][j]) \in Nat /\ Len(inbox[q][j]) \in Nat
      BY <1>0, StreamNumbers
    <3>4. Len(got'[q][j]) + Len(inbox'[q][j]) = Len(got[q][j]) + Len(inbox[q][j])
      <4>1. Len(inbox'[q][j]) = Len(inbox[q][j]) - 1 /\ Len(got'[q][j]) = Len(got[q][j]) + 1
        BY <3>1
      <4> HIDE DEF Takes, Appends
      <4> QED BY <3>3, <4>1, Sums
    <3>5. ASSUME NEW k \in DOMAIN got'[q][j] PROVE got'[q][j][k] = k
      <4>1. CASE k \in DOMAIN got[q][j]
        BY <1>a, <3>1, <4>1 DEF Drained
      <4>2. CASE k \notin DOMAIN got[q][j]
        <5>1. k = Len(got[q][j]) + 1 /\ got'[q][j][k] = inbox[q][j][1] /\ 1 \in DOMAIN inbox[q][j]
          BY <3>1, <3>3, <4>2
        <5>2. inbox[q][j][1] = Len(got[q][j]) + 1
          BY <1>a, <5>1 DEF Drained
        <5> QED BY <5>1, <5>2
      <4> QED BY <4>1, <4>2
    <3>6. ASSUME NEW k \in DOMAIN inbox'[q][j]
          PROVE  inbox'[q][j][k] = Len(got'[q][j]) + k
      <4>1. k \in Nat /\ k + 1 \in DOMAIN inbox[q][j] /\ inbox'[q][j][k] = inbox[q][j][k + 1]
        BY <3>1
      <4>2. inbox'[q][j][k] = Len(got[q][j]) + (k + 1)
        BY <1>a, <4>1 DEF Drained
      <4>3. Len(got'[q][j]) = Len(got[q][j]) + 1
        BY <3>1
      <4> HIDE DEF Takes, Appends
      <4>4. (Len(got[q][j]) + 1) + k = Len(got[q][j]) + (k + 1)
        BY <3>3, <4>1, Sums
      <4> QED BY <4>2, <4>3, <4>4
    <3> QED BY <1>a, <3>2, <3>4, <3>5, <3>6 DEF Drained
  <2>2. CASE q # p \/ j # i
    <3>1. /\ got'[q][j] = got[q][j] /\ inbox'[q][j] = inbox[q][j] /\ UNCHANGED <<incoming, decoder, flushed>>
      BY <1>1, <1>9, <2>2 DEF Recv
    <3> QED BY <1>a, <3>1 DEF Drained
  <2> QED BY <2>1, <2>2
<1>10. ASSUME NEW p \in Sides, NEW i \in Ids, DecodeTake(p, i) PROVE Drained(q, j)'
  <2>1. /\ got'[q][j] = got[q][j] /\ inbox'[q][j] = inbox[q][j] /\ incoming'[q][j] = incoming[q][j]
        /\ flushed'[Peer(q)][j] = flushed[Peer(q)][j] /\ decoder'[q][j] = decoder[q][j]
    <3>1. ~(q = p /\ j = i)
      BY <1>a, <1>10 DEF DecodeTake, Drained
    <3> QED BY <1>1, <1>10, <3>1 DEF DecodeTake
  <2> QED BY <1>a, <2>1 DEF Drained
<1>11. ASSUME NEW p \in Sides, NEW i \in Ids, Dispatch(p, i) PROVE Drained(q, j)'
  <2>1. /\ got'[q][j] = got[q][j] /\ inbox'[q][j] = inbox[q][j] /\ incoming'[q][j] = incoming[q][j]
        /\ flushed'[Peer(q)][j] = flushed[Peer(q)][j] /\ decoder'[q][j] = decoder[q][j]
    <3>1. ~(q = p /\ j = i)
      BY <1>a, <1>11 DEF Dispatch, Drained
    <3>2. UNCHANGED <<got, incoming, flushed>>
      BY <1>11 DEF Dispatch
    <3>3. decoder'[q][j] = decoder[q][j]
      BY <1>1, <1>11, <3>1 DEF Dispatch
    <3>4. \/ inbox' = inbox
          \/ inbox' = [inbox EXCEPT ![p][i] = Append(inbox[p][i], job[p][i])]
      BY <1>11 DEF Dispatch
    <3>5. inbox'[q][j] = inbox[q][j]
      <4>1. inbox \in [Sides -> [Ids -> Seq(Numbers)]]
        BY <1>1
      <4> HIDE DEF Appends, Takes
      <4> QED BY <3>1, <3>4, <4>1
    <3> QED BY <3>2, <3>3, <3>5
  <2> QED BY <1>a, <2>1 DEF Drained
<1>12. ASSUME NEW p \in Sides, NEW i \in Ids, DecodeFin(p, i) PROVE Drained(q, j)'
  <2>1. /\ got'[q][j] = got[q][j] /\ inbox'[q][j] = inbox[q][j] /\ incoming'[q][j] = incoming[q][j]
        /\ flushed'[Peer(q)][j] = flushed[Peer(q)][j] /\ decoder'[q][j] = decoder[q][j]
    <3>1. ~(q = p /\ j = i)
      BY <1>a, <1>12 DEF DecodeFin, Drained
    <3> QED BY <1>1, <1>12, <3>1 DEF DecodeFin
  <2> QED BY <1>a, <2>1 DEF Drained
<1>13. ASSUME NEW p \in Sides, NEW i \in Ids, DecodeEnd(p, i) PROVE Drained(q, j)'
  <2>1. UNCHANGED <<got, inbox, incoming, flushed>> /\ (decoder'[q][j] = decoder[q][j] \/ decoder'[q][j] = "end")
    BY <1>1, <1>13 DEF DecodeEnd
  <2> QED BY <1>a, <2>1 DEF Drained
<1>14. ASSUME NEW p \in Sides, NEW i \in Ids, DrainFin(p, i) PROVE Drained(q, j)'
  <2>1. /\ got'[q][j] = got[q][j] /\ inbox'[q][j] = inbox[q][j] /\ incoming'[q][j] = incoming[q][j]
        /\ flushed'[Peer(q)][j] = flushed[Peer(q)][j] /\ decoder'[q][j] = decoder[q][j]
    <3>1. q # p
      BY <1>14 DEF DrainFin
    <3> QED BY <1>1, <1>14, <3>1 DEF DrainFin
  <2> QED BY <1>a, <2>1 DEF Drained
<1> QED
  BY <1>2, <1>3, <1>4, <1>5, <1>6, <1>7, <1>8, <1>9, <1>10, <1>11, <1>12, <1>13, <1>14
     DEF Next, AppStep, ReaderStep, WriterStep, CloseStep, StreamStep

(* closeByPeer ends when every stream it waits for has come to its FIN. *)
LEMMA DrainEnds ==
    ASSUME TableInv, StreamInv, CloseInv, NEW q \in Sides, NEW j \in Ids, Graceful(q), Fresh(q, j),
           DrainEnd(q), timeouts' = 0
    PROVE  Drained(q, j)'
<1> USE DEF connVars, outVars, tableVars, readerVars, queueVars, streamVars, appVars, netVars
<1>0. TypeOK /\ InOrder(q, j) /\ Draining(q, j) /\ Peer(q) \in Sides
  <2>1. rpc[q] = "drain" /\ closer[q][j] = "idle"
    BY DEF DrainEnd, Fresh
  <2> QED BY <2>1, PeerFacts DEF TableInv, StreamInv, Queued, CloseInv, DrainsAll
<1>1. UNCHANGED <<got, inbox, incoming, decoder, flushed>>
  BY DEF DrainEnd
<1>2. \A i \in toDrain[q] : done[q][i]
  <2>1. timeouts \in 0..MaxTimeouts /\ MaxTimeouts \in Nat
    BY <1>0, Constants DEF TypeOK
  <2>2. timeouts' # timeouts + 1
    BY <2>1
  <2> QED BY <2>2 DEF DrainEnd
<1>3. /\ decoder[q][j] \in {"none", "select", "fin"}
      /\ \A k \in DOMAIN incoming[q][j] : incoming[q][j][k] = Fin
      /\ decoder[q][j] = "select" => incoming[q][j] = <<>>
  <2>1. CASE j \in toDrain[q]
    BY <1>0, <1>2, <2>1 DEF InOrder
  <2>2. CASE j \notin toDrain[q]
    <3>1. CASE decoder[q][j] = "fin"
      BY <1>0, <3>1 DEF InOrder
    <3>2. CASE decoder[q][j] # "fin"
      BY <1>0, <2>2, <3>2 DEF Draining
    <3> QED BY <3>1, <3>2
  <2> QED BY <2>1, <2>2
<1>4. ASSUME NEW n \in 1..flushed[Peer(q)][j] PROVE n <= Decoded(q, j)
  <2>1. n # Fin
    BY DEF Fin
  <2> QED BY <1>0, <1>3, <2>1 DEF Draining
<1>5. Decoded(q, j) = Len(got[q][j]) + Len(inbox[q][j]) /\ Decoded(q, j) \in Nat
  <2>1. Len(got[q][j]) \in Nat /\ Len(inbox[q][j]) \in Nat /\ Decoded(q, j) \in Nat
    BY <1>0, StreamNumbers
  <2>2. decoder[q][j] # "dispatch"
    BY <1>3
  <2>3. Decoded(q, j) = (Len(got[q][j]) + Len(inbox[q][j])) + 0
    BY <2>2 DEF Decoded
  <2>4. (Len(got[q][j]) + Len(inbox[q][j])) + 0 = Len(got[q][j]) + Len(inbox[q][j])
    BY <2>1
  <2> QED BY <2>1, <2>3, <2>4
<1>6. Decoded(q, j) >= flushed[Peer(q)][j]
  <2>1. flushed[Peer(q)][j] \in Nat
    BY <1>0 DEF TypeOK, EachStream
  <2>2. CASE flushed[Peer(q)][j] = 0
    <3>1. Decoded(q, j) \in Nat
      BY <1>5
    <3> HIDE DEF Decoded
    <3> QED BY <2>2, <3>1
  <2>3. CASE flushed[Peer(q)][j] # 0
    <3>1. flushed[Peer(q)][j] \in 1..flushed[Peer(q)][j]
      BY <2>1, <2>3
    <3>2. flushed[Peer(q)][j] <= Decoded(q, j)
      BY <1>4, <3>1
    <3> QED BY <1>5, <2>1, <3>2
  <2> QED BY <2>2, <2>3
<1> QED BY <1>0, <1>1, <1>3, <1>5, <1>6 DEF InOrder, Drained

(* Only the end of what the peer wrote sends the reader to wait, and only  *)
(* that, a failure or the end of the wait ends it.                         *)
LEMMA ReaderMoves ==
    ASSUME TypeOK, Next, NEW q \in Sides
    PROVE  /\ rpc'[q] = "drain" /\ rpc[q] # "drain" => ReadEOF(q)
           /\ rpc'[q] = "end" /\ rpc[q] # "end" => ReadError(q) \/ ReadEOF(q) \/ DrainEnd(q)
<1> USE DEF connVars, outVars, tableVars, readerVars, queueVars, streamVars, appVars, netVars
<1>1. rpc \in [Sides -> {"read", "push", "drain", "end"}]
  BY DEF TypeOK, Each
<1>2. CASE NewStream \/ Break
  BY <1>2 DEF NewStream, Break
<1>3. ASSUME NEW p \in Sides, AppStep(p) \/ WriterStep(p) \/ CloseStep(p) PROVE UNCHANGED rpc
  BY <1>3 DEF AppStep, WriterStep, CloseStep, Close, Send, Recv, CloseOpened, ClosePeerStream,
              Write, WriterEnd, CloseQueue, CloseWrite, CloseEnd, CloseAllStreams
<1>4. ASSUME NEW p \in Sides, NEW i \in Ids, StreamStep(p, i) PROVE UNCHANGED rpc
  BY <1>4 DEF StreamStep, Enqueue, SendClosed, CloseFin, CloseRemove, DecodeTake, Dispatch,
              DecodeFin, DecodeEnd
<1>5. ASSUME NEW p \in Sides, ReaderStep(p), rpc'[q] # rpc[q]
      PROVE  /\ rpc'[q] = "drain" => ReadEOF(q)
             /\ rpc'[q] = "end" => ReadError(q) \/ ReadEOF(q) \/ DrainEnd(q)
  <2>1. CASE ReadFin(p)
    BY <1>1, <1>5, <2>1 DEF ReadFin
  <2>2. CASE ReadMessage(p)
    BY <1>1, <1>5, <2>2 DEF ReadMessage
  <2>3. CASE Push(p)
    BY <1>1, <1>5, <2>3 DEF Push
  <2>4. CASE ReadError(p)
    <3>1. q = p /\ rpc'[q] = "end"
      BY <1>1, <1>5, <2>4 DEF ReadError
    <3> QED BY <2>4, <3>1
  <2>5. CASE ReadEOF(p)
    <3>1. q = p
      BY <1>1, <1>5, <2>5 DEF ReadEOF
    <3> QED BY <2>5, <3>1
  <2>6. CASE DrainEnd(p)
    <3>1. q = p /\ rpc'[q] = "end"
      BY <1>1, <1>5, <2>6 DEF DrainEnd
    <3> QED BY <2>6, <3>1
  <2>7. CASE \E i \in Ids : DrainFin(p, i)
    BY <1>5, <2>7 DEF DrainFin
  <2> QED BY <1>5, <2>1, <2>2, <2>3, <2>4, <2>5, <2>6, <2>7 DEF ReaderStep
<1> QED BY <1>2, <1>3, <1>4, <1>5 DEF Next

(* What closeByPeer waits for and has waited for, after every step. *)
LEMMA NextDrains ==
    ASSUME TableInv, StreamInv, CloseInv, Next, NEW q \in Sides, NEW j \in Ids,
           Graceful(q)', closer'[q][j] = "idle"
    PROVE  /\ rpc'[q] = "drain" => Draining(q, j)'
           /\ rpc'[q] = "end" => Drained(q, j)'
<1>1. Graceful(q) /\ closer[q][j] = "idle" /\ TypeOK /\ Waits(q)
  BY NotGraceful, ClosersStay DEF TableInv, CloseInv, PeerWaits
<1>2. ASSUME rpc'[q] = "drain" PROVE Draining(q, j)'
  <2>1. CASE rpc[q] = "drain"
    BY <1>2, <2>1, DrainGoesOn
  <2>2. CASE rpc[q] # "drain"
    <3>1. ReadEOF(q)
      BY <1>1, <1>2, <2>2, ReaderMoves
    <3>2. Fresh(q, j)
      BY <1>1, <3>1 DEF Fresh, ReadEOF
    <3> QED BY <1>1, <3>1, <3>2, EofDrains
  <2> QED BY <2>1, <2>2
<1>3. ASSUME rpc'[q] = "end" PROVE Drained(q, j)'
  <2>1. CASE rpc[q] = "end"
    BY <2>1, DrainedStays
  <2>2. CASE rpc[q] # "end"
    <3>1. ~closed[q] /\ half[q] # "reset" /\ (closing[q] => rpc[q] = "drain")
      <4>1. ~closed[q]
        BY <1>1, <2>2 DEF Waits
      <4> QED BY <1>1, <4>1, StillOpen
    <3>2. ~ReadError(q)
      BY <3>1 DEF ReadError
    <3>3. ~ReadEOF(q)
      <4> SUFFICES ASSUME ReadEOF(q) PROVE FALSE
        OBVIOUS
      <4>1. ~closing[q]
        BY <3>1 DEF ReadEOF
      <4>2. rpc'[q] = "drain"
        <5>1. rpc \in [Sides -> {"read", "push", "drain", "end"}]
          BY <1>1 DEF TypeOK, Each
        <5> QED BY <4>1, <5>1 DEF ReadEOF
      <4> QED BY <1>3, <4>2
    <3>4. DrainEnd(q)
      BY <1>1, <1>3, <2>2, <3>2, <3>3, ReaderMoves
    <3>5. timeouts' = 0
      BY DEF Graceful
    <3>6. Fresh(q, j)
      BY <1>1, <3>1 DEF Fresh
    <3> QED BY <1>1, <3>4, <3>5, <3>6, DrainEnds
  <2> QED BY <2>1, <2>2
<1> QED BY <1>2, <1>3

(* CloseInv holds at first, *)
LEMMA InitClose == Init => CloseInv
<1> SUFFICES ASSUME Init PROVE CloseInv
  OBVIOUS
<1>1. ASSUME NEW p \in Sides
      PROVE  /\ cpc[p] = "idle" /\ ~closing[p] /\ ~closed[p] /\ writer[p] = "run" /\ rpc[p] = "read"
             /\ outbound[p] = <<>> /\ half[p] = "open"
             /\ \A i \in Ids : flushed[p][i] = 0 /\ sent[p][i] = 0
  BY <1>1 DEF Init
<1>2. Marked
  BY <1>1 DEF Marked, MarkerQueued, Behind
<1>3. PeerWaits
  BY <1>1, PeerFacts DEF PeerWaits, ReaderCloses, Waits, Reads
<1>4. DrainsAll
  BY <1>1 DEF DrainsAll
<1> QED BY <1>2, <1>3, <1>4 DEF CloseInv

(* every step keeps it, *)
LEMMA NextClose == TableInv /\ StreamInv /\ CloseInv /\ Next => CloseInv'
<1> SUFFICES ASSUME TableInv, StreamInv, CloseInv, Next PROVE CloseInv'
  OBVIOUS
<1>1. Marked'
  BY NextMarkerQueued, NextBehind DEF Marked
<1>2. PeerWaits'
  BY NextReaderCloses, NextWaits DEF PeerWaits
<1>3. DrainsAll'
  BY NextDrains DEF DrainsAll
<1> QED BY <1>1, <1>2, <1>3 DEF CloseInv

(* ... and it holds while nothing happens. *)
LEMMA StutterClose == CloseInv /\ UNCHANGED vars => CloseInv'
<1> SUFFICES ASSUME CloseInv, UNCHANGED vars PROVE CloseInv'
  OBVIOUS
<1>1. /\ UNCHANGED <<closing, closed, cpc, outbound, writer, rpc, toFin, toDrain, incoming, inbox>>
      /\ UNCHANGED <<decoder, closer, wire, half, failures, timeouts, sent, flushed, got>>
  BY DEF vars, connVars, outVars, tableVars, readerVars, queueVars, streamVars, appVars, netVars
<1>2. Marked'
  BY <1>1 DEF CloseInv, Marked, MarkerQueued, Behind
<1>3. PeerWaits'
  BY <1>1 DEF CloseInv, PeerWaits, ReaderCloses, Graceful, Waits, Reads
<1>4. DrainsAll'
  <2> SUFFICES ASSUME NEW p \in Sides, NEW i \in Ids, Graceful(p)', closer'[p][i] = "idle"
               PROVE  /\ rpc'[p] = "drain" => Draining(p, i)'
                      /\ rpc'[p] = "end" => Drained(p, i)'
    BY DEF DrainsAll
  <2>1. /\ rpc[p] = "drain" => Draining(p, i)
        /\ rpc[p] = "end" => Drained(p, i)
    BY <1>1 DEF CloseInv, DrainsAll, Graceful
  <2>2. Decoded(p, i)' = Decoded(p, i)
    BY <1>1 DEF Decoded
  <2>3. Draining(p, i) => Draining(p, i)'
    BY <1>1, <2>2 DEF Draining
  <2>4. Drained(p, i) => Drained(p, i)'
    BY <1>1 DEF Drained
  <2> QED BY <1>1, <2>1, <2>3, <2>4
<1> QED BY <1>2, <1>3, <1>4 DEF CloseInv

(* Close flushes everything behind which it queues its marker, and waits   *)
(* until the peer's closeByPeer has passed it on to the streams.           *)
THEOREM CloseInvariant == Spec => []CloseInv
<1>1. Init => CloseInv
  BY InitClose
<1>2. TableInv /\ StreamInv /\ CloseInv /\ [Next]_vars => CloseInv'
  BY NextClose, StutterClose
<1> QED BY <1>1, <1>2, TableInvariant, StreamInvariant, PTL DEF Spec

(* CloseDelivers, for any number of streams and messages and every size of *)
(* the queues: a side that its peer's Connection.Close has closed, with no *)
(* timeout and no failure, has every message that was queued before that   *)
(* Close, in order, also for a Recv still to come.                         *)
THEOREM ConnCloseDeliversHolds == Spec => []CloseDelivers
<1>1. ASSUME TableInv, CloseInv PROVE CloseDelivers
  <2> SUFFICES ASSUME NEW p \in Sides, NEW i \in Ids, rpc[p] = "end", cpc[p] = "idle",
                      closer[p][i] = "idle", failures = 0, timeouts = 0
               PROVE  /\ Received(p, i) = UpTo(Len(Received(p, i)))
                      /\ Len(Received(p, i)) >= flushed[Peer(p)][i]
    BY DEF CloseDelivers
  <2>1. TypeOK /\ Drained(p, i)
    BY <1>1 DEF TableInv, CloseInv, DrainsAll, Graceful
  <2>2. /\ Received(p, i) = UpTo(Len(Received(p, i)))
        /\ Len(Received(p, i)) = Len(got[p][i]) + Len(inbox[p][i])
    BY <2>1, ReceivedInOrder DEF Drained
  <2> QED BY <2>1, <2>2 DEF Drained
<1> QED BY <1>1, TableInvariant, CloseInvariant, PTL
=============================================================================
