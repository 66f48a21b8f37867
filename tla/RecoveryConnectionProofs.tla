---------------------- MODULE RecoveryConnectionProofs ----------------------
(***************************************************************************)
(* Proofs about RecoveryConnection and ReplayBuffer, for every number of   *)
(* requests, sizes of frames, limits of the replay buffers, size of the    *)
(* queues and choice of who calls Close: the types, what Close delivers    *)
(* and whom it releases, and what the replay buffer keeps.                 *)
(*                                                                         *)
(* Three inductive invariants: ConnInv of all states, QuietInv on it of    *)
(* the states before a closeFlushTimeout timer has fired, and BufferInv of *)
(* the replay buffers.  The sum of the sizes in a buffer is a recursive    *)
(* function; SetInduction is the induction that its lemmas need.           *)
(***************************************************************************)
EXTENDS RecoveryConnection, SequenceTheorems, NaturalsInduction, WellFoundedInduction, TLAPS

-----------------------------------------------------------------------------
(* The inductive invariant of all states.                                  *)

(* 1 for a Send whose frame has no number yet. *)
Sending(p) == IF sender[p] = "verdict" THEN 1 ELSE 0

(* A request that the server has is in a queue, with the handler or has    *)
(* its reply numbered, so that no counter passes NRequests.                *)
Counts ==
    /\ nextSend["client"] + Sending("client") <= NRequests
    /\ nextSend["server"] + Sending("server") + inbox["server"] + incoming["server"]
          <= lastRecv["server"]

(* The frame of a Send is in outbound or held, and the marker behind it. *)
Pending(p) == cpc[p] = "flush" /\ ~marked[p]
Alone(p) == outbound[p] = IF Pending(p) THEN <<Marker>> ELSE <<>>
Queued(p, size) == outbound[p] = IF Pending(p) THEN <<size, Marker>> ELSE <<size>>

OneFrame(p) ==
    \/ sender[p] = "idle" /\ held[p] = <<>> /\ Alone(p)
    \/ /\ sender[p] = "verdict"
       /\ \E size \in Sizes(p) : \/ held[p] = <<size>> /\ Alone(p)
                                 \/ held[p] = <<>> /\ Queued(p, size)

(* The marker is queued by a Close and taken behind the last Send. *)
Closes(p) ==
    /\ marked[p] => cpc[p] \in {"flush", "peer"} /\ sender[p] = "idle"
    /\ cpc[p] = "peer" => marked[p]
    /\ cpc[p] # "idle" => closing[p]

(* Only what was sent is on the wire and only what was received is         *)
(* acknowledged.                                                           *)
Sent(p, f) ==
    /\ f.kind = "data" => f.n <= nextSend[Peer(p)]
    /\ f.kind = "ack" => f.n <= lastRecv[Peer(p)]
OnWire == \A p \in Sides : \A i \in DOMAIN wire[p] : Sent(p, wire[p][i])

(* A side receives what its peer has sent and acknowledges what it has     *)
(* received.                                                               *)
Bounds == \A p \in Sides : lastRecv[p] <= nextSend[Peer(p)] /\ lastAckSent[p] <= lastRecv[p]

Shape == \A p \in Sides : OneFrame(p) /\ Closes(p)

ConnInv == TypeOK /\ Counts /\ Shape /\ Bounds /\ OnWire

-----------------------------------------------------------------------------
(* The sides, sizes and sequences.                                         *)

(* The two sides. *)
LEMMA PeerFacts ==
    ASSUME NEW p \in Sides
    PROVE  /\ Peer(p) \in Sides /\ Peer(p) # p /\ Peer(Peer(p)) = p
           /\ \A s \in Sides : s = p \/ s = Peer(p)
BY DEF Sides, Peer

(* A frame has a positive size, so that it is not taken for the marker. *)
LEMMA SizeFacts ==
    ASSUME NEW p \in Sides
    PROVE  Sizes(p) \subseteq Nat \ {0}
BY RecoveryConnectionAssumption DEF Sizes

(* A sum with a smaller part is no larger. *)
LEMMA LessOfSum ==
    ASSUME NEW a \in Nat, NEW b \in Nat, NEW c \in Nat, NEW d \in Nat,
           NEW x \in Nat, NEW y \in Nat, NEW z \in Nat,
           a + b <= c + d, c + d + x + y <= z
    PROVE  a + b + x + y <= z
OBVIOUS

(* The frames that are left when the first one is taken. *)
LEMMA TailFacts ==
    ASSUME NEW S, NEW w \in Seq(S), w # <<>>
    PROVE  /\ Tail(w) \in Seq(S) /\ Head(w) \in S /\ Head(w) = w[1] /\ Len(w) \in Nat
           /\ Len(w) > 0 /\ Len(Tail(w)) = Len(w) - 1
           /\ \A i \in DOMAIN Tail(w) : i + 1 \in DOMAIN w /\ Tail(w)[i] = w[i + 1]
           /\ \A i \in DOMAIN w : i = 1 \/ (i - 1 \in DOMAIN Tail(w) /\ w[i] = Tail(w)[i - 1])
<1>1. /\ Tail(w) \in Seq(S) /\ Head(w) \in S /\ Head(w) = w[1] /\ Len(w) \in Nat
      /\ Len(w) > 0 /\ Len(Tail(w)) = Len(w) - 1
  OBVIOUS
<1>2. ASSUME NEW i \in DOMAIN Tail(w)
      PROVE  i + 1 \in DOMAIN w /\ Tail(w)[i] = w[i + 1]
  BY <1>1
<1>3. ASSUME NEW i \in DOMAIN w, i # 1
      PROVE  i - 1 \in DOMAIN Tail(w) /\ w[i] = Tail(w)[i - 1]
  <2>1. i \in 1..Len(w) /\ DOMAIN Tail(w) = 1..(Len(w) - 1)
    BY <1>1
  <2>2. i - 1 \in DOMAIN Tail(w) /\ (i - 1) + 1 = i
    BY <1>1, <1>3, <2>1
  <2> QED BY <1>2, <2>2
<1> QED BY <1>1, <1>2, <1>3

(* The frames that are there when one is added. *)
LEMMA AppendFacts ==
    ASSUME NEW S, NEW w \in Seq(S), NEW f \in S
    PROVE  /\ Append(w, f) \in Seq(S) /\ Len(Append(w, f)) = Len(w) + 1 /\ Len(w) \in Nat
           /\ Append(w, f) # <<>> /\ Append(w, f)[Len(w) + 1] = f
           /\ DOMAIN Append(w, f) = DOMAIN w \cup {Len(w) + 1}
           /\ \A i \in DOMAIN w : Append(w, f)[i] = w[i]
<1>1. /\ Append(w, f) \in Seq(S) /\ Len(Append(w, f)) = Len(w) + 1 /\ Len(w) \in Nat
      /\ Append(w, f)[Len(w) + 1] = f
  OBVIOUS
<1>2. Append(w, f) # <<>>
  BY <1>1
<1>3. DOMAIN Append(w, f) = DOMAIN w \cup {Len(w) + 1}
  BY <1>1
<1>4. \A i \in DOMAIN w : Append(w, f)[i] = w[i]
  OBVIOUS
<1> QED BY <1>1, <1>2, <1>3, <1>4

(* A frame with the marker behind it. *)
LEMMA TwoFrames ==
    ASSUME NEW s \in Nat
    PROVE  Append(<<s>>, Marker) = <<s, Marker>>
<1> DEFINE a == <<s>>
           b == <<s, Marker>>
           c == Append(a, Marker)
<1>1. /\ a \in Seq(Nat) /\ Len(a) = 1 /\ a[1] = s
      /\ b \in Seq(Nat) /\ Len(b) = 2 /\ b[1] = s /\ b[2] = Marker
  BY DEF Marker
<1>2. Marker \in Nat
  BY DEF Marker
<1> HIDE DEF a, b
<1>3. c \in Seq(Nat) /\ Len(c) = 2 /\ c[1] = s /\ c[2] = Marker
  <2>1. DOMAIN a = 1..1
    BY <1>1
  <2> QED BY <1>1, <1>2, <2>1, AppendFacts
<1> HIDE DEF c
<1>4. \A i \in 1..Len(c) : c[i] = b[i]
  BY <1>1, <1>3
<1>5. c = b
  BY <1>1, <1>3, <1>4, SeqEqual
<1> QED BY <1>5 DEF a, b, c

(* Every queue that outbound can be, and what is left of it. *)
LEMMA Shapes ==
    ASSUME NEW s \in Nat
    PROVE  /\ Append(<<>>, s) = <<s>>
           /\ Append(<<>>, Marker) = <<Marker>>
           /\ Head(<<s>>) = s /\ Tail(<<s>>) = <<>>
           /\ Head(<<s, Marker>>) = s /\ Tail(<<s, Marker>>) = <<Marker>>
           /\ Head(<<Marker>>) = Marker /\ Tail(<<Marker>>) = <<>>
           /\ <<s>> # <<>> /\ <<s, Marker>> # <<>> /\ <<Marker>> # <<>>
BY DEF Marker

(* Their types and lengths. *)
LEMMA ShapeTypes ==
    ASSUME NEW s \in Nat
    PROVE  /\ <<s>> \in Seq(Nat) /\ <<s, Marker>> \in Seq(Nat) /\ <<Marker>> \in Seq(Nat)
           /\ <<>> \in Seq(Nat)
           /\ Len(<<s>>) = 1 /\ Len(<<s, Marker>>) = 2 /\ Len(<<Marker>>) = 1 /\ Len(<<>>) = 0
BY DEF Marker

-----------------------------------------------------------------------------
(* What the operators on the transport do to the wire.                     *)

NetTypes == wire \in [Sides -> Seq(Frames)] /\ half \in [Sides -> {"open", "eof", "reset"}]

(* The wire of each side is as it was, empty, or has lost its first frame. *)
Drops == \A s \in Sides : \/ wire'[s] = wire[s] \/ wire'[s] = <<>>
                          \/ wire[s] # <<>> /\ wire'[s] = Tail(wire[s])

(* Closing an end drops frames and adds none. *)
LEMMA EndTransportDrops ==
    ASSUME NetTypes, NEW p \in Sides, NEW unread, EndTransport(p, unread)
    PROVE  NetTypes' /\ Drops
<1>1. Peer(p) \in Sides
  BY PeerFacts
<1>2. CASE /\ wire' = [wire EXCEPT ![p] = <<>>] /\ half' = [half EXCEPT ![Peer(p)] = "eof"]
  BY <1>1, <1>2 DEF NetTypes, Drops
<1>3. CASE /\ wire' = Each(<<>>) /\ half' = [half EXCEPT ![Peer(p)] = "reset"]
  BY <1>1, <1>3 DEF NetTypes, Drops, Each
<1> QED BY <1>2, <1>3 DEF EndTransport

(* ... nor does markClosed. *)
LEMMA MarkClosedDrops ==
    ASSUME NetTypes, NEW p \in Sides, NEW unread, MarkClosed(p, unread),
           closed \in [Sides -> BOOLEAN]
    PROVE  NetTypes' /\ Drops /\ closed' \in [Sides -> BOOLEAN]
<1>1. closed' \in [Sides -> BOOLEAN]
  BY DEF MarkClosed
<1>2. CASE EndTransport(p, unread)
  BY <1>1, <1>2, EndTransportDrops
<1>3. CASE UNCHANGED <<wire, half>>
  BY <1>1, <1>3 DEF NetTypes, Drops
<1> QED BY <1>2, <1>3 DEF MarkClosed

(* A frame that is put is added to the peer's wire or lost. *)
Puts(p, f) ==
    \A s \in Sides : \/ wire'[s] = wire[s] \/ wire'[s] = <<>>
                     \/ s = Peer(p) /\ wire'[s] = Append(wire[s], f)

(* What Put does to the wire. *)
LEMMA PutPuts ==
    ASSUME NetTypes, NEW p \in Sides, NEW f \in Frames, Put(p, f)
    PROVE  NetTypes' /\ Puts(p, f)
<1>1. Peer(p) \in Sides
  BY PeerFacts
<1>2. CASE UNCHANGED <<wire, half>>
  BY <1>2 DEF NetTypes, Puts
<1>3. CASE /\ wire' = [wire EXCEPT ![p] = <<>>] /\ half' = [half EXCEPT ![p] = "reset"]
  BY <1>3 DEF NetTypes, Puts
<1>4. CASE UNCHANGED half /\ wire' = [wire EXCEPT ![Peer(p)] = Append(@, f)]
  <2>1. Append(wire[Peer(p)], f) \in Seq(Frames)
    BY <1>1, AppendFacts DEF NetTypes
  <2> QED BY <1>1, <1>4, <2>1 DEF NetTypes, Puts
<1> QED BY <1>2, <1>3, <1>4 DEF Put

(* The numbers on the wire are kept by what drops frames or adds one,      *)
(* counters only growing.                                                  *)
Grow == \A s \in Sides : nextSend'[s] >= nextSend[s] /\ lastRecv'[s] >= lastRecv[s]

(* A number that was sent or received stays so. *)
LEMMA SentGrows ==
    ASSUME TypeOK, nextSend' \in [Sides -> Nat], lastRecv' \in [Sides -> Nat], Grow,
           NEW s \in Sides, NEW f \in Frames, Sent(s, f)
    PROVE  Sent(s, f)'
<1>1. Peer(s) \in Sides
  BY PeerFacts
<1>2. f.n \in Nat
  BY RecoveryConnectionAssumption DEF Frames
<1>3. nextSend[Peer(s)] \in Nat /\ lastRecv[Peer(s)] \in Nat
  BY <1>1, RecoveryConnectionAssumption DEF TypeOK
<1>4. nextSend'[Peer(s)] \in Nat /\ lastRecv'[Peer(s)] \in Nat
  BY <1>1
<1>5. nextSend'[Peer(s)] >= nextSend[Peer(s)] /\ lastRecv'[Peer(s)] >= lastRecv[Peer(s)]
  BY <1>1 DEF Grow
<1> QED BY <1>2, <1>3, <1>4, <1>5 DEF Sent

(* A frame is written whose number has been given out or received. *)
LEMMA OnWireGrows ==
    ASSUME TypeOK, OnWire, nextSend' \in [Sides -> Nat], lastRecv' \in [Sides -> Nat], Grow,
           NEW p \in Sides, NEW f \in Frames, Puts(p, f), Sent(Peer(p), f)'
    PROVE  OnWire'
<1> SUFFICES ASSUME NEW s \in Sides, NEW i \in DOMAIN wire'[s], NEW g, g = wire'[s][i]
             PROVE  Sent(s, g)'
  BY DEF OnWire, Sent
<1>1. wire[s] \in Seq(Frames)
  BY DEF TypeOK
<1>2. ASSUME i \in DOMAIN wire[s], g = wire[s][i]
      PROVE  Sent(s, g)'
  <2>1. g \in Frames
    BY <1>1, <1>2
  <2>2. Sent(s, g)
    BY <1>2 DEF OnWire
  <2> QED BY <2>1, <2>2, SentGrows
<1>3. CASE wire'[s] = wire[s]
  BY <1>2, <1>3
<1>4. CASE wire'[s] = <<>>
  BY <1>4
<1>5. CASE s = Peer(p) /\ wire'[s] = Append(wire[s], f)
  <2>1. i \in DOMAIN wire[s] \/ i = Len(wire[s]) + 1
    BY <1>1, <1>5, AppendFacts
  <2>2. CASE i = Len(wire[s]) + 1
    <3>1. g = f
      BY <1>1, <1>5, <2>2, AppendFacts
    <3> QED BY <1>5, <3>1
  <2>3. CASE i \in DOMAIN wire[s]
    <3>1. g = wire[s][i]
      BY <1>1, <1>5, <2>3, AppendFacts
    <3> QED BY <1>2, <2>3, <3>1
  <2> QED BY <2>1, <2>2, <2>3
<1> QED BY <1>3, <1>4, <1>5 DEF Puts

-----------------------------------------------------------------------------
(* What an action that leaves the variables alone keeps.                   *)

(* Senders, queues and closers are left alone: Shape. *)
LEMMA ShapeFrame ==
    ASSUME Shape, UNCHANGED <<sender, outbound, held, marked, cpc, closing>>
    PROVE  Shape'
BY DEF Shape, OneFrame, Closes, Alone, Queued, Pending

(* Counters and queues are left alone: Counts. *)
LEMMA CountsFrame ==
    ASSUME Counts, UNCHANGED <<sender, nextSend, lastRecv, incoming, inbox>>
    PROVE  Counts'
BY DEF Counts, Sending

(* Counters are left alone: Bounds. *)
LEMMA BoundsFrame ==
    ASSUME Bounds, UNCHANGED <<nextSend, lastRecv, lastAckSent>>
    PROVE  Bounds'
BY DEF Bounds

(* Frames are only dropped: OnWire. *)
LEMMA OnWireFrame ==
    ASSUME TypeOK, OnWire, Drops, UNCHANGED <<nextSend, lastRecv>>
    PROVE  OnWire'
<1> SUFFICES ASSUME NEW s \in Sides, NEW i \in DOMAIN wire'[s], NEW g, g = wire'[s][i]
             PROVE  Sent(s, g)'
  BY DEF OnWire, Sent
<1>1. CASE wire'[s] = wire[s]
  <2>1. Sent(s, g)
    BY <1>1 DEF OnWire
  <2> QED BY <2>1 DEF Sent
<1>2. CASE wire'[s] = <<>>
  BY <1>2
<1>3. CASE wire[s] # <<>> /\ wire'[s] = Tail(wire[s])
  <2>1. wire[s] \in Seq(Frames)
    BY DEF TypeOK
  <2>2. i + 1 \in DOMAIN wire[s] /\ g = wire[s][i + 1]
    BY <1>3, <2>1, TailFacts
  <2>3. Sent(s, g)
    BY <2>2 DEF OnWire
  <2> QED BY <2>3 DEF Sent
<1> QED BY <1>1, <1>2, <1>3 DEF Drops

(* Counters are natural numbers. *)
LEMMA CounterTypes ==
    ASSUME TypeOK
    PROVE  /\ nextSend \in [Sides -> Nat] /\ lastRecv \in [Sides -> Nat]
           /\ lastAckSent \in [Sides -> Nat]
           /\ incoming \in [Sides -> Nat] /\ inbox \in [Sides -> Nat]
BY RecoveryConnectionAssumption DEF TypeOK

-----------------------------------------------------------------------------
(* The frame of a Send.                                                    *)

(* An idle sender puts its frame into outbound, which had at most the      *)
(* marker.                                                                 *)
LEMMA EnqueueShape ==
    ASSUME ConnInv, NEW p \in Sides, sender[p] = "idle", Enqueue(p),
           UNCHANGED <<held, marked, cpc, closing>>
    PROVE  /\ sender' \in [Sides -> {"idle", "verdict"}]
           /\ outbound' \in [Sides -> Seq(Nat)] /\ \A s \in Sides : Len(outbound'[s]) <= 2
           /\ Shape'
<1>1. PICK size \in Sizes(p) : outbound' = [outbound EXCEPT ![p] = Append(@, size)]
  BY DEF Enqueue
<1>2. size \in Nat \ {0}
  BY SizeFacts
<1>3. ~Pending(p) /\ held[p] = <<>> /\ outbound[p] = <<>>
  BY DEF ConnInv, Shape, Closes, Enqueue, Pending, OneFrame, Alone
<1>4. sender' = [sender EXCEPT ![p] = "verdict"]
  BY DEF Enqueue
<1>5. outbound' = [outbound EXCEPT ![p] = <<size>>]
  BY <1>1, <1>2, <1>3, Shapes DEF ConnInv, TypeOK
<1>6. <<size>> \in Seq(Nat) /\ Len(<<size>>) = 1
  BY <1>2, ShapeTypes
<1>7. sender' \in [Sides -> {"idle", "verdict"}]
  BY <1>4 DEF ConnInv, TypeOK
<1>8. outbound' \in [Sides -> Seq(Nat)] /\ \A s \in Sides : Len(outbound'[s]) <= 2
  BY <1>5, <1>6 DEF ConnInv, TypeOK
<1>9. ASSUME NEW s \in Sides PROVE OneFrame(s)' /\ Closes(s)'
  <2>1. CASE s = p
    <3>1. sender'[p] = "verdict" /\ outbound'[p] = <<size>>
      BY <1>4, <1>5 DEF ConnInv, TypeOK
    <3>2. ~Pending(p)' /\ held'[p] = <<>>
      BY <1>3 DEF Pending
    <3>3. OneFrame(p)'
      BY <3>1, <3>2 DEF OneFrame, Queued
    <3>4. ~marked[p]
      BY DEF ConnInv, Shape, Closes, Enqueue
    <3>5. Closes(p)'
      BY <3>4 DEF ConnInv, Shape, Closes
    <3> QED BY <2>1, <3>3, <3>5
  <2>2. CASE s # p
    <3>1. sender'[s] = sender[s] /\ outbound'[s] = outbound[s]
      BY <1>4, <1>5, <2>2 DEF ConnInv, TypeOK
    <3> QED BY <3>1 DEF ConnInv, Shape, OneFrame, Closes, Alone, Queued, Pending
  <2> QED BY <2>1, <2>2
<1> QED BY <1>7, <1>8, <1>9 DEF Shape

(* The client's Send. *)
LEMMA SendRequestKeeps ==
    ASSUME ConnInv, SendRequest
    PROVE  ConnInv'
<1> USE DEF SendRequest, closeVars, netVars, readerVars, queueVars
<1>1. "client" \in Sides /\ "server" \in Sides
  BY DEF Sides
<1>2. /\ sender' \in [Sides -> {"idle", "verdict"}]
      /\ outbound' \in [Sides -> Seq(Nat)] /\ \A s \in Sides : Len(outbound'[s]) <= 2
      /\ Shape'
  BY <1>1, EnqueueShape
<1>3. TypeOK'
  BY <1>2 DEF ConnInv, TypeOK
<1>4. Counts'
  <2>1. sender' = [sender EXCEPT !["client"] = "verdict"]
    BY DEF Enqueue
  <2>2. Sending("client") = 0 /\ Sending("client")' = 1 /\ Sending("server")' = Sending("server")
    BY <1>1, <2>1 DEF Sending, ConnInv, TypeOK
  <2>3. nextSend["client"] \in Nat
    BY <1>1, CounterTypes DEF ConnInv
  <2> QED BY <2>2, <2>3, RecoveryConnectionAssumption DEF ConnInv, Counts
<1>5. Bounds'
  BY BoundsFrame DEF ConnInv
<1>6. OnWire'
  BY OnWireFrame DEF ConnInv, Drops
<1> QED BY <1>2, <1>3, <1>4, <1>5, <1>6 DEF ConnInv

(* The client's Recv. *)
LEMMA RecvKeeps ==
    ASSUME ConnInv, Recv
    PROVE  ConnInv'
<1> USE DEF Recv, closeVars, netVars, readerVars, writerVars
<1>1. "client" \in Sides /\ "server" \in Sides
  BY DEF Sides
<1>2. inbox' \in [Sides -> 0..QueueSize] /\ inbox'["server"] = inbox["server"]
  <2>1. inbox["client"] - 1 \in 0..QueueSize
    <3>1. inbox["client"] \in 0..QueueSize
      BY <1>1 DEF ConnInv, TypeOK
    <3> QED BY <3>1, RecoveryConnectionAssumption
  <2> QED BY <1>1, <2>1 DEF ConnInv, TypeOK
<1>3. TypeOK'
  BY <1>2 DEF ConnInv, TypeOK
<1>4. Counts'
  BY <1>2 DEF ConnInv, Counts, Sending
<1>5. Shape' /\ Bounds' /\ OnWire'
  BY ShapeFrame, BoundsFrame, OnWireFrame DEF ConnInv, Drops
<1> QED BY <1>3, <1>4, <1>5 DEF ConnInv

(* The handler's reply takes the place of its request in Counts. *)
LEMMA HandleKeeps ==
    ASSUME ConnInv, Handle
    PROVE  ConnInv'
<1> USE DEF Handle, closeVars, netVars, readerVars
<1>1. "client" \in Sides /\ "server" \in Sides
  BY DEF Sides
<1>2. /\ sender' \in [Sides -> {"idle", "verdict"}]
      /\ outbound' \in [Sides -> Seq(Nat)] /\ \A s \in Sides : Len(outbound'[s]) <= 2
      /\ Shape'
  <2>1. CASE Enqueue("server")
    BY <1>1, <2>1, EnqueueShape
  <2>2. CASE UNCHANGED <<sender, outbound>>
    BY <2>2, ShapeFrame DEF ConnInv, TypeOK
  <2> QED BY <2>1, <2>2
<1>3. inbox' \in [Sides -> 0..QueueSize] /\ inbox'["server"] = inbox["server"] - 1
  <2>1. inbox["server"] - 1 \in 0..QueueSize
    <3>1. inbox["server"] \in 0..QueueSize
      BY <1>1 DEF ConnInv, TypeOK
    <3> QED BY <3>1, RecoveryConnectionAssumption
  <2> QED BY <1>1, <2>1 DEF ConnInv, TypeOK
<1>4. TypeOK'
  BY <1>2, <1>3 DEF ConnInv, TypeOK
<1>5. Counts'
  <2>1. /\ Sending("client")' = Sending("client")
        /\ Sending("server") = 0 /\ Sending("server")' \in {0, 1}
    <3>1. sender' = sender \/ sender' = [sender EXCEPT !["server"] = "verdict"]
      BY DEF Enqueue
    <3> QED BY <1>1, <3>1 DEF Sending, ConnInv, TypeOK
  <2>2. /\ nextSend["server"] \in Nat /\ inbox["server"] \in Nat /\ incoming["server"] \in Nat
        /\ lastRecv["server"] \in Nat
    BY <1>1, CounterTypes DEF ConnInv
  <2> QED BY <1>3, <2>1, <2>2 DEF ConnInv, Counts
<1>6. Bounds' /\ OnWire'
  BY BoundsFrame, OnWireFrame DEF ConnInv, Drops
<1> QED BY <1>2, <1>4, <1>5, <1>6 DEF ConnInv

-----------------------------------------------------------------------------
(* The writer.                                                             *)

(* A frame that is staged leaves outbound without it, wherever it was. *)
LEMMA StageKeeps ==
    ASSUME ConnInv, NEW p \in Sides, NEW size \in Sizes(p), sender[p] = "verdict",
           Stage(p, size), Alone(p)', outbound' \in [Sides -> Seq(Nat)],
           \A s \in Sides : s # p => outbound'[s] = outbound[s],
           UNCHANGED <<lastAckSent, marked, readerVars, queueVars, closeVars, attached>>
    PROVE  ConnInv'
<1> USE DEF readerVars, queueVars, closeVars
<1> DEFINE q == Peer(p)
<1>p. q \in Sides /\ q # p /\ Peer(q) = p /\ \A s \in Sides : s = p \/ s = q
  BY PeerFacts
<1>t. /\ sender \in [Sides -> {"idle", "verdict"}] /\ held \in [Sides -> Seq(Nat)]
      /\ nextSend \in [Sides -> Nat] /\ lastRecv \in [Sides -> Nat]
  BY CounterTypes DEF ConnInv, TypeOK
<1>z. size \in Nat \ {0} /\ <<size>> \in Seq(Nat) /\ Len(<<size>>) = 1
  BY SizeFacts, ShapeTypes
<1>m. ~marked[p]
  BY DEF ConnInv, Shape, Closes
<1> HIDE DEF q
<1>1. \/ /\ sender' = [sender EXCEPT ![p] = "idle"] /\ held' = [held EXCEPT ![p] = <<>>]
         /\ nextSend' = nextSend
      \/ /\ sender' = sender /\ held' = [held EXCEPT ![p] = <<size>>]
         /\ nextSend' = nextSend
      \/ /\ sender' = [sender EXCEPT ![p] = "idle"] /\ held' = [held EXCEPT ![p] = <<>>]
         /\ nextSend' = [nextSend EXCEPT ![p] = @ + 1]
  BY DEF Stage
<1>2. /\ sender' \in [Sides -> {"idle", "verdict"}] /\ held' \in [Sides -> Seq(Nat)]
      /\ \A s \in Sides : s # p => sender'[s] = sender[s] /\ held'[s] = held[s]
      /\ \/ sender'[p] = "idle" /\ held'[p] = <<>>
         \/ sender'[p] = "verdict" /\ held'[p] = <<size>>
  <2>1. CASE sender' = [sender EXCEPT ![p] = "idle"] /\ held' = [held EXCEPT ![p] = <<>>]
    <3>1. <<>> \in Seq(Nat)
      OBVIOUS
    <3>2. held' \in [Sides -> Seq(Nat)] /\ held'[p] = <<>>
          /\ \A s \in Sides : s # p => held'[s] = held[s]
      BY <1>t, <2>1, <3>1
    <3>3. sender' \in [Sides -> {"idle", "verdict"}] /\ sender'[p] = "idle"
          /\ \A s \in Sides : s # p => sender'[s] = sender[s]
      BY <1>t, <2>1
    <3> QED BY <3>2, <3>3
  <2>2. CASE sender' = sender /\ held' = [held EXCEPT ![p] = <<size>>]
    <3>1. held' \in [Sides -> Seq(Nat)] /\ held'[p] = <<size>>
          /\ \A s \in Sides : s # p => held'[s] = held[s]
      BY <1>t, <1>z, <2>2
    <3> QED BY <1>t, <2>2, <3>1
  <2> QED BY <1>1, <2>1, <2>2
<1>3. Shape'
  <2>1. OneFrame(p)'
    BY <1>2 DEF OneFrame
  <2>2. Closes(p)'
    BY <1>m DEF ConnInv, Shape, Closes
  <2>3. OneFrame(q)' /\ Closes(q)'
    <3>1. sender'[q] = sender[q] /\ held'[q] = held[q] /\ outbound'[q] = outbound[q]
      BY <1>2, <1>p
    <3> QED BY <1>p, <3>1 DEF ConnInv, Shape, OneFrame, Closes, Alone, Queued, Pending
  <2> QED BY <1>p, <2>1, <2>2, <2>3 DEF Shape
<1>4. /\ nextSend' \in [Sides -> Nat]
      /\ \A s \in Sides : s # p => nextSend'[s] = nextSend[s] /\ Sending(s)' = Sending(s)
      /\ nextSend'[p] >= nextSend[p]
      /\ nextSend'[p] + Sending(p)' <= nextSend[p] + Sending(p)
  <2>1. /\ nextSend' \in [Sides -> Nat] /\ nextSend'[p] >= nextSend[p]
        /\ \A s \in Sides : s # p => nextSend'[s] = nextSend[s]
    <3>1. nextSend[p] \in Nat /\ nextSend[p] + 1 \in Nat
      BY <1>t
    <3>2. CASE nextSend' = nextSend
      BY <1>t, <3>1, <3>2
    <3>3. CASE nextSend' = [nextSend EXCEPT ![p] = @ + 1]
      BY <1>t, <3>1, <3>3
    <3> QED BY <1>1, <3>2, <3>3
  <2>2. \A s \in Sides : s # p => Sending(s)' = Sending(s)
    BY <1>2 DEF Sending
  <2>3. nextSend'[p] + Sending(p)' <= nextSend[p] + Sending(p)
    <3>1. nextSend[p] \in Nat /\ Sending(p) = 1
      BY <1>t DEF Sending
    <3>2. \/ sender'[p] = "idle" /\ nextSend'[p] \in {nextSend[p], nextSend[p] + 1}
          \/ sender'[p] = "verdict" /\ nextSend'[p] = nextSend[p]
      BY <1>1, <1>t
    <3> QED BY <3>1, <3>2 DEF Sending
  <2> QED BY <2>1, <2>2, <2>3
<1>5. Counts'
  <2>1. "client" \in Sides /\ "server" \in Sides
    BY DEF Sides
  <2>2. \A s \in Sides : nextSend[s] \in Nat /\ nextSend'[s] \in Nat
                         /\ Sending(s) \in Nat /\ Sending(s)' \in Nat
    BY <1>t, <1>4 DEF Sending
  <2>3. ASSUME NEW s \in Sides
        PROVE  nextSend'[s] + Sending(s)' <= nextSend[s] + Sending(s)
    <3>1. CASE s = p
      BY <1>4, <3>1
    <3>2. CASE s # p
      <4>1. nextSend[s] + Sending(s) \in Nat
        BY <2>2
      <4>2. nextSend'[s] + Sending(s)' = nextSend[s] + Sending(s)
        BY <1>4, <3>2
      <4> QED BY <4>1, <4>2
    <3> QED BY <3>1, <3>2
  <2>4. /\ inbox["server"] \in Nat /\ incoming["server"] \in Nat /\ lastRecv["server"] \in Nat
    BY <2>1, CounterTypes DEF ConnInv
  <2>5. nextSend'["client"] + Sending("client")' <= NRequests
    <3>1. nextSend'["client"] + Sending("client")' <= nextSend["client"] + Sending("client")
      BY <2>1, <2>3
    <3>2. nextSend["client"] + Sending("client") <= NRequests
      BY DEF ConnInv, Counts
    <3>3. /\ nextSend["client"] + Sending("client") \in Nat /\ NRequests \in Nat
          /\ nextSend'["client"] + Sending("client")' \in Nat
      BY <2>1, <2>2, RecoveryConnectionAssumption
    <3> QED BY <3>1, <3>2, <3>3
  <2>6. nextSend'["server"] + Sending("server")' + inbox["server"] + incoming["server"]
           <= lastRecv["server"]
    <3>1. nextSend'["server"] + Sending("server")' <= nextSend["server"] + Sending("server")
      BY <2>1, <2>3
    <3>2. nextSend["server"] + Sending("server") + inbox["server"] + incoming["server"]
           <= lastRecv["server"]
      BY DEF ConnInv, Counts
    <3>3. /\ nextSend["server"] \in Nat /\ nextSend'["server"] \in Nat
          /\ Sending("server") \in Nat /\ Sending("server")' \in Nat
      BY <2>1, <2>2
    <3> QED BY <2>4, <3>1, <3>2, <3>3, LessOfSum
  <2> QED BY <2>5, <2>6 DEF Counts
<1>6. Bounds'
  <2>1. lastRecv[q] <= nextSend[p] /\ lastRecv[p] <= nextSend[q]
        /\ lastAckSent[p] <= lastRecv[p] /\ lastAckSent[q] <= lastRecv[q]
    BY <1>p DEF ConnInv, Bounds, q
  <2>2. /\ nextSend'[q] = nextSend[q] /\ nextSend'[p] >= nextSend[p]
        /\ nextSend[p] \in Nat /\ nextSend'[p] \in Nat /\ lastRecv[q] \in Nat
    BY <1>4, <1>p, <1>t
  <2>3. lastRecv[q] <= nextSend'[p]
    BY <2>1, <2>2
  <2> QED BY <1>p, <2>1, <2>2, <2>3 DEF Bounds, q
<1>7. nextSend' \in [Sides -> 0..NRequests]
  <2>1. "client" \in Sides /\ "server" \in Sides /\ Sides = {"client", "server"}
        /\ Peer("server") = "client"
    BY DEF Sides, Peer
  <2>2. /\ nextSend'["client"] \in Nat /\ nextSend'["server"] \in Nat
        /\ inbox["server"] \in Nat /\ incoming["server"] \in Nat /\ lastRecv["server"] \in Nat
        /\ Sending("client")' \in Nat /\ Sending("server")' \in Nat
    BY <1>4, <2>1, CounterTypes DEF ConnInv, Sending
  <2>3. nextSend'["client"] <= NRequests
    BY <1>5, <2>2, RecoveryConnectionAssumption DEF Counts
  <2>4. nextSend'["server"] <= lastRecv["server"] /\ lastRecv["server"] <= nextSend'["client"]
    BY <1>5, <1>6, <2>1, <2>2 DEF Counts, Bounds
  <2>5. nextSend'["client"] \in 0..NRequests /\ nextSend'["server"] \in 0..NRequests
    BY <2>2, <2>3, <2>4, RecoveryConnectionAssumption
  <2> QED BY <1>4, <2>1, <2>5
<1>8. NetTypes' /\ \E f \in Frames : Puts(p, f) /\ Sent(q, f)'
  <2>1. NetTypes
    BY DEF ConnInv, TypeOK, NetTypes
  <2>2. CASE UNCHANGED <<wire, half>>
    <3>1. CloseFrame \in Frames
      BY RecoveryConnectionAssumption DEF CloseFrame, Frames
    <3>2. Sent(q, CloseFrame)'
      BY DEF Sent, CloseFrame
    <3> QED BY <2>1, <2>2, <3>1, <3>2 DEF NetTypes, Puts
  <2>3. CASE Put(p, Data(nextSend[p] + 1)) /\ nextSend' = [nextSend EXCEPT ![p] = @ + 1]
    <3>1. nextSend'[p] = nextSend[p] + 1 /\ nextSend'[p] \in 0..NRequests
      BY <1>7, <1>t, <2>3
    <3>2. Data(nextSend'[p]) \in Frames
      BY <3>1 DEF Data, Frames
    <3>3. PICK f : f = Data(nextSend'[p])
      OBVIOUS
    <3>4. Sent(q, f)'
      BY <1>p, <3>1, <3>3 DEF Sent, Data
    <3>5. Put(p, f) /\ f \in Frames
      BY <2>3, <3>1, <3>2, <3>3
    <3> QED BY <2>1, <3>4, <3>5, PutPuts
  <2> QED BY <2>2, <2>3 DEF Stage
<1>9. OnWire'
  <2>1. Grow
    <3>1. \A s \in Sides : nextSend[s] \in Nat /\ lastRecv[s] \in Nat
      BY <1>t
    <3>2. ASSUME NEW s \in Sides PROVE nextSend'[s] >= nextSend[s] /\ lastRecv'[s] >= lastRecv[s]
      <4>1. CASE s = p
        BY <1>4, <3>1, <4>1
      <4>2. CASE s # p
        BY <1>4, <3>1, <4>2
      <4> QED BY <4>1, <4>2
    <3> QED BY <3>2 DEF Grow
  <2>2. lastRecv' \in [Sides -> Nat]
    BY <1>t
  <2> QED BY <1>4, <1>8, <2>1, <2>2, OnWireGrows DEF ConnInv, q
<1>10. TypeOK'
  <2>1. \A s \in Sides : Len(outbound'[s]) <= 2 /\ Len(held'[s]) <= 1
    <3>1. Len(outbound'[p]) <= 2
      BY ShapeTypes, <1>z DEF Alone
    <3>2. Len(held'[p]) <= 1
      <4>1. Len(<<>>) = 0
        OBVIOUS
      <4>2. CASE held'[p] = <<>>
        BY <4>1, <4>2
      <4>3. CASE held'[p] = <<size>>
        BY <1>z, <4>3
      <4> QED BY <1>2, <4>2, <4>3
    <3>3. Len(outbound'[q]) <= 2 /\ Len(held'[q]) <= 1
      BY <1>2, <1>p DEF ConnInv, TypeOK
    <3> QED BY <1>p, <3>1, <3>2, <3>3
  <2> QED BY <1>2, <1>7, <1>8, <2>1 DEF ConnInv, TypeOK, NetTypes
<1> QED BY <1>3, <1>5, <1>6, <1>9, <1>10 DEF ConnInv

(* A frame from outbound is the sender's, and leaves the marker at most. *)
LEMMA TakeFrameStages ==
    ASSUME ConnInv, NEW p \in Sides, TakeFrame(p)
    PROVE  /\ outbound' \in [Sides -> Seq(Nat)] /\ Alone(p)'
           /\ \A s \in Sides : s # p => outbound'[s] = outbound[s]
           /\ \E size \in Sizes(p) : sender[p] = "verdict" /\ Stage(p, size)
<1> USE DEF TakeFrame
<1>1. /\ OneFrame(p) /\ held[p] = <<>> /\ outbound[p] # <<>> /\ Head(outbound[p]) # Marker
      /\ outbound \in [Sides -> Seq(Nat)]
  BY DEF ConnInv, Shape, TypeOK
<1>2. PICK size \in Sizes(p) : sender[p] = "verdict" /\ Queued(p, size)
  <2>1. Head(<<Marker>>) = Marker
    OBVIOUS
  <2>2. ~Alone(p)
    BY <1>1, <2>1 DEF Alone
  <2> QED BY <1>1, <2>2 DEF OneFrame
<1>3. size \in Nat
  BY SizeFacts
<1>4. Head(outbound[p]) = size /\ Tail(outbound[p]) = IF Pending(p) THEN <<Marker>> ELSE <<>>
  BY <1>2, <1>3, Shapes DEF Queued
<1>5. outbound' = [outbound EXCEPT ![p] = Tail(@)]
  OBVIOUS
<1>6. outbound' \in [Sides -> Seq(Nat)] /\ outbound'[p] = Tail(outbound[p])
      /\ \A s \in Sides : s # p => outbound'[s] = outbound[s]
  <2>1. Tail(outbound[p]) \in Seq(Nat)
    BY <1>1
  <2> QED BY <1>1, <1>5, <2>1
<1>7. Alone(p)'
  BY <1>4, <1>6 DEF Alone, Pending, closeVars
<1>8. Stage(p, size)
  BY <1>4
<1> QED BY <1>2, <1>6, <1>7, <1>8

(* The writer stages a frame from outbound. *)
LEMMA TakeFrameKeeps ==
    ASSUME ConnInv, NEW p \in Sides, TakeFrame(p)
    PROVE  ConnInv'
BY TakeFrameStages, StageKeeps DEF TakeFrame

(* A frame that is held is the sender's. *)
LEMMA TakeHeldStages ==
    ASSUME ConnInv, NEW p \in Sides, TakeHeld(p)
    PROVE  /\ outbound \in [Sides -> Seq(Nat)] /\ Alone(p)'
           /\ \E size \in Sizes(p) : sender[p] = "verdict" /\ Stage(p, size)
<1> USE DEF TakeHeld
<1>1. OneFrame(p) /\ held[p] # <<>> /\ outbound \in [Sides -> Seq(Nat)]
  BY DEF ConnInv, Shape, TypeOK, Retry
<1>2. PICK size \in Sizes(p) : sender[p] = "verdict" /\ held[p] = <<size>> /\ Alone(p)
  BY <1>1 DEF OneFrame
<1>3. Head(held[p]) = size
  BY <1>2
<1>4. Alone(p)'
  BY <1>2 DEF Alone, Pending, closeVars
<1>5. Stage(p, size)
  BY <1>3
<1> QED BY <1>1, <1>2, <1>4, <1>5

(* The writer stages the frame it holds. *)
LEMMA TakeHeldKeeps ==
    ASSUME ConnInv, NEW p \in Sides, TakeHeld(p)
    PROVE  ConnInv'
BY TakeHeldStages, StageKeeps DEF TakeHeld

(* The writer comes to the marker, behind which there is nothing. *)
LEMMA TakeMarkerKeeps ==
    ASSUME ConnInv, NEW p \in Sides, TakeMarker(p)
    PROVE  ConnInv'
<1> USE DEF TakeMarker, readerVars, queueVars, closeVars
<1>1. /\ OneFrame(p) /\ held[p] = <<>> /\ outbound[p] # <<>> /\ Head(outbound[p]) = Marker
      /\ outbound \in [Sides -> Seq(Nat)] /\ marked \in [Sides -> BOOLEAN]
  BY DEF ConnInv, Shape, TypeOK
<1>2. sender[p] = "idle" /\ outbound[p] = <<Marker>> /\ Pending(p)
  <2>1. ASSUME NEW size \in Sizes(p), Queued(p, size) PROVE FALSE
    <3>1. size \in Nat /\ size # Marker
      BY SizeFacts DEF Marker
    <3>2. Head(outbound[p]) = size
      BY <2>1, <3>1, Shapes DEF Queued
    <3> QED BY <1>1, <3>1, <3>2
  <2>2. ~ \E size \in Sizes(p) : held[p] = <<size>>
    BY <1>1
  <2> QED BY <1>1, <2>1, <2>2 DEF OneFrame, Alone
<1>3. outbound' = [outbound EXCEPT ![p] = <<>>] /\ marked' = [marked EXCEPT ![p] = TRUE]
  <2>1. Tail(outbound[p]) = <<>>
    BY <1>2
  <2> QED BY <2>1
<1>4. /\ outbound' \in [Sides -> Seq(Nat)] /\ marked' \in [Sides -> BOOLEAN]
      /\ outbound'[p] = <<>> /\ marked'[p]
      /\ \A s \in Sides : s # p => outbound'[s] = outbound[s] /\ marked'[s] = marked[s]
  <2>1. <<>> \in Seq(Nat)
    OBVIOUS
  <2> QED BY <1>1, <1>3, <2>1
<1>5. Shape'
  <2>1. OneFrame(p)' /\ Closes(p)'
    <3>1. Alone(p)'
      BY <1>4 DEF Alone, Pending
    <3>2. OneFrame(p)'
      BY <1>1, <1>2, <3>1 DEF OneFrame
    <3>3. Closes(p)'
      BY <1>2, <1>4 DEF ConnInv, Shape, Closes, Pending
    <3> QED BY <3>2, <3>3
  <2>2. ASSUME NEW s \in Sides, s # p PROVE OneFrame(s)' /\ Closes(s)'
    <3>1. outbound'[s] = outbound[s] /\ marked'[s] = marked[s]
      BY <1>4, <2>2
    <3> QED BY <3>1 DEF ConnInv, Shape, OneFrame, Closes, Alone, Queued, Pending
  <2> QED BY <2>1, <2>2 DEF Shape
<1>6. Counts' /\ Bounds'
  BY CountsFrame, BoundsFrame DEF ConnInv
<1>7. NetTypes' /\ \E f \in Frames : Puts(p, f) /\ Sent(Peer(p), f)'
  <2>1. NetTypes
    BY DEF ConnInv, TypeOK, NetTypes
  <2>2. CloseFrame \in Frames
    BY RecoveryConnectionAssumption DEF CloseFrame, Frames
  <2>3. Sent(Peer(p), CloseFrame)'
    BY DEF Sent, CloseFrame
  <2>4. CASE UNCHANGED <<wire, half>>
    BY <2>1, <2>2, <2>3, <2>4 DEF NetTypes, Puts
  <2>5. CASE Put(p, CloseFrame)
    BY <2>1, <2>2, <2>3, <2>5, PutPuts
  <2> QED BY <2>4, <2>5 DEF WriteClose
<1>8. OnWire'
  <2>1. nextSend \in [Sides -> Nat] /\ lastRecv \in [Sides -> Nat]
    BY CounterTypes DEF ConnInv
  <2>2. Grow
    BY <2>1 DEF Grow
  <2> QED BY <1>7, <2>1, <2>2, OnWireGrows DEF ConnInv
<1>9. TypeOK'
  <2>1. \A s \in Sides : Len(outbound'[s]) <= 2
    <3>1. Len(outbound'[p]) <= 2
      <4>1. Len(<<>>) = 0
        OBVIOUS
      <4>2. PICK o : o = outbound'[p]
        OBVIOUS
      <4>3. o = <<>>
        BY <1>4, <4>2
      <4>4. Len(o) <= 2
        BY <4>1, <4>3
      <4> QED BY <4>2, <4>4
    <3> QED BY <1>4, <3>1 DEF ConnInv, TypeOK
  <2> QED BY <1>4, <1>7, <2>1 DEF ConnInv, TypeOK, NetTypes
<1> QED BY <1>5, <1>6, <1>8, <1>9 DEF ConnInv

(* The writer acknowledges what was received. *)
LEMMA WriteAckKeeps ==
    ASSUME ConnInv, NEW p \in Sides, WriteAck(p)
    PROVE  ConnInv'
<1> USE DEF WriteAck, readerVars, queueVars, closeVars
<1>1. lastRecv[p] \in 0..NRequests /\ lastAckSent \in [Sides -> 0..NRequests]
      /\ lastRecv \in [Sides -> Nat] /\ nextSend \in [Sides -> Nat]
  BY CounterTypes DEF ConnInv, TypeOK
<1>2. lastAckSent' \in [Sides -> 0..NRequests] /\ lastAckSent'[p] = lastRecv[p]
      /\ \A s \in Sides : s # p => lastAckSent'[s] = lastAckSent[s]
  BY <1>1
<1>3. Bounds'
  <2>1. lastAckSent'[p] <= lastRecv[p]
    BY <1>1, <1>2
  <2>2. \A s \in Sides : s # p => lastAckSent'[s] <= lastRecv[s]
    BY <1>2 DEF ConnInv, Bounds
  <2> QED BY <2>1, <2>2 DEF ConnInv, Bounds
<1>4. Shape' /\ Counts'
  BY ShapeFrame, CountsFrame DEF ConnInv
<1>5. NetTypes' /\ \E f \in Frames : Puts(p, f) /\ Sent(Peer(p), f)'
  <2>1. NetTypes
    BY DEF ConnInv, TypeOK, NetTypes
  <2>2. PICK f : f = Ack(lastRecv[p])
    OBVIOUS
  <2>3. f \in Frames /\ f.kind = "ack" /\ f.n = lastRecv[p]
    BY <1>1, <2>2 DEF Ack, Frames
  <2>4. Sent(Peer(p), f)'
    <3>1. Peer(Peer(p)) = p
      BY PeerFacts
    <3> QED BY <1>1, <2>3, <3>1 DEF Sent
  <2> QED BY <2>1, <2>2, <2>3, <2>4, PutPuts
<1>6. OnWire'
  <2>1. Grow
    BY <1>1 DEF Grow
  <2> QED BY <1>1, <1>5, <2>1, OnWireGrows DEF ConnInv
<1>7. TypeOK'
  BY <1>2, <1>5 DEF ConnInv, TypeOK, NetTypes
<1> QED BY <1>3, <1>4, <1>6, <1>7 DEF ConnInv

-----------------------------------------------------------------------------
(* The transport, the reader and the decode loop.                          *)

(* Steps that change only the transport and who is closing or closed. *)
LEMMA EndsKeep ==
    ASSUME ConnInv, NetTypes', Drops,
           rpc' \in [Sides -> {"read", "drain", "detached"}],
           closing' \in [Sides -> BOOLEAN], closed' \in [Sides -> BOOLEAN],
           cpc' \in [Sides -> {"idle", "mark", "flush", "peer"}],
           attached' \in [Sides -> BOOLEAN], late' \in BOOLEAN, Shape',
           UNCHANGED <<sender, writerVars, lastRecv, queueVars>>
    PROVE  ConnInv'
<1> USE DEF writerVars, queueVars
<1>1. Counts' /\ Bounds' /\ OnWire'
  BY CountsFrame, BoundsFrame, OnWireFrame DEF ConnInv
<1>2. TypeOK'
  BY DEF ConnInv, TypeOK, NetTypes
<1> QED BY <1>1, <1>2 DEF ConnInv

(* A heartbeat meets a reset. *)
LEMMA WritePingKeeps ==
    ASSUME ConnInv, NEW p \in Sides, WritePing(p)
    PROVE  ConnInv'
<1> USE DEF WritePing, writerVars, readerVars, closeVars
<1>1. NetTypes' /\ Drops
  <2>1. /\ wire \in [Sides -> Seq(Frames)] /\ half \in [Sides -> {"open", "eof", "reset"}]
        /\ <<>> \in Seq(Frames)
    BY DEF ConnInv, TypeOK
  <2>2. wire' = [wire EXCEPT ![p] = <<>>] /\ half' = [half EXCEPT ![p] = "reset"]
    OBVIOUS
  <2>3. wire' \in [Sides -> Seq(Frames)] /\ Drops
    BY <2>1, <2>2 DEF Drops
  <2>4. half' \in [Sides -> {"open", "eof", "reset"}]
    BY <2>1, <2>2
  <2> QED BY <2>3, <2>4 DEF NetTypes
<1>2. Shape'
  BY ShapeFrame DEF ConnInv
<1>3. /\ rpc \in [Sides -> {"read", "drain", "detached"}]
      /\ closing \in [Sides -> BOOLEAN] /\ closed \in [Sides -> BOOLEAN]
      /\ cpc \in [Sides -> {"idle", "mark", "flush", "peer"}]
      /\ attached \in [Sides -> BOOLEAN] /\ late \in BOOLEAN
  BY DEF ConnInv, TypeOK
<1> QED BY <1>1, <1>2, <1>3, EndsKeep

(* A write fails. *)
LEMMA WriteErrorKeeps ==
    ASSUME ConnInv, NEW p \in Sides, WriteError(p)
    PROVE  ConnInv'
<1> USE DEF WriteError, Detach, writerVars, readerVars, closeVars
<1>1. NetTypes' /\ Drops
  BY EndTransportDrops DEF ConnInv, TypeOK, NetTypes
<1>2. Shape'
  BY ShapeFrame DEF ConnInv
<1>3. /\ rpc \in [Sides -> {"read", "drain", "detached"}]
      /\ closing \in [Sides -> BOOLEAN] /\ closed \in [Sides -> BOOLEAN]
      /\ cpc \in [Sides -> {"idle", "mark", "flush", "peer"}]
      /\ attached' \in [Sides -> BOOLEAN] /\ late \in BOOLEAN
  BY DEF ConnInv, TypeOK
<1> QED BY <1>1, <1>2, <1>3, EndsKeep

(* A frame is received: it is one that was sent, and the queue has room. *)
LEMMA ReadDataKeeps ==
    ASSUME ConnInv, NEW p \in Sides, ReadData(p)
    PROVE  ConnInv'
<1> USE DEF ReadData, writerVars, closeVars
<1> DEFINE q == Peer(p)
<1>p. q \in Sides /\ q # p /\ Peer(q) = p /\ \A s \in Sides : s = p \/ s = q
  BY PeerFacts
<1> HIDE DEF q
<1>1. wire[p] \in Seq(Frames) /\ wire[p] # <<>> /\ lastRecv[p] \in Nat /\ nextSend[q] \in Nat
      /\ lastRecv \in [Sides -> Nat] /\ nextSend \in [Sides -> 0..NRequests]
      /\ incoming[p] \in 0..QueueSize /\ incoming \in [Sides -> 0..QueueSize]
      /\ nextSend \in [Sides -> Nat] /\ incoming[p] \in Nat /\ wire \in [Sides -> Seq(Frames)]
  BY <1>p, CounterTypes DEF ConnInv, TypeOK, Reading
<1>2. lastRecv[p] + 1 <= nextSend[q]
  <2>1. 1 \in DOMAIN wire[p] /\ wire[p][1] = Head(wire[p])
    BY <1>1
  <2>2. Sent(p, Head(wire[p]))
    BY <2>1 DEF ConnInv, OnWire
  <2> QED BY <2>2 DEF Sent, q
<1>3. /\ lastRecv' \in [Sides -> Nat] /\ lastRecv'[p] = lastRecv[p] + 1
      /\ \A s \in Sides : s # p => lastRecv'[s] = lastRecv[s]
  BY <1>1
<1>4. incoming[p] < QueueSize /\ QueueSize \in Nat
  BY RecoveryConnectionAssumption DEF HasRoom
<1>5. /\ incoming' \in [Sides -> 0..QueueSize] /\ incoming'[p] = incoming[p] + 1
      /\ \A s \in Sides : s # p => incoming'[s] = incoming[s]
  <2>1. incoming[p] + 1 \in 0..QueueSize
    BY <1>1, <1>4
  <2> QED BY <1>1, <2>1
<1>6. Counts'
  <2>1. "client" \in Sides /\ "server" \in Sides
    BY DEF Sides
  <2>2. nextSend'["client"] + Sending("client")' <= NRequests
    BY DEF ConnInv, Counts, Sending
  <2>3. Sending("server")' = Sending("server")
    BY DEF Sending
  <2>4. nextSend["server"] + Sending("server") + inbox["server"] + incoming'["server"]
           <= lastRecv'["server"]
    <3>1. /\ nextSend["server"] \in Nat /\ Sending("server") \in Nat /\ inbox["server"] \in Nat
          /\ incoming["server"] \in Nat /\ lastRecv["server"] \in Nat
      BY <2>1, CounterTypes DEF ConnInv, Sending
    <3>2. nextSend["server"] + Sending("server") + inbox["server"] + incoming["server"]
             <= lastRecv["server"]
      BY DEF ConnInv, Counts
    <3>3. CASE p = "server"
      <4>1. incoming'["server"] = incoming["server"] + 1 /\ lastRecv'["server"] = lastRecv["server"] + 1
        BY <1>3, <1>5, <3>3
      <4> QED BY <3>1, <3>2, <4>1
    <3>4. CASE p # "server"
      BY <1>3, <1>5, <2>1, <3>2, <3>4
    <3> QED BY <3>3, <3>4
  <2> QED BY <2>2, <2>3, <2>4 DEF Counts
<1>7. Bounds'
  <2>1. /\ lastRecv[q] <= nextSend[p] /\ lastAckSent[q] <= lastRecv[q]
        /\ lastAckSent[p] <= lastRecv[p]
    BY <1>p DEF ConnInv, Bounds, q
  <2>2. lastAckSent[p] \in Nat
    BY CounterTypes DEF ConnInv
  <2>3. lastRecv'[p] <= nextSend'[q] /\ lastAckSent'[p] <= lastRecv'[p]
    BY <1>1, <1>2, <1>3, <2>1, <2>2
  <2>4. lastRecv'[q] <= nextSend'[p] /\ lastAckSent'[q] <= lastRecv'[q]
    BY <1>3, <1>p, <2>1
  <2> QED BY <1>p, <2>3, <2>4 DEF Bounds, q
<1>8. lastRecv' \in [Sides -> 0..NRequests]
  <2>1. ASSUME NEW s \in Sides PROVE lastRecv'[s] \in 0..NRequests
    <3>1. Peer(s) \in Sides
      BY PeerFacts
    <3>2. lastRecv'[s] <= nextSend[Peer(s)] /\ nextSend[Peer(s)] \in 0..NRequests
      BY <1>1, <1>7, <3>1 DEF Bounds
    <3>3. lastRecv'[s] \in Nat
      BY <1>3
    <3> QED BY <3>2, <3>3, RecoveryConnectionAssumption
  <2> QED BY <1>3, <2>1
<1>9. wire' \in [Sides -> Seq(Frames)] /\ wire'[p] = Tail(wire[p])
      /\ \A s \in Sides : s # p => wire'[s] = wire[s]
  <2>1. Tail(wire[p]) \in Seq(Frames)
    BY <1>1, TailFacts
  <2> QED BY <1>1, <2>1
<1>10. OnWire'
  <2>1. Grow
    <3>1. ASSUME NEW s \in Sides PROVE nextSend'[s] >= nextSend[s] /\ lastRecv'[s] >= lastRecv[s]
      <4>1. nextSend[s] \in Nat /\ lastRecv[s] \in Nat
        BY <1>1
      <4>2. CASE s = p
        BY <1>3, <4>1, <4>2
      <4>3. CASE s # p
        BY <1>3, <4>1, <4>3
      <4> QED BY <4>2, <4>3
    <3> QED BY <3>1 DEF Grow
  <2>2. ASSUME NEW s \in Sides, NEW i \in DOMAIN wire'[s], NEW g, g = wire'[s][i]
        PROVE  Sent(s, g)'
    <3>1. \E j \in DOMAIN wire[s] : g = wire[s][j]
      <4>1. CASE s = p
        BY <1>1, <1>9, <2>2, <4>1, TailFacts
      <4>2. CASE s # p
        BY <1>9, <2>2, <4>2
      <4> QED BY <4>1, <4>2
    <3>2. Sent(s, g)
      BY <3>1 DEF ConnInv, OnWire
    <3>3. g \in Frames
      BY <1>1, <3>1
    <3>4. nextSend' \in [Sides -> Nat]
      BY <1>1
    <3> QED BY <1>3, <2>1, <3>2, <3>3, <3>4, SentGrows DEF ConnInv
  <2> QED BY <2>2 DEF OnWire, Sent
<1>11. Shape'
  BY ShapeFrame DEF ConnInv
<1>12. TypeOK'
  BY <1>5, <1>8, <1>9 DEF ConnInv, TypeOK
<1> QED BY <1>6, <1>7, <1>10, <1>11, <1>12 DEF ConnInv

(* A frame is taken from the wire. *)
LEMMA TakesOne ==
    ASSUME ConnInv, NEW p \in Sides, wire[p] # <<>>,
           wire' = [wire EXCEPT ![p] = Tail(@)], UNCHANGED half
    PROVE  NetTypes' /\ Drops
<1>1. wire \in [Sides -> Seq(Frames)] /\ half \in [Sides -> {"open", "eof", "reset"}]
  BY DEF ConnInv, TypeOK
<1>2. Tail(wire[p]) \in Seq(Frames)
  BY <1>1, TailFacts
<1> QED BY <1>1, <1>2 DEF NetTypes, Drops

(* The types of what EndsKeep is about. *)
LEMMA EndTypes ==
    ASSUME ConnInv
    PROVE  /\ NetTypes
           /\ rpc \in [Sides -> {"read", "drain", "detached"}]
           /\ closing \in [Sides -> BOOLEAN] /\ closed \in [Sides -> BOOLEAN]
           /\ cpc \in [Sides -> {"idle", "mark", "flush", "peer"}]
           /\ attached \in [Sides -> BOOLEAN] /\ late \in BOOLEAN
BY DEF ConnInv, TypeOK, NetTypes

(* closing is only ever set. *)
LEMMA ShapeCloses ==
    ASSUME ConnInv, NEW p \in Sides, closing' = [closing EXCEPT ![p] = TRUE],
           UNCHANGED <<sender, outbound, held, marked, cpc>>
    PROVE  Shape'
<1>1. closing \in [Sides -> BOOLEAN]
  BY EndTypes
<1>2. ASSUME NEW s \in Sides PROVE OneFrame(s)' /\ Closes(s)'
  <2>1. closing[s] => closing'[s]
    BY <1>1
  <2>2. OneFrame(s) /\ Closes(s)
    BY DEF ConnInv, Shape
  <2>3. OneFrame(s)'
    BY <2>2 DEF OneFrame, Alone, Queued, Pending
  <2> QED BY <2>1, <2>2, <2>3 DEF Closes
<1> QED BY <1>2 DEF Shape

(* An ACK is read. *)
LEMMA ReadAckKeeps ==
    ASSUME ConnInv, NEW p \in Sides, ReadAck(p)
    PROVE  ConnInv'
<1> USE DEF ReadAck, writerVars, readerVars, closeVars
<1>1. NetTypes' /\ Drops
  BY TakesOne DEF Reading
<1>2. Shape'
  BY ShapeFrame DEF ConnInv
<1> QED BY <1>1, <1>2, EndTypes, EndsKeep

(* CLOSE is read. *)
LEMMA ReadCloseKeeps ==
    ASSUME ConnInv, NEW p \in Sides, ReadClose(p)
    PROVE  ConnInv'
<1> USE DEF ReadClose, writerVars
<1>1. Shape' /\ closing' \in [Sides -> BOOLEAN]
  BY ShapeCloses, EndTypes
<1>2. CASE MarkClosed(p, Tail(wire[p])) /\ UNCHANGED rpc
  BY <1>1, <1>2, MarkClosedDrops, EndTypes, EndsKeep
<1>3. CASE /\ wire' = [wire EXCEPT ![p] = Tail(@)] /\ rpc' = [rpc EXCEPT ![p] = "drain"]
           /\ UNCHANGED <<closed, half>>
  <2>1. NetTypes' /\ Drops
    BY <1>3, TakesOne DEF Reading
  <2>2. rpc' \in [Sides -> {"read", "drain", "detached"}]
    BY <1>3, EndTypes
  <2> QED BY <1>1, <1>3, <2>1, <2>2, EndTypes, EndsKeep
<1> QED BY <1>2, <1>3

(* closeByPeer ends. *)
LEMMA DrainEndKeeps ==
    ASSUME ConnInv, NEW p \in Sides, DrainEnd(p)
    PROVE  ConnInv'
<1> USE DEF DrainEnd, writerVars, readerVars
<1>1. Shape'
  BY ShapeFrame DEF ConnInv
<1> QED BY <1>1, MarkClosedDrops, EndTypes, EndsKeep

(* A read fails. *)
LEMMA ReadErrorKeeps ==
    ASSUME ConnInv, NEW p \in Sides, ReadError(p)
    PROVE  ConnInv'
<1> USE DEF ReadError, writerVars
<1>1. Shape'
  BY ShapeFrame DEF ConnInv
<1>2. CASE MarkClosed(p, wire[p]) /\ UNCHANGED <<rpc, attached>>
  BY <1>1, <1>2, MarkClosedDrops, EndTypes, EndsKeep
<1>3. CASE Detach(p) /\ rpc' = [rpc EXCEPT ![p] = "detached"] /\ UNCHANGED closed
  <2>1. NetTypes' /\ Drops
    BY <1>3, EndTransportDrops, EndTypes DEF Detach
  <2>2. /\ rpc' \in [Sides -> {"read", "drain", "detached"}]
        /\ attached' \in [Sides -> BOOLEAN]
    BY <1>3, EndTypes DEF Detach
  <2> QED BY <1>1, <1>3, <2>1, <2>2, EndTypes, EndsKeep
<1>4. CASE rpc' = [rpc EXCEPT ![p] = "detached"] /\ UNCHANGED <<closed, attached, wire, half>>
  <2>1. NetTypes' /\ Drops
    BY <1>4, EndTypes DEF NetTypes, Drops
  <2>2. rpc' \in [Sides -> {"read", "drain", "detached"}]
    BY <1>4, EndTypes
  <2> QED BY <1>1, <1>4, <2>1, <2>2, EndTypes, EndsKeep
<1> QED BY <1>2, <1>3, <1>4

(* A message goes from incoming to inbox. *)
LEMMA DecodeKeeps ==
    ASSUME ConnInv, NEW p \in Sides, Decode(p)
    PROVE  ConnInv'
<1> USE DEF Decode, writerVars, readerVars, closeVars, netVars
<1>1. /\ incoming \in [Sides -> 0..QueueSize] /\ inbox \in [Sides -> 0..QueueSize]
      /\ incoming[p] \in 0..QueueSize /\ inbox[p] \in 0..QueueSize /\ QueueSize \in Nat
  BY RecoveryConnectionAssumption DEF ConnInv, TypeOK
<1>2. inbox[p] + 1 \in 0..QueueSize /\ incoming[p] - 1 \in 0..QueueSize
  BY <1>1
<1>3. /\ incoming' \in [Sides -> 0..QueueSize] /\ inbox' \in [Sides -> 0..QueueSize]
      /\ incoming'[p] = incoming[p] - 1 /\ inbox'[p] = inbox[p] + 1
      /\ \A s \in Sides : s # p => incoming'[s] = incoming[s] /\ inbox'[s] = inbox[s]
  BY <1>1, <1>2
<1>4. TypeOK'
  BY <1>3 DEF ConnInv, TypeOK
<1>5. Counts'
  <2>1. "server" \in Sides
    BY DEF Sides
  <2>2. inbox["server"] \in Nat /\ incoming["server"] \in Nat /\ nextSend["server"] \in Nat
        /\ Sending("server") \in Nat
    BY <2>1, CounterTypes DEF ConnInv, Sending
  <2>3. Sending("server")' = Sending("server") /\ Sending("client")' = Sending("client")
    BY DEF Sending
  <2>4. nextSend["server"] + Sending("server") + inbox'["server"] + incoming'["server"]
           = nextSend["server"] + Sending("server") + inbox["server"] + incoming["server"]
    <3>1. CASE p = "server"
      <4>1. inbox'["server"] = inbox["server"] + 1 /\ incoming'["server"] = incoming["server"] - 1
        BY <1>3, <3>1
      <4> QED BY <2>2, <4>1
    <3>2. CASE p # "server"
      BY <1>3, <2>1, <3>2
    <3> QED BY <3>1, <3>2
  <2> QED BY <2>3, <2>4 DEF ConnInv, Counts
<1>6. Shape' /\ Bounds' /\ OnWire'
  BY ShapeFrame, BoundsFrame, OnWireFrame DEF ConnInv, Drops
<1> QED BY <1>4, <1>5, <1>6 DEF ConnInv

-----------------------------------------------------------------------------
(* Close.                                                                  *)

(* Close begins. *)
LEMMA CloseKeeps ==
    ASSUME ConnInv, NEW p \in Sides, Close(p)
    PROVE  ConnInv'
<1> USE DEF Close, writerVars, readerVars
<1>1. closing' \in [Sides -> BOOLEAN] /\ cpc' \in [Sides -> {"idle", "mark", "flush", "peer"}]
  BY EndTypes
<1>2. Shape'
  <2>1. ASSUME NEW s \in Sides PROVE OneFrame(s)' /\ Closes(s)'
    <3>1. OneFrame(s) /\ Closes(s)
      BY DEF ConnInv, Shape
    <3>2. CASE s = p
      <4>1. cpc[p] = "idle" /\ cpc'[p] = "mark" /\ closing'[p] /\ ~marked[p]
        BY <3>1, <3>2, EndTypes DEF Closes
      <4>2. ~Pending(p) /\ ~Pending(p)'
        BY <4>1 DEF Pending
      <4> QED BY <3>1, <3>2, <4>1, <4>2 DEF OneFrame, Closes, Alone, Queued
    <3>3. CASE s # p
      <4>1. cpc'[s] = cpc[s] /\ closing'[s] = closing[s]
        BY <3>3, EndTypes
      <4> QED BY <3>1, <4>1 DEF OneFrame, Closes, Alone, Queued, Pending
    <3> QED BY <3>2, <3>3
  <2> QED BY <2>1 DEF Shape
<1>3. CASE MarkClosed(p, wire[p])
  BY <1>1, <1>2, <1>3, MarkClosedDrops, EndTypes, EndsKeep
<1>4. CASE UNCHANGED <<closed, wire, half>>
  <2>1. NetTypes' /\ Drops
    BY <1>4, EndTypes DEF NetTypes, Drops
  <2> QED BY <1>1, <1>2, <1>4, <2>1, EndTypes, EndsKeep
<1> QED BY <1>3, <1>4

(* Close queues the marker, behind the sender's frame if there is one. *)
LEMMA CloseQueueKeeps ==
    ASSUME ConnInv, NEW p \in Sides, CloseQueue(p)
    PROVE  ConnInv'
<1> USE DEF CloseQueue, readerVars, queueVars, netVars
<1>1. /\ cpc' \in [Sides -> {"idle", "mark", "flush", "peer"}] /\ cpc'[p] = "flush"
      /\ \A s \in Sides : s # p => cpc'[s] = cpc[s]
  BY EndTypes
<1>2. ~marked[p] /\ closing[p] /\ ~Pending(p) /\ Pending(p)'
  BY <1>1 DEF ConnInv, Shape, Closes, Pending
<1>3. OneFrame(p) /\ outbound \in [Sides -> Seq(Nat)]
  BY DEF ConnInv, Shape, TypeOK
<1>4. PICK o : o = Append(outbound[p], Marker)
  OBVIOUS
<1>5. outbound' = [outbound EXCEPT ![p] = o]
  BY <1>4
<1>6. outbound'[p] = o /\ \A s \in Sides : s # p => outbound'[s] = outbound[s]
  BY <1>3, <1>5
<1>7. o \in Seq(Nat) /\ Len(o) <= 2 /\ OneFrame(p)'
  <2>1. CASE Alone(p)
    <3>1. o = <<Marker>>
      BY <1>2, <1>4, <2>1, Shapes DEF Alone, Marker
    <3>2. <<Marker>> \in Seq(Nat) /\ Len(<<Marker>>) = 1
      BY DEF Marker
    <3>3. Alone(p)'
      BY <1>2, <1>6, <3>1 DEF Alone
    <3>4. OneFrame(p)'
      <4>1. CASE sender[p] = "idle"
        BY <1>3, <3>3, <4>1 DEF OneFrame
      <4>2. CASE sender[p] = "verdict"
        <5>1. ASSUME NEW size \in Sizes(p), Queued(p, size) PROVE FALSE
          BY <1>2, <2>1, <5>1, SizeFacts, Shapes DEF Queued, Alone
        <5> QED BY <1>3, <3>3, <4>2, <5>1 DEF OneFrame
      <4> QED BY <1>3, <4>1, <4>2 DEF OneFrame
    <3> QED BY <3>1, <3>2, <3>4
  <2>2. ASSUME NEW size \in Sizes(p), sender[p] = "verdict", held[p] = <<>>, Queued(p, size)
        PROVE  o \in Seq(Nat) /\ Len(o) <= 2 /\ OneFrame(p)'
    <3>1. size \in Nat
      BY SizeFacts
    <3>2. o = <<size, Marker>>
      BY <1>2, <1>4, <2>2, <3>1, TwoFrames DEF Queued
    <3>3. <<size, Marker>> \in Seq(Nat) /\ Len(<<size, Marker>>) = 2
      BY <3>1, ShapeTypes
    <3>4. Queued(p, size)'
      BY <1>2, <1>6, <3>2 DEF Queued
    <3>5. OneFrame(p)'
      BY <2>2, <3>4 DEF OneFrame
    <3> QED BY <3>2, <3>3, <3>5
  <2> QED BY <1>3, <2>1, <2>2 DEF OneFrame
<1>8. Shape'
  <2>1. Closes(p)'
    BY <1>1, <1>2 DEF Closes
  <2>2. ASSUME NEW s \in Sides, s # p PROVE OneFrame(s)' /\ Closes(s)'
    <3>1. outbound'[s] = outbound[s] /\ cpc'[s] = cpc[s]
      BY <1>1, <1>6, <2>2
    <3> QED BY <3>1 DEF ConnInv, Shape, OneFrame, Closes, Alone, Queued, Pending
  <2> QED BY <1>7, <2>1, <2>2 DEF Shape
<1>9. outbound' \in [Sides -> Seq(Nat)] /\ \A s \in Sides : Len(outbound'[s]) <= 2
  BY <1>3, <1>5, <1>6, <1>7 DEF ConnInv, TypeOK
<1>10. TypeOK'
  BY <1>1, <1>9 DEF ConnInv, TypeOK
<1>11. Counts' /\ Bounds' /\ OnWire'
  BY CountsFrame, BoundsFrame, OnWireFrame DEF ConnInv, Drops
<1> QED BY <1>8, <1>10, <1>11 DEF ConnInv

(* Close half-closes the transport. *)
LEMMA CloseWriteKeeps ==
    ASSUME ConnInv, NEW p \in Sides, CloseWrite(p)
    PROVE  ConnInv'
<1> USE DEF CloseWrite, writerVars, readerVars
<1>1. Peer(p) \in Sides
  BY PeerFacts
<1>2. /\ cpc' \in [Sides -> {"idle", "mark", "flush", "peer"}] /\ cpc'[p] = "peer"
      /\ \A s \in Sides : s # p => cpc'[s] = cpc[s]
  BY EndTypes
<1>3. NetTypes' /\ Drops
  BY <1>1, EndTypes DEF NetTypes, Drops
<1>4. Shape'
  <2>1. ASSUME NEW s \in Sides PROVE OneFrame(s)' /\ Closes(s)'
    <3>1. OneFrame(s) /\ Closes(s)
      BY DEF ConnInv, Shape
    <3>2. CASE s = p
      <4>1. marked[p] /\ ~Pending(p) /\ ~Pending(p)' /\ closing[p] /\ sender[p] = "idle"
        BY <1>2, <3>1, <3>2 DEF Pending, Closes
      <4>2. OneFrame(p)'
        BY <3>1, <3>2, <4>1 DEF OneFrame, Alone
      <4>3. Closes(p)'
        BY <1>2, <4>1 DEF Closes
      <4> QED BY <3>2, <4>2, <4>3
    <3>3. CASE s # p
      <4>1. cpc'[s] = cpc[s]
        BY <1>2, <3>3
      <4> QED BY <3>1, <4>1 DEF OneFrame, Closes, Alone, Queued, Pending
    <3> QED BY <3>2, <3>3
  <2> QED BY <2>1 DEF Shape
<1> QED BY <1>2, <1>3, <1>4, EndTypes, EndsKeep

(* Close ends by a timer or a half-close that fails. *)
LEMMA CloseEndKeeps ==
    ASSUME ConnInv, NEW p \in Sides, CloseEnd(p)
    PROVE  ConnInv'
<1> USE DEF CloseEnd, writerVars, readerVars
<1>1. Shape'
  BY ShapeFrame DEF ConnInv
<1> QED BY <1>1, MarkClosedDrops, EndTypes, EndsKeep

(* The expiry timer fires. *)
LEMMA ExpireKeeps ==
    ASSUME ConnInv, NEW p \in Sides, Expire(p)
    PROVE  ConnInv'
<1> USE DEF Expire, writerVars, readerVars
<1>1. Shape'
  BY ShapeFrame DEF ConnInv
<1> QED BY <1>1, MarkClosedDrops, EndTypes, EndsKeep

-----------------------------------------------------------------------------
(* All steps.                                                              *)

(* The initial state. *)
LEMMA InitConn == Init => ConnInv
<1> SUFFICES ASSUME Init PROVE ConnInv
  OBVIOUS
<1>1. Sides = {"client", "server"} /\ NRequests \in Nat /\ QueueSize \in Nat
  BY RecoveryConnectionAssumption DEF Sides
<1>2. Len(<<>>) = 0 /\ <<>> \in Seq(Nat) /\ <<>> \in Seq(Frames)
  OBVIOUS
<1>3. TypeOK
  <2>1. /\ outbound \in [Sides -> Seq(Nat)] /\ held \in [Sides -> Seq(Nat)]
        /\ wire \in [Sides -> Seq(Frames)]
    BY <1>2 DEF Init, Each
  <2>2. \A p \in Sides : Len(outbound[p]) <= 2 /\ Len(held[p]) <= 1
    BY <1>2 DEF Init, Each
  <2>3. /\ nextSend \in [Sides -> 0..NRequests] /\ lastAckSent \in [Sides -> 0..NRequests]
        /\ lastRecv \in [Sides -> 0..NRequests]
        /\ incoming \in [Sides -> 0..QueueSize] /\ inbox \in [Sides -> 0..QueueSize]
    BY <1>1 DEF Init, Each
  <2>4. /\ sender \in [Sides -> {"idle", "verdict"}] /\ marked \in [Sides -> BOOLEAN]
        /\ rpc \in [Sides -> {"read", "drain", "detached"}]
        /\ closing \in [Sides -> BOOLEAN] /\ closed \in [Sides -> BOOLEAN]
        /\ cpc \in [Sides -> {"idle", "mark", "flush", "peer"}]
        /\ attached \in [Sides -> BOOLEAN] /\ late \in BOOLEAN
        /\ half \in [Sides -> {"open", "eof", "reset"}]
    BY DEF Init, Each
  <2> QED BY <2>1, <2>2, <2>3, <2>4 DEF TypeOK
<1>4. Counts
  BY <1>1 DEF Init, Counts, Sending, Each
<1>5. Shape
  BY DEF Init, Shape, OneFrame, Closes, Alone, Pending, Each
<1>6. Bounds
  BY PeerFacts DEF Init, Bounds, Each
<1>7. OnWire
  BY DEF Init, OnWire, Each
<1> QED BY <1>3, <1>4, <1>5, <1>6, <1>7 DEF ConnInv

(* A step that changes nothing. *)
LEMMA StutterConn == ConnInv /\ UNCHANGED vars => ConnInv'
<1> SUFFICES ASSUME ConnInv, UNCHANGED vars PROVE ConnInv'
  OBVIOUS
<1> USE DEF vars, writerVars, readerVars, queueVars, closeVars, netVars
<1>1. TypeOK'
  BY DEF ConnInv, TypeOK
<1>2. Counts' /\ Bounds' /\ Shape' /\ OnWire'
  BY CountsFrame, BoundsFrame, ShapeFrame, OnWireFrame DEF ConnInv, Drops
<1> QED BY <1>1, <1>2 DEF ConnInv

(* Every step. *)
LEMMA NextConn == ConnInv /\ Next => ConnInv'
<1> SUFFICES ASSUME ConnInv, Next PROVE ConnInv'
  OBVIOUS
<1>1. CASE SendRequest \/ Recv \/ Handle
  BY <1>1, SendRequestKeeps, RecvKeeps, HandleKeeps
<1>2. ASSUME NEW p \in Sides, WriterStep(p) PROVE ConnInv'
  BY <1>2, WriteAckKeeps, TakeFrameKeeps, TakeHeldKeeps, TakeMarkerKeeps, WritePingKeeps,
     WriteErrorKeeps DEF WriterStep
<1>3. ASSUME NEW p \in Sides, ReaderStep(p) PROVE ConnInv'
  BY <1>3, ReadDataKeeps, ReadAckKeeps, ReadCloseKeeps, DrainEndKeeps, ReadErrorKeeps
     DEF ReaderStep
<1>4. ASSUME NEW p \in Sides, Decode(p) \/ Close(p) \/ CloseStep(p) \/ Expire(p) PROVE ConnInv'
  BY <1>4, DecodeKeeps, CloseKeeps, CloseQueueKeeps, CloseWriteKeeps, CloseEndKeeps, ExpireKeeps
     DEF CloseStep
<1> QED BY <1>1, <1>2, <1>3, <1>4 DEF Next

(* The inductive invariant holds in every state: no counter passes         *)
(* NRequests, a Send has one frame between outbound and the writer's hand  *)
(* with the closing marker behind it, and only numbers that were given out *)
(* or received are on the wire.                                            *)
THEOREM ConnectionInvHolds == Spec => []ConnInv
<1>1. Init => ConnInv
  BY InitConn
<1>2. ConnInv /\ [Next]_vars => ConnInv'
  BY NextConn, StutterConn
<1> QED BY <1>1, <1>2, PTL DEF Spec

-----------------------------------------------------------------------------
(* The inductive invariant: a connection none of whose timers has fired.   *)

(* No end of the transport is lost. *)
Alive(p) == attached[p] /\ rpc[p] # "detached" /\ half[p] # "reset"

(* Who is closed, or reads EOF, has a peer whose writer has ended. *)
Finished(p) == marked[p] \/ closed[p]
BothEnd(p) ==
    /\ closed[p] => closing[p] /\ closing[Peer(p)] /\ Finished(Peer(p))
    /\ half[p] = "eof" => Finished(Peer(p))

(* CLOSE is the last frame, and there until it is read. *)
CloseLast(p) ==
    /\ \A i \in DOMAIN wire[p] :
          wire[p][i].kind = "close" => marked[Peer(p)] /\ i = Len(wire[p])
    /\ marked[Peer(p)] /\ ~closing[p] =>
          wire[p] # <<>> /\ wire[p][Len(wire[p])].kind = "close"

(* Every frame that was sent is received or on the wire, so that a reader  *)
(* that has come to CLOSE has received them all.                           *)
InFlight(p, k) == \E i \in DOMAIN wire[p] : wire[p][i] = Data(k)
AllSent(p) ==
    ~closed[p] => \A k \in Nat : lastRecv[p] < k /\ k <= nextSend[Peer(p)] => InFlight(p, k)
AllRead(p) ==
    rpc[p] = "drain" =>
       marked[Peer(p)] /\ closing[p] /\ wire[p] = <<>> /\ lastRecv[p] = nextSend[Peer(p)]

(* A side that its peer closes ends only when its streams have everything. *)
ByPeer(p) ==
    /\ closing[p] /\ cpc[p] = "idle" => rpc[p] = "drain"
    /\ closed[p] /\ cpc[p] = "idle" => incoming[p] = 0

Calm(p) == Alive(p) /\ BothEnd(p) /\ CloseLast(p) /\ AllSent(p) /\ AllRead(p) /\ ByPeer(p)
Quiet == \A p \in Sides : Calm(p)
QuietInv == ~late => Quiet

(* Neither the transport nor what was sent changes. *)
LEMMA QuietFrame ==
    ASSUME ConnInv, Quiet,
           UNCHANGED <<attached, rpc, half, closed, closing, marked, wire, lastRecv, nextSend>>,
           \A s \in Sides : cpc'[s] = "idle" => cpc[s] = "idle",
           \A s \in Sides : closed[s] => incoming'[s] = incoming[s]
    PROVE  Quiet'
<1> SUFFICES ASSUME NEW s \in Sides PROVE Calm(s)'
  BY DEF Quiet
<1>1. Calm(s)
  BY DEF Quiet
<1>2. Alive(s)' /\ BothEnd(s)'
  BY <1>1 DEF Calm, Alive, BothEnd, Finished
<1>3. CloseLast(s)'
  BY <1>1 DEF Calm, CloseLast
<1>4. AllSent(s)' /\ AllRead(s)'
  BY <1>1 DEF Calm, AllSent, AllRead, InFlight
<1>5. ByPeer(s)'
  BY <1>1 DEF Calm, BothEnd, ByPeer
<1> QED BY <1>2, <1>3, <1>4, <1>5 DEF Calm

(* A write of a side that runs reaches its peer. *)
LEMMA QuietPut ==
    ASSUME ConnInv, Quiet, NEW p \in Sides, NEW f, Writing(p), Put(p, f)
    PROVE  ~closed[Peer(p)] /\ UNCHANGED half /\ wire' = [wire EXCEPT ![Peer(p)] = Append(@, f)]
<1>1. Peer(p) \in Sides /\ Peer(Peer(p)) = p
  BY PeerFacts
<1>2. ~closed[Peer(p)]
  BY <1>1 DEF Quiet, Calm, BothEnd, Finished, Writing, Running
<1>3. attached[Peer(p)] /\ half[p] # "reset"
  BY <1>1 DEF Quiet, Calm, Alive
<1> QED BY <1>2, <1>3 DEF Put, Gone

(* A data frame or an ACK is put on the wire. *)
LEMMA PutQuiet ==
    ASSUME ConnInv, Quiet, NEW p \in Sides, NEW f \in Frames, ~marked[p], ~closed[p],
           ~closed[Peer(p)], wire' = [wire EXCEPT ![Peer(p)] = Append(@, f)],
           f.kind # "close",
           \/ nextSend' = nextSend
           \/ nextSend' = [nextSend EXCEPT ![p] = @ + 1] /\ f = Data(nextSend[p] + 1),
           UNCHANGED <<attached, rpc, half, closed, closing, marked, cpc, lastRecv, incoming>>
    PROVE  Quiet'
<1> DEFINE q == Peer(p)
<1>p. q \in Sides /\ q # p /\ Peer(q) = p /\ Peer(p) = q /\ \A s \in Sides : s = p \/ s = q
  BY PeerFacts
<1> HIDE DEF q
<1>t. wire \in [Sides -> Seq(Frames)] /\ nextSend \in [Sides -> Nat] /\ lastRecv \in [Sides -> Nat]
  BY CounterTypes DEF ConnInv, TypeOK
<1>w. wire'[p] = wire[p] /\ wire'[q] = Append(wire[q], f)
  BY <1>p, <1>t
<1>n. nextSend'[q] = nextSend[q]
  BY <1>p, <1>t
<1>1. Calm(p) /\ Calm(q)
  BY <1>p DEF Quiet
<1>2. Calm(p)'
  <2>1. Alive(p)' /\ BothEnd(p)' /\ ByPeer(p)'
    BY <1>1 DEF Calm, Alive, BothEnd, Finished, ByPeer
  <2>2. CloseLast(p)'
    BY <1>1, <1>w DEF Calm, CloseLast
  <2>3. AllSent(p)' /\ AllRead(p)'
    BY <1>1, <1>p, <1>w, <1>n DEF Calm, AllSent, AllRead, InFlight
  <2> QED BY <2>1, <2>2, <2>3 DEF Calm
<1>3. Calm(q)'
  <2>1. Alive(q)' /\ BothEnd(q)' /\ ByPeer(q)'
    BY <1>1 DEF Calm, Alive, BothEnd, Finished, ByPeer
  <2>2. CloseLast(q)'
    <3>1. \A i \in DOMAIN wire'[q] : wire'[q][i].kind # "close"
      <4>1. \A i \in DOMAIN wire[q] : wire[q][i].kind # "close"
        BY <1>1, <1>p DEF Calm, CloseLast
      <4> QED BY <1>p, <1>t, <1>w, <4>1, AppendFacts
    <3> QED BY <1>p, <3>1 DEF CloseLast
  <2>3. AllRead(q)'
    BY <1>1, <1>p DEF Calm, AllRead
  <2>4. AllSent(q)'
    <3> SUFFICES ASSUME NEW k \in Nat, lastRecv[q] < k, k <= nextSend'[p]
                 PROVE  InFlight(q, k)'
      BY <1>p DEF AllSent
    <3>1. CASE k <= nextSend[p]
      <4>1. PICK i \in DOMAIN wire[q] : wire[q][i] = Data(k)
        BY <1>1, <1>p, <3>1 DEF Calm, AllSent, InFlight, q
      <4>2. i \in DOMAIN wire'[q] /\ wire'[q][i] = Data(k)
        BY <1>p, <1>t, <1>w, <4>1, AppendFacts
      <4> QED BY <4>2 DEF InFlight
    <3>2. CASE ~(k <= nextSend[p])
      <4>1. nextSend[p] \in Nat /\ wire[q] \in Seq(Frames)
        BY <1>p, <1>t
      <4>2. nextSend'[p] = nextSend[p] + 1 /\ f = Data(nextSend[p] + 1)
        BY <1>t, <3>2
      <4>3. k = nextSend[p] + 1
        BY <3>2, <4>1, <4>2
      <4>4. Len(wire[q]) + 1 \in DOMAIN wire'[q] /\ wire'[q][Len(wire[q]) + 1] = f
        BY <1>w, <4>1, AppendFacts
      <4> QED BY <4>2, <4>3, <4>4 DEF InFlight
    <3> QED BY <3>1, <3>2
  <2> QED BY <2>1, <2>2, <2>3, <2>4 DEF Calm
<1> QED BY <1>p, <1>2, <1>3 DEF Quiet

(* CLOSE is put on the wire, as the last frame. *)
LEMMA TakeMarkerQuiet ==
    ASSUME ConnInv, Quiet, NEW p \in Sides, TakeMarker(p)
    PROVE  Quiet'
<1> USE DEF TakeMarker, readerVars, queueVars, closeVars
<1> DEFINE q == Peer(p)
<1>p. q \in Sides /\ q # p /\ Peer(q) = p /\ Peer(p) = q /\ \A s \in Sides : s = p \/ s = q
  BY PeerFacts
<1> HIDE DEF q
<1>t. wire \in [Sides -> Seq(Frames)] /\ marked \in [Sides -> BOOLEAN] /\ wire[q] \in Seq(Frames)
  BY <1>p DEF ConnInv, TypeOK
<1>1. Calm(p) /\ Calm(q)
  BY <1>p DEF Quiet
<1>2. Writing(p) /\ Put(p, CloseFrame)
  BY <1>1 DEF Calm, Alive, Writing, WriteClose
<1>3. ~closed[q] /\ half' = half /\ wire' = [wire EXCEPT ![q] = Append(@, CloseFrame)]
  BY <1>2, <1>p, QuietPut
<1>4. wire'[p] = wire[p] /\ wire'[q] = Append(wire[q], CloseFrame)
  BY <1>3, <1>p, <1>t
<1>5. marked'[p] /\ marked'[q] = marked[q] /\ ~marked[p] /\ ~closed[p]
  BY <1>p, <1>t DEF Running
<1>6. Calm(p)'
  <2>1. Alive(p)' /\ BothEnd(p)' /\ ByPeer(p)'
    BY <1>1, <1>3, <1>5, <1>p DEF Calm, Alive, BothEnd, Finished, ByPeer
  <2>2. CloseLast(p)'
    BY <1>1, <1>4, <1>5, <1>p DEF Calm, CloseLast
  <2>3. AllSent(p)' /\ AllRead(p)'
    BY <1>1, <1>4, <1>5, <1>p DEF Calm, AllSent, AllRead, InFlight
  <2> QED BY <2>1, <2>2, <2>3 DEF Calm
<1>7. Calm(q)'
  <2>1. Alive(q)' /\ BothEnd(q)' /\ ByPeer(q)'
    BY <1>1, <1>3, <1>5, <1>p DEF Calm, Alive, BothEnd, Finished, ByPeer
  <2>2. CloseFrame \in Frames /\ CloseFrame.kind = "close"
    BY RecoveryConnectionAssumption DEF CloseFrame, Frames
  <2>3. CloseLast(q)'
    <3>1. \A i \in DOMAIN wire[q] : wire[q][i].kind # "close"
      BY <1>1, <1>5, <1>p DEF Calm, CloseLast
    <3>2. /\ Len(wire'[q]) = Len(wire[q]) + 1 /\ wire'[q][Len(wire[q]) + 1] = CloseFrame
          /\ wire'[q] # <<>>
          /\ \A i \in DOMAIN wire'[q] : i = Len(wire'[q]) \/ wire'[q][i].kind # "close"
      BY <1>t, <1>4, <2>2, <3>1, AppendFacts
    <3> QED BY <1>5, <1>p, <2>2, <3>2 DEF CloseLast
  <2>4. AllRead(q)'
    BY <1>1, <1>5, <1>p DEF Calm, AllRead
  <2>5. AllSent(q)'
    <3> SUFFICES ASSUME NEW k \in Nat, lastRecv[q] < k, k <= nextSend[p]
                 PROVE  InFlight(q, k)'
      BY <1>p DEF AllSent
    <3>1. PICK i \in DOMAIN wire[q] : wire[q][i] = Data(k)
      BY <1>1, <1>3, <1>p DEF Calm, AllSent, InFlight
    <3>2. i \in DOMAIN wire'[q] /\ wire'[q][i] = Data(k)
      BY <1>t, <1>4, <2>2, <3>1, AppendFacts
    <3> QED BY <3>2 DEF InFlight
  <2> QED BY <2>1, <2>3, <2>4, <2>5 DEF Calm
<1> QED BY <1>p, <1>6, <1>7 DEF Quiet

(* A data frame or an ACK is read. *)
LEMMA TakeQuiet ==
    ASSUME ConnInv, Quiet, NEW p \in Sides, Reading(p), Head(wire[p]).kind # "close",
           wire' = [wire EXCEPT ![p] = Tail(@)],
           \/ UNCHANGED <<lastRecv, incoming>> /\ Head(wire[p]).kind # "data"
           \/ /\ Head(wire[p]).n = lastRecv[p] + 1
              /\ incoming' = [incoming EXCEPT ![p] = @ + 1]
              /\ lastRecv' = [lastRecv EXCEPT ![p] = @ + 1],
           UNCHANGED <<attached, rpc, half, closed, closing, marked, cpc, nextSend>>
    PROVE  Quiet'
<1> DEFINE q == Peer(p)
<1>p. q \in Sides /\ q # p /\ Peer(q) = p /\ Peer(p) = q /\ \A s \in Sides : s = p \/ s = q
  BY PeerFacts
<1> HIDE DEF q
<1>t. /\ wire \in [Sides -> Seq(Frames)] /\ wire[p] \in Seq(Frames) /\ wire[p] # <<>>
      /\ lastRecv \in [Sides -> Nat] /\ incoming \in [Sides -> Nat]
      /\ lastRecv[p] \in Nat /\ nextSend[q] \in Nat
  BY <1>p, CounterTypes DEF ConnInv, TypeOK, Reading
<1>w. wire'[q] = wire[q] /\ wire'[p] = Tail(wire[p])
  BY <1>p, <1>t
<1>n. lastRecv'[q] = lastRecv[q] /\ incoming'[q] = incoming[q]
  BY <1>p, <1>t
<1>1. Calm(p) /\ Calm(q)
  BY <1>p DEF Quiet
<1>r. rpc[p] = "read" /\ ~closed[p]
  BY DEF Reading
<1>2. Calm(q)'
  <2>1. Alive(q)' /\ BothEnd(q)' /\ ByPeer(q)'
    BY <1>1, <1>n DEF Calm, Alive, BothEnd, Finished, ByPeer
  <2>2. CloseLast(q)'
    BY <1>1, <1>w DEF Calm, CloseLast
  <2>3. AllSent(q)'
    <3>1. \A k : InFlight(q, k)' = InFlight(q, k)
      BY <1>w DEF InFlight
    <3> QED BY <1>1, <1>n, <3>1 DEF Calm, AllSent
  <2>4. AllRead(q)'
    BY <1>1, <1>w, <1>n DEF Calm, AllRead
  <2> QED BY <2>1, <2>2, <2>3, <2>4 DEF Calm
<1>3. Calm(p)'
  <2>1. Alive(p)' /\ BothEnd(p)' /\ AllRead(p)' /\ ByPeer(p)'
    BY <1>1, <1>r DEF Calm, Alive, BothEnd, Finished, AllRead, ByPeer
  <2>2. CloseLast(p)'
    <3> DEFINE w == wire[p]
    <3>1. /\ Len(Tail(w)) = Len(w) - 1 /\ Len(w) \in Nat /\ Len(w) > 0
          /\ \A i \in DOMAIN Tail(w) : i + 1 \in DOMAIN w /\ Tail(w)[i] = w[i + 1]
          /\ \A i \in DOMAIN w : i = 1 \/ (i - 1 \in DOMAIN Tail(w) /\ w[i] = Tail(w)[i - 1])
          /\ Head(w) = w[1] /\ Tail(w) \in Seq(Frames)
      BY <1>t, TailFacts
    <3>2. ASSUME NEW i \in DOMAIN Tail(w), Tail(w)[i].kind = "close"
          PROVE  marked[q] /\ i = Len(Tail(w))
      <4>1. i + 1 \in DOMAIN w /\ w[i + 1].kind = "close" /\ i \in Nat
        BY <3>1, <3>2
      <4>2. marked[q] /\ i + 1 = Len(w)
        BY <1>1, <1>p, <4>1 DEF Calm, CloseLast
      <4> QED BY <3>1, <4>1, <4>2
    <3>3. ASSUME marked[q], ~closing[p]
          PROVE  Tail(w) # <<>> /\ Tail(w)[Len(Tail(w))].kind = "close"
      <4>1. w[Len(w)].kind = "close"
        BY <1>1, <1>p, <3>3 DEF Calm, CloseLast
      <4>2. Len(w) # 1
        BY <3>1, <4>1
      <4>3. Len(w) \in DOMAIN w
        BY <1>t, <3>1
      <4>4. Len(w) - 1 \in DOMAIN Tail(w) /\ w[Len(w)] = Tail(w)[Len(w) - 1]
        BY <3>1, <4>2, <4>3
      <4>5. Tail(w) # <<>>
        <5>1. Len(Tail(w)) # 0
          BY <3>1, <4>2
        <5> QED BY <3>1, <5>1, EmptySeq
      <4> QED BY <3>1, <4>1, <4>4, <4>5
    <3> QED BY <1>p, <1>w, <3>2, <3>3 DEF CloseLast
  <2>3. AllSent(p)'
    <3> SUFFICES ASSUME NEW k \in Nat, lastRecv'[p] < k, k <= nextSend[q]
                 PROVE  InFlight(p, k)'
      BY <1>p DEF AllSent
    <3>1. lastRecv[p] < k /\ Head(wire[p]) # Data(k)
      <4>1. CASE lastRecv' = lastRecv /\ Head(wire[p]).kind # "data"
        BY <4>1 DEF Data
      <4>2. CASE Head(wire[p]).n = lastRecv[p] + 1 /\ lastRecv'[p] = lastRecv[p] + 1
        <5>1. lastRecv[p] < k /\ k # lastRecv[p] + 1
          BY <1>t, <4>2
        <5> QED BY <4>2, <5>1 DEF Data
      <4> QED BY <1>t, <4>1, <4>2
    <3>2. PICK i \in DOMAIN wire[p] : wire[p][i] = Data(k)
      BY <1>1, <1>p, <1>r, <3>1 DEF Calm, AllSent, InFlight
    <3>3. i - 1 \in DOMAIN Tail(wire[p]) /\ Tail(wire[p])[i - 1] = Data(k)
      BY <1>t, <3>1, <3>2, TailFacts
    <3> QED BY <1>w, <3>3 DEF InFlight
  <2> QED BY <2>1, <2>2, <2>3 DEF Calm
<1> QED BY <1>p, <1>2, <1>3 DEF Quiet

(* A reader that has come to CLOSE has nothing more to read. *)
LEMMA AtClose ==
    ASSUME ConnInv, Quiet, NEW p \in Sides, Reading(p), Head(wire[p]).kind = "close"
    PROVE  /\ marked[Peer(p)] /\ closing[Peer(p)] /\ Tail(wire[p]) = <<>>
           /\ lastRecv[p] = nextSend[Peer(p)]
<1> DEFINE w == wire[p]
<1>1. Peer(p) \in Sides /\ Calm(p) /\ w \in Seq(Frames) /\ w # <<>> /\ ~closed[p]
  BY PeerFacts DEF Quiet, ConnInv, TypeOK, Reading
<1> HIDE DEF w
<1>2. 1 \in DOMAIN w /\ w[1] = Head(w)
  BY <1>1
<1>3. marked[Peer(p)] /\ Len(w) = 1
  BY <1>1, <1>2 DEF Calm, CloseLast, w
<1>4. closing[Peer(p)]
  BY <1>1, <1>3 DEF ConnInv, Shape, Closes
<1>5. Tail(w) = <<>>
  <2>1. Tail(w) \in Seq(Frames) /\ Len(Tail(w)) = 0
    BY <1>1, <1>3, TailFacts
  <2> QED BY <2>1, EmptySeq
<1>6. lastRecv[p] = nextSend[Peer(p)]
  <2>1. lastRecv[p] \in Nat /\ nextSend[Peer(p)] \in Nat /\ lastRecv[p] <= nextSend[Peer(p)]
    BY <1>1, CounterTypes DEF ConnInv, Bounds
  <2>2. ASSUME lastRecv[p] < nextSend[Peer(p)] PROVE FALSE
    <3>1. PICK i \in DOMAIN w : w[i] = Data(nextSend[Peer(p)])
      BY <1>1, <2>1, <2>2 DEF Calm, AllSent, InFlight, w
    <3>2. i = 1
      BY <1>1, <1>3, <3>1
    <3> QED BY <1>2, <3>1, <3>2 DEF Data, w
  <2> QED BY <2>1, <2>2
<1> QED BY <1>3, <1>4, <1>5, <1>6 DEF w

(* CLOSE is read by a side that does not close itself. *)
LEMMA DrainQuiet ==
    ASSUME ConnInv, Quiet, NEW p \in Sides, ReadClose(p), ~closing[p]
    PROVE  Quiet'
<1> USE DEF ReadClose, writerVars, queueVars
<1> DEFINE q == Peer(p)
<1>p. q \in Sides /\ q # p /\ Peer(q) = p /\ Peer(p) = q /\ \A s \in Sides : s = p \/ s = q
  BY PeerFacts
<1> HIDE DEF q
<1>1. Calm(p) /\ Calm(q)
  BY <1>p DEF Quiet
<1>2. marked[q] /\ closing[q] /\ Tail(wire[p]) = <<>> /\ lastRecv[p] = nextSend[q]
  BY <1>p, AtClose
<1>3. /\ rpc'[p] = "drain" /\ rpc'[q] = rpc[q] /\ closing'[p] /\ closing'[q] = closing[q]
      /\ closed' = closed /\ half' = half
  BY <1>p, EndTypes
<1>4. wire'[p] = <<>> /\ wire'[q] = wire[q]
  BY <1>2, <1>p, EndTypes DEF NetTypes
<1>5. ~closed[p]
  BY DEF Reading
<1>6. Calm(p)'
  <2>1. Alive(p)' /\ BothEnd(p)' /\ ByPeer(p)'
    BY <1>1, <1>2, <1>3, <1>5, <1>p DEF Calm, Alive, BothEnd, Finished, ByPeer
  <2>2. CloseLast(p)'
    BY <1>3, <1>4 DEF CloseLast
  <2>3. AllRead(p)'
    BY <1>2, <1>3, <1>4, <1>p DEF AllRead
  <2>4. AllSent(p)'
    <3>1. nextSend[q] \in Nat
      BY <1>p, CounterTypes DEF ConnInv
    <3> QED BY <1>2, <1>p, <3>1 DEF AllSent
  <2> QED BY <2>1, <2>2, <2>3, <2>4 DEF Calm
<1>7. Calm(q)'
  <2>1. Alive(q)' /\ BothEnd(q)' /\ ByPeer(q)'
    BY <1>1, <1>3, <1>p DEF Calm, Alive, BothEnd, Finished, ByPeer
  <2>2. CloseLast(q)'
    BY <1>1, <1>3, <1>4, <1>p DEF Calm, CloseLast
  <2>3. AllSent(q)'
    <3>1. \A k : InFlight(q, k)' = InFlight(q, k)
      BY <1>4 DEF InFlight
    <3> QED BY <1>1, <1>3, <3>1 DEF Calm, AllSent
  <2>4. AllRead(q)'
    BY <1>1, <1>3, <1>4 DEF Calm, AllRead
  <2> QED BY <2>1, <2>2, <2>3, <2>4 DEF Calm
<1> QED BY <1>p, <1>6, <1>7 DEF Quiet

(* A side whose peer has ended is closed. *)
LEMMA EndQuiet ==
    ASSUME ConnInv, Quiet, NEW p \in Sides, MarkClosed(p, <<>>),
           closing[p], closing[Peer(p)], Finished(Peer(p)),
           cpc'[p] = "idle" => cpc[p] = "idle" /\ rpc[p] = "drain" /\ incoming[p] = 0,
           \A s \in Sides : s # p => cpc'[s] = cpc[s],
           UNCHANGED <<sender, writerVars, readerVars, queueVars, closing, attached>>
    PROVE  Quiet'
<1> USE DEF writerVars, readerVars, queueVars
<1> DEFINE q == Peer(p)
<1>p. q \in Sides /\ q # p /\ Peer(q) = p /\ Peer(p) = q /\ \A s \in Sides : s = p \/ s = q
  BY PeerFacts
<1> HIDE DEF q
<1>1. Calm(p) /\ Calm(q)
  BY <1>p DEF Quiet
<1>2. closed' = [closed EXCEPT ![p] = TRUE] /\ EndTransport(p, <<>>)
  BY <1>1 DEF MarkClosed, Calm, Alive
<1>3. wire' = [wire EXCEPT ![p] = <<>>] /\ half' = [half EXCEPT ![q] = "eof"]
  BY <1>1, <1>2, <1>p DEF EndTransport, Calm, Alive
<1>4. closed'[p] /\ closed'[q] = closed[q]
  BY <1>2, <1>p, EndTypes
<1>5. /\ wire'[p] = <<>> /\ wire'[q] = wire[q]
      /\ half'[q] = "eof" /\ half'[p] = half[p]
  BY <1>3, <1>p, EndTypes DEF NetTypes
<1>6. Finished(q)
  BY <1>p
<1>7. Calm(p)'
  <2>1. Alive(p)'
    BY <1>1, <1>5 DEF Calm, Alive
  <2>2. BothEnd(p)'
    BY <1>4, <1>6, <1>p DEF BothEnd, Finished
  <2>3. CloseLast(p)'
    BY <1>5 DEF CloseLast
  <2>4. AllSent(p)' /\ AllRead(p)'
    BY <1>1, <1>4, <1>5 DEF Calm, AllSent, AllRead
  <2>5. ByPeer(p)'
    BY DEF ByPeer
  <2> QED BY <2>1, <2>2, <2>3, <2>4, <2>5 DEF Calm
<1>8. Calm(q)'
  <2>1. cpc'[q] = cpc[q]
    BY <1>p
  <2>2. Alive(q)' /\ ByPeer(q)'
    BY <1>1, <1>4, <1>5, <2>1 DEF Calm, Alive, ByPeer
  <2>3. BothEnd(q)'
    BY <1>1, <1>4, <1>p DEF Calm, BothEnd, Finished
  <2>4. CloseLast(q)'
    BY <1>1, <1>5 DEF Calm, CloseLast
  <2>5. AllSent(q)'
    <3>1. \A k : InFlight(q, k)' = InFlight(q, k)
      BY <1>5 DEF InFlight
    <3> QED BY <1>1, <1>4, <3>1 DEF Calm, AllSent
  <2>6. AllRead(q)'
    BY <1>1, <1>5 DEF Calm, AllRead
  <2> QED BY <2>2, <2>3, <2>4, <2>5, <2>6 DEF Calm
<1> QED BY <1>p, <1>7, <1>8 DEF Quiet

(* A frame is staged, which writes it if it fits. *)
LEMMA StageQuiet ==
    ASSUME ConnInv, Quiet, NEW p \in Sides, NEW size, Running(p), Stage(p, size),
           TypeOK', UNCHANGED <<lastAckSent, marked, readerVars, queueVars, closeVars, attached>>
    PROVE  Quiet'
<1> USE DEF readerVars, queueVars, closeVars
<1>1. CASE UNCHANGED <<nextSend, wire, half>>
  BY <1>1, QuietFrame
<1>2. CASE /\ nextSend' = [nextSend EXCEPT ![p] = @ + 1]
           /\ IF attached[p] THEN Put(p, Data(nextSend[p] + 1)) ELSE UNCHANGED <<wire, half>>
  <2>1. attached[p] /\ ~marked[p] /\ ~closed[p]
    BY DEF Quiet, Calm, Alive, Running
  <2>2. PICK f : f = Data(nextSend[p] + 1)
    OBVIOUS
  <2>3. Writing(p) /\ Put(p, f)
    BY <1>2, <2>1, <2>2 DEF Writing, Running
  <2>4. ~closed[Peer(p)] /\ UNCHANGED half /\ wire' = [wire EXCEPT ![Peer(p)] = Append(@, f)]
    BY <2>3, QuietPut
  <2>5. f \in Frames /\ f.kind # "close"
    <3>1. nextSend'[p] = nextSend[p] + 1 /\ nextSend'[p] \in 0..NRequests
      <4>1. nextSend \in [Sides -> Nat]
        BY CounterTypes DEF ConnInv
      <4>2. nextSend' \in [Sides -> 0..NRequests]
        BY DEF TypeOK
      <4> QED BY <1>2, <4>1, <4>2
    <3> QED BY <2>2, <3>1 DEF Data, Frames
  <2> QED BY <1>2, <2>1, <2>2, <2>4, <2>5, PutQuiet
<1> QED BY <1>1, <1>2 DEF Stage

(* The writer: with both transports alive neither its heartbeat nor its    *)
(* writes meet a reset.                                                    *)
LEMMA WriterQuiet ==
    ASSUME ConnInv, ConnInv', Quiet, NEW p \in Sides, WriterStep(p)
    PROVE  Quiet'
<1> USE DEF readerVars, queueVars, closeVars, writerVars
<1>1. CASE WriteAck(p)
  <2>1. PICK f : f = Ack(lastRecv[p])
    OBVIOUS
  <2>2. lastRecv[p] \in 0..NRequests
    BY DEF ConnInv, TypeOK
  <2>3. f \in Frames /\ f.kind # "close"
    BY <2>1, <2>2 DEF Ack, Frames
  <2>4. ~closed[Peer(p)] /\ UNCHANGED half /\ wire' = [wire EXCEPT ![Peer(p)] = Append(@, f)]
    BY <1>1, <2>1, QuietPut DEF WriteAck
  <2> QED BY <1>1, <2>3, <2>4, PutQuiet DEF WriteAck, Writing, Running
<1>2. CASE TakeFrame(p)
  BY <1>2, StageQuiet DEF TakeFrame, ConnInv
<1>3. CASE TakeHeld(p)
  BY <1>3, StageQuiet DEF TakeHeld, ConnInv, Writing
<1>4. CASE TakeMarker(p)
  BY <1>4, TakeMarkerQuiet
<1>5. CASE WritePing(p)
  <2>1. Peer(p) \in Sides /\ Peer(Peer(p)) = p
    BY PeerFacts
  <2>2. closed[Peer(p)]
    BY <1>5, <2>1 DEF WritePing, Gone, Quiet, Calm, Alive
  <2> QED BY <1>5, <2>1, <2>2 DEF WritePing, Writing, Running, Quiet, Calm, BothEnd, Finished
<1>6. CASE WriteError(p)
  BY <1>6 DEF WriteError, Quiet, Calm, Alive
<1> QED BY <1>1, <1>2, <1>3, <1>4, <1>5, <1>6 DEF WriterStep

(* The reader, unless a timer ends closeByPeer: a read fails only behind   *)
(* the EOF of a peer that has ended, on a side that closes too.            *)
LEMMA ReaderQuiet ==
    ASSUME ConnInv, Quiet, NEW p \in Sides, ReaderStep(p), ~late'
    PROVE  Quiet'
<1> USE DEF readerVars, queueVars, closeVars, writerVars
<1>p. Peer(p) \in Sides /\ Peer(p) # p /\ Peer(Peer(p)) = p
  BY PeerFacts
<1>c. Calm(p) /\ Closes(p) /\ Closes(Peer(p))
  BY <1>p DEF Quiet, ConnInv, Shape
<1>1. CASE ReadData(p)
  BY <1>1, TakeQuiet DEF ReadData
<1>2. CASE ReadAck(p)
  BY <1>2, TakeQuiet DEF ReadAck
<1>3. CASE ReadClose(p)
  <2>1. CASE ~closing[p]
    BY <1>3, <2>1, DrainQuiet
  <2>2. CASE closing[p]
    <3>1. marked[Peer(p)] /\ closing[Peer(p)] /\ Tail(wire[p]) = <<>>
      BY <1>3, AtClose DEF ReadClose
    <3>2. MarkClosed(p, <<>>) /\ rpc' = rpc
      BY <1>3, <2>2, <3>1 DEF ReadClose
    <3>3. cpc[p] # "idle"
      BY <1>3, <1>c, <2>2 DEF ReadClose, Reading, Calm, ByPeer
    <3>4. closing' = closing
      BY <1>3, <2>2, EndTypes DEF ReadClose
    <3> QED BY <1>3, <2>2, <3>1, <3>2, <3>3, <3>4, EndQuiet DEF ReadClose, Finished
  <2> QED BY <2>1, <2>2
<1>4. CASE DrainEnd(p)
  <2>1. marked[Peer(p)] /\ closing[p] /\ wire[p] = <<>>
    BY <1>4, <1>c DEF DrainEnd, Calm, AllRead
  <2>2. closing[Peer(p)]
    BY <1>c, <2>1 DEF Closes
  <2>3. MarkClosed(p, <<>>) /\ incoming[p] = 0
    BY <1>4, <2>1 DEF DrainEnd, Drained
  <2> QED BY <1>4, <2>1, <2>2, <2>3, EndQuiet DEF DrainEnd, Finished
<1>5. CASE ReadError(p)
  <2>1. attached[p] /\ half[p] = "eof" /\ wire[p] = <<>>
    BY <1>5, <1>c DEF ReadError, Unreadable, Calm, Alive
  <2>2. Finished(Peer(p))
    BY <1>c, <2>1 DEF Calm, BothEnd
  <2>3. closing[Peer(p)]
    <3>1. CASE marked[Peer(p)]
      BY <1>c, <3>1 DEF Closes
    <3>2. CASE closed[Peer(p)]
      BY <1>p, <3>2 DEF Quiet, Calm, BothEnd
    <3> QED BY <2>2, <3>1, <3>2 DEF Finished
  <2>4. closing[p]
    <3>1. CASE marked[Peer(p)]
      BY <1>c, <2>1, <3>1 DEF Calm, CloseLast
    <3>2. CASE closed[Peer(p)]
      BY <1>p, <3>2 DEF Quiet, Calm, BothEnd
    <3> QED BY <2>2, <3>1, <3>2 DEF Finished
  <2>5. MarkClosed(p, <<>>) /\ UNCHANGED <<rpc, attached>>
    BY <1>5, <2>1, <2>4 DEF ReadError
  <2>6. cpc[p] # "idle"
    BY <1>5, <1>c, <2>4 DEF ReadError, Calm, ByPeer
  <2> QED BY <1>5, <2>2, <2>3, <2>4, <2>5, <2>6, EndQuiet DEF ReadError
<1> QED BY <1>1, <1>2, <1>3, <1>4, <1>5 DEF ReaderStep

(* The decode loop: of a closed side it runs no more. *)
LEMMA DecodeQuiet ==
    ASSUME ConnInv, Quiet, NEW p \in Sides, Decode(p)
    PROVE  Quiet'
<1> USE DEF Decode, readerVars, closeVars, writerVars, netVars
<1>1. incoming \in [Sides -> Nat]
  BY CounterTypes DEF ConnInv
<1>2. \A s \in Sides : closed[s] => incoming'[s] = incoming[s]
  BY <1>1
<1> QED BY <1>2, QuietFrame

(* Close begins: on a side that its peer already closes it ends at once,   *)
(* when CLOSE has been read and nothing is left to read.                   *)
LEMMA CloseQuiet ==
    ASSUME ConnInv, Quiet, NEW p \in Sides, Close(p)
    PROVE  Quiet'
<1> USE DEF Close, readerVars, writerVars, queueVars
<1> DEFINE q == Peer(p)
<1>p. q \in Sides /\ q # p /\ Peer(q) = p /\ Peer(p) = q /\ \A s \in Sides : s = p \/ s = q
  BY PeerFacts
<1> HIDE DEF q
<1>1. Calm(p) /\ Calm(q) /\ Closes(q)
  BY <1>p DEF Quiet, ConnInv, Shape
<1>2. cpc'[p] = "mark" /\ closing'[p] /\ cpc'[q] = cpc[q] /\ closing'[q] = closing[q]
  BY <1>p, EndTypes
<1>3. CASE closing[p]
  <2>1. rpc[p] = "drain"
    BY <1>1, <1>3 DEF Calm, ByPeer
  <2>2. marked[q] /\ wire[p] = <<>>
    BY <1>1, <1>p, <2>1 DEF Calm, AllRead
  <2>3. closing[q]
    BY <1>1, <2>2 DEF Closes
  <2>4. MarkClosed(p, <<>>) /\ closing' = closing
    BY <1>3, <2>2, EndTypes
  <2>5. \A s \in Sides : s # p => cpc'[s] = cpc[s]
    BY <1>2, <1>p
  <2> QED BY <1>2, <1>3, <1>p, <2>2, <2>3, <2>4, <2>5, EndQuiet DEF Finished
<1>4. CASE ~closing[p]
  <2>1. attached[p] /\ ~closed[q] /\ closed' = closed /\ wire' = wire /\ half' = half
    BY <1>1, <1>4, <1>p DEF Calm, Alive, BothEnd
  <2>2. Calm(p)'
    <3>1. Alive(p)' /\ BothEnd(p)' /\ ByPeer(p)'
      BY <1>1, <1>2, <2>1, <1>p DEF Calm, Alive, BothEnd, Finished, ByPeer
    <3>2. CloseLast(p)'
      BY <1>1, <1>2, <2>1, <1>p DEF Calm, CloseLast
    <3>3. AllSent(p)' /\ AllRead(p)'
      BY <1>1, <1>2, <2>1 DEF Calm, AllSent, AllRead, InFlight
    <3> QED BY <3>1, <3>2, <3>3 DEF Calm
  <2>3. Calm(q)'
    <3>1. Alive(q)' /\ BothEnd(q)' /\ ByPeer(q)'
      BY <1>1, <1>2, <2>1, <1>p DEF Calm, Alive, BothEnd, Finished, ByPeer
    <3>2. CloseLast(q)'
      BY <1>1, <1>2, <2>1, <1>p DEF Calm, CloseLast
    <3>3. AllSent(q)' /\ AllRead(q)'
      BY <1>1, <1>2, <2>1 DEF Calm, AllSent, AllRead, InFlight
    <3> QED BY <3>1, <3>2, <3>3 DEF Calm
  <2> QED BY <1>p, <2>2, <2>3 DEF Quiet
<1> QED BY <1>3, <1>4

(* The half-close: EOF is behind CLOSE. *)
LEMMA CloseWriteQuiet ==
    ASSUME ConnInv, Quiet, NEW p \in Sides, CloseWrite(p)
    PROVE  Quiet'
<1> USE DEF CloseWrite, readerVars, writerVars, queueVars
<1> SUFFICES ASSUME NEW s \in Sides PROVE Calm(s)'
  BY DEF Quiet
<1>p. Peer(p) \in Sides /\ Peer(p) # p /\ Peer(Peer(p)) = p
  BY PeerFacts
<1>1. Calm(s)
  BY DEF Quiet
<1>2. cpc'[s] = "idle" => cpc[s] = "idle"
  BY EndTypes
<1>3. half'[s] = half[s] \/ (half'[s] = "eof" /\ Peer(s) = p)
  BY <1>p, EndTypes DEF NetTypes
<1>4. Alive(s)' /\ BothEnd(s)'
  BY <1>1, <1>3 DEF Calm, Alive, BothEnd, Finished
<1>5. CloseLast(s)'
  BY <1>1 DEF Calm, CloseLast
<1>6. AllSent(s)' /\ AllRead(s)'
  BY <1>1 DEF Calm, AllSent, AllRead, InFlight
<1>7. ByPeer(s)'
  BY <1>1, <1>2 DEF Calm, ByPeer
<1> QED BY <1>4, <1>5, <1>6, <1>7 DEF Calm

(* Close, unless a timer ends it. *)
LEMMA CloseStepQuiet ==
    ASSUME ConnInv, Quiet, NEW p \in Sides, CloseStep(p), ~late'
    PROVE  Quiet'
<1>1. CASE CloseQueue(p)
  <2>1. \A s \in Sides : cpc'[s] = "idle" => cpc[s] = "idle"
    BY <1>1, EndTypes DEF CloseQueue
  <2> QED BY <1>1, <2>1, QuietFrame DEF CloseQueue, readerVars, queueVars, netVars
<1>2. CASE CloseWrite(p)
  BY <1>2, CloseWriteQuiet
<1>3. CASE CloseEnd(p)
  BY <1>3 DEF CloseEnd, HalfCloseFails, Quiet, Calm, Alive
<1> QED BY <1>1, <1>2, <1>3 DEF CloseStep

(* Every step; once a timer has fired QuietInv says nothing. *)
LEMMA NextQuiet == ConnInv /\ ConnInv' /\ QuietInv /\ Next => QuietInv'
<1> SUFFICES ASSUME ConnInv, ConnInv', QuietInv, Next, ~late' PROVE Quiet'
  BY DEF QuietInv
<1>1. ~late
  <2>1. late \in BOOLEAN /\ (late' = late \/ late' \in {late, TRUE})
    <3>1. late \in BOOLEAN
      BY EndTypes
    <3> QED BY <3>1 DEF Next, SendRequest, Recv, Handle, WriterStep, ReaderStep, CloseStep, Decode,
         Close, Expire, WriteAck, TakeFrame, TakeHeld, TakeMarker, WritePing, WriteError,
         ReadData, ReadAck, ReadClose, DrainEnd, ReadError, CloseQueue, CloseWrite, CloseEnd,
         closeVars
  <2> QED BY <2>1
<1>2. Quiet
  BY <1>1 DEF QuietInv
<1>3. CASE SendRequest
  BY <1>2, <1>3, QuietFrame DEF SendRequest, readerVars, queueVars, closeVars, netVars
<1>4. CASE Recv
  BY <1>2, <1>4, QuietFrame DEF Recv, writerVars, readerVars, closeVars, netVars
<1>5. CASE Handle
  BY <1>2, <1>5, QuietFrame DEF Handle, readerVars, closeVars, netVars
<1>6. ASSUME NEW p \in Sides, Expire(p) PROVE FALSE
  BY <1>2, <1>6 DEF Expire, Expires, Quiet, Calm, Alive
<1>7. ASSUME NEW p \in Sides,
             WriterStep(p) \/ ReaderStep(p) \/ Decode(p) \/ Close(p) \/ CloseStep(p)
      PROVE  Quiet'
  BY <1>2, <1>7, WriterQuiet, ReaderQuiet, DecodeQuiet, CloseQuiet, CloseStepQuiet
<1> QED BY <1>3, <1>4, <1>5, <1>6, <1>7 DEF Next

(* The initial state. *)
LEMMA InitQuiet == Init => QuietInv
<1> SUFFICES ASSUME Init, NEW p \in Sides PROVE Calm(p)
  BY DEF QuietInv, Quiet
<1>1. Peer(p) \in Sides
  BY PeerFacts
<1>2. Alive(p) /\ BothEnd(p) /\ AllRead(p) /\ ByPeer(p)
  BY <1>1 DEF Init, Each, Alive, BothEnd, AllRead, ByPeer
<1>3. CloseLast(p)
  BY <1>1 DEF Init, Each, CloseLast
<1>4. AllSent(p)
  BY <1>1 DEF Init, Each, AllSent
<1> QED BY <1>2, <1>3, <1>4 DEF Calm

(* A step that changes nothing. *)
LEMMA StutterQuiet == ConnInv /\ QuietInv /\ UNCHANGED vars => QuietInv'
<1> SUFFICES ASSUME ConnInv, QuietInv, UNCHANGED vars, ~late' PROVE Quiet'
  BY DEF QuietInv
<1> USE DEF vars, writerVars, readerVars, queueVars, closeVars, netVars
<1>1. Quiet
  BY DEF QuietInv
<1> QED BY <1>1, QuietFrame

(* In every state before a closeFlushTimeout timer fires, both ends are    *)
(* alive, CLOSE is the last frame and every frame that was sent is         *)
(* received or on its way to a reader that will come to it.                *)
THEOREM QuietInvHolds == Spec => []QuietInv
<1>1. Init => QuietInv
  BY InitQuiet
<1>2. ConnInv /\ ConnInv' /\ QuietInv /\ [Next]_vars => QuietInv'
  BY NextQuiet, StutterQuiet
<1> QED BY <1>1, <1>2, ConnectionInvHolds, PTL DEF Spec

(* Types: in particular the queues of a stream keep within streamQueueSize *)
(* and outbound within a frame and the marker, for all bounds.             *)
THEOREM ConnectionTypesHold == Spec => []TypeOK
<1>1. ConnInv => TypeOK
  BY DEF ConnInv
<1> QED BY <1>1, ConnectionInvHolds, PTL

(* "In v3 the peer then releases the connection at once instead of keeping *)
(* it for a reconnect": while no timer fires, neither side of a connection *)
(* that Close ends is ever detached, whether one side calls Close or both  *)
(* do, at any point of each other's.                                       *)
THEOREM CloseReleasesHolds == Spec => []CloseReleases
<1>1. QuietInv => CloseReleases
  BY DEF QuietInv, Quiet, Calm, Alive, CloseReleases
<1> QED BY <1>1, QuietInvHolds, PTL

(* Close "first delivers the messages already queued by Send": a Close     *)
(* that returns without a timer has handed all that Send accepted to the   *)
(* peer's streams, for any number of requests, sizes of frames and limits  *)
(* of buffers and queues.                                                  *)
THEOREM CloseDeliversHolds == Spec => []CloseDelivers
<1>1. ConnInv /\ QuietInv => CloseDelivers
  <2> SUFFICES ASSUME ConnInv, QuietInv, NEW p \in Sides, closed[p], cpc[Peer(p)] = "idle", ~late
               PROVE  lastRecv[Peer(p)] - incoming[Peer(p)] >= nextSend[p]
    BY DEF CloseDelivers
  <2> DEFINE q == Peer(p)
  <2>1. q \in Sides /\ Peer(q) = p /\ Peer(p) = q
    BY PeerFacts
  <2> HIDE DEF q
  <2>2. Calm(p) /\ Calm(q) /\ Closes(q) /\ cpc[q] = "idle"
    BY <2>1 DEF QuietInv, Quiet, ConnInv, Shape, q
  <2>3. closing[q] /\ Finished(q)
    BY <2>1, <2>2 DEF Calm, BothEnd
  <2>4. closed[q] /\ rpc[q] = "drain" /\ incoming[q] = 0
    BY <2>2, <2>3 DEF Finished, Closes, Calm, ByPeer
  <2>5. lastRecv[q] = nextSend[p]
    BY <2>1, <2>2, <2>4 DEF Calm, AllRead
  <2>6. nextSend[p] \in Nat
    BY CounterTypes DEF ConnInv
  <2>7. lastRecv[q] - incoming[q] >= nextSend[p]
    BY <2>4, <2>5, <2>6
  <2> QED BY <2>7 DEF q
<1> QED BY <1>1, ConnectionInvHolds, QuietInvHolds, PTL

-----------------------------------------------------------------------------
(* Induction, and the bytes of a slice.                                    *)

(* A set of natural numbers has a least element. *)
LEMMA Least ==
    ASSUME NEW T, T \subseteq Nat, T # {}
    PROVE  \E n \in T : \A m \in T : n <= m
<1>1. IsWellFoundedOn({ss \in Nat \X Nat : ss[1] < ss[2]}, Nat)
  BY NatLessThanWellFounded DEF OpToRel
<1>2. PICK n \in T : \A m \in T : ~ (<<m, n>> \in {ss \in Nat \X Nat : ss[1] < ss[2]})
  BY <1>1, WFMin
<1>3. ASSUME NEW m \in T PROVE n <= m
  <2>1. ~(m < n)
    BY <1>2
  <2> QED BY <2>1
<1> QED BY <1>3

(* Induction, for a set: what is left out has no least element. *)
LEMMA SetInduction ==
    ASSUME NEW S, 0 \in S, \A n \in Nat : n \in S => n + 1 \in S
    PROVE  \A n \in Nat : n \in S
<1> DEFINE T == Nat \ S
<1> SUFFICES ASSUME T # {} PROVE FALSE OBVIOUS
<1>1. PICK n \in T : \A m \in T : n <= m BY Least
<1>2. n \in Nat /\ n # 0 /\ n - 1 \in Nat /\ ~(n - 1 \in T) BY <1>1
<1>3. n - 1 + 1 = n BY <1>2
<1> QED BY <1>2, <1>3

(* frameRecord *)
Records == [seq : Nat, size : Nat]

(* f gives the sizes of the beginnings of fs. *)
IsSum(f, fs) ==
    /\ f \in [0..Len(fs) -> Int] /\ f[0] = 0
    /\ \A n \in 1..Len(fs) : f[n] = f[n - 1] + fs[n].size

(* There is such a function: one step longer for each frame. *)
LEMMA SumExists ==
    ASSUME NEW fs \in Seq(Records)
    PROVE  \E f : IsSum(f, fs)
<1> DEFINE P(f, m) == /\ f \in [0..m -> Int] /\ f[0] = 0
                      /\ \A n \in 1..m : f[n] = f[n - 1] + fs[n].size
           S == {m \in Nat : m <= Len(fs) => \E f : P(f, m)}
<1>1. 0 \in S
  <2>1. P([n \in 0..0 |-> 0], 0)
    OBVIOUS
  <2> QED BY <2>1
<1>2. ASSUME NEW m \in Nat, m \in S PROVE m + 1 \in S
  <2> SUFFICES ASSUME m + 1 <= Len(fs) PROVE \E f : P(f, m + 1)
    <3> HIDE DEF P
    <3> QED OBVIOUS
  <2>1. PICK f : P(f, m)
    BY <1>2
  <2>2. fs[m + 1].size \in Int
    <3>1. m + 1 \in 1..Len(fs) /\ \A i \in 1..Len(fs) : fs[i] \in Records
      OBVIOUS
    <3> QED BY <3>1 DEF Records
  <2> DEFINE g == [n \in 0..(m + 1) |-> IF n = m + 1 THEN f[m] + fs[m + 1].size ELSE f[n]]
  <2>3. g \in [0..(m + 1) -> Int] /\ g[0] = 0
    BY <2>1, <2>2
  <2>4. ASSUME NEW n \in 1..(m + 1) PROVE g[n] = g[n - 1] + fs[n].size
    BY <2>1
  <2> QED BY <2>3, <2>4
<1> HIDE DEF S
<1>3. \A m \in Nat : m \in S
  BY <1>1, <1>2, SetInduction
<1>4. Len(fs) \in S
  BY <1>3
<1> QED BY <1>4 DEF S, IsSum

(* What the recursive function in Bytes computes. *)
LEMMA BytesIsSum ==
    ASSUME NEW fs \in Seq(Records), NEW f, IsSum(f, fs)
    PROVE  Bytes(fs) = f[Len(fs)]
<1> DEFINE Eq(s) == s = [n \in 0..Len(fs) |-> IF n = 0 THEN 0 ELSE s[n - 1] + fs[n].size]
           sum == CHOOSE s : Eq(s)
<1>1. Bytes(fs) = sum[Len(fs)]
  BY DEF Bytes
<1>2. PICK s : IsSum(s, fs)
  BY SumExists
<1>3. Eq(s)
  <2>1. s = [n \in 0..Len(fs) |-> s[n]]
    BY <1>2 DEF IsSum
  <2>2. ASSUME NEW n \in 0..Len(fs)
        PROVE  s[n] = IF n = 0 THEN 0 ELSE s[n - 1] + fs[n].size
    <3>1. CASE n = 0
      BY <1>2, <3>1 DEF IsSum
    <3>2. CASE n # 0
      <4>1. n \in 1..Len(fs)
        BY <3>2
      <4> QED BY <1>2, <3>2, <4>1 DEF IsSum
    <3> QED BY <3>1, <3>2
  <2> QED BY <2>1, <2>2
<1>4. Eq(sum)
  BY <1>3
<1> HIDE DEF sum
<1>5. \A n \in 1..Len(fs) : sum[n] = sum[n - 1] + fs[n].size
  BY <1>4
<1>6. sum[0] = 0
  BY <1>4
<1>7. sum[Len(fs)] = f[Len(fs)]
  <2> DEFINE S == {m \in Nat : m <= Len(fs) => sum[m] = f[m]}
  <2>1. 0 \in S
    BY <1>6 DEF IsSum
  <2>2. ASSUME NEW m \in Nat, m \in S PROVE m + 1 \in S
    <3> SUFFICES ASSUME m + 1 <= Len(fs) PROVE sum[m + 1] = f[m + 1]
      OBVIOUS
    <3>1. sum[m] = f[m] /\ m + 1 \in 1..Len(fs) /\ (m + 1) - 1 = m
      BY <2>2
    <3> QED BY <1>5, <3>1 DEF IsSum
  <2> HIDE DEF S
  <2>3. Len(fs) \in S
    BY <2>1, <2>2, SetInduction
  <2> QED BY <2>3 DEF S
<1> QED BY <1>1, <1>7

(* No frames have no bytes. *)
LEMMA BytesNil == Bytes(<<>>) = 0
<1>1. <<>> \in Seq(Records) /\ Len(<<>>) = 0
  OBVIOUS
<1>2. PICK f : IsSum(f, <<>>)
  BY <1>1, SumExists
<1> QED BY <1>1, <1>2, BytesIsSum DEF IsSum

(* A frame adds its size. *)
LEMMA BytesAppend ==
    ASSUME NEW fs \in Seq(Records), NEW r \in Records
    PROVE  Bytes(Append(fs, r)) = Bytes(fs) + r.size /\ Bytes(fs) \in Int
<1> DEFINE gs == Append(fs, r)
<1>1. gs \in Seq(Records) /\ Len(gs) = Len(fs) + 1 /\ Len(fs) \in Nat /\ gs[Len(fs) + 1] = r
  OBVIOUS
<1>2. \A n \in 1..Len(fs) : gs[n] = fs[n]
  OBVIOUS
<1> HIDE DEF gs
<1>3. PICK f : IsSum(f, fs)
  BY SumExists
<1>4. PICK g : IsSum(g, gs)
  BY <1>1, SumExists
<1> DEFINE h == [n \in 0..Len(fs) |-> g[n]]
<1>5. IsSum(h, fs)
  <2>1. h \in [0..Len(fs) -> Int] /\ h[0] = 0
    BY <1>1, <1>4 DEF IsSum
  <2>2. ASSUME NEW n \in 1..Len(fs) PROVE h[n] = h[n - 1] + fs[n].size
    <3>1. n \in 1..Len(gs) /\ n - 1 \in 0..Len(fs) /\ n \in 0..Len(fs)
      BY <1>1
    <3>2. g[n] = g[n - 1] + gs[n].size
      BY <1>4, <3>1 DEF IsSum
    <3> QED BY <1>2, <3>1, <3>2
  <2> QED BY <2>1, <2>2 DEF IsSum
<1>6. Bytes(fs) = g[Len(fs)]
  <2>1. Len(fs) \in 0..Len(fs)
    BY <1>1
  <2>2. Bytes(fs) = h[Len(fs)]
    BY <1>5, BytesIsSum
  <2> QED BY <2>1, <2>2
<1>7. Bytes(gs) = g[Len(fs) + 1]
  BY <1>1, <1>4, BytesIsSum
<1>8. g[Len(fs) + 1] = g[Len(fs)] + r.size /\ g[Len(fs)] \in Int
  <2>1. Len(fs) + 1 \in 1..Len(gs) /\ (Len(fs) + 1) - 1 = Len(fs) /\ Len(fs) \in 0..Len(gs)
    BY <1>1
  <2> QED BY <1>1, <1>4, <2>1 DEF IsSum
<1> QED BY <1>6, <1>7, <1>8 DEF gs

(* The bytes of a slice are those of its two parts. *)
LEMMA BytesSplit ==
    ASSUME NEW fs \in Seq(Records), NEW k \in 0..Len(fs)
    PROVE  /\ Bytes(fs) = Bytes(SubSeq(fs, 1, k)) + Bytes(SubSeq(fs, k + 1, Len(fs)))
           /\ Bytes(SubSeq(fs, 1, k)) \in Int /\ Bytes(SubSeq(fs, k + 1, Len(fs))) \in Int
<1> DEFINE N == Len(fs)
           a == SubSeq(fs, 1, k)
           b == SubSeq(fs, k + 1, N)
<1>0. N \in Nat /\ k \in Nat /\ k <= N /\ \A i \in 1..N : fs[i] \in Records
  OBVIOUS
<1>1. a \in Seq(Records) /\ Len(a) = k /\ \A i \in 1..k : a[i] = fs[i]
  BY <1>0, SubSeqProperties
<1>2. b \in Seq(Records) /\ Len(b) = N - k /\ \A i \in 1..(N - k) : b[i] = fs[k + i]
  <2>1. \A i \in (k + 1)..N : fs[i] \in Records
    BY <1>0
  <2>2. /\ b \in Seq(Records) /\ Len(b) = IF k + 1 <= N THEN N - (k + 1) + 1 ELSE 0
        /\ \A i \in 1..(N - (k + 1) + 1) : b[i] = fs[(k + 1) + i - 1]
    BY <1>0, <2>1, SubSeqProperties
  <2>3. Len(b) = N - k
    BY <1>0, <2>2
  <2>4. ASSUME NEW i \in 1..(N - k) PROVE b[i] = fs[k + i]
    <3>1. i \in 1..(N - (k + 1) + 1) /\ (k + 1) + i - 1 = k + i
      BY <1>0
    <3> QED BY <2>2, <3>1
  <2> QED BY <2>2, <2>3, <2>4
<1> HIDE DEF N, a, b
<1>3. PICK f : IsSum(f, fs)
  BY SumExists
<1>f. f \in [0..N -> Int] /\ f[0] = 0 /\ \A n \in 1..N : f[n] = f[n - 1] + fs[n].size
  BY <1>3 DEF IsSum, N
<1> DEFINE g == [n \in 0..k |-> f[n]]
           h == [n \in 0..(N - k) |-> f[k + n] - f[k]]
<1>4. IsSum(g, a)
  <2>1. g \in [0..k -> Int] /\ g[0] = 0
    BY <1>0, <1>f
  <2>2. ASSUME NEW n \in 1..k PROVE g[n] = g[n - 1] + a[n].size
    <3>1. n \in 1..N /\ n - 1 \in 0..k /\ n \in 0..k
      BY <1>0
    <3> QED BY <1>1, <1>f, <3>1
  <2> QED BY <1>1, <2>1, <2>2 DEF IsSum
<1>5. IsSum(h, b)
  <2>1. \A n \in 0..(N - k) : f[k + n] \in Int /\ f[k] \in Int
    BY <1>0, <1>f
  <2>2. h \in [0..(N - k) -> Int] /\ h[0] = 0
    <3>1. h \in [0..(N - k) -> Int]
      BY <2>1
    <3>2. 0 \in 0..(N - k) /\ k + 0 = k /\ f[k] \in Int
      BY <1>0, <1>f
    <3>3. h[0] = f[k] - f[k]
      BY <3>2
    <3> QED BY <3>1, <3>2, <3>3
  <2>3. ASSUME NEW n \in 1..(N - k) PROVE h[n] = h[n - 1] + b[n].size
    <3>1. /\ k + n \in 1..N /\ n - 1 \in 0..(N - k) /\ n \in 0..(N - k)
          /\ (k + n) - 1 = k + (n - 1)
      BY <1>0
    <3>2. f[k + n] = f[k + (n - 1)] + fs[k + n].size /\ b[n] = fs[k + n]
      BY <1>2, <1>f, <3>1
    <3>3. f[k + (n - 1)] \in Int /\ f[k] \in Int /\ fs[k + n].size \in Int
      <4>1. fs[k + n] \in Records
        BY <1>0, <3>1
      <4>2. fs[k + n].size \in Int
        BY <4>1 DEF Records
      <4> QED BY <2>1, <3>1, <4>2
    <3> QED BY <3>1, <3>2, <3>3
  <2> QED BY <1>2, <2>2, <2>3 DEF IsSum
<1>6. Bytes(fs) = f[N] /\ f[N] \in Int /\ f[k] \in Int
  BY <1>0, <1>3, <1>f, BytesIsSum DEF N
<1>7. Bytes(a) = f[k]
  <2>1. Bytes(a) = g[k] /\ k \in 0..k
    BY <1>0, <1>1, <1>4, BytesIsSum
  <2> QED BY <2>1
<1>8. Bytes(b) = f[N] - f[k]
  <2>1. Bytes(b) = h[N - k] /\ N - k \in 0..(N - k) /\ k + (N - k) = N
    BY <1>0, <1>2, <1>5, BytesIsSum
  <2> QED BY <2>1
<1>9. Bytes(fs) = Bytes(a) + Bytes(b) /\ Bytes(a) \in Int /\ Bytes(b) \in Int
  BY <1>6, <1>7, <1>8
<1> QED BY <1>9 DEF a, b, N

-----------------------------------------------------------------------------
(* What the operations of the replay buffer keep.                          *)

Buffers == [frames : Seq(Records), head : Nat, usedBytes : Int, lastAcked : Nat, maxBytes : Nat]

(* A buffer that keeps the frames numbered up to last, as BufferExact has  *)
(* it.  What snapshots return follows from it.                             *)
Good(b, last) == b \in Buffers /\ BytesAreExact(b) /\ KeepsUpTo(b, last)

(* The frames kept, element by element. *)
LEMMA KeptFacts ==
    ASSUME NEW b \in Buffers, b.head <= Len(b.frames)
    PROVE  /\ Kept(b) \in Seq(Records) /\ Len(Kept(b)) = Len(b.frames) - b.head
           /\ \A i \in 1..(Len(b.frames) - b.head) : Kept(b)[i] = b.frames[b.head + i]
<1> DEFINE fs == b.frames
           h == b.head
           N == Len(b.frames)
<1>1. fs \in Seq(Records) /\ h \in Nat /\ N \in Nat /\ h <= N /\ N = Len(fs)
  BY DEF Buffers
<1>2. \A i \in (h + 1)..N : fs[i] \in Records
  BY <1>1
<1> HIDE DEF fs, h, N
<1>3. /\ SubSeq(fs, h + 1, N) \in Seq(Records)
      /\ Len(SubSeq(fs, h + 1, N)) = IF h + 1 <= N THEN N - (h + 1) + 1 ELSE 0
      /\ \A i \in 1..(N - (h + 1) + 1) : SubSeq(fs, h + 1, N)[i] = fs[(h + 1) + i - 1]
  BY <1>1, <1>2, SubSeqProperties
<1>4. Len(SubSeq(fs, h + 1, N)) = N - h
  BY <1>1, <1>3
<1>5. ASSUME NEW i \in 1..(N - h) PROVE SubSeq(fs, h + 1, N)[i] = fs[h + i]
  <2>1. i \in 1..(N - (h + 1) + 1) /\ (h + 1) + i - 1 = h + i
    BY <1>1
  <2> QED BY <1>3, <2>1
<1> QED BY <1>3, <1>4, <1>5 DEF Kept, fs, h, N

(* KeepsUpTo in terms of the slice. *)
LEMMA GoodFacts ==
    ASSUME NEW b, NEW last \in Nat, Good(b, last)
    PROVE  /\ b \in Buffers /\ b.frames \in Seq(Records) /\ b.head \in Nat /\ b.lastAcked \in Nat
           /\ b.usedBytes \in Int /\ b.maxBytes \in Nat
           /\ Len(b.frames) \in Nat /\ b.head <= Len(b.frames) /\ 2 * b.head <= Len(b.frames)
           /\ Len(b.frames) - b.head = last - b.lastAcked /\ b.lastAcked <= last
           /\ \A i \in 1..b.head : b.frames[i] = Nil
           /\ \A i \in (b.head + 1)..Len(b.frames) :
                 b.frames[i].seq = b.lastAcked + (i - b.head) /\ b.frames[i].size > 0
<1>1. /\ b \in Buffers /\ b.frames \in Seq(Records) /\ b.head \in Nat /\ b.lastAcked \in Nat
      /\ b.usedBytes \in Int /\ b.maxBytes \in Nat /\ Len(b.frames) \in Nat
  BY DEF Good, Buffers
<1>2. 2 * b.head <= Len(b.frames) /\ \A i \in 1..b.head : b.frames[i] = Nil
  BY DEF Good, KeepsUpTo
<1>3. b.head <= Len(b.frames)
  BY <1>1, <1>2
<1> DEFINE N == Len(b.frames) - b.head
<1>4. /\ Kept(b) \in Seq(Records) /\ Len(Kept(b)) = N
      /\ \A i \in 1..N : Kept(b)[i] = b.frames[b.head + i]
  BY <1>1, <1>3, KeptFacts
<1>5. N = last - b.lastAcked /\ b.lastAcked <= last
  BY <1>1, <1>3, <1>4 DEF Good, KeepsUpTo
<1>6. ASSUME NEW i \in (b.head + 1)..Len(b.frames)
      PROVE  b.frames[i].seq = b.lastAcked + (i - b.head) /\ b.frames[i].size > 0
  <2>1. i - b.head \in 1..N /\ b.head + (i - b.head) = i
    BY <1>1, <1>3
  <2>2. DOMAIN Kept(b) = 1..N
    BY <1>4
  <2>3. /\ Kept(b)[i - b.head].seq = b.lastAcked + (i - b.head)
        /\ Kept(b)[i - b.head].size > 0
    BY <2>1, <2>2 DEF Good, KeepsUpTo
  <2>4. Kept(b)[i - b.head] = b.frames[b.head + (i - b.head)]
    BY <1>4, <2>1
  <2> QED BY <2>1, <2>3, <2>4
<1> QED BY <1>1, <1>2, <1>3, <1>5, <1>6

(* ... and back. *)
LEMMA GoodFromSlice ==
    ASSUME NEW b \in Buffers, NEW last \in Nat, BytesAreExact(b),
           2 * b.head <= Len(b.frames), Len(b.frames) - b.head = last - b.lastAcked,
           \A i \in 1..b.head : b.frames[i] = Nil,
           \A i \in (b.head + 1)..Len(b.frames) :
              b.frames[i].seq = b.lastAcked + (i - b.head) /\ b.frames[i].size > 0
    PROVE  Good(b, last)
<1> DEFINE N == Len(b.frames) - b.head
<1>1. b.head \in Nat /\ Len(b.frames) \in Nat /\ b.lastAcked \in Nat
  BY DEF Buffers
<1>2. b.head <= Len(b.frames)
  BY <1>1
<1>3. /\ Kept(b) \in Seq(Records) /\ Len(Kept(b)) = N
      /\ \A i \in 1..N : Kept(b)[i] = b.frames[b.head + i]
  BY <1>2, KeptFacts
<1>4. ASSUME NEW i \in DOMAIN Kept(b)
      PROVE  Kept(b)[i].seq = b.lastAcked + i /\ Kept(b)[i].size > 0
  <2>1. i \in 1..N
    BY <1>3
  <2>2. b.head + i \in (b.head + 1)..Len(b.frames) /\ (b.head + i) - b.head = i
    BY <1>1, <1>2, <2>1
  <2> QED BY <1>3, <2>1, <2>2
<1> QED BY <1>3, <1>4 DEF Good, KeepsUpTo

(* newReplayBuffer. *)
LEMMA NewGood ==
    ASSUME NEW maxBytes \in Nat
    PROVE  Good(NewReplayBuffer(maxBytes), 0)
<1> DEFINE b == NewReplayBuffer(maxBytes)
<1>1. b \in Buffers /\ b.frames = <<>> /\ b.head = 0 /\ b.usedBytes = 0 /\ b.lastAcked = 0
      /\ b.maxBytes = maxBytes
  BY DEF Buffers, NewReplayBuffer
<1>2. Len(b.frames) = 0
  BY <1>1
<1> HIDE DEF b
<1>3. Kept(b) = <<>>
  BY <1>1, <1>2, SubSeqEmpty DEF Kept
<1>4. BytesAreExact(b)
  BY <1>1, <1>3, BytesNil DEF BytesAreExact
<1>5. Good(b, 0)
  BY <1>1, <1>2, <1>4, GoodFromSlice
<1> QED BY <1>5 DEF b

(* stage: a frame with the next number that fits. *)
LEMMA StagedGood ==
    ASSUME NEW b, NEW last \in Nat, Good(b, last), NEW size \in Nat \ {0}, Fits(b, size)
    PROVE  /\ Good(Staged(b, last + 1, size), last + 1)
           /\ Staged(b, last + 1, size).lastAcked = b.lastAcked
<1> DEFINE r == Record(last + 1, size)
           c == Staged(b, last + 1, size)
           fs == b.frames
<1>g. /\ b \in Buffers /\ fs \in Seq(Records) /\ b.usedBytes \in Int /\ b.maxBytes \in Nat
  BY GoodFacts
<1>a. PICK h \in Nat, la \in Nat, N \in Nat :
         /\ h = b.head /\ la = b.lastAcked /\ N = Len(fs)
         /\ h <= N /\ 2 * h <= N /\ N - h = last - la /\ la <= last
  BY GoodFacts
<1>b. h <= N /\ 2 * h <= N /\ N - h = last - la /\ la <= last
  BY <1>a
<1>s. /\ \A i \in 1..h : fs[i] = Nil
      /\ \A i \in (h + 1)..N : fs[i].seq = la + (i - h) /\ fs[i].size > 0
  BY <1>a, GoodFacts
<1>1. r \in Records /\ r.seq = last + 1 /\ r.size = size
  BY DEF Records, Record
<1>2. /\ c.frames = Append(fs, r) /\ c.head = h /\ c.usedBytes = b.usedBytes + size
      /\ c.lastAcked = la /\ c.maxBytes = b.maxBytes
  BY <1>g, <1>a DEF Staged, Buffers
<1>u. b.usedBytes + size \in Int
  BY <1>g
<1> HIDE DEF r
<1>3. /\ Append(fs, r) \in Seq(Records) /\ Len(Append(fs, r)) = N + 1
      /\ Append(fs, r)[N + 1] = r /\ \A i \in 1..N : Append(fs, r)[i] = fs[i]
  BY <1>g, <1>a, <1>1
<1>4. c \in Buffers
  BY <1>g, <1>u, <1>3 DEF Staged, Buffers, r
<1> HIDE DEF c, fs
<1>5. Len(c.frames) = N + 1 /\ c.frames[N + 1] = r /\ \A i \in 1..N : c.frames[i] = fs[i]
  BY <1>2, <1>3
<1>6. Kept(c) = Append(Kept(b), r) /\ Kept(b) \in Seq(Records)
  <2>m. PICK M \in Nat : M = N - h
    BY <1>b
  <2>1. /\ Kept(b) \in Seq(Records) /\ Len(Kept(b)) = M
        /\ \A i \in 1..M : Kept(b)[i] = fs[h + i]
    BY <1>g, <1>a, <2>m, KeptFacts DEF fs
  <2>2. h <= N + 1 /\ (N + 1) - h = M + 1
    BY <1>b, <2>m
  <2>3. /\ Kept(c) \in Seq(Records) /\ Len(Kept(c)) = M + 1
        /\ \A i \in 1..(M + 1) : Kept(c)[i] = c.frames[h + i]
    BY <1>2, <1>4, <1>5, <2>2, KeptFacts
  <2>4. /\ Append(Kept(b), r) \in Seq(Records) /\ Len(Append(Kept(b), r)) = M + 1
        /\ Append(Kept(b), r)[M + 1] = r /\ \A i \in 1..M : Append(Kept(b), r)[i] = Kept(b)[i]
    BY <1>1, <2>1
  <2>5. ASSUME NEW i \in 1..(M + 1) PROVE Kept(c)[i] = Append(Kept(b), r)[i]
    <3>1. CASE i = M + 1
      <4>1. h + i = N + 1
        BY <1>b, <2>m, <3>1
      <4> QED BY <1>5, <2>3, <2>4, <3>1, <4>1
    <3>2. CASE i # M + 1
      <4>1. i \in 1..M /\ h + i \in 1..N
        BY <1>b, <2>m, <3>2
      <4> QED BY <1>5, <2>1, <2>3, <2>4, <4>1
    <3> QED BY <3>1, <3>2
  <2> QED BY <2>1, <2>3, <2>4, <2>5, SeqEqual
<1>7. BytesAreExact(c)
  <2>1. Bytes(Kept(c)) = Bytes(Kept(b)) + size
    BY <1>1, <1>6, BytesAppend
  <2>2. b.usedBytes = Bytes(Kept(b)) /\ (b.maxBytes > 0 => b.usedBytes + size <= b.maxBytes)
    BY DEF Good, BytesAreExact, Fits
  <2> QED BY <1>2, <2>1, <2>2 DEF BytesAreExact
<1>8. ASSUME NEW i \in (h + 1)..(N + 1)
      PROVE  c.frames[i].seq = la + (i - h) /\ c.frames[i].size > 0
  <2>1. CASE i = N + 1
    <3>1. c.frames[i] = r
      BY <1>5, <2>1
    <3>2. la + (i - h) = last + 1
      BY <1>b, <2>1
    <3> QED BY <1>1, <3>1, <3>2
  <2>2. CASE i # N + 1
    <3>1. i \in (h + 1)..N /\ i \in 1..N
      BY <1>b, <2>2
    <3> QED BY <1>s, <1>5, <3>1
  <2> QED BY <2>1, <2>2
<1>9. \A i \in 1..h : c.frames[i] = Nil
  BY <1>b, <1>s, <1>5
<1>10. 2 * h <= N + 1 /\ (N + 1) - h = (last + 1) - la
  BY <1>b
<1>11. Good(c, last + 1)
  <2>1. \A i \in (h + 1)..(N + 1) : c.frames[i].seq = la + (i - h) /\ c.frames[i].size > 0
    BY <1>8
  <2>2. c.head = h /\ c.lastAcked = la /\ Len(c.frames) = N + 1
    BY <1>2, <1>5
  <2>3. last + 1 \in Nat
    OBVIOUS
  <2>4. /\ 2 * c.head <= Len(c.frames) /\ Len(c.frames) - c.head = (last + 1) - c.lastAcked
        /\ \A i \in 1..c.head : c.frames[i] = Nil
        /\ \A i \in (c.head + 1)..Len(c.frames) :
              c.frames[i].seq = c.lastAcked + (i - c.head) /\ c.frames[i].size > 0
    BY <1>9, <1>10, <2>1, <2>2, Zenon
  <2> QED BY <1>4, <1>7, <2>3, <2>4, GoodFromSlice
<1> QED BY <1>2, <1>11, <1>a DEF c

-----------------------------------------------------------------------------
(* The slice without its first h elements is the same however it is        *)
(* compacted.                                                              *)
LEMMA CompactFacts ==
    ASSUME NEW fs \in Seq(Records), NEW h \in 0..Len(fs)
    PROVE  /\ Compact(fs, h).frames \in Seq(Records) /\ Compact(fs, h).head \in Nat
           /\ 2 * Compact(fs, h).head <= Len(Compact(fs, h).frames)
           /\ Len(Compact(fs, h).frames) - Compact(fs, h).head = Len(fs) - h
           /\ \A i \in 1..Compact(fs, h).head : Compact(fs, h).frames[i] = Nil
           /\ \A i \in 1..(Len(fs) - h) :
                 Compact(fs, h).frames[Compact(fs, h).head + i] = fs[h + i]
<1> DEFINE c == Compact(fs, h)
<1>n. PICK N \in Nat : N = Len(fs)
  OBVIOUS
<1>h. h \in Nat /\ h <= N
  BY <1>n
<1>f. \A i \in 1..N : fs[i] \in Records
  BY <1>n
<1>1. CASE h = N
  <2>1. c.frames = <<>> /\ c.head = 0
    BY <1>n, <1>1 DEF Compact
  <2>2. <<>> \in Seq(Records) /\ Len(<<>>) = 0
    OBVIOUS
  <2>3. c.frames \in Seq(Records) /\ Len(c.frames) = 0
    BY <2>1, <2>2
  <2>4. N - h = 0
    BY <1>h, <1>1
  <2> HIDE DEF c
  <2>5. /\ c.frames \in Seq(Records) /\ c.head \in Nat /\ 2 * c.head <= Len(c.frames)
        /\ Len(c.frames) - c.head = N - h
        /\ \A i \in 1..c.head : c.frames[i] = Nil
        /\ \A i \in 1..(N - h) : c.frames[c.head + i] = fs[h + i]
    BY <2>1, <2>3, <2>4
  <2> QED BY <1>n, <2>5 DEF c
<1>2. CASE h # N /\ h > N \div 2
  <2>1. c.frames = SubSeq(fs, h + 1, N) /\ c.head = 0
    BY <1>n, <1>2 DEF Compact
  <2>2. \A i \in (h + 1)..N : fs[i] \in Records
    BY <1>h, <1>f
  <2>3. /\ c.frames \in Seq(Records) /\ Len(c.frames) = IF h + 1 <= N THEN N - (h + 1) + 1 ELSE 0
        /\ \A i \in 1..(N - (h + 1) + 1) : c.frames[i] = fs[(h + 1) + i - 1]
    BY <1>h, <2>1, <2>2, SubSeqProperties
  <2> HIDE DEF c
  <2>4. Len(c.frames) = N - h
    BY <1>h, <1>2, <2>3
  <2>5. ASSUME NEW i \in 1..(N - h) PROVE c.frames[c.head + i] = fs[h + i]
    <3>1. i \in 1..(N - (h + 1) + 1) /\ (h + 1) + i - 1 = h + i /\ 0 + i = i
      BY <1>h
    <3> QED BY <2>1, <2>3, <3>1
  <2>6. /\ c.head \in Nat /\ 2 * c.head <= Len(c.frames) /\ Len(c.frames) - c.head = N - h
        /\ \A i \in 1..c.head : c.frames[i] = Nil
    BY <1>h, <2>1, <2>4
  <2> QED BY <1>n, <2>3, <2>5, <2>6 DEF c
<1>3. CASE h # N /\ ~(h > N \div 2)
  <2> DEFINE gs == [i \in 1..N |-> IF i <= h THEN Nil ELSE fs[i]]
  <2>1. c.frames = gs /\ c.head = h
    <3>1. DOMAIN fs = 1..N
      BY <1>n
    <3> QED BY <1>n, <1>3, <3>1 DEF Compact
  <2>2. Nil \in Records
    BY DEF Nil, Record, Records
  <2>3. gs \in [1..N -> Records]
    BY <1>f, <2>2
  <2>4. gs \in Seq(Records) /\ Len(gs) = N
    BY <2>3
  <2>5. \A i \in 1..h : gs[i] = Nil
    BY <1>h
  <2>6. ASSUME NEW i \in 1..(N - h) PROVE gs[h + i] = fs[h + i]
    <3>1. h + i \in 1..N /\ ~(h + i <= h)
      BY <1>h
    <3> QED BY <3>1
  <2>7. 2 * h <= N
    BY <1>h, <1>3
  <2> HIDE DEF c, gs
  <2> QED BY <1>n, <1>h, <2>1, <2>4, <2>5, <2>6, <2>7 DEF c
<1> QED BY <1>1, <1>2, <1>3

(* The loop of ack drops the frames numbered up to n. *)
LEMMA DroppedFacts ==
    ASSUME NEW b, NEW last \in Nat, Good(b, last), NEW n \in Nat, b.lastAcked < n, n <= last
    PROVE  DroppedTo(b, n) = b.head + (n - b.lastAcked)
<1>a. PICK h \in Nat, la \in Nat, N \in Nat :
         /\ h = b.head /\ la = b.lastAcked /\ N = Len(b.frames)
         /\ h <= N /\ N - h = last - la /\ la <= last
  BY GoodFacts
<1>b. h <= N /\ N - h = last - la /\ la <= last /\ la < n
  BY <1>a
<1>s. \A i \in (h + 1)..N : b.frames[i].seq = la + (i - h)
  BY <1>a, GoodFacts
<1> DEFINE P(x) == /\ \A i \in (h + 1)..x : b.frames[i].seq <= n
                   /\ x < N => b.frames[x + 1].seq > n
           k == h + (n - la)
<1>1. k \in h..N /\ P(k)
  <2>1. k \in h..N
    BY <1>b
  <2>2. ASSUME NEW i \in (h + 1)..k PROVE b.frames[i].seq <= n
    <3>1. i \in (h + 1)..N /\ la + (i - h) <= n
      BY <1>b
    <3> QED BY <1>s, <3>1
  <2>3. ASSUME k < N PROVE b.frames[k + 1].seq > n
    <3>1. k + 1 \in (h + 1)..N /\ la + ((k + 1) - h) > n
      BY <1>b, <2>3
    <3> QED BY <1>s, <3>1
  <2> QED BY <2>1, <2>2, <2>3
<1>2. ASSUME NEW x \in h..N, P(x) PROVE x = k
  <2>1. x <= k
    <3>1. CASE x = h
      BY <1>b, <3>1
    <3>2. CASE x # h
      <4>1. x \in (h + 1)..N /\ x \in (h + 1)..x
        BY <1>b, <3>2
      <4>2. la + (x - h) <= n
        BY <1>2, <1>s, <4>1
      <4> QED BY <1>b, <4>2
    <3> QED BY <3>1, <3>2
  <2>2. k <= x
    <3>1. CASE x = N
      BY <1>b, <3>1
    <3>2. CASE x # N
      <4>1. x < N /\ x + 1 \in (h + 1)..N
        BY <1>b, <3>2
      <4>2. la + ((x + 1) - h) > n
        BY <1>2, <1>s, <4>1
      <4> QED BY <1>b, <4>2
    <3> QED BY <3>1, <3>2
  <2> QED BY <1>b, <2>1, <2>2
<1>3. DroppedTo(b, n) = CHOOSE x \in h..N : P(x)
  BY <1>a DEF DroppedTo
<1> HIDE DEF P, k
<1>4. (CHOOSE x \in h..N : P(x)) = k
  BY <1>1, <1>2
<1> QED BY <1>3, <1>4, <1>a DEF k

(* A slice has no negative size. *)
LEMMA BytesNat ==
    ASSUME NEW fs \in Seq(Records)
    PROVE  Bytes(fs) \in Nat
<1>n. PICK N \in Nat : N = Len(fs)
  OBVIOUS
<1>1. PICK f : IsSum(f, fs)
  BY SumExists
<1>f. f[0] = 0 /\ \A n \in 1..N : f[n] = f[n - 1] + fs[n].size
  BY <1>n, <1>1 DEF IsSum
<1>r. \A n \in 1..N : fs[n].size \in Nat
  <2>1. \A n \in 1..N : fs[n] \in Records
    BY <1>n
  <2> QED BY <2>1 DEF Records
<1> DEFINE S == {m \in Nat : m <= N => f[m] \in Nat}
<1>2. 0 \in S
  BY <1>f
<1>3. ASSUME NEW m \in Nat, m \in S PROVE m + 1 \in S
  <2> SUFFICES ASSUME m + 1 <= N PROVE f[m + 1] \in Nat
    OBVIOUS
  <2>1. f[m] \in Nat /\ m + 1 \in 1..N /\ (m + 1) - 1 = m
    BY <1>3
  <2>2. f[m + 1] = f[m] + fs[m + 1].size /\ fs[m + 1].size \in Nat
    BY <1>f, <1>r, <2>1
  <2> QED BY <2>1, <2>2
<1> HIDE DEF S
<1>4. N \in S
  BY <1>2, <1>3, SetInduction
<1>5. f[N] \in Nat
  BY <1>4 DEF S
<1> QED BY <1>n, <1>1, <1>5, BytesIsSum

(* A part of a slice, element by element. *)
LEMMA PartFacts ==
    ASSUME NEW fs \in Seq(Records), NEW a \in Nat, NEW c \in Nat, a <= c, c <= Len(fs)
    PROVE  /\ SubSeq(fs, a + 1, c) \in Seq(Records) /\ Len(SubSeq(fs, a + 1, c)) = c - a
           /\ \A i \in 1..(c - a) : SubSeq(fs, a + 1, c)[i] = fs[a + i]
<1> DEFINE t == SubSeq(fs, a + 1, c)
<1>1. \A i \in (a + 1)..c : fs[i] \in Records
  OBVIOUS
<1>2. /\ t \in Seq(Records) /\ Len(t) = IF a + 1 <= c THEN c - (a + 1) + 1 ELSE 0
      /\ \A i \in 1..(c - (a + 1) + 1) : t[i] = fs[(a + 1) + i - 1]
  BY <1>1, SubSeqProperties
<1> HIDE DEF t
<1>3. Len(t) = c - a
  BY <1>2
<1>4. ASSUME NEW i \in 1..(c - a) PROVE t[i] = fs[a + i]
  <2>1. i \in 1..(c - (a + 1) + 1) /\ (a + 1) + i - 1 = a + i
    OBVIOUS
  <2> QED BY <1>2, <2>1
<1> QED BY <1>2, <1>3, <1>4 DEF t

(* ack: any number up to the last one given out, old ones included. *)
LEMMA AckedGood ==
    ASSUME NEW b, NEW last \in Nat, Good(b, last), NEW n \in Nat, n <= last
    PROVE  Good(Acked(b, n), last) /\ Acked(b, n).lastAcked \in {b.lastAcked, n}
<1>t. CASE n <= b.lastAcked
  BY <1>t DEF Acked
<1>u. CASE ~(n <= b.lastAcked)
  <2> DEFINE fs == b.frames
             a == Acked(b, n)
  <2>g. /\ b \in Buffers /\ fs \in Seq(Records) /\ b.usedBytes \in Int /\ b.maxBytes \in Nat
    BY GoodFacts
  <2>a. PICK h \in Nat, la \in Nat, N \in Nat :
           /\ h = b.head /\ la = b.lastAcked /\ N = Len(fs)
           /\ h <= N /\ N - h = last - la /\ la <= last
    BY GoodFacts
  <2>b. h <= N /\ N - h = last - la /\ la <= last /\ la < n
    BY <1>u, <2>a
  <2>s. \A i \in (h + 1)..N : fs[i].seq = la + (i - h) /\ fs[i].size > 0
    BY <2>a, GoodFacts
  <2>k. PICK k \in Nat : k = h + (n - la)
    BY <2>b
  <2>l. h <= k /\ k <= N /\ N - k = last - n /\ k - h = n - la
    BY <2>b, <2>k
  <2>1. DroppedTo(b, n) = k
    BY <2>a, <2>b, <2>k, DroppedFacts
  <2>c. PICK c : c = Compact(fs, k)
    OBVIOUS
  <2>2. /\ c.frames \in Seq(Records) /\ c.head \in Nat /\ 2 * c.head <= Len(c.frames)
        /\ Len(c.frames) - c.head = N - k
        /\ \A i \in 1..c.head : c.frames[i] = Nil
        /\ \A i \in 1..(N - k) : c.frames[c.head + i] = fs[k + i]
    <3>1. k \in 0..Len(fs)
      BY <2>a, <2>l
    <3> QED BY <2>g, <2>a, <2>c, <3>1, CompactFacts
  <2>d. PICK dropped : dropped = SubSeq(fs, h + 1, k)
    OBVIOUS
  <2>3. /\ a.frames = c.frames /\ a.head = c.head /\ a.lastAcked = n
        /\ a.usedBytes = b.usedBytes - Bytes(dropped) /\ a.maxBytes = b.maxBytes
        /\ a = [frames |-> c.frames, head |-> c.head, usedBytes |-> b.usedBytes - Bytes(dropped),
                lastAcked |-> n, maxBytes |-> b.maxBytes]
    BY <1>u, <2>g, <2>a, <2>1, <2>c, <2>d DEF Acked, Buffers
  <2>4. dropped \in Seq(Records) /\ Len(dropped) = k - h /\ \A i \in 1..(k - h) : dropped[i] = fs[h + i]
    <3>1. h <= k /\ k <= Len(fs)
      BY <2>a, <2>l
    <3> HIDE DEF fs
    <3> QED BY <2>g, <2>d, <3>1, PartFacts
  <2>5. Bytes(dropped) \in Nat
    BY <2>4, BytesNat
  <2>6. a \in Buffers
    BY <2>g, <2>2, <2>3, <2>5 DEF Buffers
  <2> HIDE DEF a, fs
  <2>m. PICK M \in Nat, d \in Nat : M = N - h /\ d = k - h
    BY <2>b, <2>l
  <2>7. Kept(b) \in Seq(Records) /\ Len(Kept(b)) = M /\ \A i \in 1..M : Kept(b)[i] = fs[h + i]
    BY <2>g, <2>a, <2>m, KeptFacts DEF fs
  <2>8. a.head <= Len(a.frames) /\ Len(a.frames) - a.head = N - k
    <3>0. c.head \in Nat /\ c.frames \in Seq(Records)
      BY <2>2
    <3>1. PICK x \in Nat, y \in Nat : x = c.head /\ y = Len(c.frames)
      <4>1. Len(c.frames) \in Nat
        BY <3>0
      <4> QED BY <3>0, <4>1
    <3>2. 2 * x <= y /\ y - x = N - k
      BY <2>2, <3>1
    <3>3. x <= y
      BY <3>2
    <3> QED BY <2>3, <3>1, <3>2, <3>3
  <2>9. Kept(a) \in Seq(Records) /\ Len(Kept(a)) = N - k /\ \A i \in 1..(N - k) : Kept(a)[i] = fs[k + i]
    <3>1. \A i \in 1..(N - k) : Kept(a)[i] = a.frames[a.head + i]
      BY <2>6, <2>8, KeptFacts
    <3> QED BY <2>2, <2>3, <2>6, <2>8, <3>1, KeptFacts
  <2>10. SubSeq(Kept(b), 1, d) = dropped
    <3>1. d <= M /\ 0 + 1 = 1 /\ d - 0 = d
      BY <2>l, <2>m
    <3>2. /\ SubSeq(Kept(b), 1, d) \in Seq(Records) /\ Len(SubSeq(Kept(b), 1, d)) = d
          /\ \A i \in 1..d : SubSeq(Kept(b), 1, d)[i] = Kept(b)[0 + i]
      BY <2>7, <3>1, PartFacts
    <3>3. ASSUME NEW i \in 1..d PROVE SubSeq(Kept(b), 1, d)[i] = dropped[i]
      <4>1. i \in 1..M /\ 0 + i = i /\ i \in 1..(k - h)
        BY <3>1, <2>m
      <4> QED BY <2>4, <2>7, <3>2, <4>1
    <3> QED BY <2>4, <2>m, <3>2, <3>3, SeqEqual
  <2>11. SubSeq(Kept(b), d + 1, M) = Kept(a)
    <3>1. d <= M /\ M - d = N - k
      BY <2>l, <2>m
    <3>2. /\ SubSeq(Kept(b), d + 1, M) \in Seq(Records) /\ Len(SubSeq(Kept(b), d + 1, M)) = N - k
          /\ \A i \in 1..(N - k) : SubSeq(Kept(b), d + 1, M)[i] = Kept(b)[d + i]
      BY <2>7, <3>1, PartFacts
    <3>3. ASSUME NEW i \in 1..(N - k) PROVE SubSeq(Kept(b), d + 1, M)[i] = Kept(a)[i]
      <4>1. d + i \in 1..M /\ h + (d + i) = k + i
        BY <2>l, <2>m, <3>1
      <4> QED BY <2>7, <2>9, <3>2, <4>1
    <3> QED BY <2>9, <3>2, <3>3, SeqEqual
  <2>12. BytesAreExact(a)
    <3>1. Bytes(Kept(b)) = Bytes(dropped) + Bytes(Kept(a))
      <4>1. d \in 0..Len(Kept(b))
        BY <2>7, <2>l, <2>m
      <4> QED BY <2>7, <2>10, <2>11, <4>1, BytesSplit
    <3>2. Bytes(Kept(a)) \in Nat
      BY <2>9, BytesNat
    <3>3. b.usedBytes = Bytes(Kept(b)) /\ (b.maxBytes > 0 => b.usedBytes <= b.maxBytes)
      BY DEF Good, BytesAreExact
    <3> QED BY <2>g, <2>3, <2>5, <3>1, <3>2, <3>3 DEF BytesAreExact
  <2>13. /\ 2 * a.head <= Len(a.frames) /\ Len(a.frames) - a.head = last - a.lastAcked
         /\ \A i \in 1..a.head : a.frames[i] = Nil
    BY <2>2, <2>3, <2>8, <2>l
  <2>14. ASSUME NEW i \in (a.head + 1)..Len(a.frames)
         PROVE  a.frames[i].seq = a.lastAcked + (i - a.head) /\ a.frames[i].size > 0
    <3>1. PICK x \in Nat, y \in Nat : x = a.head /\ y = Len(a.frames)
      BY <2>2, <2>3
    <3>2. i \in (x + 1)..y /\ y - x = N - k
      BY <2>8, <3>1
    <3>3. PICK j \in 1..(N - k) : j = i - x
      BY <3>2
    <3>4. x + j = i /\ k + j \in (h + 1)..N /\ la + ((k + j) - h) = n + j
      BY <2>b, <2>k, <2>l, <3>2, <3>3
    <3>5. a.frames[i] = fs[k + j]
      BY <2>2, <2>3, <3>1, <3>4
    <3>6. fs[k + j].seq = n + j /\ fs[k + j].size > 0
      BY <2>s, <3>4
    <3> QED BY <2>3, <3>1, <3>3, <3>5, <3>6
  <2>15. Good(a, last)
    BY <2>6, <2>12, <2>13, <2>14, GoodFromSlice
  <2> QED BY <2>3, <2>15 DEF a
<1> QED BY <1>t, <1>u

(* snapshotFrom: the numbers in the buffer grow, so the search has one     *)
(* result.                                                                 *)
LEMMA SnapshotsGood ==
    ASSUME NEW b, NEW last \in Nat, Good(b, last)
    PROVE  SnapshotsAreExact(b, last)
<1> DEFINE kept == Kept(b)
<1>a. PICK la \in Nat, M \in Nat : la = b.lastAcked /\ M = Len(kept) /\ M = last - la
  <2>1. b \in Buffers /\ b.head <= Len(b.frames) /\ b.lastAcked \in Nat
    BY GoodFacts
  <2>2. Kept(b) \in Seq(Records)
    BY <2>1, KeptFacts
  <2>3. Len(Kept(b)) \in Nat /\ Len(Kept(b)) = last - b.lastAcked
    BY <2>2 DEF Good, KeepsUpTo
  <2> QED BY <2>1, <2>3
<1>s. DOMAIN kept = 1..M /\ \A i \in 1..M : kept[i].seq = la + i
  <2>1. b \in Buffers /\ b.head <= Len(b.frames)
    BY GoodFacts
  <2>2. Kept(b) \in Seq(Records)
    BY <2>1, KeptFacts
  <2>3. DOMAIN kept = 1..M
    <3>1. DOMAIN Kept(b) = 1..Len(Kept(b))
      BY <2>2
    <3> QED BY <1>a, <3>1
  <2> QED BY <1>a, <2>3 DEF Good, KeepsUpTo
<1>m. M = last - la
  BY <1>a
<1> SUFFICES ASSUME NEW n \in 0..last
             PROVE  \E k \in 0..Len(Kept(b)) :
                       /\ \A i \in DOMAIN Kept(b) : Kept(b)[i].seq > n <=> i > k
                       /\ SnapshotFrom(b, n) = SubSeq(Kept(b), k + 1, Len(Kept(b)))
  BY DEF SnapshotsAreExact
<1> DEFINE P(k) == (k < M => kept[k + 1].seq > n) /\ (k > 0 => kept[k].seq <= n)
<1>1. \E k \in 0..M : P(k)
  <2>1. CASE n <= la
    <3>1. 0 \in 0..M /\ (0 < M => 0 + 1 \in 1..M /\ la + (0 + 1) > n)
      BY <2>1
    <3>2. P(0)
      BY <1>s, <3>1
    <3> QED BY <3>1, <3>2
  <2>2. CASE ~(n <= la)
    <3>1. PICK k \in 0..M : k = n - la /\ k > 0
      BY <1>m, <2>2
    <3>2. k \in 1..M /\ la + k <= n /\ (k < M => k + 1 \in 1..M /\ la + (k + 1) > n)
      BY <3>1
    <3>3. P(k)
      BY <1>s, <3>2
    <3> QED BY <3>3
  <2> QED BY <2>1, <2>2
<1> DEFINE start == CHOOSE k \in 0..M : P(k)
<1>2. SnapshotFrom(b, n) = SubSeq(kept, start + 1, M)
  BY <1>a DEF SnapshotFrom
<1>3. start \in 0..M /\ P(start)
  <2> HIDE DEF P
  <2> QED BY <1>1
<1> HIDE DEF start
<1>4. ASSUME NEW i \in 1..M PROVE kept[i].seq > n <=> i > start
  <2>1. kept[i].seq = la + i
    BY <1>s
  <2>2. CASE i > start
    <3>1. start < M /\ start + 1 \in 1..M
      BY <1>3, <2>2
    <3>2. la + (start + 1) > n
      BY <1>3, <1>s, <3>1
    <3> QED BY <1>3, <2>1, <2>2, <3>2
  <2>3. CASE ~(i > start)
    <3>1. start > 0 /\ start \in 1..M
      BY <1>3, <2>3
    <3>2. la + start <= n
      BY <1>3, <1>s, <3>1
    <3> QED BY <1>3, <2>1, <2>3, <3>2
  <2> QED BY <2>2, <2>3
<1> QED BY <1>2, <1>3, <1>4, <1>a, <1>s

-----------------------------------------------------------------------------
(* The inductive invariant: the replay buffers.                            *)

Keeping(p) == Good(replay[p], nextSend[p]) /\ replay[p].lastAcked <= lastRecv[Peer(p)]
BufferInv == replay \in [Sides -> Buffers] /\ \A p \in Sides : Keeping(p)

(* The buffers are left alone and receivers go on. *)
LEMMA BufferFrame ==
    ASSUME ConnInv, BufferInv, UNCHANGED <<replay, nextSend>>,
           \A s \in Sides : lastRecv'[s] \in Nat /\ lastRecv'[s] >= lastRecv[s]
    PROVE  BufferInv'
<1> SUFFICES ASSUME NEW p \in Sides PROVE Keeping(p)'
  BY DEF BufferInv
<1>1. Peer(p) \in Sides /\ Keeping(p) /\ lastRecv[Peer(p)] \in Nat /\ nextSend[p] \in Nat
  BY PeerFacts, CounterTypes DEF BufferInv, ConnInv
<1>2. replay[p].lastAcked \in Nat
  BY <1>1, GoodFacts DEF Keeping
<1>3. lastRecv'[Peer(p)] \in Nat /\ lastRecv'[Peer(p)] >= lastRecv[Peer(p)]
  BY <1>1
<1>4. replay[p].lastAcked <= lastRecv'[Peer(p)]
  BY <1>1, <1>2, <1>3 DEF Keeping
<1> QED BY <1>1, <1>4 DEF Keeping

(* A frame is staged: it is refused, held or appended. *)
LEMMA StageBuffer ==
    ASSUME ConnInv, BufferInv, NEW p \in Sides, NEW size \in Sizes(p), Stage(p, size),
           UNCHANGED lastRecv
    PROVE  BufferInv'
<1>t. lastRecv \in [Sides -> Nat] /\ nextSend \in [Sides -> Nat]
  BY CounterTypes DEF ConnInv
<1>1. CASE UNCHANGED <<nextSend, replay>>
  <2>1. \A s \in Sides : lastRecv'[s] \in Nat /\ lastRecv'[s] >= lastRecv[s]
    BY <1>t
  <2> QED BY <1>1, <2>1, BufferFrame
<1>2. CASE /\ Fits(replay[p], size) /\ nextSend' = [nextSend EXCEPT ![p] = @ + 1]
           /\ replay' = [replay EXCEPT ![p] = Staged(@, nextSend[p] + 1, size)]
  <2>1. size \in Nat \ {0} /\ nextSend[p] \in Nat /\ Keeping(p)
    BY <1>t, SizeFacts DEF BufferInv
  <2> DEFINE b == Staged(replay[p], nextSend[p] + 1, size)
  <2>2. Good(b, nextSend[p] + 1) /\ b.lastAcked = replay[p].lastAcked
    BY <1>2, <2>1, StagedGood DEF Keeping
  <2>3. replay \in [Sides -> Buffers] /\ b \in Buffers
    BY <2>2 DEF BufferInv, Good
  <2> HIDE DEF b
  <2>4. /\ replay' \in [Sides -> Buffers] /\ replay'[p] = b
        /\ \A s \in Sides : s # p => replay'[s] = replay[s]
    <3>1. replay' = [replay EXCEPT ![p] = b]
      BY <1>2 DEF b
    <3> QED BY <2>3, <3>1
  <2>5. nextSend'[p] = nextSend[p] + 1 /\ \A s \in Sides : s # p => nextSend'[s] = nextSend[s]
    BY <1>2, <1>t
  <2>6. ASSUME NEW s \in Sides PROVE Keeping(s)'
    <3>1. CASE s = p
      BY <2>1, <2>2, <2>4, <2>5, <3>1 DEF Keeping
    <3>2. CASE s # p
      BY <2>4, <2>5, <3>2 DEF BufferInv, Keeping
    <3> QED BY <3>1, <3>2
  <2> QED BY <2>4, <2>6 DEF BufferInv
<1> QED BY <1>1, <1>2 DEF Stage

(* An ACK is read: OnWire and Bounds give what acknowledging needs, that   *)
(* its number was received and so had been sent.                           *)
LEMMA ReadAckBuffer ==
    ASSUME ConnInv, BufferInv, NEW p \in Sides, ReadAck(p)
    PROVE  BufferInv'
<1> USE DEF ReadAck, writerVars, readerVars
<1>p. Peer(p) \in Sides /\ Peer(Peer(p)) = p
  BY PeerFacts
<1>t. nextSend[p] \in Nat /\ lastRecv[Peer(p)] \in Nat /\ Keeping(p)
      /\ lastRecv[Peer(p)] <= nextSend[p] /\ replay \in [Sides -> Buffers]
  BY <1>p, CounterTypes DEF ConnInv, Bounds, BufferInv
<1>1. PICK n \in Nat : n = Head(wire[p]).n /\ n <= lastRecv[Peer(p)]
  <2>1. wire[p] \in Seq(Frames) /\ wire[p] # <<>>
    BY DEF ConnInv, TypeOK, Reading
  <2>2. Head(wire[p]) = wire[p][1] /\ 1 \in DOMAIN wire[p] /\ Head(wire[p]) \in Frames
    BY <2>1
  <2>3. Sent(p, Head(wire[p]))
    BY <2>2 DEF ConnInv, OnWire
  <2>4. Head(wire[p]).n \in Nat
    BY <2>2, RecoveryConnectionAssumption DEF Frames
  <2> QED BY <2>3, <2>4 DEF Sent
<1>2. n <= nextSend[p]
  BY <1>t, <1>1
<1> DEFINE b == Acked(replay[p], n)
<1>3. Good(b, nextSend[p]) /\ b.lastAcked \in {replay[p].lastAcked, n}
  BY <1>t, <1>2, AckedGood DEF Keeping
<1>4. b \in Buffers
  BY <1>3 DEF Good
<1> HIDE DEF b
<1>5. /\ replay' \in [Sides -> Buffers] /\ replay'[p] = b
      /\ \A s \in Sides : s # p => replay'[s] = replay[s]
  <2>1. replay' = [replay EXCEPT ![p] = b]
    BY <1>1 DEF b
  <2> QED BY <1>t, <1>4, <2>1
<1>6. ASSUME NEW s \in Sides PROVE Keeping(s)'
  <2>1. CASE s = p
    <3>1. b.lastAcked <= lastRecv[Peer(p)]
      BY <1>t, <1>1, <1>3 DEF Keeping
    <3> QED BY <1>3, <1>5, <2>1, <3>1 DEF Keeping
  <2>2. CASE s # p
    BY <1>5, <2>2 DEF BufferInv, Keeping
  <2> QED BY <2>1, <2>2
<1> QED BY <1>5, <1>6 DEF BufferInv

(* The initial state. *)
LEMMA InitBuffer == Init => BufferInv
<1> SUFFICES ASSUME Init PROVE BufferInv
  OBVIOUS
<1>1. ASSUME NEW p \in Sides PROVE Keeping(p) /\ replay[p] \in Buffers
  <2> DEFINE m == IF p = "client" THEN ClientBytes ELSE ServerBytes
  <2>1. m \in Nat
    BY RecoveryConnectionAssumption
  <2>2. replay[p] = NewReplayBuffer(m) /\ nextSend[p] = 0
    BY DEF Init, Each
  <2> HIDE DEF m
  <2>3. Good(replay[p], 0) /\ replay[p].lastAcked = 0
    BY <2>1, <2>2, NewGood DEF NewReplayBuffer
  <2>4. lastRecv[Peer(p)] = 0
    BY PeerFacts DEF Init, Each
  <2> QED BY <2>2, <2>3, <2>4 DEF Keeping, Good
<1>2. replay \in [Sides -> Buffers]
  BY <1>1 DEF Init
<1> QED BY <1>1, <1>2 DEF BufferInv

(* Every step: only staging and acknowledging touch a buffer. *)
LEMMA NextBuffer == ConnInv /\ BufferInv /\ [Next]_vars => BufferInv'
<1> SUFFICES ASSUME ConnInv, BufferInv, [Next]_vars PROVE BufferInv'
  OBVIOUS
<1>t. lastRecv \in [Sides -> Nat]
  BY CounterTypes DEF ConnInv
<1>1. CASE UNCHANGED <<replay, nextSend, lastRecv>>
  <2>1. \A s \in Sides : lastRecv'[s] \in Nat /\ lastRecv'[s] >= lastRecv[s]
    BY <1>t, <1>1
  <2> QED BY <1>1, <2>1, BufferFrame
<1>2. ASSUME NEW p \in Sides, TakeFrame(p) PROVE BufferInv'
  BY <1>2, TakeFrameStages, StageBuffer DEF TakeFrame, readerVars
<1>3. ASSUME NEW p \in Sides, TakeHeld(p) PROVE BufferInv'
  BY <1>3, TakeHeldStages, StageBuffer DEF TakeHeld, readerVars
<1>4. ASSUME NEW p \in Sides, ReadAck(p) PROVE BufferInv'
  BY <1>4, ReadAckBuffer
<1>5. ASSUME NEW p \in Sides, ReadData(p) PROVE BufferInv'
  <2>1. \A s \in Sides : lastRecv'[s] \in Nat /\ lastRecv'[s] >= lastRecv[s]
    BY <1>t, <1>5 DEF ReadData
  <2> QED BY <1>5, <2>1, BufferFrame DEF ReadData, writerVars
<1>6. ASSUME Next,
             \A p \in Sides : ~TakeFrame(p) /\ ~TakeHeld(p) /\ ~ReadAck(p) /\ ~ReadData(p)
      PROVE  UNCHANGED <<replay, nextSend, lastRecv>>
  BY <1>6 DEF Next, SendRequest, Recv, Handle, WriterStep, ReaderStep, CloseStep, Decode,
     Close, Expire, WriteAck, TakeMarker, WritePing, WriteError, ReadClose, DrainEnd, ReadError,
     CloseQueue, CloseWrite, CloseEnd, writerVars, readerVars
<1>7. CASE UNCHANGED vars
  BY <1>1, <1>7 DEF vars, writerVars, readerVars
<1> QED BY <1>1, <1>2, <1>3, <1>4, <1>5, <1>6, <1>7

(* In every state a replay buffer is good up to the last number given out, *)
(* and nothing was acknowledged that the peer has not received.            *)
THEOREM BufferInvHolds == Spec => []BufferInv
<1>1. Init => BufferInv
  BY InitBuffer
<1>2. ConnInv /\ BufferInv /\ [Next]_vars => BufferInv'
  BY NextBuffer
<1> QED BY <1>1, <1>2, ConnectionInvHolds, PTL DEF Spec

(* The replay buffer keeps exactly the frames that were accepted and not   *)
(* acknowledged, usedBytes is the sum of their sizes and within            *)
(* MaxReplayBytes, compaction loses and revives none, and snapshotFrom     *)
(* returns what a resume needs: for any number of frames of any size and   *)
(* any limit.                                                              *)
THEOREM BufferExactHolds == Spec => []BufferExact
<1>1. ConnInv /\ BufferInv => BufferExact
  <2> SUFFICES ASSUME ConnInv, BufferInv, NEW p \in Sides
               PROVE  /\ BytesAreExact(replay[p]) /\ KeepsUpTo(replay[p], nextSend[p])
                      /\ SnapshotsAreExact(replay[p], nextSend[p])
                      /\ replay[p].lastAcked <= lastRecv[Peer(p)]
    BY DEF BufferExact
  <2>1. Keeping(p) /\ nextSend[p] \in Nat
    BY CounterTypes DEF BufferInv, ConnInv
  <2> QED BY <2>1, SnapshotsGood DEF Keeping, Good
<1> QED BY <1>1, ConnectionInvHolds, BufferInvHolds, PTL
=============================================================================
