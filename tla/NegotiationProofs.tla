------------------------- MODULE NegotiationProofs -------------------------
(***************************************************************************)
(* Proofs about Negotiation, for all codec lists, frame limits, durations, *)
(* units of the wire and numbers of failures.                              *)
(***************************************************************************)
EXTENDS Negotiation, WellFoundedInduction, TLAPS

-----------------------------------------------------------------------------
(* Durations.                                                              *)

(* What normalized makes of options that have their types: durations that  *)
(* are positive, and a timeout of at least two intervals.                  *)
Usable(o) == o.ackDelay > 0 /\ o.interval > 0 /\ o.timeout >= 2 * o.interval

(* normalized returns usable options. *)
LEMMA NormalizedUsable ==
    ASSUME NEW o \in Options
    PROVE  Normalized(o) \in Options /\ Usable(Normalized(o))
BY NegotiationAssumption DEF Normalized, OrDefault, Options, Usable

(* ... and leaves usable ones alone. *)
LEMMA UsableNormalized ==
    ASSUME NEW o \in Options, Usable(o)
    PROVE  Normalized(o) = o
<1>1. /\ OrDefault(o.ackDelay, DefaultAckDelay) = o.ackDelay
      /\ OrDefault(o.interval, DefaultInterval) = o.interval
      /\ OrDefault(o.timeout, DefaultTimeout) = o.timeout
      /\ ~(o.timeout < 2 * o.interval)
  BY DEF OrDefault, Options, Usable
<1> QED BY <1>1 DEF Normalized, Options

(* A duration loses less than a millisecond on the wire, unless it has     *)
(* less than one: then it becomes one.                                     *)
LEMMA MillisRound ==
    ASSUME NEW d \in Nat
    PROVE  /\ ToMillis(d) \in Nat /\ ToMillis(d) > 0
           /\ d < TicksPerMilli => ToMillis(d) = 1
           /\ d >= TicksPerMilli => /\ ToMillis(d) * TicksPerMilli <= d
                                    /\ d < ToMillis(d) * TicksPerMilli + TicksPerMilli
<1>1. TicksPerMilli \in Nat \ {0}
  BY NegotiationAssumption
<1>2. /\ d \div TicksPerMilli \in Nat
      /\ (d \div TicksPerMilli) * TicksPerMilli <= d
      /\ d < (d \div TicksPerMilli) * TicksPerMilli + TicksPerMilli
  BY <1>1
<1>3. d >= TicksPerMilli => d \div TicksPerMilli # 0
  BY <1>1, <1>2
<1> QED BY <1>1, <1>2, <1>3 DEF ToMillis

(* More milliseconds are more ticks. *)
LEMMA MillisMonotone ==
    ASSUME NEW m \in Nat, NEW n \in Nat, m <= n
    PROVE  m * TicksPerMilli <= n * TicksPerMilli
BY NegotiationAssumption

(* What the client gets from the server's options can be refused in one    *)
(* case only: RoundsTooClose.                                              *)
LEMMA DecodesUnlessTooClose ==
    ASSUME NEW o \in Options, Usable(o)
    PROVE  Decodes(Encoded(o)) <=> ~RoundsTooClose(o)
<1> DEFINE T == TicksPerMilli
           i == o.interval
           t == o.timeout
<1>1. T \in Nat /\ T > 0 /\ i \in Nat /\ t \in Nat /\ o.ackDelay \in Nat /\ t >= 2 * i
  BY NegotiationAssumption DEF Options, Usable
<1>2. /\ ToMillis(i) \in Nat /\ ToMillis(i) > 0 /\ ToMillis(t) \in Nat /\ ToMillis(t) > 0
      /\ i < T => ToMillis(i) = 1
      /\ i >= T => ToMillis(i) * T <= i
      /\ t < T => ToMillis(t) = 1
      /\ t >= T => ToMillis(t) * T <= t /\ t < ToMillis(t) * T + T
      /\ ToMillis(o.ackDelay) > 0
  BY <1>1, MillisRound
<1>3. Decodes(Encoded(o)) <=> ToMillis(t) >= 2 * ToMillis(i)
  BY <1>2 DEF Decodes, Encoded
<1> DEFINE p == ToMillis(t)
           q == ToMillis(i)
<1> HIDE DEF p, q, T, i, t
<1>4. p \in Nat /\ q \in Nat
  BY <1>2 DEF p, q
<1>5. CASE i < T /\ t < 2 * T
  <2>1. q = 1
    BY <1>2, <1>5 DEF q
  <2>2. p < 2
    <3>1. CASE t < T
      BY <1>2, <3>1 DEF p
    <3>2. CASE t >= T
      <4>1. p * T < 2 * T
        BY <1>1, <1>2, <1>4, <1>5, <3>2 DEF p
      <4> QED BY <1>1, <1>4, <4>1
    <3> QED BY <1>1, <3>1, <3>2
  <2> QED BY <1>3, <1>4, <1>5, <2>1, <2>2 DEF RoundsTooClose, p, q, T, i, t
<1>6. CASE i < T /\ t >= 2 * T
  <2>1. q = 1
    BY <1>2, <1>6 DEF q
  <2>2. t < p * T + T
    BY <1>1, <1>2, <1>6 DEF p
  <2>3. p >= 2
    <3>1. T < p * T
      BY <1>1, <1>4, <1>6, <2>2
    <3> QED BY <1>1, <1>4, <3>1
  <2>4. ~RoundsTooClose(o)
    BY <1>1, <1>6 DEF RoundsTooClose, T, i, t
  <2> QED BY <1>3, <1>4, <2>1, <2>3, <2>4 DEF p, q
<1>7. CASE i >= T
  <2>1. q * T <= i
    BY <1>2, <1>7 DEF q
  <2>2. t < p * T + T
    BY <1>1, <1>2, <1>7 DEF p
  <2>3. (2 * q) * T < (p + 1) * T
    BY <1>1, <1>4, <2>1, <2>2
  <2>4. 2 * q < p + 1
    BY <1>1, <1>4, <2>3
  <2>5. ~RoundsTooClose(o)
    BY <1>1, <1>7 DEF RoundsTooClose, T, i, t
  <2> QED BY <1>3, <1>4, <2>4, <2>5 DEF p, q
<1> QED BY <1>1, <1>5, <1>6, <1>7

(* Each side's interval, rounded or not, is below the other's timeout.     *)
LEMMA RoundedFits ==
    ASSUME NEW o \in Options, Usable(o), Decodes(Encoded(o))
    PROVE  /\ Normalized(Decoded(Encoded(o))) \in Options
           /\ o.interval < Normalized(Decoded(Encoded(o))).timeout
           /\ Normalized(Decoded(Encoded(o))).interval < o.timeout
<1> DEFINE T == TicksPerMilli
           i == o.interval
           t == o.timeout
           p == ToMillis(t)
           q == ToMillis(i)
           a == ToMillis(o.ackDelay)
           r == Decoded(Encoded(o))
<1>1. T \in Nat /\ T > 0 /\ i \in Nat /\ i > 0 /\ t \in Nat /\ o.ackDelay \in Nat /\ t >= 2 * i
  BY NegotiationAssumption DEF Options, Usable
<1>2. /\ p \in Nat /\ p > 0 /\ q \in Nat /\ q > 0 /\ a \in Nat /\ a > 0
      /\ i < T => q = 1
      /\ i >= T => q * T <= i
      /\ t >= T => t < p * T + T
  BY <1>1, MillisRound
<1>3. p >= 2 * q
  BY DEF Decodes, Encoded
<1>4. r = [ackDelay |-> a * T, interval |-> q * T, timeout |-> p * T]
  BY DEF Decoded, Encoded
<1>5. ~(i < T /\ t < 2 * T)
  BY DecodesUnlessTooClose DEF RoundsTooClose
<1> HIDE DEF p, q, a, T, i, t, r
<1>6. (2 * q) * T <= p * T
  BY <1>2, <1>3, MillisMonotone DEF T
<1>7. a * T \in Nat /\ a * T > 0 /\ q * T \in Nat /\ q * T > 0 /\ p * T \in Nat
  BY <1>1, <1>2
<1>8. p * T >= 2 * (q * T)
  BY <1>1, <1>2, <1>6
<1>9. r \in Options /\ Usable(r)
  BY <1>4, <1>7, <1>8 DEF Options, Usable
<1>10. Normalized(r) = r
  BY <1>9, UsableNormalized
<1>11. i < p * T
  <2>1. CASE i < T
    <3>1. p >= 1
      BY <1>2
    <3>2. 1 * T <= p * T
      BY <1>2, <3>1, MillisMonotone DEF T
    <3> QED BY <1>1, <1>7, <2>1, <3>2
  <2>2. CASE i >= T
    BY <1>1, <1>2, <1>7, <2>2
  <2> QED BY <1>1, <2>1, <2>2
<1>12. q * T < t
  <2>1. CASE i < T
    <3>1. q * T = T
      BY <1>1, <1>2, <2>1
    <3> QED BY <1>1, <1>5, <2>1, <3>1
  <2>2. CASE i >= T
    BY <1>1, <1>2, <1>7, <2>2
  <2> QED BY <1>1, <2>1, <2>2
<1> QED BY <1>4, <1>9, <1>10, <1>11, <1>12 DEF r, i, t

-----------------------------------------------------------------------------
(* Codecs.                                                                 *)

Common == Supported(client.codecs) \cap Supported(server.codecs)

(* A set of naturals has a least one. *)
LEMMA LeastExists ==
    ASSUME NEW S, S \subseteq Nat, S # {}
    PROVE  \E k \in S : \A j \in S : k <= j
<1> DEFINE Less == OpToRel(<, Nat)
<1>1. \A j \in Nat : \A k \in Nat : <<j, k>> \in Less <=> j < k
  BY DEF OpToRel
<1>2. IsWellFoundedOn(Less, Nat)
  BY NatLessThanWellFounded
<1> HIDE DEF Less
<1>3. PICK k \in S : \A j \in S : ~(<<j, k>> \in Less)
  BY <1>2, WFMin
<1>4. \A j \in S : j \in Nat /\ k \in Nat /\ ~(j < k)
  BY <1>1, <1>3
<1>5. \A j \in S : k <= j
  BY <1>4
<1> QED BY <1>5

(* selectCodec returns a codec that both list, or 0 if there is none. *)
LEMMA SelectsCommon ==
    ASSUME NEW mine \in Seq(Nat \ {0}), NEW theirs \in Seq(Nat \ {0})
    PROVE  /\ SelectCodec(mine, theirs) \in Nat
           /\ SelectCodec(mine, theirs) = 0 <=> Supported(mine) \cap Supported(theirs) = {}
           /\ SelectCodec(mine, theirs) # 0 =>
                 SelectCodec(mine, theirs) \in Supported(mine) \cap Supported(theirs)
<1> DEFINE both == {k \in DOMAIN mine : mine[k] \in Supported(theirs)}
<1>1. \A k \in DOMAIN mine : k \in Nat /\ mine[k] \in Nat \ {0}
  OBVIOUS
<1>2. CASE both = {}
  BY <1>2 DEF SelectCodec, Supported
<1>3. CASE both # {}
  <2>1. \E k \in both : \A j \in both : k <= j
    <3>1. both \subseteq Nat
      BY <1>1
    <3> QED BY <1>3, <3>1, LeastExists
  <2> DEFINE first == CHOOSE k \in both : \A j \in both : k <= j
  <2>2. first \in both
    BY <2>1
  <2>3. SelectCodec(mine, theirs) = mine[first]
    BY <1>3 DEF SelectCodec
  <2> HIDE DEF first
  <2>4. mine[first] \in Supported(mine) \cap Supported(theirs) /\ mine[first] \in Nat \ {0}
    BY <1>1, <2>2 DEF Supported
  <2> QED BY <2>3, <2>4
<1> QED BY <1>2, <1>3

-----------------------------------------------------------------------------
(* The inductive invariant.                                                *)

(* The configurations do not change; the server's options are usable. *)
Configured ==
    /\ client \in [codecs : CodecLists, maxFrame : MaxFrames, recovery : BOOLEAN,
                   timeout : BOOLEAN]
    /\ server \in [codecs : CodecLists, maxFrame : MaxFrames, recovery : BOOLEAN,
                   options : Options]
    /\ Usable(server.options)

(* What the client of this attempt asks for, and what it must get. *)
Ask == [kind |-> "hello", version |-> version, codecs |-> client.codecs,
        maxFrame |-> client.maxFrame]
Verdict == HandshakeReply(Ask)
Attaching == version = 3 /\ Verdict.accept /\ clientConfig = Verdict.config
Sent == Encoded(server.options)

(* v3 is asked of a client with recovery, v2 if it has none or the server  *)
(* has none.                                                               *)
VersionsFollow ==
    /\ version = 3 => client.recovery
    /\ version = 2 /\ client.recovery => ~server.recovery

(* What is on its way is the request of this attempt and its answer. *)
MessagesFollow ==
    /\ request \in {None, Ask, [kind |-> "attach"]}
    /\ answer \in {None, Verdict, [kind |-> "attached", options |-> Sent]}
    /\ request = Ask <=> handler = "hello"
    /\ request # None => answer = None
    /\ pc = "dial" => request = None /\ answer = None /\ handler \in {"none", "closed"}
    /\ pc = "reply" => request = Ask \/ answer = Verdict
    /\ pc = "response" =>
          /\ Attaching
          /\ \/ handler = "attach" /\ request = [kind |-> "attach"]
             \/ answer.kind = "attached"
             \/ handler = "closed" /\ answer = None /\ ~Encodes(server.options)
    /\ request = [kind |-> "attach"] => handler = "attach" /\ Attaching
    /\ answer.kind = "reply" =>
          handler = IF ~Verdict.accept THEN "closed" ELSE IF version = 3 THEN "attach" ELSE "open"
    /\ answer.kind = "attached" =>
          /\ handler = "open" /\ Attaching
          /\ Encodes(server.options) /\ serverOptions = server.options
    /\ handler \in {"attach", "open"} => Verdict.accept /\ serverConfig = Verdict.config
    /\ ~unread

(* Why connect ended as it did. *)
ResultsFollow ==
    /\ pc = "done" <=> result # "none"
    /\ result # "version"
    /\ result \in {"dial", "timeout"} => failures > 0
    /\ result = "codec" => Common = {}
    /\ result = "options" => /\ Attaching /\ Encodes(server.options)
                             /\ ~Decodes(Sent)
    /\ result = "failed" /\ failures = 0 => Attaching /\ ~Encodes(server.options)
    /\ result = "ok" =>
          /\ request = None /\ handler = "open"
          /\ clientConfig = Verdict.config
          /\ version = 3 => /\ Encodes(server.options) /\ Decodes(Sent)
                            /\ serverOptions = server.options
                            /\ clientOptions = Normalized(Decoded(Sent))

NegotiationInv == TypeOK /\ Configured /\ VersionsFollow /\ MessagesFollow /\ ResultsFollow

-----------------------------------------------------------------------------
(* What handshakeServer answers to the client of this attempt. *)
LEMMA VerdictFacts ==
    ASSUME Configured, version \in {2, 3}
    PROVE  /\ Verdict.kind = "reply" /\ Verdict.accept \in BOOLEAN /\ Verdict.config \in Configs
           /\ Verdict.accept <=> Common # {} /\ (version = 3 => server.recovery)
           /\ Verdict.config.version = IF version = 3 /\ ~server.recovery THEN 2 ELSE version
           /\ Verdict.accept => /\ Verdict.config.codec \in Common
                                /\ Verdict.config.maxFrame <= client.maxFrame
                                /\ Verdict.config.maxFrame <= server.maxFrame
<1> DEFINE codec == SelectCodec(client.codecs, server.codecs)
           max == NegotiateMaxFrame(client.maxFrame, server.maxFrame)
<1>1. /\ client.codecs \in Seq(Nat \ {0}) /\ server.codecs \in Seq(Nat \ {0})
      /\ client.maxFrame \in Nat /\ server.maxFrame \in Nat /\ server.recovery \in BOOLEAN
  BY NegotiationAssumption DEF Configured
<1>2. codec \in Nat /\ (codec = 0 <=> Common = {}) /\ (codec # 0 => codec \in Common)
  BY <1>1, SelectsCommon DEF Common
<1>3. max \in Nat /\ max <= client.maxFrame /\ max <= server.maxFrame
  BY <1>1 DEF NegotiateMaxFrame
<1>4. Verdict = IF version = 3 /\ ~server.recovery THEN Reply(FALSE, Config(2, 0, 0))
                ELSE IF codec = 0 THEN Reply(FALSE, Config(version, 0, 0))
                ELSE Reply(TRUE, Config(version, codec, max))
  BY <1>1 DEF Verdict, Ask, HandshakeReply, SupportedVersion
<1> HIDE DEF codec, max
<1> QED BY <1>1, <1>2, <1>3, <1>4 DEF Reply, Config, Configs

(* The five messages differ. *)
LEMMA MessagesDiffer ==
    ASSUME Configured, version \in {2, 3}
    PROVE  /\ None.kind = "none" /\ Ask.kind = "hello" /\ Verdict.kind = "reply"
           /\ Ask # None /\ Verdict # None /\ Ask # [kind |-> "attach"]
           /\ [kind |-> "attach"] # None
           /\ [kind |-> "attached", options |-> Sent].kind = "attached"
BY VerdictFacts DEF None, Ask

(* While client, server and version stay, so do the request and its        *)
(* answer.                                                                 *)
LEMMA VerdictStays ==
    ASSUME UNCHANGED <<client, server, version>>
    PROVE  Ask' = Ask /\ Verdict' = Verdict /\ Sent' = Sent /\ Common' = Common
BY DEF Ask, Verdict, Sent, Common, HandshakeReply

(* Nothing is on its way, and the server's options are usable. *)
LEMMA InitNegotiation == Init => NegotiationInv
<1> SUFFICES ASSUME Init PROVE NegotiationInv
  OBVIOUS
<1>1. Configured
  <2>1. PICK codecs \in CodecLists, max \in MaxFrames, recovery \in BOOLEAN,
             interval \in Intervals, timeout \in Timeouts, delay \in AckDelays :
          server = [codecs |-> codecs, maxFrame |-> max, recovery |-> recovery,
                    options |-> Normalized([ackDelay |-> delay, interval |-> interval,
                                            timeout |-> timeout])]
    BY DEF Init
  <2>2. [ackDelay |-> delay, interval |-> interval, timeout |-> timeout] \in Options
    BY NegotiationAssumption DEF Options
  <2>3. server.options \in Options /\ Usable(server.options)
    BY <2>1, <2>2, NormalizedUsable
  <2> QED BY <2>1, <2>3 DEF Configured, Init
<1>2. version \in {2, 3} /\ VersionsFollow
  BY <1>1 DEF Init, VersionsFollow, SupportedVersion, Configured
<1>3. TypeOK
  <2>1. NoConfig \in Configs /\ NoOptions \in Options /\ None.kind = "none"
    BY DEF NoConfig, Config, Configs, NoOptions, Options, None
  <2>2. /\ client.codecs \in CodecLists /\ server.codecs \in CodecLists
        /\ server.options \in Options
    BY <1>1 DEF Configured
  <2>3. failures \in 0..MaxFailures
    BY NegotiationAssumption DEF Init
  <2> QED BY <1>2, <2>1, <2>2, <2>3 DEF Init, TypeOK
<1>4. MessagesFollow
  BY <1>1, <1>2, MessagesDiffer DEF Init, MessagesFollow, None
<1>5. ResultsFollow
  BY DEF Init, ResultsFollow
<1> QED BY <1>1, <1>2, <1>3, <1>4, <1>5 DEF NegotiationInv

(* A new conn has nothing on its way but the request. *)
LEMMA DialKeeps == NegotiationInv /\ Dial => NegotiationInv'
<1> SUFFICES ASSUME NegotiationInv, Dial PROVE NegotiationInv'
  OBVIOUS
<1>1. /\ UNCHANGED <<client, server, version, result, clientConfig, clientOptions, serverOptions,
                     failures>>
      /\ pc = "dial" /\ pc' = "reply" /\ handler' = "hello" /\ request' = Ask
      /\ answer' = None /\ unread' = FALSE /\ serverConfig' = NoConfig
  BY DEF Dial, Ask
<1>2. Ask' = Ask /\ Verdict' = Verdict /\ Sent' = Sent /\ Common' = Common
  BY <1>1, VerdictStays
<1>3. Configured /\ version \in {2, 3} /\ VersionsFollow /\ ResultsFollow
  BY DEF NegotiationInv, TypeOK
<1>4. Configured' /\ VersionsFollow'
  BY <1>1, <1>3 DEF Configured, VersionsFollow
<1>5. TypeOK'
  BY <1>1, <1>3, MessagesDiffer DEF NegotiationInv, TypeOK, NoConfig, Config, Configs
<1>6. MessagesFollow'
  BY <1>1, <1>2, <1>3, MessagesDiffer DEF MessagesFollow
<1>7. ResultsFollow'
  BY <1>1, <1>3 DEF ResultsFollow
<1> QED BY <1>4, <1>5, <1>6, <1>7 DEF NegotiationInv

(* A retry starts from the first version again. *)
LEMMA DialErrorKeeps == NegotiationInv /\ DialError => NegotiationInv'
<1> SUFFICES ASSUME NegotiationInv, DialError PROVE NegotiationInv'
  OBVIOUS
<1>1. /\ UNCHANGED <<client, server, handler, request, answer, unread, clientConfig,
                     serverConfig, clientOptions, serverOptions>>
      /\ pc = "dial" /\ failures < MaxFailures /\ failures' = failures + 1
      /\ \/ version' = SupportedVersion(client.recovery) /\ UNCHANGED <<pc, result>>
         \/ pc' = "done" /\ result' \in {"timeout", "dial"} /\ UNCHANGED version
  BY DEF DialError, Done
<1>2. Configured /\ version \in {2, 3} /\ VersionsFollow /\ ResultsFollow /\ MessagesFollow
  BY DEF NegotiationInv, TypeOK
<1>3. failures \in 0..MaxFailures /\ failures' \in 0..MaxFailures /\ failures' > 0
  BY <1>1, NegotiationAssumption DEF NegotiationInv, TypeOK
<1>4. Configured' /\ version' \in {2, 3} /\ VersionsFollow'
  BY <1>1, <1>2 DEF Configured, VersionsFollow, SupportedVersion
<1>5. TypeOK'
  BY <1>1, <1>3, <1>4 DEF NegotiationInv, TypeOK
<1>6. request = None /\ answer = None /\ handler \in {"none", "closed"} /\ ~unread
  BY <1>1, <1>2 DEF MessagesFollow
<1>7. MessagesFollow'
  <2>1. Ask' # None /\ None.kind = "none"
    BY DEF Ask, None
  <2> QED BY <1>1, <1>6, <2>1 DEF MessagesFollow, None
<1>8. ResultsFollow'
  BY <1>1, <1>2, <1>3 DEF ResultsFollow
<1> QED BY <1>4, <1>5, <1>7, <1>8 DEF NegotiationInv

(* The server answers the request of this attempt, and closes the conn it  *)
(* refuses only after it has read all of it.                               *)
LEMMA HandshakeServerKeeps == NegotiationInv /\ HandshakeServer => NegotiationInv'
<1> SUFFICES ASSUME NegotiationInv, HandshakeServer PROVE NegotiationInv'
  OBVIOUS
<1>1. Configured /\ version \in {2, 3} /\ VersionsFollow /\ ResultsFollow /\ MessagesFollow
  BY DEF NegotiationInv, TypeOK
<1>2. request = Ask /\ answer = None
  BY <1>1, MessagesDiffer DEF HandshakeServer, MessagesFollow
<1>3. /\ UNCHANGED <<client, server, pc, version, result, clientConfig, clientOptions,
                     serverOptions, failures>>
      /\ answer' = Verdict /\ request' = None /\ unread' = FALSE
      /\ serverConfig' = IF Verdict.accept THEN Verdict.config ELSE NoConfig
      /\ handler' = IF ~Verdict.accept THEN "closed"
                    ELSE IF Verdict.config.version = 3 THEN "attach" ELSE "open"
  BY <1>2 DEF HandshakeServer, Verdict, LeavesUnread
<1>4. Ask' = Ask /\ Verdict' = Verdict /\ Sent' = Sent /\ Common' = Common
  BY <1>3, VerdictStays
<1>5. Configured' /\ VersionsFollow'
  BY <1>1, <1>3 DEF Configured, VersionsFollow
<1>6. TypeOK'
  <2>1. NoConfig \in Configs /\ Verdict.config \in Configs /\ None.kind = "none"
    BY <1>1, VerdictFacts DEF NoConfig, Config, Configs, None
  <2> QED BY <1>1, <1>3, <2>1, VerdictFacts DEF NegotiationInv, TypeOK
<1>7. pc \notin {"dial", "response"} /\ result # "ok"
  BY <1>1, <1>2, MessagesDiffer DEF MessagesFollow, ResultsFollow
<1>8. handler' = IF ~Verdict.accept THEN "closed" ELSE IF version = 3 THEN "attach" ELSE "open"
  BY <1>1, <1>3, VerdictFacts
<1>9. MessagesFollow'
  BY <1>1, <1>3, <1>4, <1>7, <1>8, MessagesDiffer DEF MessagesFollow
<1>10. ResultsFollow'
  BY <1>1, <1>3, <1>4, <1>7 DEF ResultsFollow, Attaching
<1> QED BY <1>5, <1>6, <1>9, <1>10 DEF NegotiationInv

(* The answer ends connect, goes on to the attach or, from v3, back to the *)
(* dial with v2; there is no other version in it.                          *)
LEMMA HandshakeClientKeeps == NegotiationInv /\ HandshakeClient => NegotiationInv'
<1> SUFFICES ASSUME NegotiationInv, HandshakeClient PROVE NegotiationInv'
  OBVIOUS
<1>1. Configured /\ version \in {2, 3} /\ VersionsFollow /\ ResultsFollow /\ MessagesFollow
  BY DEF NegotiationInv, TypeOK
<1>2. /\ pc = "reply" /\ answer = Verdict /\ request = None /\ ~unread
      /\ handler = IF ~Verdict.accept THEN "closed" ELSE IF version = 3 THEN "attach" ELSE "open"
  BY <1>1, MessagesDiffer DEF HandshakeClient, MessagesFollow
<1>3. /\ UNCHANGED <<client, server, handler, unread, serverConfig, clientOptions,
                     serverOptions, failures>>
      /\ answer' = None
  BY DEF HandshakeClient
<1>4. /\ Verdict.config \in Configs
      /\ Verdict.accept <=> Common # {} /\ (version = 3 => server.recovery)
      /\ Verdict.config.version = IF version = 3 /\ ~server.recovery THEN 2 ELSE version
  BY <1>1, VerdictFacts
<1>5. Configured'
  BY <1>1, <1>3 DEF Configured
<1>6. CASE Verdict.config.version # version
  <2>1. version = 3 /\ Verdict.config.version = 2 /\ ~server.recovery /\ ~Verdict.accept
    BY <1>1, <1>4, <1>6
  <2>2. version' = 2 /\ pc' = "dial" /\ UNCHANGED <<result, request, clientConfig>>
    BY <1>2, <1>6, <2>1 DEF HandshakeClient
  <2>3. handler = "closed" /\ result = "none"
    BY <1>1, <1>2, <2>1 DEF ResultsFollow
  <2>4. VersionsFollow' /\ TypeOK'
    BY <1>3, <2>1, <2>2 DEF VersionsFollow, NegotiationInv, TypeOK, None
  <2>5. MessagesFollow'
    <3>1. Ask' # None /\ None.kind = "none" /\ [kind |-> "attach"] # None
      BY DEF Ask, None
    <3> QED BY <1>2, <1>3, <2>2, <2>3, <3>1 DEF MessagesFollow
  <2>6. ResultsFollow'
    BY <1>1, <2>2, <2>3 DEF ResultsFollow
  <2> QED BY <1>5, <2>4, <2>5, <2>6 DEF NegotiationInv
<1>7. CASE Verdict.config.version = version
  <2>1. UNCHANGED version
    BY <1>2, <1>7 DEF HandshakeClient
  <2>2. Ask' = Ask /\ Verdict' = Verdict /\ Sent' = Sent /\ Common' = Common
    BY <1>3, <2>1, VerdictStays
  <2>3. VersionsFollow'
    BY <1>1, <1>3, <2>1 DEF VersionsFollow
  <2>4. CASE ~Verdict.accept
    <3>1. pc' = "done" /\ result' = "codec" /\ UNCHANGED <<request, clientConfig>>
      BY <1>2, <1>7, <2>4 DEF HandshakeClient, Done
    <3>2. Common = {}
      BY <1>1, <1>4, <1>7, <2>4
    <3>3. TypeOK'
      BY <1>3, <2>1, <3>1 DEF NegotiationInv, TypeOK, None
    <3>4. MessagesFollow'
      BY <1>1, <1>2, <1>3, <2>1, <2>2, <2>4, <3>1, MessagesDiffer DEF MessagesFollow
    <3>5. ResultsFollow'
      BY <2>2, <3>1, <3>2 DEF ResultsFollow
    <3> QED BY <1>5, <2>3, <3>3, <3>4, <3>5 DEF NegotiationInv
  <2>5. CASE Verdict.accept /\ version = 2
    <3>1. pc' = "done" /\ result' = "ok" /\ clientConfig' = Verdict.config /\ UNCHANGED request
      BY <1>2, <1>7, <2>5 DEF HandshakeClient, Done
    <3>2. TypeOK'
      BY <1>3, <1>4, <2>1, <3>1 DEF NegotiationInv, TypeOK, None
    <3>3. MessagesFollow'
      BY <1>1, <1>2, <1>3, <2>1, <2>2, <2>5, <3>1, MessagesDiffer DEF MessagesFollow
    <3>4. ResultsFollow'
      BY <1>2, <1>3, <2>1, <2>2, <2>5, <3>1 DEF ResultsFollow
    <3> QED BY <1>5, <2>3, <3>2, <3>3, <3>4 DEF NegotiationInv
  <2>6. CASE Verdict.accept /\ version = 3
    <3>1. /\ pc' = "response" /\ clientConfig' = Verdict.config
          /\ request' = [kind |-> "attach"] /\ UNCHANGED result
      BY <1>2, <1>7, <2>6 DEF HandshakeClient
    <3>2. TypeOK'
      BY <1>3, <1>4, <2>1, <3>1 DEF NegotiationInv, TypeOK, None
    <3>3. Attaching'
      BY <2>1, <2>2, <2>6, <3>1 DEF Attaching
    <3>4. MessagesFollow'
      BY <1>1, <1>2, <1>3, <2>1, <2>2, <2>6, <3>1, <3>3, MessagesDiffer DEF MessagesFollow
    <3>5. ResultsFollow'
      BY <1>1, <1>2, <3>1 DEF ResultsFollow
    <3> QED BY <1>5, <2>3, <3>2, <3>4, <3>5 DEF NegotiationInv
  <2> QED BY <1>1, <2>4, <2>5, <2>6
<1> QED BY <1>6, <1>7

(* The server attaches with its own options, or closes a conn whose client *)
(* it cannot tell them.                                                    *)
LEMMA AttachServerKeeps == NegotiationInv /\ AttachServer => NegotiationInv'
<1> SUFFICES ASSUME NegotiationInv, AttachServer PROVE NegotiationInv'
  OBVIOUS
<1>1. Configured /\ version \in {2, 3} /\ VersionsFollow /\ ResultsFollow /\ MessagesFollow
  BY DEF NegotiationInv, TypeOK
<1>2. server.options \in Options /\ Normalized(server.options) = server.options
  BY <1>1, UsableNormalized DEF Configured
<1>3. request = [kind |-> "attach"] /\ handler = "attach" /\ answer = None /\ Attaching /\ ~unread
  BY <1>1, MessagesDiffer DEF AttachServer, MessagesFollow
<1>4. /\ UNCHANGED <<client, server, pc, version, unread, result, clientConfig, serverConfig,
                     clientOptions, failures>>
      /\ request' = None
  BY DEF AttachServer
<1>5. /\ Ask' = Ask /\ Verdict' = Verdict /\ Sent' = Sent /\ Common' = Common
      /\ Attaching' = Attaching
  BY <1>4, VerdictStays DEF Attaching
<1>6. Configured' /\ VersionsFollow'
  BY <1>1, <1>4 DEF Configured, VersionsFollow
<1>7. pc # "dial" /\ pc # "reply" /\ result # "ok" /\ Verdict.accept /\ serverConfig = Verdict.config
  BY <1>1, <1>3, MessagesDiffer DEF MessagesFollow, ResultsFollow
<1>8. CASE Encodes(server.options)
  <2>1. /\ answer' = [kind |-> "attached", options |-> Sent] /\ handler' = "open"
        /\ serverOptions' = server.options
    BY <1>2, <1>8 DEF AttachServer, Sent
  <2>2. TypeOK'
    BY <1>2, <1>4, <2>1 DEF NegotiationInv, TypeOK, None
  <2>3. MessagesFollow'
    BY <1>1, <1>3, <1>4, <1>5, <1>7, <1>8, <2>1, MessagesDiffer DEF MessagesFollow
  <2>4. ResultsFollow'
    BY <1>1, <1>4, <1>5, <1>7 DEF ResultsFollow
  <2> QED BY <1>6, <2>2, <2>3, <2>4 DEF NegotiationInv
<1>9. CASE ~Encodes(server.options)
  <2>1. handler' = "closed" /\ UNCHANGED <<answer, serverOptions>>
    BY <1>2, <1>9 DEF AttachServer
  <2>2. TypeOK'
    BY <1>4, <2>1 DEF NegotiationInv, TypeOK, None
  <2>3. MessagesFollow'
    BY <1>1, <1>3, <1>4, <1>5, <1>7, <1>9, <2>1, MessagesDiffer DEF MessagesFollow
  <2>4. ResultsFollow'
    BY <1>1, <1>4, <1>5, <1>7 DEF ResultsFollow
  <2> QED BY <1>6, <2>2, <2>3, <2>4 DEF NegotiationInv
<1> QED BY <1>8, <1>9

(* The client takes what the options became on the wire, if it decodes. *)
LEMMA AttachClientKeeps == NegotiationInv /\ AttachClient => NegotiationInv'
<1> SUFFICES ASSUME NegotiationInv, AttachClient PROVE NegotiationInv'
  OBVIOUS
<1>1. Configured /\ version \in {2, 3} /\ VersionsFollow /\ ResultsFollow /\ MessagesFollow
  BY DEF NegotiationInv, TypeOK
<1>2. /\ pc = "response" /\ answer.kind = "attached" /\ answer' = None
      /\ UNCHANGED <<client, server, version, handler, request, unread, clientConfig,
                     serverConfig, serverOptions, failures>>
  BY DEF AttachClient
<1>3. /\ answer.options = Sent /\ answer # None /\ request = None /\ handler = "open" /\ Attaching
      /\ Encodes(server.options) /\ serverOptions = server.options /\ ~unread
  <2>1. answer = [kind |-> "attached", options |-> Sent]
    BY <1>1, <1>2, MessagesDiffer DEF MessagesFollow
  <2> QED BY <1>1, <1>2, <2>1, MessagesDiffer DEF MessagesFollow
<1>4. /\ Ask' = Ask /\ Verdict' = Verdict /\ Sent' = Sent /\ Common' = Common
      /\ Attaching' = Attaching
  BY <1>2, VerdictStays DEF Attaching
<1>5. Configured' /\ VersionsFollow'
  BY <1>1, <1>2 DEF Configured, VersionsFollow
<1>6. pc' = "done" /\ result' \in {"ok", "options"}
  BY DEF AttachClient, Done
<1>7. MessagesFollow'
  BY <1>1, <1>2, <1>3, <1>4, <1>6, MessagesDiffer DEF MessagesFollow
<1>8. CASE Decodes(Sent)
  <2>1. result' = "ok" /\ clientOptions' = Normalized(Decoded(Sent))
    BY <1>3, <1>8 DEF AttachClient, Done
  <2>2. Normalized(Decoded(Sent)) \in Options
    BY <1>1, <1>8, RoundedFits DEF Configured, Sent
  <2>3. TypeOK'
    BY <1>2, <1>6, <2>1, <2>2 DEF NegotiationInv, TypeOK, None
  <2>4. ResultsFollow'
    BY <1>2, <1>3, <1>4, <1>6, <1>8, <2>1 DEF ResultsFollow, Attaching
  <2> QED BY <1>5, <1>7, <2>3, <2>4 DEF NegotiationInv
<1>9. CASE ~Decodes(Sent)
  <2>1. result' = "options" /\ UNCHANGED clientOptions
    BY <1>3, <1>9 DEF AttachClient, Done
  <2>2. TypeOK'
    BY <1>2, <1>6, <2>1 DEF NegotiationInv, TypeOK, None
  <2>3. ResultsFollow'
    BY <1>2, <1>3, <1>4, <1>6, <1>9, <2>1 DEF ResultsFollow
  <2> QED BY <1>5, <1>7, <2>2, <2>3 DEF NegotiationInv
<1> QED BY <1>8, <1>9

(* Without a failure only a server that cannot encode its options leaves   *)
(* the client without an answer.                                           *)
LEMMA ReadErrorKeeps == NegotiationInv /\ ReadError => NegotiationInv'
<1> SUFFICES ASSUME NegotiationInv, ReadError PROVE NegotiationInv'
  OBVIOUS
<1>1. Configured /\ version \in {2, 3} /\ VersionsFollow /\ ResultsFollow /\ MessagesFollow
  BY DEF NegotiationInv, TypeOK
<1>2. /\ UNCHANGED <<client, server, version, handler, request, answer, unread, clientConfig,
                     serverConfig, clientOptions, serverOptions>>
      /\ pc \in {"reply", "response"} /\ pc' = "done" /\ result' = "failed"
  BY DEF ReadError, Done
<1>3. failures' \in 0..MaxFailures
  BY NegotiationAssumption DEF ReadError, NegotiationInv, TypeOK
<1>4. /\ Ask' = Ask /\ Verdict' = Verdict /\ Sent' = Sent /\ Common' = Common
      /\ Attaching' = Attaching
  BY <1>2, VerdictStays DEF Attaching
<1>5. Configured' /\ VersionsFollow'
  BY <1>1, <1>2 DEF Configured, VersionsFollow
<1>6. TypeOK'
  BY <1>2, <1>3 DEF NegotiationInv, TypeOK
<1>7. MessagesFollow'
  BY <1>1, <1>2, <1>4 DEF MessagesFollow
<1>8. failures' = 0 => Attaching /\ ~Encodes(server.options)
  <2>1. failures \in 0..MaxFailures
    BY DEF NegotiationInv, TypeOK
  <2>2. failures' = 0 => handler = "closed" /\ answer = None
    BY <1>1, <2>1 DEF ReadError, MessagesFollow
  <2>3. handler = "closed" /\ answer = None => pc = "response"
    BY <1>1, <1>2, MessagesDiffer DEF MessagesFollow
  <2>4. handler = "closed" /\ answer = None => Attaching /\ ~Encodes(server.options)
    BY <1>1, <2>3, MessagesDiffer DEF MessagesFollow
  <2> QED BY <2>2, <2>4
<1>9. ResultsFollow'
  BY <1>2, <1>4, <1>8 DEF ResultsFollow
<1> QED BY <1>5, <1>6, <1>7, <1>9 DEF NegotiationInv

(* The inductive invariant holds: the messages, the configurations and the *)
(* results always belong to the attempt they are about.                    *)
THEOREM NegotiationInvHolds == Spec => []NegotiationInv
<1>1. ASSUME NegotiationInv, UNCHANGED vars PROVE NegotiationInv'
  <2>1. /\ Ask' = Ask /\ Verdict' = Verdict /\ Sent' = Sent /\ Common' = Common
        /\ Attaching' = Attaching
    BY <1>1, VerdictStays DEF vars, Attaching
  <2>2. Configured' /\ VersionsFollow' /\ TypeOK'
    BY <1>1 DEF NegotiationInv, vars, TypeOK, Configured, VersionsFollow
  <2>3. MessagesFollow'
    BY <1>1, <2>1 DEF NegotiationInv, vars, MessagesFollow
  <2>4. ResultsFollow'
    BY <1>1, <2>1 DEF NegotiationInv, vars, ResultsFollow
  <2> QED BY <2>2, <2>3, <2>4 DEF NegotiationInv
<1>2. NegotiationInv /\ [Next]_vars => NegotiationInv'
  BY <1>1, DialKeeps, DialErrorKeeps, HandshakeServerKeeps, HandshakeClientKeeps,
     AttachServerKeeps, AttachClientKeeps, ReadErrorKeeps
     DEF Next
<1> QED BY <1>2, InitNegotiation, PTL DEF Spec

(* Every variable keeps its type. *)
THEOREM NegotiationTypesHold == Spec => []TypeOK
<1>1. NegotiationInv => TypeOK
  BY DEF NegotiationInv
<1> QED BY <1>1, NegotiationInvHolds, PTL

(* A client that has a connection and its server have the same version,    *)
(* codec and frame limit, both allow them, their heartbeats fit after the  *)
(* rounding, and a resume keeps the configuration: for all codec lists,    *)
(* limits, durations and units.                                            *)
THEOREM AgreementHolds == Spec => []Agreement
<1>1. NegotiationInv => Agreement
  <2> SUFFICES ASSUME NegotiationInv, result = "ok" PROVE Agreement
    BY DEF Agreement
  <2>1. Configured /\ version \in {2, 3} /\ ResultsFollow /\ MessagesFollow
    BY DEF NegotiationInv, TypeOK
  <2>2. Verdict.accept /\ clientConfig = Verdict.config /\ serverConfig = Verdict.config
    BY <2>1 DEF ResultsFollow, MessagesFollow
  <2>3. /\ clientConfig \in Configs /\ clientConfig.version = version
        /\ clientConfig.codec \in Common
        /\ clientConfig.maxFrame <= client.maxFrame /\ clientConfig.maxFrame <= server.maxFrame
        /\ version = 3 => server.recovery
    BY <2>1, <2>2, VerdictFacts
  <2>4. ASSUME version = 3 PROVE HeartbeatsFit
    <3>1. /\ Decodes(Sent) /\ serverOptions = server.options
          /\ clientOptions = Normalized(Decoded(Sent))
          /\ server.options \in Options /\ Usable(server.options)
      BY <2>1, <2>4 DEF ResultsFollow, Configured
    <3> QED BY <3>1, RoundedFits DEF HeartbeatsFit, Sent
  <2>5. ASSUME version = 3 PROVE ResumeKeepsConfig
    <3> DEFINE c == clientConfig.codec
               m == clientConfig.maxFrame
    <3>1. /\ server.codecs \in Seq(Nat \ {0}) /\ client.codecs \in Seq(Nat \ {0})
          /\ server.maxFrame \in Nat /\ m \in Nat /\ c \in Supported(server.codecs)
      BY <2>1, <2>3, NegotiationAssumption DEF Configured, Configs, Common
    <3>2. c \in Nat \ {0}
      BY <3>1 DEF Supported
    <3>3. SelectCodec(<<c>>, server.codecs) = c
      <4>1. <<c>> \in Seq(Nat \ {0}) /\ Supported(<<c>>) = {c}
        BY <3>2 DEF Supported
      <4> QED BY <3>1, <4>1, SelectsCommon
    <3>4. NegotiateMaxFrame(m, server.maxFrame) = m
      BY <2>3, <3>1 DEF NegotiateMaxFrame
    <3>5. Config(3, c, m) = clientConfig
      BY <2>3, <2>5 DEF Config, Configs
    <3> HIDE DEF c, m
    <3>6. HandshakeReply([kind |-> "hello", version |-> 3, codecs |-> <<c>>, maxFrame |-> m])
             = Reply(TRUE, Config(3, c, m))
      BY <2>3, <2>5, <3>2, <3>3, <3>4 DEF HandshakeReply
    <3> QED BY <3>5, <3>6 DEF ResumeKeepsConfig, c, m
  <2> QED BY <2>2, <2>3, <2>4, <2>5 DEF Agreement, Common
<1> QED BY <1>1, NegotiationInvHolds, PTL

(* With no failure connect succeeds exactly when the lists share a codec,  *)
(* in v3 if both sides enable recovery and in v2 otherwise, but for server *)
(* options that do not fit the wire or that rounding brings too close.     *)
THEOREM ConnectSucceedsHolds == Spec => []ConnectSucceeds
<1>1. NegotiationInv => ConnectSucceeds
  <2> SUFFICES ASSUME NegotiationInv, pc = "done", failures = 0 PROVE ConnectSucceeds
    BY DEF ConnectSucceeds
  <2>1. Configured /\ version \in {2, 3} /\ VersionsFollow /\ ResultsFollow /\ MessagesFollow
    BY DEF NegotiationInv, TypeOK
  <2>2. result \in {"ok", "codec", "options", "failed"}
    BY <2>1 DEF ResultsFollow, NegotiationInv, TypeOK
  <2>3. /\ Verdict.accept <=> Common # {} /\ (version = 3 => server.recovery)
        /\ Verdict.accept => Verdict.config.version = version
    BY <2>1, VerdictFacts
  <2>4. Decodes(Sent) <=> ~RoundsTooClose(server.options)
    BY <2>1, DecodesUnlessTooClose DEF Configured, Sent
  <2>5. result = "codec" => Common = {}
    BY <2>1 DEF ResultsFollow
  <2>6. result = "options" => /\ version = 3 /\ Verdict.accept
                              /\ Encodes(server.options) /\ RoundsTooClose(server.options)
    BY <2>1, <2>4 DEF ResultsFollow, Attaching
  <2>7. result = "failed" => version = 3 /\ Verdict.accept /\ ~Encodes(server.options)
    BY <2>1 DEF ResultsFollow, Attaching
  <2>8. result = "ok" =>
           /\ Verdict.accept /\ clientConfig = Verdict.config
           /\ version = 3 => Encodes(server.options) /\ ~RoundsTooClose(server.options)
    BY <2>1, <2>4 DEF ResultsFollow, MessagesFollow
  <2>9. client.recovery /\ server.recovery => version = 3
    BY <2>1 DEF VersionsFollow, Configured
  <2>10. version = 3 => client.recovery
    BY <2>1 DEF VersionsFollow
  <2> QED BY <2>1, <2>2, <2>3, <2>5, <2>6, <2>7, <2>8, <2>9, <2>10 DEF ConnectSucceeds, Common
<1> QED BY <1>1, NegotiationInvHolds, PTL
=============================================================================
