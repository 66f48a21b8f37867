---------------------------- MODULE Negotiation ----------------------------
(***************************************************************************)
(* How a client and a server come to a connection: Client.connect with its *)
(* retries, the handshake (version, codec, max frame), the fallback from   *)
(* v3 to v2, and the attach that hands the server's recovery settings to   *)
(* the client.                                                             *)
(*                                                                         *)
(* Codec lists are sequences of IDs.  Durations count Ticks, of which      *)
(* TicksPerMilli make a millisecond, the unit in which they travel;        *)
(* MaxMillis stands for the largest uint32.                                *)
(*                                                                         *)
(* Operators marked faulty are used by no definition here: each is a       *)
(* plausible bug in the operator that follows it.                          *)
(***************************************************************************)
EXTENDS Naturals, Sequences

CONSTANTS
    CodecLists,      \* codec lists that applications configure
    MaxFrames,       \* limits that applications configure
    Intervals, Timeouts, AckDelays,   \* server options; 0 asks for the default
    DefaultInterval, DefaultTimeout, DefaultAckDelay,
    TicksPerMilli, MaxMillis,
    MaxFailures      \* bound: dials and transports that fail

ASSUME NegotiationAssumption ==
    /\ \A l \in CodecLists : l \in Seq(Nat \ {0}) /\ l # <<>>
    /\ MaxFrames \subseteq Nat
    /\ Intervals \subseteq Nat /\ Timeouts \subseteq Nat /\ AckDelays \subseteq Nat
    /\ DefaultInterval \in Nat \ {0} /\ DefaultTimeout \in Nat \ {0}
    /\ DefaultAckDelay \in Nat \ {0}
    /\ TicksPerMilli \in Nat \ {0} /\ MaxMillis \in Nat \ {0} /\ MaxFailures \in Nat

None == [kind |-> "none"]

VARIABLES
    client,      \* Client: codecs, maxFrame, recovery, and whether it has a connect timeout
    server,      \* Server: codecs, maxFrame, recovery and its options
    pc,          \* connect: "dial", "reply", "response" or "done"
    version,     \* of the attempt
    handler,     \* handleConn: "none", "hello", "attach", "open" or "closed"
    request, answer,   \* what is on its way to the server and to the client
    unread,      \* the server closed the conn with unread data in it
    result,      \* of connect: "none", "ok" or why it failed
    clientConfig, serverConfig,     \* connConfig
    clientOptions, serverOptions,   \* negotiatedRecoveryOptions in force
    failures

vars == <<client, server, pc, version, handler, request, answer, unread, result,
          clientConfig, serverConfig, clientOptions, serverOptions, failures>>

-----------------------------------------------------------------------------
(* Recovery options.                                                       *)

OrDefault(d, default) == IF d = 0 THEN default ELSE d

(* ServerRecoveryOptions.normalized, negotiatedRecoveryOptions.normalized. *)
Normalized(o) ==
    LET interval == OrDefault(o.interval, DefaultInterval)
        timeout  == OrDefault(o.timeout, DefaultTimeout)
    IN [ackDelay |-> OrDefault(o.ackDelay, DefaultAckDelay),
        interval |-> interval,
        timeout  |-> IF timeout < 2 * interval THEN 2 * interval ELSE timeout]

(* durationToMillis: whole milliseconds, at least one. *)
ToMillis(d) == IF d < TicksPerMilli THEN 1 ELSE d \div TicksPerMilli
FitsMillis(d) == ToMillis(d) <= MaxMillis

(* encodeNegotiatedRecoveryOptions, which fails for a duration too long. *)
Encodes(o) == FitsMillis(o.ackDelay) /\ FitsMillis(o.interval) /\ FitsMillis(o.timeout)
Encoded(o) == [ackDelay |-> ToMillis(o.ackDelay), interval |-> ToMillis(o.interval),
               timeout |-> ToMillis(o.timeout)]

(* decodeNegotiatedRecoveryOptions, which refuses what cannot work. *)
Decodes(e) == e.ackDelay > 0 /\ e.interval > 0 /\ e.timeout >= 2 * e.interval
Decoded(e) == [ackDelay |-> e.ackDelay * TicksPerMilli, interval |-> e.interval * TicksPerMilli,
               timeout |-> e.timeout * TicksPerMilli]

NoOptions == [ackDelay |-> 0, interval |-> 0, timeout |-> 0]

-----------------------------------------------------------------------------
(* The handshake of the server.                                            *)

Config(v, codec, max) == [version |-> v, codec |-> codec, maxFrame |-> max]
NoConfig == Config(0, 0, 0)

(* selectCodec: the first codec of the client that the server supports. *)
Supported(codecs) == {codecs[k] : k \in DOMAIN codecs}
SelectCodec(codecs, supported) ==
    LET common == {k \in DOMAIN codecs : codecs[k] \in Supported(supported)}
    IN IF common = {} THEN 0
       ELSE codecs[CHOOSE k \in common : \A j \in common : k <= j]

(* negotiateMaxFrame: the smaller limit. *)
NegotiateMaxFrameClient(clientMax, serverMax) == clientMax   \* faulty
NegotiateMaxFrame(clientMax, serverMax) == IF clientMax < serverMax THEN clientMax ELSE serverMax

(* supportedProtocolVersion *)
SupportedVersionOld(recovery) == IF recovery THEN 3 ELSE 1   \* faulty
SupportedVersion(recovery) == IF recovery THEN 3 ELSE 2

Reply(accept, config) == [kind |-> "reply", accept |-> accept, config |-> config]

(* handshakeServer. *)
HandshakeReply(req) ==
    LET codec == SelectCodec(req.codecs, server.codecs) IN
    IF req.version = 3 /\ ~server.recovery
    THEN Reply(FALSE, Config(SupportedVersion(server.recovery), 0, 0))
    ELSE IF codec = 0
    THEN Reply(FALSE, Config(req.version, 0, 0))
    ELSE Reply(TRUE, Config(req.version, codec,
                            NegotiateMaxFrame(req.maxFrame, server.maxFrame)))

(* Before it refuses a version the server reads the codec list, as closing *)
(* a conn with unread data would reset it and lose the reply.              *)
LeavesUnreadAlways(req) == req.version = 3 /\ ~server.recovery   \* faulty
LeavesUnread(req) == FALSE

-----------------------------------------------------------------------------
Init ==
    /\ client \in [codecs : CodecLists, maxFrame : MaxFrames, recovery : BOOLEAN,
                   timeout : BOOLEAN]
    /\ \E codecs \in CodecLists, max \in MaxFrames, recovery \in BOOLEAN,
          interval \in Intervals, timeout \in Timeouts, delay \in AckDelays :
         server = [codecs |-> codecs, maxFrame |-> max, recovery |-> recovery,
                   options |-> Normalized([ackDelay |-> delay, interval |-> interval,
                                           timeout |-> timeout])]
    /\ pc = "dial" /\ version = SupportedVersion(client.recovery)
    /\ handler = "none" /\ request = None /\ answer = None /\ unread = FALSE
    /\ result = "none"
    /\ clientConfig = NoConfig /\ serverConfig = NoConfig
    /\ clientOptions = NoOptions /\ serverOptions = NoOptions
    /\ failures = 0

Done(r) == pc' = "done" /\ result' = r

(* dialBefore and the request of handshakeClient. *)
Dial ==
    /\ pc = "dial"
    /\ pc' = "reply" /\ handler' = "hello"
    /\ request' = [kind |-> "hello", version |-> version, codecs |-> client.codecs,
                   maxFrame |-> client.maxFrame]
    /\ answer' = None /\ unread' = FALSE /\ serverConfig' = NoConfig
    /\ UNCHANGED <<client, server, version, result, clientConfig, clientOptions,
                   serverOptions, failures>>

(* A dial that fails is retried, from the first version, until the connect *)
(* timeout; without one connect fails.                                     *)
DialError ==
    /\ pc = "dial" /\ failures < MaxFailures
    /\ failures' = failures + 1
    /\ \/ /\ client.timeout
          /\ version' = SupportedVersion(client.recovery)
          /\ UNCHANGED <<pc, result>>
       \/ /\ Done(IF client.timeout THEN "timeout" ELSE "dial")
          /\ UNCHANGED version
    /\ UNCHANGED <<client, server, handler, request, answer, unread, clientConfig,
                   serverConfig, clientOptions, serverOptions>>

(* handshakeServer answers; what it refuses handleConn closes. *)
HandshakeServer ==
    /\ handler = "hello" /\ request.kind = "hello"
    /\ LET reply == HandshakeReply(request) IN
       /\ answer' = reply
       /\ serverConfig' = IF reply.accept THEN reply.config ELSE NoConfig
       /\ handler' = IF ~reply.accept THEN "closed"
                     ELSE IF reply.config.version = 3 THEN "attach" ELSE "open"
       /\ unread' = LeavesUnread(request)
    /\ request' = None
    /\ UNCHANGED <<client, server, pc, version, result, clientConfig, clientOptions,
                   serverOptions, failures>>

(* handshakeClient, and connectAttempt's fallback to v2. *)
HandshakeClient ==
    /\ pc = "reply" /\ answer.kind = "reply"
    /\ answer' = None
    /\ LET c == answer.config IN
       \/ /\ c.version # version
          /\ IF version = 3 /\ c.version = 2
             THEN version' = 2 /\ pc' = "dial" /\ UNCHANGED result
             ELSE Done("version") /\ UNCHANGED version
          /\ UNCHANGED <<request, clientConfig>>
       \/ /\ c.version = version /\ ~answer.accept
          /\ Done("codec")
          /\ UNCHANGED <<version, request, clientConfig>>
       \/ /\ c.version = version /\ answer.accept /\ version = 2
          /\ clientConfig' = c
          /\ Done("ok")
          /\ UNCHANGED <<version, request>>
       \/ /\ c.version = version /\ answer.accept /\ version = 3
          /\ clientConfig' = c
          /\ request' = [kind |-> "attach"]
          /\ pc' = "response"
          /\ UNCHANGED <<version, result>>
    /\ UNCHANGED <<client, server, handler, unread, serverConfig, clientOptions,
                   serverOptions, failures>>

(* attachNew: options that do not encode fail the attach. *)
AttachServer ==
    /\ handler = "attach" /\ request.kind = "attach"
    /\ request' = None
    /\ IF Encodes(Normalized(server.options))
       THEN /\ answer' = [kind |-> "attached", options |-> Encoded(Normalized(server.options))]
            /\ handler' = "open"
            /\ serverOptions' = Normalized(server.options)
       ELSE /\ handler' = "closed"
            /\ UNCHANGED <<answer, serverOptions>>
    /\ UNCHANGED <<client, server, pc, version, unread, result, clientConfig, serverConfig,
                   clientOptions, failures>>

(* startRecoveryConnection. *)
AttachClient ==
    /\ pc = "response" /\ answer.kind = "attached"
    /\ answer' = None
    /\ IF Decodes(answer.options)
       THEN /\ Done("ok")
            /\ clientOptions' = Normalized(Decoded(answer.options))
       ELSE /\ Done("options")
            /\ UNCHANGED clientOptions
    /\ UNCHANGED <<client, server, version, handler, request, unread, clientConfig,
                   serverConfig, serverOptions, failures>>

(* The conn fails before the client has its answer: it was reset, closed   *)
(* by the server, or broke.                                                *)
ReadError ==
    /\ pc \in {"reply", "response"}
    /\ \/ (unread \/ (handler = "closed" /\ answer = None)) /\ UNCHANGED failures
       \/ failures < MaxFailures /\ failures' = failures + 1
    /\ Done("failed")
    /\ UNCHANGED <<client, server, version, handler, request, answer, unread, clientConfig,
                   serverConfig, clientOptions, serverOptions>>

Next ==
    \/ Dial \/ DialError \/ HandshakeServer \/ HandshakeClient \/ AttachServer \/ AttachClient
    \/ ReadError

Spec == Init /\ [][Next]_vars

-----------------------------------------------------------------------------
(* Properties.                                                             *)

Options == [ackDelay : Nat, interval : Nat, timeout : Nat]
Configs == [version : {0, 2, 3}, codec : Nat, maxFrame : Nat]

TypeOK ==
    /\ client.codecs \in CodecLists /\ server.codecs \in CodecLists
    /\ server.options \in Options
    /\ pc \in {"dial", "reply", "response", "done"} /\ version \in {2, 3}
    /\ handler \in {"none", "hello", "attach", "open", "closed"}
    /\ request.kind \in {"none", "hello", "attach"}
    /\ answer.kind \in {"none", "reply", "attached"}
    /\ unread \in BOOLEAN /\ failures \in 0..MaxFailures
    /\ result \in {"none", "ok", "dial", "timeout", "version", "codec", "options", "failed"}
    /\ clientConfig \in Configs /\ serverConfig \in Configs
    /\ clientOptions \in Options /\ serverOptions \in Options

(* Each side of a v3 connection pings more often than the other times out, *)
(* though the settings of the client were rounded on their way.            *)
HeartbeatsFit ==
    /\ serverOptions.interval < clientOptions.timeout
    /\ clientOptions.interval < serverOptions.timeout

(* A resume, which offers the codec and the frame limit in force           *)
(* (resumeClientTransport), is answered with the same again.               *)
ResumeKeepsConfig ==
    HandshakeReply([kind |-> "hello", version |-> 3, codecs |-> <<clientConfig.codec>>,
                    maxFrame |-> clientConfig.maxFrame]) = Reply(TRUE, clientConfig)

(* A client that has a connection and its server have the same version,    *)
(* codec and frame limit, also after a fallback; both listed the codec,    *)
(* and neither gets a larger frame than it allows.  In v3 the heartbeats   *)
(* fit, and a resume keeps the configuration.                              *)
Agreement ==
    result = "ok" =>
       /\ clientConfig = serverConfig
       /\ clientConfig.codec \in Supported(client.codecs) \cap Supported(server.codecs)
       /\ clientConfig.maxFrame <= client.maxFrame /\ clientConfig.maxFrame <= server.maxFrame
       /\ version = 3 => HeartbeatsFit /\ ResumeKeepsConfig

(* The rounding that keeps a short interval positive on the wire leaves it *)
(* more than half of the timeout.                                          *)
RoundsTooClose(o) == o.interval < TicksPerMilli /\ o.timeout < 2 * TicksPerMilli

(* "When both sides enable recovery, the connection negotiates protocol    *)
(* v3; otherwise the client falls back to legacy v2": with no failure,     *)
(* connect succeeds exactly when the lists share a codec, with that        *)
(* version.  The exceptions are the options of a server that do not fit    *)
(* the wire, and an interval below one millisecond with a timeout below    *)
(* two: every client refuses the attach, though the timeout is at least    *)
(* twice the interval.                                                     *)
ConnectSucceeds ==
    pc = "done" /\ failures = 0 =>
       IF Supported(client.codecs) \cap Supported(server.codecs) = {}
       THEN result = "codec"
       ELSE IF client.recovery /\ server.recovery
       THEN /\ result \in {"ok", "failed", "options"}
            /\ result = "failed" <=> ~Encodes(server.options)
            /\ result = "options" <=> Encodes(server.options) /\ RoundsTooClose(server.options)
            /\ result = "ok" => clientConfig.version = 3
       ELSE result = "ok" /\ clientConfig.version = 2
=============================================================================
