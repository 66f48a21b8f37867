-------------------------- MODULE ServerLifecycle --------------------------
(***************************************************************************)
(* Server: Serve and its accept loop, the goroutine that handles each      *)
(* accepted conn (handshake, attach, resume, OnConnect, OnDisconnect), the *)
(* table of recovery connections, the expiry of detached ones, and         *)
(* Shutdown.                                                               *)
(*                                                                         *)
(* Conns are the accepted net.Conns, numbered in the order of acceptance.  *)
(* A logical connection has the number of the conn that created it; in v2  *)
(* it lives on that conn, in v3 ("new") later conns may resume it.  What a *)
(* connection does while it is open is the subject of Connection and       *)
(* RecoverySession: here it fails, detaches or closes at any time.         *)
(*                                                                         *)
(* Critical sections of lifecycleMu, recoveryMu, transportMu and of the    *)
(* recovery state's mu are single steps; so is what a goroutine does       *)
(* between two of them, and the Close of a net.Conn that follows an unlock *)
(* belongs to the section before it.  Timers fire at any time after they   *)
(* are set.                                                                *)
(*                                                                         *)
(* Operators marked faulty are used by no definition here: each is a       *)
(* plausible bug in the operator that follows it.                          *)
(***************************************************************************)
EXTENDS Naturals, FiniteSets

CONSTANTS
    NConns,      \* bound: conns that are accepted
    Kinds,       \* what they ask for: a subset of {"v2", "new", "resume"}
    MaxRecovery  \* bound: recovery connections that are created

ASSUME ServerAssumption ==
    /\ NConns \in Nat \ {0} /\ MaxRecovery \in Nat
    /\ Kinds \subseteq {"v2", "new", "resume"}

Conns == 1..NConns
None == 0

VARIABLES
    stopping,    \* Server.stopping with stopCh
    serve,       \* Serve: "idle", "listen", "accept", "begin", "backoff", "leave", "done"
    listening,   \* the listener is open
    listeners,   \* Server.listeners holds it
    accepted,    \* number of conns accepted
    handshakes, conns, recoveryConns, running,
    \* one handler per conn
    handler,     \* handleConn: where it is
    kind,        \* what its peer asked for
    target,      \* the connection it attaches to
    live,        \* the conn is open, and nobody has unlocked to close it
    \* one logical connection per "v2" or "new" conn
    started,
    closed,      \* Connection.closed with closeCh
    release,     \* inside closeOnce: "transport", "timer", "table" are still to go
    transport,   \* Connection.conn
    schedule,    \* number of detaches whose scheduleExpiry is still to run
    timer,       \* expireTimer is set
    fired,       \* number of its callbacks before their check
    expiring,    \* number of them between their check and markClosed
    waiter,      \* awaitClose: "none", "wait", "callback", "done"
    connects, disconnects,   \* OnConnect calls that accepted, OnDisconnect calls
    \* Shutdown: "idle", "listeners", "handshakes", "wait", "nil" or "ctx" (returned)
    shutdown, toDrop, toClose, closers

serveVars == <<serve, listening, listeners, accepted>>
tableVars == <<stopping, handshakes, conns, recoveryConns, running>>
connVars == <<handler, kind, target, live>>
timerVars == <<schedule, timer, fired, expiring>>
sessionVars == <<started, closed, release, transport>>
callbackVars == <<waiter, connects, disconnects>>
shutdownVars == <<shutdown, toDrop, toClose, closers>>
vars == <<serveVars, tableVars, connVars, timerVars, sessionVars, callbackVars, shutdownVars>>

Init ==
    /\ stopping = FALSE /\ serve = "idle" /\ listening = FALSE /\ listeners = FALSE
    /\ accepted = 0 /\ handshakes = {} /\ conns = {} /\ recoveryConns = {} /\ running = 0
    /\ handler = [c \in Conns |-> "none"] /\ kind = [c \in Conns |-> "none"]
    /\ target = [c \in Conns |-> c] /\ live = [c \in Conns |-> FALSE]
    /\ started = [c \in Conns |-> FALSE] /\ closed = [c \in Conns |-> FALSE]
    /\ release = [c \in Conns |-> "none"] /\ transport = [c \in Conns |-> None]
    /\ schedule = [c \in Conns |-> 0] /\ timer = [c \in Conns |-> FALSE]
    /\ fired = [c \in Conns |-> 0] /\ expiring = [c \in Conns |-> 0]
    /\ waiter = [c \in Conns |-> "none"]
    /\ connects = [c \in Conns |-> 0] /\ disconnects = [c \in Conns |-> 0]
    /\ shutdown = "idle" /\ toDrop = {} /\ toClose = {} /\ closers = {}

-----------------------------------------------------------------------------
(* Serve.                                                                  *)

Serve ==
    /\ serve = "idle"
    /\ serve' = IF stopping THEN "done" ELSE "listen"
    /\ UNCHANGED <<listening, listeners, accepted, tableVars, connVars, timerVars,
                   sessionVars, callbackVars, shutdownVars>>

(* net.Listen fails, or trackListener takes the listener unless Shutdown   *)
(* has begun.                                                              *)
TrackListener ==
    /\ serve = "listen"
    /\ \/ /\ ~stopping
          /\ serve' = "accept" /\ listening' = TRUE /\ listeners' = TRUE
       \/ /\ serve' = "done" /\ UNCHANGED <<listening, listeners>>
    /\ UNCHANGED <<accepted, tableVars, connVars, timerVars, sessionVars, callbackVars,
                   shutdownVars>>

Accept ==
    /\ serve = "accept" /\ listening /\ accepted < NConns
    /\ serve' = "begin" /\ accepted' = accepted + 1
    /\ live' = [live EXCEPT ![accepted + 1] = TRUE]
    /\ UNCHANGED <<listening, listeners, tableVars, handler, kind, target, timerVars,
                   sessionVars, callbackVars, shutdownVars>>

(* A failed accept ends Serve only if Shutdown has begun. *)
AcceptError ==
    /\ serve = "accept"
    /\ serve' = IF stopping THEN "leave" ELSE "backoff"
    /\ UNCHANGED <<listening, listeners, accepted, tableVars, connVars, timerVars,
                   sessionVars, callbackVars, shutdownVars>>

Backoff ==
    /\ serve = "backoff"
    /\ \/ serve' = "accept"
       \/ stopping /\ serve' = "leave"
    /\ UNCHANGED <<listening, listeners, accepted, tableVars, connVars, timerVars,
                   sessionVars, callbackVars, shutdownVars>>

(* beginHandshake counts the goroutine that will serve the conn. *)
BeginHandshake ==
    /\ serve = "begin"
    /\ IF stopping
       THEN /\ serve' = "leave"
            /\ live' = [live EXCEPT ![accepted] = FALSE]
            /\ UNCHANGED <<handshakes, running, handler>>
       ELSE /\ serve' = "accept"
            /\ handshakes' = handshakes \cup {accepted}
            /\ running' = running + 1
            /\ handler' = [handler EXCEPT ![accepted] = "hello"]
            /\ UNCHANGED live
    /\ UNCHANGED <<listening, listeners, accepted, stopping, conns, recoveryConns, kind,
                   target, timerVars, sessionVars, callbackVars, shutdownVars>>

(* The deferred untrackListener and Close of the listener. *)
ServeReturn ==
    /\ serve = "leave"
    /\ serve' = "done" /\ listening' = FALSE /\ listeners' = FALSE
    /\ UNCHANGED <<accepted, tableVars, connVars, timerVars, sessionVars, callbackVars,
                   shutdownVars>>

-----------------------------------------------------------------------------
(* The logical connection.                                                 *)

Closed(C) == [c \in Conns |-> live[c] /\ c \notin C]

(* markClosed: the one goroutine that enters closeOnce sets closed, closes *)
(* closeCh and goes on with ReleaseStep; whoever calls it meanwhile waits. *)
MarkClosed(s) ==
    IF closed[s]
    THEN UNCHANGED <<closed, release>>
    ELSE /\ closed' = [closed EXCEPT ![s] = TRUE]
         /\ release' = [release EXCEPT ![s] = "transport"]

Released(s) == closed[s] /\ release[s] = "none"

(* closeTransport, under transportMu; in v2 it is the last of it. *)
CloseTransport(s) ==
    /\ release[s] = "transport"
    /\ transport' = [transport EXCEPT ![s] = None]
    /\ live' = Closed({transport[s]})
    /\ release' = [release EXCEPT ![s] = IF kind[s] = "new" THEN "timer" ELSE "none"]
    /\ UNCHANGED <<serveVars, tableVars, handler, kind, target, timerVars, started, closed,
                   callbackVars, shutdownVars>>

(* onClosed stops the expiry timer ... *)
StopTimer(s) ==
    /\ release[s] = "timer"
    /\ timer' = [timer EXCEPT ![s] = FALSE]
    /\ release' = [release EXCEPT ![s] = "table"]
    /\ UNCHANGED <<serveVars, tableVars, connVars, schedule, fired, expiring, started,
                   closed, transport, callbackVars, shutdownVars>>

(* ... and removes the connection from the table. *)
RemoveRecoveryConnection(s) ==
    /\ release[s] = "table"
    /\ recoveryConns' = recoveryConns \ {s}
    /\ release' = [release EXCEPT ![s] = "none"]
    /\ UNCHANGED <<serveVars, stopping, handshakes, conns, running, connVars, timerVars, started,
                   closed, transport, callbackVars, shutdownVars>>

ReleaseStep(s) == CloseTransport(s) \/ StopTimer(s) \/ RemoveRecoveryConnection(s)

(* attachTransport under transportMu: the conn replaces the old transport, *)
(* which is closed; a closed connection closes the conn.                   *)
AttachTransportAnyway(s, c) ==   \* faulty
    /\ transport' = [transport EXCEPT ![s] = c]
    /\ live' = Closed({transport[s]} \ {c})
AttachTransport(s, c) ==
    IF closed[s]
    THEN /\ live' = Closed({c})
         /\ UNCHANGED transport
    ELSE /\ transport' = [transport EXCEPT ![s] = c]
         /\ live' = Closed({transport[s]} \ {c})

(* The rest of attachTransport: onAttached stops the expiry timer. *)
OnAttached(s) == timer' = [timer EXCEPT ![s] = FALSE]

(* A v3 reader or writer loses its transport: detachTransport, which only  *)
(* asks whether it still is the transport.                                 *)
Detach(s) ==
    /\ kind[s] = "new" /\ started[s] /\ transport[s] # None
    /\ transport' = [transport EXCEPT ![s] = None]
    /\ live' = Closed({transport[s]})
    /\ schedule' = [schedule EXCEPT ![s] = @ + 1]
    /\ UNCHANGED <<serveVars, tableVars, handler, kind, target, timer, fired, expiring,
                   started, closed, release, callbackVars, shutdownVars>>

(* onDetached, after the unlock: scheduleExpiry replaces the timer. *)
ScheduleExpiry(s) ==
    /\ schedule[s] > 0
    /\ schedule' = [schedule EXCEPT ![s] = @ - 1]
    /\ timer' = [timer EXCEPT ![s] = TRUE]
    /\ UNCHANGED <<serveVars, tableVars, connVars, fired, expiring, sessionVars, callbackVars,
                   shutdownVars>>

Fire(s) ==
    /\ timer[s]
    /\ timer' = [timer EXCEPT ![s] = FALSE]
    /\ fired' = [fired EXCEPT ![s] = @ + 1]
    /\ UNCHANGED <<serveVars, tableVars, connVars, schedule, expiring, sessionVars, callbackVars,
                   shutdownVars>>

(* The callback: only a connection that has no transport expires. *)
ExpiryCheckInverted(s) == transport[s] # None /\ ~closed[s]   \* faulty
ExpiryCheck(s) == transport[s] = None /\ ~closed[s]

ExpireCheck(s) ==
    /\ fired[s] > 0
    /\ fired' = [fired EXCEPT ![s] = @ - 1]
    /\ expiring' = [expiring EXCEPT ![s] = IF ExpiryCheck(s) THEN @ + 1 ELSE @]
    /\ UNCHANGED <<serveVars, tableVars, connVars, schedule, timer, sessionVars, callbackVars,
                   shutdownVars>>

Expire(s) ==
    /\ expiring[s] > 0
    /\ expiring' = [expiring EXCEPT ![s] = @ - 1]
    /\ MarkClosed(s)
    /\ UNCHANGED <<serveVars, tableVars, connVars, schedule, timer, fired, started, transport,
                   callbackVars, shutdownVars>>

(* The connection is closed by its peer or by a bad frame and, in v2, by   *)
(* any failure of its transport.                                           *)
PeerClose(s) ==
    /\ started[s] /\ ~closed[s] /\ transport[s] # None
    /\ MarkClosed(s)
    /\ UNCHANGED <<serveVars, tableVars, connVars, timerVars, started, transport, callbackVars,
                   shutdownVars>>

-----------------------------------------------------------------------------
(* handleConn.                                                             *)

Goto(c, pc) == handler' = [handler EXCEPT ![c] = pc]

(* The handshake or the attach request fails, at the latest after          *)
(* handshakeTimeout.                                                       *)
HandshakeError(c) ==
    /\ handler[c] \in {"hello", "attach"}
    /\ Goto(c, "leave")
    /\ live' = Closed({c})
    /\ UNCHANGED <<serveVars, tableVars, kind, target, timerVars, sessionVars, callbackVars,
                   shutdownVars>>

(* handshakeServer: the version. *)
Hello(c) ==
    /\ handler[c] = "hello" /\ live[c]
    /\ \/ /\ "v2" \in Kinds
          /\ kind' = [kind EXCEPT ![c] = "v2"]
          /\ transport' = [transport EXCEPT ![c] = c]
          /\ Goto(c, "onConnect")
       \/ /\ Kinds \cap {"new", "resume"} # {}
          /\ Goto(c, "attach")
          /\ UNCHANGED <<kind, transport>>
    /\ UNCHANGED <<serveVars, tableVars, target, live, timerVars, started, closed, release,
                   callbackVars, shutdownVars>>

(* attachNew stores the connection before it answers. *)
AttachNew(c) ==
    /\ handler[c] = "attach" /\ live[c] /\ "new" \in Kinds
    /\ Cardinality({s \in Conns : kind[s] = "new"}) < MaxRecovery
    /\ kind' = [kind EXCEPT ![c] = "new"]
    /\ transport' = [transport EXCEPT ![c] = c]
    /\ recoveryConns' = recoveryConns \cup {c}
    /\ Goto(c, "respond")
    /\ UNCHANGED <<serveVars, stopping, handshakes, conns, running, target, live, timerVars,
                   started, closed, release, callbackVars, shutdownVars>>

(* The answer tells the client the ID; if it cannot be written the         *)
(* connection is forgotten.                                                *)
RespondForgetsNot(c) == UNCHANGED recoveryConns   \* faulty
RespondForgets(c) == recoveryConns' = recoveryConns \ {c}

RespondNew(c) ==
    /\ handler[c] = "respond"
    /\ \/ /\ live[c] /\ Goto(c, "move")
          /\ UNCHANGED <<recoveryConns, live>>
       \/ /\ Goto(c, "leave")
          /\ RespondForgets(c)
          /\ live' = Closed({c})
    /\ UNCHANGED <<serveVars, stopping, handshakes, conns, running, kind, target, timerVars,
                   sessionVars, callbackVars, shutdownVars>>

(* attachResume of a connection whose ID was told, up to the answer; it is *)
(* rejected if the connection is gone.                                     *)
Told(s) == kind[s] = "new" /\ handler[s] \notin {"respond"}

AttachResume(c) ==
    /\ handler[c] = "attach" /\ live[c] /\ "resume" \in Kinds
    /\ kind' = [kind EXCEPT ![c] = "resume"]
    /\ \E s \in Conns :
         /\ Told(s)
         /\ target' = [target EXCEPT ![c] = s]
         /\ \/ /\ s \in recoveryConns /\ ~closed[s]
               /\ Goto(c, "move") /\ UNCHANGED live
            \/ /\ Goto(c, "leave") /\ live' = Closed({c})
    /\ UNCHANGED <<serveVars, tableVars, timerVars, sessionVars, callbackVars, shutdownVars>>

AfterMove(c) == IF kind[c] = "new" THEN "onConnect" ELSE "leave"

Move(c) ==
    /\ handler[c] = "move"
    /\ AttachTransport(target[c], c)
    /\ Goto(c, IF closed[target[c]] THEN AfterMove(c) ELSE "attached")
    /\ UNCHANGED <<serveVars, tableVars, kind, target, timerVars, started, closed, release,
                   callbackVars, shutdownVars>>

MoveEnd(c) ==
    /\ handler[c] = "attached"
    /\ OnAttached(target[c])
    /\ Goto(c, AfterMove(c))
    /\ UNCHANGED <<serveVars, tableVars, kind, target, live, schedule, fired, expiring,
                   sessionVars, callbackVars, shutdownVars>>

(* OnConnect accepts, and the connection starts; or it refuses: in v2 the  *)
(* conn is closed, in v3 first the connection is.                          *)
OnConnectAccept(c) ==
    /\ handler[c] = "onConnect"
    /\ connects' = [connects EXCEPT ![c] = @ + 1]
    /\ started' = [started EXCEPT ![c] = TRUE]
    /\ Goto(c, "track")
    /\ UNCHANGED <<serveVars, tableVars, kind, target, live, timerVars, closed, release,
                   transport, waiter, disconnects, shutdownVars>>

OnConnectRefuse(c) ==
    /\ handler[c] = "onConnect"
    /\ IF kind[c] = "v2"
       THEN /\ Goto(c, "leave")
            /\ live' = Closed({c})
            /\ transport' = [transport EXCEPT ![c] = None]
            /\ UNCHANGED <<closed, release>>
       ELSE /\ Goto(c, "refused")
            /\ MarkClosed(c)
            /\ UNCHANGED <<live, transport>>
    /\ UNCHANGED <<serveVars, tableVars, kind, target, timerVars, started, callbackVars,
                   shutdownVars>>

RefuseReturns(c) ==
    /\ handler[c] = "refused" /\ Released(c)
    /\ Goto(c, "leave")
    /\ live' = Closed({c})
    /\ UNCHANGED <<serveVars, tableVars, kind, target, timerVars, sessionVars, callbackVars,
                   shutdownVars>>

(* trackConn: the connection is in handshakes until it is in conns; once   *)
(* Shutdown has begun the handler closes it itself.                        *)
TrackAlways(c) ==   \* faulty
    conns' = conns \cup {c} /\ Goto(c, "await")
Track(c) ==
    IF stopping
    THEN Goto(c, "close") /\ UNCHANGED conns
    ELSE conns' = conns \cup {c} /\ Goto(c, "await")

TrackConn(c) ==
    /\ handler[c] = "track"
    /\ handshakes' = handshakes \ {c}
    /\ Track(c)
    /\ UNCHANGED <<serveVars, stopping, recoveryConns, running, kind, target, live, timerVars,
                   sessionVars, callbackVars, shutdownVars>>

CloseUntracked(c) ==
    /\ handler[c] = "close"
    /\ Goto(c, "closing")
    /\ MarkClosed(c)
    /\ UNCHANGED <<serveVars, tableVars, kind, target, live, timerVars, started, transport,
                   callbackVars, shutdownVars>>

CloseReturns(c) ==
    /\ handler[c] = "closing" /\ Released(c)
    /\ Goto(c, "await")
    /\ UNCHANGED <<serveVars, tableVars, kind, target, live, timerVars, sessionVars, callbackVars,
                   shutdownVars>>

(* awaitClose runs in the handler in v2 and in a goroutine of its own,     *)
(* counted in running, in v3.                                              *)
SpawnedUncounted(c) == running   \* faulty
Spawned(c) == IF kind[c] = "new" THEN running + 1 ELSE running

Await(c) ==
    /\ handler[c] = "await" /\ waiter[c] = "none"
    /\ waiter' = [waiter EXCEPT ![c] = "wait"]
    /\ running' = Spawned(c)
    /\ Goto(c, IF kind[c] = "new" THEN "leave" ELSE "await")
    /\ UNCHANGED <<serveVars, stopping, handshakes, conns, recoveryConns, kind, target, live,
                   timerVars, sessionVars, connects, disconnects, shutdownVars>>

(* closeCh ends the wait, whatever of markClosed is still to come. *)
UntrackConn(s) ==
    /\ waiter[s] = "wait" /\ closed[s]
    /\ conns' = conns \ {s}
    /\ waiter' = [waiter EXCEPT ![s] = "callback"]
    /\ UNCHANGED <<serveVars, stopping, handshakes, recoveryConns, running, connVars,
                   timerVars, sessionVars, connects, disconnects, shutdownVars>>

OnDisconnect(s) ==
    /\ waiter[s] = "callback"
    /\ disconnects' = [disconnects EXCEPT ![s] = @ + 1]
    /\ waiter' = [waiter EXCEPT ![s] = "done"]
    /\ running' = IF kind[s] = "new" THEN running - 1 ELSE running
    /\ handler' = IF kind[s] = "new" THEN handler ELSE [handler EXCEPT ![s] = "leave"]
    /\ UNCHANGED <<serveVars, stopping, handshakes, conns, recoveryConns, kind, target, live,
                   timerVars, sessionVars, connects, shutdownVars>>

(* The deferred endHandshake and running.Done. *)
EndHandshake(c) ==
    /\ handler[c] = "leave"
    /\ handshakes' = handshakes \ {c}
    /\ running' = running - 1
    /\ Goto(c, "end")
    /\ UNCHANGED <<serveVars, stopping, conns, recoveryConns, kind, target, live, timerVars,
                   sessionVars, callbackVars, shutdownVars>>

-----------------------------------------------------------------------------
(* Shutdown.                                                               *)

(* Under lifecycleMu: what is there to close. *)
Shutdown ==
    /\ shutdown \in {"idle", "ctx"}
    /\ stopping' = TRUE
    /\ shutdown' = "listeners"
    /\ toDrop' = handshakes /\ toClose' = conns
    /\ UNCHANGED <<serveVars, handshakes, conns, recoveryConns, running, connVars, timerVars,
                   sessionVars, callbackVars, closers>>

ShutdownListeners ==
    /\ shutdown = "listeners"
    /\ listening' = FALSE
    /\ shutdown' = "handshakes"
    /\ UNCHANGED <<serve, listeners, accepted, tableVars, connVars, timerVars, sessionVars,
                   callbackVars, toDrop, toClose, closers>>

ShutdownHandshake ==
    /\ shutdown = "handshakes"
    /\ \E c \in toDrop :
         /\ toDrop' = toDrop \ {c}
         /\ live' = Closed({c})
    /\ UNCHANGED <<serveVars, tableVars, handler, kind, target, timerVars, sessionVars,
                   callbackVars, shutdown, toClose, closers>>

(* go connection.Close() for each connection of the snapshot. *)
SpawnClosersNone == closers   \* faulty
SpawnClosers == closers \cup toClose

ShutdownConns ==
    /\ shutdown = "handshakes" /\ toDrop = {}
    /\ shutdown' = "wait"
    /\ closers' = SpawnClosers
    /\ toClose' = {}
    /\ UNCHANGED <<serveVars, tableVars, connVars, timerVars, sessionVars, callbackVars,
                   toDrop>>

(* Each connection.Close runs in a goroutine of its own, which running     *)
(* does not count, and comes to markClosed in the end.                     *)
CloserEnd(s) ==
    /\ s \in closers
    /\ closers' = closers \ {s}
    /\ MarkClosed(s)
    /\ UNCHANGED <<serveVars, tableVars, connVars, timerVars, started, transport, callbackVars,
                   shutdown, toDrop, toClose>>

(* What running.Wait waits for. *)
AllDoneTables == conns = {} /\ handshakes = {}   \* faulty
AllDone == running = 0

(* ... or ctx is done first. *)
ShutdownReturn ==
    /\ shutdown = "wait"
    /\ \/ AllDone /\ shutdown' = "nil"
       \/ shutdown' = "ctx"
    /\ UNCHANGED <<serveVars, tableVars, connVars, timerVars, sessionVars, callbackVars,
                   toDrop, toClose, closers>>

-----------------------------------------------------------------------------
ServeStep == TrackListener \/ AcceptError \/ Backoff \/ BeginHandshake \/ ServeReturn

HandlerStep(c) ==
    \/ HandshakeError(c) \/ Hello(c) \/ AttachNew(c) \/ RespondNew(c) \/ AttachResume(c)
    \/ Move(c) \/ MoveEnd(c) \/ OnConnectAccept(c) \/ OnConnectRefuse(c)
    \/ RefuseReturns(c) \/ TrackConn(c) \/ CloseUntracked(c) \/ CloseReturns(c)
    \/ Await(c) \/ EndHandshake(c)

WaiterStep(s) == UntrackConn(s) \/ OnDisconnect(s)

TimerStep(s) == ScheduleExpiry(s) \/ Fire(s) \/ ExpireCheck(s) \/ Expire(s)

ShutdownStep ==
    \/ ShutdownListeners \/ ShutdownHandshake \/ ShutdownConns \/ ShutdownReturn

Next ==
    \/ Serve \/ Accept \/ ServeStep \/ Shutdown \/ ShutdownStep
    \/ \E c \in Conns : \/ HandlerStep(c) \/ WaiterStep(c) \/ TimerStep(c) \/ CloserEnd(c)
                        \/ ReleaseStep(c) \/ Detach(c) \/ PeerClose(c)

Spec == Init /\ [][Next]_vars

(* The loops of the library go on while they can, callbacks return, and    *)
(* timers fire (handshakeTimeout included).  A conn that the server has    *)
(* closed fails for its reader; one that is open may last.                 *)
FairSpec ==
    /\ Spec
    /\ WF_vars(TrackListener \/ (AcceptError /\ ~listening) \/ Backoff \/ BeginHandshake
               \/ ServeReturn)
    /\ WF_vars(ShutdownStep)
    /\ \A c \in Conns :
         /\ WF_vars(HandlerStep(c)) /\ WF_vars(WaiterStep(c)) /\ WF_vars(TimerStep(c))
         /\ WF_vars(CloserEnd(c)) /\ WF_vars(ReleaseStep(c))
         /\ WF_vars(Detach(c) /\ ~live[transport[c]])
         /\ WF_vars(PeerClose(c) /\ kind[c] = "v2" /\ ~live[transport[c]])

-----------------------------------------------------------------------------
(* Properties.                                                             *)

TypeOK ==
    /\ stopping \in BOOLEAN /\ listening \in BOOLEAN /\ listeners \in BOOLEAN
    /\ serve \in {"idle", "listen", "accept", "begin", "backoff", "leave", "done"}
    /\ accepted \in 0..NConns /\ running \in 0..2 * NConns
    /\ handshakes \subseteq Conns /\ conns \subseteq Conns /\ recoveryConns \subseteq Conns
    /\ handler \in [Conns -> {"none", "hello", "attach", "respond", "move", "attached",
                              "onConnect", "refused", "track", "close",
                              "closing", "await", "leave", "end"}]
    /\ kind \in [Conns -> {"none", "v2", "new", "resume"}]
    /\ target \in [Conns -> Conns] /\ live \in [Conns -> BOOLEAN]
    /\ started \in [Conns -> BOOLEAN] /\ closed \in [Conns -> BOOLEAN]
    /\ release \in [Conns -> {"none", "transport", "timer", "table"}]
    /\ transport \in [Conns -> Conns \cup {None}]
    /\ schedule \in [Conns -> Nat] /\ timer \in [Conns -> BOOLEAN]
    /\ fired \in [Conns -> Nat] /\ expiring \in [Conns -> Nat]
    /\ waiter \in [Conns -> {"none", "wait", "callback", "done"}]
    /\ connects \in [Conns -> 0..1] /\ disconnects \in [Conns -> 0..1]
    /\ shutdown \in {"idle", "listeners", "handshakes", "wait", "nil", "ctx"}
    /\ toDrop \subseteq Conns /\ toClose \subseteq Conns /\ closers \subseteq Conns

Busy(c) == handler[c] \notin {"none", "end"}

(* Shutdown returns nil only when no handler and no OnDisconnect runs or   *)
(* will, and every connection is closed.  The markClosed of some may still *)
(* be at work: running counts neither the goroutine that is in it nor what *)
(* it has to release, and nothing else is left, no entry in a table and no *)
(* conn but what it is about to remove and to close.                       *)
ShutdownComplete ==
    shutdown = "nil" =>
       /\ running = 0 /\ handshakes = {} /\ conns = {}
       /\ \A c \in Conns : ~Busy(c) /\ connects[c] = disconnects[c]
       /\ \A s \in Conns : started[s] => closed[s]
       /\ \A s \in recoveryConns : closed[s] /\ release[s] # "none"
       /\ \A c \in Conns : live[c] =>
             \/ c = accepted /\ serve = "begin"
             \/ \E s \in Conns : transport[s] = c /\ release[s] = "transport"

(* No net.Conn is left open for good: each is about to be refused by       *)
(* Serve, is in the hands of its handler, or is the transport of a         *)
(* connection; and however attachTransport races with markClosed, a closed *)
(* connection has no transport but one that its closeTransport will close. *)
OpenConnsAreOwned ==
    /\ \A c \in Conns :
          live[c] => \/ c = accepted /\ serve = "begin"
                     \/ Busy(c)
                     \/ \E s \in Conns : transport[s] = c
    /\ \A s \in Conns : closed[s] /\ transport[s] # None => release[s] = "transport"

(* A recovery connection that a resume can look up is about to be removed  *)
(* by its markClosed, or it is open and has a handler that will finish it  *)
(* or an awaitClose: one whose attach failed is forgotten.                 *)
StoredIsServed ==
    \A s \in recoveryConns :
       IF closed[s]
       THEN release[s] # "none"
       ELSE (Busy(s) /\ handler[s] # "leave") \/ waiter[s] = "wait"

(* No connection slips between the snapshot of Shutdown and trackConn:     *)
(* once Shutdown waits, every connection that is started is closed, has a  *)
(* goroutine that closes it, or has a handler that will.                   *)
NobodyEscapesShutdown ==
    shutdown \in {"wait", "nil", "ctx"} =>
       \A s \in Conns :
          started[s] => closed[s] \/ s \in closers \/ handler[s] \in {"track", "close"}

(* After Shutdown begins Serve returns, every handler and connection ends, *)
(* whether it was accepting, in the handshake, being tracked, attached or  *)
(* detached, and what Shutdown does not wait for is released as well: the  *)
(* table and all conns.                                                    *)
ShutdownEnds ==
    stopping ~> /\ running = 0 /\ serve \in {"idle", "done"} /\ recoveryConns = {}
                /\ \A c \in Conns : ~Busy(c) /\ connects[c] = disconnects[c] /\ ~live[c]

(* recovery.go: "DetachedTTL is how long the server retains a detached     *)
(* connection's state": one that is not resumed is closed in the end.      *)
DetachedExpires ==
    \A s \in Conns :
       started[s] /\ ~closed[s] /\ transport[s] = None
          ~> closed[s] \/ transport[s] # None
=============================================================================
