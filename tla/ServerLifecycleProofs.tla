----------------------- MODULE ServerLifecycleProofs -----------------------
(***************************************************************************)
(* Proofs about ServerLifecycle, for every number of conns and every mix   *)
(* of v2, v3 and resuming ones.                                            *)
(***************************************************************************)
EXTENDS ServerLifecycle, FiniteSetTheorems, TLAPS

-----------------------------------------------------------------------------
(* The inductive invariant.                                                *)

(* Where a handler is says what its peer asked for. *)
HandlersFollowKinds ==
    \A c \in Conns :
       /\ handler[c] \in {"none", "hello", "attach"} => kind[c] = "none"
       /\ handler[c] = "respond" => kind[c] = "new"
       /\ handler[c] \in {"move", "attached"} => kind[c] \in {"new", "resume"}
       /\ handler[c] = "refused" => kind[c] = "new"
       /\ handler[c] \in {"onConnect", "track", "close", "closing", "await"}
             => kind[c] \in {"v2", "new"}

(* A resume has found a v3 connection; any other handler serves its own. *)
TargetsAreTold ==
    \A c \in Conns : IF kind[c] = "resume" THEN Told(target[c]) ELSE target[c] = c

(* A conn that is not (yet) a connection has nothing of one. *)
UnbornIsUnused ==
    \A c \in Conns : kind[c] \in {"none", "resume"} =>
       /\ transport[c] = None /\ ~started[c] /\ ~closed[c]
       /\ schedule[c] = 0 /\ ~timer[c] /\ fired[c] = 0 /\ expiring[c] = 0
       /\ c \notin conns /\ c \notin recoveryConns /\ c \notin closers /\ c \notin toClose
       /\ waiter[c] = "none"

(* The callbacks and awaitClose follow the handler. *)
CallbacksFollow ==
    \A c \in Conns :
       /\ connects[c] = IF handler[c] \in {"track", "close", "closing", "await"}
                           \/ waiter[c] # "none" THEN 1 ELSE 0
       /\ disconnects[c] = IF waiter[c] = "done" THEN 1 ELSE 0
       /\ started[c] <=> \/ handler[c] \in {"track", "close", "closing", "await"}
                         \/ waiter[c] # "none"
       /\ waiter[c] # "none" => handler[c] \in {"await", "leave", "end"}
       /\ waiter[c] \in {"wait", "callback"} /\ kind[c] # "new" => handler[c] = "await"
       /\ handler[c] = "await" => waiter[c] # "done" /\ (kind[c] = "new" => waiter[c] = "none")
       /\ waiter[c] \in {"callback", "done"} => closed[c]

(* Whoever is in a table has a goroutine that takes it out. *)
TablesAreServed ==
    \A c \in Conns :
       /\ c \in handshakes => Busy(c)
       /\ c \in conns => \/ handler[c] = "await" /\ waiter[c] = "none"
                         \/ waiter[c] = "wait"
       /\ c \in recoveryConns => kind[c] = "new"
       /\ started[c] /\ ~closed[c] => c \in conns \/ handler[c] \in {"track", "close"}

(* Conns are accepted in order, each before it has a handler, and have one *)
(* before they are a transport.                                            *)
AcceptedInOrder ==
    /\ \A c \in Conns : c > accepted => handler[c] = "none" /\ ~live[c]
    /\ \A s \in Conns : transport[s] # None => handler[transport[s]] # "none"
    /\ serve = "begin" => accepted \in Conns /\ handler[accepted] = "none"

(* A closed connection has no transport but the one that is about to be    *)
(* closed, and a v2 one no other than its own conn.                        *)
TransportsFollow ==
    \A s \in Conns : /\ closed[s] /\ transport[s] # None => release[s] = "transport"
                     /\ kind[s] = "v2" => transport[s] \in {s, None}

(* A conn is open while its handler still has it or as a transport. *)
Held(c) ==
    \/ c = accepted /\ serve = "begin"
    \/ handler[c] \in {"hello", "attach", "move"}
    \/ \E s \in Conns : transport[s] = c
ConnsAreHeld == \A c \in Conns : live[c] => Held(c)

(* An open transport belongs to a connection that is closed, has started,  *)
(* or will: its handler still comes to OnConnect.                          *)
Served(s) ==
    closed[s] \/ started[s] \/ handler[s] \in {"respond", "move", "attached", "onConnect"}
TransportsServed ==
    /\ \A s, c \in Conns : transport[s] = c /\ live[c] => Served(s)
    /\ \A c \in Conns : /\ handler[c] = "move" => Served(target[c])
                        /\ handler[c] = "respond" => transport[c] \in {c, None}
                        /\ handler[c] = "refused" => closed[c]

(* Once Shutdown has begun every connection has someone who closes it. *)
ShutdownTracks ==
    /\ stopping <=> shutdown # "idle"
    /\ shutdown = "nil" => running = 0
    /\ stopping => \A s \in Conns : started[s] =>
          \/ closed[s] \/ s \in closers \/ handler[s] \in {"track", "close"}
          \/ shutdown \in {"listeners", "handshakes"} /\ s \in toClose

(* Server.running counts the handlers and the awaitClose goroutines. *)
Handlers == {c \in Conns : Busy(c)}
Waiters == {c \in Conns : kind[c] = "new" /\ waiter[c] \in {"wait", "callback"}}
RunningExact == running = Cardinality(Handlers) + Cardinality(Waiters)

ServerInv ==
    /\ TypeOK
    /\ HandlersFollowKinds /\ TargetsAreTold /\ UnbornIsUnused /\ CallbacksFollow
    /\ TablesAreServed /\ StoredIsServed /\ AcceptedInOrder /\ TransportsFollow
    /\ ConnsAreHeld /\ TransportsServed /\ ShutdownTracks /\ RunningExact

-----------------------------------------------------------------------------
(* The tables and goroutines that running counts are finite. *)
LEMMA SubsetsAreFinite ==
    \A T : T \subseteq Conns => IsFiniteSet(T) /\ Cardinality(T) \in 0..NConns
<1>1. IsFiniteSet(Conns) /\ Cardinality(Conns) = NConns
  BY FS_Interval, ServerAssumption DEF Conns
<1>2. \A T : T \subseteq Conns =>
         IsFiniteSet(T) /\ Cardinality(T) \in Nat /\ Cardinality(T) <= NConns
  BY <1>1, FS_Subset, FS_CardinalityType
<1> QED BY <1>2, ServerAssumption

LEMMA CountsAreFinite ==
    /\ IsFiniteSet(Handlers) /\ Cardinality(Handlers) \in 0..NConns
    /\ IsFiniteSet(Waiters) /\ Cardinality(Waiters) \in 0..NConns
<1>1. Handlers \subseteq Conns /\ Waiters \subseteq Conns
  BY DEF Handlers, Waiters
<1> QED BY <1>1, SubsetsAreFinite

(* When running is zero there is no handler and no awaitClose goroutine. *)
LEMMA ZeroIsQuiet ==
    ASSUME RunningExact, running = 0
    PROVE  \A c \in Conns : ~Busy(c) /\ ~(kind[c] = "new" /\ waiter[c] \in {"wait", "callback"})
<1>1. Cardinality(Handlers) = 0 /\ Cardinality(Waiters) = 0
  BY CountsAreFinite DEF RunningExact
<1>2. Handlers = {} /\ Waiters = {}
  BY <1>1, CountsAreFinite, FS_EmptySet
<1> QED BY <1>2 DEF Handlers, Waiters

(* The same goroutines are counted by the same number. *)
LEMMA SameCount ==
    ASSUME RunningExact, Handlers' = Handlers, Waiters' = Waiters, running' = running
    PROVE  RunningExact'
BY DEF RunningExact

(* A handler moves on from what its peer asked for. *)
LEMMA NextKinds ==
    ASSUME ServerInv, Next
    PROVE  HandlersFollowKinds'
<1> USE DEF serveVars, tableVars, connVars, timerVars, sessionVars, callbackVars, shutdownVars
<1>0. /\ HandlersFollowKinds
      /\ AcceptedInOrder
  BY DEF ServerInv
<1>1. /\ handler \in [Conns -> {"none", "hello", "attach", "respond", "move", "attached",
                              "onConnect", "refused", "track", "close", "closing",
                              "await", "leave", "end"}]
      /\ kind \in [Conns -> {"none", "v2", "new", "resume"}]
  BY DEF ServerInv, TypeOK
<1>2. CASE Serve \/ TrackListener \/ Accept \/ AcceptError \/ Backoff \/ ServeReturn \/
           Shutdown \/ ShutdownListeners \/ ShutdownHandshake \/ ShutdownConns \/
           ShutdownReturn
  BY <1>0, <1>2
     DEF HandlersFollowKinds, Serve, TrackListener, Accept, AcceptError, Backoff, ServeReturn,
         Shutdown, ShutdownListeners, ShutdownHandshake, ShutdownConns, ShutdownReturn
<1>3. CASE \E c \in Conns : UntrackConn(c) \/ ScheduleExpiry(c) \/ Fire(c) \/ ExpireCheck(c)
                             \/ Expire(c) \/ CloserEnd(c) \/ Detach(c) \/ PeerClose(c)
  BY <1>0, <1>3
     DEF HandlersFollowKinds, UntrackConn, ScheduleExpiry, Fire, ExpireCheck, Expire, CloserEnd,
         Detach, PeerClose
<1>4. CASE BeginHandshake
  BY <1>0, <1>1, <1>4 DEF BeginHandshake, HandlersFollowKinds, AcceptedInOrder
<1>5. ASSUME NEW c \in Conns, HandshakeError(c) PROVE HandlersFollowKinds'
  BY <1>0, <1>1, <1>5 DEF HandshakeError, Closed, Goto, HandlersFollowKinds
<1>6. ASSUME NEW c \in Conns, Hello(c) PROVE HandlersFollowKinds'
  BY <1>0, <1>1, <1>6 DEF Hello, Goto, HandlersFollowKinds
<1>7. ASSUME NEW c \in Conns, AttachNew(c) PROVE HandlersFollowKinds'
  BY <1>0, <1>1, <1>7 DEF AttachNew, Goto, HandlersFollowKinds
<1>8. ASSUME NEW c \in Conns, RespondNew(c) PROVE HandlersFollowKinds'
  BY <1>0, <1>1, <1>8 DEF RespondNew, Closed, Goto, RespondForgets, HandlersFollowKinds
<1>9. ASSUME NEW c \in Conns, AttachResume(c) PROVE HandlersFollowKinds'
  BY <1>0, <1>1, <1>9 DEF AttachResume, Closed, Goto, HandlersFollowKinds
<1>10. ASSUME NEW c \in Conns, Move(c) PROVE HandlersFollowKinds'
  BY <1>0, <1>1, <1>10 DEF Move, AfterMove, AttachTransport, Goto, Closed, HandlersFollowKinds
<1>11. ASSUME NEW c \in Conns, MoveEnd(c) PROVE HandlersFollowKinds'
  BY <1>0, <1>1, <1>11 DEF MoveEnd, AfterMove, OnAttached, Goto, HandlersFollowKinds
<1>12. ASSUME NEW c \in Conns, OnConnectAccept(c) PROVE HandlersFollowKinds'
  BY <1>0, <1>1, <1>12 DEF OnConnectAccept, Goto, HandlersFollowKinds
<1>13. ASSUME NEW c \in Conns, OnConnectRefuse(c) PROVE HandlersFollowKinds'
  BY <1>0, <1>1, <1>13 DEF OnConnectRefuse, Closed, MarkClosed, Goto, HandlersFollowKinds
<1>14. ASSUME NEW c \in Conns, CloseReturns(c) PROVE HandlersFollowKinds'
  BY <1>0, <1>1, <1>14 DEF CloseReturns, Released, Goto, HandlersFollowKinds
<1>15. ASSUME NEW c \in Conns, TrackConn(c) PROVE HandlersFollowKinds'
  BY <1>0, <1>1, <1>15 DEF TrackConn, Track, Goto, HandlersFollowKinds
<1>16. ASSUME NEW c \in Conns, CloseUntracked(c) PROVE HandlersFollowKinds'
  BY <1>0, <1>1, <1>16 DEF CloseUntracked, MarkClosed, Goto, HandlersFollowKinds
<1>17. ASSUME NEW c \in Conns, Await(c) PROVE HandlersFollowKinds'
  BY <1>0, <1>1, <1>17 DEF Await, Goto, Spawned, HandlersFollowKinds
<1>18. ASSUME NEW c \in Conns, EndHandshake(c) PROVE HandlersFollowKinds'
  BY <1>0, <1>1, <1>18 DEF EndHandshake, Goto, HandlersFollowKinds
<1>19. ASSUME NEW c \in Conns, OnDisconnect(c) PROVE HandlersFollowKinds'
  BY <1>0, <1>1, <1>19 DEF OnDisconnect, HandlersFollowKinds
<1>20. ASSUME NEW c \in Conns, RefuseReturns(c) PROVE HandlersFollowKinds'
  BY <1>0, <1>1, <1>20 DEF RefuseReturns, Released, Goto, Closed, HandlersFollowKinds
<1>21. ASSUME NEW c \in Conns, ReleaseStep(c) PROVE HandlersFollowKinds'
  BY <1>0, <1>1, <1>21
     DEF ReleaseStep, CloseTransport, Closed, StopTimer, RemoveRecoveryConnection,
         HandlersFollowKinds
<1> QED
  BY <1>2, <1>3, <1>4, <1>5, <1>6, <1>7, <1>8, <1>9, <1>10, <1>11, <1>12, <1>13, <1>14, <1>15,
     <1>16, <1>17, <1>18, <1>19, <1>20, <1>21
     DEF Next, ServeStep, HandlerStep, WaiterStep, TimerStep, ShutdownStep

(* A resume keeps the connection it found; the ID of a connection is told  *)
(* for good.                                                               *)
LEMMA NextTargets ==
    ASSUME ServerInv, Next
    PROVE  TargetsAreTold'
<1> USE DEF serveVars, tableVars, connVars, timerVars, sessionVars, callbackVars, shutdownVars
<1>0. /\ TargetsAreTold
      /\ HandlersFollowKinds
      /\ AcceptedInOrder
  BY DEF ServerInv
<1>1. /\ handler \in [Conns -> {"none", "hello", "attach", "respond", "move", "attached",
                              "onConnect", "refused", "track", "close", "closing",
                              "await", "leave", "end"}]
      /\ kind \in [Conns -> {"none", "v2", "new", "resume"}]
      /\ target \in [Conns -> Conns]
  BY DEF ServerInv, TypeOK
<1>2. CASE Serve \/ TrackListener \/ Accept \/ AcceptError \/ Backoff \/ ServeReturn \/
           Shutdown \/ ShutdownListeners \/ ShutdownHandshake \/ ShutdownConns \/
           ShutdownReturn
  BY <1>0, <1>2
     DEF TargetsAreTold, Told, Serve, TrackListener, Accept, AcceptError, Backoff, ServeReturn,
         Shutdown, ShutdownListeners, ShutdownHandshake, ShutdownConns, ShutdownReturn
<1>3. CASE \E c \in Conns : UntrackConn(c) \/ ScheduleExpiry(c) \/ Fire(c) \/ ExpireCheck(c)
                             \/ Expire(c) \/ CloserEnd(c) \/ Detach(c) \/ PeerClose(c)
  BY <1>0, <1>3
     DEF TargetsAreTold, Told, UntrackConn, ScheduleExpiry, Fire, ExpireCheck, Expire,
         CloserEnd, Detach, PeerClose
<1>4. CASE BeginHandshake
  BY <1>0, <1>1, <1>4 DEF BeginHandshake, TargetsAreTold, Told
<1>5. ASSUME NEW c \in Conns, HandshakeError(c) PROVE TargetsAreTold'
  BY <1>0, <1>1, <1>5 DEF HandshakeError, Closed, Goto, TargetsAreTold, Told
<1>6. ASSUME NEW c \in Conns, Hello(c) PROVE TargetsAreTold'
  BY <1>0, <1>1, <1>6 DEF Hello, Goto, TargetsAreTold, Told, HandlersFollowKinds
<1>7. ASSUME NEW c \in Conns, AttachNew(c) PROVE TargetsAreTold'
  BY <1>0, <1>1, <1>7 DEF AttachNew, Goto, TargetsAreTold, Told, HandlersFollowKinds
<1>8. ASSUME NEW c \in Conns, RespondNew(c) PROVE TargetsAreTold'
  BY <1>0, <1>1, <1>8 DEF RespondNew, Closed, Goto, RespondForgets, TargetsAreTold, Told
<1>9. ASSUME NEW c \in Conns, AttachResume(c) PROVE TargetsAreTold'
  BY <1>0, <1>1, <1>9 DEF AttachResume, Closed, Goto, Told, TargetsAreTold, HandlersFollowKinds
<1>10. ASSUME NEW c \in Conns, Move(c) PROVE TargetsAreTold'
  BY <1>0, <1>1, <1>10 DEF Move, AfterMove, AttachTransport, Goto, Closed, TargetsAreTold, Told
<1>11. ASSUME NEW c \in Conns, MoveEnd(c) PROVE TargetsAreTold'
  BY <1>0, <1>1, <1>11 DEF MoveEnd, AfterMove, OnAttached, Goto, TargetsAreTold, Told
<1>12. ASSUME NEW c \in Conns, OnConnectAccept(c) PROVE TargetsAreTold'
  BY <1>0, <1>1, <1>12 DEF OnConnectAccept, Goto, TargetsAreTold, Told
<1>13. ASSUME NEW c \in Conns, OnConnectRefuse(c) PROVE TargetsAreTold'
  BY <1>0, <1>1, <1>13 DEF OnConnectRefuse, Closed, MarkClosed, Goto, TargetsAreTold, Told
<1>14. ASSUME NEW c \in Conns, CloseReturns(c) PROVE TargetsAreTold'
  BY <1>0, <1>1, <1>14 DEF CloseReturns, Released, Goto, TargetsAreTold, Told
<1>15. ASSUME NEW c \in Conns, TrackConn(c) PROVE TargetsAreTold'
  BY <1>0, <1>1, <1>15 DEF TrackConn, Track, Goto, TargetsAreTold, Told
<1>16. ASSUME NEW c \in Conns, CloseUntracked(c) PROVE TargetsAreTold'
  BY <1>0, <1>1, <1>16 DEF CloseUntracked, MarkClosed, Goto, TargetsAreTold, Told
<1>17. ASSUME NEW c \in Conns, Await(c) PROVE TargetsAreTold'
  BY <1>0, <1>1, <1>17 DEF Await, Goto, Spawned, TargetsAreTold, Told
<1>18. ASSUME NEW c \in Conns, EndHandshake(c) PROVE TargetsAreTold'
  BY <1>0, <1>1, <1>18 DEF EndHandshake, Goto, TargetsAreTold, Told
<1>19. ASSUME NEW c \in Conns, OnDisconnect(c) PROVE TargetsAreTold'
  BY <1>0, <1>1, <1>19 DEF OnDisconnect, TargetsAreTold, Told
<1>20. ASSUME NEW c \in Conns, RefuseReturns(c) PROVE TargetsAreTold'
  BY <1>0, <1>1, <1>20 DEF RefuseReturns, Released, Goto, Closed, TargetsAreTold, Told
<1>21. ASSUME NEW c \in Conns, ReleaseStep(c) PROVE TargetsAreTold'
  BY <1>0, <1>1, <1>21
     DEF ReleaseStep, CloseTransport, Closed, StopTimer, RemoveRecoveryConnection,
         TargetsAreTold, Told
<1> QED
  BY <1>2, <1>3, <1>4, <1>5, <1>6, <1>7, <1>8, <1>9, <1>10, <1>11, <1>12, <1>13, <1>14, <1>15,
     <1>16, <1>17, <1>18, <1>19, <1>20, <1>21
     DEF Next, ServeStep, HandlerStep, WaiterStep, TimerStep, ShutdownStep

(* A connection gets what it has from its own handler or from a resume     *)
(* that found it, both after its birth.                                    *)
LEMMA NextUnborn ==
    ASSUME ServerInv, Next
    PROVE  UnbornIsUnused'
<1> USE DEF serveVars, tableVars, connVars, timerVars, sessionVars, callbackVars, shutdownVars
<1>0. /\ UnbornIsUnused
      /\ HandlersFollowKinds
      /\ TargetsAreTold
  BY DEF ServerInv
<1>1. /\ kind \in [Conns -> {"none", "v2", "new", "resume"}]
      /\ transport \in [Conns -> Conns \cup {None}]
      /\ started \in [Conns -> BOOLEAN]
      /\ closed \in [Conns -> BOOLEAN]
      /\ schedule \in [Conns -> Nat]
      /\ timer \in [Conns -> BOOLEAN]
      /\ fired \in [Conns -> Nat]
      /\ expiring \in [Conns -> Nat]
      /\ conns \subseteq Conns
      /\ recoveryConns \subseteq Conns
      /\ closers \subseteq Conns
      /\ toClose \subseteq Conns
      /\ waiter \in [Conns -> {"none", "wait", "callback", "done"}]
      /\ handler \in [Conns -> {"none", "hello", "attach", "respond", "move", "attached",
                              "onConnect", "refused", "track", "close", "closing",
                              "await", "leave", "end"}]
      /\ target \in [Conns -> Conns]
  BY DEF ServerInv, TypeOK
<1>2. CASE Serve \/ TrackListener \/ Accept \/ AcceptError \/ Backoff \/ ServeReturn \/
           ShutdownListeners \/ ShutdownHandshake \/ ShutdownReturn
  BY <1>0, <1>2
     DEF UnbornIsUnused, Serve, TrackListener, Accept, AcceptError, Backoff, ServeReturn,
         ShutdownListeners, ShutdownHandshake, ShutdownReturn
<1>3. CASE BeginHandshake
  BY <1>0, <1>1, <1>3 DEF BeginHandshake, UnbornIsUnused
<1>4. CASE Shutdown
  BY <1>0, <1>1, <1>4 DEF Shutdown, UnbornIsUnused
<1>5. CASE ShutdownConns
  BY <1>0, <1>1, <1>5 DEF ShutdownConns, SpawnClosers, UnbornIsUnused
<1>6. ASSUME NEW c \in Conns, HandshakeError(c) PROVE UnbornIsUnused'
  BY <1>0, <1>1, <1>6 DEF HandshakeError, Closed, Goto, UnbornIsUnused
<1>7. ASSUME NEW c \in Conns, Hello(c) PROVE UnbornIsUnused'
  BY <1>0, <1>1, <1>7 DEF Hello, Goto, UnbornIsUnused
<1>8. ASSUME NEW c \in Conns, AttachNew(c) PROVE UnbornIsUnused'
  BY <1>0, <1>1, <1>8 DEF AttachNew, Goto, UnbornIsUnused
<1>9. ASSUME NEW c \in Conns, RespondNew(c) PROVE UnbornIsUnused'
  BY <1>0, <1>1, <1>9 DEF RespondNew, Closed, Goto, RespondForgets, UnbornIsUnused
<1>10. ASSUME NEW c \in Conns, AttachResume(c) PROVE UnbornIsUnused'
  BY <1>0, <1>1, <1>10 DEF AttachResume, Closed, Goto, UnbornIsUnused, HandlersFollowKinds
<1>11. ASSUME NEW c \in Conns, Move(c) PROVE UnbornIsUnused'
  BY <1>0, <1>1, <1>11
     DEF Move, AfterMove, AttachTransport, Goto, Closed, UnbornIsUnused, HandlersFollowKinds,
         TargetsAreTold, Told
<1>12. ASSUME NEW c \in Conns, MoveEnd(c) PROVE UnbornIsUnused'
  BY <1>0, <1>1, <1>12 DEF MoveEnd, AfterMove, OnAttached, Goto, UnbornIsUnused
<1>13. ASSUME NEW c \in Conns, OnConnectAccept(c) PROVE UnbornIsUnused'
  BY <1>0, <1>1, <1>13 DEF OnConnectAccept, Goto, UnbornIsUnused, HandlersFollowKinds
<1>14. ASSUME NEW c \in Conns, OnConnectRefuse(c) PROVE UnbornIsUnused'
  BY <1>0, <1>1, <1>14
     DEF OnConnectRefuse, Closed, MarkClosed, Goto, UnbornIsUnused, HandlersFollowKinds
<1>15. ASSUME NEW c \in Conns, CloseReturns(c) PROVE UnbornIsUnused'
  BY <1>0, <1>1, <1>15 DEF CloseReturns, Released, Goto, UnbornIsUnused, HandlersFollowKinds
<1>16. ASSUME NEW c \in Conns, TrackConn(c) PROVE UnbornIsUnused'
  BY <1>0, <1>1, <1>16 DEF TrackConn, Track, Goto, UnbornIsUnused, HandlersFollowKinds
<1>17. ASSUME NEW c \in Conns, CloseUntracked(c) PROVE UnbornIsUnused'
  BY <1>0, <1>1, <1>17
     DEF CloseUntracked, MarkClosed, Goto, UnbornIsUnused, HandlersFollowKinds
<1>18. ASSUME NEW c \in Conns, Await(c) PROVE UnbornIsUnused'
  BY <1>0, <1>1, <1>18 DEF Await, Goto, Spawned, UnbornIsUnused, HandlersFollowKinds
<1>19. ASSUME NEW c \in Conns, EndHandshake(c) PROVE UnbornIsUnused'
  BY <1>0, <1>1, <1>19 DEF EndHandshake, Goto, UnbornIsUnused
<1>20. ASSUME NEW c \in Conns, UntrackConn(c) PROVE UnbornIsUnused'
  BY <1>0, <1>1, <1>20 DEF UntrackConn, UnbornIsUnused
<1>21. ASSUME NEW c \in Conns, OnDisconnect(c) PROVE UnbornIsUnused'
  BY <1>0, <1>1, <1>21 DEF OnDisconnect, UnbornIsUnused
<1>22. ASSUME NEW c \in Conns, ScheduleExpiry(c) PROVE UnbornIsUnused'
  BY <1>0, <1>1, <1>22 DEF ScheduleExpiry, UnbornIsUnused
<1>23. ASSUME NEW c \in Conns, Fire(c) PROVE UnbornIsUnused'
  BY <1>0, <1>1, <1>23 DEF Fire, UnbornIsUnused
<1>24. ASSUME NEW c \in Conns, ExpireCheck(c) PROVE UnbornIsUnused'
  BY <1>0, <1>1, <1>24 DEF ExpireCheck, ExpiryCheck, UnbornIsUnused
<1>25. ASSUME NEW c \in Conns, Expire(c) PROVE UnbornIsUnused'
  BY <1>0, <1>1, <1>25 DEF Expire, MarkClosed, UnbornIsUnused
<1>26. ASSUME NEW c \in Conns, CloserEnd(c) PROVE UnbornIsUnused'
  BY <1>0, <1>1, <1>26 DEF CloserEnd, MarkClosed, UnbornIsUnused
<1>27. ASSUME NEW c \in Conns, Detach(c) PROVE UnbornIsUnused'
  BY <1>0, <1>1, <1>27 DEF Detach, Closed, UnbornIsUnused
<1>28. ASSUME NEW c \in Conns, PeerClose(c) PROVE UnbornIsUnused'
  BY <1>0, <1>1, <1>28 DEF PeerClose, MarkClosed, UnbornIsUnused
<1>29. ASSUME NEW c \in Conns, RefuseReturns(c) PROVE UnbornIsUnused'
  BY <1>0, <1>1, <1>29 DEF RefuseReturns, Released, Goto, Closed, UnbornIsUnused
<1>30. ASSUME NEW c \in Conns, ReleaseStep(c) PROVE UnbornIsUnused'
  BY <1>0, <1>1, <1>30
     DEF ReleaseStep, CloseTransport, Closed, StopTimer, RemoveRecoveryConnection,
         UnbornIsUnused
<1> QED
  BY <1>2, <1>3, <1>4, <1>5, <1>6, <1>7, <1>8, <1>9, <1>10, <1>11, <1>12, <1>13, <1>14, <1>15,
     <1>16, <1>17, <1>18, <1>19, <1>20, <1>21, <1>22, <1>23, <1>24, <1>25, <1>26, <1>27,
     <1>28, <1>29, <1>30
     DEF Next, ServeStep, HandlerStep, WaiterStep, TimerStep, ShutdownStep

(* OnConnect, awaitClose and OnDisconnect happen once and in order.        *)
LEMMA NextCallbacks ==
    ASSUME ServerInv, Next
    PROVE  CallbacksFollow'
<1> USE DEF serveVars, tableVars, connVars, timerVars, sessionVars, callbackVars, shutdownVars
<1>0. /\ CallbacksFollow
      /\ HandlersFollowKinds
      /\ UnbornIsUnused
      /\ AcceptedInOrder
  BY DEF ServerInv
<1>1. /\ connects \in [Conns -> 0..1]
      /\ disconnects \in [Conns -> 0..1]
      /\ started \in [Conns -> BOOLEAN]
      /\ waiter \in [Conns -> {"none", "wait", "callback", "done"}]
      /\ handler \in [Conns -> {"none", "hello", "attach", "respond", "move", "attached",
                              "onConnect", "refused", "track", "close", "closing",
                              "await", "leave", "end"}]
      /\ kind \in [Conns -> {"none", "v2", "new", "resume"}]
      /\ closed \in [Conns -> BOOLEAN]
  BY DEF ServerInv, TypeOK
<1>2. CASE Serve \/ TrackListener \/ Accept \/ AcceptError \/ Backoff \/ ServeReturn \/
           Shutdown \/ ShutdownListeners \/ ShutdownHandshake \/ ShutdownConns \/
           ShutdownReturn
  BY <1>0, <1>2
     DEF CallbacksFollow, Serve, TrackListener, Accept, AcceptError, Backoff, ServeReturn,
         Shutdown, ShutdownListeners, ShutdownHandshake, ShutdownConns, ShutdownReturn
<1>3. CASE \E c \in Conns : ScheduleExpiry(c) \/ Fire(c) \/ ExpireCheck(c) \/ Detach(c)
  BY <1>0, <1>3 DEF CallbacksFollow, ScheduleExpiry, Fire, ExpireCheck, Detach
<1>4. CASE BeginHandshake
  <2>1. accepted \in Conns /\ handler[accepted] = "none" /\ waiter[accepted] = "none"
    BY <1>0, <1>4 DEF BeginHandshake, AcceptedInOrder, HandlersFollowKinds, UnbornIsUnused
  <2> QED BY <1>0, <1>1, <1>4, <2>1 DEF BeginHandshake, CallbacksFollow
<1>5. ASSUME NEW c \in Conns, HandshakeError(c) PROVE CallbacksFollow'
  BY <1>0, <1>1, <1>5 DEF HandshakeError, Closed, Goto, CallbacksFollow
<1>6. ASSUME NEW c \in Conns, Hello(c) PROVE CallbacksFollow'
  BY <1>0, <1>1, <1>6 DEF Hello, Goto, CallbacksFollow
<1>7. ASSUME NEW c \in Conns, AttachNew(c) PROVE CallbacksFollow'
  BY <1>0, <1>1, <1>7 DEF AttachNew, Goto, CallbacksFollow
<1>8. ASSUME NEW c \in Conns, RespondNew(c) PROVE CallbacksFollow'
  BY <1>0, <1>1, <1>8 DEF RespondNew, Closed, Goto, RespondForgets, CallbacksFollow
<1>9. ASSUME NEW c \in Conns, AttachResume(c) PROVE CallbacksFollow'
  BY <1>0, <1>1, <1>9 DEF AttachResume, Closed, Goto, CallbacksFollow
<1>10. ASSUME NEW c \in Conns, Move(c) PROVE CallbacksFollow'
  BY <1>0, <1>1, <1>10 DEF Move, AfterMove, AttachTransport, Goto, Closed, CallbacksFollow
<1>11. ASSUME NEW c \in Conns, MoveEnd(c) PROVE CallbacksFollow'
  BY <1>0, <1>1, <1>11 DEF MoveEnd, AfterMove, OnAttached, Goto, CallbacksFollow
<1>12. ASSUME NEW c \in Conns, OnConnectAccept(c) PROVE CallbacksFollow'
  BY <1>0, <1>1, <1>12 DEF OnConnectAccept, Goto, CallbacksFollow
<1>13. ASSUME NEW c \in Conns, OnConnectRefuse(c) PROVE CallbacksFollow'
  BY <1>0, <1>1, <1>13 DEF OnConnectRefuse, Closed, MarkClosed, Goto, CallbacksFollow
<1>14. ASSUME NEW c \in Conns, CloseReturns(c) PROVE CallbacksFollow'
  BY <1>0, <1>1, <1>14 DEF CloseReturns, Released, Goto, CallbacksFollow
<1>15. ASSUME NEW c \in Conns, TrackConn(c) PROVE CallbacksFollow'
  BY <1>0, <1>1, <1>15 DEF TrackConn, Track, Goto, CallbacksFollow
<1>16. ASSUME NEW c \in Conns, CloseUntracked(c) PROVE CallbacksFollow'
  BY <1>0, <1>1, <1>16 DEF CloseUntracked, MarkClosed, Goto, CallbacksFollow
<1>17. ASSUME NEW c \in Conns, Await(c) PROVE CallbacksFollow'
  BY <1>0, <1>1, <1>17 DEF Await, Goto, Spawned, CallbacksFollow
<1>18. ASSUME NEW c \in Conns, EndHandshake(c) PROVE CallbacksFollow'
  BY <1>0, <1>1, <1>18 DEF EndHandshake, Goto, CallbacksFollow
<1>19. ASSUME NEW c \in Conns, UntrackConn(c) PROVE CallbacksFollow'
  BY <1>0, <1>1, <1>19 DEF UntrackConn, CallbacksFollow
<1>20. ASSUME NEW c \in Conns, OnDisconnect(c) PROVE CallbacksFollow'
  BY <1>0, <1>1, <1>20 DEF OnDisconnect, CallbacksFollow
<1>21. ASSUME NEW c \in Conns, Expire(c) PROVE CallbacksFollow'
  BY <1>0, <1>1, <1>21 DEF Expire, MarkClosed, CallbacksFollow
<1>22. ASSUME NEW c \in Conns, CloserEnd(c) PROVE CallbacksFollow'
  BY <1>0, <1>1, <1>22 DEF CloserEnd, MarkClosed, CallbacksFollow
<1>23. ASSUME NEW c \in Conns, PeerClose(c) PROVE CallbacksFollow'
  BY <1>0, <1>1, <1>23 DEF PeerClose, MarkClosed, CallbacksFollow
<1>24. ASSUME NEW c \in Conns, RefuseReturns(c) PROVE CallbacksFollow'
  BY <1>0, <1>1, <1>24 DEF RefuseReturns, Released, Goto, Closed, CallbacksFollow
<1>25. ASSUME NEW c \in Conns, ReleaseStep(c) PROVE CallbacksFollow'
  BY <1>0, <1>1, <1>25
     DEF ReleaseStep, CloseTransport, Closed, StopTimer, RemoveRecoveryConnection,
         CallbacksFollow
<1> QED
  BY <1>2, <1>3, <1>4, <1>5, <1>6, <1>7, <1>8, <1>9, <1>10, <1>11, <1>12, <1>13, <1>14, <1>15,
     <1>16, <1>17, <1>18, <1>19, <1>20, <1>21, <1>22, <1>23, <1>24, <1>25
     DEF Next, ServeStep, HandlerStep, WaiterStep, TimerStep, ShutdownStep

(* Who leaves its place also leaves the tables that count on it. *)
LEMMA NextTables ==
    ASSUME ServerInv, Next
    PROVE  TablesAreServed'
<1> USE DEF serveVars, tableVars, connVars, timerVars, sessionVars, callbackVars, shutdownVars
<1>0. /\ TablesAreServed
      /\ CallbacksFollow
      /\ HandlersFollowKinds
      /\ UnbornIsUnused
      /\ AcceptedInOrder
  BY DEF ServerInv
<1>1. /\ handshakes \subseteq Conns
      /\ conns \subseteq Conns
      /\ recoveryConns \subseteq Conns
      /\ handler \in [Conns -> {"none", "hello", "attach", "respond", "move", "attached",
                              "onConnect", "refused", "track", "close", "closing",
                              "await", "leave", "end"}]
      /\ waiter \in [Conns -> {"none", "wait", "callback", "done"}]
      /\ kind \in [Conns -> {"none", "v2", "new", "resume"}]
      /\ started \in [Conns -> BOOLEAN]
      /\ closed \in [Conns -> BOOLEAN]
  BY DEF ServerInv, TypeOK
<1>2. CASE Serve \/ TrackListener \/ Accept \/ AcceptError \/ Backoff \/ ServeReturn \/
           Shutdown \/ ShutdownListeners \/ ShutdownHandshake \/ ShutdownConns \/
           ShutdownReturn
  BY <1>0, <1>2
     DEF TablesAreServed, Busy, Serve, TrackListener, Accept, AcceptError, Backoff, ServeReturn,
         Shutdown, ShutdownListeners, ShutdownHandshake, ShutdownConns, ShutdownReturn
<1>3. CASE \E c \in Conns : ScheduleExpiry(c) \/ Fire(c) \/ ExpireCheck(c) \/ Detach(c)
  BY <1>0, <1>3 DEF TablesAreServed, Busy, ScheduleExpiry, Fire, ExpireCheck, Detach
<1>4. CASE BeginHandshake
  <2>1. /\ accepted \in Conns /\ handler[accepted] = "none" /\ waiter[accepted] = "none"
        /\ ~started[accepted] /\ accepted \notin conns
    BY <1>0, <1>4 DEF BeginHandshake, AcceptedInOrder, HandlersFollowKinds, UnbornIsUnused
  <2> QED BY <1>0, <1>1, <1>4, <2>1 DEF BeginHandshake, TablesAreServed, Busy
<1>5. ASSUME NEW c \in Conns, HandshakeError(c) PROVE TablesAreServed'
  BY <1>0, <1>1, <1>5 DEF HandshakeError, Closed, Goto, TablesAreServed, Busy
<1>6. ASSUME NEW c \in Conns, Hello(c) PROVE TablesAreServed'
  BY <1>0, <1>1, <1>6 DEF Hello, Goto, TablesAreServed, Busy, HandlersFollowKinds
<1>7. ASSUME NEW c \in Conns, AttachNew(c) PROVE TablesAreServed'
  BY <1>0, <1>1, <1>7 DEF AttachNew, Goto, TablesAreServed, Busy
<1>8. ASSUME NEW c \in Conns, RespondNew(c) PROVE TablesAreServed'
  BY <1>0, <1>1, <1>8 DEF RespondNew, Closed, Goto, RespondForgets, TablesAreServed, Busy
<1>9. ASSUME NEW c \in Conns, AttachResume(c) PROVE TablesAreServed'
  BY <1>0, <1>1, <1>9 DEF AttachResume, Closed, Goto, TablesAreServed, Busy, HandlersFollowKinds
<1>10. ASSUME NEW c \in Conns, Move(c) PROVE TablesAreServed'
  BY <1>0, <1>1, <1>10 DEF Move, AfterMove, AttachTransport, Goto, Closed, TablesAreServed, Busy
<1>11. ASSUME NEW c \in Conns, MoveEnd(c) PROVE TablesAreServed'
  BY <1>0, <1>1, <1>11 DEF MoveEnd, AfterMove, OnAttached, Goto, TablesAreServed, Busy
<1>12. ASSUME NEW c \in Conns, OnConnectAccept(c) PROVE TablesAreServed'
  BY <1>0, <1>1, <1>12 DEF OnConnectAccept, Goto, TablesAreServed, Busy
<1>13. ASSUME NEW c \in Conns, OnConnectRefuse(c) PROVE TablesAreServed'
  BY <1>0, <1>1, <1>13 DEF OnConnectRefuse, Closed, MarkClosed, Goto, TablesAreServed, Busy
<1>14. ASSUME NEW c \in Conns, CloseReturns(c) PROVE TablesAreServed'
  BY <1>0, <1>1, <1>14 DEF CloseReturns, Released, Goto, TablesAreServed, Busy
<1>15. ASSUME NEW c \in Conns, TrackConn(c) PROVE TablesAreServed'
  BY <1>0, <1>1, <1>15 DEF TrackConn, Track, Goto, TablesAreServed, Busy, CallbacksFollow
<1>16. ASSUME NEW c \in Conns, CloseUntracked(c) PROVE TablesAreServed'
  BY <1>0, <1>1, <1>16 DEF CloseUntracked, MarkClosed, Goto, TablesAreServed, Busy
<1>17. ASSUME NEW c \in Conns, Await(c) PROVE TablesAreServed'
  BY <1>0, <1>1, <1>17 DEF Await, Goto, Spawned, TablesAreServed, Busy
<1>18. ASSUME NEW c \in Conns, EndHandshake(c) PROVE TablesAreServed'
  BY <1>0, <1>1, <1>18 DEF EndHandshake, Goto, TablesAreServed, Busy
<1>19. ASSUME NEW c \in Conns, UntrackConn(c) PROVE TablesAreServed'
  BY <1>0, <1>1, <1>19 DEF UntrackConn, TablesAreServed, Busy
<1>20. ASSUME NEW c \in Conns, OnDisconnect(c) PROVE TablesAreServed'
  BY <1>0, <1>1, <1>20 DEF OnDisconnect, TablesAreServed, Busy, CallbacksFollow
<1>21. ASSUME NEW c \in Conns, Expire(c) PROVE TablesAreServed'
  BY <1>0, <1>1, <1>21 DEF Expire, MarkClosed, TablesAreServed, Busy
<1>22. ASSUME NEW c \in Conns, CloserEnd(c) PROVE TablesAreServed'
  BY <1>0, <1>1, <1>22 DEF CloserEnd, MarkClosed, TablesAreServed, Busy
<1>23. ASSUME NEW c \in Conns, PeerClose(c) PROVE TablesAreServed'
  BY <1>0, <1>1, <1>23 DEF PeerClose, MarkClosed, TablesAreServed, Busy
<1>24. ASSUME NEW c \in Conns, RefuseReturns(c) PROVE TablesAreServed'
  BY <1>0, <1>1, <1>24 DEF RefuseReturns, Released, Goto, Closed, TablesAreServed, Busy
<1>25. ASSUME NEW c \in Conns, ReleaseStep(c) PROVE TablesAreServed'
  BY <1>0, <1>1, <1>25
     DEF ReleaseStep, CloseTransport, Closed, StopTimer, RemoveRecoveryConnection,
         TablesAreServed, Busy
<1> QED
  BY <1>2, <1>3, <1>4, <1>5, <1>6, <1>7, <1>8, <1>9, <1>10, <1>11, <1>12, <1>13, <1>14, <1>15,
     <1>16, <1>17, <1>18, <1>19, <1>20, <1>21, <1>22, <1>23, <1>24, <1>25
     DEF Next, ServeStep, HandlerStep, WaiterStep, TimerStep, ShutdownStep

(* A connection is forgotten by its markClosed, and when its attach fails; *)
(* an open one keeps its handler or its awaitClose.                        *)
LEMMA NextStored ==
    ASSUME ServerInv, Next
    PROVE  StoredIsServed'
<1> USE DEF serveVars, tableVars, connVars, timerVars, sessionVars, callbackVars, shutdownVars
<1>0. /\ StoredIsServed
      /\ TablesAreServed
      /\ CallbacksFollow
      /\ HandlersFollowKinds
      /\ UnbornIsUnused
  BY DEF ServerInv
<1>1. /\ recoveryConns \subseteq Conns
      /\ closed \in [Conns -> BOOLEAN]
      /\ handler \in [Conns -> {"none", "hello", "attach", "respond", "move", "attached",
                              "onConnect", "refused", "track", "close", "closing",
                              "await", "leave", "end"}]
      /\ waiter \in [Conns -> {"none", "wait", "callback", "done"}]
      /\ release \in [Conns -> {"none", "transport", "timer", "table"}]
  BY DEF ServerInv, TypeOK
<1>2. CASE Serve \/ TrackListener \/ Accept \/ AcceptError \/ Backoff \/ ServeReturn \/
           Shutdown \/ ShutdownListeners \/ ShutdownHandshake \/ ShutdownConns \/
           ShutdownReturn
  BY <1>0, <1>2
     DEF StoredIsServed, Busy, Serve, TrackListener, Accept, AcceptError, Backoff, ServeReturn,
         Shutdown, ShutdownListeners, ShutdownHandshake, ShutdownConns, ShutdownReturn
<1>3. CASE \E c \in Conns : ScheduleExpiry(c) \/ Fire(c) \/ ExpireCheck(c) \/ Detach(c)
  BY <1>0, <1>3 DEF StoredIsServed, Busy, ScheduleExpiry, Fire, ExpireCheck, Detach
<1>4. CASE BeginHandshake
  BY <1>0, <1>1, <1>4 DEF BeginHandshake, StoredIsServed, Busy
<1>5. ASSUME NEW c \in Conns, HandshakeError(c) PROVE StoredIsServed'
  BY <1>0, <1>1, <1>5
     DEF HandshakeError, Closed, Goto, StoredIsServed, Busy, TablesAreServed,
         HandlersFollowKinds
<1>6. ASSUME NEW c \in Conns, Hello(c) PROVE StoredIsServed'
  BY <1>0, <1>1, <1>6 DEF Hello, Goto, StoredIsServed, Busy
<1>7. ASSUME NEW c \in Conns, AttachNew(c) PROVE StoredIsServed'
  BY <1>0, <1>1, <1>7
     DEF AttachNew, Goto, StoredIsServed, Busy, HandlersFollowKinds, UnbornIsUnused
<1>8. ASSUME NEW c \in Conns, RespondNew(c) PROVE StoredIsServed'
  BY <1>0, <1>1, <1>8 DEF RespondNew, Closed, Goto, RespondForgets, StoredIsServed, Busy
<1>9. ASSUME NEW c \in Conns, AttachResume(c) PROVE StoredIsServed'
  BY <1>0, <1>1, <1>9
     DEF AttachResume, Closed, Goto, StoredIsServed, Busy, TablesAreServed, HandlersFollowKinds
<1>10. ASSUME NEW c \in Conns, Move(c) PROVE StoredIsServed'
  BY <1>0, <1>1, <1>10
     DEF Move, AfterMove, AttachTransport, Goto, Closed, StoredIsServed, Busy, TablesAreServed
<1>11. ASSUME NEW c \in Conns, MoveEnd(c) PROVE StoredIsServed'
  BY <1>0, <1>1, <1>11
     DEF MoveEnd, AfterMove, OnAttached, Goto, StoredIsServed, Busy, TablesAreServed
<1>12. ASSUME NEW c \in Conns, OnConnectAccept(c) PROVE StoredIsServed'
  BY <1>0, <1>1, <1>12 DEF OnConnectAccept, Goto, StoredIsServed, Busy
<1>13. ASSUME NEW c \in Conns, OnConnectRefuse(c) PROVE StoredIsServed'
  BY <1>0, <1>1, <1>13
     DEF OnConnectRefuse, Closed, MarkClosed, Goto, StoredIsServed, Busy, TablesAreServed
<1>14. ASSUME NEW c \in Conns, CloseReturns(c) PROVE StoredIsServed'
  BY <1>0, <1>1, <1>14 DEF CloseReturns, Released, Goto, StoredIsServed, Busy
<1>15. ASSUME NEW c \in Conns, TrackConn(c) PROVE StoredIsServed'
  BY <1>0, <1>1, <1>15 DEF TrackConn, Track, Goto, StoredIsServed, Busy
<1>16. ASSUME NEW c \in Conns, CloseUntracked(c) PROVE StoredIsServed'
  BY <1>0, <1>1, <1>16 DEF CloseUntracked, MarkClosed, Goto, StoredIsServed, Busy
<1>17. ASSUME NEW c \in Conns, Await(c) PROVE StoredIsServed'
  BY <1>0, <1>1, <1>17 DEF Await, Goto, Spawned, StoredIsServed, Busy
<1>18. ASSUME NEW c \in Conns, EndHandshake(c) PROVE StoredIsServed'
  BY <1>0, <1>1, <1>18 DEF EndHandshake, Goto, StoredIsServed, Busy
<1>19. ASSUME NEW c \in Conns, UntrackConn(c) PROVE StoredIsServed'
  BY <1>0, <1>1, <1>19 DEF UntrackConn, StoredIsServed, Busy
<1>20. ASSUME NEW c \in Conns, OnDisconnect(c) PROVE StoredIsServed'
  BY <1>0, <1>1, <1>20 DEF OnDisconnect, StoredIsServed, Busy, TablesAreServed
<1>21. ASSUME NEW c \in Conns, Expire(c) PROVE StoredIsServed'
  BY <1>0, <1>1, <1>21 DEF Expire, MarkClosed, StoredIsServed, Busy
<1>22. ASSUME NEW c \in Conns, CloserEnd(c) PROVE StoredIsServed'
  BY <1>0, <1>1, <1>22 DEF CloserEnd, MarkClosed, StoredIsServed, Busy
<1>23. ASSUME NEW c \in Conns, PeerClose(c) PROVE StoredIsServed'
  BY <1>0, <1>1, <1>23 DEF PeerClose, MarkClosed, StoredIsServed, Busy
<1>24. ASSUME NEW c \in Conns, RefuseReturns(c) PROVE StoredIsServed'
  BY <1>0, <1>1, <1>24 DEF RefuseReturns, Released, Goto, Closed, StoredIsServed, Busy
<1>25. ASSUME NEW c \in Conns, ReleaseStep(c) PROVE StoredIsServed'
  BY <1>0, <1>1, <1>25
     DEF ReleaseStep, CloseTransport, Closed, StopTimer, RemoveRecoveryConnection,
         StoredIsServed, Busy, TablesAreServed
<1> QED
  BY <1>2, <1>3, <1>4, <1>5, <1>6, <1>7, <1>8, <1>9, <1>10, <1>11, <1>12, <1>13, <1>14, <1>15,
     <1>16, <1>17, <1>18, <1>19, <1>20, <1>21, <1>22, <1>23, <1>24, <1>25
     DEF Next, ServeStep, HandlerStep, WaiterStep, TimerStep, ShutdownStep

(* Only Serve brings in a conn, and it does one at a time. *)
LEMMA NextAccepted ==
    ASSUME ServerInv, Next
    PROVE  AcceptedInOrder'
<1> USE DEF serveVars, tableVars, connVars, timerVars, sessionVars, callbackVars, shutdownVars
<1>0. /\ AcceptedInOrder
      /\ CallbacksFollow
  BY DEF ServerInv
<1>1. /\ accepted \in 0..NConns
      /\ handler \in [Conns -> {"none", "hello", "attach", "respond", "move", "attached",
                              "onConnect", "refused", "track", "close", "closing",
                              "await", "leave", "end"}]
      /\ live \in [Conns -> BOOLEAN]
      /\ transport \in [Conns -> Conns \cup {None}]
      /\ target \in [Conns -> Conns]
  BY DEF ServerInv, TypeOK
<1>2. CASE Shutdown \/ ShutdownListeners \/ ShutdownConns \/ ShutdownReturn
  BY <1>0, <1>2 DEF AcceptedInOrder, Shutdown, ShutdownListeners, ShutdownConns, ShutdownReturn
<1>3. CASE \E c \in Conns : UntrackConn(c) \/ ScheduleExpiry(c) \/ Fire(c) \/ ExpireCheck(c)
  BY <1>0, <1>3 DEF AcceptedInOrder, UntrackConn, ScheduleExpiry, Fire, ExpireCheck
<1>4. CASE Serve
  BY <1>0, <1>1, <1>4 DEF Serve, AcceptedInOrder
<1>5. CASE TrackListener
  BY <1>0, <1>1, <1>5 DEF TrackListener, AcceptedInOrder
<1>6. CASE Accept
  <2>1. accepted + 1 \in Conns /\ accepted' = accepted + 1 /\ handler' = handler
    BY <1>1, <1>6, ServerAssumption DEF Accept, Conns
  <2>2. handler[accepted + 1] = "none"
    BY <1>0, <1>1, <2>1 DEF AcceptedInOrder
  <2>3. \A c \in Conns : c > accepted + 1 => handler[c] = "none" /\ ~live'[c]
    BY <1>0, <1>1, <1>6, <2>1 DEF Accept, AcceptedInOrder, Conns
  <2>4. UNCHANGED transport
    BY <1>6 DEF Accept
  <2> QED BY <1>0, <2>1, <2>2, <2>3, <2>4 DEF AcceptedInOrder
<1>7. CASE AcceptError
  BY <1>0, <1>1, <1>7 DEF AcceptError, AcceptedInOrder
<1>8. CASE Backoff
  BY <1>0, <1>1, <1>8 DEF Backoff, AcceptedInOrder
<1>9. CASE BeginHandshake
  <2>1. accepted \in Conns /\ accepted' = accepted /\ serve' # "begin"
    BY <1>0, <1>9 DEF BeginHandshake, AcceptedInOrder
  <2>2. \A c \in Conns : c > accepted => c # accepted
    BY <2>1 DEF Conns
  <2>3. \A c \in Conns : c > accepted => handler'[c] = "none" /\ ~live'[c]
    BY <1>0, <1>1, <1>9, <2>1, <2>2 DEF BeginHandshake, AcceptedInOrder
  <2>4. \A s \in Conns : transport'[s] # None => handler'[transport'[s]] # "none"
    BY <1>0, <1>1, <1>9, <2>1 DEF BeginHandshake, AcceptedInOrder
  <2> QED BY <2>1, <2>3, <2>4 DEF AcceptedInOrder
<1>10. CASE ServeReturn
  BY <1>0, <1>1, <1>10 DEF ServeReturn, AcceptedInOrder
<1>11. CASE ShutdownHandshake
  BY <1>0, <1>1, <1>11 DEF ShutdownHandshake, Closed, AcceptedInOrder
<1>12. ASSUME NEW c \in Conns, HandshakeError(c) PROVE AcceptedInOrder'
  BY <1>0, <1>1, <1>12 DEF HandshakeError, Closed, Goto, AcceptedInOrder
<1>13. ASSUME NEW c \in Conns, Hello(c) PROVE AcceptedInOrder'
  BY <1>0, <1>1, <1>13 DEF Hello, Goto, AcceptedInOrder
<1>14. ASSUME NEW c \in Conns, AttachNew(c) PROVE AcceptedInOrder'
  BY <1>0, <1>1, <1>14 DEF AttachNew, Goto, AcceptedInOrder
<1>15. ASSUME NEW c \in Conns, RespondNew(c) PROVE AcceptedInOrder'
  BY <1>0, <1>1, <1>15 DEF RespondNew, Closed, Goto, RespondForgets, AcceptedInOrder
<1>16. ASSUME NEW c \in Conns, AttachResume(c) PROVE AcceptedInOrder'
  BY <1>0, <1>1, <1>16 DEF AttachResume, Closed, Goto, AcceptedInOrder
<1>17. ASSUME NEW c \in Conns, Move(c) PROVE AcceptedInOrder'
  BY <1>0, <1>1, <1>17 DEF Move, AfterMove, AttachTransport, Goto, Closed, AcceptedInOrder
<1>18. ASSUME NEW c \in Conns, MoveEnd(c) PROVE AcceptedInOrder'
  BY <1>0, <1>1, <1>18 DEF MoveEnd, AfterMove, OnAttached, Goto, AcceptedInOrder
<1>19. ASSUME NEW c \in Conns, OnConnectAccept(c) PROVE AcceptedInOrder'
  BY <1>0, <1>1, <1>19 DEF OnConnectAccept, Goto, AcceptedInOrder
<1>20. ASSUME NEW c \in Conns, OnConnectRefuse(c) PROVE AcceptedInOrder'
  BY <1>0, <1>1, <1>20 DEF OnConnectRefuse, Closed, MarkClosed, Goto, AcceptedInOrder
<1>21. ASSUME NEW c \in Conns, CloseReturns(c) PROVE AcceptedInOrder'
  BY <1>0, <1>1, <1>21 DEF CloseReturns, Released, Goto, AcceptedInOrder
<1>22. ASSUME NEW c \in Conns, TrackConn(c) PROVE AcceptedInOrder'
  BY <1>0, <1>1, <1>22 DEF TrackConn, Track, Goto, AcceptedInOrder
<1>23. ASSUME NEW c \in Conns, CloseUntracked(c) PROVE AcceptedInOrder'
  BY <1>0, <1>1, <1>23 DEF CloseUntracked, MarkClosed, Goto, AcceptedInOrder
<1>24. ASSUME NEW c \in Conns, Await(c) PROVE AcceptedInOrder'
  BY <1>0, <1>1, <1>24 DEF Await, Goto, Spawned, AcceptedInOrder
<1>25. ASSUME NEW c \in Conns, EndHandshake(c) PROVE AcceptedInOrder'
  BY <1>0, <1>1, <1>25 DEF EndHandshake, Goto, AcceptedInOrder
<1>26. ASSUME NEW c \in Conns, OnDisconnect(c) PROVE AcceptedInOrder'
  <2>1. handler[c] # "none"
    BY <1>0, <1>26 DEF OnDisconnect, CallbacksFollow
  <2> QED BY <1>0, <1>1, <1>26, <2>1 DEF OnDisconnect, AcceptedInOrder, Conns
<1>27. ASSUME NEW c \in Conns, Expire(c) PROVE AcceptedInOrder'
  BY <1>0, <1>1, <1>27 DEF Expire, MarkClosed, AcceptedInOrder
<1>28. ASSUME NEW c \in Conns, CloserEnd(c) PROVE AcceptedInOrder'
  BY <1>0, <1>1, <1>28 DEF CloserEnd, MarkClosed, AcceptedInOrder
<1>29. ASSUME NEW c \in Conns, Detach(c) PROVE AcceptedInOrder'
  BY <1>0, <1>1, <1>29 DEF Detach, Closed, AcceptedInOrder
<1>30. ASSUME NEW c \in Conns, PeerClose(c) PROVE AcceptedInOrder'
  BY <1>0, <1>1, <1>30 DEF PeerClose, MarkClosed, AcceptedInOrder
<1>31. ASSUME NEW c \in Conns, RefuseReturns(c) PROVE AcceptedInOrder'
  BY <1>0, <1>1, <1>31 DEF RefuseReturns, Released, Goto, Closed, AcceptedInOrder
<1>32. ASSUME NEW c \in Conns, ReleaseStep(c) PROVE AcceptedInOrder'
  BY <1>0, <1>1, <1>32
     DEF ReleaseStep, CloseTransport, Closed, StopTimer, RemoveRecoveryConnection,
         AcceptedInOrder
<1> QED
  BY <1>2, <1>3, <1>4, <1>5, <1>6, <1>7, <1>8, <1>9, <1>10, <1>11, <1>12, <1>13, <1>14, <1>15,
     <1>16, <1>17, <1>18, <1>19, <1>20, <1>21, <1>22, <1>23, <1>24, <1>25, <1>26, <1>27,
     <1>28, <1>29, <1>30, <1>31, <1>32
     DEF Next, ServeStep, HandlerStep, WaiterStep, TimerStep, ShutdownStep

(* A closed connection takes no transport, and its closeTransport takes    *)
(* the one it has.                                                         *)
LEMMA NextTransports ==
    ASSUME ServerInv, Next
    PROVE  TransportsFollow'
<1> USE DEF serveVars, tableVars, connVars, timerVars, sessionVars, callbackVars, shutdownVars
<1>0. /\ TransportsFollow
      /\ HandlersFollowKinds
      /\ TargetsAreTold
      /\ UnbornIsUnused
  BY DEF ServerInv
<1>1. /\ transport \in [Conns -> Conns \cup {None}]
      /\ closed \in [Conns -> BOOLEAN]
      /\ release \in [Conns -> {"none", "transport", "timer", "table"}]
      /\ kind \in [Conns -> {"none", "v2", "new", "resume"}]
      /\ target \in [Conns -> Conns]
  BY DEF ServerInv, TypeOK
<1>2. CASE Serve \/ TrackListener \/ Accept \/ AcceptError \/ Backoff \/ BeginHandshake \/
           ServeReturn \/ Shutdown \/ ShutdownListeners \/ ShutdownHandshake \/ ShutdownConns
           \/ ShutdownReturn
  BY <1>0, <1>2
     DEF TransportsFollow, Serve, TrackListener, Accept, AcceptError, Backoff, BeginHandshake,
         ServeReturn, Shutdown, ShutdownListeners, ShutdownHandshake, ShutdownConns,
         ShutdownReturn
<1>3. CASE \E c \in Conns : HandshakeError(c) \/ RespondNew(c) \/ MoveEnd(c) \/
                             OnConnectAccept(c) \/ TrackConn(c) \/ Await(c) \/
                             EndHandshake(c) \/ UntrackConn(c) \/ OnDisconnect(c) \/
                             CloseReturns(c) \/
                             ScheduleExpiry(c) \/ Fire(c) \/ ExpireCheck(c)
  BY <1>0, <1>3
     DEF TransportsFollow, HandshakeError, RespondNew, MoveEnd, OnConnectAccept,
         TrackConn, Await, EndHandshake, UntrackConn, OnDisconnect, CloseReturns,
         ScheduleExpiry, Fire, ExpireCheck
<1>4. ASSUME NEW c \in Conns, Hello(c) PROVE TransportsFollow'
  BY <1>0, <1>1, <1>4 DEF Hello, Goto, TransportsFollow, HandlersFollowKinds, UnbornIsUnused
<1>5. ASSUME NEW c \in Conns, AttachNew(c) PROVE TransportsFollow'
  BY <1>0, <1>1, <1>5 DEF AttachNew, Goto, TransportsFollow, HandlersFollowKinds, UnbornIsUnused
<1>6. ASSUME NEW c \in Conns, AttachResume(c) PROVE TransportsFollow'
  BY <1>0, <1>1, <1>6 DEF AttachResume, Closed, Goto, TransportsFollow
<1>7. ASSUME NEW c \in Conns, Move(c) PROVE TransportsFollow'
  BY <1>0, <1>1, <1>7
     DEF Move, AfterMove, AttachTransport, Goto, Closed, TransportsFollow, TargetsAreTold, Told
<1>8. ASSUME NEW c \in Conns, OnConnectRefuse(c) PROVE TransportsFollow'
  BY <1>0, <1>1, <1>8 DEF OnConnectRefuse, Closed, MarkClosed, Goto, TransportsFollow
<1>9. ASSUME NEW c \in Conns, CloseUntracked(c) PROVE TransportsFollow'
  BY <1>0, <1>1, <1>9 DEF CloseUntracked, MarkClosed, Goto, TransportsFollow
<1>10. ASSUME NEW c \in Conns, Expire(c) PROVE TransportsFollow'
  BY <1>0, <1>1, <1>10 DEF Expire, MarkClosed, TransportsFollow
<1>11. ASSUME NEW c \in Conns, CloserEnd(c) PROVE TransportsFollow'
  BY <1>0, <1>1, <1>11 DEF CloserEnd, MarkClosed, TransportsFollow
<1>12. ASSUME NEW c \in Conns, Detach(c) PROVE TransportsFollow'
  BY <1>0, <1>1, <1>12 DEF Detach, Closed, TransportsFollow
<1>13. ASSUME NEW c \in Conns, PeerClose(c) PROVE TransportsFollow'
  BY <1>0, <1>1, <1>13 DEF PeerClose, MarkClosed, TransportsFollow
<1>14. ASSUME NEW c \in Conns, RefuseReturns(c) PROVE TransportsFollow'
  BY <1>0, <1>1, <1>14 DEF RefuseReturns, Released, Goto, Closed, TransportsFollow
<1>15. ASSUME NEW c \in Conns, ReleaseStep(c) PROVE TransportsFollow'
  BY <1>0, <1>1, <1>15
     DEF ReleaseStep, CloseTransport, Closed, StopTimer, RemoveRecoveryConnection,
         TransportsFollow
<1> QED
  BY <1>2, <1>3, <1>4, <1>5, <1>6, <1>7, <1>8, <1>9, <1>10, <1>11, <1>12, <1>13, <1>14, <1>15
     DEF Next, ServeStep, HandlerStep, WaiterStep, TimerStep, ShutdownStep

(* A conn stays held if the transport that it is, or the handler that has  *)
(* it, is left to it or makes it a transport.                              *)
LEMMA StaysHeld ==
    ASSUME ConnsAreHeld, NEW d \in Conns, live[d], UNCHANGED <<accepted, serve>>,
           handler[d] \in {"hello", "attach", "move"} =>
              \/ handler'[d] \in {"hello", "attach", "move"}
              \/ \E s \in Conns : transport'[s] = d,
           \A s \in Conns : transport[s] = d => transport'[s] = d
    PROVE  Held(d)'
BY DEF ConnsAreHeld, Held

(* A conn that loses its handler or its place as a transport is closed. *)
LEMMA NextHeld ==
    ASSUME ServerInv, Next
    PROVE  ConnsAreHeld'
<1> USE DEF serveVars, tableVars, connVars, timerVars, sessionVars, callbackVars, shutdownVars
<1>0. /\ ConnsAreHeld
      /\ TypeOK
      /\ TransportsFollow
      /\ AcceptedInOrder
      /\ CallbacksFollow
      /\ HandlersFollowKinds
      /\ UnbornIsUnused
  BY DEF ServerInv
<1>1. /\ accepted \in 0..NConns
      /\ handler \in [Conns -> {"none", "hello", "attach", "respond", "move", "attached",
                              "onConnect", "refused", "track", "close", "closing",
                              "await", "leave", "end"}]
      /\ live \in [Conns -> BOOLEAN]
      /\ transport \in [Conns -> Conns \cup {None}]
      /\ target \in [Conns -> Conns]
  BY DEF ServerInv, TypeOK
<1>2. CASE Shutdown \/ ShutdownListeners \/ ShutdownConns \/ ShutdownReturn
  BY <1>0, <1>2
     DEF ConnsAreHeld, Held, Shutdown, ShutdownListeners, ShutdownConns, ShutdownReturn
<1>3. CASE \E c \in Conns : UntrackConn(c) \/ ScheduleExpiry(c) \/ Fire(c) \/ ExpireCheck(c)
                             \/ Expire(c) \/ CloserEnd(c) \/ PeerClose(c) \/ StopTimer(c)
                             \/ RemoveRecoveryConnection(c)
  BY <1>0, <1>3
     DEF ConnsAreHeld, Held, UntrackConn, ScheduleExpiry, Fire, ExpireCheck, Expire, CloserEnd,
         PeerClose, StopTimer, RemoveRecoveryConnection
<1>4. CASE Serve
  BY <1>0, <1>1, <1>4 DEF Serve, ConnsAreHeld, Held
<1>5. CASE TrackListener
  BY <1>0, <1>1, <1>5 DEF TrackListener, ConnsAreHeld, Held
<1>6. CASE Accept
  BY <1>0, <1>1, <1>6 DEF Accept, ConnsAreHeld, Held
<1>7. CASE AcceptError
  BY <1>0, <1>1, <1>7 DEF AcceptError, ConnsAreHeld, Held
<1>8. CASE Backoff
  BY <1>0, <1>1, <1>8 DEF Backoff, ConnsAreHeld, Held
<1>9. CASE BeginHandshake
  <2>1. accepted \in Conns
    BY <1>0, <1>9 DEF BeginHandshake, AcceptedInOrder
  <2> QED BY <1>0, <1>1, <1>9, <2>1 DEF BeginHandshake, ConnsAreHeld, Held
<1>10. CASE ServeReturn
  BY <1>0, <1>1, <1>10 DEF ServeReturn, ConnsAreHeld, Held
<1>11. CASE ShutdownHandshake
  BY <1>0, <1>1, <1>11 DEF ShutdownHandshake, Closed, ConnsAreHeld, Held
<1>12. ASSUME NEW c \in Conns, HandshakeError(c) PROVE ConnsAreHeld'
  <2> SUFFICES ASSUME NEW d \in Conns, live'[d] PROVE Held(d)'
    BY DEF ConnsAreHeld
  <2>d. d # None
    BY DEF Conns, None
  <2>1. live[d] /\ UNCHANGED <<accepted, serve>>
    BY <1>1, <1>12 DEF HandshakeError, Closed, Goto
  <2>2. handler[d] \in {"hello", "attach", "move"} =>
           \/ handler'[d] \in {"hello", "attach", "move"}
           \/ \E s \in Conns : transport'[s] = d
    BY <1>1, <1>12 DEF HandshakeError, Closed, Goto
  <2>3. \A s \in Conns : transport[s] = d => transport'[s] = d
    BY <1>1, <1>12, <2>d DEF HandshakeError, Closed, Goto
  <2> QED BY <1>0, <2>1, <2>2, <2>3, StaysHeld
<1>13. ASSUME NEW c \in Conns, Hello(c) PROVE ConnsAreHeld'
  <2> SUFFICES ASSUME NEW d \in Conns, live'[d] PROVE Held(d)'
    BY DEF ConnsAreHeld
  <2>d. d # None
    BY DEF Conns, None
  <2>0. transport[c] = None
    BY <1>0, <1>13 DEF Hello, HandlersFollowKinds, UnbornIsUnused
  <2>1. live[d] /\ UNCHANGED <<accepted, serve>>
    BY <1>1, <1>13, <2>0 DEF Hello, Goto
  <2>2. handler[d] \in {"hello", "attach", "move"} =>
           \/ handler'[d] \in {"hello", "attach", "move"}
           \/ \E s \in Conns : transport'[s] = d
    BY <1>1, <1>13, <2>0 DEF Hello, Goto
  <2>3. \A s \in Conns : transport[s] = d => transport'[s] = d
    BY <1>1, <1>13, <2>d, <2>0 DEF Hello, Goto
  <2> QED BY <1>0, <2>1, <2>2, <2>3, StaysHeld
<1>14. ASSUME NEW c \in Conns, AttachNew(c) PROVE ConnsAreHeld'
  <2> SUFFICES ASSUME NEW d \in Conns, live'[d] PROVE Held(d)'
    BY DEF ConnsAreHeld
  <2>d. d # None
    BY DEF Conns, None
  <2>0. transport[c] = None
    BY <1>0, <1>14 DEF AttachNew, HandlersFollowKinds, UnbornIsUnused
  <2>1. live[d] /\ UNCHANGED <<accepted, serve>>
    BY <1>1, <1>14, <2>0 DEF AttachNew, Goto
  <2>2. handler[d] \in {"hello", "attach", "move"} =>
           \/ handler'[d] \in {"hello", "attach", "move"}
           \/ \E s \in Conns : transport'[s] = d
    BY <1>1, <1>14, <2>0 DEF AttachNew, Goto
  <2>3. \A s \in Conns : transport[s] = d => transport'[s] = d
    BY <1>1, <1>14, <2>d, <2>0 DEF AttachNew, Goto
  <2> QED BY <1>0, <2>1, <2>2, <2>3, StaysHeld
<1>15. ASSUME NEW c \in Conns, RespondNew(c) PROVE ConnsAreHeld'
  <2> SUFFICES ASSUME NEW d \in Conns, live'[d] PROVE Held(d)'
    BY DEF ConnsAreHeld
  <2>d. d # None
    BY DEF Conns, None
  <2>1. live[d] /\ UNCHANGED <<accepted, serve>>
    BY <1>1, <1>15 DEF RespondNew, Closed, Goto, RespondForgets
  <2>2. handler[d] \in {"hello", "attach", "move"} =>
           \/ handler'[d] \in {"hello", "attach", "move"}
           \/ \E s \in Conns : transport'[s] = d
    BY <1>1, <1>15 DEF RespondNew, Closed, Goto, RespondForgets
  <2>3. \A s \in Conns : transport[s] = d => transport'[s] = d
    BY <1>1, <1>15, <2>d DEF RespondNew, Closed, Goto, RespondForgets
  <2> QED BY <1>0, <2>1, <2>2, <2>3, StaysHeld
<1>16. ASSUME NEW c \in Conns, AttachResume(c) PROVE ConnsAreHeld'
  <2> SUFFICES ASSUME NEW d \in Conns, live'[d] PROVE Held(d)'
    BY DEF ConnsAreHeld
  <2>d. d # None
    BY DEF Conns, None
  <2>1. live[d] /\ UNCHANGED <<accepted, serve>>
    BY <1>1, <1>16 DEF AttachResume, Closed, Goto
  <2>2. handler[d] \in {"hello", "attach", "move"} =>
           \/ handler'[d] \in {"hello", "attach", "move"}
           \/ \E s \in Conns : transport'[s] = d
    BY <1>1, <1>16 DEF AttachResume, Closed, Goto
  <2>3. \A s \in Conns : transport[s] = d => transport'[s] = d
    BY <1>1, <1>16, <2>d DEF AttachResume, Closed, Goto
  <2> QED BY <1>0, <2>1, <2>2, <2>3, StaysHeld
<1>17. ASSUME NEW c \in Conns, Move(c) PROVE ConnsAreHeld'
  <2> SUFFICES ASSUME NEW d \in Conns, live'[d] PROVE Held(d)'
    BY DEF ConnsAreHeld
  <2>d. d # None
    BY DEF Conns, None
  <2>1. live[d] /\ UNCHANGED <<accepted, serve>>
    BY <1>1, <1>17 DEF Move, AfterMove, AttachTransport, Goto, Closed
  <2>2. handler[d] \in {"hello", "attach", "move"} =>
           \/ handler'[d] \in {"hello", "attach", "move"}
           \/ \E s \in Conns : transport'[s] = d
    <3>1. CASE d # c
      BY <1>1, <1>17, <3>1 DEF Move, Goto
    <3>2. CASE d = c
      <4>1. ~closed[target[c]]
        BY <1>17, <3>2 DEF Move, AttachTransport, Closed
      <4>2. target[c] \in Conns /\ transport'[target[c]] = d
        BY <1>1, <1>17, <3>2, <4>1 DEF Move, AttachTransport
      <4> QED BY <4>2
    <3> QED BY <3>1, <3>2
  <2>3. \A s \in Conns : transport[s] = d => transport'[s] = d
    BY <1>1, <1>17, <2>d, ZenonT(30) DEF Move, AfterMove, AttachTransport, Goto, Closed
  <2> QED BY <1>0, <2>1, <2>2, <2>3, StaysHeld
<1>18. ASSUME NEW c \in Conns, MoveEnd(c) PROVE ConnsAreHeld'
  BY <1>0, <1>1, <1>18 DEF MoveEnd, AfterMove, Goto, ConnsAreHeld, Held
<1>19. ASSUME NEW c \in Conns, OnConnectAccept(c) PROVE ConnsAreHeld'
  BY <1>0, <1>1, <1>19 DEF OnConnectAccept, Goto, ConnsAreHeld, Held
<1>20. ASSUME NEW c \in Conns, OnConnectRefuse(c) PROVE ConnsAreHeld'
  <2> SUFFICES ASSUME NEW d \in Conns, live'[d] PROVE Held(d)'
    BY DEF ConnsAreHeld
  <2>1. live[d] /\ UNCHANGED <<accepted, serve>>
    BY <1>1, <1>20 DEF OnConnectRefuse, Closed, Goto
  <2>2. handler[d] \in {"hello", "attach", "move"} =>
           \/ handler'[d] \in {"hello", "attach", "move"}
           \/ \E s \in Conns : transport'[s] = d
    BY <1>1, <1>20 DEF OnConnectRefuse, Closed, Goto
  <2>3. \A s \in Conns : transport[s] = d => transport'[s] = d
    <3>1. CASE kind[c] = "v2"
      <4>1. transport[c] \in {c, None} /\ d # None
        BY <1>0, <3>1 DEF TransportsFollow, Conns, None
      <4>2. d # c
        BY <1>20, <3>1 DEF OnConnectRefuse, Closed
      <4> QED BY <1>1, <1>20, <3>1, <4>1, <4>2 DEF OnConnectRefuse
    <3>2. CASE kind[c] # "v2"
      BY <1>20, <3>2 DEF OnConnectRefuse
    <3> QED BY <3>1, <3>2
  <2> QED BY <1>0, <2>1, <2>2, <2>3, StaysHeld
<1>21. ASSUME NEW c \in Conns, CloseReturns(c) PROVE ConnsAreHeld'
  BY <1>0, <1>1, <1>21 DEF CloseReturns, Goto, ConnsAreHeld, Held
<1>22. ASSUME NEW c \in Conns, TrackConn(c) PROVE ConnsAreHeld'
  BY <1>0, <1>1, <1>22 DEF TrackConn, Track, Goto, ConnsAreHeld, Held
<1>23. ASSUME NEW c \in Conns, CloseUntracked(c) PROVE ConnsAreHeld'
  BY <1>0, <1>1, <1>23 DEF CloseUntracked, Goto, ConnsAreHeld, Held
<1>24. ASSUME NEW c \in Conns, Await(c) PROVE ConnsAreHeld'
  BY <1>0, <1>1, <1>24 DEF Await, Goto, ConnsAreHeld, Held
<1>25. ASSUME NEW c \in Conns, EndHandshake(c) PROVE ConnsAreHeld'
  BY <1>0, <1>1, <1>25 DEF EndHandshake, Goto, ConnsAreHeld, Held
<1>26. ASSUME NEW c \in Conns, OnDisconnect(c) PROVE ConnsAreHeld'
  <2>1. handler[c] \in {"await", "leave", "end"}
    BY <1>0, <1>26 DEF OnDisconnect, CallbacksFollow
  <2> QED BY <1>0, <1>1, <1>26, <2>1 DEF OnDisconnect, ConnsAreHeld, Held
<1>27. ASSUME NEW c \in Conns, Detach(c) PROVE ConnsAreHeld'
  <2> SUFFICES ASSUME NEW d \in Conns, live'[d] PROVE Held(d)'
    BY DEF ConnsAreHeld
  <2>d. d # None
    BY DEF Conns, None
  <2>1. live[d] /\ UNCHANGED <<accepted, serve>>
    BY <1>1, <1>27 DEF Detach, Closed
  <2>2. handler[d] \in {"hello", "attach", "move"} =>
           \/ handler'[d] \in {"hello", "attach", "move"}
           \/ \E s \in Conns : transport'[s] = d
    BY <1>1, <1>27 DEF Detach, Closed
  <2>3. \A s \in Conns : transport[s] = d => transport'[s] = d
    BY <1>1, <1>27, <2>d DEF Detach, Closed
  <2> QED BY <1>0, <2>1, <2>2, <2>3, StaysHeld
<1>28. ASSUME NEW c \in Conns, RefuseReturns(c) PROVE ConnsAreHeld'
  <2> SUFFICES ASSUME NEW d \in Conns, live'[d] PROVE Held(d)'
    BY DEF ConnsAreHeld
  <2>d. d # None
    BY DEF Conns, None
  <2>1. live[d] /\ UNCHANGED <<accepted, serve>>
    BY <1>1, <1>28 DEF RefuseReturns, Goto, Closed
  <2>2. handler[d] \in {"hello", "attach", "move"} =>
           \/ handler'[d] \in {"hello", "attach", "move"}
           \/ \E s \in Conns : transport'[s] = d
    BY <1>1, <1>28 DEF RefuseReturns, Goto, Closed
  <2>3. \A s \in Conns : transport[s] = d => transport'[s] = d
    BY <1>1, <1>28, <2>d DEF RefuseReturns, Goto, Closed
  <2> QED BY <1>0, <2>1, <2>2, <2>3, StaysHeld
<1>29. ASSUME NEW c \in Conns, CloseTransport(c) PROVE ConnsAreHeld'
  <2> SUFFICES ASSUME NEW d \in Conns, live'[d] PROVE Held(d)'
    BY DEF ConnsAreHeld
  <2>d. d # None
    BY DEF Conns, None
  <2>1. live[d] /\ UNCHANGED <<accepted, serve>>
    BY <1>1, <1>29 DEF CloseTransport, Closed
  <2>2. handler[d] \in {"hello", "attach", "move"} =>
           \/ handler'[d] \in {"hello", "attach", "move"}
           \/ \E s \in Conns : transport'[s] = d
    BY <1>1, <1>29 DEF CloseTransport, Closed
  <2>3. \A s \in Conns : transport[s] = d => transport'[s] = d
    BY <1>1, <1>29, <2>d DEF CloseTransport, Closed
  <2> QED BY <1>0, <2>1, <2>2, <2>3, StaysHeld
<1> QED
  BY <1>2, <1>3, <1>4, <1>5, <1>6, <1>7, <1>8, <1>9, <1>10, <1>11, <1>12, <1>13, <1>14, <1>15,
     <1>16, <1>17, <1>18, <1>19, <1>20, <1>21, <1>22, <1>23, <1>24, <1>25, <1>26, <1>27,
     <1>28, <1>29
     DEF Next, ServeStep, HandlerStep, WaiterStep, TimerStep, ShutdownStep, ReleaseStep

(* A connection is served from its birth on, unless its answer fails,      *)
(* which closes its conn, or OnConnect refuses it, which closes it or its  *)
(* conn.                                                                   *)
LEMMA NextServed ==
    ASSUME ServerInv, Next
    PROVE  TransportsServed'
<1> USE DEF serveVars, tableVars, connVars, timerVars, sessionVars, callbackVars, shutdownVars
<1>0. /\ TransportsServed
      /\ HandlersFollowKinds
      /\ TargetsAreTold
      /\ UnbornIsUnused
      /\ CallbacksFollow
      /\ AcceptedInOrder
  BY DEF ServerInv
<1>1. /\ transport \in [Conns -> Conns \cup {None}]
      /\ started \in [Conns -> BOOLEAN]
      /\ closed \in [Conns -> BOOLEAN]
      /\ live \in [Conns -> BOOLEAN]
      /\ kind \in [Conns -> {"none", "v2", "new", "resume"}]
      /\ target \in [Conns -> Conns]
      /\ handler \in [Conns -> {"none", "hello", "attach", "respond", "move", "attached",
                              "onConnect", "refused", "track", "close", "closing",
                              "await", "leave", "end"}]
  BY DEF ServerInv, TypeOK
<1>a. \A c \in Conns : c # None
  BY DEF Conns, None
<1>b. \A d \in Conns : kind[d] = "resume" =>
         kind[target[d]] = "new" /\ handler[target[d]] # "respond"
  BY <1>0 DEF TargetsAreTold, Told
<1>c. \A d \in Conns : kind[d] # "resume" => target[d] = d
  BY <1>0 DEF TargetsAreTold
<1>2. CASE Serve \/ TrackListener \/ AcceptError \/ Backoff \/ ServeReturn \/ Shutdown \/
           ShutdownListeners \/ ShutdownConns \/ ShutdownReturn
  BY <1>0, <1>2
     DEF TransportsServed, Served, Serve, TrackListener, AcceptError, Backoff, ServeReturn,
         Shutdown, ShutdownListeners, ShutdownConns, ShutdownReturn
<1>3. CASE \E c \in Conns : UntrackConn(c) \/ ScheduleExpiry(c) \/ Fire(c) \/ ExpireCheck(c)
                             \/ StopTimer(c) \/ RemoveRecoveryConnection(c)
  BY <1>0, <1>3
     DEF TransportsServed, Served, UntrackConn, ScheduleExpiry, Fire, ExpireCheck, StopTimer,
         RemoveRecoveryConnection
<1>4. CASE Accept
  <2>1. accepted + 1 \in Conns
    BY <1>4, ServerAssumption DEF Accept, Conns, ServerInv, TypeOK
  <2>a. handler[accepted + 1] = "none"
    BY <1>0, <2>1 DEF AcceptedInOrder, ServerInv, TypeOK
  <2>2. \A s \in Conns : transport[s] # accepted + 1
    BY <1>0, <1>a, <2>1, <2>a DEF AcceptedInOrder
  <2> QED BY <1>0, <1>1, <1>4, <2>1, <2>2 DEF Accept, TransportsServed, Served
<1>5. CASE BeginHandshake
  BY <1>0, <1>1, <1>5 DEF BeginHandshake, AcceptedInOrder, TransportsServed, Served
<1>6. CASE ShutdownHandshake
  BY <1>0, <1>1, <1>6 DEF ShutdownHandshake, Closed, TransportsServed, Served
<1>7. ASSUME NEW c \in Conns, HandshakeError(c) PROVE TransportsServed'
  BY <1>0, <1>1, <1>a, <1>7
     DEF HandshakeError, Closed, Goto, TransportsServed, Served, HandlersFollowKinds,
         UnbornIsUnused
<1>8. ASSUME NEW c \in Conns, Hello(c) PROVE TransportsServed'
  BY <1>0, <1>1, <1>a, <1>8
     DEF Hello, Goto, TransportsServed, Served, HandlersFollowKinds, UnbornIsUnused
<1>9. ASSUME NEW c \in Conns, AttachNew(c) PROVE TransportsServed'
  BY <1>0, <1>1, <1>a, <1>9
     DEF AttachNew, Goto, TransportsServed, Served, HandlersFollowKinds, UnbornIsUnused
<1>10. ASSUME NEW c \in Conns, RespondNew(c) PROVE TransportsServed'
  <2>1. kind[c] = "new" /\ target[c] = c /\ transport[c] \in {c, None}
    BY <1>0, <1>c, <1>10 DEF RespondNew, HandlersFollowKinds, TransportsServed
  <2>2. \A d \in Conns : handler[d] = "move" => target[d] # c
    BY <1>0, <1>b, <1>c, <1>10 DEF RespondNew, HandlersFollowKinds
  <2>3. CASE handler' = [handler EXCEPT ![c] = "move"] /\ UNCHANGED live
    BY <1>0, <1>1, <1>a, <1>10, <2>1, <2>2, <2>3 DEF RespondNew, TransportsServed, Served
  <2>4. CASE handler' = [handler EXCEPT ![c] = "leave"] /\ live' = Closed({c})
    BY <1>0, <1>1, <1>a, <1>10, <2>1, <2>2, <2>4
       DEF RespondNew, Closed, TransportsServed, Served
  <2> QED BY <1>10, <2>3, <2>4 DEF RespondNew, Goto
<1>11. ASSUME NEW c \in Conns, AttachResume(c) PROVE TransportsServed'
  <2>1. handler[c] = "attach" /\ UNCHANGED <<transport, started, closed>>
    BY <1>11 DEF AttachResume
  <2>2. PICK s \in Conns :
           /\ Told(s) /\ target' = [target EXCEPT ![c] = s]
           /\ \/ s \in recoveryConns /\ ~closed[s] /\ handler' = [handler EXCEPT ![c] = "move"]
                 /\ UNCHANGED live
              \/ handler' = [handler EXCEPT ![c] = "leave"] /\ live' = Closed({c})
    BY <1>11 DEF AttachResume, Goto
  <2>3. s # c
    BY <1>0, <2>1, <2>2 DEF Told, HandlersFollowKinds
  <2>4. s \in recoveryConns /\ ~closed[s] => Served(s)
    <3>1. SUFFICES ASSUME s \in recoveryConns, ~closed[s], waiter[s] # "wait" PROVE Served(s)
      BY <1>0 DEF CallbacksFollow, Served
    <3>2. Busy(s) /\ handler[s] # "leave"
      BY <3>1 DEF ServerInv, StoredIsServed
    <3>3. handler[s] \notin {"hello", "attach", "refused"}
      BY <1>0, <2>2, <3>1 DEF Told, HandlersFollowKinds, TransportsServed
    <3> QED BY <1>0, <1>1, <3>2, <3>3 DEF Busy, CallbacksFollow, Served
  <2>5. \A d \in Conns : Served(d) => Served(d)'
    BY <1>1, <2>1, <2>2 DEF Served
  <2>6. \A d \in Conns : live'[d] => live[d]
    BY <1>1, <2>2 DEF Closed
  <2> QED BY <1>0, <1>1, <2>1, <2>2, <2>4, <2>5, <2>6 DEF TransportsServed
<1>12. ASSUME NEW c \in Conns, Move(c) PROVE TransportsServed'
  <2>1. handler[c] = "move" /\ Served(target[c]) /\ UNCHANGED <<started, closed, target>>
    BY <1>0, <1>12 DEF Move, TransportsServed
  <2>2. handler' = [handler EXCEPT ![c] = IF closed[target[c]] THEN AfterMove(c) ELSE "attached"]
    BY <1>12 DEF Move, Goto
  <2>3. \A d \in Conns : Served(d) => Served(d)' \/ kind[d] = "resume"
    BY <1>0, <1>1, <1>c, <2>1, <2>2 DEF Served, AfterMove, HandlersFollowKinds
  <2>4. \A d \in Conns : kind[d] = "resume" => transport[d] = None
    BY <1>0 DEF UnbornIsUnused
  <2>5. \A d \in Conns : handler[d] = "move" => kind[target[d]] # "resume"
    BY <1>0, <1>b, <1>c DEF HandlersFollowKinds
  <2>6. \A s \in Conns : s = target[c] => Served(s)'
    BY <1>1, <2>1, <2>3, <2>5
  <2>7. \A s, d \in Conns : transport'[s] = d /\ live'[d] => Served(s)'
    <3> SUFFICES ASSUME NEW s \in Conns, NEW d \in Conns, transport'[s] = d, live'[d]
                 PROVE  Served(s)'
      OBVIOUS
    <3>1. CASE s = target[c]
      BY <2>6, <3>1
    <3>2. CASE s # target[c]
      <4>1. transport[s] = d /\ live[d]
        BY <1>1, <1>12, <3>2 DEF Move, AttachTransport, Closed
      <4> QED BY <1>0, <1>a, <2>3, <2>4, <4>1 DEF TransportsServed
    <3> QED BY <3>1, <3>2
  <2>8. \A d \in Conns : /\ handler'[d] = "move" => handler[d] = "move"
                         /\ handler'[d] = "respond" => handler[d] = "respond" /\ d # target[c]
                         /\ handler'[d] = "refused" => handler[d] = "refused"
    BY <1>0, <1>1, <1>b, <1>c, <2>1, <2>2 DEF AfterMove, HandlersFollowKinds
  <2>9. \A d \in Conns : d # target[c] => transport'[d] = transport[d]
    BY <1>1, <1>12 DEF Move, AttachTransport
  <2>10. \A s, d \in Conns : handler'[d] = "move" /\ s = target'[d] => Served(s)'
    BY <1>0, <1>1, <2>1, <2>3, <2>5, <2>8 DEF TransportsServed
  <2>11. \A d \in Conns : /\ handler'[d] = "respond" => transport'[d] \in {d, None}
                          /\ handler'[d] = "refused" => closed'[d]
    BY <1>0, <1>1, <2>1, <2>8, <2>9 DEF TransportsServed
  <2>12. \A d \in Conns : target'[d] \in Conns
    BY <1>1, <2>1
  <2> QED BY <2>7, <2>10, <2>11, <2>12 DEF TransportsServed
<1>13. ASSUME NEW c \in Conns, MoveEnd(c) PROVE TransportsServed'
  <2>1. handler[c] = "attached" /\ UNCHANGED <<started, closed, target, transport, live>>
    BY <1>13 DEF MoveEnd
  <2>2. handler' = [handler EXCEPT ![c] = AfterMove(c)]
    BY <1>13 DEF MoveEnd, Goto
  <2>3. \A d \in Conns : Served(d) => Served(d)' \/ kind[d] = "resume"
    BY <1>0, <1>1, <2>1, <2>2 DEF Served, AfterMove, HandlersFollowKinds
  <2>4. \A d \in Conns : kind[d] = "resume" => transport[d] = None
    BY <1>0 DEF UnbornIsUnused
  <2>5. \A d \in Conns : handler[d] = "move" => kind[target[d]] # "resume"
    BY <1>0, <1>b, <1>c DEF HandlersFollowKinds
  <2>6. \A d \in Conns : /\ handler'[d] = "move" => handler[d] = "move"
                         /\ handler'[d] = "respond" => handler[d] = "respond"
                         /\ handler'[d] = "refused" => handler[d] = "refused"
    BY <1>1, <2>2 DEF AfterMove
  <2>7. \A s, d \in Conns : transport'[s] = d /\ live'[d] => Served(s)'
    BY <1>0, <1>a, <2>1, <2>3, <2>4 DEF TransportsServed
  <2>8. \A s, d \in Conns : handler'[d] = "move" /\ s = target'[d] => Served(s)'
    BY <1>0, <1>1, <2>1, <2>3, <2>5, <2>6 DEF TransportsServed
  <2>9. \A d \in Conns : /\ handler'[d] = "respond" => transport'[d] \in {d, None}
                         /\ handler'[d] = "refused" => closed'[d]
    BY <1>0, <1>1, <2>1, <2>6 DEF TransportsServed
  <2>10. \A d \in Conns : target'[d] \in Conns
    BY <1>1, <2>1
  <2> QED BY <2>7, <2>8, <2>9, <2>10 DEF TransportsServed
<1>14. ASSUME NEW c \in Conns, OnConnectAccept(c) PROVE TransportsServed'
  BY <1>0, <1>1, <1>a, <1>14 DEF OnConnectAccept, Goto, TransportsServed, Served
<1>15. ASSUME NEW c \in Conns, OnConnectRefuse(c) PROVE TransportsServed'
  <2>1. handler[c] = "onConnect" /\ UNCHANGED <<started, target>>
    BY <1>15 DEF OnConnectRefuse
  <2>2. CASE kind[c] = "v2"
    <3>1. /\ handler' = [handler EXCEPT ![c] = "leave"] /\ live' = Closed({c})
          /\ transport' = [transport EXCEPT ![c] = None] /\ closed' = closed
      BY <1>15, <2>2 DEF OnConnectRefuse, Goto
    <3>2. \A d \in Conns : handler[d] = "move" => target[d] # c
      BY <1>0, <1>b, <1>c, <2>2 DEF HandlersFollowKinds
    <3> QED BY <1>0, <1>1, <1>a, <2>1, <3>1, <3>2 DEF Closed, TransportsServed, Served
  <2>3. CASE kind[c] # "v2"
    <3>1. /\ handler' = [handler EXCEPT ![c] = "refused"] /\ UNCHANGED <<live, transport>>
          /\ closed' = [closed EXCEPT ![c] = TRUE]
      BY <1>1, <1>15, <2>3 DEF OnConnectRefuse, MarkClosed, Goto
    <3> QED BY <1>0, <1>1, <2>1, <3>1 DEF TransportsServed, Served
  <2> QED BY <2>2, <2>3
<1>16. ASSUME NEW c \in Conns, RefuseReturns(c) PROVE TransportsServed'
  BY <1>0, <1>1, <1>a, <1>16
     DEF RefuseReturns, Released, Closed, Goto, TransportsServed, Served
<1>17. ASSUME NEW c \in Conns, TrackConn(c) PROVE TransportsServed'
  BY <1>0, <1>1, <1>a, <1>17 DEF TrackConn, Track, Goto, TransportsServed, Served
<1>18. ASSUME NEW c \in Conns, CloseUntracked(c) PROVE TransportsServed'
  BY <1>0, <1>1, <1>a, <1>18 DEF CloseUntracked, MarkClosed, Goto, TransportsServed, Served
<1>19. ASSUME NEW c \in Conns, CloseReturns(c) PROVE TransportsServed'
  BY <1>0, <1>1, <1>a, <1>19 DEF CloseReturns, Goto, TransportsServed, Served
<1>20. ASSUME NEW c \in Conns, Await(c) PROVE TransportsServed'
  BY <1>0, <1>1, <1>a, <1>20 DEF Await, Goto, TransportsServed, Served
<1>21. ASSUME NEW c \in Conns, EndHandshake(c) PROVE TransportsServed'
  BY <1>0, <1>1, <1>a, <1>21 DEF EndHandshake, Goto, TransportsServed, Served
<1>22. ASSUME NEW c \in Conns, OnDisconnect(c) PROVE TransportsServed'
  BY <1>0, <1>1, <1>a, <1>22 DEF OnDisconnect, TransportsServed, Served, CallbacksFollow
<1>23. ASSUME NEW c \in Conns, Expire(c) PROVE TransportsServed'
  BY <1>0, <1>1, <1>a, <1>23 DEF Expire, MarkClosed, TransportsServed, Served
<1>24. ASSUME NEW c \in Conns, CloserEnd(c) PROVE TransportsServed'
  BY <1>0, <1>1, <1>a, <1>24 DEF CloserEnd, MarkClosed, TransportsServed, Served
<1>25. ASSUME NEW c \in Conns, Detach(c) PROVE TransportsServed'
  BY <1>0, <1>1, <1>a, <1>25 DEF Detach, Closed, TransportsServed, Served
<1>26. ASSUME NEW c \in Conns, PeerClose(c) PROVE TransportsServed'
  BY <1>0, <1>1, <1>a, <1>26 DEF PeerClose, MarkClosed, TransportsServed, Served
<1>27. ASSUME NEW c \in Conns, CloseTransport(c) PROVE TransportsServed'
  BY <1>0, <1>1, <1>a, <1>27 DEF CloseTransport, Closed, TransportsServed, Served
<1> QED
  BY <1>2, <1>3, <1>4, <1>5, <1>6, <1>7, <1>8, <1>9, <1>10, <1>11, <1>12, <1>13, <1>14, <1>15,
     <1>16, <1>17, <1>18, <1>19, <1>20, <1>21, <1>22, <1>23, <1>24, <1>25, <1>26, <1>27
     DEF Next, ServeStep, HandlerStep, WaiterStep, TimerStep, ShutdownStep, ReleaseStep

(* Shutdown sees every started connection in conns, or its handler closes  *)
(* it; a Shutdown that returned nil left nothing running.                  *)
LEMMA NextShutdown ==
    ASSUME ServerInv, Next
    PROVE  ShutdownTracks'
<1> USE DEF serveVars, tableVars, connVars, timerVars, sessionVars, callbackVars, shutdownVars
<1>0. /\ ShutdownTracks
      /\ TablesAreServed
      /\ CallbacksFollow
      /\ RunningExact
  BY DEF ServerInv
<1>1. /\ stopping \in BOOLEAN
      /\ running \in 0..2 * NConns
      /\ started \in [Conns -> BOOLEAN]
      /\ closed \in [Conns -> BOOLEAN]
      /\ closers \subseteq Conns
      /\ handler \in [Conns -> {"none", "hello", "attach", "respond", "move", "attached",
                              "onConnect", "refused", "track", "close", "closing",
                              "await", "leave", "end"}]
      /\ toClose \subseteq Conns
      /\ conns \subseteq Conns
      /\ kind \in [Conns -> {"none", "v2", "new", "resume"}]
      /\ waiter \in [Conns -> {"none", "wait", "callback", "done"}]
  BY DEF ServerInv, TypeOK
<1>2. CASE ShutdownHandshake
  BY <1>0, <1>2 DEF ShutdownTracks, ShutdownHandshake
<1>3. CASE \E c \in Conns : ScheduleExpiry(c) \/ Fire(c) \/ ExpireCheck(c) \/ Detach(c)
  BY <1>0, <1>3 DEF ShutdownTracks, ScheduleExpiry, Fire, ExpireCheck, Detach
<1>4. CASE Serve
  BY <1>0, <1>1, <1>4 DEF Serve, ShutdownTracks
<1>5. CASE TrackListener
  BY <1>0, <1>1, <1>5 DEF TrackListener, ShutdownTracks
<1>6. CASE Accept
  BY <1>0, <1>1, <1>6 DEF Accept, ShutdownTracks
<1>7. CASE AcceptError
  BY <1>0, <1>1, <1>7 DEF AcceptError, ShutdownTracks
<1>8. CASE Backoff
  BY <1>0, <1>1, <1>8 DEF Backoff, ShutdownTracks
<1>9. CASE BeginHandshake
  BY <1>0, <1>1, <1>9 DEF BeginHandshake, ShutdownTracks
<1>10. CASE ServeReturn
  BY <1>0, <1>1, <1>10 DEF ServeReturn, ShutdownTracks
<1>11. CASE Shutdown
  BY <1>0, <1>1, <1>11 DEF Shutdown, ShutdownTracks, TablesAreServed
<1>12. CASE ShutdownListeners
  BY <1>0, <1>1, <1>12 DEF ShutdownListeners, ShutdownTracks
<1>13. CASE ShutdownConns
  BY <1>0, <1>1, <1>13 DEF ShutdownConns, SpawnClosers, ShutdownTracks
<1>14. CASE ShutdownReturn
  BY <1>0, <1>1, <1>14 DEF ShutdownReturn, AllDone, ShutdownTracks
<1>15. ASSUME NEW c \in Conns, HandshakeError(c) PROVE ShutdownTracks'
  BY <1>0, <1>1, <1>15 DEF HandshakeError, Closed, Goto, ShutdownTracks
<1>16. ASSUME NEW c \in Conns, Hello(c) PROVE ShutdownTracks'
  BY <1>0, <1>1, <1>16 DEF Hello, Goto, ShutdownTracks
<1>17. ASSUME NEW c \in Conns, AttachNew(c) PROVE ShutdownTracks'
  BY <1>0, <1>1, <1>17 DEF AttachNew, Goto, ShutdownTracks
<1>18. ASSUME NEW c \in Conns, RespondNew(c) PROVE ShutdownTracks'
  BY <1>0, <1>1, <1>18 DEF RespondNew, Closed, Goto, RespondForgets, ShutdownTracks
<1>19. ASSUME NEW c \in Conns, AttachResume(c) PROVE ShutdownTracks'
  BY <1>0, <1>1, <1>19 DEF AttachResume, Closed, Goto, ShutdownTracks
<1>20. ASSUME NEW c \in Conns, Move(c) PROVE ShutdownTracks'
  BY <1>0, <1>1, <1>20 DEF Move, AfterMove, AttachTransport, Goto, Closed, ShutdownTracks
<1>21. ASSUME NEW c \in Conns, MoveEnd(c) PROVE ShutdownTracks'
  BY <1>0, <1>1, <1>21 DEF MoveEnd, AfterMove, OnAttached, Goto, ShutdownTracks
<1>22. ASSUME NEW c \in Conns, OnConnectAccept(c) PROVE ShutdownTracks'
  BY <1>0, <1>1, <1>22 DEF OnConnectAccept, Goto, ShutdownTracks
<1>23. ASSUME NEW c \in Conns, OnConnectRefuse(c) PROVE ShutdownTracks'
  BY <1>0, <1>1, <1>23 DEF OnConnectRefuse, Closed, MarkClosed, Goto, ShutdownTracks
<1>24. ASSUME NEW c \in Conns, CloseReturns(c) PROVE ShutdownTracks'
  BY <1>0, <1>1, <1>24 DEF CloseReturns, Released, Goto, ShutdownTracks
<1>25. ASSUME NEW c \in Conns, TrackConn(c) PROVE ShutdownTracks'
  BY <1>0, <1>1, <1>25 DEF TrackConn, Track, Goto, ShutdownTracks
<1>26. ASSUME NEW c \in Conns, CloseUntracked(c) PROVE ShutdownTracks'
  BY <1>0, <1>1, <1>26 DEF CloseUntracked, MarkClosed, Goto, ShutdownTracks
<1>27. ASSUME NEW c \in Conns, Await(c) PROVE ShutdownTracks'
  <2>1. running # 0
    BY <1>0, <1>1, <1>27, ZeroIsQuiet DEF Await, Busy
  <2> QED BY <1>0, <1>1, <1>27, <2>1 DEF Await, Goto, Spawned, ShutdownTracks, CallbacksFollow
<1>28. ASSUME NEW c \in Conns, EndHandshake(c) PROVE ShutdownTracks'
  <2>1. running # 0
    BY <1>0, <1>1, <1>28, ZeroIsQuiet DEF EndHandshake, Busy
  <2> QED BY <1>0, <1>1, <1>28, <2>1 DEF EndHandshake, Goto, ShutdownTracks, CallbacksFollow
<1>29. ASSUME NEW c \in Conns, UntrackConn(c) PROVE ShutdownTracks'
  BY <1>0, <1>1, <1>29 DEF UntrackConn, ShutdownTracks
<1>30. ASSUME NEW c \in Conns, OnDisconnect(c) PROVE ShutdownTracks'
  <2>1. running # 0
    BY <1>0, <1>1, <1>30, ZeroIsQuiet DEF OnDisconnect, Busy, CallbacksFollow
  <2> QED BY <1>0, <1>1, <1>30, <2>1 DEF OnDisconnect, ShutdownTracks, CallbacksFollow
<1>31. ASSUME NEW c \in Conns, Expire(c) PROVE ShutdownTracks'
  BY <1>0, <1>1, <1>31 DEF Expire, MarkClosed, ShutdownTracks
<1>32. ASSUME NEW c \in Conns, CloserEnd(c) PROVE ShutdownTracks'
  BY <1>0, <1>1, <1>32 DEF CloserEnd, MarkClosed, ShutdownTracks
<1>33. ASSUME NEW c \in Conns, PeerClose(c) PROVE ShutdownTracks'
  BY <1>0, <1>1, <1>33 DEF PeerClose, MarkClosed, ShutdownTracks
<1>34. ASSUME NEW c \in Conns, RefuseReturns(c) PROVE ShutdownTracks'
  BY <1>0, <1>1, <1>34 DEF RefuseReturns, Released, Goto, Closed, ShutdownTracks
<1>35. ASSUME NEW c \in Conns, ReleaseStep(c) PROVE ShutdownTracks'
  BY <1>0, <1>1, <1>35
     DEF ReleaseStep, CloseTransport, Closed, StopTimer, RemoveRecoveryConnection,
         ShutdownTracks
<1> QED
  BY <1>2, <1>3, <1>4, <1>5, <1>6, <1>7, <1>8, <1>9, <1>10, <1>11, <1>12, <1>13, <1>14, <1>15,
     <1>16, <1>17, <1>18, <1>19, <1>20, <1>21, <1>22, <1>23, <1>24, <1>25, <1>26, <1>27,
     <1>28, <1>29, <1>30, <1>31, <1>32, <1>33, <1>34, <1>35
     DEF Next, ServeStep, HandlerStep, WaiterStep, TimerStep, ShutdownStep

(* A goroutine is counted before it starts and until it ends. *)
LEMMA NextRunning ==
    ASSUME ServerInv, Next
    PROVE  RunningExact'
<1> USE DEF serveVars, tableVars, connVars, timerVars, sessionVars, callbackVars, shutdownVars
<1>0. /\ RunningExact
      /\ HandlersFollowKinds
      /\ UnbornIsUnused
      /\ CallbacksFollow
      /\ AcceptedInOrder
  BY DEF ServerInv
<1>1. /\ running \in 0..2 * NConns
      /\ handler \in [Conns -> {"none", "hello", "attach", "respond", "move", "attached",
                              "onConnect", "refused", "track", "close", "closing",
                              "await", "leave", "end"}]
      /\ kind \in [Conns -> {"none", "v2", "new", "resume"}]
      /\ waiter \in [Conns -> {"none", "wait", "callback", "done"}]
  BY DEF ServerInv, TypeOK
<1>2. CASE Serve \/ TrackListener \/ Accept \/ AcceptError \/ Backoff \/ ServeReturn \/
           Shutdown \/ ShutdownListeners \/ ShutdownHandshake \/ ShutdownConns \/
           ShutdownReturn
  BY <1>0, <1>2
     DEF RunningExact, Handlers, Waiters, Busy, Serve, TrackListener, Accept, AcceptError,
         Backoff, ServeReturn, Shutdown, ShutdownListeners, ShutdownHandshake, ShutdownConns,
         ShutdownReturn
<1>3. CASE \E c \in Conns : ScheduleExpiry(c) \/ Fire(c) \/ ExpireCheck(c) \/ Expire(c) \/
                             CloserEnd(c) \/ Detach(c) \/ PeerClose(c)
  BY <1>0, <1>3
     DEF RunningExact, Handlers, Waiters, Busy, ScheduleExpiry, Fire, ExpireCheck, Expire,
         CloserEnd, Detach, PeerClose
<1>4. CASE BeginHandshake
  <2>1. CASE stopping
    BY <1>0, <1>4, <2>1, SameCount DEF BeginHandshake, Handlers, Waiters, Busy
  <2>2. CASE ~stopping
    <3>1. accepted \in Conns /\ accepted \notin Handlers
      BY <1>0, <1>4 DEF BeginHandshake, AcceptedInOrder, Handlers, Busy
    <3>2. Handlers' = Handlers \cup {accepted} /\ Waiters' = Waiters /\ running' = running + 1
      BY <1>1, <1>4, <2>2, <3>1 DEF BeginHandshake, Handlers, Waiters, Busy
    <3>3. Cardinality(Handlers') = Cardinality(Handlers) + 1
      BY <3>1, <3>2, CountsAreFinite, FS_AddElement
    <3> QED BY <1>0, <3>2, <3>3, CountsAreFinite DEF RunningExact
  <2> QED BY <2>1, <2>2
<1>5. ASSUME NEW c \in Conns, HandshakeError(c) PROVE RunningExact'
  <2>1. Handlers' = Handlers /\ Waiters' = Waiters /\ running' = running
    BY <1>0, <1>1, <1>5 DEF HandshakeError, Closed, Goto, Handlers, Waiters, Busy
  <2> QED BY <1>0, <2>1, SameCount
<1>6. ASSUME NEW c \in Conns, Hello(c) PROVE RunningExact'
  <2>1. Handlers' = Handlers /\ Waiters' = Waiters /\ running' = running
    BY <1>0, <1>1, <1>6 DEF Hello, Goto, Handlers, Waiters, Busy, HandlersFollowKinds
  <2> QED BY <1>0, <2>1, SameCount
<1>7. ASSUME NEW c \in Conns, AttachNew(c) PROVE RunningExact'
  <2>1. Handlers' = Handlers /\ Waiters' = Waiters /\ running' = running
    BY <1>0, <1>1, <1>7
       DEF AttachNew, Goto, Handlers, Waiters, Busy, HandlersFollowKinds, UnbornIsUnused
  <2> QED BY <1>0, <2>1, SameCount
<1>8. ASSUME NEW c \in Conns, RespondNew(c) PROVE RunningExact'
  <2>1. Handlers' = Handlers /\ Waiters' = Waiters /\ running' = running
    BY <1>0, <1>1, <1>8 DEF RespondNew, Closed, Goto, RespondForgets, Handlers, Waiters, Busy
  <2> QED BY <1>0, <2>1, SameCount
<1>9. ASSUME NEW c \in Conns, AttachResume(c) PROVE RunningExact'
  <2>1. Handlers' = Handlers /\ Waiters' = Waiters /\ running' = running
    BY <1>0, <1>1, <1>9
       DEF AttachResume, Closed, Goto, Handlers, Waiters, Busy, HandlersFollowKinds
  <2> QED BY <1>0, <2>1, SameCount
<1>10. ASSUME NEW c \in Conns, Move(c) PROVE RunningExact'
  <2>1. Handlers' = Handlers /\ Waiters' = Waiters /\ running' = running
    BY <1>0, <1>1, <1>10
       DEF Move, AfterMove, AttachTransport, Goto, Closed, Handlers, Waiters, Busy
  <2> QED BY <1>0, <2>1, SameCount
<1>11. ASSUME NEW c \in Conns, MoveEnd(c) PROVE RunningExact'
  <2>1. Handlers' = Handlers /\ Waiters' = Waiters /\ running' = running
    BY <1>0, <1>1, <1>11 DEF MoveEnd, AfterMove, OnAttached, Goto, Handlers, Waiters, Busy
  <2> QED BY <1>0, <2>1, SameCount
<1>12. ASSUME NEW c \in Conns, OnConnectAccept(c) PROVE RunningExact'
  <2>1. Handlers' = Handlers /\ Waiters' = Waiters /\ running' = running
    BY <1>0, <1>1, <1>12 DEF OnConnectAccept, Goto, Handlers, Waiters, Busy
  <2> QED BY <1>0, <2>1, SameCount
<1>13. ASSUME NEW c \in Conns, OnConnectRefuse(c) PROVE RunningExact'
  <2>1. Handlers' = Handlers /\ Waiters' = Waiters /\ running' = running
    BY <1>0, <1>1, <1>13 DEF OnConnectRefuse, Closed, MarkClosed, Goto, Handlers, Waiters, Busy
  <2> QED BY <1>0, <2>1, SameCount
<1>14. ASSUME NEW c \in Conns, CloseReturns(c) PROVE RunningExact'
  <2>1. Handlers' = Handlers /\ Waiters' = Waiters /\ running' = running
    BY <1>0, <1>1, <1>14 DEF CloseReturns, Released, Goto, Handlers, Waiters, Busy
  <2> QED BY <1>0, <2>1, SameCount
<1>15. ASSUME NEW c \in Conns, TrackConn(c) PROVE RunningExact'
  <2>1. Handlers' = Handlers /\ Waiters' = Waiters /\ running' = running
    BY <1>0, <1>1, <1>15 DEF TrackConn, Track, Goto, Handlers, Waiters, Busy
  <2> QED BY <1>0, <2>1, SameCount
<1>16. ASSUME NEW c \in Conns, CloseUntracked(c) PROVE RunningExact'
  <2>1. Handlers' = Handlers /\ Waiters' = Waiters /\ running' = running
    BY <1>0, <1>1, <1>16 DEF CloseUntracked, MarkClosed, Goto, Handlers, Waiters, Busy
  <2> QED BY <1>0, <2>1, SameCount
<1>17. ASSUME NEW c \in Conns, Await(c) PROVE RunningExact'
  <2>1. Handlers' = Handlers
    BY <1>1, <1>17 DEF Await, Goto, Handlers, Busy
  <2>2. CASE kind[c] = "new"
    <3>1. c \notin Waiters /\ Waiters' = Waiters \cup {c} /\ running' = running + 1
      BY <1>1, <1>17, <2>2 DEF Await, Spawned, Waiters
    <3>2. Cardinality(Waiters') = Cardinality(Waiters) + 1
      BY <3>1, CountsAreFinite, FS_AddElement
    <3> QED BY <1>0, <2>1, <3>1, <3>2, CountsAreFinite DEF RunningExact
  <2>3. CASE kind[c] # "new"
    BY <1>0, <1>1, <1>17, <2>1, <2>3, SameCount DEF Await, Spawned, Waiters
  <2> QED BY <2>2, <2>3
<1>18. ASSUME NEW c \in Conns, EndHandshake(c) PROVE RunningExact'
  <2>1. c \in Handlers /\ Handlers' = Handlers \ {c} /\ Waiters' = Waiters
    BY <1>1, <1>18 DEF EndHandshake, Goto, Handlers, Waiters, Busy
  <2>2. running' = running - 1
    BY <1>18 DEF EndHandshake
  <2>3. Cardinality(Handlers') = Cardinality(Handlers) - 1
    BY <2>1, CountsAreFinite, FS_RemoveElement
  <2> QED BY <1>0, <2>1, <2>2, <2>3, CountsAreFinite DEF RunningExact
<1>19. ASSUME NEW c \in Conns, UntrackConn(c) PROVE RunningExact'
  <2>1. Handlers' = Handlers /\ Waiters' = Waiters /\ running' = running
    BY <1>0, <1>1, <1>19 DEF UntrackConn, Handlers, Waiters, Busy
  <2> QED BY <1>0, <2>1, SameCount
<1>20. ASSUME NEW c \in Conns, OnDisconnect(c) PROVE RunningExact'
  <2>1. CASE kind[c] = "new"
    <3>1. c \in Waiters /\ Waiters' = Waiters \ {c} /\ running' = running - 1
      BY <1>1, <1>20, <2>1 DEF OnDisconnect, Waiters
    <3>2. Handlers' = Handlers
      BY <1>20, <2>1 DEF OnDisconnect, Handlers, Busy
    <3>3. Cardinality(Waiters') = Cardinality(Waiters) - 1
      BY <3>1, CountsAreFinite, FS_RemoveElement
    <3> QED BY <1>0, <3>1, <3>2, <3>3, CountsAreFinite DEF RunningExact
  <2>2. CASE kind[c] # "new"
    <3>1. handler[c] = "await"
      BY <1>0, <1>20, <2>2 DEF OnDisconnect, CallbacksFollow
    <3>2. Handlers' = Handlers /\ Waiters' = Waiters /\ running' = running
      BY <1>1, <1>20, <2>2, <3>1 DEF OnDisconnect, Handlers, Waiters, Busy
    <3> QED BY <1>0, <3>2, SameCount
  <2> QED BY <2>1, <2>2
<1>21. ASSUME NEW c \in Conns, RefuseReturns(c) PROVE RunningExact'
  <2>1. Handlers' = Handlers /\ Waiters' = Waiters /\ running' = running
    BY <1>0, <1>1, <1>21 DEF RefuseReturns, Released, Goto, Closed, Handlers, Waiters, Busy
  <2> QED BY <1>0, <2>1, SameCount
<1>22. ASSUME NEW c \in Conns, ReleaseStep(c) PROVE RunningExact'
  <2>1. Handlers' = Handlers /\ Waiters' = Waiters /\ running' = running
    BY <1>0, <1>1, <1>22
       DEF ReleaseStep, CloseTransport, Closed, StopTimer, RemoveRecoveryConnection, Handlers,
           Waiters, Busy
  <2> QED BY <1>0, <2>1, SameCount
<1> QED
  BY <1>2, <1>3, <1>4, <1>5, <1>6, <1>7, <1>8, <1>9, <1>10, <1>11, <1>12, <1>13, <1>14, <1>15,
     <1>16, <1>17, <1>18, <1>19, <1>20, <1>21, <1>22
     DEF Next, ServeStep, HandlerStep, WaiterStep, TimerStep, ShutdownStep

(* Types.  The bound of running is what it counts. *)
LEMMA NextTypes ==
    ASSUME ServerInv, Next, RunningExact'
    PROVE  TypeOK'
<1> USE DEF serveVars, tableVars, connVars, timerVars, sessionVars, callbackVars, shutdownVars
<1>0. TypeOK
  BY DEF ServerInv
<1>a. serve = "begin" => accepted \in Conns
  BY DEF ServerInv, AcceptedInOrder
<1>1. running' \in 0..2 * NConns
  <2>1. /\ Cardinality(Handlers') \in 0..NConns /\ Cardinality(Waiters') \in 0..NConns
    <3>1. Handlers' \subseteq Conns /\ Waiters' \subseteq Conns
      BY DEF Handlers, Waiters
    <3> QED BY <3>1, SubsetsAreFinite
  <2> QED BY <2>1, ServerAssumption DEF RunningExact
<1>2. CASE Serve
  BY <1>0, <1>1, <1>2 DEF Serve, TypeOK
<1>3. CASE TrackListener
  BY <1>0, <1>1, <1>3 DEF TrackListener, TypeOK
<1>4. CASE Accept
  <2>1. /\ serve \in {"idle", "listen", "accept", "begin", "backoff", "leave", "done"}
        /\ accepted \in 0..NConns
        /\ live \in [Conns -> BOOLEAN]
    BY <1>0 DEF TypeOK
  <2>2. serve' \in {"idle", "listen", "accept", "begin", "backoff", "leave", "done"}
    BY <1>4, <2>1, ServerAssumption DEF Accept
  <2>3. accepted' \in 0..NConns
    BY <1>4, <2>1, ServerAssumption DEF Accept
  <2>4. live' \in [Conns -> BOOLEAN]
    BY <1>4, <2>1, ServerAssumption DEF Accept
  <2> QED
    BY <1>0, <1>1, <1>4, <2>2, <2>3, <2>4, <2>1 DEF Accept, TypeOK
<1>5. CASE AcceptError
  BY <1>0, <1>1, <1>5 DEF AcceptError, TypeOK
<1>6. CASE Backoff
  BY <1>0, <1>1, <1>6 DEF Backoff, TypeOK
<1>7. CASE BeginHandshake
  <2>1. /\ accepted \in 0..NConns
        /\ serve \in {"idle", "listen", "accept", "begin", "backoff", "leave", "done"}
        /\ handshakes \subseteq Conns
        /\ handler \in [Conns -> {"none", "hello", "attach", "respond", "move", "attached",
                              "onConnect", "refused", "track", "close", "closing",
                              "await", "leave", "end"}]
        /\ live \in [Conns -> BOOLEAN]
    BY <1>0 DEF TypeOK
  <2>2. serve' \in {"idle", "listen", "accept", "begin", "backoff", "leave", "done"}
    BY <1>7, <2>1, <1>a DEF BeginHandshake
  <2>3. handshakes' \subseteq Conns
    BY <1>7, <2>1, <1>a DEF BeginHandshake
  <2>4. handler' \in [Conns -> {"none", "hello", "attach", "respond", "move", "attached",
                              "onConnect", "refused", "track", "close", "closing",
                              "await", "leave", "end"}]
    BY <1>7, <2>1, <1>a DEF BeginHandshake
  <2>5. live' \in [Conns -> BOOLEAN]
    BY <1>7, <2>1, <1>a DEF BeginHandshake
  <2> QED
    BY <1>0, <1>1, <1>7, <2>2, <2>3, <2>4, <2>5 DEF BeginHandshake, TypeOK
<1>8. CASE ServeReturn
  BY <1>0, <1>1, <1>8 DEF ServeReturn, TypeOK
<1>9. CASE Shutdown
  BY <1>0, <1>1, <1>9 DEF Shutdown, TypeOK
<1>10. CASE ShutdownListeners
  BY <1>0, <1>1, <1>10 DEF ShutdownListeners, TypeOK
<1>11. CASE ShutdownHandshake
  BY <1>0, <1>1, <1>11 DEF ShutdownHandshake, Closed, TypeOK
<1>12. CASE ShutdownConns
  BY <1>0, <1>1, <1>12 DEF ShutdownConns, SpawnClosers, TypeOK
<1>13. CASE ShutdownReturn
  BY <1>0, <1>1, <1>13 DEF ShutdownReturn, AllDone, TypeOK
<1>14. ASSUME NEW c \in Conns, HandshakeError(c) PROVE TypeOK'
  BY <1>0, <1>1, <1>14 DEF HandshakeError, Closed, Goto, TypeOK
<1>15. ASSUME NEW c \in Conns, Hello(c) PROVE TypeOK'
  <2>1. /\ handler \in [Conns -> {"none", "hello", "attach", "respond", "move", "attached",
                              "onConnect", "refused", "track", "close", "closing",
                              "await", "leave", "end"}]
        /\ kind \in [Conns -> {"none", "v2", "new", "resume"}]
        /\ transport \in [Conns -> Conns \cup {None}]
    BY <1>0 DEF TypeOK
  <2>2. handler' \in [Conns -> {"none", "hello", "attach", "respond", "move", "attached",
                              "onConnect", "refused", "track", "close", "closing",
                              "await", "leave", "end"}]
    BY <1>15, <2>1 DEF Hello, Goto
  <2>3. kind' \in [Conns -> {"none", "v2", "new", "resume"}]
    BY <1>15, <2>1 DEF Hello, Goto
  <2>4. transport' \in [Conns -> Conns \cup {None}]
    BY <1>15, <2>1 DEF Hello, Goto
  <2> QED
    BY <1>0, <1>1, <1>15, <2>2, <2>3, <2>4 DEF Hello, TypeOK
<1>16. ASSUME NEW c \in Conns, AttachNew(c) PROVE TypeOK'
  BY <1>0, <1>1, <1>16 DEF AttachNew, Goto, TypeOK
<1>17. ASSUME NEW c \in Conns, RespondNew(c) PROVE TypeOK'
  <2>1. /\ recoveryConns \subseteq Conns
        /\ handler \in [Conns -> {"none", "hello", "attach", "respond", "move", "attached",
                              "onConnect", "refused", "track", "close", "closing",
                              "await", "leave", "end"}]
        /\ live \in [Conns -> BOOLEAN]
    BY <1>0 DEF TypeOK
  <2>2. recoveryConns' \subseteq Conns
    BY <1>17, <2>1 DEF RespondNew, Closed, Goto, RespondForgets
  <2>3. handler' \in [Conns -> {"none", "hello", "attach", "respond", "move", "attached",
                              "onConnect", "refused", "track", "close", "closing",
                              "await", "leave", "end"}]
    BY <1>17, <2>1 DEF RespondNew, Closed, Goto, RespondForgets
  <2>4. live' \in [Conns -> BOOLEAN]
    BY <1>17, <2>1 DEF RespondNew, Closed, Goto, RespondForgets
  <2> QED
    BY <1>0, <1>1, <1>17, <2>2, <2>3, <2>4 DEF RespondNew, TypeOK
<1>18. ASSUME NEW c \in Conns, AttachResume(c) PROVE TypeOK'
  <2>1. /\ handler \in [Conns -> {"none", "hello", "attach", "respond", "move", "attached",
                              "onConnect", "refused", "track", "close", "closing",
                              "await", "leave", "end"}]
        /\ kind \in [Conns -> {"none", "v2", "new", "resume"}]
        /\ target \in [Conns -> Conns]
        /\ live \in [Conns -> BOOLEAN]
    BY <1>0 DEF TypeOK
  <2>2. handler' \in [Conns -> {"none", "hello", "attach", "respond", "move", "attached",
                              "onConnect", "refused", "track", "close", "closing",
                              "await", "leave", "end"}]
    BY <1>18, <2>1 DEF AttachResume, Closed, Goto
  <2>3. kind' \in [Conns -> {"none", "v2", "new", "resume"}]
    BY <1>18, <2>1 DEF AttachResume, Closed, Goto
  <2>4. target' \in [Conns -> Conns]
    BY <1>18, <2>1 DEF AttachResume, Closed, Goto
  <2>5. live' \in [Conns -> BOOLEAN]
    <3>1. live' = live \/ live' = Closed({c})
      BY <1>18 DEF AttachResume
    <3> QED BY <2>1, <3>1 DEF Closed
  <2> QED
    BY <1>0, <1>1, <1>18, <2>2, <2>3, <2>4, <2>5 DEF AttachResume, TypeOK
<1>19. ASSUME NEW c \in Conns, Move(c) PROVE TypeOK'
  <2>1. /\ target \in [Conns -> Conns]
        /\ handler \in [Conns -> {"none", "hello", "attach", "respond", "move", "attached",
                              "onConnect", "refused", "track", "close", "closing",
                              "await", "leave", "end"}]
        /\ live \in [Conns -> BOOLEAN]
        /\ transport \in [Conns -> Conns \cup {None}]
    BY <1>0 DEF TypeOK
  <2>2. handler' \in [Conns -> {"none", "hello", "attach", "respond", "move", "attached",
                              "onConnect", "refused", "track", "close", "closing",
                              "await", "leave", "end"}]
    BY <1>19, <2>1 DEF Move, AfterMove, AttachTransport, Goto, Closed
  <2>3. live' \in [Conns -> BOOLEAN]
    BY <1>19, <2>1 DEF Move, AfterMove, AttachTransport, Goto, Closed
  <2>4. transport' \in [Conns -> Conns \cup {None}]
    BY <1>19, <2>1 DEF Move, AfterMove, AttachTransport, Goto, Closed
  <2> QED
    BY <1>0, <1>1, <1>19, <2>2, <2>3, <2>4 DEF Move, TypeOK
<1>20. ASSUME NEW c \in Conns, MoveEnd(c) PROVE TypeOK'
  BY <1>0, <1>1, <1>20 DEF MoveEnd, AfterMove, OnAttached, Goto, TypeOK
<1>21. ASSUME NEW c \in Conns, OnConnectAccept(c) PROVE TypeOK'
  <2>1. connects[c] = 0
    BY <1>21 DEF OnConnectAccept, ServerInv, CallbacksFollow
  <2> QED BY <1>0, <1>1, <1>21, <2>1 DEF OnConnectAccept, Goto, TypeOK
<1>22. ASSUME NEW c \in Conns, OnConnectRefuse(c) PROVE TypeOK'
  <2>1. /\ handler \in [Conns -> {"none", "hello", "attach", "respond", "move", "attached",
                              "onConnect", "refused", "track", "close", "closing",
                              "await", "leave", "end"}]
        /\ live \in [Conns -> BOOLEAN]
        /\ closed \in [Conns -> BOOLEAN]
        /\ release \in [Conns -> {"none", "transport", "timer", "table"}]
        /\ transport \in [Conns -> Conns \cup {None}]
    BY <1>0 DEF TypeOK
  <2>2. closed' \in [Conns -> BOOLEAN]
    BY <1>22, <2>1 DEF OnConnectRefuse, MarkClosed
  <2>3. handler' \in [Conns -> {"none", "hello", "attach", "respond", "move", "attached",
                              "onConnect", "refused", "track", "close", "closing",
                              "await", "leave", "end"}]
    BY <1>22, <2>1 DEF OnConnectRefuse, Goto
  <2>4. live' \in [Conns -> BOOLEAN]
    BY <1>22, <2>1 DEF OnConnectRefuse, Closed
  <2>5. release' \in [Conns -> {"none", "transport", "timer", "table"}]
    BY <1>22, <2>1 DEF OnConnectRefuse, MarkClosed
  <2>6. transport' \in [Conns -> Conns \cup {None}]
    BY <1>22, <2>1 DEF OnConnectRefuse
  <2> QED
    BY <1>0, <1>1, <1>22, <2>2, <2>3, <2>4, <2>5, <2>6 DEF OnConnectRefuse, TypeOK
<1>23. ASSUME NEW c \in Conns, CloseReturns(c) PROVE TypeOK'
  BY <1>0, <1>1, <1>23 DEF CloseReturns, Released, Goto, TypeOK
<1>24. ASSUME NEW c \in Conns, TrackConn(c) PROVE TypeOK'
  <2>1. /\ handshakes \subseteq Conns
        /\ conns \subseteq Conns
        /\ handler \in [Conns -> {"none", "hello", "attach", "respond", "move", "attached",
                              "onConnect", "refused", "track", "close", "closing",
                              "await", "leave", "end"}]
    BY <1>0 DEF TypeOK
  <2>2. handshakes' \subseteq Conns
    BY <1>24, <2>1 DEF TrackConn, Track, Goto
  <2>3. conns' \subseteq Conns
    BY <1>24, <2>1 DEF TrackConn, Track, Goto
  <2>4. handler' \in [Conns -> {"none", "hello", "attach", "respond", "move", "attached",
                              "onConnect", "refused", "track", "close", "closing",
                              "await", "leave", "end"}]
    BY <1>24, <2>1 DEF TrackConn, Track, Goto
  <2> QED
    BY <1>0, <1>1, <1>24, <2>2, <2>3, <2>4 DEF TrackConn, TypeOK
<1>25. ASSUME NEW c \in Conns, CloseUntracked(c) PROVE TypeOK'
  BY <1>0, <1>1, <1>25 DEF CloseUntracked, MarkClosed, Goto, TypeOK
<1>26. ASSUME NEW c \in Conns, Await(c) PROVE TypeOK'
  BY <1>0, <1>1, <1>26 DEF Await, Goto, Spawned, TypeOK
<1>27. ASSUME NEW c \in Conns, EndHandshake(c) PROVE TypeOK'
  BY <1>0, <1>1, <1>27 DEF EndHandshake, Goto, TypeOK
<1>28. ASSUME NEW c \in Conns, UntrackConn(c) PROVE TypeOK'
  BY <1>0, <1>1, <1>28 DEF UntrackConn, TypeOK
<1>29. ASSUME NEW c \in Conns, OnDisconnect(c) PROVE TypeOK'
  <2>1. disconnects[c] = 0
    BY <1>29 DEF OnDisconnect, ServerInv, CallbacksFollow
  <2> QED BY <1>0, <1>1, <1>29, <2>1 DEF OnDisconnect, TypeOK
<1>30. ASSUME NEW c \in Conns, ScheduleExpiry(c) PROVE TypeOK'
  BY <1>0, <1>1, <1>30 DEF ScheduleExpiry, TypeOK
<1>31. ASSUME NEW c \in Conns, Fire(c) PROVE TypeOK'
  BY <1>0, <1>1, <1>31 DEF Fire, TypeOK
<1>32. ASSUME NEW c \in Conns, ExpireCheck(c) PROVE TypeOK'
  BY <1>0, <1>1, <1>32 DEF ExpireCheck, ExpiryCheck, TypeOK
<1>33. ASSUME NEW c \in Conns, Expire(c) PROVE TypeOK'
  <2>1. /\ closed \in [Conns -> BOOLEAN] /\ expiring \in [Conns -> Nat]
        /\ release \in [Conns -> {"none", "transport", "timer", "table"}]
    BY <1>0 DEF TypeOK
  <2>2. closed' \in [Conns -> BOOLEAN]
    BY <1>33, <2>1 DEF Expire, MarkClosed
  <2>3. release' \in [Conns -> {"none", "transport", "timer", "table"}]
    BY <1>33, <2>1 DEF Expire, MarkClosed
  <2>4. expiring' \in [Conns -> Nat]
    BY <1>33, <2>1 DEF Expire
  <2> QED BY <1>0, <1>1, <1>33, <2>2, <2>3, <2>4, ZenonT(60) DEF Expire, TypeOK
<1>34. ASSUME NEW c \in Conns, CloserEnd(c) PROVE TypeOK'
  BY <1>0, <1>1, <1>34, ZenonT(60) DEF CloserEnd, MarkClosed, TypeOK
<1>35. ASSUME NEW c \in Conns, Detach(c) PROVE TypeOK'
  BY <1>0, <1>1, <1>35 DEF Detach, Closed, TypeOK
<1>36. ASSUME NEW c \in Conns, PeerClose(c) PROVE TypeOK'
  BY <1>0, <1>1, <1>36, ZenonT(60) DEF PeerClose, MarkClosed, TypeOK
<1>37. ASSUME NEW c \in Conns, RefuseReturns(c) PROVE TypeOK'
  BY <1>0, <1>1, <1>37 DEF RefuseReturns, Released, Goto, Closed, TypeOK
<1>38. ASSUME NEW c \in Conns, CloseTransport(c) PROVE TypeOK'
  BY <1>0, <1>1, <1>38 DEF CloseTransport, Closed, TypeOK
<1>39. ASSUME NEW c \in Conns, StopTimer(c) PROVE TypeOK'
  BY <1>0, <1>1, <1>39 DEF StopTimer, TypeOK
<1>40. ASSUME NEW c \in Conns, RemoveRecoveryConnection(c) PROVE TypeOK'
  BY <1>0, <1>1, <1>40 DEF RemoveRecoveryConnection, TypeOK
<1> QED
  BY <1>2, <1>3, <1>4, <1>5, <1>6, <1>7, <1>8, <1>9, <1>10, <1>11, <1>12, <1>13, <1>14, <1>15,
     <1>16, <1>17, <1>18, <1>19, <1>20, <1>21, <1>22, <1>23, <1>24, <1>25, <1>26, <1>27,
     <1>28, <1>29, <1>30, <1>31, <1>32, <1>33, <1>34, <1>35, <1>36, <1>37, <1>38,
     <1>39, <1>40
     DEF Next, ServeStep, HandlerStep, WaiterStep, TimerStep, ShutdownStep, ReleaseStep

-----------------------------------------------------------------------------
(* Before Serve there is no conn, no connection and no goroutine. *)
LEMMA InitServer == Init => ServerInv
<1> SUFFICES ASSUME Init PROVE ServerInv
  OBVIOUS
<1>1. TypeOK
  <2>1. accepted \in 0..NConns /\ running \in 0..2 * NConns
    BY ServerAssumption DEF Init
  <2>2. target \in [Conns -> Conns] /\ transport \in [Conns -> Conns \cup {None}]
    BY DEF Init
  <2>3. /\ connects \in [Conns -> 0..1] /\ disconnects \in [Conns -> 0..1]
        /\ timer \in [Conns -> BOOLEAN]
        /\ schedule \in [Conns -> Nat] /\ fired \in [Conns -> Nat]
        /\ expiring \in [Conns -> Nat]
    BY DEF Init
  <2> QED BY <2>1, <2>2, <2>3 DEF Init, TypeOK
<1>2. Handlers = {} /\ Waiters = {}
  BY DEF Init, Handlers, Waiters, Busy
<1>3. RunningExact
  BY <1>2, FS_EmptySet DEF Init, RunningExact
<1>4. HandlersFollowKinds /\ TargetsAreTold /\ UnbornIsUnused /\ CallbacksFollow
  BY DEF Init, HandlersFollowKinds, TargetsAreTold, UnbornIsUnused, CallbacksFollow
<1>5. TablesAreServed /\ StoredIsServed /\ AcceptedInOrder /\ TransportsFollow
  BY DEF Init, TablesAreServed, StoredIsServed, AcceptedInOrder, TransportsFollow
<1>6. ConnsAreHeld /\ ShutdownTracks
  BY DEF Init, ConnsAreHeld, ShutdownTracks
<1>7. TransportsServed
  BY DEF Init, TransportsServed, Conns, None
<1> QED BY <1>1, <1>3, <1>4, <1>5, <1>6, <1>7 DEF ServerInv

(* Nothing changes in a step that changes no variable. *)
LEMMA StutterServer == ServerInv /\ UNCHANGED vars => ServerInv'
<1> SUFFICES ASSUME ServerInv, UNCHANGED vars PROVE ServerInv'
  OBVIOUS
<1> USE DEF vars, serveVars, tableVars, connVars, timerVars, sessionVars, callbackVars, shutdownVars
<1>1. TypeOK'
  BY DEF ServerInv, TypeOK
<1>2. (HandlersFollowKinds /\ TargetsAreTold /\ UnbornIsUnused /\ CallbacksFollow)'
  BY DEF ServerInv, HandlersFollowKinds, TargetsAreTold, UnbornIsUnused, CallbacksFollow, Told
<1>3. (TablesAreServed /\ StoredIsServed /\ AcceptedInOrder /\ TransportsFollow)'
  BY DEF ServerInv, TablesAreServed, StoredIsServed, AcceptedInOrder, TransportsFollow, Busy
<1>4. (ConnsAreHeld /\ TransportsServed /\ ShutdownTracks)'
  BY DEF ServerInv, ConnsAreHeld, Held, TransportsServed, Served, ShutdownTracks
<1>5. RunningExact'
  BY SameCount DEF ServerInv, Handlers, Waiters, Busy
<1> QED BY <1>1, <1>2, <1>3, <1>4, <1>5 DEF ServerInv

(* The inductive invariant holds: every part of it is kept by every step   *)
(* of Serve, the handlers, the timers and Shutdown.                        *)
THEOREM ServerInvHolds == Spec => []ServerInv
<1>1. ServerInv /\ [Next]_vars => ServerInv'
  <2>1. ASSUME ServerInv, Next PROVE ServerInv'
    BY <2>1, NextKinds, NextTargets, NextUnborn, NextCallbacks, NextTables, NextStored,
       NextAccepted, NextTransports, NextHeld, NextServed, NextShutdown, NextRunning, NextTypes
       DEF ServerInv
  <2> QED BY <2>1, StutterServer
<1> QED BY <1>1, InitServer, PTL DEF Spec

(* Every variable keeps its type; running never counts more than a handler *)
(* and an awaitClose per conn, and never becomes negative.                 *)
THEOREM ServerTypesHold == Spec => []TypeOK
<1>1. ServerInv => TypeOK
  BY DEF ServerInv
<1> QED BY <1>1, ServerInvHolds, PTL

(* A conn that the server has not closed is about to be refused by Serve,  *)
(* in the hands of its handler, or the transport of a connection, and if   *)
(* that is closed its closeTransport is still to come: no order of         *)
(* accepts, attaches, resumes, closes, expiries and Shutdown leaks one.    *)
THEOREM OpenConnsAreOwnedHolds == Spec => []OpenConnsAreOwned
<1>1. ServerInv => OpenConnsAreOwned
  <2> SUFFICES ASSUME ServerInv PROVE OpenConnsAreOwned
    OBVIOUS
  <2>1. ConnsAreHeld /\ TransportsFollow
    BY DEF ServerInv
  <2>2. \A c \in Conns : handler[c] \in {"hello", "attach", "move"} => Busy(c)
    BY DEF Busy
  <2> QED BY <2>1, <2>2 DEF ConnsAreHeld, Held, TransportsFollow, OpenConnsAreOwned
<1> QED BY <1>1, ServerInvHolds, PTL

(* A recovery connection that a resume can find is about to be removed by  *)
(* its markClosed, or it is open and has a handler that will finish it or  *)
(* an awaitClose.                                                          *)
THEOREM StoredIsServedHolds == Spec => []StoredIsServed
<1>1. ServerInv => StoredIsServed
  BY DEF ServerInv
<1> QED BY <1>1, ServerInvHolds, PTL

(* Once Shutdown waits, every started connection is closed, has a closer   *)
(* or a handler that closes it.                                            *)
THEOREM NobodyEscapesShutdownHolds == Spec => []NobodyEscapesShutdown
<1>1. ServerInv => NobodyEscapesShutdown
  <2>1. ServerInv => ShutdownTracks
    BY DEF ServerInv
  <2> QED BY <2>1 DEF ShutdownTracks, NobodyEscapesShutdown
<1> QED BY <1>1, ServerInvHolds, PTL

(* When Shutdown has returned nil no handler and no awaitClose is left,    *)
(* since running is exact; so every connection is closed, and an entry or  *)
(* a conn that is left belongs to one whose markClosed has not got that    *)
(* far.                                                                    *)
THEOREM ShutdownCompleteHolds == Spec => []ShutdownComplete
<1>1. ServerInv => ShutdownComplete
  <2> SUFFICES ASSUME ServerInv, shutdown = "nil" PROVE ShutdownComplete
    BY DEF ShutdownComplete
  <2>1. running = 0 /\ RunningExact
    BY DEF ServerInv, ShutdownTracks
  <2>2. \A c \in Conns : ~Busy(c) /\ ~(kind[c] = "new" /\ waiter[c] \in {"wait", "callback"})
    BY <2>1, ZeroIsQuiet
  <2>3. /\ handshakes \subseteq Conns /\ conns \subseteq Conns /\ recoveryConns \subseteq Conns
        /\ waiter \in [Conns -> {"none", "wait", "callback", "done"}]
    BY DEF ServerInv, TypeOK
  <2>4. \A c \in Conns : waiter[c] \in {"none", "done"}
    BY <2>2, <2>3 DEF ServerInv, CallbacksFollow, Busy
  <2>5. handshakes = {} /\ conns = {}
    BY <2>2, <2>3, <2>4 DEF ServerInv, TablesAreServed, Busy
  <2>6. \A c \in Conns : connects[c] = disconnects[c] /\ (started[c] => closed[c])
    BY <2>2, <2>4 DEF ServerInv, CallbacksFollow, Busy
  <2>7. \A s \in recoveryConns : closed[s] /\ release[s] # "none"
    BY <2>2, <2>3, <2>4 DEF ServerInv, StoredIsServed
  <2>8. ASSUME NEW c \in Conns, live[c]
        PROVE  \/ c = accepted /\ serve = "begin"
               \/ \E s \in Conns : transport[s] = c /\ release[s] = "transport"
    <3>1. Held(c) /\ handler[c] \notin {"hello", "attach", "move"}
      BY <2>2, <2>8 DEF ServerInv, ConnsAreHeld, Busy
    <3>2. ASSUME NEW s \in Conns, transport[s] = c PROVE release[s] = "transport"
      <4>1. Served(s)
        BY <2>8, <3>2 DEF ServerInv, TransportsServed
      <4>2. closed[s]
        BY <2>2, <2>6, <4>1 DEF Served, Busy
      <4>3. c # None
        BY DEF Conns, None
      <4> QED BY <3>2, <4>2, <4>3 DEF ServerInv, TransportsFollow
    <3> QED BY <3>1, <3>2 DEF Held
  <2> QED BY <2>1, <2>2, <2>5, <2>6, <2>7, <2>8 DEF ShutdownComplete
<1> QED BY <1>1, ServerInvHolds, PTL
=============================================================================
