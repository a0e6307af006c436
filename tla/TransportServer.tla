-------------------------- MODULE TransportServer --------------------------
(***************************************************************************)
(* The TCP server of the plugin: Server, ConnectionManager and Connection. *)
(*                                                                         *)
(* The io thread runs one completion handler at a time, each with the      *)
(* result its operation had when it completed.  The owner runs the server  *)
(* and shuts it down.  Peers connect, send, fall silent and leave as they  *)
(* like.                                                                   *)
(*                                                                         *)
(* Three mutexes.  Server::m_mutex and ConnectionManager::m_mutex are held *)
(* by the owner while it stops all connections (owner = "stopping"), and   *)
(* else only within one action.  A connection's m_bufferMutex is held by   *)
(* the io thread during the callback, which may take long, and else only   *)
(* within one action.                                                      *)
(*                                                                         *)
(* A peer connects once.  The message is all that is in the buffer when a  *)
(* read completes: anything that is neither a handshake nor the end of the *)
(* session is a "request".                                                 *)
(***************************************************************************)
EXTENDS Naturals

CONSTANTS
  Peer,       \* the clients that may connect
  NoPeer,
  MaxRuns     \* bound: calls of Server::run in one behaviour

ASSUME NoPeerAssumption == NoPeer \notin Peer
ASSUME MaxRunsAssumption == MaxRuns \in Nat

VARIABLES
  running,      \* m_running
  listening,    \* m_acceptor is open
  accept,       \* the accept operation: "none", "pending", "ready" or "failed"
  socket,       \* the peer m_socket is connected to, or NoPeer
  members,      \* ConnectionManager::m_connections, by peer
  open,         \* the peers whose connection's m_socket is open
  op,           \* the connection's operation: "none", "handshake", "read", "write"
  result,       \* "pending", the message read, "written" or "error"
  timer,        \* the handshake timer's wait: "off", "armed" or "ready"
  io,           \* the handler the io thread is in
  owner,        \* the owner's thread: "idle", or in shutdown "stopping", "joining"
  peer,         \* "away", "waiting" to be accepted, or "connected"
  shaken,       \* records the peers whose handshake was accepted
  runs          \* calls of Server::run

acceptVars == <<listening, accept, socket>>
connVars == <<members, open, op, result, timer>>
vars == <<running, acceptVars, connVars, io, owner, peer, shaken, runs>>

Message == {"handshake", "request", "end"}

\* The io thread is not started or has returned; waits in io_service::run; or
\* is about to accept again, to erase a connection and close it, or to return
\* from the callback.
Handler(pc, p) == [pc |-> pc, peer |-> p]
Off == Handler("off", NoPeer)
Idle == Handler("idle", NoPeer)
Rearm == Handler("rearm", NoPeer)
Handlers ==
  {Off, Idle, Rearm} \cup
  [pc : {"erase", "close", "callback"}, peer : Peer]

TypeOK ==
  /\ running \in BOOLEAN
  /\ listening \in BOOLEAN
  /\ accept \in {"none", "pending", "ready", "failed"}
  /\ socket \in Peer \cup {NoPeer}
  /\ members \subseteq Peer
  /\ open \subseteq Peer
  /\ op \in [Peer -> {"none", "handshake", "read", "write"}]
  /\ result \in [Peer -> Message \cup {"pending", "written", "error"}]
  /\ timer \in [Peer -> {"off", "armed", "ready"}]
  /\ io \in Handlers
  /\ owner \in {"idle", "stopping", "joining"}
  /\ peer \in [Peer -> {"away", "waiting", "connected"}]
  /\ shaken \subseteq Peer
  /\ runs \in 0 .. MaxRuns

Init ==
  /\ running = FALSE
  /\ listening = TRUE
  /\ accept = "none"
  /\ socket = NoPeer
  /\ members = {}
  /\ open = {}
  /\ op = [p \in Peer |-> "none"]
  /\ result = [p \in Peer |-> "pending"]
  /\ timer = [p \in Peer |-> "off"]
  /\ io = Off
  /\ owner = "idle"
  /\ peer = [p \in Peer |-> "away"]
  /\ shaken = {}
  /\ runs = 0

-----------------------------------------------------------------------------
\* An accept operation starts; on a closed acceptor it fails at once.
StartAccept == accept' = IF listening THEN "pending" ELSE "failed"

\* An operation starts; on a closed socket it fails at once.
StartOp(p, kind) ==
  /\ op' = [op EXCEPT ![p] = kind]
  /\ result' = [result EXCEPT ![p] = IF p \in open THEN "pending" ELSE "error"]

EndOp(p) ==
  /\ op' = [op EXCEPT ![p] = "none"]
  /\ result' = [result EXCEPT ![p] = "pending"]

\* Connection::stop: closing the socket aborts the operation on it.
CloseSocket(p) ==
  /\ open' = open \ {p}
  /\ result' = [result EXCEPT ![p] =
                  IF op[p] # "none" /\ @ = "pending" THEN "error" ELSE @]

-----------------------------------------------------------------------------
(* The owner. *)

\* Server::run.
Run ==
  /\ owner = "idle" /\ ~running
  /\ runs < MaxRuns
  /\ runs' = runs + 1
  /\ running' = TRUE
  /\ io' = Idle
  /\ StartAccept
  /\ UNCHANGED <<listening, socket, connVars, owner, peer, shaken>>

\* Server::shutdown closes the acceptor; who waits for it is turned away.
Shutdown ==
  /\ owner = "idle" /\ running
  /\ owner' = "stopping"
  /\ listening' = FALSE
  /\ accept' = IF accept = "pending" THEN "failed" ELSE accept
  /\ peer' = [p \in Peer |-> IF peer[p] = "waiting" THEN "away" ELSE peer[p]]
  /\ UNCHANGED <<running, socket, connVars, io, shaken, runs>>

\* ConnectionManager::stopAll: one connection after the other ...
StopOne(p) ==
  /\ owner = "stopping"
  /\ p \in members \cap open
  /\ io # Handler("callback", p)
  /\ CloseSocket(p)
  /\ UNCHANGED <<running, acceptVars, members, op, timer, io, owner, peer,
                 shaken, runs>>

\* ... then the container is cleared, and both mutexes are released.
StopAllReturns ==
  /\ owner = "stopping"
  /\ members \cap open = {}
  /\ members' = {}
  /\ owner' = "joining"
  /\ UNCHANGED <<running, acceptVars, open, op, result, timer, io, peer,
                 shaken, runs>>

\* m_runResult.get.
Join ==
  /\ owner = "joining"
  /\ io = Off
  /\ owner' = "idle"
  /\ running' = FALSE
  /\ UNCHANGED <<acceptVars, connVars, io, peer, shaken, runs>>

Owner == (\E p \in Peer : StopOne(p)) \/ StopAllReturns \/ Join

-----------------------------------------------------------------------------
(* The io thread. *)

\* ConnectionManager::start, with the socket that has been accepted.
StartConnection(p) ==
  /\ members' = members \cup {p}
  /\ open' = open \cup {p}
  /\ op' = [op EXCEPT ![p] = "handshake"]
  /\ result' = [result EXCEPT ![p] = "pending"]
  /\ timer' = [timer EXCEPT ![p] = "armed"]
  /\ socket' = NoPeer

\* Faulty variant: the acceptor is not checked.
MayStartUnchecked == accept = "ready"

\* Faulty variant: the error code is not checked.
MayStartIgnoresError == listening

\* What the handler of async_accept checks under m_mutex.
MayStart == listening /\ accept = "ready"

\* Faulty variant: an accept that failed is not repeated.
AcceptsAgainOnSuccess == listening /\ accept = "ready"

AcceptsAgain == listening

\* The handler of async_accept: under m_mutex, unless the acceptor is closed, it
\* starts the connection; then it goes on to accept.
AcceptHandler ==
  /\ io = Idle /\ accept \in {"ready", "failed"}
  /\ owner # "stopping"
  /\ accept' = "none"
  /\ io' = IF AcceptsAgain THEN Rearm ELSE Idle
  /\ IF MayStart THEN StartConnection(socket) ELSE UNCHANGED <<connVars, socket>>
  /\ UNCHANGED <<running, listening, owner, peer, shaken, runs>>

\* Out of the lock, it waits for the next peer.
WaitAccept ==
  /\ io = Rearm
  /\ io' = Idle
  /\ StartAccept
  /\ UNCHANGED <<running, listening, socket, connVars, owner, peer, shaken, runs>>

\* cancel revokes a wait that is armed, not one that is ready.
Cancelled(p) == [timer EXCEPT ![p] = IF @ = "armed" THEN "off" ELSE @]

\* Faulty variant: the timer is cancelled also when the read has failed.
HandshakeHandlerCancels(p) ==
  /\ io = Idle /\ op[p] = "handshake" /\ result[p] # "pending"
  /\ timer' = Cancelled(p)
  /\ IF result[p] = "handshake"
       THEN StartOp(p, "write") /\ shaken' = shaken \cup {p} /\ UNCHANGED io
       ELSE /\ EndOp(p)
            /\ io' = IF result[p] = "error" THEN io ELSE Handler("erase", p)
            /\ UNCHANGED shaken
  /\ UNCHANGED <<running, acceptVars, members, open, owner, peer, runs>>

\* Faulty variant: the reply is sent and the connection served in any case.
HandshakeHandlerAccepts(p) ==
  /\ io = Idle /\ op[p] = "handshake" /\ result[p] # "pending"
  /\ timer' = IF result[p] = "error" THEN timer ELSE Cancelled(p)
  /\ IF result[p] # "error" THEN StartOp(p, "write") ELSE EndOp(p)
  /\ shaken' = IF result[p] = "handshake" THEN shaken \cup {p} ELSE shaken
  /\ UNCHANGED <<running, acceptVars, members, open, io, owner, peer, runs>>

\* The handler of doHandshake's read.  If the read failed it does nothing: the
\* timer is left to stop the connection.
HandshakeHandler(p) ==
  /\ io = Idle /\ op[p] = "handshake" /\ result[p] # "pending"
  /\ timer' = IF result[p] = "error" THEN timer ELSE Cancelled(p)
  /\ IF result[p] = "handshake"
       THEN StartOp(p, "write") /\ shaken' = shaken \cup {p} /\ UNCHANGED io
       ELSE /\ EndOp(p)
            /\ io' = IF result[p] = "error" THEN io ELSE Handler("erase", p)
            /\ UNCHANGED shaken
  /\ UNCHANGED <<running, acceptVars, members, open, owner, peer, runs>>

\* The handler of the handshake timer.
TimerHandler(p) ==
  /\ io = Idle /\ timer[p] = "ready"
  /\ timer' = [timer EXCEPT ![p] = "off"]
  /\ io' = Handler("erase", p)
  /\ UNCHANGED <<running, acceptVars, members, open, op, result, owner, peer,
                 shaken, runs>>

\* The handler of doRead.
ReadHandler(p) ==
  /\ io = Idle /\ op[p] = "read" /\ result[p] # "pending"
  /\ EndOp(p)
  /\ io' = CASE result[p] = "error" -> Idle
             [] result[p] = "end"   -> Handler("erase", p)
             [] OTHER               -> Handler("callback", p)
  /\ UNCHANGED <<running, acceptVars, members, open, timer, owner, peer,
                 shaken, runs>>

\* The callback has handled the message, and the reply is written ...
CallbackReturns(p) ==
  /\ io = Handler("callback", p)
  /\ io' = Idle
  /\ StartOp(p, "write")
  /\ UNCHANGED <<running, acceptVars, members, open, timer, owner, peer,
                 shaken, runs>>

\* ... or it throws, which ends the handler but not the io thread.
CallbackThrows(p) ==
  /\ io = Handler("callback", p)
  /\ io' = Idle
  /\ UNCHANGED <<running, acceptVars, connVars, owner, peer, shaken, runs>>

\* The handler of doWrite: it reads on, unless the write failed.
WriteHandler(p) ==
  /\ io = Idle /\ op[p] = "write" /\ result[p] # "pending"
  /\ IF result[p] = "error" THEN EndOp(p) ELSE StartOp(p, "read")
  /\ UNCHANGED <<running, acceptVars, members, open, timer, io, owner, peer,
                 shaken, runs>>

\* ConnectionManager::stop erases the connection under its mutex ...
Erase(p) ==
  /\ io = Handler("erase", p)
  /\ owner # "stopping"
  /\ members' = members \ {p}
  /\ io' = Handler("close", p)
  /\ UNCHANGED <<running, acceptVars, open, op, result, timer, owner, peer,
                 shaken, runs>>

\* Faulty variant: the connection is erased and its socket left open.
CloseForgotten(p) ==
  /\ io = Handler("close", p)
  /\ io' = Idle
  /\ UNCHANGED <<running, acceptVars, connVars, owner, peer, shaken, runs>>

\* ... and stops it.
Close(p) ==
  /\ io = Handler("close", p)
  /\ io' = Idle
  /\ CloseSocket(p)
  /\ UNCHANGED <<running, acceptVars, members, op, timer, owner, peer, shaken,
                 runs>>

\* io_service::run returns once no operation and no timer is outstanding.
RunReturns ==
  /\ io = Idle
  /\ accept = "none"
  /\ \A p \in Peer : op[p] = "none" /\ timer[p] = "off"
  /\ io' = Off
  /\ UNCHANGED <<running, acceptVars, connVars, owner, peer, shaken, runs>>

\* The handlers of p's connection, or what follows them.
Serve(p) ==
  \/ HandshakeHandler(p) \/ ReadHandler(p) \/ WriteHandler(p)
  \/ CallbackReturns(p) \/ CallbackThrows(p)
  \/ Erase(p) \/ Close(p)

Accept == AcceptHandler \/ WaitAccept \/ RunReturns

-----------------------------------------------------------------------------
(* The network and the clock. *)

Connect(p) ==
  /\ peer[p] = "away"
  /\ listening
  /\ peer' = [peer EXCEPT ![p] = "waiting"]
  /\ UNCHANGED <<running, acceptVars, connVars, io, owner, shaken, runs>>

\* An accept operation completes with a peer, or fails.
AcceptCompletes(p) ==
  /\ accept = "pending" /\ peer[p] = "waiting"
  /\ accept' = "ready"
  /\ socket' = p
  /\ peer' = [peer EXCEPT ![p] = "connected"]
  /\ UNCHANGED <<running, listening, connVars, io, owner, shaken, runs>>

AcceptFails ==
  /\ accept = "pending"
  /\ accept' = "failed"
  /\ UNCHANGED <<running, listening, socket, connVars, io, owner, peer, shaken, runs>>

Completes(p, kinds, r) ==
  /\ op[p] \in kinds /\ result[p] = "pending"
  /\ result' = [result EXCEPT ![p] = r]
  /\ UNCHANGED <<running, acceptVars, members, open, op, timer, io, owner, peer,
                 shaken, runs>>

Send(p, m) == Completes(p, {"handshake", "read"}, m)

WriteCompletes(p) == Completes(p, {"write"}, "written")

\* The peer has left, or the network fails.
OpFails(p) == Completes(p, {"handshake", "read", "write"}, "error")

Expires(p) ==
  /\ timer[p] = "armed"
  /\ timer' = [timer EXCEPT ![p] = "ready"]
  /\ UNCHANGED <<running, acceptVars, members, open, op, result, io, owner, peer,
                 shaken, runs>>

Network(p) ==
  \/ Connect(p) \/ AcceptCompletes(p)
  \/ \E m \in Message : Send(p, m)
  \/ WriteCompletes(p) \/ OpFails(p)

Next ==
  \/ Run \/ Shutdown \/ Owner
  \/ Accept
  \/ AcceptFails
  \/ \E p \in Peer : Serve(p) \/ TimerHandler(p) \/ Network(p) \/ Expires(p)

Spec == Init /\ [][Next]_vars

\* io_service::run takes handlers from a queue in order, so that each gets its
\* turn; timers expire; a callback returns; who waits for a mutex gets it in the end.
PeerIsFair(p) ==
  SF_vars(Serve(p)) /\ SF_vars(TimerHandler(p)) /\ WF_vars(Expires(p))

FairSpec ==
  /\ Spec
  /\ SF_vars(Owner)
  /\ SF_vars(Accept)
  /\ \A p \in Peer : PeerIsFair(p)

-----------------------------------------------------------------------------
\* After a shutdown, and before a run, nothing of the server's connections is
\* left: no member, no open socket, no operation or timer whose handler could
\* still come (Server.cpp:83-103: stopAll under the lock against the accept
\* handler's check, ConnectionManager.cpp:24-33).
ShutdownLeavesNothing ==
  ~running =>
    /\ io = Off /\ accept = "none"
    /\ members = {} /\ open = {}
    /\ \A p \in Peer : op[p] = "none" /\ timer[p] = "off"

\* A shutdown terminates: no handler and no stop waits for a mutex for ever, and
\* no connection that was accepted while the server was stopped keeps the io
\* thread busy (Server.cpp:85-99).
ShutdownCompletes == owner # "idle" ~> owner = "idle"

\* A peer that connects and does not complete its handshake is dropped, whatever
\* it sends or does not, and whether it leaves or stays (Connection.cpp:43-49).
SilentPeersAreDropped ==
  \A p \in Peer :
    (p \in members /\ p \notin shaken) ~> (p \notin members \/ p \in shaken)

\* A running server never stops accepting: an accept operation is under way or
\* its handler is about to start the next, also after one has failed
\* (Server.cpp:58-70).
AlwaysAccepts ==
  running /\ listening => accept # "none" \/ io = Rearm

\* Only a peer whose handshake was accepted is read from, answered or served,
\* and what it is served on is a connection the manager can still stop, or one
\* that has been stopped (Connection.cpp:58-82).
ServedAfterHandshake ==
  \A p \in Peer :
    op[p] \in {"read", "write"} \/ io = Handler("callback", p) =>
      p \in shaken /\ (p \in members \/ p \notin open \/ io = Handler("close", p))

=============================================================================
