----------------------- MODULE TransportServerProofs -----------------------
(***************************************************************************)
(* Theorems about TransportServer, for any set of peers and any number of  *)
(* runs.                                                                   *)
(***************************************************************************)
EXTENDS TransportServer, TLAPS

\* The handlers that the io thread can be in are told apart by pc and peer.
LEMMA HandlersDiffer ==
  /\ Idle # Off /\ Idle # Rearm /\ Off # Rearm
  /\ \A p : \A pc \in {"erase", "close", "callback"} :
       /\ Handler(pc, p) \notin {Off, Idle, Rearm}
       /\ Handler(pc, p).peer = p
       /\ p \in Peer => Handler(pc, p) \in Handlers
  /\ \A p, q :
       /\ Handler("erase", p) # Handler("close", q)
       /\ Handler("erase", p) # Handler("callback", q)
       /\ Handler("close", p) # Handler("callback", q)
  /\ {Off, Idle, Rearm} \subseteq Handlers
<1>1. Idle # Off /\ Idle # Rearm /\ Off # Rearm
  BY DEF Off, Idle, Rearm, Handler
<1>2. ASSUME NEW pc \in {"erase", "close", "callback"}, NEW p
      PROVE  /\ Handler(pc, p) \notin {Off, Idle, Rearm}
             /\ Handler(pc, p).peer = p
             /\ p \in Peer => Handler(pc, p) \in Handlers
  <2>1. Handler(pc, p).pc = pc /\ Handler(pc, p).peer = p
    BY DEF Handler
  <2>2. Off.pc = "off" /\ Idle.pc = "idle" /\ Rearm.pc = "rearm"
    BY DEF Off, Idle, Rearm, Handler
  <2>3. Handler(pc, p) \notin {Off, Idle, Rearm}
    BY <2>1, <2>2
  <2>4. p \in Peer => Handler(pc, p) \in Handlers
    BY DEF Handler, Handlers
  <2>5. QED
    BY <2>1, <2>3, <2>4
<1>3. ASSUME NEW p, NEW q
      PROVE  /\ Handler("erase", p) # Handler("close", q)
             /\ Handler("erase", p) # Handler("callback", q)
             /\ Handler("close", p) # Handler("callback", q)
  BY DEF Handler
<1>4. {Off, Idle, Rearm} \subseteq Handlers
  BY DEF Handlers
<1> HIDE DEF Handler
<1>5. QED
  BY <1>1, <1>2, <1>3, <1>4, Zenon

-----------------------------------------------------------------------------
\* What is accepted has a peer: needed for the types.
TypeInv == TypeOK /\ (accept = "ready" => socket \in Peer)

\* The types, with that, are inductive.
LEMMA ServerTypeInv == Spec => []TypeInv
<1>1. Init => TypeInv
  <2> SUFFICES ASSUME Init PROVE TypeInv
    OBVIOUS
  <2>1. runs \in 0 .. MaxRuns
    BY MaxRunsAssumption DEF Init
  <2>2. io \in Handlers
    BY HandlersDiffer DEF Init
  <2>3. QED
    BY <2>1, <2>2 DEF Init, TypeInv, TypeOK
<1>2. TypeInv /\ [Next]_vars => TypeInv'
  <2> SUFFICES ASSUME TypeInv, [Next]_vars PROVE TypeInv'
    OBVIOUS
  <2> USE HandlersDiffer DEF TypeInv, TypeOK, acceptVars, connVars
  <2>1. CASE Run
    BY <2>1, MaxRunsAssumption DEF Run, StartAccept
  <2>2. CASE Shutdown
    BY <2>2 DEF Shutdown
  <2>3. CASE Owner
    <3>1. CASE \E p \in Peer : StopOne(p)
      BY <3>1 DEF StopOne, CloseSocket
    <3>2. CASE StopAllReturns
      BY <3>2 DEF StopAllReturns
    <3>3. CASE Join
      BY <3>3 DEF Join
    <3>4. QED
      BY <2>3, <3>1, <3>2, <3>3 DEF Owner
  <2>4. CASE AcceptHandler
    <3>1. CASE MayStart
      <4>1. socket \in Peer /\ StartConnection(socket)
        BY <2>4, <3>1 DEF AcceptHandler, MayStart
      <4>2. /\ members' \subseteq Peer /\ open' \subseteq Peer
            /\ op' \in [Peer -> {"none", "handshake", "read", "write"}]
            /\ result' \in [Peer -> Message \cup {"pending", "written", "error"}]
            /\ timer' \in [Peer -> {"off", "armed", "ready"}]
            /\ socket' \in Peer \cup {NoPeer}
        BY <4>1 DEF StartConnection
      <4>3. QED
        BY <2>4, <4>2 DEF AcceptHandler
    <3>2. CASE ~MayStart
      BY <2>4, <3>2 DEF AcceptHandler
    <3>3. QED
      BY <3>1, <3>2
  <2>5. CASE WaitAccept
    BY <2>5 DEF WaitAccept, StartAccept
  <2>6. CASE RunReturns
    BY <2>6 DEF RunReturns
  <2>7. CASE AcceptFails
    BY <2>7 DEF AcceptFails
  <2>8. ASSUME NEW p \in Peer, HandshakeHandler(p) PROVE TypeInv'
    <3>1. timer' \in [Peer -> {"off", "armed", "ready"}]
      BY <2>8 DEF HandshakeHandler, Cancelled
    <3>2. shaken' \subseteq Peer /\ io' \in Handlers
      BY <2>8 DEF HandshakeHandler
    <3>3. /\ op' \in [Peer -> {"none", "handshake", "read", "write"}]
          /\ result' \in [Peer -> Message \cup {"pending", "written", "error"}]
      <4>1. StartOp(p, "write") \/ EndOp(p)
        BY <2>8 DEF HandshakeHandler
      <4>2. CASE StartOp(p, "write")
        BY <4>2 DEF StartOp
      <4>3. CASE EndOp(p)
        BY <4>3 DEF EndOp
      <4>4. QED
        BY <4>1, <4>2, <4>3
    <3>4. QED
      BY <2>8, <3>1, <3>2, <3>3 DEF HandshakeHandler
  <2>9. ASSUME NEW p \in Peer, ReadHandler(p) PROVE TypeInv'
    BY <2>9 DEF ReadHandler, EndOp
  <2>10. ASSUME NEW p \in Peer, WriteHandler(p) PROVE TypeInv'
    BY <2>10 DEF WriteHandler, StartOp, EndOp
  <2>11. ASSUME NEW p \in Peer, CallbackReturns(p) \/ CallbackThrows(p) PROVE TypeInv'
    BY <2>11 DEF CallbackReturns, CallbackThrows, StartOp
  <2>12. ASSUME NEW p \in Peer, Erase(p) \/ Close(p) PROVE TypeInv'
    BY <2>12 DEF Erase, Close, CloseSocket
  <2>13. ASSUME NEW p \in Peer, TimerHandler(p) \/ Expires(p) PROVE TypeInv'
    BY <2>13 DEF TimerHandler, Expires
  <2>14. ASSUME NEW p \in Peer, Network(p) PROVE TypeInv'
    <3>1. CASE Connect(p)
      BY <3>1 DEF Connect
    <3>2. CASE AcceptCompletes(p)
      BY <3>2 DEF AcceptCompletes
    <3>3. ASSUME NEW kinds, NEW r \in Message \cup {"written", "error"}, Completes(p, kinds, r)
          PROVE  TypeInv'
      BY <3>3 DEF Completes
    <3>4. QED
      BY <2>14, <3>1, <3>2, <3>3 DEF Network, Send, WriteCompletes, OpFails
  <2>15. CASE UNCHANGED vars
    BY <2>15 DEF vars
  <2>16. QED
    BY <2>1, <2>2, <2>3, <2>4, <2>5, <2>6, <2>7, <2>8, <2>9, <2>10, <2>11, <2>12,
       <2>13, <2>14, <2>15 DEF Next, Accept, Serve
<1>3. QED
  BY <1>1, <1>2, PTL DEF Spec

\* The variables keep their types (Server.cpp, ConnectionManager.cpp,
\* Connection.cpp): in particular only peers whose socket was accepted become
\* members.
THEOREM ServerTypeCorrect == Spec => []TypeOK
<1>1. TypeInv => TypeOK
  BY DEF TypeInv
<1>2. QED
  BY <1>1, ServerTypeInv, PTL

-----------------------------------------------------------------------------
\* The io thread and the owner keep pace: a server that is not running has no io
\* thread and no shutdown under way, and one that shuts down has closed its
\* acceptor.
ThreadsInv ==
  /\ ~running => owner = "idle" /\ io = Off
  /\ owner # "idle" => running /\ ~listening

\* io_service::run has returned only if nothing is outstanding.
OutstandingInv ==
  io = Off => accept = "none" /\ \A p \in Peer : op[p] = "none" /\ timer[p] = "off"

\* Every open socket belongs to a member, or is about to be closed.
OpenInv == \A p \in open : p \in members \/ io = Handler("close", p)

\* Nobody becomes a member once stopAll has begun.
MembersInv ==
  /\ ~listening /\ owner # "stopping" => members = {}
  /\ ~running => members = {}

ServerInv == ThreadsInv /\ OutstandingInv /\ OpenInv /\ MembersInv

LEMMA ServerInvInductive == Spec => []ServerInv
<1>1. Init => ServerInv
  BY DEF Init, ServerInv, ThreadsInv, OutstandingInv, OpenInv, MembersInv
<1>2. TypeOK /\ ServerInv /\ [Next]_vars => ServerInv'
  <2> SUFFICES ASSUME TypeOK, ServerInv, [Next]_vars PROVE ServerInv'
    OBVIOUS
  <2>1. ThreadsInv'
    <3> USE HandlersDiffer DEF ServerInv, ThreadsInv, acceptVars, connVars
    <3>1. CASE Run \/ Shutdown \/ Owner
      BY <3>1 DEF Run, Shutdown, Owner, StopOne, StopAllReturns, Join, Idle, Off, Handler
    <3>2. CASE Accept \/ AcceptFails
      BY <3>2 DEF Accept, AcceptHandler, WaitAccept, RunReturns, AcceptFails
    <3>3. ASSUME NEW p \in Peer, Serve(p) PROVE ThreadsInv'
      BY <3>3 DEF Serve, HandshakeHandler, ReadHandler, WriteHandler,
                  CallbackReturns, CallbackThrows, Erase, Close
    <3>4. ASSUME NEW p \in Peer, TimerHandler(p) \/ Network(p) \/ Expires(p)
          PROVE  ThreadsInv'
      BY <3>4 DEF TimerHandler, Expires, Network, Connect, AcceptCompletes, Send,
                  WriteCompletes, OpFails, Completes
    <3>5. CASE UNCHANGED vars
      BY <3>5 DEF vars
    <3>6. QED
      BY <3>1, <3>2, <3>3, <3>4, <3>5 DEF Next
  <2>2. OutstandingInv'
    <3> USE HandlersDiffer DEF ServerInv, OutstandingInv, acceptVars, connVars
    <3>1. CASE Run \/ Shutdown \/ Owner
      BY <3>1 DEF Run, Shutdown, Owner, StopOne, StopAllReturns, Join
    <3>2. CASE Accept \/ AcceptFails
      BY <3>2 DEF Accept, AcceptHandler, WaitAccept, RunReturns, AcceptFails
    <3>3. ASSUME NEW p \in Peer, Serve(p) PROVE OutstandingInv'
      <4>1. io # Off /\ io' # Off
        BY <3>3 DEF Serve, HandshakeHandler, ReadHandler, WriteHandler,
                    CallbackReturns, CallbackThrows, Erase, Close
      <4>2. QED
        BY <4>1
    <3>4. ASSUME NEW p \in Peer, TimerHandler(p) \/ Expires(p) PROVE OutstandingInv'
      BY <3>4 DEF TimerHandler, Expires
    <3>5. ASSUME NEW p \in Peer, Network(p) PROVE OutstandingInv'
      BY <3>5 DEF Network, Connect, AcceptCompletes, Send, WriteCompletes, OpFails,
                  Completes
    <3>6. CASE UNCHANGED vars
      BY <3>6 DEF vars
    <3>7. QED
      BY <3>1, <3>2, <3>3, <3>4, <3>5, <3>6 DEF Next
  <2>3. OpenInv'
    <3> USE HandlersDiffer DEF ServerInv, OpenInv, acceptVars, connVars
    <3>1. CASE Run \/ Shutdown \/ Owner
      <4>1. CASE Run \/ Shutdown \/ Join
        BY <4>1 DEF Run, Shutdown, Join, ThreadsInv
      <4>2. CASE \E p \in Peer : StopOne(p)
        BY <4>2 DEF StopOne, CloseSocket
      <4>3. CASE StopAllReturns
        BY <4>3 DEF StopAllReturns
      <4>4. QED
        BY <3>1, <4>1, <4>2, <4>3 DEF Owner
    <3>2. CASE Accept \/ AcceptFails
      BY <3>2 DEF Accept, AcceptHandler, StartConnection, WaitAccept, RunReturns,
                  AcceptFails
    <3>3. ASSUME NEW p \in Peer, Serve(p) PROVE OpenInv'
      <4>1. CASE HandshakeHandler(p) \/ ReadHandler(p) \/ WriteHandler(p)
                 \/ CallbackReturns(p) \/ CallbackThrows(p)
        BY <4>1 DEF HandshakeHandler, ReadHandler, WriteHandler, CallbackReturns,
                    CallbackThrows
      <4>2. CASE Erase(p)
        BY <4>2 DEF Erase
      <4>3. CASE Close(p)
        BY <4>3 DEF Close, CloseSocket
      <4>4. QED
        BY <3>3, <4>1, <4>2, <4>3 DEF Serve
    <3>4. ASSUME NEW p \in Peer, TimerHandler(p) \/ Network(p) \/ Expires(p)
          PROVE  OpenInv'
      BY <3>4 DEF TimerHandler, Expires, Network, Connect, AcceptCompletes, Send,
                  WriteCompletes, OpFails, Completes
    <3>5. CASE UNCHANGED vars
      BY <3>5 DEF vars
    <3>6. QED
      BY <3>1, <3>2, <3>3, <3>4, <3>5 DEF Next
  <2>4. MembersInv'
    <3> USE HandlersDiffer DEF ServerInv, ThreadsInv, MembersInv, acceptVars, connVars
    <3>1. CASE Run \/ Shutdown \/ Owner
      BY <3>1 DEF Run, Shutdown, Owner, StopOne, StopAllReturns, Join
    <3>2. CASE Accept \/ AcceptFails
      BY <3>2 DEF Accept, AcceptHandler, MayStart, StartConnection, WaitAccept,
                  RunReturns, AcceptFails
    <3>3. ASSUME NEW p \in Peer, Serve(p) PROVE MembersInv'
      BY <3>3 DEF Serve, HandshakeHandler, ReadHandler, WriteHandler,
                  CallbackReturns, CallbackThrows, Erase, Close
    <3>4. ASSUME NEW p \in Peer, TimerHandler(p) \/ Network(p) \/ Expires(p)
          PROVE  MembersInv'
      BY <3>4 DEF TimerHandler, Expires, Network, Connect, AcceptCompletes, Send,
                  WriteCompletes, OpFails, Completes
    <3>5. CASE UNCHANGED vars
      BY <3>5 DEF vars
    <3>6. QED
      BY <3>1, <3>2, <3>3, <3>4, <3>5 DEF Next
  <2>5. QED
    BY <2>1, <2>2, <2>3, <2>4 DEF ServerInv
<1>3. QED
  BY <1>1, <1>2, ServerTypeCorrect, PTL DEF Spec

\* Nothing of the server's connections is left after a shutdown (Server.cpp:83-103):
\* stopAll empties the container after the acceptor is closed, the accept handler
\* checks the acceptor under the same lock, and the io thread returns only when
\* no handler is left to come.
THEOREM ServerStopsClean == Spec => []ShutdownLeavesNothing
<1>1. ServerInv => ShutdownLeavesNothing
  BY HandlersDiffer DEF ServerInv, ThreadsInv, OutstandingInv, OpenInv, MembersInv,
                        ShutdownLeavesNothing
<1>2. QED
  BY <1>1, ServerInvInductive, PTL

\* Connections and peers do not touch the accept operation, but for a peer that is
\* waited for, and let the io thread start the next one.
LEMMA PeersLeaveAccept ==
  ASSUME NEW p \in Peer, Serve(p) \/ TimerHandler(p) \/ Network(p) \/ Expires(p)
  PROVE  /\ running' = running /\ listening' = listening
         /\ accept' \in {accept, "ready"}
         /\ io = Rearm => io' = Rearm
<1> USE HandlersDiffer DEF acceptVars, connVars
<1>1. CASE Serve(p)
  BY <1>1 DEF Serve, HandshakeHandler, ReadHandler, WriteHandler, CallbackReturns,
              CallbackThrows, Erase, Close
<1>2. CASE TimerHandler(p) \/ Expires(p)
  BY <1>2 DEF TimerHandler, Expires
<1>3. CASE Network(p)
  BY <1>3 DEF Network, Connect, AcceptCompletes, Send, WriteCompletes, OpFails, Completes
<1>4. QED
  BY <1>1, <1>2, <1>3

\* A running server goes on accepting (Server.cpp:58-70): what ends an accept
\* operation is its handler, which starts the next one or closes with the server.
THEOREM ServerKeepsAccepting == Spec => []AlwaysAccepts
<1> USE HandlersDiffer DEF AlwaysAccepts
<1>1. AlwaysAccepts /\ (Accept \/ AcceptFails) => AlwaysAccepts'
  BY DEF Accept, AcceptHandler, AcceptsAgain, WaitAccept, StartAccept, RunReturns,
         AcceptFails, acceptVars
<1>2. AlwaysAccepts /\ (Run \/ Shutdown \/ Owner) => AlwaysAccepts'
  BY DEF Run, StartAccept, Shutdown, Owner, StopOne, StopAllReturns, Join, acceptVars
<1>3. ASSUME AlwaysAccepts,
             \E p \in Peer : Serve(p) \/ TimerHandler(p) \/ Network(p) \/ Expires(p)
      PROVE  AlwaysAccepts'
  BY <1>3, PeersLeaveAccept
<1>4. AlwaysAccepts /\ UNCHANGED vars => AlwaysAccepts'
  BY DEF vars, acceptVars
<1>5. AlwaysAccepts /\ [Next]_vars => AlwaysAccepts'
  BY <1>1, <1>2, <1>3, <1>4 DEF Next
<1>6. Init => AlwaysAccepts
  BY DEF Init
<1>7. QED
  BY <1>5, <1>6, PTL DEF Spec

-----------------------------------------------------------------------------
\* A connection past its handshake has shaken hands.
ShakenInv ==
  \A p \in Peer :
    op[p] \in {"read", "write"} \/ io = Handler("callback", p) => p \in shaken

\* No peer is read from, answered or served before its handshake was accepted,
\* nor on a connection the manager has lost (Connection.cpp:58-82,
\* ConnectionManager.cpp:24-33).
THEOREM OnlyShakenAreServed == Spec => []ServedAfterHandshake
<1>1. Init => ShakenInv
  BY HandlersDiffer DEF Init, ShakenInv
<1>2. TypeOK /\ ShakenInv /\ [Next]_vars => ShakenInv'
  <2> SUFFICES ASSUME TypeOK, ShakenInv, [Next]_vars PROVE ShakenInv'
    OBVIOUS
  <2> USE HandlersDiffer DEF TypeOK, ShakenInv, acceptVars, connVars
  <2>1. CASE Run \/ Shutdown \/ Owner
    BY <2>1 DEF Run, Shutdown, Owner, StopOne, StopAllReturns, Join
  <2>2. CASE Accept \/ AcceptFails
    BY <2>2 DEF Accept, AcceptHandler, StartConnection, WaitAccept, RunReturns,
                AcceptFails
  <2>3. ASSUME NEW p \in Peer, HandshakeHandler(p) PROVE ShakenInv'
    BY <2>3 DEF HandshakeHandler, StartOp, EndOp
  <2>4. ASSUME NEW p \in Peer, ReadHandler(p) PROVE ShakenInv'
    <3>1. io' # Handler("callback", p) => io' \in {Idle, Handler("erase", p)}
      BY <2>4 DEF ReadHandler
    <3>2. \A q : io' = Handler("callback", q) => q = p
      BY <3>1
    <3>3. p \in shaken /\ UNCHANGED shaken
      BY <2>4 DEF ReadHandler
    <3>4. QED
      BY <2>4, <3>2, <3>3 DEF ReadHandler, EndOp
  <2>5. ASSUME NEW p \in Peer, WriteHandler(p) PROVE ShakenInv'
    BY <2>5 DEF WriteHandler, StartOp, EndOp
  <2>6. ASSUME NEW p \in Peer, CallbackReturns(p) \/ CallbackThrows(p)
        PROVE  ShakenInv'
    BY <2>6 DEF CallbackReturns, CallbackThrows, StartOp
  <2>7. ASSUME NEW p \in Peer, Erase(p) \/ Close(p) PROVE ShakenInv'
    BY <2>7 DEF Erase, Close
  <2>8. ASSUME NEW p \in Peer, TimerHandler(p) \/ Network(p) \/ Expires(p)
        PROVE  ShakenInv'
    BY <2>8 DEF TimerHandler, Expires, Network, Connect, AcceptCompletes, Send,
                WriteCompletes, OpFails, Completes
  <2>9. CASE UNCHANGED vars
    BY <2>9 DEF vars
  <2>10. QED
    BY <2>1, <2>2, <2>3, <2>4, <2>5, <2>6, <2>7, <2>8, <2>9 DEF Next, Serve
<1>3. ServerInv /\ ShakenInv => ServedAfterHandshake
  BY DEF ServerInv, OpenInv, ShakenInv, ServedAfterHandshake
<1>4. QED
  BY <1>1, <1>2, <1>3, ServerTypeCorrect, ServerInvInductive, PTL DEF Spec

-----------------------------------------------------------------------------
(* What the liveness proofs rest on.                                       *)

\* A peer that has to shake hands has its deadline: its timer is armed, or has
\* expired and its handler is to come, or the connection is being erased.
DeadlineInv ==
  \A p \in members : p \notin shaken => timer[p] # "off" \/ io = Handler("erase", p)

\* An operation on a closed socket has ended.
ClosedInv ==
  \A p \in Peer : op[p] # "none" /\ p \notin open => result[p] # "pending"

\* A closed acceptor does not wait for a peer.
AcceptorInv == ~listening => accept # "pending"

\* During the callback the connection has no operation.
CallbackInv == \A p \in Peer : io = Handler("callback", p) => op[p] = "none"

\* A peer connects once, so that its connection starts once.
OnceInv ==
  /\ \A p \in members : peer[p] = "connected"
  /\ accept = "ready" => peer[socket] = "connected" /\ socket \notin members

PeerInv == DeadlineInv /\ ClosedInv /\ AcceptorInv /\ CallbackInv /\ OnceInv

\* A peer that is a member keeps its deadline until it has shaken hands or is
\* erased, an operation never waits on a closed socket, and a closed acceptor
\* never waits for a peer (Connection.cpp:43-82, Server.cpp:58-103).
LEMMA PeerInvInductive == Spec => []PeerInv
<1>1. Init => PeerInv
  BY HandlersDiffer DEF Init, PeerInv, DeadlineInv, ClosedInv, AcceptorInv,
                        CallbackInv, OnceInv
<1>2. TypeInv /\ ServerInv /\ PeerInv /\ [Next]_vars => PeerInv'
  <2> SUFFICES ASSUME TypeInv, ServerInv, PeerInv, [Next]_vars PROVE PeerInv'
    OBVIOUS
  <2> USE HandlersDiffer DEF TypeInv, TypeOK, PeerInv, acceptVars, connVars
  <2>1. CASE Run
    <3>1. io = Off /\ io' = Idle
      BY <2>1 DEF Run, ServerInv, ThreadsInv
    <3>2. QED
      BY <2>1, <3>1 DEF Run, StartAccept, DeadlineInv, ClosedInv, AcceptorInv,
                        CallbackInv, OnceInv
  <2>2. CASE Shutdown
    BY <2>2 DEF Shutdown, DeadlineInv, ClosedInv, AcceptorInv, CallbackInv, OnceInv
  <2>3. CASE Owner
    <3>1. CASE \E p \in Peer : StopOne(p)
      BY <3>1 DEF StopOne, CloseSocket, DeadlineInv, ClosedInv, AcceptorInv,
                  CallbackInv, OnceInv
    <3>2. CASE StopAllReturns \/ Join
      BY <3>2 DEF StopAllReturns, Join, DeadlineInv, ClosedInv, AcceptorInv,
                  CallbackInv, OnceInv
    <3>3. QED
      BY <2>3, <3>1, <3>2 DEF Owner
  <2>4. CASE AcceptHandler
    <3>1. CASE MayStart
      <4>1. /\ accept = "ready" /\ socket \in Peer /\ StartConnection(socket)
            /\ accept' = "none" /\ io = Idle /\ io' \in {Rearm, Idle}
            /\ UNCHANGED <<listening, peer, shaken>>
        BY <2>4, <3>1 DEF AcceptHandler, MayStart
      <4>2. DeadlineInv'
        BY <4>1 DEF StartConnection, DeadlineInv
      <4>3. ClosedInv'
        BY <4>1 DEF StartConnection, ClosedInv
      <4>4. AcceptorInv' /\ CallbackInv' /\ OnceInv'
        BY <4>1 DEF StartConnection, AcceptorInv, CallbackInv, OnceInv
      <4>5. QED
        BY <4>2, <4>3, <4>4
    <3>2. CASE ~MayStart
      BY <2>4, <3>2 DEF AcceptHandler, DeadlineInv, ClosedInv, AcceptorInv,
                        CallbackInv, OnceInv
    <3>3. QED
      BY <3>1, <3>2
  <2>5. CASE WaitAccept \/ RunReturns \/ AcceptFails
    BY <2>5 DEF WaitAccept, StartAccept, RunReturns, AcceptFails, DeadlineInv,
                ClosedInv, AcceptorInv, CallbackInv, OnceInv
  <2>6. ASSUME NEW p \in Peer, HandshakeHandler(p) PROVE PeerInv'
    <3>1. DeadlineInv'
      BY <2>6 DEF HandshakeHandler, Cancelled, DeadlineInv
    <3>2. ClosedInv'
      BY <2>6 DEF HandshakeHandler, StartOp, EndOp, ClosedInv
    <3>3. AcceptorInv' /\ CallbackInv' /\ OnceInv'
      BY <2>6 DEF HandshakeHandler, AcceptorInv, CallbackInv, OnceInv
    <3>4. QED
      BY <3>1, <3>2, <3>3
  <2>7. ASSUME NEW p \in Peer, ReadHandler(p) PROVE PeerInv'
    <3>1. /\ io = Idle /\ EndOp(p)
          /\ io' \in {Idle, Handler("erase", p), Handler("callback", p)}
          /\ UNCHANGED <<acceptVars, members, open, timer, peer, shaken>>
      BY <2>7 DEF ReadHandler
    <3>2. ClosedInv' /\ CallbackInv'
      BY <3>1 DEF EndOp, ClosedInv, CallbackInv
    <3>3. DeadlineInv' /\ AcceptorInv' /\ OnceInv'
      BY <3>1 DEF DeadlineInv, AcceptorInv, OnceInv
    <3>4. QED
      BY <3>2, <3>3
  <2>8. ASSUME NEW p \in Peer, WriteHandler(p) PROVE PeerInv'
    BY <2>8 DEF WriteHandler, StartOp, EndOp, DeadlineInv, ClosedInv, AcceptorInv,
                CallbackInv, OnceInv
  <2>9. ASSUME NEW p \in Peer, CallbackReturns(p) \/ CallbackThrows(p) PROVE PeerInv'
    BY <2>9 DEF CallbackReturns, CallbackThrows, StartOp, DeadlineInv, ClosedInv,
                AcceptorInv, CallbackInv, OnceInv
  <2>10. ASSUME NEW p \in Peer, Erase(p) \/ Close(p) PROVE PeerInv'
    BY <2>10 DEF Erase, Close, CloseSocket, DeadlineInv, ClosedInv, AcceptorInv,
                 CallbackInv, OnceInv
  <2>11. ASSUME NEW p \in Peer, TimerHandler(p) \/ Expires(p) PROVE PeerInv'
    BY <2>11 DEF TimerHandler, Expires, DeadlineInv, ClosedInv, AcceptorInv,
                 CallbackInv, OnceInv
  <2>12. ASSUME NEW p \in Peer, Connect(p) \/ AcceptCompletes(p) PROVE PeerInv'
    BY <2>12 DEF Connect, AcceptCompletes, DeadlineInv, ClosedInv, AcceptorInv,
                 CallbackInv, OnceInv
  <2>13. ASSUME NEW p \in Peer, NEW kinds, NEW r \in Message \cup {"written", "error"},
                Completes(p, kinds, r)
         PROVE  PeerInv'
    BY <2>13 DEF Completes, Message, DeadlineInv, ClosedInv, AcceptorInv, CallbackInv,
                 OnceInv
  <2>14. CASE UNCHANGED vars
    BY <2>14 DEF vars, DeadlineInv, ClosedInv, AcceptorInv, CallbackInv, OnceInv
  <2>15. QED
    BY <2>1, <2>2, <2>3, <2>4, <2>5, <2>6, <2>7, <2>8, <2>9, <2>10, <2>11, <2>12,
       <2>13, <2>14
    DEF Next, Accept, Serve, Network, Send, WriteCompletes, OpFails
<1>3. QED
  BY <1>1, <1>2, ServerTypeInv, ServerInvInductive, PTL DEF Spec

-----------------------------------------------------------------------------
(* Fairness, with each guard written out.                                  *)

OwnerReady ==
  \/ /\ owner = "stopping"
     /\ members \cap open = {}
        \/ \E p \in members \cap open : io # Handler("callback", p)
  \/ owner = "joining" /\ io = Off

AcceptReady ==
  \/ io = Rearm
  \/ io = Idle /\ accept \in {"ready", "failed"} /\ owner # "stopping"
  \/ io = Idle /\ accept = "none" /\ \A p \in Peer : op[p] = "none" /\ timer[p] = "off"

ServeReady(p) ==
  \/ io = Idle /\ op[p] # "none" /\ result[p] # "pending"
  \/ io = Handler("callback", p)
  \/ io = Handler("erase", p) /\ owner # "stopping"
  \/ io = Handler("close", p)

TimerReady(p) == io = Idle /\ timer[p] = "ready"

ExpiresReady(p) == timer[p] = "armed"

\* What FairSpec asks of the handlers of one peer.
PeerFairness(p) ==
  /\ <>[]~ServeReady(p) \/ []<><<Serve(p)>>_vars
  /\ <>[]~TimerReady(p) \/ []<><<TimerHandler(p)>>_vars
  /\ []<>~ExpiresReady(p) \/ []<><<Expires(p)>>_vars

ServerFairness ==
  /\ <>[]~OwnerReady \/ []<><<Owner>>_vars
  /\ <>[]~AcceptReady \/ []<><<Accept>>_vars
  /\ \A p \in Peer : PeerFairness(p)

\* What is ready is enabled.
PeerIsEnabled(p) ==
  /\ [](ServeReady(p) => ENABLED <<Serve(p)>>_vars)
  /\ [](TimerReady(p) => ENABLED <<TimerHandler(p)>>_vars)
  /\ [](ExpiresReady(p) => ENABLED <<Expires(p)>>_vars)

\* FairSpec is as fair as that, if its actions are enabled where they are ready.
LEMMA ServerIsFair ==
  /\ FairSpec
  /\ [](OwnerReady => ENABLED <<Owner>>_vars)
  /\ [](AcceptReady => ENABLED <<Accept>>_vars)
  /\ \A p \in Peer : PeerIsEnabled(p)
  => Spec /\ ServerFairness
<1>1. ASSUME NEW p \in Peer
      PROVE  PeerIsFair(p) /\ PeerIsEnabled(p) => PeerFairness(p)
  BY PTL DEF PeerIsFair, PeerIsEnabled, PeerFairness
<1>2. (\A p \in Peer : PeerIsFair(p)) /\ (\A p \in Peer : PeerIsEnabled(p))
        => \A p \in Peer : PeerFairness(p)
  BY <1>1
<1>3. QED
  BY <1>2, PTL DEF FairSpec, ServerFairness

-----------------------------------------------------------------------------
(* The io thread comes back for the next handler.                          *)

InCallback(p) == io = Handler("callback", p)
InErase(p) == io = Handler("erase", p)
InClose(p) == io = Handler("close", p)
InHandler(p) == InCallback(p) \/ InErase(p) \/ InClose(p)
InRearm == io = Rearm
IsIdle == io = Idle
IsStopping == owner = "stopping"

\* What the io thread has begun it alone goes on with.
LEMMA IoMoves ==
  ASSUME ServerInv, [Next]_vars, NEW p
  PROVE  /\ InCallback(p) => InCallback(p)' \/ IsIdle'
         /\ InErase(p) => InErase(p)' \/ InClose(p)'
         /\ InClose(p) => InClose(p)' \/ IsIdle'
         /\ InRearm => InRearm' \/ IsIdle'
<1> USE HandlersDiffer DEF InCallback, InErase, InClose, InRearm, IsIdle, acceptVars, connVars
<1>1. CASE Run \/ Shutdown \/ Owner
  <2>1. CASE Run
    BY <2>1 DEF Run, ServerInv, ThreadsInv
  <2>2. CASE Shutdown \/ Owner
    BY <2>2 DEF Shutdown, Owner, StopOne, StopAllReturns, Join
  <2>3. QED
    BY <1>1, <2>1, <2>2
<1>2. CASE Accept \/ AcceptFails
  BY <1>2 DEF Accept, AcceptHandler, WaitAccept, RunReturns, AcceptFails
<1>3. ASSUME NEW q \in Peer,
             HandshakeHandler(q) \/ ReadHandler(q) \/ WriteHandler(q) \/ TimerHandler(q)
      PROVE  io = Idle
  BY <1>3 DEF HandshakeHandler, ReadHandler, WriteHandler, TimerHandler
<1>4. ASSUME NEW q \in Peer, CallbackReturns(q) \/ CallbackThrows(q) \/ Close(q)
      PROVE  io' = Idle /\ io \in {Handler("callback", q), Handler("close", q)}
  BY <1>4 DEF CallbackReturns, CallbackThrows, Close
<1>5. ASSUME NEW q \in Peer, Erase(q)
      PROVE  io = Handler("erase", q) /\ io' = Handler("close", q)
  BY <1>5 DEF Erase
<1>6. ASSUME NEW q \in Peer, Network(q) \/ Expires(q)
      PROVE  UNCHANGED io
  BY <1>6 DEF Expires, Network, Connect, AcceptCompletes, Send, WriteCompletes, OpFails,
              Completes
<1>7. CASE UNCHANGED vars
  BY <1>7 DEF vars
<1>8. \A q \in Peer : InErase(p) /\ io = Handler("erase", q) => q = p
  OBVIOUS
<1>9. QED
  BY <1>1, <1>2, <1>3, <1>4, <1>5, <1>6, <1>7, <1>8 DEF Next, Serve

\* Its next step is the peer's to take.
LEMMA ServeMoves ==
  ASSUME NEW p \in Peer, Serve(p)
  PROVE  /\ InCallback(p) => IsIdle'
         /\ InErase(p) => InClose(p)'
         /\ InClose(p) => IsIdle'
BY HandlersDiffer DEF InCallback, InErase, InClose, IsIdle, Serve, HandshakeHandler,
                      ReadHandler, WriteHandler, CallbackReturns, CallbackThrows, Erase,
                      Close

\* The io thread leaves the handlers of a peer, unless a shutdown keeps it from
\* the connections' mutex (Connection.cpp:58-82, ConnectionManager.cpp:24-33).
LEMMA HandlerEnds ==
  ASSUME NEW p \in Peer
  PROVE  Spec /\ PeerFairness(p) => [](InHandler(p) => <>(IsIdle \/ IsStopping))
<1>1. ServerInv /\ [Next]_vars
      => /\ InCallback(p) => InCallback(p)' \/ IsIdle'
         /\ InErase(p) => InErase(p)' \/ InClose(p)'
         /\ InClose(p) => InClose(p)' \/ IsIdle'
  BY IoMoves
<1>2. <<Serve(p)>>_vars
      => /\ InCallback(p) => IsIdle'
         /\ InErase(p) => InClose(p)'
         /\ InClose(p) => IsIdle'
  BY ServeMoves
<1>3. InCallback(p) \/ InClose(p) \/ (InErase(p) /\ ~IsStopping) => ServeReady(p)
  BY DEF InCallback, InClose, InErase, IsStopping, ServeReady
<1>4. /\ ~(InErase(p) /\ InClose(p)) /\ ~(InCallback(p) /\ IsIdle)
      /\ ~(InClose(p) /\ IsIdle)
  BY HandlersDiffer DEF InErase, InClose, InCallback, IsIdle
<1>5. QED
  BY <1>1, <1>2, <1>3, <1>4, ServerInvInductive, PTL DEF Spec, PeerFairness, InHandler

LEMMA IoComesBack ==
  Spec /\ ServerFairness => [](io # Off => <>(IsIdle \/ IsStopping))
<1>1. ASSUME NEW p \in Peer
      PROVE  Spec /\ PeerFairness(p) => [](InHandler(p) => <>(IsIdle \/ IsStopping))
  BY HandlerEnds
<1>2. Spec /\ (\A p \in Peer : PeerFairness(p))
      => \A p \in Peer : [](InHandler(p) => <>(IsIdle \/ IsStopping))
  BY <1>1
<1>3. Spec /\ (\A p \in Peer : PeerFairness(p))
      => [](\A p \in Peer : (InHandler(p) => <>(IsIdle \/ IsStopping)))
  BY <1>2
<1>4. (\A p \in Peer : (InHandler(p) => <>(IsIdle \/ IsStopping)))
      => ((\E p \in Peer : InHandler(p)) => <>(IsIdle \/ IsStopping))
  OBVIOUS
<1>5. TypeInv /\ io # Off => IsIdle \/ InRearm \/ \E p \in Peer : InHandler(p)
  BY DEF TypeInv, TypeOK, Handlers, Handler, IsIdle, InRearm, InHandler, InCallback,
         InErase, InClose
<1>6. ServerInv /\ [Next]_vars => (InRearm => InRearm' \/ IsIdle')
  BY IoMoves, HandlersDiffer DEF InRearm, IsIdle
<1>7. <<Accept>>_vars => (InRearm => IsIdle')
  BY HandlersDiffer DEF Accept, AcceptHandler, WaitAccept, RunReturns, InRearm, IsIdle
<1>8. (InRearm => AcceptReady) /\ ~(InRearm /\ IsIdle)
  BY HandlersDiffer DEF InRearm, AcceptReady, IsIdle
<1>9. QED
  BY <1>3, <1>4, <1>5, <1>6, <1>7, <1>8, ServerTypeInv, ServerInvInductive,
     PTL DEF Spec, ServerFairness

-----------------------------------------------------------------------------
Silent(p) == p \in members /\ p \notin shaken

\* A member that is silent keeps its deadline, which only moves on.
LEMMA DeadlineMoves ==
  ASSUME TypeInv, ServerInv, PeerInv, [Next]_vars, NEW p \in Peer, Silent(p)
  PROVE  /\ ExpiresReady(p) => ~Silent(p)' \/ ExpiresReady(p)' \/ timer'[p] = "ready"
                               \/ InErase(p)'
         /\ timer[p] = "ready" => ~Silent(p)' \/ timer'[p] = "ready" \/ InErase(p)'
         /\ InErase(p) => InErase(p)' \/ ~Silent(p)'
<1> USE HandlersDiffer DEF TypeInv, TypeOK, acceptVars, connVars, Silent, ExpiresReady, InErase
<1>1. CASE Run \/ Shutdown \/ Owner
  BY <1>1 DEF Run, ServerInv, ThreadsInv, Shutdown, Owner, StopOne, StopAllReturns, Join
<1>2. CASE AcceptHandler
  <2>1. CASE MayStart
    BY <1>2, <2>1 DEF AcceptHandler, MayStart, StartConnection, PeerInv, OnceInv
  <2>2. CASE ~MayStart
    BY <1>2, <2>2 DEF AcceptHandler
  <2>3. QED
    BY <2>1, <2>2
<1>3. CASE WaitAccept \/ RunReturns \/ AcceptFails
  BY <1>3 DEF WaitAccept, RunReturns, AcceptFails
<1>4. ASSUME NEW q \in Peer, HandshakeHandler(q)
      PROVE  /\ io = Idle
             /\ timer'[p] = timer[p] \/ timer[p] = "armed"
             /\ p # q => timer'[p] = timer[p]
             /\ timer'[q] # timer[q] => ~Silent(q)' \/ InErase(q)'
  BY <1>4 DEF HandshakeHandler, Cancelled
<1>5. ASSUME NEW q \in Peer,
             ReadHandler(q) \/ WriteHandler(q) \/ CallbackReturns(q) \/ CallbackThrows(q)
      PROVE  io # Handler("erase", p) /\ UNCHANGED timer
  BY <1>5 DEF ReadHandler, WriteHandler, CallbackReturns, CallbackThrows
<1>6. ASSUME NEW q \in Peer, Erase(q) \/ Close(q)
      PROVE  /\ UNCHANGED timer
             /\ InErase(p) => ~Silent(p)'
  BY <1>6 DEF Erase, Close
<1>7. ASSUME NEW q \in Peer, TimerHandler(q) \/ Expires(q)
      PROVE  /\ InErase(p) => InErase(p)'
             /\ ExpiresReady(p) => ExpiresReady(p)' \/ timer'[p] = "ready"
             /\ timer[p] = "ready" => timer'[p] = "ready" \/ InErase(p)'
  BY <1>7 DEF TimerHandler, Expires
<1>8. ASSUME NEW q \in Peer, Network(q)
      PROVE  UNCHANGED <<io, timer>>
  BY <1>8 DEF Network, Connect, AcceptCompletes, Send, WriteCompletes, OpFails, Completes
<1>9. CASE UNCHANGED vars
  BY <1>9 DEF vars
<1>10. QED
  BY <1>1, <1>2, <1>3, <1>4, <1>5, <1>6, <1>7, <1>8, <1>9 DEF Next, Accept, Serve

\* Nobody stays a member when stopAll returns.
LEMMA StoppingClears ==
  ASSUME ServerInv, [Next]_vars, IsStopping
  PROVE  IsStopping' \/ members' = {}
<1> USE DEF IsStopping, acceptVars, connVars
<1>1. CASE Run \/ Shutdown \/ Owner
  BY <1>1 DEF Run, Shutdown, Owner, StopOne, StopAllReturns, Join
<1>2. CASE Accept \/ AcceptFails
  BY <1>2 DEF Accept, AcceptHandler, WaitAccept, RunReturns, AcceptFails
<1>3. ASSUME NEW q \in Peer, Serve(q) PROVE UNCHANGED owner
  BY <1>3 DEF Serve, HandshakeHandler, ReadHandler, WriteHandler, CallbackReturns,
              CallbackThrows, Erase, Close
<1>4. ASSUME NEW q \in Peer, TimerHandler(q) \/ Network(q) \/ Expires(q)
      PROVE  UNCHANGED owner
  BY <1>4 DEF TimerHandler, Expires, Network, Connect, AcceptCompletes, Send,
              WriteCompletes, OpFails, Completes
<1>5. CASE UNCHANGED vars
  BY <1>5 DEF vars
<1>6. QED
  BY <1>1, <1>2, <1>3, <1>4, <1>5 DEF Next

\* A peer that does not complete its handshake is dropped (Connection.cpp:43-49):
\* its timer expires, the io thread comes back to run the timer's handler, and the
\* handler gets the mutex to erase the connection, if shutdowns complete.
THEOREM SilentPeersGo ==
  Spec /\ ServerFairness /\ ShutdownCompletes => SilentPeersAreDropped
<1> DEFINE TimerAtEnd(p) == timer[p] = "ready"
<1>1. ASSUME NEW p \in Peer
      PROVE  Spec /\ PeerFairness(p) /\ ShutdownCompletes
             /\ [](io # Off => <>(IsIdle \/ IsStopping))
             => (Silent(p) ~> ~Silent(p))
  <2>1. TypeInv /\ ServerInv /\ PeerInv /\ [Next]_vars /\ Silent(p)
        => /\ ExpiresReady(p) => ~Silent(p)' \/ ExpiresReady(p)' \/ TimerAtEnd(p)'
                                 \/ InErase(p)'
           /\ TimerAtEnd(p) => ~Silent(p)' \/ TimerAtEnd(p)' \/ InErase(p)'
           /\ InErase(p) => InErase(p)' \/ ~Silent(p)'
    BY DeadlineMoves
  <2>2. TypeInv /\ PeerInv /\ Silent(p)
        => ExpiresReady(p) \/ TimerAtEnd(p) \/ InErase(p)
    BY DEF TypeInv, TypeOK, PeerInv, DeadlineInv, Silent, ExpiresReady, InErase
  <2>3. TypeInv /\ <<Expires(p)>>_vars => ~ExpiresReady(p)'
    BY DEF TypeInv, TypeOK, Expires, ExpiresReady
  <2>4. <<TimerHandler(p)>>_vars => InErase(p)'
    BY DEF TimerHandler, InErase
  <2>5. ServerInv /\ [Next]_vars /\ IsStopping => IsStopping' \/ ~Silent(p)'
    BY StoppingClears DEF Silent
  <2>6. <<Serve(p)>>_vars /\ InErase(p) => ~Silent(p)'
    BY HandlersDiffer DEF InErase, Silent, Serve, HandshakeHandler, ReadHandler,
         WriteHandler, CallbackReturns, CallbackThrows, Erase, Close
  <2>7. /\ InErase(p) /\ ~IsStopping => ServeReady(p)
        /\ IsIdle /\ TimerAtEnd(p) => TimerReady(p)
        /\ IsStopping => owner # "idle" /\ ~(owner = "idle")
    BY DEF InErase, IsStopping, ServeReady, IsIdle, TimerReady
  <2>8. owner = "idle" => ~IsStopping
    BY DEF IsStopping
  <2>9. ServerInv /\ TimerAtEnd(p) => io # Off
    BY DEF ServerInv, OutstandingInv
  <2> HIDE DEF TimerAtEnd
  <2>10. QED
    BY <2>1, <2>2, <2>3, <2>4, <2>5, <2>6, <2>7, <2>8, <2>9, ServerTypeInv,
       ServerInvInductive, PeerInvInductive, PTL
    DEF Spec, PeerFairness, ShutdownCompletes
<1>2. ASSUME NEW p \in Peer
      PROVE  (Silent(p) ~> ~Silent(p))
             => ((p \in members /\ p \notin shaken) ~> (p \notin members \/ p \in shaken))
  <2>1. /\ p \in members /\ p \notin shaken => Silent(p)
        /\ ~Silent(p) => p \notin members \/ p \in shaken
    BY DEF Silent
  <2>2. QED
    BY <2>1, PTL
<1>3. Spec /\ (\A p \in Peer : PeerFairness(p)) /\ ShutdownCompletes
      /\ [](io # Off => <>(IsIdle \/ IsStopping))
      => SilentPeersAreDropped
  BY <1>1, <1>2 DEF SilentPeersAreDropped
<1>4. QED
  BY <1>3, IoComesBack, PTL DEF ServerFairness

-----------------------------------------------------------------------------
(* A shutdown, in three parts: stopAll goes on with the connections that   *)
(* are left; then every peer's handlers come to an end; and then the io    *)
(* thread returns and is joined.                                           *)

ToStop == members \cap open

\* While stopAll runs there is ever less for it to stop.
LEMMA StoppingMoves ==
  ASSUME [Next]_vars, IsStopping
  PROVE  /\ ~IsStopping' \/ ToStop' \subseteq ToStop
         /\ Owner => ~IsStopping' \/ (ToStop' \subseteq ToStop /\ ToStop' # ToStop)
<1> USE DEF IsStopping, ToStop, acceptVars, connVars
<1>1. CASE Owner
  <2>1. ASSUME NEW p \in Peer, StopOne(p)
        PROVE  /\ p \in members /\ p \in open
               /\ members' = members /\ open' = open \ {p}
    BY <2>1 DEF StopOne, CloseSocket
  <2>2. ASSUME NEW p \in Peer, StopOne(p)
        PROVE  ToStop' \subseteq ToStop /\ ToStop' # ToStop
    <3>1. p \in ToStop /\ p \notin ToStop'
      BY <2>1, <2>2
    <3>2. ToStop' \subseteq ToStop
      BY <2>1, <2>2
    <3>3. QED
      BY <3>1, <3>2, Zenon
  <2>3. StopAllReturns \/ Join => ~IsStopping'
    BY DEF StopAllReturns, Join
  <2>4. QED
    BY <1>1, <2>2, <2>3 DEF Owner
<1>2. ~Run /\ ~Shutdown /\ ~AcceptHandler
  BY DEF Run, Shutdown, AcceptHandler
<1>3. ASSUME WaitAccept \/ RunReturns \/ AcceptFails
      PROVE  UNCHANGED <<members, open>>
  BY <1>3 DEF WaitAccept, RunReturns, AcceptFails
<1>4. ASSUME NEW p \in Peer, Serve(p)
      PROVE  members' \subseteq members /\ open' \subseteq open
  BY <1>4 DEF Serve, HandshakeHandler, ReadHandler, WriteHandler, CallbackReturns,
              CallbackThrows, Erase, Close, CloseSocket
<1>5. ASSUME NEW p \in Peer, TimerHandler(p) \/ Network(p) \/ Expires(p)
      PROVE  UNCHANGED <<members, open>>
  BY <1>5 DEF TimerHandler, Expires, Network, Connect, AcceptCompletes, Send,
              WriteCompletes, OpFails, Completes
<1>6. ASSUME UNCHANGED vars PROVE UNCHANGED <<members, open>>
  BY <1>6 DEF vars
<1>7. CASE ~Owner
  <2>1. members' \subseteq members /\ open' \subseteq open
    BY <1>2, <1>3, <1>4, <1>5, <1>6, <1>7 DEF Next, Accept
  <2>2. QED
    BY <2>1, <1>7
<1>8. QED
  BY <1>1, <1>7

\* A callback is left, also during a shutdown.
LEMMA CallbackEnds ==
  Spec /\ ServerFairness => []((\E p \in Peer : InCallback(p)) => <>IsIdle)
<1>1. ASSUME NEW p \in Peer
      PROVE  Spec /\ PeerFairness(p) => [](InCallback(p) => <>IsIdle)
  <2>1. ServerInv /\ [Next]_vars /\ InCallback(p) => InCallback(p)' \/ IsIdle'
    BY IoMoves
  <2>2. <<Serve(p)>>_vars /\ InCallback(p) => IsIdle'
    BY ServeMoves
  <2>3. InCallback(p) => ServeReady(p)
    BY DEF InCallback, ServeReady
  <2>4. QED
    BY <2>1, <2>2, <2>3, ServerInvInductive, PTL DEF Spec, PeerFairness
<1>2. Spec /\ (\A p \in Peer : PeerFairness(p))
      => \A p \in Peer : [](InCallback(p) => <>IsIdle)
  BY <1>1
<1>3. Spec /\ (\A p \in Peer : PeerFairness(p))
      => [](\A p \in Peer : (InCallback(p) => <>IsIdle))
  BY <1>2
<1>4. (\A p \in Peer : (InCallback(p) => <>IsIdle))
      => ((\E p \in Peer : InCallback(p)) => <>IsIdle)
  OBVIOUS
<1>5. QED
  BY <1>3, <1>4, PTL DEF ServerFairness

\* stopAll never waits for ever (ConnectionManager.cpp:36-45, Server.cpp:85-99):
\* whatever connections it has still to stop, it returns or has fewer to stop, even
\* if the callback of one of them is taken again and again.
THEOREM StopAllGoesOn ==
  ASSUME NEW S \in SUBSET Peer
  PROVE  Spec /\ ServerFairness
         => ((IsStopping /\ ToStop = S)
             ~> (~IsStopping \/ (ToStop \subseteq S /\ ToStop # S)))
<1> DEFINE All == ToStop = S
           Fewer == ToStop \subseteq S /\ ToStop # S
           Called == \E p \in Peer : InCallback(p)
<1>1. [Next]_vars /\ IsStopping /\ All => ~IsStopping' \/ All' \/ Fewer'
  BY StoppingMoves
<1>2. <<Owner>>_vars /\ [Next]_vars /\ IsStopping /\ All => ~IsStopping' \/ Fewer'
  BY StoppingMoves
<1>3. TypeInv /\ IsStopping => OwnerReady \/ Called
  BY DEF TypeInv, TypeOK, IsStopping, OwnerReady, InCallback
<1>4. IsStopping /\ IsIdle => OwnerReady
  BY HandlersDiffer DEF IsStopping, IsIdle, OwnerReady
<1>5. Spec /\ ServerFairness => [](Called => <>IsIdle)
  BY CallbackEnds
<1> HIDE DEF All, Fewer, Called
<1>6. Spec /\ ServerFairness => ((IsStopping /\ All) ~> (~IsStopping \/ Fewer))
  BY <1>1, <1>2, <1>3, <1>4, <1>5, ServerTypeInv, PTL DEF Spec, ServerFairness
<1>7. QED
  BY <1>6 DEF All, Fewer

IsJoining == owner = "joining"
TimerOff(p) == timer[p] = "off"

\* p has no operation, and none will follow from a callback.
NoOp(p) == op[p] = "none" /\ ~InCallback(p)

\* p's operation has failed where nothing follows.
LastOp(p) == op[p] \in {"read", "write"} /\ result[p] = "error"

\* No handler of p is left to come.
Quiet(p) == NoOp(p) /\ TimerOff(p) /\ ~InErase(p) /\ ~InClose(p)

\* While the owner joins, the server has no connection left, and the socket of
\* every peer is closed, or is just being closed.
LEMMA JoiningClosed ==
  ASSUME ServerInv, IsJoining
  PROVE  ~listening /\ members = {} /\ \A p \in Peer : ~InClose(p) => p \notin open
BY DEF ServerInv, ThreadsInv, MembersInv, OpenInv, IsJoining, InClose

\* What the joining owner, and the server for it, may still do.
RunsDown(p) ==
  /\ ExpiresReady(p)' => ExpiresReady(p)
  /\ TimerOff(p) => TimerOff(p)'
  /\ NoOp(p) => NoOp(p)'
  /\ LastOp(p) => LastOp(p)' \/ NoOp(p)'
  /\ InCallback(p) => InCallback(p)' \/ LastOp(p)' \/ NoOp(p)'
  /\ TimerOff(p) /\ ~InErase(p) /\ ~InClose(p)
     => (~InErase(p)' /\ ~InClose(p)') \/ NoOp(p)'
  /\ Quiet(p) => Quiet(p)'

LEMMA JoiningMoves ==
  ASSUME TypeInv, ServerInv, PeerInv, [Next]_vars, IsJoining, NEW p \in Peer
  PROVE  RunsDown(p)
<1> USE HandlersDiffer DEF TypeInv, TypeOK, IsJoining, TimerOff, NoOp, LastOp, InErase,
        InClose, InCallback, ExpiresReady, RunsDown, Quiet, acceptVars, connVars
<1>1. CASE Owner
  BY <1>1 DEF Owner, StopOne, StopAllReturns, Join
<1>2. ~Run /\ ~Shutdown
  BY DEF Run, Shutdown
<1>3. CASE AcceptHandler
  BY <1>3, JoiningClosed DEF AcceptHandler, MayStart
<1>4. CASE WaitAccept \/ RunReturns \/ AcceptFails
  BY <1>4 DEF WaitAccept, RunReturns, AcceptFails
<1>5. ASSUME NEW q \in Peer, HandshakeHandler(q)
      PROVE  RunsDown(p)
  <2>1. /\ io = Idle /\ io' \in {Idle, Handler("erase", q)}
        /\ \A r \in Peer \ {q} : UNCHANGED <<op[r], result[r], timer[r]>>
        /\ op[q] = "handshake"
        /\ timer'[q] = timer[q] \/ timer'[q] = "off"
        /\ op'[q] = "none" \/ io' = Idle
    BY <1>5 DEF HandshakeHandler, StartOp, EndOp, Cancelled
  <2>2. QED
    BY <2>1
<1>6. ASSUME NEW q \in Peer, ReadHandler(q)
      PROVE  RunsDown(p)
  <2>1. /\ timer' = timer /\ io = Idle
        /\ io' \in {Idle, Handler("erase", q), Handler("callback", q)}
        /\ \A r \in Peer \ {q} : UNCHANGED <<op[r], result[r]>>
        /\ op[q] = "read" /\ op'[q] = "none"
        /\ result[q] = "error" => io' = Idle
    BY <1>6 DEF ReadHandler, EndOp
  <2>2. QED
    BY <2>1
<1>7. ASSUME NEW q \in Peer, WriteHandler(q)
      PROVE  RunsDown(p)
  <2>1. /\ timer' = timer /\ io = Idle /\ io' = io
        /\ \A r \in Peer \ {q} : UNCHANGED <<op[r], result[r]>>
        /\ op[q] = "write"
        /\ result[q] = "error" => op'[q] = "none"
    BY <1>7 DEF WriteHandler, StartOp, EndOp
  <2>2. QED
    BY <2>1
<1>8. ASSUME NEW q \in Peer, CallbackReturns(q)
      PROVE  RunsDown(p)
  <2>1. q \notin open
    BY <1>8, JoiningClosed DEF CallbackReturns
  <2>2. /\ timer' = timer /\ io = Handler("callback", q) /\ io' = Idle
        /\ \A r \in Peer \ {q} : UNCHANGED <<op[r], result[r]>>
        /\ op'[q] = "write" /\ result'[q] = "error"
    BY <1>8, <2>1 DEF CallbackReturns, StartOp
  <2>3. QED
    BY <2>2
<1>9. ASSUME NEW q \in Peer, CallbackThrows(q) \/ Erase(q) \/ Close(q)
      PROVE  RunsDown(p)
  <2>1. /\ timer' = timer /\ op' = op
        /\ \A r \in Peer : result[r] = "error" => result'[r] = "error"
        /\ \/ io = Handler("callback", q) /\ io' = Idle /\ op[q] = "none"
           \/ io = Handler("erase", q) /\ io' = Handler("close", q)
           \/ io = Handler("close", q) /\ io' = Idle
    BY <1>9 DEF CallbackThrows, Erase, Close, CloseSocket, PeerInv, CallbackInv
  <2>2. QED
    BY <2>1
<1>10. ASSUME NEW q \in Peer, TimerHandler(q)
      PROVE  RunsDown(p)
  <2>1. /\ op' = op /\ result' = result
        /\ timer[q] = "ready" /\ timer' = [timer EXCEPT ![q] = "off"]
        /\ io = Idle /\ io' = Handler("erase", q)
    BY <1>10 DEF TimerHandler
  <2>2. QED
    BY <2>1
<1>11. ASSUME NEW q \in Peer, Network(q)
      PROVE  RunsDown(p)
  <2>1. /\ op' = op /\ timer' = timer /\ io' = io
        /\ \A r \in Peer : result[r] = "error" => result'[r] = "error"
    BY <1>11 DEF Network, Connect, AcceptCompletes, Send, WriteCompletes, OpFails,
               Completes
  <2>2. QED
    BY <2>1
<1>12. ASSUME NEW q \in Peer, Expires(q)
      PROVE  RunsDown(p)
  <2>1. /\ op' = op /\ result' = result /\ io' = io
        /\ timer[q] = "armed" /\ timer' = [timer EXCEPT ![q] = "ready"]
    BY <1>12 DEF Expires
  <2>2. QED
    BY <2>1
<1>13. CASE UNCHANGED vars
  BY <1>13 DEF vars
<1>14. QED
  BY <1>1, <1>2, <1>3, <1>4, <1>5, <1>6, <1>7, <1>8, <1>9, <1>10, <1>11, <1>12, <1>13
  DEF Next, Accept, Serve

\* A handler of p that runs while the owner joins leaves less to do.
LEMMA JoiningServes ==
  ASSUME TypeInv, ServerInv, PeerInv, IsJoining, NEW p \in Peer, Serve(p)
  PROVE  /\ IsIdle \/ InHandler(p)
         /\ IsIdle /\ LastOp(p) => NoOp(p)'
         /\ IsIdle => LastOp(p)' \/ InCallback(p)' \/ NoOp(p)'
<1> USE HandlersDiffer DEF TypeInv, TypeOK, IsIdle, LastOp, NoOp, InCallback,
        InHandler, InErase, InClose, acceptVars, connVars
<1>1. IsIdle => p \notin open
  BY JoiningClosed
<1>2. CASE HandshakeHandler(p)
  BY <1>1, <1>2 DEF HandshakeHandler, StartOp, EndOp
<1>3. CASE ReadHandler(p)
  <2>1. io = Idle /\ op'[p] = "none" /\ (result[p] = "error" => io' = Idle)
    BY <1>3 DEF ReadHandler, EndOp
  <2>2. QED
    BY <1>3, <2>1
<1>4. CASE WriteHandler(p)
  BY <1>1, <1>4 DEF WriteHandler, StartOp, EndOp
<1>5. CASE CallbackReturns(p) \/ CallbackThrows(p) \/ Erase(p) \/ Close(p)
  BY <1>5 DEF CallbackReturns, CallbackThrows, Erase, Close
<1>6. QED
  BY <1>2, <1>3, <1>4, <1>5 DEF Serve

\* While the owner joins, every peer's handlers come to an end (Server.cpp:85-99):
\* the peer's operation fails on the closed socket, its handlers start no other
\* without end, and its timer expires or is cancelled.
THEOREM PeersGoQuiet ==
  ASSUME NEW p \in Peer
  PROVE  Spec /\ ServerFairness => (IsJoining ~> (~IsJoining \/ Quiet(p)))
<1>1. TypeInv /\ ServerInv /\ PeerInv /\ [Next]_vars /\ IsJoining => RunsDown(p)
  BY JoiningMoves
<1>2. TypeInv /\ ServerInv /\ PeerInv /\ IsJoining /\ <<Serve(p)>>_vars
      => /\ IsIdle \/ InHandler(p)
         /\ IsIdle => LastOp(p)' \/ InCallback(p)' \/ NoOp(p)'
         /\ IsIdle /\ LastOp(p) => NoOp(p)'
         /\ InErase(p) => InClose(p)'
         /\ InClose(p) => IsIdle'
         /\ InCallback(p) => IsIdle'
  BY JoiningServes, ServeMoves
<1>3. ServerInv /\ [Next]_vars
      => /\ InErase(p) => InErase(p)' \/ InClose(p)'
         /\ InClose(p) => InClose(p)' \/ IsIdle'
         /\ InCallback(p) => InCallback(p)' \/ IsIdle'
  BY IoMoves
<1>4. TypeInv /\ ServerInv /\ PeerInv /\ IsJoining
      => /\ InHandler(p) => ServeReady(p)
         /\ IsIdle => NoOp(p) \/ ServeReady(p)
         /\ IsIdle => TimerOff(p) \/ ExpiresReady(p) \/ TimerReady(p)
         /\ ~(LastOp(p) /\ InCallback(p))
  BY JoiningClosed, HandlersDiffer
  DEF TypeInv, TypeOK, PeerInv, ClosedInv, CallbackInv, LastOp, IsJoining, InHandler, InCallback, InErase,
      InClose, IsIdle, NoOp, TimerOff, ServeReady, ExpiresReady, TimerReady
<1>5. TypeInv => ((io # Off) \/ (NoOp(p) /\ TimerOff(p))) \/ ~ServerInv
  BY HandlersDiffer DEF ServerInv, OutstandingInv, NoOp, TimerOff, InCallback
<1>6. /\ ~(IsIdle /\ InHandler(p))
      /\ ~(InErase(p) /\ InClose(p))
      /\ ~(InCallback(p) /\ (InErase(p) \/ InClose(p)))
      /\ ~(IsJoining /\ IsStopping)
      /\ NoOp(p) => ~InCallback(p)
  BY HandlersDiffer DEF IsIdle, InHandler, InErase, InClose, InCallback, IsJoining,
                        IsStopping, NoOp
<1>7. TypeInv /\ <<Expires(p)>>_vars => ~ExpiresReady(p)'
  BY DEF TypeInv, TypeOK, Expires, ExpiresReady
<1>8. TypeInv /\ <<TimerHandler(p)>>_vars => TimerOff(p)'
  BY DEF TypeInv, TypeOK, TimerHandler, TimerOff
<1>9. (Spec /\ ServerFairness => PeerFairness(p))
      /\ (Spec /\ ServerFairness => [](io # Off => <>(IsIdle \/ IsStopping)))
  BY IoComesBack DEF ServerFairness
<1>10. QED
  BY <1>1, <1>2, <1>3, <1>4, <1>5, <1>6, <1>7, <1>8, <1>9, ServerTypeInv,
     ServerInvInductive, PeerInvInductive, PTL
  DEF Spec, PeerFairness, RunsDown, Quiet, InHandler

AllQuiet == \A p \in Peer : Quiet(p)
Accepts == accept \in {"ready", "failed"}
IsOff == io = Off
IsOver == owner = "idle"

\* Once no handler of a connection is left to come, the accept handler finds the
\* acceptor closed and does not go on, io_service::run returns, and the owner joins
\* the thread (Server.cpp:58-70, 85-103).
THEOREM QuietServerEnds ==
  Spec /\ ServerFairness => ((IsJoining /\ AllQuiet) ~> IsOver)
<1>1. TypeInv /\ ServerInv /\ PeerInv /\ [Next]_vars /\ IsJoining /\ AllQuiet
      => AllQuiet'
  <2>1. ASSUME TypeInv, ServerInv, PeerInv, [Next]_vars, IsJoining, NEW p \in Peer
        PROVE  Quiet(p) => Quiet(p)'
    BY <2>1, JoiningMoves DEF RunsDown
  <2>2. QED
    BY <2>1 DEF AllQuiet
<1>2. TypeInv /\ IsJoining /\ AllQuiet => IsIdle \/ InRearm \/ IsOff
  BY DEF TypeInv, TypeOK, Handlers, Handler, AllQuiet, Quiet, NoOp, InCallback, InErase,
         InClose, IsIdle, InRearm, IsOff
<1>3. TypeInv /\ PeerInv /\ ServerInv /\ IsJoining /\ AllQuiet
      => /\ InRearm => AcceptReady
         /\ IsIdle => AcceptReady
         /\ IsOff => OwnerReady
  BY HandlersDiffer
  DEF TypeInv, TypeOK, PeerInv, AcceptorInv, ServerInv, ThreadsInv, IsJoining, AllQuiet,
      Quiet, NoOp, TimerOff, InRearm, IsIdle, IsOff, AcceptReady, OwnerReady
<1>4. ServerInv /\ IsJoining /\ <<Accept>>_vars
      => /\ InRearm => IsIdle'
         /\ IsIdle /\ Accepts => IsIdle' /\ ~Accepts'
         /\ IsIdle /\ ~Accepts => IsOff'
  BY HandlersDiffer
  DEF ServerInv, ThreadsInv, IsJoining, InRearm, IsIdle, IsOff, Accepts, Accept,
      AcceptHandler, AcceptsAgain, WaitAccept, RunReturns
<1>5. TypeInv /\ ServerInv /\ PeerInv /\ [Next]_vars /\ IsJoining /\ AllQuiet
      => /\ InRearm => InRearm' \/ IsIdle'
         /\ IsIdle => IsIdle' \/ IsOff'
         /\ IsIdle /\ ~Accepts => ~Accepts'
         /\ IsOff => IsOff'
         /\ IsJoining' \/ IsOver'
  <2> SUFFICES ASSUME TypeInv, ServerInv, PeerInv, [Next]_vars, IsJoining, AllQuiet
               PROVE  /\ InRearm => InRearm' \/ IsIdle'
                      /\ IsIdle => IsIdle' \/ IsOff'
                      /\ IsIdle /\ ~Accepts => ~Accepts'
                      /\ IsOff => IsOff'
                      /\ IsJoining' \/ IsOver'
    OBVIOUS
  <2> USE HandlersDiffer DEF IsJoining, IsOver, InRearm, IsIdle, IsOff, Accepts,
          acceptVars, connVars
  <2>1. ~listening /\ accept # "pending"
    BY JoiningClosed DEF PeerInv, AcceptorInv
  <2>2. CASE Run \/ Shutdown \/ Owner
    BY <2>2 DEF Run, Shutdown, Owner, StopOne, StopAllReturns, Join
  <2>3. CASE Accept \/ AcceptFails
    BY <2>1, <2>3 DEF Accept, AcceptHandler, AcceptsAgain, WaitAccept, RunReturns,
                      AcceptFails
  <2>4. ASSUME NEW p \in Peer PROVE ~Serve(p) /\ ~TimerHandler(p) /\ ~Expires(p)
    BY DEF AllQuiet, Quiet, NoOp, TimerOff, InCallback, InErase, InClose, Serve,
           HandshakeHandler, ReadHandler, WriteHandler, CallbackReturns, CallbackThrows,
           Erase, Close, TimerHandler, Expires
  <2>5. ASSUME NEW p \in Peer, Network(p) PROVE UNCHANGED <<io, accept, owner>>
    BY <2>1, <2>5 DEF Network, Connect, AcceptCompletes, Send, WriteCompletes, OpFails,
                      Completes
  <2>6. CASE UNCHANGED vars
    BY <2>6 DEF vars
  <2>7. QED
    BY <2>2, <2>3, <2>4, <2>5, <2>6 DEF Next
<1>6. <<Owner>>_vars /\ IsJoining => IsOver'
  BY DEF IsJoining, IsOver, Owner, StopOne, StopAllReturns, Join
<1>7. ~(IsIdle /\ InRearm) /\ ~(IsIdle /\ IsOff) /\ ~(InRearm /\ IsOff)
  BY HandlersDiffer DEF IsIdle, InRearm, IsOff
<1>8. QED
  BY <1>1, <1>2, <1>3, <1>4, <1>5, <1>6, <1>7, ServerTypeInv, ServerInvInductive,
     PeerInvInductive, PTL DEF Spec, ServerFairness

\* The owner goes from stopping to joining, and from there back.
LEMMA OwnerMoves ==
  ASSUME [Next]_vars
  PROVE  /\ IsStopping => IsStopping' \/ IsJoining'
         /\ IsJoining => IsJoining' \/ IsOver'
<1> USE DEF IsStopping, IsJoining, IsOver, acceptVars, connVars
<1>1. CASE Run \/ Shutdown \/ Owner
  BY <1>1 DEF Run, Shutdown, Owner, StopOne, StopAllReturns, Join
<1>2. CASE Accept \/ AcceptFails
  BY <1>2 DEF Accept, AcceptHandler, WaitAccept, RunReturns, AcceptFails
<1>3. ASSUME NEW p \in Peer, Serve(p) PROVE UNCHANGED owner
  BY <1>3 DEF Serve, HandshakeHandler, ReadHandler, WriteHandler, CallbackReturns,
              CallbackThrows, Erase, Close
<1>4. ASSUME NEW p \in Peer, TimerHandler(p) \/ Network(p) \/ Expires(p)
      PROVE  UNCHANGED owner
  BY <1>4 DEF TimerHandler, Expires, Network, Connect, AcceptCompletes, Send,
              WriteCompletes, OpFails, Completes
<1>5. CASE UNCHANGED vars
  BY <1>5 DEF vars
<1>6. QED
  BY <1>1, <1>2, <1>3, <1>4, <1>5 DEF Next

\* A shutdown completes (Server.cpp:85-103), if two things that the theorems above
\* show one by one come to an end: StopAllGoesOn, for the connections that are left
\* to stop, and PeersGoQuiet, for every peer.  That they do, because the server has
\* finitely many connections, is an induction.
THEOREM ShutdownEnds ==
  /\ Spec /\ ServerFairness
  /\ IsStopping ~> ~IsStopping
  /\ IsJoining ~> (~IsJoining \/ AllQuiet)
  => ShutdownCompletes
<1>1. TypeInv => IsStopping \/ IsJoining \/ IsOver
  BY DEF TypeInv, TypeOK, IsStopping, IsJoining, IsOver
<1>2. /\ [Next]_vars /\ IsStopping => IsStopping' \/ IsJoining'
      /\ [Next]_vars /\ IsJoining => IsJoining' \/ IsOver'
  BY OwnerMoves
<1>3. IsOver => owner = "idle"
  BY DEF IsOver
<1>4. QED
  BY <1>1, <1>2, <1>3, QuietServerEnds, ServerTypeInv, PTL DEF Spec, ShutdownCompletes

=============================================================================
