------------------------------- MODULE Server -------------------------------
(***************************************************************************)
(* The server's WebSocket connections and the peers they own               *)
(* (internal/server/server.go, internal/server/websocket.go and the        *)
(* creation and removal of peers of internal/peer/manager.go).             *)
(*                                                                         *)
(* The goroutines:                                                         *)
(*   - handleWebSocket, one per connection: accept[c];                     *)
(*   - readPump and writePump, two per connection: readPc[c], writePc[c];  *)
(*   - the one that waits for closeCh to clean up: cleanup[c];             *)
(*   - the body of Close, run once per connection by whichever goroutine   *)
(*     sets ws.closed: closePc[c], where "open" means ws.closed is unset;  *)
(*   - a courier, running onPeerData, onTopicData, onPeerChange or         *)
(*     onSendAck: all four look up a connection and send it one message;   *)
(*   - the exit timer, and main, which waits and then runs Stop.           *)
(*                                                                         *)
(* s.mu is held across steps by Stop only; every other critical section of *)
(* s.mu, ws.mu, m.mu and exitTimerMu is one step.  CreatePeer and          *)
(* RemovePeer are the steps at which m.peers changes; building a host and  *)
(* closing one take time only.  Messages have no content: a connection's   *)
(* send buffer is the number of messages in it.                            *)
(***************************************************************************)
EXTENDS Naturals

CONSTANTS Conns,       \* the WebSocket connections made over the server's life
          Peers,       \* peer IDs: a browser may ask for one again by its key
          SendCap,     \* capacity of ws.sendCh (100 in the code)
          MaxRequests, \* bound: requests read from a connection
          Linger,      \* s.linger: the --linger option
          Disciplined, \* clients send "peer" once, first, as connect() of the
                       \* TypeScript client does
          None

ASSUME SendCapAssumption == SendCap \in Nat \ {0}
ASSUME MaxRequestsAssumption == MaxRequests \in Nat
ASSUME OptionsAssumption == {Linger, Disciplined} \subseteq BOOLEAN
ASSUME NoneAssumption == None \notin Conns \cup Peers \cup [peer : Peers, to : Conns]

VARIABLES
  connections,    \* s.connections
  peerConnection, \* s.peerConnection, None where there is no entry
  peers,          \* the keys of the manager's m.peers
  alive,          \* the socket: off (not made yet), up, gone (closed by either side)
  accept,         \* handleWebSocket: none, registered, started
  readPc,         \* readPump
  writePc,        \* writePump: none, running, done
  closePc,        \* the body of Close
  cleanup,        \* the cleanup goroutine: none, waiting, last, done
  creating,       \* readPump's resp.PeerID, between CreatePeer and ws.peerID
  peer,           \* ws.peerID once ws.peerCreated is set
  closing,        \* Close's local peerID
  queued,         \* the number of messages in ws.sendCh
  requests,       \* the number of requests read so far
  courier,        \* the callback between its lookup and its SendMessage
  timer,          \* the exit timer is running
  cancelled,      \* s.ctx is cancelled
  mainPc,         \* main: serving, stopping, locking, closing, shutdown, exited
  toClose,        \* the connections Stop has yet to close
  stopOn          \* the connection whose Close Stop is running

pumpVars  == <<readPc, creating, peer, requests>>
closeVars == <<closePc, closing>>
connVars  == <<connections, accept, cleanup>>
peerVars  == <<peers, peerConnection>>
mainVars  == <<mainPc, toClose, stopOn>>
timerVars == <<timer, cancelled>>
vars == <<pumpVars, writePc, closeVars, connVars, peerVars, alive, queued,
          courier, timerVars, mainVars>>

Init ==
  /\ connections = {}
  /\ peerConnection = [k \in Peers |-> None]
  /\ peers = {}
  /\ alive = [c \in Conns |-> "off"]
  /\ accept = [c \in Conns |-> "none"]
  /\ readPc = [c \in Conns |-> "none"]
  /\ writePc = [c \in Conns |-> "none"]
  /\ closePc = [c \in Conns |-> "open"]
  /\ cleanup = [c \in Conns |-> "none"]
  /\ creating = [c \in Conns |-> None]
  /\ peer = [c \in Conns |-> None]
  /\ closing = [c \in Conns |-> None]
  /\ queued = [c \in Conns |-> 0]
  /\ requests = [c \in Conns |-> 0]
  /\ courier = None
  /\ timer = FALSE
  /\ cancelled = FALSE
  /\ mainPc = "serving"
  /\ toClose = {}
  /\ stopOn = None

Running == mainPc # "exited"

\* s.mu is free: only Stop holds it from one step to another.
Unlocked == Running /\ mainPc # "closing"

-----------------------------------------------------------------------------
(* WSConnection.SendMessage and WSConnection.Close                         *)

\* SendMessage succeeds; it fails when the connection is closed or has no room.
CanQueue(c) == closePc[c] = "open" /\ queued[c] < SendCap

Enqueue(c) == queued' = [queued EXCEPT ![c] = @ + 1]

\* Close tests and sets ws.closed and notes the peer: the first caller goes on.
TestAndClose(c) ==
  IF closePc[c] # "open" THEN UNCHANGED closeVars
  ELSE /\ closing' = [closing EXCEPT ![c] = peer[c]]
       /\ closePc' = [closePc EXCEPT ![c] =
                        IF peer[c] = None THEN "signal" ELSE "unregister"]

CloseStep(c, from, to) == /\ Running
                          /\ closePc[c] = from
                          /\ closePc' = [closePc EXCEPT ![c] = to]

\* Mutant: Close does not take the peer out of the server's table.
UnregisterPeerForgotten(c) ==
  /\ Unlocked
  /\ CloseStep(c, "unregister", "remove")
  /\ UNCHANGED <<peerConnection, closing, pumpVars, writePc, connVars, peers, alive,
                 queued, courier, timerVars, mainVars>>

UnregisterPeer(c) ==
  /\ Unlocked
  /\ CloseStep(c, "unregister", "remove")
  /\ peerConnection' = [peerConnection EXCEPT ![closing[c]] = None]
  /\ UNCHANGED <<closing, pumpVars, writePc, connVars, peers, alive, queued,
                 courier, timerVars, mainVars>>

\* Mutant: the peer is left to the manager.
RemovePeerForgotten(c) ==
  /\ CloseStep(c, "remove", "signal")
  /\ UNCHANGED <<peers, closing, pumpVars, writePc, connVars, peerConnection, alive,
                 queued, courier, timerVars, mainVars>>

\* The peer's key can be used again from here on, while its host is closed.
RemovePeer(c) ==
  /\ CloseStep(c, "remove", "signal")
  /\ peers' = peers \ {closing[c]}
  /\ UNCHANGED <<closing, pumpVars, writePc, connVars, peerConnection, alive,
                 queued, courier, timerVars, mainVars>>

\* close(ws.closeCh) and ws.conn.Close()
SignalClosed(c) ==
  /\ CloseStep(c, "signal", "closed")
  /\ alive' = [alive EXCEPT ![c] = "gone"]
  /\ UNCHANGED <<closing, pumpVars, writePc, connVars, peerVars, queued, courier,
                 timerVars, mainVars>>

CloseBody(c) == UnregisterPeer(c) \/ RemovePeer(c) \/ SignalClosed(c)

-----------------------------------------------------------------------------
(* readPump: what it reads was sent, perhaps before the socket was lost    *)

ReadStep(c, from, to) == /\ Running
                         /\ readPc[c] = from
                         /\ readPc' = [readPc EXCEPT ![c] = to]

ReadRequest(c, to) == /\ ReadStep(c, "reading", to)
                      /\ requests[c] < MaxRequests
                      /\ requests' = [requests EXCEPT ![c] = @ + 1]

\* Mutant: the manager does not look for a peer with the same ID.
CreatePeerUnchecked(c, k) ==
  /\ ReadRequest(c, "set")
  /\ Disciplined => requests[c] = 0
  /\ peers' = peers \cup {k}
  /\ creating' = [creating EXCEPT ![c] = k]
  /\ UNCHANGED <<peer, writePc, closeVars, connVars, peerConnection, alive, queued,
                 courier, timerVars, mainVars>>

\* A "peer" request: the manager creates the peer unless its ID is in use.
CreatePeer(c, k) ==
  /\ ReadRequest(c, "set")
  /\ Disciplined => requests[c] = 0
  /\ k \notin peers
  /\ peers' = peers \cup {k}
  /\ creating' = [creating EXCEPT ![c] = k]
  /\ UNCHANGED <<peer, writePc, closeVars, connVars, peerConnection, alive, queued,
                 courier, timerVars, mainVars>>

\* A "peer" request that fails, or any other request.
HandleRequest(c) ==
  /\ ReadRequest(c, "respond")
  /\ UNCHANGED <<creating, peer, writePc, closeVars, connVars, peerVars, alive, queued,
                 courier, timerVars, mainVars>>

\* ws.peerID and ws.peerCreated are set, whether ws is closed or not.
SetPeerID(c) ==
  /\ ReadStep(c, "set", "register")
  /\ peer' = [peer EXCEPT ![c] = creating[c]]
  /\ creating' = [creating EXCEPT ![c] = None]
  /\ UNCHANGED <<requests, writePc, closeVars, connVars, peerVars, alive, queued,
                 courier, timerVars, mainVars>>

RegisterPeer(c) ==
  /\ Unlocked
  /\ ReadStep(c, "register", "respond")
  /\ peerConnection' = [peerConnection EXCEPT ![peer[c]] = c]
  /\ UNCHANGED <<creating, peer, requests, writePc, closeVars, connVars, peers, alive,
                 queued, courier, timerVars, mainVars>>

\* Mutant: a response is put in the buffer whatever room it has.
RespondUnbounded(c) ==
  /\ ReadStep(c, "respond", "reading")
  /\ Enqueue(c)
  /\ UNCHANGED <<creating, peer, requests, writePc, closeVars, connVars, peerVars, alive,
                 courier, timerVars, mainVars>>

\* The response is queued; if it cannot be, readPump returns and closes.
Respond(c) ==
  /\ IF CanQueue(c)
     THEN ReadStep(c, "respond", "reading") /\ Enqueue(c) /\ UNCHANGED closeVars
     ELSE ReadStep(c, "respond", "done") /\ TestAndClose(c) /\ UNCHANGED queued
  /\ UNCHANGED <<creating, peer, requests, writePc, connVars, peerVars, alive,
                 courier, timerVars, mainVars>>

\* Mutant: readPump returns without closing the connection.
ReadFailsNoClose(c) ==
  /\ ReadStep(c, "reading", "done")
  /\ alive[c] = "gone"
  /\ UNCHANGED <<closeVars, creating, peer, requests, writePc, connVars, peerVars, alive,
                 queued, courier, timerVars, mainVars>>

ReadFails(c) ==
  /\ ReadStep(c, "reading", "done")
  /\ alive[c] = "gone"
  /\ TestAndClose(c)
  /\ UNCHANGED <<creating, peer, requests, writePc, connVars, peerVars, alive, queued,
                 courier, timerVars, mainVars>>

\* The steps of readPump that wait for no client.
ReadPump(c) == SetPeerID(c) \/ RegisterPeer(c) \/ Respond(c) \/ ReadFails(c)

-----------------------------------------------------------------------------
(* writePump                                                               *)

\* A write to a socket the client has left may still succeed.
WriteMessage(c) ==
  /\ Running
  /\ writePc[c] = "running"
  /\ queued[c] > 0
  /\ queued' = [queued EXCEPT ![c] = @ - 1]
  /\ UNCHANGED <<writePc, pumpVars, closeVars, connVars, peerVars, alive, courier,
                 timerVars, mainVars>>

WriteFails(c) ==
  /\ Running
  /\ writePc[c] = "running"
  /\ queued[c] > 0
  /\ alive[c] = "gone"
  /\ queued' = [queued EXCEPT ![c] = @ - 1]
  /\ writePc' = [writePc EXCEPT ![c] = "done"]
  /\ TestAndClose(c)
  /\ UNCHANGED <<pumpVars, connVars, peerVars, alive, courier, timerVars, mainVars>>

\* <-ws.closeCh: the Close that writePump defers finds the connection closed.
WriterSeesClose(c) ==
  /\ Running
  /\ writePc[c] = "running"
  /\ closePc[c] = "closed"
  /\ writePc' = [writePc EXCEPT ![c] = "done"]
  /\ UNCHANGED <<pumpVars, closeVars, connVars, peerVars, alive, queued, courier,
                 timerVars, mainVars>>

WritePump(c) == WriteMessage(c) \/ WriteFails(c) \/ WriterSeesClose(c)

-----------------------------------------------------------------------------
(* handleWebSocket and its cleanup goroutine, the exit timer               *)

\* A client connects; the connection enters s.connections.
Accept(c) ==
  /\ Unlocked
  /\ accept[c] = "none"
  /\ accept' = [accept EXCEPT ![c] = "registered"]
  /\ alive' = [alive EXCEPT ![c] = "up"]
  /\ connections' = connections \cup {c}
  /\ UNCHANGED <<cleanup, pumpVars, writePc, closeVars, peerVars, queued, courier,
                 timerVars, mainVars>>

\* cancelExitTimer, wsConn.Start and the goroutine that will clean up.
StartConnection(c) ==
  /\ Running
  /\ accept[c] = "registered"
  /\ accept' = [accept EXCEPT ![c] = "started"]
  /\ timer' = FALSE
  /\ readPc' = [readPc EXCEPT ![c] = "reading"]
  /\ writePc' = [writePc EXCEPT ![c] = "running"]
  /\ cleanup' = [cleanup EXCEPT ![c] = "waiting"]
  /\ UNCHANGED <<connections, creating, peer, requests, closeVars, peerVars, alive,
                 queued, courier, cancelled, mainVars>>

\* Mutant: the connections are counted before this one is deleted.
CountThenDelete(c) ==
  /\ Unlocked
  /\ cleanup[c] = "waiting"
  /\ closePc[c] = "closed"
  /\ connections' = connections \ {c}
  /\ cleanup' = [cleanup EXCEPT ![c] =
                   IF connections = {} /\ ~Linger THEN "last" ELSE "done"]
  /\ UNCHANGED <<accept, pumpVars, writePc, closeVars, peerVars, alive, queued, courier,
                 timerVars, mainVars>>

\* <-wsConn.closeCh: the connection leaves s.connections, and those left are counted.
DeleteConnection(c) ==
  /\ Unlocked
  /\ cleanup[c] = "waiting"
  /\ closePc[c] = "closed"
  /\ connections' = connections \ {c}
  /\ cleanup' = [cleanup EXCEPT ![c] =
                   IF connections' = {} /\ ~Linger THEN "last" ELSE "done"]
  /\ UNCHANGED <<accept, pumpVars, writePc, closeVars, peerVars, alive, queued, courier,
                 timerVars, mainVars>>

\* startExitTimer, after s.mu was given back.
StartExitTimer(c) ==
  /\ Running
  /\ cleanup[c] = "last"
  /\ cleanup' = [cleanup EXCEPT ![c] = "done"]
  /\ timer' = TRUE
  /\ UNCHANGED <<connections, accept, pumpVars, writePc, closeVars, peerVars, alive,
                 queued, courier, cancelled, mainVars>>

Cleanup(c) == DeleteConnection(c) \/ StartExitTimer(c)

\* Five seconds have passed: s.cancel().
TimerFires ==
  /\ Running
  /\ timer
  /\ timer' = FALSE
  /\ cancelled' = TRUE
  /\ UNCHANGED <<connVars, pumpVars, writePc, closeVars, peerVars, alive, queued,
                 courier, mainVars>>

-----------------------------------------------------------------------------
(* Messages for a peer, from the network or about its requests             *)

\* The connection that owns the peer is looked up.
LookUp(k) ==
  /\ Unlocked
  /\ courier = None
  /\ peerConnection[k] # None
  /\ courier' = [peer |-> k, to |-> peerConnection[k]]
  /\ UNCHANGED <<connVars, pumpVars, writePc, closeVars, peerVars, alive, queued,
                 timerVars, mainVars>>

\* Mutant: SendMessage does not test ws.closed.
DeliverUnchecked ==
  /\ Running
  /\ courier # None
  /\ courier' = None
  /\ IF queued[courier.to] < SendCap THEN Enqueue(courier.to) ELSE UNCHANGED queued
  /\ UNCHANGED <<connVars, pumpVars, writePc, closeVars, peerVars, alive, timerVars,
                 mainVars>>

\* It is sent the message, which is dropped if that fails.
Deliver ==
  /\ Running
  /\ courier # None
  /\ courier' = None
  /\ IF CanQueue(courier.to) THEN Enqueue(courier.to) ELSE UNCHANGED queued
  /\ UNCHANGED <<connVars, pumpVars, writePc, closeVars, peerVars, alive, timerVars,
                 mainVars>>

-----------------------------------------------------------------------------
(* main and Stop                                                           *)

MainStep(from, to) == mainPc = from /\ mainPc' = to

StopVars == <<connVars, pumpVars, writePc, peerVars, alive, queued, courier, cancelled>>

\* SIGINT or SIGTERM
Signal ==
  /\ MainStep("serving", "stopping")
  /\ UNCHANGED <<toClose, stopOn, timer, closeVars, StopVars>>

\* <-srv.Done()
ContextDone ==
  /\ MainStep("serving", "stopping")
  /\ cancelled
  /\ UNCHANGED <<toClose, stopOn, timer, closeVars, StopVars>>

StopExitTimer ==
  /\ MainStep("stopping", "locking")
  /\ timer' = FALSE
  /\ UNCHANGED <<toClose, stopOn, closeVars, StopVars>>

StopLocks ==
  /\ MainStep("locking", "closing")
  /\ toClose' = connections
  /\ UNCHANGED <<stopOn, timer, closeVars, StopVars>>

\* conn.Close() in the loop of Stop: main runs the body if it is the first.
StopCloses(c) ==
  /\ mainPc = "closing"
  /\ stopOn = None
  /\ c \in toClose
  /\ toClose' = toClose \ {c}
  /\ stopOn' = IF closePc[c] = "open" THEN c ELSE None
  /\ TestAndClose(c)
  /\ UNCHANGED <<mainPc, timer, StopVars>>

StopGoesOn ==
  /\ mainPc = "closing"
  /\ stopOn # None
  /\ closePc[stopOn] = "closed"
  /\ stopOn' = None
  /\ UNCHANGED <<mainPc, toClose, timer, closeVars, StopVars>>

StopUnlocks ==
  /\ MainStep("closing", "shutdown")
  /\ toClose = {} /\ stopOn = None
  /\ UNCHANGED <<toClose, stopOn, timer, closeVars, StopVars>>

\* httpServer.Shutdown, pidfile.Unregister, and main returns.
Exit ==
  /\ MainStep("shutdown", "exited")
  /\ UNCHANGED <<toClose, stopOn, timer, closeVars, StopVars>>

Main == \/ ContextDone \/ StopExitTimer \/ StopLocks \/ (\E c \in Conns : StopCloses(c))
        \/ StopGoesOn \/ StopUnlocks \/ Exit

-----------------------------------------------------------------------------

\* The client closes its socket, reloads the page or is lost.
ClientLeaves(c) ==
  /\ Running
  /\ alive[c] = "up"
  /\ alive' = [alive EXCEPT ![c] = "gone"]
  /\ UNCHANGED <<connVars, pumpVars, writePc, closeVars, peerVars, queued, courier,
                 timerVars, mainVars>>

Next ==
  \/ \E c \in Conns : \/ Accept(c) \/ StartConnection(c) \/ Cleanup(c)
                      \/ HandleRequest(c) \/ (\E k \in Peers : CreatePeer(c, k))
                      \/ ReadPump(c) \/ WritePump(c) \/ CloseBody(c)
                      \/ ClientLeaves(c)
  \/ \E k \in Peers : LookUp(k)
  \/ Deliver \/ TimerFires \/ Signal \/ Main

\* Every goroutine that can take a step takes one, a running timer fires and what a
\* socket has buffered is written; clients and signals owe nothing.
Fairness ==
  /\ \A c \in Conns : /\ WF_vars(StartConnection(c)) /\ WF_vars(Cleanup(c))
                      /\ WF_vars(ReadPump(c)) /\ WF_vars(WritePump(c))
                      /\ WF_vars(CloseBody(c))
  /\ WF_vars(Deliver) /\ WF_vars(TimerFires) /\ WF_vars(Main)

Spec == Init /\ [][Next]_vars

FairSpec == Spec /\ Fairness

-----------------------------------------------------------------------------
(* Properties                                                              *)

\* Every variable has its type; in particular a send buffer never holds more than
\* its capacity.
TypeOK ==
  /\ connections \subseteq Conns /\ toClose \subseteq Conns
  /\ peers \subseteq Peers
  /\ peerConnection \in [Peers -> Conns \cup {None}]
  /\ alive \in [Conns -> {"off", "up", "gone"}]
  /\ accept \in [Conns -> {"none", "registered", "started"}]
  /\ readPc \in [Conns -> {"none", "reading", "set", "register", "respond", "done"}]
  /\ writePc \in [Conns -> {"none", "running", "done"}]
  /\ closePc \in [Conns -> {"open", "unregister", "remove", "signal", "closed"}]
  /\ cleanup \in [Conns -> {"none", "waiting", "last", "done"}]
  /\ creating \in [Conns -> Peers \cup {None}]
  /\ peer \in [Conns -> Peers \cup {None}]
  /\ closing \in [Conns -> Peers \cup {None}]
  /\ queued \in [Conns -> 0..SendCap]
  /\ requests \in [Conns -> 0..MaxRequests]
  /\ courier = None \/ courier \in [peer : Peers, to : Conns]
  /\ timer \in BOOLEAN /\ cancelled \in BOOLEAN
  /\ mainPc \in {"serving", "stopping", "locking", "closing", "shutdown", "exited"}
  /\ stopOn \in Conns \cup {None}

\* A connection answers for a peer from its creation until Close has removed it.
IsCreating(c, k) == readPc[c] = "set" /\ creating[c] = k
Owns(c, k)       == closePc[c] = "open" /\ peer[c] = k
IsRemoving(c, k) == closePc[c] \in {"unregister", "remove"} /\ closing[c] = k

Claims(c, k) == IsCreating(c, k) \/ Owns(c, k) \/ IsRemoving(c, k)

\* No two connections ever answer for one peer, and the peer of a connection that
\* answers for it is there: the test for duplicates in CreatePeer and the order of the
\* steps of Close are enough, whatever clients do (two tabs, a reload, a second "peer").
OneOwner ==
  \A k \in Peers : /\ \A c, d \in Conns : Claims(c, k) /\ Claims(d, k) => c = d
                   /\ \A c \in Conns : Claims(c, k) => k \in peers

\* While the server serves, the table that routes messages to browsers has an entry for
\* every peer whose owner has registered it, naming that owner, and no entry that Close
\* will not take out again (onPeerData: "Send only to the connection that owns the
\* receiving peer").
RoutedToOwner ==
  mainPc = "serving" =>
    \A c \in Conns, k \in Peers :
      /\ Owns(c, k) /\ readPc[c] # "register" => peerConnection[k] = c
      /\ peerConnection[k] = c => Owns(c, k) \/ (IsRemoving(c, k) /\ closePc[c] = "unregister")

\* A callback that looked up a connection before it was closed does not put the message
\* in its buffer when another connection has taken the peer over meanwhile.
DeliveredToOwner ==
  [][courier # None /\ courier' = None /\ queued'[courier.to] > queued[courier.to]
       => \A d \in Conns \ {courier.to} : ~Owns(d, courier.peer)]_vars

\* While the server serves, no peer outlives the connection it was created for: each is
\* claimed by one (Close: "Clean up peer if it was created").
NoOrphanPeer == mainPc = "serving" => \A k \in peers : \E c \in Conns : Claims(c, k)

\* Once its socket is lost, a connection is closed, its peer removed, although two pumps
\* and the response to a full buffer race to do it.
LostIsClosed ==
  \A c \in Conns : alive[c] = "gone" ~> closePc[c] = "closed" \/ mainPc # "serving"

\* A client has come and all that came have left for good.
Abandoned == /\ \E c \in Conns : alive[c] = "gone"
             /\ \A c \in Conns : alive[c] # "up"

\* Without --linger, a server that all clients have left exits, however the ends of the
\* connections and the starts and stops of the timer interleave (README, Auto-Exit).
AutoExit == <>[]Abandoned => <>(mainPc # "serving")

\* A started connection that nobody has closed.
Live(c) == accept[c] = "started" /\ alive[c] = "up" /\ closePc[c] = "open"

\* README, Auto-Exit: "If a new browser connects within 5 seconds, countdown is
\* cancelled".  The code counts the connections under s.mu and starts the timer after it.
CountdownCancelled == timer => \A c \in Conns : ~Live(c)

\* ps_integration_test.go: a server sent SIGTERM shuts down and leaves the list of
\* instances.  Stop holds s.mu while it closes connections, whose peers need s.mu.
StopCompletes == mainPc = "stopping" ~> mainPc = "exited"
=============================================================================
