---------------------------- MODULE Server_proofs ----------------------------
(***************************************************************************)
(* What is proved of Server for every number of connections, peers,        *)
(* requests and places in a send buffer, whatever clients do.              *)
(***************************************************************************)
EXTENDS Server, TLAPS

LEMMA TypeInit == Init => TypeOK
<1> SUFFICES ASSUME Init PROVE TypeOK
  OBVIOUS
<1>1. 0 \in 0..SendCap /\ 0 \in 0..MaxRequests
  BY SendCapAssumption, MaxRequestsAssumption
<1>2. /\ queued \in [Conns -> 0..SendCap]
      /\ requests \in [Conns -> 0..MaxRequests]
  BY <1>1 DEF Init
<1> QED
  BY <1>2 DEF Init, TypeOK

\* TestAndClose changes closePc and closing, and nothing but them.
LEMMA TypeTestAndClose ==
  ASSUME TypeOK, NEW c \in Conns, TestAndClose(c)
  PROVE  /\ closePc' \in [Conns -> {"open", "unregister", "remove", "signal", "closed"}]
         /\ closing' \in [Conns -> Peers \cup {None}]
  BY DEF TypeOK, TestAndClose, closeVars

\* Close and readPump.
LEMMA TypePumps ==
  ASSUME TypeOK, NEW c \in Conns,
         CloseBody(c) \/ HandleRequest(c) \/ (\E k \in Peers : CreatePeer(c, k)) \/ ReadPump(c)
  PROVE  TypeOK'
<1> USE DEF TypeOK, pumpVars, closeVars, connVars, peerVars, mainVars, timerVars,
            CloseStep, ReadStep, ReadRequest
<1>1. CASE UnregisterPeer(c)
  BY <1>1 DEF UnregisterPeer
<1>2. CASE RemovePeer(c)
  BY <1>2 DEF RemovePeer
<1>3. CASE SignalClosed(c)
  BY <1>3 DEF SignalClosed
<1>4. CASE HandleRequest(c)
  BY <1>4, MaxRequestsAssumption DEF HandleRequest
<1>5. CASE \E k \in Peers : CreatePeer(c, k)
  BY <1>5, MaxRequestsAssumption DEF CreatePeer
<1>6. CASE SetPeerID(c)
  BY <1>6 DEF SetPeerID
<1>7. CASE RegisterPeer(c)
  BY <1>7 DEF RegisterPeer
<1>8. CASE Respond(c)
  <2>1. CASE CanQueue(c)
    BY <1>8, <2>1, SendCapAssumption DEF Respond, CanQueue, Enqueue
  <2>2. CASE ~CanQueue(c)
    BY <1>8, <2>2, TypeTestAndClose DEF Respond
  <2> QED
    BY <2>1, <2>2
<1>9. CASE ReadFails(c)
  BY <1>9, TypeTestAndClose DEF ReadFails
<1> QED
  BY <1>1, <1>2, <1>3, <1>4, <1>5, <1>6, <1>7, <1>8, <1>9 DEF CloseBody, ReadPump

\* The other goroutines of a connection, and its client.
LEMMA TypeConnection ==
  ASSUME TypeOK, NEW c \in Conns,
         Accept(c) \/ StartConnection(c) \/ Cleanup(c) \/ WritePump(c) \/ ClientLeaves(c)
  PROVE  TypeOK'
<1> USE DEF TypeOK, pumpVars, closeVars, connVars, peerVars, mainVars, timerVars
<1>1. CASE Accept(c)
  BY <1>1 DEF Accept
<1>2. CASE StartConnection(c)
  BY <1>2 DEF StartConnection
<1>3. CASE DeleteConnection(c)
  BY <1>3 DEF DeleteConnection
<1>4. CASE StartExitTimer(c)
  BY <1>4 DEF StartExitTimer
<1>5. CASE WriteMessage(c)
  BY <1>5, SendCapAssumption DEF WriteMessage
<1>6. CASE WriteFails(c)
  <2>1. queued' \in [Conns -> 0..SendCap]
    BY <1>6, SendCapAssumption DEF WriteFails
  <2> QED
    BY <1>6, <2>1, TypeTestAndClose DEF WriteFails
<1>7. CASE WriterSeesClose(c)
  BY <1>7 DEF WriterSeesClose
<1>8. CASE ClientLeaves(c)
  BY <1>8 DEF ClientLeaves
<1> QED
  BY <1>1, <1>2, <1>3, <1>4, <1>5, <1>6, <1>7, <1>8 DEF Cleanup, WritePump

\* The callbacks, the timer and main.
LEMMA TypeServer ==
  ASSUME TypeOK, (\E k \in Peers : LookUp(k)) \/ Deliver \/ TimerFires \/ Signal \/ Main
  PROVE  TypeOK'
<1> USE DEF TypeOK, pumpVars, closeVars, connVars, peerVars, mainVars, timerVars,
            StopVars, MainStep
<1>1. CASE \E k \in Peers : LookUp(k)
  BY <1>1 DEF LookUp
<1>2. CASE Deliver
  BY <1>2, SendCapAssumption DEF Deliver, CanQueue, Enqueue
<1>3. CASE TimerFires
  BY <1>3 DEF TimerFires
<1>4. CASE Signal
  BY <1>4 DEF Signal
<1>5. CASE ContextDone
  BY <1>5 DEF ContextDone
<1>6. CASE StopExitTimer
  BY <1>6 DEF StopExitTimer
<1>7. CASE StopLocks
  BY <1>7 DEF StopLocks
<1>8. CASE \E c \in Conns : StopCloses(c)
  <2> PICK c \in Conns : StopCloses(c)
    BY <1>8
  <2> QED
    BY TypeTestAndClose DEF StopCloses
<1>9. CASE StopGoesOn
  BY <1>9 DEF StopGoesOn
<1>10. CASE StopUnlocks
  BY <1>10 DEF StopUnlocks
<1>11. CASE Exit
  BY <1>11 DEF Exit
<1> QED
  BY <1>1, <1>2, <1>3, <1>4, <1>5, <1>6, <1>7, <1>8, <1>9, <1>10, <1>11 DEF Main

LEMMA TypeStep == TypeOK /\ [Next]_vars => TypeOK'
<1> SUFFICES ASSUME TypeOK, [Next]_vars PROVE TypeOK'
  OBVIOUS
<1>1. CASE UNCHANGED vars
  BY <1>1 DEF vars, pumpVars, closeVars, connVars, peerVars, mainVars, timerVars, TypeOK
<1>2. CASE Next
  BY <1>2, TypePumps, TypeConnection, TypeServer DEF Next
<1> QED
  BY <1>1, <1>2

\* Type correctness; in particular no send buffer (ws.sendCh) holds more than it has
\* room for.
THEOREM TypeCorrect == Spec => []TypeOK
  BY TypeInit, TypeStep, PTL DEF Spec

-----------------------------------------------------------------------------
(* Who answers for a peer.  Three steps give a connection a claim or take   *)
(* a peer from the manager: CreatePeer, SetPeerID and RemovePeer.  Every    *)
(* other step is quiet.                                                     *)

Quiet ==
  /\ peers \subseteq peers'
  /\ \A d \in Conns : closePc'[d] = "open" => closePc[d] = "open"
  /\ \A d \in Conns, k \in Peers :
       /\ IsCreating(d, k)' => IsCreating(d, k)
       /\ Owns(d, k)' => Owns(d, k)
       /\ IsRemoving(d, k)' => Owns(d, k) \/ IsRemoving(d, k)

\* A connection's own claims to a peer do not overlap.
Exclusive ==
  \A c \in Conns, k \in Peers : IsCreating(c, k) => ~Owns(c, k) /\ ~IsRemoving(c, k)

OwnerInv == TypeOK /\ OneOwner /\ Exclusive

\* The first call of Close turns the ownership of the peer into its removal.
LEMMA TestAndCloseQuiet ==
  ASSUME TypeOK, NEW c \in Conns, TestAndClose(c),
         UNCHANGED <<peers, peer, creating>>,
         \A d \in Conns : readPc'[d] = "set" => readPc[d] = "set"
  PROVE  Quiet
<1>1. \A d \in Conns : closePc'[d] = "open" => closePc[d] = "open"
  BY DEF TypeOK, TestAndClose, closeVars
<1>2. ASSUME NEW d \in Conns, NEW k \in Peers, IsRemoving(d, k)'
      PROVE  Owns(d, k) \/ IsRemoving(d, k)
  <2>1. CASE d = c /\ closePc[c] = "open"
    BY <1>2, <2>1 DEF TypeOK, TestAndClose, IsRemoving, Owns
  <2>2. CASE d # c \/ closePc[c] # "open"
    BY <1>2, <2>2 DEF TypeOK, TestAndClose, closeVars, IsRemoving
  <2> QED
    BY <2>1, <2>2
<1> QED
  BY <1>1, <1>2 DEF Quiet, IsCreating, Owns

\* A step of a goroutine of a connection that closes nothing is quiet as well.
LEMMA UnchangedQuiet ==
  ASSUME UNCHANGED <<peers, peer, creating, closing, closePc>>,
         \A d \in Conns : readPc'[d] = "set" => readPc[d] = "set"
  PROVE  Quiet
  BY DEF Quiet, IsCreating, Owns, IsRemoving

LEMMA ConnectionQuiet ==
  ASSUME TypeOK, NEW c \in Conns,
         \/ Accept(c) \/ StartConnection(c) \/ Cleanup(c) \/ HandleRequest(c)
         \/ RegisterPeer(c) \/ Respond(c) \/ ReadFails(c) \/ WritePump(c)
         \/ UnregisterPeer(c) \/ SignalClosed(c) \/ ClientLeaves(c)
  PROVE  Quiet
<1> USE DEF pumpVars, closeVars, connVars, peerVars, mainVars, timerVars
<1>1. CASE Accept(c) \/ Cleanup(c) \/ ClientLeaves(c)
  <2>1. UNCHANGED <<peers, peer, creating, closing, closePc, readPc>>
    BY <1>1 DEF Accept, Cleanup, DeleteConnection, StartExitTimer, ClientLeaves
  <2> QED
    BY <2>1, UnchangedQuiet
<1>2. CASE StartConnection(c) \/ HandleRequest(c) \/ RegisterPeer(c)
  <2>1. UNCHANGED <<peers, peer, creating, closing, closePc>>
    BY <1>2 DEF StartConnection, HandleRequest, RegisterPeer
  <2>2. \A d \in Conns : readPc'[d] = "set" => readPc[d] = "set"
    BY <1>2 DEF TypeOK, StartConnection, HandleRequest, RegisterPeer, ReadRequest, ReadStep
  <2> QED
    BY <2>1, <2>2, UnchangedQuiet
<1>3. CASE Respond(c) \/ ReadFails(c)
  <2>1. UNCHANGED <<peers, peer, creating>> /\ (UNCHANGED closeVars \/ TestAndClose(c))
    BY <1>3 DEF Respond, ReadFails
  <2>2. \A d \in Conns : readPc'[d] = "set" => readPc[d] = "set"
    BY <1>3 DEF TypeOK, Respond, ReadFails, ReadStep
  <2> QED
    BY <2>1, <2>2, UnchangedQuiet, TestAndCloseQuiet
<1>4. CASE WritePump(c)
  <2>1. UNCHANGED <<peers, peer, creating, readPc>> /\ (UNCHANGED closeVars \/ TestAndClose(c))
    BY <1>4 DEF WritePump, WriteMessage, WriteFails, WriterSeesClose
  <2> QED
    BY <2>1, UnchangedQuiet, TestAndCloseQuiet
<1>5. CASE UnregisterPeer(c) \/ SignalClosed(c)
  <2>1. UNCHANGED <<peers, peer, creating, readPc, closing>>
    BY <1>5 DEF UnregisterPeer, SignalClosed
  <2>2. \A d \in Conns : /\ closePc'[d] = "open" => closePc[d] = "open"
                         /\ closePc'[d] \in {"unregister", "remove"}
                              => closePc[d] \in {"unregister", "remove"}
    BY <1>5 DEF TypeOK, UnregisterPeer, SignalClosed, CloseStep
  <2> QED
    BY <2>1, <2>2 DEF Quiet, IsCreating, Owns, IsRemoving
<1> QED
  BY <1>1, <1>2, <1>3, <1>4, <1>5

LEMMA ServerQuiet ==
  ASSUME TypeOK, (\E k \in Peers : LookUp(k)) \/ Deliver \/ TimerFires \/ Signal \/ Main
  PROVE  Quiet
<1> USE DEF pumpVars, closeVars, connVars, peerVars, mainVars, timerVars, StopVars
<1>1. CASE \E c \in Conns : StopCloses(c)
  <2> PICK c \in Conns : StopCloses(c)
    BY <1>1
  <2>1. UNCHANGED <<peers, peer, creating, readPc>> /\ TestAndClose(c)
    BY DEF StopCloses
  <2> QED
    BY <2>1, TestAndCloseQuiet
<1>2. CASE ~\E c \in Conns : StopCloses(c)
  <2>1. UNCHANGED <<peers, peer, creating, closing, closePc, readPc>>
    BY <1>2 DEF LookUp, Deliver, TimerFires, Signal, Main, ContextDone, StopExitTimer,
                StopLocks, StopGoesOn, StopUnlocks, Exit
  <2> QED
    BY <2>1, UnchangedQuiet
<1> QED
  BY <1>1, <1>2

LEMMA StepKinds ==
  ASSUME TypeOK, [Next]_vars
  PROVE  \/ Quiet
         \/ \E c \in Conns : \/ RemovePeer(c) \/ SetPeerID(c)
                             \/ \E k \in Peers : CreatePeer(c, k)
<1>1. CASE UNCHANGED vars
  BY <1>1, UnchangedQuiet DEF vars, pumpVars, closeVars, peerVars
<1>2. CASE Next
  BY <1>2, ConnectionQuiet, ServerQuiet DEF Next, ReadPump, CloseBody
<1> QED
  BY <1>1, <1>2

\* What one step does to the claims, in terms of the claims alone.
LEMMA RemoveEffect ==
  ASSUME TypeOK, NEW c \in Conns, RemovePeer(c)
  PROVE  /\ closePc[c] = "remove" /\ closePc' = [closePc EXCEPT ![c] = "signal"]
         /\ peers' = peers \ {closing[c]}
         /\ UNCHANGED <<closing, peer, creating, readPc>>
  BY DEF RemovePeer, CloseStep, pumpVars

LEMMA SetEffect ==
  ASSUME TypeOK, NEW c \in Conns, SetPeerID(c)
  PROVE  /\ readPc[c] = "set" /\ readPc' = [readPc EXCEPT ![c] = "register"]
         /\ peer' = [peer EXCEPT ![c] = creating[c]]
         /\ creating' = [creating EXCEPT ![c] = None]
         /\ UNCHANGED <<peers, closing, closePc>>
  BY DEF SetPeerID, ReadStep, closeVars, peerVars

LEMMA CreateEffect ==
  ASSUME TypeOK, NEW c \in Conns, NEW k \in Peers, CreatePeer(c, k)
  PROVE  /\ k \notin peers /\ peers' = peers \cup {k}
         /\ readPc[c] = "reading" /\ readPc' = [readPc EXCEPT ![c] = "set"]
         /\ creating' = [creating EXCEPT ![c] = k]
         /\ UNCHANGED <<peer, closing, closePc>>
  BY DEF CreatePeer, ReadRequest, ReadStep, closeVars

\* Claims that RemovePeer leaves are older than it and are to other peers.
LEMMA RemoveClaims ==
  ASSUME OwnerInv, NEW c \in Conns, RemovePeer(c),
         NEW d \in Conns, NEW k \in Peers, Claims(d, k)'
  PROVE  Claims(d, k) /\ k # closing[c]
<1>1. Claims(d, k)
  BY RemoveEffect DEF OwnerInv, TypeOK, Claims, IsCreating, Owns, IsRemoving
<1>2. ASSUME k = closing[c] PROVE FALSE
  <2>1. IsRemoving(c, k)
    BY <1>2, RemoveEffect DEF OwnerInv, IsRemoving
  <2>2. d = c
    BY <1>1, <2>1 DEF OwnerInv, OneOwner, Claims
  <2>3. ~IsCreating(c, k)
    BY <2>1 DEF OwnerInv, Exclusive
  <2> QED
    BY <2>2, <2>3, RemoveEffect
       DEF OwnerInv, TypeOK, Claims, IsCreating, Owns, IsRemoving
<1> QED
  BY <1>1, <1>2

LEMMA SetClaims ==
  ASSUME OwnerInv, NEW c \in Conns, SetPeerID(c),
         NEW d \in Conns, NEW k \in Peers, Claims(d, k)'
  PROVE  Claims(d, k)
  BY SetEffect, NoneAssumption DEF OwnerInv, TypeOK, Claims, IsCreating, Owns, IsRemoving

LEMMA CreateClaims ==
  ASSUME OwnerInv, NEW c \in Conns, NEW j \in Peers, CreatePeer(c, j),
         NEW d \in Conns, NEW k \in Peers, Claims(d, k)'
  PROVE  Claims(d, k) \/ (d = c /\ k = j)
  BY CreateEffect DEF OwnerInv, TypeOK, Claims, IsCreating, Owns, IsRemoving

LEMMA QuietClaims ==
  ASSUME Quiet, NEW d \in Conns, NEW k \in Peers, Claims(d, k)'
  PROVE  Claims(d, k)
  BY DEF Quiet, Claims

LEMMA ExclusiveStep ==
  ASSUME OwnerInv, [Next]_vars
  PROVE  Exclusive'
<1> SUFFICES ASSUME NEW d \in Conns, NEW k \in Peers, IsCreating(d, k)'
             PROVE  ~Owns(d, k)' /\ ~IsRemoving(d, k)'
  BY DEF Exclusive
<1>1. CASE Quiet
  BY <1>1 DEF Quiet, OwnerInv, Exclusive
<1>2. ASSUME NEW c \in Conns, RemovePeer(c)
      PROVE  ~Owns(d, k)' /\ ~IsRemoving(d, k)'
  BY <1>2, RemoveEffect DEF OwnerInv, TypeOK, Exclusive, IsCreating, Owns, IsRemoving
<1>3. ASSUME NEW c \in Conns, SetPeerID(c)
      PROVE  ~Owns(d, k)' /\ ~IsRemoving(d, k)'
  BY <1>3, SetEffect DEF OwnerInv, TypeOK, Exclusive, IsCreating, Owns, IsRemoving
<1>4. ASSUME NEW c \in Conns, NEW j \in Peers, CreatePeer(c, j)
      PROVE  ~Owns(d, k)' /\ ~IsRemoving(d, k)'
  <2>1. CASE IsCreating(d, k)
    BY <1>4, <2>1, CreateEffect DEF OwnerInv, Exclusive, Owns, IsRemoving
  <2>2. CASE ~IsCreating(d, k)
    <3>1. k = j /\ j \notin peers
      BY <1>4, <2>2, CreateEffect DEF OwnerInv, TypeOK, IsCreating
    <3>2. ~Owns(d, k) /\ ~IsRemoving(d, k)
      BY <3>1 DEF OwnerInv, OneOwner, Claims
    <3> QED
      BY <1>4, <3>2, CreateEffect DEF OwnerInv, Owns, IsRemoving
  <2> QED
    BY <2>1, <2>2
<1> QED
  BY <1>1, <1>2, <1>3, <1>4, StepKinds DEF OwnerInv

LEMMA OneOwnerStep ==
  ASSUME OwnerInv, [Next]_vars
  PROVE  OneOwner'
<1> SUFFICES ASSUME NEW k \in Peers
             PROVE  /\ \A c, d \in Conns : Claims(c, k)' /\ Claims(d, k)' => c = d
                    /\ \A c \in Conns : Claims(c, k)' => k \in peers'
  BY DEF OneOwner
<1> DEFINE Goal == /\ \A c, d \in Conns : Claims(c, k)' /\ Claims(d, k)' => c = d
                   /\ \A c \in Conns : Claims(c, k)' => k \in peers'
<1>0. /\ \A c, d \in Conns : Claims(c, k) /\ Claims(d, k) => c = d
      /\ \A c \in Conns : Claims(c, k) => k \in peers
  BY DEF OwnerInv, OneOwner
<1>1. CASE Quiet
  <2>1. peers \subseteq peers'
    BY <1>1 DEF Quiet
  <2> QED
    BY <1>0, <1>1, <2>1, QuietClaims
<1>2. ASSUME NEW b \in Conns, RemovePeer(b)
      PROVE  Goal
  <2>1. peers' = peers \ {closing[b]}
    BY <1>2, RemoveEffect DEF OwnerInv
  <2> QED
    BY <1>0, <1>2, <2>1, RemoveClaims
<1>3. ASSUME NEW b \in Conns, SetPeerID(b)
      PROVE  Goal
  <2>1. peers' = peers
    BY <1>3, SetEffect DEF OwnerInv
  <2> QED
    BY <1>0, <1>3, <2>1, SetClaims
<1>4. ASSUME NEW b \in Conns, NEW j \in Peers, CreatePeer(b, j)
      PROVE  Goal
  <2>1. j \notin peers /\ peers' = peers \cup {j}
    BY <1>4, CreateEffect DEF OwnerInv
  <2> QED
    BY <1>0, <1>4, <2>1, CreateClaims
<1> QED
  BY <1>1, <1>2, <1>3, <1>4, StepKinds DEF OwnerInv

LEMMA OwnerInit == Init => OwnerInv
<1> SUFFICES ASSUME Init PROVE OwnerInv
  OBVIOUS
<1>1. \A c \in Conns, k \in Peers : ~Claims(c, k)
  BY NoneAssumption DEF Init, Claims, IsCreating, Owns, IsRemoving
<1> QED
  BY <1>1, TypeInit DEF OwnerInv, OneOwner, Exclusive, Claims

LEMMA OwnerCorrect == Spec => []OwnerInv
<1>1. OwnerInv /\ [Next]_vars => OwnerInv'
  BY TypeStep, OneOwnerStep, ExclusiveStep DEF OwnerInv
<1> QED
  BY <1>1, OwnerInit, PTL DEF Spec

\* No two connections answer for one peer, whatever clients send and whenever
\* connections are closed: CreatePeer's test for duplicates and the order of the steps of
\* WSConnection.Close (out of the table first, out of the manager next).
THEOREM OneOwnerCorrect == Spec => []OneOwner
<1>1. OwnerInv => OneOwner
  BY DEF OwnerInv
<1> QED
  BY <1>1, OwnerCorrect, PTL

-----------------------------------------------------------------------------
(* Routing.  A connection that was registered for a peer may have been      *)
(* closed since; what holds of it while it is open holds until it closes.   *)

\* While c is open, peer k is there and no other connection answers for it.
SoleClaimant(c, k) ==
  closePc[c] = "open" => k \in peers /\ \A d \in Conns \ {c} : ~Claims(d, k)

LEMMA SoleClaimantStep ==
  ASSUME OwnerInv, [Next]_vars, NEW c \in Conns, NEW k \in Peers, SoleClaimant(c, k)
  PROVE  SoleClaimant(c, k)'
<1> SUFFICES ASSUME closePc'[c] = "open"
             PROVE  k \in peers' /\ \A d \in Conns \ {c} : ~Claims(d, k)'
  BY DEF SoleClaimant
<1>1. CASE Quiet
  <2>1. closePc[c] = "open" /\ peers \subseteq peers'
    BY <1>1 DEF Quiet
  <2> QED
    BY <1>1, <2>1, QuietClaims DEF SoleClaimant
<1>2. ASSUME NEW b \in Conns, RemovePeer(b)
      PROVE  k \in peers' /\ \A d \in Conns \ {c} : ~Claims(d, k)'
  <2>1. closePc[c] = "open" /\ b # c
    BY <1>2, RemoveEffect DEF OwnerInv, TypeOK
  <2>2. IsRemoving(b, k) \/ k # closing[b]
    BY <1>2, RemoveEffect DEF OwnerInv, IsRemoving
  <2>3. k # closing[b]
    BY <2>1, <2>2 DEF SoleClaimant, Claims
  <2> QED
    BY <1>2, <2>1, <2>3, RemoveEffect, RemoveClaims DEF SoleClaimant, OwnerInv
<1>3. ASSUME NEW b \in Conns, SetPeerID(b)
      PROVE  k \in peers' /\ \A d \in Conns \ {c} : ~Claims(d, k)'
  <2>1. closePc[c] = "open" /\ peers' = peers
    BY <1>3, SetEffect DEF OwnerInv
  <2> QED
    BY <1>3, <2>1, SetClaims DEF SoleClaimant
<1>4. ASSUME NEW b \in Conns, NEW j \in Peers, CreatePeer(b, j)
      PROVE  k \in peers' /\ \A d \in Conns \ {c} : ~Claims(d, k)'
  <2>1. closePc[c] = "open" /\ j \notin peers /\ peers' = peers \cup {j}
    BY <1>4, CreateEffect DEF OwnerInv
  <2> QED
    BY <1>4, <2>1, CreateClaims DEF SoleClaimant
<1> QED
  BY <1>1, <1>2, <1>3, <1>4, StepKinds DEF OwnerInv

\* What readPump has yet to register is the connection's own peer.
RegisterInv ==
  \A c \in Conns : readPc[c] = "register" =>
    peer[c] \in Peers /\ \A k \in Peers : peer[c] = k => SoleClaimant(c, k)

RouteInv ==
  \A c \in Conns, k \in Peers :
    /\ peerConnection[k] = c => SoleClaimant(c, k)
    /\ courier = [peer |-> k, to |-> c] => SoleClaimant(c, k)

\* A step enters a connection into the table, or gives it to a callback, in one way.
LEMMA RouteEffect ==
  ASSUME TypeOK, [Next]_vars
  PROVE  /\ \A k \in Peers : \/ peerConnection'[k] \in {peerConnection[k], None}
                             \/ \E c \in Conns : /\ RegisterPeer(c)
                                                 /\ k = peer[c] /\ peerConnection'[k] = c
         /\ \/ courier' \in {courier, None}
            \/ \E k \in Peers : /\ peerConnection[k] # None
                                /\ courier' = [peer |-> k, to |-> peerConnection[k]]
<1> DEFINE Table == \A k \in Peers :
                      \/ peerConnection'[k] \in {peerConnection[k], None}
                      \/ \E c \in Conns : RegisterPeer(c) /\ k = peer[c] /\ peerConnection'[k] = c
           Call  == \/ courier' \in {courier, None}
                    \/ \E k \in Peers : /\ peerConnection[k] # None
                                        /\ courier' = [peer |-> k, to |-> peerConnection[k]]
<1> USE DEF peerVars, StopVars
<1>1. CASE UNCHANGED vars
  BY <1>1 DEF vars
<1>2. ASSUME NEW c \in Conns,
             \/ Accept(c) \/ StartConnection(c) \/ Cleanup(c) \/ HandleRequest(c)
             \/ (\E k \in Peers : CreatePeer(c, k)) \/ ReadPump(c) \/ WritePump(c)
             \/ CloseBody(c) \/ ClientLeaves(c)
      PROVE  Table /\ Call
  <2>1. CASE RegisterPeer(c)
    BY <2>1, ZenonT(40) DEF TypeOK, RegisterPeer
  <2>2. CASE UnregisterPeer(c)
    BY <2>2 DEF TypeOK, UnregisterPeer
  <2>3. CASE ~RegisterPeer(c) /\ ~UnregisterPeer(c)
    <3>1. UNCHANGED <<peerConnection, courier>>
      BY <1>2, <2>3
         DEF Accept, StartConnection, Cleanup, DeleteConnection, StartExitTimer,
             HandleRequest, CreatePeer, ReadPump, SetPeerID, Respond, ReadFails, WritePump,
             WriteMessage, WriteFails, WriterSeesClose, CloseBody, RemovePeer, SignalClosed,
             ClientLeaves
    <3> QED
      BY <3>1
  <2> QED
    BY <2>1, <2>2, <2>3
<1>3. CASE (\E k \in Peers : LookUp(k)) \/ Deliver
  BY <1>3 DEF LookUp, Deliver
<1>4. CASE TimerFires \/ Signal \/ Main
  <2>1. UNCHANGED <<peerConnection, courier>>
    BY <1>4 DEF TimerFires, Signal, Main, ContextDone, StopExitTimer, StopLocks, StopCloses,
                StopGoesOn, StopUnlocks, Exit
  <2> QED
    BY <2>1
<1> QED
  BY <1>1, <1>2, <1>3, <1>4 DEF Next

\* readPump registers what it created: nothing else changes these while it is on its way.
CreatingInv == \A c \in Conns : readPc[c] = "set" => creating[c] \in Peers

LEMMA ReaderEffect ==
  ASSUME TypeOK, [Next]_vars, NEW c \in Conns
  PROVE  /\ \/ readPc'[c] # "set"
            \/ readPc[c] = "set" /\ creating'[c] = creating[c]
            \/ creating'[c] \in Peers
         /\ \/ readPc'[c] # "register"
            \/ readPc[c] = "register" /\ peer'[c] = peer[c]
            \/ SetPeerID(c)
<1> DEFINE Goal == /\ \/ readPc'[c] # "set"
                      \/ readPc[c] = "set" /\ creating'[c] = creating[c]
                      \/ creating'[c] \in Peers
                   /\ \/ readPc'[c] # "register"
                      \/ readPc[c] = "register" /\ peer'[c] = peer[c]
                      \/ SetPeerID(c)
<1> USE DEF pumpVars, StopVars
<1>1. CASE UNCHANGED vars
  BY <1>1 DEF vars
<1>2. ASSUME NEW d \in Conns,
             \/ StartConnection(d) \/ HandleRequest(d) \/ (\E k \in Peers : CreatePeer(d, k))
             \/ ReadPump(d)
      PROVE  Goal
  <2>1. CASE StartConnection(d)
    BY <2>1 DEF TypeOK, StartConnection
  <2>2. CASE HandleRequest(d)
    BY <2>2 DEF TypeOK, HandleRequest, ReadRequest, ReadStep
  <2>3. CASE \E k \in Peers : CreatePeer(d, k)
    BY <2>3, CreateEffect DEF TypeOK
  <2>4. CASE SetPeerID(d)
    BY <2>4, SetEffect DEF TypeOK
  <2>5. CASE RegisterPeer(d) \/ Respond(d) \/ ReadFails(d)
    BY <2>5 DEF TypeOK, RegisterPeer, Respond, ReadFails, ReadStep
  <2> QED
    BY <1>2, <2>1, <2>2, <2>3, <2>4, <2>5 DEF ReadPump
<1>3. ASSUME NEW d \in Conns,
             Accept(d) \/ Cleanup(d) \/ WritePump(d) \/ CloseBody(d) \/ ClientLeaves(d)
      PROVE  Goal
  <2>1. UNCHANGED <<readPc, creating, peer>>
    BY <1>3 DEF Accept, Cleanup, DeleteConnection, StartExitTimer, WritePump, WriteMessage,
                WriteFails, WriterSeesClose, CloseBody, UnregisterPeer, RemovePeer,
                SignalClosed, ClientLeaves
  <2> QED
    BY <2>1
<1>4. CASE (\E k \in Peers : LookUp(k)) \/ Deliver \/ TimerFires \/ Signal \/ Main
  <2>1. UNCHANGED <<readPc, creating, peer>>
    BY <1>4 DEF LookUp, Deliver, TimerFires, Signal, Main, ContextDone, StopExitTimer,
                StopLocks, StopCloses, StopGoesOn, StopUnlocks, Exit
  <2> QED
    BY <2>1
<1> QED
  BY <1>1, <1>2, <1>3, <1>4 DEF Next

DeliveryInv == OwnerInv /\ CreatingInv /\ RegisterInv /\ RouteInv

LEMMA RegisterInvStep ==
  ASSUME DeliveryInv, [Next]_vars
  PROVE  RegisterInv'
<1> SUFFICES ASSUME NEW c \in Conns, readPc'[c] = "register"
             PROVE  peer'[c] \in Peers /\ \A k \in Peers : peer'[c] = k => SoleClaimant(c, k)'
  BY DEF RegisterInv
<1> USE DEF DeliveryInv
<1>1. CASE readPc[c] = "register" /\ peer'[c] = peer[c]
  BY <1>1, SoleClaimantStep DEF RegisterInv
<1>2. CASE SetPeerID(c)
  <2>1. creating[c] \in Peers /\ IsCreating(c, creating[c])
    BY <1>2, SetEffect DEF CreatingInv, OwnerInv, IsCreating
  <2>2. SoleClaimant(c, creating[c])
    BY <2>1 DEF OwnerInv, OneOwner, Claims, SoleClaimant
  <2>3. peer'[c] = creating[c]
    BY <1>2, SetEffect DEF OwnerInv, TypeOK
  <2> QED
    BY <2>1, <2>2, <2>3, SoleClaimantStep
<1> QED
  BY <1>1, <1>2, ReaderEffect DEF OwnerInv

LEMMA RouteInvStep ==
  ASSUME DeliveryInv, [Next]_vars
  PROVE  RouteInv'
<1> USE DEF DeliveryInv
<1> SUFFICES ASSUME NEW c \in Conns, NEW k \in Peers,
                    peerConnection'[k] = c \/ courier' = [peer |-> k, to |-> c]
             PROVE  SoleClaimant(c, k)'
  BY DEF RouteInv
<1>1. CASE SoleClaimant(c, k)
  BY <1>1, SoleClaimantStep
<1>2. CASE peerConnection'[k] = c
  <2>1. CASE peerConnection[k] = c
    BY <1>1, <2>1 DEF RouteInv
  <2>2. CASE RegisterPeer(c) /\ k = peer[c]
    BY <1>1, <2>2 DEF RegisterPeer, ReadStep, RegisterInv
  <2> QED
    BY <1>2, <2>1, <2>2, RouteEffect, NoneAssumption DEF OwnerInv
<1>3. CASE courier' = [peer |-> k, to |-> c]
  <2>1. CASE courier = [peer |-> k, to |-> c]
    BY <1>1, <2>1 DEF RouteInv
  <2>2. CASE peerConnection[k] = c
    BY <1>1, <2>2 DEF RouteInv
  <2>3. CASE courier' = None
    BY <1>3, <2>3, NoneAssumption
  <2> QED
    BY <1>3, <2>1, <2>2, <2>3, RouteEffect DEF OwnerInv
<1> QED
  BY <1>2, <1>3

\* A step that delivers a message is a callback that found room in an open connection.
LEMMA DeliverEffect ==
  ASSUME TypeOK, [Next]_vars, courier # None, courier' = None,
         queued'[courier.to] > queued[courier.to]
  PROVE  closePc[courier.to] = "open"
<1>1. CASE Deliver
  <2>1. CASE CanQueue(courier.to)
    BY <2>1 DEF CanQueue
  <2>2. CASE ~CanQueue(courier.to)
    <3>1. queued' = queued
      BY <1>1, <2>2 DEF Deliver
    <3>2. queued[courier.to] \in Nat
      BY SendCapAssumption DEF TypeOK
    <3> QED
      BY <3>1, <3>2
  <2> QED
    BY <2>1, <2>2
<1>2. CASE UNCHANGED vars
  BY <1>2 DEF vars
<1>3. CASE Next /\ ~Deliver
  <2>1. courier' = courier \/ courier = None
    BY <1>3
       DEF Next, Accept, StartConnection, Cleanup, DeleteConnection, StartExitTimer,
           HandleRequest, CreatePeer, ReadPump, SetPeerID, RegisterPeer, Respond, ReadFails,
           WritePump, WriteMessage, WriteFails, WriterSeesClose, CloseBody, UnregisterPeer,
           RemovePeer, SignalClosed, ClientLeaves, LookUp, TimerFires, Signal, Main, StopVars,
           ContextDone, StopExitTimer, StopLocks, StopCloses, StopGoesOn, StopUnlocks, Exit
  <2> QED
    BY <2>1
<1> QED
  BY <1>1, <1>2, <1>3

LEMMA DeliveryCorrect == Spec => []DeliveryInv
<1>1. Init => DeliveryInv
  <2> SUFFICES ASSUME Init PROVE DeliveryInv
    OBVIOUS
  <2>1. CreatingInv /\ RegisterInv /\ RouteInv
    BY NoneAssumption DEF Init, CreatingInv, RegisterInv, RouteInv
  <2> QED
    BY <2>1, OwnerInit DEF DeliveryInv
<1>2. DeliveryInv /\ [Next]_vars => DeliveryInv'
  <2> SUFFICES ASSUME DeliveryInv, [Next]_vars PROVE DeliveryInv'
    OBVIOUS
  <2>1. OwnerInv'
    BY TypeStep, OneOwnerStep, ExclusiveStep DEF DeliveryInv, OwnerInv
  <2>2. CreatingInv'
    BY ReaderEffect DEF DeliveryInv, OwnerInv, CreatingInv
  <2> QED
    BY <2>1, <2>2, RegisterInvStep, RouteInvStep DEF DeliveryInv
<1> QED
  BY <1>1, <1>2, PTL DEF Spec

\* A message is never put in the buffer of a connection when another connection owns its
\* peer by then, however long the callback was held up between the two critical sections:
\* SendMessage refuses once the old connection is closed, and it is closed before the peer
\* can be created again.
THEOREM DeliveredToOwnerCorrect == Spec => DeliveredToOwner
<1>1. DeliveryInv /\ [Next]_vars =>
        [courier # None /\ courier' = None /\ queued'[courier.to] > queued[courier.to]
           => \A d \in Conns \ {courier.to} : ~Owns(d, courier.peer)]_vars
  <2> SUFFICES ASSUME DeliveryInv, [Next]_vars, courier # None, courier' = None,
                      queued'[courier.to] > queued[courier.to],
                      NEW d \in Conns \ {courier.to}
               PROVE  ~Owns(d, courier.peer)
    OBVIOUS
  <2>1. closePc[courier.to] = "open"
    BY DeliverEffect DEF DeliveryInv, OwnerInv
  <2>2. /\ courier.to \in Conns /\ courier.peer \in Peers
        /\ courier = [peer |-> courier.peer, to |-> courier.to]
    BY DEF DeliveryInv, OwnerInv, TypeOK
  <2>3. SoleClaimant(courier.to, courier.peer)
    BY <2>2 DEF DeliveryInv, RouteInv
  <2> QED
    BY <2>1, <2>3 DEF SoleClaimant, Claims
<1> QED
  BY <1>1, DeliveryCorrect, PTL DEF Spec, DeliveredToOwner

-----------------------------------------------------------------------------
(* Clients that send "peer" once and first, while the server serves.        *)

\* A connection that has not yet been told of its peer, or has not yet registered it.
Fresh(c) == requests[c] = 0 \/ readPc[c] \in {"set", "register"}

\* Nothing has been queued for a fresh connection, so that its writePump has had nothing
\* to write and only its readPump can close it.
FreshInv ==
  \A c \in Conns :
    /\ accept[c] # "started" => readPc[c] = "none"
    /\ readPc[c] \in {"set", "register", "respond"} => requests[c] > 0
    /\ requests[c] = 0 \/ readPc[c] = "set" => peer[c] = None
    /\ Fresh(c) => /\ queued[c] = 0
                   /\ readPc[c] # "done" => closePc[c] = "open"
                   /\ \A k \in Peers : /\ peerConnection[k] # c
                                       /\ courier # [peer |-> k, to |-> c]

\* The table has an entry for each peer that its owner has registered ...
Entered ==
  \A c \in Conns, k \in Peers : Owns(c, k) /\ readPc[c] # "register" => peerConnection[k] = c

\* ... and no entry that Close will not take out.
NoStaleEntry ==
  \A c \in Conns, k \in Peers :
    peerConnection[k] = c => Owns(c, k) \/ (IsRemoving(c, k) /\ closePc[c] = "unregister")

\* Every peer of the manager is claimed.
Claimed == \A k \in peers : \E c \in Conns : Claims(c, k)

TableInv == Entered /\ NoStaleEntry /\ Claimed

ServingInv == mainPc = "serving" => FreshInv /\ TableInv

\* Until main leaves its select, no step of Stop is taken.
LEMMA StillServing ==
  ASSUME [Next]_vars, mainPc' = "serving"
  PROVE  /\ mainPc = "serving"
         /\ \/ UNCHANGED vars
            \/ \E c \in Conns : \/ Accept(c) \/ StartConnection(c) \/ Cleanup(c)
                                \/ HandleRequest(c) \/ (\E k \in Peers : CreatePeer(c, k))
                                \/ ReadPump(c) \/ WritePump(c) \/ CloseBody(c)
                                \/ ClientLeaves(c)
            \/ (\E k \in Peers : LookUp(k)) \/ Deliver \/ TimerFires
<1>1. CASE UNCHANGED vars
  BY <1>1 DEF vars, mainVars
<1>2. CASE Signal \/ Main
  BY <1>2 DEF Signal, Main, MainStep, ContextDone, StopExitTimer, StopLocks, StopCloses,
              StopGoesOn, StopUnlocks, Exit
<1>3. CASE Next /\ ~(Signal \/ Main)
  <2>1. UNCHANGED mainPc
    BY <1>3
       DEF mainVars, Next, Accept, StartConnection, Cleanup, DeleteConnection, StartExitTimer,
           HandleRequest, CreatePeer, ReadPump, SetPeerID, RegisterPeer, Respond, ReadFails,
           WritePump, WriteMessage, WriteFails, WriterSeesClose, CloseBody, UnregisterPeer,
           RemovePeer, SignalClosed, ClientLeaves, LookUp, TimerFires, Deliver
  <2> QED
    BY <1>3, <2>1 DEF Next
<1> QED
  BY <1>1, <1>2, <1>3

LEMMA FreshStep ==
  ASSUME Disciplined, DeliveryInv, FreshInv, [Next]_vars, mainPc' = "serving"
  PROVE  FreshInv'
<1> USE DEF DeliveryInv, OwnerInv, pumpVars, closeVars, connVars, peerVars, mainVars, timerVars
<1>0. TypeOK /\ TypeOK'
  BY TypeStep
<1>1. CASE UNCHANGED vars
  BY <1>1 DEF vars, FreshInv, Fresh
<1>2. ASSUME NEW c \in Conns,
             \/ Accept(c) \/ StartConnection(c) \/ Cleanup(c) \/ HandleRequest(c)
             \/ (\E k \in Peers : CreatePeer(c, k)) \/ ReadPump(c) \/ WritePump(c)
             \/ CloseBody(c) \/ ClientLeaves(c)
      PROVE  FreshInv'
  <2>1. CASE Accept(c)
    BY <2>1, <1>0 DEF TypeOK, Accept, FreshInv, Fresh
  <2>2. CASE StartConnection(c)
    BY <2>2, <1>0 DEF TypeOK, StartConnection, FreshInv, Fresh
  <2>3. CASE Cleanup(c) \/ ClientLeaves(c)
    BY <2>3 DEF Cleanup, DeleteConnection, StartExitTimer, ClientLeaves, FreshInv, Fresh
  <2>4. CASE HandleRequest(c)
    BY <2>4, <1>0 DEF TypeOK, HandleRequest, ReadRequest, ReadStep, FreshInv, Fresh
  <2>5. CASE \E k \in Peers : CreatePeer(c, k)
    BY <2>5, <1>0 DEF TypeOK, CreatePeer, ReadRequest, ReadStep, FreshInv, Fresh
  <2>6. CASE SetPeerID(c)
    BY <2>6, <1>0 DEF TypeOK, SetPeerID, ReadStep, FreshInv, Fresh
  <2>7. CASE RegisterPeer(c)
    BY <2>7, <1>0 DEF TypeOK, RegisterPeer, ReadStep, FreshInv, Fresh
  <2>8. CASE Respond(c)
    BY <2>8, <1>0 DEF TypeOK, Respond, ReadStep, Enqueue, TestAndClose, FreshInv, Fresh
  <2>9. CASE ReadFails(c)
    BY <2>9, <1>0 DEF TypeOK, ReadFails, ReadStep, TestAndClose, FreshInv, Fresh
  <2>10. CASE WritePump(c)
    <3>1. ~Fresh(c) \/ WriterSeesClose(c)
      BY <2>10 DEF WritePump, WriteMessage, WriteFails, FreshInv
    <3> QED
      BY <2>10, <3>1, <1>0
         DEF TypeOK, WritePump, WriteMessage, WriteFails, WriterSeesClose, TestAndClose,
             FreshInv, Fresh
  <2>11. CASE UnregisterPeer(c)
    BY <2>11, <1>0, NoneAssumption DEF TypeOK, UnregisterPeer, CloseStep, FreshInv, Fresh
  <2>12. CASE RemovePeer(c) \/ SignalClosed(c)
    BY <2>12, <1>0 DEF TypeOK, RemovePeer, SignalClosed, CloseStep, FreshInv, Fresh
  <2> QED
    BY <1>2, <2>1, <2>2, <2>3, <2>4, <2>5, <2>6, <2>7, <2>8, <2>9, <2>10, <2>11, <2>12
       DEF ReadPump, CloseBody
<1>3. ASSUME NEW k \in Peers, LookUp(k)
      PROVE  FreshInv'
  BY <1>3, <1>0 DEF TypeOK, LookUp, FreshInv, Fresh
<1>4. CASE Deliver
  <2>1. ~Fresh(courier.to)
    BY <1>4, <1>0 DEF TypeOK, Deliver, FreshInv
  <2> QED
    BY <1>4, <2>1, <1>0, NoneAssumption DEF TypeOK, Deliver, Enqueue, FreshInv, Fresh
<1>5. CASE TimerFires
  BY <1>5 DEF TimerFires, FreshInv, Fresh
<1> QED
  BY <1>1, <1>2, <1>3, <1>4, <1>5, StillServing

\* A call of Close, by whichever goroutine.
LEMMA TableTestAndClose ==
  ASSUME DeliveryInv, TableInv, NEW c \in Conns, TestAndClose(c),
         UNCHANGED <<peers, peerConnection, peer, creating>>,
         \A d \in Conns : /\ readPc'[d] = "set" <=> readPc[d] = "set"
                          /\ readPc'[d] = "register" <=> readPc[d] = "register"
  PROVE  TableInv'
<1> USE DEF DeliveryInv, OwnerInv
<1>1. CASE closePc[c] # "open"
  BY <1>1 DEF TestAndClose, closeVars, TableInv, Entered, NoStaleEntry, Claimed, Claims,
              IsCreating, Owns, IsRemoving
<1>2. CASE closePc[c] = "open"
  <2>1. /\ closing' = [closing EXCEPT ![c] = peer[c]]
        /\ closePc' = [closePc EXCEPT ![c] = IF peer[c] = None THEN "signal" ELSE "unregister"]
    BY <1>2 DEF TestAndClose
  <2>2. Entered'
    BY <2>1 DEF TypeOK, TableInv, Entered, Owns
  <2>3. ASSUME NEW k \in Peers, Owns(c, k)
        PROVE  IsRemoving(c, k)' /\ closePc'[c] = "unregister"
    BY <2>1, <2>3, NoneAssumption DEF TypeOK, Owns, IsRemoving
  <2>4. ASSUME NEW d \in Conns, d # c
        PROVE  closePc'[d] = closePc[d] /\ closing'[d] = closing[d] /\ peer'[d] = peer[d]
    BY <2>1, <2>4 DEF TypeOK
  <2>5. NoStaleEntry'
    <3> SUFFICES ASSUME NEW d \in Conns, NEW k \in Peers, peerConnection[k] = d
                 PROVE  Owns(d, k)' \/ (IsRemoving(d, k)' /\ closePc'[d] = "unregister")
      BY DEF NoStaleEntry
    <3>1. CASE d = c
      BY <1>2, <2>3, <3>1 DEF TableInv, NoStaleEntry, IsRemoving
    <3>2. CASE d # c
      BY <2>4, <3>2 DEF TableInv, NoStaleEntry, IsRemoving, Owns
    <3> QED
      BY <3>1, <3>2
  <2>6. ASSUME NEW d \in Conns, NEW k \in Peers, Claims(d, k)
        PROVE  Claims(d, k)'
    <3>1. CASE d = c
      BY <1>2, <2>6, <2>3, <3>1 DEF Claims, IsCreating, IsRemoving
    <3>2. CASE d # c
      BY <2>6, <2>4, <3>2 DEF Claims, IsCreating, Owns, IsRemoving
    <3> QED
      BY <3>1, <3>2
  <2>7. Claimed'
    BY <2>6 DEF TypeOK, TableInv, Claimed
  <2> QED
    BY <2>2, <2>5, <2>7 DEF TableInv
<1> QED
  BY <1>1, <1>2

\* A step that changes none of this.
LEMMA TableUnchanged ==
  ASSUME TableInv, UNCHANGED <<peers, peerConnection, peer, creating, closing, closePc>>,
         \A d \in Conns : /\ readPc'[d] = "set" <=> readPc[d] = "set"
                          /\ readPc'[d] = "register" <=> readPc[d] = "register"
  PROVE  TableInv'
  BY DEF TableInv, Entered, NoStaleEntry, Claimed, Claims, IsCreating, Owns, IsRemoving

\* CreatePeer claims the peer it creates; nothing else is claimed or let go.
LEMMA TableCreate ==
  ASSUME DeliveryInv, TableInv, NEW c \in Conns, NEW j \in Peers, CreatePeer(c, j)
  PROVE  TableInv'
<1> USE DEF DeliveryInv, OwnerInv, TableInv
<1>0. /\ peers' = peers \cup {j}
      /\ readPc[c] = "reading" /\ readPc' = [readPc EXCEPT ![c] = "set"]
      /\ creating' = [creating EXCEPT ![c] = j]
      /\ UNCHANGED <<peer, closing, closePc, peerConnection>>
  BY CreateEffect DEF CreatePeer
<1>1. Entered'
  BY <1>0 DEF TypeOK, Entered, Owns
<1>2. NoStaleEntry'
  BY <1>0 DEF NoStaleEntry, Owns, IsRemoving
<1>3. Claims(c, j)' /\ \A d \in Conns, k \in Peers : Claims(d, k) => Claims(d, k)'
  BY <1>0 DEF TypeOK, Claims, IsCreating, Owns, IsRemoving
<1> QED
  BY <1>0, <1>1, <1>2, <1>3 DEF TypeOK, Claimed

\* SetPeerID turns what was being created into what is owned: the connection is open.
LEMMA TableSet ==
  ASSUME DeliveryInv, FreshInv, TableInv, NEW c \in Conns, SetPeerID(c)
  PROVE  TableInv'
<1> USE DEF DeliveryInv, OwnerInv, TableInv
<1>0. /\ readPc[c] = "set" /\ readPc' = [readPc EXCEPT ![c] = "register"]
      /\ peer' = [peer EXCEPT ![c] = creating[c]]
      /\ creating' = [creating EXCEPT ![c] = None]
      /\ UNCHANGED <<peers, closing, closePc, peerConnection>>
  BY SetEffect DEF SetPeerID, peerVars
<1>1. closePc[c] = "open" /\ peer[c] = None /\ \A k \in Peers : peerConnection[k] # c
  BY <1>0 DEF FreshInv, Fresh
<1>2. Entered'
  BY <1>0, <1>1 DEF TypeOK, Entered, Owns
<1>3. NoStaleEntry'
  BY <1>0, <1>1 DEF TypeOK, NoStaleEntry, Owns, IsRemoving
<1>4. \A d \in Conns, k \in Peers : Claims(d, k) => Claims(d, k)'
  BY <1>0, <1>1, NoneAssumption DEF TypeOK, Claims, IsCreating, Owns, IsRemoving
<1> QED
  BY <1>0, <1>2, <1>3, <1>4 DEF TypeOK, Claimed

\* RegisterPeer enters the owner, which nobody has begun to close.
LEMMA TableRegister ==
  ASSUME DeliveryInv, FreshInv, TableInv, NEW c \in Conns, RegisterPeer(c)
  PROVE  TableInv'
<1> USE DEF DeliveryInv, OwnerInv, TableInv
<1>0. /\ readPc[c] = "register" /\ readPc' = [readPc EXCEPT ![c] = "respond"]
      /\ peerConnection' = [peerConnection EXCEPT ![peer[c]] = c]
      /\ UNCHANGED <<peers, peer, creating, closing, closePc>>
  BY DEF RegisterPeer, ReadStep, closeVars
<1>1. peer[c] \in Peers /\ Owns(c, peer[c])
  BY <1>0 DEF RegisterInv, FreshInv, Fresh, Owns
<1>2. \A d \in Conns : Owns(d, peer[c]) => d = c
  BY <1>1 DEF OneOwner, Claims
<1>3. Entered'
  BY <1>0, <1>1, <1>2 DEF TypeOK, Entered, Owns
<1>4. NoStaleEntry'
  BY <1>0, <1>1 DEF TypeOK, NoStaleEntry, Owns, IsRemoving
<1>5. \A d \in Conns, k \in Peers : Claims(d, k) => Claims(d, k)'
  BY <1>0 DEF TypeOK, Claims, IsCreating, Owns, IsRemoving
<1> QED
  BY <1>0, <1>3, <1>4, <1>5 DEF TypeOK, Claimed

\* The body of Close: out of the table, out of the manager, closed.
LEMMA TableClose ==
  ASSUME DeliveryInv, TableInv, NEW c \in Conns, CloseBody(c)
  PROVE  TableInv'
<1> USE DEF DeliveryInv, OwnerInv, TableInv
<1>1. CASE UnregisterPeer(c)
  <2>0. /\ closePc[c] = "unregister" /\ closePc' = [closePc EXCEPT ![c] = "remove"]
        /\ peerConnection' = [peerConnection EXCEPT ![closing[c]] = None]
        /\ UNCHANGED <<peers, peer, creating, closing, readPc>>
    BY <1>1 DEF UnregisterPeer, CloseStep, pumpVars
  <2>1. \A d \in Conns, k \in Peers : Owns(d, k) => k # closing[c]
    BY <2>0 DEF OneOwner, Claims, IsRemoving, Owns
  <2>2. Entered'
    BY <2>0, <2>1 DEF TypeOK, Entered, Owns
  <2>3. NoStaleEntry'
    BY <2>0, NoneAssumption DEF TypeOK, NoStaleEntry, Owns, IsRemoving
  <2>4. \A d \in Conns, k \in Peers : Claims(d, k) => Claims(d, k)'
    BY <2>0 DEF TypeOK, Claims, IsCreating, Owns, IsRemoving
  <2> QED
    BY <2>0, <2>2, <2>3, <2>4 DEF TypeOK, Claimed
<1>2. CASE RemovePeer(c)
  <2>0. /\ closePc[c] = "remove" /\ closePc' = [closePc EXCEPT ![c] = "signal"]
        /\ peers' = peers \ {closing[c]}
        /\ UNCHANGED <<closing, peer, creating, readPc, peerConnection>>
    BY <1>2, RemoveEffect DEF RemovePeer
  <2>1. Entered'
    BY <2>0 DEF TypeOK, Entered, Owns
  <2>2. NoStaleEntry'
    BY <2>0 DEF TypeOK, NoStaleEntry, Owns, IsRemoving
  <2>3. \A d \in Conns, k \in Peers : Claims(d, k) /\ k # closing[c] => Claims(d, k)'
    BY <2>0 DEF TypeOK, Claims, IsCreating, Owns, IsRemoving
  <2> QED
    BY <2>0, <2>1, <2>2, <2>3 DEF TypeOK, Claimed
<1>3. CASE SignalClosed(c)
  <2>0. /\ closePc[c] = "signal" /\ closePc' = [closePc EXCEPT ![c] = "closed"]
        /\ UNCHANGED <<peers, closing, peer, creating, readPc, peerConnection>>
    BY <1>3 DEF SignalClosed, CloseStep, pumpVars, peerVars
  <2>1. Entered'
    BY <2>0 DEF TypeOK, Entered, Owns
  <2>2. NoStaleEntry'
    BY <2>0 DEF TypeOK, NoStaleEntry, Owns, IsRemoving
  <2>3. \A d \in Conns, k \in Peers : Claims(d, k) => Claims(d, k)'
    BY <2>0 DEF TypeOK, Claims, IsCreating, Owns, IsRemoving
  <2> QED
    BY <2>0, <2>1, <2>2, <2>3 DEF TypeOK, Claimed
<1> QED
  BY <1>1, <1>2, <1>3 DEF CloseBody

LEMMA TableStep ==
  ASSUME DeliveryInv, FreshInv, TableInv, [Next]_vars, mainPc' = "serving"
  PROVE  TableInv'
<1> USE DEF DeliveryInv, OwnerInv, pumpVars, closeVars, peerVars
<1>1. CASE UNCHANGED vars
  BY <1>1, TableUnchanged DEF vars
<1>2. ASSUME NEW c \in Conns,
             \/ Accept(c) \/ StartConnection(c) \/ Cleanup(c) \/ HandleRequest(c)
             \/ (\E k \in Peers : CreatePeer(c, k)) \/ ReadPump(c) \/ WritePump(c)
             \/ CloseBody(c) \/ ClientLeaves(c)
      PROVE  TableInv'
  <2>1. CASE Accept(c) \/ Cleanup(c) \/ ClientLeaves(c)
    <3>1. UNCHANGED <<peers, peerConnection, peer, creating, closing, closePc, readPc>>
      BY <2>1 DEF Accept, Cleanup, DeleteConnection, StartExitTimer, ClientLeaves
    <3> QED
      BY <3>1, TableUnchanged
  <2>2. CASE StartConnection(c) \/ HandleRequest(c)
    <3>1. UNCHANGED <<peers, peerConnection, peer, creating, closing, closePc>>
      BY <2>2 DEF StartConnection, HandleRequest
    <3>2. readPc[c] \in {"none", "reading"} /\ \E to \in {"reading", "respond"} :
                                                 readPc' = [readPc EXCEPT ![c] = to]
      BY <2>2 DEF StartConnection, HandleRequest, ReadRequest, ReadStep, FreshInv
    <3>3. \A d \in Conns : /\ readPc'[d] = "set" <=> readPc[d] = "set"
                           /\ readPc'[d] = "register" <=> readPc[d] = "register"
      BY <3>2 DEF TypeOK
    <3> QED
      BY <3>1, <3>3, TableUnchanged
  <2>3. CASE Respond(c) \/ ReadFails(c)
    <3>1. UNCHANGED <<peers, peerConnection, peer, creating>>
          /\ (UNCHANGED closeVars \/ TestAndClose(c))
      BY <2>3 DEF Respond, ReadFails
    <3>2. \A d \in Conns : /\ readPc'[d] = "set" <=> readPc[d] = "set"
                           /\ readPc'[d] = "register" <=> readPc[d] = "register"
      BY <2>3 DEF TypeOK, Respond, ReadFails, ReadStep
    <3> QED
      BY <3>1, <3>2, TableUnchanged, TableTestAndClose
  <2>4. CASE WritePump(c)
    <3>1. UNCHANGED <<peers, peerConnection, peer, creating, readPc>>
          /\ (UNCHANGED closeVars \/ TestAndClose(c))
      BY <2>4 DEF WritePump, WriteMessage, WriteFails, WriterSeesClose
    <3> QED
      BY <3>1, TableUnchanged, TableTestAndClose
  <2> QED
    BY <1>2, <2>1, <2>2, <2>3, <2>4, TableCreate, TableSet, TableRegister, TableClose
       DEF ReadPump
<1>3. CASE (\E k \in Peers : LookUp(k)) \/ Deliver \/ TimerFires
  <2>1. UNCHANGED <<peers, peerConnection, peer, creating, closing, closePc, readPc>>
    BY <1>3 DEF LookUp, Deliver, TimerFires
  <2> QED
    BY <2>1, TableUnchanged
<1> QED
  BY <1>1, <1>2, <1>3, StillServing

LEMMA ServingInit == Init => FreshInv /\ TableInv
<1> SUFFICES ASSUME Init PROVE FreshInv /\ TableInv
  OBVIOUS
<1>1. FreshInv
  <2>1. \A c \in Conns, k \in Peers : /\ peerConnection[k] # c
                                       /\ courier # [peer |-> k, to |-> c]
    BY NoneAssumption DEF Init
  <2> QED
    BY <2>1 DEF Init, FreshInv
<1>2. TableInv
  BY NoneAssumption DEF Init, TableInv, Entered, NoStaleEntry, Claimed, Owns
<1> QED
  BY <1>1, <1>2

LEMMA ServingCorrect ==
  ASSUME Disciplined
  PROVE  Spec => []ServingInv
<1>1. Init => ServingInv
  BY ServingInit DEF ServingInv
<1>2. DeliveryInv /\ ServingInv /\ [Next]_vars => ServingInv'
  <2> SUFFICES ASSUME DeliveryInv, ServingInv, [Next]_vars, mainPc' = "serving"
               PROVE  FreshInv' /\ TableInv'
    BY DEF ServingInv
  <2>1. FreshInv /\ TableInv
    BY StillServing DEF ServingInv
  <2> QED
    BY <2>1, FreshStep, TableStep
<1> QED
  BY <1>1, <1>2, DeliveryCorrect, PTL DEF Spec

\* While the server serves clients that send "peer" once and first, the routing table names
\* the owner of every peer its owner has registered, and nobody else: SetPeerID cannot race
\* with Close, because nothing is written to a connection before its peer is registered.
THEOREM RoutedToOwnerCorrect ==
  ASSUME Disciplined
  PROVE  Spec => []RoutedToOwner
<1>1. ServingInv => RoutedToOwner
  BY DEF ServingInv, TableInv, Entered, NoStaleEntry, RoutedToOwner
<1> QED
  BY <1>1, ServingCorrect, PTL

\* Under the same condition every peer of the manager is one that a connection answers for:
\* Close has removed it when its connection is gone.
THEOREM NoOrphanPeerCorrect ==
  ASSUME Disciplined
  PROVE  Spec => []NoOrphanPeer
<1>1. ServingInv => NoOrphanPeer
  BY DEF ServingInv, TableInv, Claimed, NoOrphanPeer
<1> QED
  BY <1>1, ServingCorrect, PTL

=============================================================================
