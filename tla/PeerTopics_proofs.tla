-------------------------- MODULE PeerTopics_proofs --------------------------
(***************************************************************************)
(* What is proved of PeerTopics for any number of lives, topics, remote    *)
(* peers, goroutines and waiting requests, whatever the pages ask for.     *)
(***************************************************************************)
EXTENDS PeerTopics, FiniteSetTheorems, TLAPS

LEMMA TypeInit == Init => TypeOK
<1> SUFFICES ASSUME Init PROVE TypeOK
  OBVIOUS
<1>1. /\ topics \in [Lives -> [Topics -> Readers \cup {None}]]
      /\ monitors \in [Lives -> [Topics -> Monitors \cup {None}]]
      /\ members \in [Topics -> SUBSET Remotes]
      /\ view \in [Lives -> [Topics -> SUBSET Remotes]]
      /\ suspect \in [Lives -> [Topics -> SUBSET Remotes]]
  BY DEF Init, NoTopics, Nobody
<1>2. calls \in [Lives -> Seq(Calls)]
  BY DEF Init
<1>3. \A k \in Monitors : monPc[k] = "tell" <=> news[k] # None
  BY DEF Init
<1>4. \A c \in Lives : pc[c] = "idle" /\ call[c] = None /\ found[c] = None
  BY DEF Init
<1> QED
  BY <1>1, <1>2, <1>3, <1>4 DEF Init, TypeOK

\* The steps of a peer, of pubsub and of a page.
LEMMA TypePeer ==
  ASSUME TypeOK, UNCHANGED asks,
         \/ \E l \in Lives : CreatePeer(l) \/ RemovePeer(l) \/ Close(l) \/ HostClose(l)
         \/ \E t \in Topics, x \in Remotes : MembersChange(t, x)
         \/ \E c \in Lives, op \in Ops, t \in Topics : Call(c, op, t)
  PROVE  TypeOK'
<1> USE DEF TypeOK, peerVars, monVars, reqVars, pageVars, histVars
<1>1. ASSUME NEW l \in Lives, CreatePeer(l) PROVE TypeOK'
  BY <1>1 DEF CreatePeer
<1>2. ASSUME NEW l \in Lives, RemovePeer(l) PROVE TypeOK'
  BY <1>2 DEF RemovePeer, Nobody
<1>3. ASSUME NEW l \in Lives, Close(l) PROVE TypeOK'
  <2>1. /\ readOf' \in [Readers -> (Lives \X Topics) \cup {None}]
        /\ monOn' \in [Monitors -> BOOLEAN]
        /\ topics' \in [Lives -> [Topics -> Readers \cup {None}]]
        /\ monitors' \in [Lives -> [Topics -> Monitors \cup {None}]]
        /\ joined' \in [Lives -> SUBSET Topics]
        /\ late' \in [Lives -> SUBSET Lives]
    BY <1>3 DEF Close, NoTopics
  <2> QED
    BY <1>3, <2>1 DEF Close
<1>4. ASSUME NEW l \in Lives, HostClose(l) PROVE TypeOK'
  BY <1>4 DEF HostClose
<1>5. ASSUME NEW t \in Topics, NEW x \in Remotes, MembersChange(t, x) PROVE TypeOK'
  BY <1>5 DEF MembersChange
<1>6. ASSUME NEW c \in Lives, NEW op \in Ops, NEW t \in Topics, Call(c, op, t) PROVE TypeOK'
  <2>1. [op |-> op, topic |-> t] \in Calls
    BY DEF Calls
  <2>2. calls' \in [Lives -> Seq(Calls)]
    BY <1>6, <2>1 DEF Call
  <2>3. listening' \in [Lives -> SUBSET Topics]
    BY <1>6 DEF Call
  <2>4. view' \in [Lives -> [Topics -> SUBSET Remotes]]
    <3>1. view' = [view EXCEPT ![c][t] = {}] \/ view' = view
      BY <1>6 DEF Call
    <3>2. view \in [Lives -> [Topics -> SUBSET Remotes]]
      OBVIOUS
    <3> HIDE DEF TypeOK
    <3> QED
      BY <3>1, <3>2
  <2>5. suspect' \in [Lives -> [Topics -> SUBSET Remotes]]
    <3>1. suspect' = [suspect EXCEPT ![c][t] = {}] \/ suspect' = suspect
      BY <1>6 DEF Call
    <3>2. suspect \in [Lives -> [Topics -> SUBSET Remotes]]
      OBVIOUS
    <3> HIDE DEF TypeOK
    <3> QED
      BY <3>1, <3>2
  <2> QED
    BY <1>6, <2>2, <2>3, <2>4, <2>5 DEF Call
<1> QED
  BY <1>1, <1>2, <1>3, <1>4, <1>5, <1>6

Stages == {"idle", "lookupMonitor", "lookupStop", "monitor", "cancel",
           "stopMonitor", "cancelMonitor", "leave", "iterate", "ended"} \cup Ops

\* The part of TypeOK that is about the readPumps.
RequestsOK ==
  /\ pc \in [Lives -> Stages]
  /\ calls \in [Lives -> Seq(Calls)]
  /\ call \in [Lives -> Calls \cup {None}]
  /\ found \in [Lives -> Lives \cup {None}]
  /\ held \in [Lives -> Readers \cup Monitors \cup {None}]
  /\ \A c \in Lives :
       /\ call[c] = None <=> pc[c] \in {"idle", "ended"}
       /\ found[c] = None <=> pc[c] \in {"idle", "ended", "lookupMonitor", "lookupStop"}
       /\ pc[c] = "cancel" => held[c] \in Readers
       /\ pc[c] \in {"cancelMonitor", "iterate"} => held[c] \in Monitors

LEMMA TypeHasRequests == TypeOK => RequestsOK
  BY DEF TypeOK, RequestsOK, Stages

\* A step that touches nothing of it.
LEMMA QuietTypes == RequestsOK /\ UNCHANGED reqVars => RequestsOK'
  BY DEF RequestsOK, reqVars

\* The answer to a request.
LEMMA RespondTypes ==
  ASSUME RequestsOK, NEW c \in Lives, Respond(c)
  PROVE  RequestsOK'
<1> USE DEF RequestsOK, Respond, Stages
<1>1. <<>> \in Seq(Calls)
  OBVIOUS
<1>2. /\ pc' \in [Lives -> Stages]
      /\ pc'[c] \in {"idle", "ended"}
      /\ \A d \in Lives \ {c} : pc'[d] = pc[d]
  BY DEF Ends
<1>3. calls' \in [Lives -> Seq(Calls)]
  BY <1>1 DEF Ends
<1> QED
  BY <1>2, <1>3

\* The first half of a request is done.
LEMMA Next2Types ==
  ASSUME RequestsOK, NEW c \in Lives, NEW from \in Stages \ {"idle", "ended"},
         NEW to \in {"lookupMonitor", "lookupStop"}, Next2(c, from, to)
  PROVE  RequestsOK'
  BY DEF RequestsOK, Next2, Goto, Stages

\* A request goes on with the peer it has found, and with what it holds.
LEMMA GotoTypes ==
  ASSUME RequestsOK, NEW c \in Lives,
         NEW from \in Stages \ {"idle", "ended", "lookupMonitor", "lookupStop"},
         NEW to \in Stages \ {"idle", "ended", "lookupMonitor", "lookupStop"},
         Goto(c, from, to), UNCHANGED found,
         held' \in [Lives -> Readers \cup Monitors \cup {None}],
         \A d \in Lives \ {c} : held'[d] = held[d],
         to = "cancel" => held'[c] \in Readers,
         to \in {"cancelMonitor", "iterate"} => held'[c] \in Monitors
  PROVE  RequestsOK'
  BY DEF RequestsOK, Goto, Stages

LEMMA GetPeerTypes ==
  ASSUME TypeOK, NEW c \in Lives, GetPeer(c)
  PROVE  /\ found' \in [Lives -> Lives \cup {None}] /\ found'[c] # None
         /\ held' \in [Lives -> Readers \cup Monitors \cup {None}]
         /\ \A d \in Lives \ {c} : found'[d] = found[d] /\ held'[d] = held[d]
         /\ intruded' \in [Lives -> BOOLEAN]
  BY NoneAssumption DEF TypeOK, GetPeer

\* The steps that read requests and look up peers.
LEMMA TypeLookup ==
  ASSUME TypeOK, UNCHANGED asks, NEW c \in Lives,
         ReadMessage(c) \/ ReadMessageTooLate(c) \/ ReadFails(c) \/ GetPeerAgain(c)
  PROVE  TypeOK'
<1> USE DEF peerVars, monVars, pageVars, histVars
<1>0. RequestsOK
  BY TypeHasRequests
<1>1. CASE ReadMessage(c)
  <2>1. Head(calls[c]) \in Calls /\ Tail(calls[c]) \in Seq(Calls)
    BY <1>1 DEF ReadMessage, TypeOK
  <2>2. Head(calls[c]).op \in Ops /\ Head(calls[c]) # None
    BY <2>1, NoneAssumption DEF Calls
  <2>3. RequestsOK' /\ intruded' \in [Lives -> BOOLEAN]
    BY <1>0, <1>1, <2>1, <2>2, GetPeerTypes DEF ReadMessage, RequestsOK, Stages, Ops
  <2> QED
    BY <1>1, <2>3 DEF ReadMessage, TypeOK, RequestsOK, Stages
<1>2. CASE ReadMessageTooLate(c) \/ ReadFails(c)
  <2>1. <<>> \in Seq(Calls)
    OBVIOUS
  <2>2. RequestsOK'
    BY <1>0, <1>2, <2>1 DEF ReadMessageTooLate, ReadFails, Ends, RequestsOK, Stages
  <2> QED
    BY <1>2, <2>2 DEF ReadMessageTooLate, ReadFails, TypeOK, RequestsOK, Stages
<1>3. ASSUME NEW from \in {"lookupMonitor", "lookupStop"}, NEW to \in {"monitor", "stopMonitor"},
             LookupAgain(c, from, to)
      PROVE  TypeOK'
  <2>1. CASE owner = None
    <3>1. RequestsOK'
      BY <1>0, <1>3, <2>1, RespondTypes DEF LookupAgain
    <3> QED
      BY <1>3, <2>1, <3>1 DEF LookupAgain, TypeOK, RequestsOK, Stages
  <2>2. CASE owner # None
    <3>1. RequestsOK' /\ intruded' \in [Lives -> BOOLEAN]
      BY <1>0, <1>3, <2>2, GetPeerTypes, ZenonT(40) DEF LookupAgain, Goto, RequestsOK, Stages
    <3> QED
      BY <1>3, <2>2, <3>1 DEF LookupAgain, TypeOK, RequestsOK, Stages
  <2> QED
    BY <2>1, <2>2
<1> QED
  BY <1>1, <1>2, <1>3 DEF GetPeerAgain

\* The steps that use the peer.
LEMMA TypeUse ==
  ASSUME TypeOK, UNCHANGED asks, NEW c \in Lives,
         \/ Subscribe(c) \/ Monitor(c)
         \/ Unsubscribe(c) \/ CancelTopic(c) \/ StopMonitor(c) \/ CancelMonitor(c)
         \/ Publish(c) \/ LeaveTopic(c) \/ ListPeers(c) \/ EndIteration(c)
  PROVE  TypeOK'
<1> USE DEF peerVars, monVars, pageVars, histVars
<1> DEFINE l == found[c]  t == call[c].topic
<1>0. RequestsOK
  BY TypeHasRequests
<1>l. pc[c] \notin {"idle", "ended", "lookupMonitor", "lookupStop"} => l \in Lives /\ t \in Topics
  BY <1>0 DEF RequestsOK, Calls
<1>1. CASE Subscribe(c)
  <2>1. l \in Lives /\ t \in Topics
    BY <1>1, <1>l DEF Subscribe
  <2>2. RequestsOK'
    BY <1>0, <1>1, RespondTypes, Next2Types DEF Subscribe, Stages, Ops
  <2>3. /\ joined' \in [Lives -> SUBSET Topics]
        /\ readOf' \in [Readers -> (Lives \X Topics) \cup {None}]
        /\ topics' \in [Lives -> [Topics -> Readers \cup {None}]]
    <3>1. CASE UNCHANGED <<topics, joined, readOf>>
      BY <3>1 DEF TypeOK
    <3>2. CASE ~UNCHANGED <<topics, joined, readOf>>
      <4>1. PICK i \in Readers : /\ readOf' = [readOf EXCEPT ![i] = <<l, t>>]
                                 /\ topics' = [topics EXCEPT ![l][t] = i]
        BY <1>1, <3>2 DEF Subscribe
      <4>2. joined' = [joined EXCEPT ![l] = @ \cup {t}]
        BY <1>1, <3>2 DEF Subscribe
      <4>3. <<l, t>> \in Lives \X Topics
        BY <2>1
      <4> QED
        BY <4>1, <4>2, <4>3, <2>1 DEF TypeOK
    <3> QED
      BY <3>1, <3>2
  <2> QED
    BY <1>1, <2>2, <2>3 DEF Subscribe, TypeOK, RequestsOK, Stages
<1>2. CASE Monitor(c)
  <2>1. l \in Lives /\ t \in Topics
    BY <1>2, <1>l DEF Monitor
  <2>2. RequestsOK'
    BY <1>0, <1>2, RespondTypes DEF Monitor
  <2>3. /\ monOf' \in [Monitors -> (Lives \X Topics) \cup {None}]
        /\ monOn' \in [Monitors -> BOOLEAN]
        /\ monitors' \in [Lives -> [Topics -> Monitors \cup {None}]]
        /\ suspect' \in [Lives -> [Topics -> SUBSET Remotes]]
        /\ UNCHANGED <<monPc, known, snap, news>>
    <3>1. CASE monitors[l][t] # None
      BY <1>2, <3>1 DEF Monitor, TypeOK
    <3>2. CASE monitors[l][t] = None
      <4>1. PICK k \in Monitors : /\ monOf' = [monOf EXCEPT ![k] = <<l, t>>]
                                  /\ monOn' = [monOn EXCEPT ![k] = TRUE]
                                  /\ monitors' = [monitors EXCEPT ![l][t] = k]
        BY <1>2, <3>2 DEF Monitor
      <4>2. suspect' = [suspect EXCEPT ![l][t] = @ \cup view[l][t]] /\ UNCHANGED <<monPc, known, snap, news>>
        BY <1>2, <3>2 DEF Monitor
      <4>3. <<l, t>> \in Lives \X Topics
        BY <2>1
      <4>4. view[l][t] \subseteq Remotes
        BY <2>1 DEF TypeOK
      <4> QED
        BY <4>1, <4>2, <4>3, <4>4, <2>1 DEF TypeOK
    <3> QED
      BY <3>1, <3>2
  <2> QED
    BY <1>2, <2>2, <2>3 DEF Monitor, TypeOK, RequestsOK, Stages
<1>3. CASE Unsubscribe(c)
  <2>1. l \in Lives /\ t \in Topics
    BY <1>3, <1>l DEF Unsubscribe
  <2>2. RequestsOK'
    <3>1. CASE topics[l][t] = None
      BY <1>0, <1>3, <3>1, Next2Types DEF Unsubscribe, Stages, Ops
    <3>2. CASE topics[l][t] # None
      <4>1. topics[l][t] \in Readers
        BY <2>1, <3>2 DEF TypeOK
      <4>2. /\ Goto(c, "unsubscribe", "cancel") /\ UNCHANGED found
            /\ held' = [held EXCEPT ![c] = topics[l][t]]
        BY <1>3, <3>2 DEF Unsubscribe
      <4> QED
        BY <1>0, <4>1, <4>2, GotoTypes DEF RequestsOK, Stages, Ops
    <3> QED
      BY <3>1, <3>2
  <2>3. topics' \in [Lives -> [Topics -> Readers \cup {None}]]
    <3>1. topics' = [topics EXCEPT ![l][t] = None] \/ topics' = topics
      BY <1>3 DEF Unsubscribe
    <3>2. topics \in [Lives -> [Topics -> Readers \cup {None}]]
      BY DEF TypeOK
    <3> QED
      BY <2>1, <3>1, <3>2
  <2> QED
    BY <1>3, <2>2, <2>3 DEF Unsubscribe, TypeOK, RequestsOK, Stages
<1>4. CASE CancelTopic(c)
  <2>1. l \in Lives /\ t \in Topics /\ held[c] \in Readers
    BY <1>4, <1>l, <1>0 DEF CancelTopic, RequestsOK
  <2>2. RequestsOK'
    BY <1>0, <1>4, Next2Types DEF CancelTopic, Stages
  <2>3. /\ joined' \in [Lives -> SUBSET Topics]
        /\ readOf' \in [Readers -> (Lives \X Topics) \cup {None}]
    BY <1>4, <2>1 DEF CancelTopic, TypeOK
  <2> QED
    BY <1>4, <2>2, <2>3 DEF CancelTopic, TypeOK, RequestsOK, Stages
<1>5. CASE StopMonitor(c)
  <2>1. l \in Lives /\ t \in Topics
    BY <1>5, <1>l DEF StopMonitor
  <2>2. RequestsOK'
    <3>1. CASE monitors[l][t] = None
      BY <1>0, <1>5, <3>1, RespondTypes DEF StopMonitor
    <3>2. CASE monitors[l][t] # None
      <4>1. monitors[l][t] \in Monitors
        BY <2>1, <3>2 DEF TypeOK
      <4>2. /\ Goto(c, "stopMonitor", "cancelMonitor") /\ UNCHANGED found
            /\ held' = [held EXCEPT ![c] = monitors[l][t]]
        BY <1>5, <3>2 DEF StopMonitor
      <4> QED
        BY <1>0, <4>1, <4>2, GotoTypes DEF RequestsOK, Stages
    <3> QED
      BY <3>1, <3>2
  <2>3. monitors' \in [Lives -> [Topics -> Monitors \cup {None}]]
    <3>1. monitors' = [monitors EXCEPT ![l][t] = None] \/ monitors' = monitors
      BY <1>5 DEF StopMonitor
    <3>2. monitors \in [Lives -> [Topics -> Monitors \cup {None}]]
      BY DEF TypeOK
    <3> QED
      BY <2>1, <3>1, <3>2
  <2> QED
    BY <1>5, <2>2, <2>3 DEF StopMonitor, TypeOK, RequestsOK, Stages
<1>6. CASE CancelMonitor(c)
  <2>1. RequestsOK'
    BY <1>0, <1>6, RespondTypes DEF CancelMonitor
  <2>2. monOn' \in [Monitors -> BOOLEAN]
    BY <1>6 DEF CancelMonitor, TypeOK
  <2> QED
    BY <1>6, <2>1, <2>2 DEF CancelMonitor, TypeOK, RequestsOK, Stages
<1>7. CASE Publish(c)
  <2>1. l \in Lives /\ t \in Topics
    BY <1>7, <1>l DEF Publish
  <2>2. RequestsOK'
    <3>1. CASE Respond(c)
      BY <1>0, <3>1, RespondTypes
    <3>2. CASE Goto(c, "publish", "leave") /\ UNCHANGED <<found, held>>
      BY <1>0, <3>2, GotoTypes DEF RequestsOK, Stages, Ops
    <3> QED
      BY <1>7, <3>1, <3>2 DEF Publish
  <2>3. joined' \in [Lives -> SUBSET Topics]
    <3>1. joined' = [joined EXCEPT ![l] = @ \cup {t}] \/ joined' = joined
      BY <1>7 DEF Publish
    <3>2. joined \in [Lives -> SUBSET Topics]
      BY DEF TypeOK
    <3> QED
      BY <2>1, <3>1, <3>2
  <2> QED
    BY <1>7, <2>2, <2>3 DEF Publish, TypeOK, RequestsOK, Stages
<1>8. CASE LeaveTopic(c)
  <2>1. RequestsOK'
    BY <1>0, <1>8, RespondTypes DEF LeaveTopic
  <2>2. joined' \in [Lives -> SUBSET Topics]
    BY <1>8 DEF LeaveTopic, TypeOK
  <2> QED
    BY <1>8, <2>1, <2>2 DEF LeaveTopic, TypeOK, RequestsOK, Stages
<1>9. CASE ListPeers(c)
  <2>1. l \in Lives /\ t \in Topics
    BY <1>9, <1>l DEF ListPeers
  <2>2. RequestsOK'
    <3>1. CASE Respond(c)
      BY <1>0, <3>1, RespondTypes
    <3>2. CASE ~Respond(c)
      <4>1. monitors[l][t] \in Monitors
        BY <1>9, <2>1, <3>2 DEF ListPeers, TypeOK
      <4>2. /\ Goto(c, "listpeers", "iterate") /\ UNCHANGED found
            /\ held' = [held EXCEPT ![c] = monitors[l][t]]
        BY <1>9, <3>2 DEF ListPeers
      <4> QED
        BY <1>0, <4>1, <4>2, GotoTypes DEF RequestsOK, Stages, Ops
    <3> QED
      BY <3>1, <3>2
  <2> QED
    BY <1>9, <2>2 DEF ListPeers, TypeOK, RequestsOK, Stages
<1>10. CASE EndIteration(c)
  <2>1. RequestsOK'
    BY <1>0, <1>10, RespondTypes DEF EndIteration
  <2> QED
    BY <1>10, <2>1 DEF EndIteration, TypeOK, RequestsOK, Stages
<1> QED
  BY <1>1, <1>2, <1>3, <1>4, <1>5, <1>6, <1>7, <1>8, <1>9, <1>10

\* The rounds of a monitor.
LEMMA TypeMonitor ==
  ASSUME TypeOK, UNCHANGED asks, NEW k \in Monitors, Round(k) \/ MonitorEnds(k)
  PROVE  TypeOK'
<1> USE DEF TypeOK, peerVars, monVars, reqVars, pageVars, histVars
<1>1. CASE Tick(k)
  <2>1. snap' \in [Monitors -> SUBSET Remotes]
    <3>1. monOf[k][1] \in Lives /\ monOf[k][2] \in Topics
      BY <1>1 DEF Tick
    <3>2. Sees(monOf[k][1], monOf[k][2]) \subseteq Remotes
      BY <3>1 DEF Sees
    <3> QED
      BY <1>1, <3>2 DEF Tick
  <2> QED
    BY <1>1, <2>1 DEF Tick
<1>2. CASE Learn(k) \/ Forget(k)
  <2>1. PICK x \in Remotes, j \in BOOLEAN :
          news' = [news EXCEPT ![k] = [peer |-> x, joined |-> j]]
    BY <1>2 DEF Learn, Forget
  <2>2. [peer |-> x, joined |-> j] \in News /\ [peer |-> x, joined |-> j] # None
    BY NoneAssumption DEF News
  <2>3. known' \in [Monitors -> SUBSET Remotes] /\ crashed' \in BOOLEAN
    <3>1. PICK y \in Remotes : WriteKnown(k, known[k] \cup {y}) \/ WriteKnown(k, known[k] \ {y})
      BY <1>2 DEF Learn, Forget
    <3>2. \/ known' = [known EXCEPT ![k] = known[k] \cup {y}]
          \/ known' = [known EXCEPT ![k] = known[k] \ {y}]
      BY <3>1 DEF WriteKnown
    <3>3. crashed' \in BOOLEAN
      BY <3>1 DEF WriteKnown
    <3>4. known \in [Monitors -> SUBSET Remotes]
      OBVIOUS
    <3> HIDE DEF TypeOK
    <3> QED
      BY <3>2, <3>3, <3>4
  <2>4. news' \in [Monitors -> News \cup {None}]
    BY <2>1, <2>2
  <2>5. \A m \in Monitors : monPc'[m] = "tell" <=> news'[m] # None
    BY <1>2, <2>1, <2>2 DEF Learn, Forget
  <2>6. monPc' = [monPc EXCEPT ![k] = "tell"]
        /\ UNCHANGED <<peerVars, members, readOf, monOf, monOn, snap, reqVars, pageVars, intruded, late>>
    BY <1>2 DEF Learn, Forget
  <2> QED
    BY <2>3, <2>4, <2>5, <2>6
<1>3. CASE Tell(k)
  <2>1. view' \in [Lives -> [Topics -> SUBSET Remotes]]
        /\ suspect' \in [Lives -> [Topics -> SUBSET Remotes]]
    <3>1. news[k] \in News /\ news[k].peer \in Remotes
      BY <1>3 DEF Tell, News
    <3>2. CASE UNCHANGED <<view, suspect>>
      BY <3>2
    <3>3. CASE owner # None /\ monOf[k][2] \in listening[owner] /\ Hear(k, owner, monOf[k][2])
      <4>1. owner \in Lives
        BY <3>3
      <4>2. view' \in [Lives -> [Topics -> SUBSET Remotes]]
        <5> DEFINE t == monOf[k][2]
        <5>1. t \in Topics
          BY <3>3, <4>1
        <5>2. /\ view[owner][t] \cup {news[k].peer} \in SUBSET Remotes
              /\ view[owner][t] \ {news[k].peer} \in SUBSET Remotes
          BY <3>1, <4>1, <5>1
        <5>3. \/ view' = [view EXCEPT ![owner][t] = view[owner][t] \cup {news[k].peer}]
              \/ view' = [view EXCEPT ![owner][t] = view[owner][t] \ {news[k].peer}]
              \/ view' = view
          BY <3>3 DEF Hear
        <5>4. view \in [Lives -> [Topics -> SUBSET Remotes]]
          OBVIOUS
        <5> HIDE DEF TypeOK, t
        <5> QED
          BY <4>1, <5>1, <5>2, <5>3, <5>4
      <4>3. suspect' \in [Lives -> [Topics -> SUBSET Remotes]]
        <5> DEFINE t == monOf[k][2]
        <5>1. t \in Topics
          BY <3>3, <4>1
        <5>2. /\ suspect[owner][t] \cup {news[k].peer} \in SUBSET Remotes
              /\ suspect[owner][t] \ {news[k].peer} \in SUBSET Remotes
          BY <3>1, <4>1, <5>1
        <5>3. \/ suspect' = [suspect EXCEPT ![owner][t] = suspect[owner][t] \cup {news[k].peer}]
              \/ suspect' = [suspect EXCEPT ![owner][t] = suspect[owner][t] \ {news[k].peer}]
          BY <3>3 DEF Hear
        <5>4. suspect \in [Lives -> [Topics -> SUBSET Remotes]]
          OBVIOUS
        <5> HIDE DEF TypeOK, t
        <5> QED
          BY <4>1, <5>1, <5>2, <5>3, <5>4
      <4> QED
        BY <4>2, <4>3
    <3> QED
      BY <1>3, <3>2, <3>3 DEF Tell
  <2>2. /\ monPc' \in [Monitors -> {"select", "round", "tell"}]
        /\ snap' \in [Monitors -> SUBSET Remotes]
        /\ news' \in [Monitors -> News \cup {None}]
        /\ \A m \in Monitors : monPc'[m] = "tell" <=> news'[m] # None
    BY <1>3, ZenonT(40) DEF Tell
  <2> QED
    BY <1>3, <2>1, <2>2 DEF Tell
<1>4. CASE MonitorEnds(k)
  BY <1>4 DEF MonitorEnds
<1> QED
  BY <1>1, <1>2, <1>3, <1>4 DEF Round

LEMMA TypeStep == TypeOK /\ [Next]_vars => TypeOK'
<1> SUFFICES ASSUME TypeOK, [Next]_vars PROVE TypeOK'
  OBVIOUS
<1>1. CASE UNCHANGED vars
  BY <1>1 DEF vars, peerVars, monVars, reqVars, pageVars, histVars, TypeOK
<1>2. CASE Next
  BY <1>2, TypePeer, TypeLookup, TypeUse, TypeMonitor DEF Next, Alive, Request
<1> QED
  BY <1>1, <1>2

\* Type correctness; in particular a request that uses a peer has found one, and one that
\* cancels holds what it cancels.
THEOREM TypeCorrect == Spec => []TypeOK
  BY TypeInit, TypeStep, PTL DEF Spec

-----------------------------------------------------------------------------
(* Who owns the goroutines.  A goroutine is named by a map of its life, or  *)
(* held by the one request that has taken it out of the map and will       *)
(* cancel it; a request that has joined a topic for one message is alone   *)
(* with it.  Most steps change neither.                                     *)

\* What readPump c does in a place of S, it goes on doing.
Stays(c, S) ==
  pc[c] \in S \/ pc'[c] \in S =>
    pc'[c] = pc[c] /\ found'[c] = found[c] /\ held'[c] = held[c] /\ call'[c] = call[c]

At(c) == <<found[c], call[c].topic>>

\* The subscriptions.
SubscriptionNamed ==
  \A l \in Lives, t \in Topics : topics[l][t] # None => readOf[topics[l][t]] = <<l, t>>

SubscriptionOwned ==
  \A i \in Readers : readOf[i] # None =>
    \/ topics[readOf[i][1]][readOf[i][2]] = i
    \/ \E c \in Lives : pc[c] = "cancel" /\ held[c] = i

SubscriptionHeld == \A c \in Lives : pc[c] = "cancel" => readOf[held[c]] = At(c)

Using == {c \in Lives : pc[c] \in {"cancel", "leave"}}

AloneWithTopic ==
  /\ \A c \in Using : topics[found[c]][call[c].topic] = None
  /\ \A c, d \in Using : At(c) = At(d) => c = d

SubscriptionsInv ==
  /\ SubscriptionNamed /\ SubscriptionOwned /\ SubscriptionHeld
  /\ AloneWithTopic /\ JoinedIsUsed

\* The monitors.
MonitorNamed ==
  \A l \in Lives, t \in Topics : monitors[l][t] # None =>
    monOn[monitors[l][t]] /\ monOf[monitors[l][t]] = <<l, t>>

MonitorOwned ==
  \A k \in Monitors : monOn[k] =>
    /\ monOf[k] # None
    /\ \/ monitors[monOf[k][1]][monOf[k][2]] = k
       \/ \E c \in Lives : pc[c] = "cancelMonitor" /\ held[c] = k

MonitorHeld ==
  /\ \A c \in Lives : pc[c] = "cancelMonitor" =>
       /\ monOn[held[c]] /\ monOf[held[c]] = At(c)
       /\ monitors[found[c]][call[c].topic] # held[c]
  /\ \A c, d \in Lives :
       pc[c] = "cancelMonitor" /\ pc[d] = "cancelMonitor" /\ held[c] = held[d] => c = d

MonitorsInv == MonitorNamed /\ MonitorOwned /\ MonitorHeld

OwnersInv == SubscriptionsInv /\ MonitorsInv

LEMMA OwnersImply == OwnersInv => HandlersOwned /\ JoinedIsUsed
  BY SMTT(30) DEF OwnersInv, SubscriptionsInv, MonitorsInv, SubscriptionNamed, SubscriptionOwned,
         MonitorNamed, MonitorOwned, HandlersOwned

LEMMA OwnersInit == Init => OwnersInv
<1> SUFFICES ASSUME Init PROVE OwnersInv
  OBVIOUS
<1>1. SubscriptionsInv
  BY DEF Init, NoTopics, SubscriptionsInv, SubscriptionNamed, SubscriptionOwned,
         SubscriptionHeld, AloneWithTopic, Using, JoinedIsUsed
<1>2. MonitorsInv
  BY DEF Init, NoTopics, MonitorsInv, MonitorNamed, MonitorOwned, MonitorHeld
<1> QED
  BY <1>1, <1>2 DEF OwnersInv

\* The types of what a request uses.
LEMMA UseTypes ==
  ASSUME TypeOK, NEW c \in Lives, pc[c] \notin {"idle", "ended", "lookupMonitor", "lookupStop"}
  PROVE  /\ found[c] \in Lives /\ call[c].topic \in Topics
         /\ pc[c] = "cancel" => held[c] \in Readers
         /\ pc[c] = "cancelMonitor" => held[c] \in Monitors
  BY DEF TypeOK, Calls

LEMMA QuietSubscriptions ==
  ASSUME TypeOK, SubscriptionsInv, UNCHANGED <<topics, joined, readOf>>,
         \A c \in Lives : Stays(c, {"cancel", "leave"})
  PROVE  SubscriptionsInv'
<1>1. Using' = Using /\ \A c \in Using : At(c)' = At(c)
  BY DEF Using, Stays, At
<1>2. \A c \in Lives : pc'[c] = "cancel" <=> pc[c] = "cancel"
  BY DEF Stays
<1>3. \A c \in Lives : pc[c] = "cancel" => held'[c] = held[c]
  BY DEF Stays
<1>4. \A c \in Using : found'[c] = found[c] /\ call'[c] = call[c] /\ pc'[c] = pc[c]
  BY DEF Using, Stays
<1>5. SubscriptionNamed' /\ SubscriptionOwned'
  BY <1>2, <1>3 DEF SubscriptionsInv, SubscriptionNamed, SubscriptionOwned
<1>6. SubscriptionHeld'
  BY <1>1, <1>2, <1>3 DEF SubscriptionsInv, SubscriptionHeld, Using
<1>7. AloneWithTopic'
  BY <1>1, <1>4 DEF SubscriptionsInv, AloneWithTopic
<1>8. JoinedIsUsed'
  BY <1>1, <1>4 DEF SubscriptionsInv, JoinedIsUsed, Using
<1> QED
  BY <1>5, <1>6, <1>7, <1>8 DEF SubscriptionsInv

LEMMA QuietMonitors ==
  ASSUME TypeOK, MonitorsInv, UNCHANGED <<monitors, monOf, monOn>>,
         \A c \in Lives : Stays(c, {"cancelMonitor"})
  PROVE  MonitorsInv'
<1>1. \A c \in Lives : pc'[c] = "cancelMonitor" <=> pc[c] = "cancelMonitor"
  BY DEF Stays
<1>2. \A c \in Lives : pc[c] = "cancelMonitor" =>
        found'[c] = found[c] /\ held'[c] = held[c] /\ call'[c] = call[c]
  BY DEF Stays
<1>3. MonitorNamed' /\ MonitorOwned'
  BY <1>1, <1>2 DEF MonitorsInv, MonitorNamed, MonitorOwned
<1>4. MonitorHeld'
  BY <1>1, <1>2, SMTT(30) DEF MonitorsInv, MonitorHeld, At
<1> QED
  BY <1>3, <1>4 DEF MonitorsInv

\* A request is the business of one readPump.
LEMMA OthersStay ==
  ASSUME TypeOK, NEW c \in Lives, Request(c)
  PROVE  \A d \in Lives \ {c} : /\ pc'[d] = pc[d] /\ found'[d] = found[d]
                                /\ held'[d] = held[d] /\ call'[d] = call[d]
<1> DEFINE Others == \A d \in Lives \ {c} : /\ pc'[d] = pc[d] /\ found'[d] = found[d]
                                            /\ held'[d] = held[d] /\ call'[d] = call[d]
<1> USE DEF TypeOK
<1>1. Respond(c) => Others
  BY DEF Respond, Ends
<1>2. ASSUME NEW from, NEW to, Next2(c, from, to) PROVE Others
  BY <1>2 DEF Next2, Goto
<1>3. CASE ReadMessage(c) \/ ReadMessageTooLate(c) \/ ReadFails(c)
  BY <1>3 DEF ReadMessage, GetPeer, ReadMessageTooLate, ReadFails, Ends
<1>4. CASE GetPeerAgain(c)
  BY <1>1, <1>4 DEF GetPeerAgain, LookupAgain, Goto, GetPeer
<1>5. CASE Subscribe(c) \/ Monitor(c) \/ LeaveTopic(c) \/ EndIteration(c) \/ CancelMonitor(c)
           \/ CancelTopic(c)
  BY <1>1, <1>2, <1>5 DEF Subscribe, Monitor, LeaveTopic, EndIteration, CancelMonitor, CancelTopic
<1>6. CASE Unsubscribe(c)
  BY <1>2, <1>6 DEF Unsubscribe, Goto
<1>7. CASE StopMonitor(c)
  BY <1>1, <1>7 DEF StopMonitor, Goto
<1>8. CASE Publish(c) \/ ListPeers(c)
  BY <1>1, <1>8 DEF Publish, ListPeers, Goto
<1> QED
  BY <1>3, <1>4, <1>5, <1>6, <1>7, <1>8 DEF Request

\* The requests that touch no subscription.
LEMMA SubscriptionsUntouched ==
  ASSUME TypeOK, NEW c \in Lives,
         \/ ReadMessage(c) \/ ReadMessageTooLate(c) \/ ReadFails(c) \/ GetPeerAgain(c)
         \/ Monitor(c) \/ StopMonitor(c) \/ CancelMonitor(c) \/ ListPeers(c) \/ EndIteration(c)
  PROVE  /\ pc[c] \notin {"cancel", "leave"} /\ pc'[c] \notin {"cancel", "leave"}
         /\ UNCHANGED <<topics, joined, readOf>>
<1> USE DEF peerVars
<1>1. Respond(c) => pc'[c] \in {"idle", "ended"}
  BY DEF Respond, Ends, TypeOK
<1>2. CASE ReadMessage(c)
  <2>1. Head(calls[c]) \in Calls
    BY <1>2 DEF ReadMessage, TypeOK
  <2>2. Head(calls[c]).op \notin {"cancel", "leave"}
    BY <2>1 DEF Calls, Ops
  <2> QED
    BY <1>2, <2>2 DEF ReadMessage, TypeOK
<1>3. CASE ReadMessageTooLate(c) \/ ReadFails(c)
  BY <1>3 DEF ReadMessageTooLate, ReadFails, Ends, TypeOK
<1>4. CASE GetPeerAgain(c)
  BY <1>1, <1>4 DEF GetPeerAgain, LookupAgain, Goto, TypeOK
<1>5. CASE Monitor(c) \/ CancelMonitor(c) \/ EndIteration(c)
  BY <1>1, <1>5 DEF Monitor, CancelMonitor, EndIteration
<1>6. CASE StopMonitor(c) \/ ListPeers(c)
  BY <1>1, <1>6 DEF StopMonitor, ListPeers, Goto, TypeOK
<1> QED
  BY <1>2, <1>3, <1>4, <1>5, <1>6

\* The requests that touch no monitor.
LEMMA MonitorsUntouched ==
  ASSUME TypeOK, NEW c \in Lives,
         \/ ReadMessage(c) \/ ReadMessageTooLate(c) \/ ReadFails(c) \/ GetPeerAgain(c)
         \/ Subscribe(c) \/ Unsubscribe(c) \/ CancelTopic(c)
         \/ Publish(c) \/ LeaveTopic(c) \/ ListPeers(c) \/ EndIteration(c)
  PROVE  /\ pc[c] # "cancelMonitor" /\ pc'[c] # "cancelMonitor"
         /\ UNCHANGED <<monitors, monOf, monOn>>
<1> USE DEF peerVars, monVars
<1>1. Respond(c) => pc'[c] \in {"idle", "ended"}
  BY DEF Respond, Ends, TypeOK
<1>2. CASE ReadMessage(c)
  <2>1. Head(calls[c]) \in Calls
    BY <1>2 DEF ReadMessage, TypeOK
  <2>2. Head(calls[c]).op # "cancelMonitor"
    BY <2>1 DEF Calls, Ops
  <2> QED
    BY <1>2, <2>2 DEF ReadMessage, TypeOK
<1>3. CASE ReadMessageTooLate(c) \/ ReadFails(c)
  BY <1>3 DEF ReadMessageTooLate, ReadFails, Ends, TypeOK
<1>4. CASE GetPeerAgain(c)
  BY <1>1, <1>4 DEF GetPeerAgain, LookupAgain, Goto, TypeOK
<1>5. CASE Subscribe(c) \/ CancelTopic(c) \/ LeaveTopic(c) \/ EndIteration(c)
  BY <1>1, <1>5 DEF Subscribe, CancelTopic, LeaveTopic, EndIteration, Next2, Goto, TypeOK
<1>6. CASE Unsubscribe(c) \/ Publish(c) \/ ListPeers(c)
  BY <1>1, <1>6, ZenonT(40) DEF Unsubscribe, Publish, ListPeers, Next2, Goto, TypeOK
<1> QED
  BY <1>2, <1>3, <1>4, <1>5, <1>6

\* Close takes every subscription of the peer out of the map, with its goroutine and its
\* topic; a request that holds one goes on.
LEMMA SubscriptionsClose ==
  ASSUME TypeOK, SubscriptionsInv, NEW p \in Lives, Close(p)
  PROVE  SubscriptionsInv'
<1> USE DEF reqVars
<1>0. /\ SubscriptionNamed /\ SubscriptionOwned /\ SubscriptionHeld
      /\ AloneWithTopic /\ JoinedIsUsed
  BY DEF SubscriptionsInv
<1>1. /\ \A l \in Lives, t \in Topics : topics'[l][t] = IF l = p THEN None ELSE topics[l][t]
      /\ \A i \in Readers : readOf'[i] = IF \E t \in Topics : topics[p][t] = i THEN None ELSE readOf[i]
      /\ \A l \in Lives : joined'[l] = IF l = p THEN {t \in joined[l] : topics[p][t] = None}
                                       ELSE joined[l]
  BY DEF Close, TypeOK, NoTopics
<1>2. UNCHANGED <<pc, found, held, call>>
  BY DEF Close
<1>3. \A c \in Lives : pc[c] = "cancel" =>
        found[c] \in Lives /\ call[c].topic \in Topics /\ held[c] \in Readers
  BY UseTypes
<1>4. SubscriptionNamed'
  <2> SUFFICES ASSUME NEW l \in Lives, NEW t \in Topics, topics'[l][t] # None
               PROVE  readOf'[topics'[l][t]] = <<l, t>>
    BY DEF SubscriptionNamed
  <2>1. l # p /\ topics'[l][t] = topics[l][t] /\ topics[l][t] \in Readers
    BY <1>1 DEF TypeOK
  <2>2. readOf[topics[l][t]] = <<l, t>>
    BY <1>0, <2>1 DEF SubscriptionNamed
  <2>3. \A u \in Topics : topics[p][u] # topics[l][t]
    BY <1>0, <2>1, <2>2 DEF SubscriptionNamed
  <2> QED
    BY <1>1, <2>1, <2>2, <2>3
<1>5. SubscriptionOwned'
  <2> SUFFICES ASSUME NEW i \in Readers, readOf'[i] # None
               PROVE  \/ topics'[readOf'[i][1]][readOf'[i][2]] = i
                      \/ \E c \in Lives : pc[c] = "cancel" /\ held[c] = i
    BY <1>2 DEF SubscriptionOwned
  <2>1. readOf'[i] = readOf[i] /\ \A t \in Topics : topics[p][t] # i
    BY <1>1
  <2>2. readOf[i][1] \in Lives /\ readOf[i][2] \in Topics
    BY <2>1 DEF TypeOK
  <2> QED
    BY <1>0, <1>1, <2>1, <2>2 DEF SubscriptionOwned
<1>6. SubscriptionHeld'
  <2> SUFFICES ASSUME NEW c \in Lives, pc[c] = "cancel" PROVE readOf'[held[c]] = At(c)
    BY <1>2 DEF SubscriptionHeld, At
  <2>1. readOf[held[c]] = At(c) /\ topics[found[c]][call[c].topic] = None
    BY <1>0 DEF SubscriptionHeld, AloneWithTopic, Using
  <2>2. \A t \in Topics : topics[p][t] # held[c]
    BY <1>0, <1>3, <2>1, NoneAssumption DEF SubscriptionNamed, At
  <2> QED
    BY <1>1, <1>3, <2>1, <2>2
<1>7. AloneWithTopic'
  <2>1. \A c \in Using : found[c] \in Lives /\ call[c].topic \in Topics
    BY UseTypes DEF Using
  <2>2. Using' = Using /\ \A c \in Using : At(c)' = At(c)
    BY <1>2 DEF Using, At
  <2> QED
    BY <1>0, <1>1, <1>2, <2>1, <2>2 DEF AloneWithTopic
<1>8. JoinedIsUsed'
  <2> DEFINE Used(l, t) ==
        \E c \in Lives : pc[c] \in {"cancel", "leave"} /\ found[c] = l /\ call[c].topic = t
  <2>1. \A l \in Lives, t \in Topics : t \in joined[l] <=> topics[l][t] # None \/ Used(l, t)
    BY <1>0 DEF JoinedIsUsed
  <2>2. \A l \in Lives, t \in Topics : Used(l, t) => topics[l][t] = None
    BY <1>0 DEF AloneWithTopic, Using
  <2>3. \A l \in Lives, t \in Topics :
          /\ t \in joined'[l] <=> t \in joined[l] /\ (l = p => topics[l][t] = None)
          /\ topics'[l][t] = None <=> l = p \/ topics[l][t] = None
    <3> TAKE l \in Lives, t \in Topics
    <3>1. joined'[l] = IF l = p THEN {u \in joined[l] : topics[p][u] = None} ELSE joined[l]
      BY <1>1
    <3>2. topics'[l][t] = IF l = p THEN None ELSE topics[l][t]
      BY <1>1
    <3>3. CASE l = p
      BY <3>1, <3>2, <3>3
    <3>4. CASE l # p
      BY <3>1, <3>2, <3>4
    <3> QED
      BY <3>3, <3>4
  <2>4. JoinedIsUsed' <=>
          \A l \in Lives, t \in Topics : t \in joined'[l] <=> topics'[l][t] # None \/ Used(l, t)
    BY <1>2 DEF JoinedIsUsed
  <2> HIDE DEF Used
  <2> QED
    BY <2>1, <2>2, <2>3, <2>4
<1> QED
  BY <1>4, <1>5, <1>6, <1>7, <1>8 DEF SubscriptionsInv

\* Subscribe joins a topic that nobody uses and starts one goroutine, which its map names.
LEMMA SubscriptionsSubscribe ==
  ASSUME TypeOK, SubscriptionsInv, NEW c \in Lives, Subscribe(c)
  PROVE  SubscriptionsInv'
<1> DEFINE l == found[c]  t == call[c].topic
<1>0. /\ SubscriptionNamed /\ SubscriptionOwned /\ SubscriptionHeld
      /\ AloneWithTopic /\ JoinedIsUsed
  BY DEF SubscriptionsInv
<1>1. l \in Lives /\ t \in Topics /\ pc[c] = "subscribe"
  BY UseTypes DEF Subscribe
<1>2. \A d \in Lives \ {c} : /\ pc'[d] = pc[d] /\ found'[d] = found[d]
                             /\ held'[d] = held[d] /\ call'[d] = call[d]
  BY OthersStay DEF Request
<1>3. pc'[c] \notin {"cancel", "leave"}
  BY DEF Subscribe, Respond, Ends, Next2, Goto, TypeOK
<1>4. \A d \in Lives : Stays(d, {"cancel", "leave"})
  BY <1>1, <1>2, <1>3 DEF Stays
<1>5. CASE UNCHANGED <<topics, joined, readOf>>
  BY <1>4, <1>5, QuietSubscriptions
<1>6. CASE ~UNCHANGED <<topics, joined, readOf>>
  <2>1. /\ topics[l][t] = None /\ t \notin joined[l]
        /\ joined' = [joined EXCEPT ![l] = @ \cup {t}]
    BY <1>6 DEF Subscribe
  <2>2. PICK i \in Readers : /\ readOf[i] = None
                             /\ readOf' = [readOf EXCEPT ![i] = <<l, t>>]
                             /\ topics' = [topics EXCEPT ![l][t] = i]
    BY <1>6 DEF Subscribe
  <2>3. /\ \A m \in Lives, u \in Topics :
             topics'[m][u] = IF m = l /\ u = t THEN i ELSE topics[m][u]
        /\ \A j \in Readers : readOf'[j] = IF j = i THEN <<l, t>> ELSE readOf[j]
        /\ \A m \in Lives, u \in Topics : u \in joined'[m] <=> u \in joined[m] \/ (m = l /\ u = t)
    BY <1>1, <2>1, <2>2 DEF TypeOK
  <2>4. \A d \in Using : d # c /\ d \in Lives /\ At(d) # <<l, t>>
    BY <1>0, <1>1, <2>1 DEF JoinedIsUsed, Using, At
  <2>5. Using' = Using
    BY <1>1, <1>2, <1>3 DEF Using
  <2>6. \A d \in Using : /\ pc'[d] = pc[d] /\ found'[d] = found[d]
                         /\ held'[d] = held[d] /\ call'[d] = call[d] /\ At(d)' = At(d)
    BY <1>2, <2>4 DEF At
  <2>7. i # None
    BY NoneAssumption
  <2>8. \A d \in Using : found[d] \in Lives /\ call[d].topic \in Topics
    BY UseTypes DEF Using
  <2>9. SubscriptionNamed'
    <3> SUFFICES ASSUME NEW m \in Lives, NEW u \in Topics, topics'[m][u] # None
                 PROVE  readOf'[topics'[m][u]] = <<m, u>>
      BY DEF SubscriptionNamed
    <3>1. CASE m = l /\ u = t
      BY <2>3, <3>1
    <3>2. CASE ~(m = l /\ u = t)
      <4>1. topics'[m][u] = topics[m][u] /\ topics[m][u] \in Readers
        BY <2>3, <3>2 DEF TypeOK
      <4>2. readOf[topics[m][u]] = <<m, u>>
        BY <1>0, <4>1 DEF SubscriptionNamed
      <4>3. <<m, u>> # None
        BY NoneAssumption
      <4> QED
        BY <2>2, <2>3, <4>1, <4>2, <4>3
    <3> QED
      BY <3>1, <3>2
  <2>10. SubscriptionOwned'
    <3> SUFFICES ASSUME NEW j \in Readers, readOf'[j] # None
                 PROVE  \/ topics'[readOf'[j][1]][readOf'[j][2]] = j
                        \/ \E d \in Lives : pc'[d] = "cancel" /\ held'[d] = j
      BY DEF SubscriptionOwned
    <3>1. CASE j = i
      BY <1>1, <2>3, <3>1
    <3>2. CASE j # i
      <4>1. readOf'[j] = readOf[j] /\ readOf[j][1] \in Lives /\ readOf[j][2] \in Topics
        BY <2>3, <3>2 DEF TypeOK
      <4>2. CASE topics[readOf[j][1]][readOf[j][2]] = j
        <5>1. j # None
          BY NoneAssumption
        <5>2. ~(readOf[j][1] = l /\ readOf[j][2] = t)
          BY <2>1, <4>2, <5>1
        <5> QED
          BY <2>3, <4>1, <4>2, <5>2
      <4>3. CASE \E d \in Lives : pc[d] = "cancel" /\ held[d] = j
        BY <1>1, <1>2, <4>3
      <4> QED
        BY <1>0, <4>1, <4>2, <4>3 DEF SubscriptionOwned
    <3> QED
      BY <3>1, <3>2
  <2>11. SubscriptionHeld'
    <3> SUFFICES ASSUME NEW d \in Lives, pc'[d] = "cancel" PROVE readOf'[held'[d]] = At(d)'
      BY DEF SubscriptionHeld
    <3>1. d \in Using /\ pc[d] = "cancel" /\ held'[d] = held[d] /\ At(d)' = At(d)
      BY <2>5, <2>6 DEF Using
    <3>2. readOf[held[d]] = At(d) /\ held[d] \in Readers
      BY <1>0, <3>1, UseTypes DEF SubscriptionHeld
    <3>3. At(d) # None
      BY <2>8, <3>1, NoneAssumption DEF At
    <3> QED
      BY <2>2, <2>3, <3>1, <3>2, <3>3
  <2>12. AloneWithTopic'
    <3>1. \A d \in Using : topics'[found'[d]][call'[d].topic] = None
      <4> TAKE d \in Using
      <4>1. ~(found[d] = l /\ call[d].topic = t)
        BY <2>4 DEF At
      <4>2. topics[found[d]][call[d].topic] = None
        BY <1>0 DEF AloneWithTopic
      <4> QED
        BY <2>3, <2>6, <2>8, <4>1, <4>2
    <3> QED
      BY <1>0, <2>5, <2>6, <3>1 DEF AloneWithTopic
  <2>13. JoinedIsUsed'
    <3>1. \A m \in Lives, u \in Topics :
            (\E d \in Lives : pc'[d] \in {"cancel", "leave"} /\ found'[d] = m /\ call'[d].topic = u)
            <=> (\E d \in Lives : pc[d] \in {"cancel", "leave"} /\ found[d] = m /\ call[d].topic = u)
      BY <2>5, <2>6 DEF Using
    <3> QED
      BY <1>0, <2>3, <2>7, <3>1 DEF JoinedIsUsed
  <2> QED
    BY <2>9, <2>10, <2>11, <2>12, <2>13 DEF SubscriptionsInv
<1> QED
  BY <1>5, <1>6

\* Unsubscribe takes the subscription out of the map and holds it.
LEMMA SubscriptionsUnsubscribe ==
  ASSUME TypeOK, SubscriptionsInv, NEW c \in Lives, Unsubscribe(c)
  PROVE  SubscriptionsInv'
<1> DEFINE l == found[c]  t == call[c].topic  i == topics[l][t]
<1>0. /\ SubscriptionNamed /\ SubscriptionOwned /\ SubscriptionHeld
      /\ AloneWithTopic /\ JoinedIsUsed
  BY DEF SubscriptionsInv
<1>1. l \in Lives /\ t \in Topics /\ pc[c] = "unsubscribe"
  BY UseTypes DEF Unsubscribe
<1>2. \A d \in Lives \ {c} : /\ pc'[d] = pc[d] /\ found'[d] = found[d]
                             /\ held'[d] = held[d] /\ call'[d] = call[d]
  BY OthersStay DEF Request
<1>3. UNCHANGED <<joined, readOf>>
  BY DEF Unsubscribe
<1>4. CASE i = None
  <2>1. UNCHANGED topics /\ pc'[c] = "lookupStop"
    BY <1>4 DEF Unsubscribe, Next2, Goto, TypeOK
  <2>2. \A d \in Lives : Stays(d, {"cancel", "leave"})
    BY <1>1, <1>2, <2>1 DEF Stays
  <2> QED
    BY <1>3, <2>1, <2>2, QuietSubscriptions
<1>5. CASE i # None
  <2>1. /\ pc'[c] = "cancel" /\ held'[c] = i /\ found'[c] = l /\ call'[c] = call[c]
        /\ topics' = [topics EXCEPT ![l][t] = None]
    BY <1>5 DEF Unsubscribe, Goto, TypeOK
  <2>2. \A m \in Lives, u \in Topics : topics'[m][u] = IF m = l /\ u = t THEN None ELSE topics[m][u]
    BY <1>1, <2>1 DEF TypeOK
  <2>3. readOf[i] = <<l, t>> /\ i \in Readers
    BY <1>0, <1>1, <1>5 DEF SubscriptionNamed, TypeOK
  <2>4. \A d \in Using : /\ d # c /\ d \in Lives /\ At(d) # <<l, t>>
                         /\ found[d] \in Lives /\ call[d].topic \in Topics
    BY <1>0, <1>1, <1>5, UseTypes DEF AloneWithTopic, Using, At
  <2>5. Using' = Using \cup {c}
    BY <1>1, <1>2, <2>1 DEF Using
  <2>6. \A d \in Using : /\ pc'[d] = pc[d] /\ found'[d] = found[d]
                         /\ held'[d] = held[d] /\ call'[d] = call[d] /\ At(d)' = At(d)
    BY <1>2, <2>4 DEF At
  <2>7. At(c)' = <<l, t>>
    BY <2>1 DEF At
  <2>8. SubscriptionNamed'
    BY <1>0, <1>3, <2>2 DEF SubscriptionNamed
  <2>9. SubscriptionOwned'
    <3> SUFFICES ASSUME NEW j \in Readers, readOf[j] # None
                 PROVE  \/ topics'[readOf[j][1]][readOf[j][2]] = j
                        \/ \E d \in Lives : pc'[d] = "cancel" /\ held'[d] = j
      BY <1>3 DEF SubscriptionOwned
    <3>1. readOf[j][1] \in Lives /\ readOf[j][2] \in Topics
      BY DEF TypeOK
    <3>2. CASE topics[readOf[j][1]][readOf[j][2]] = j
      <4>1. CASE readOf[j][1] = l /\ readOf[j][2] = t
        BY <2>1, <3>2, <4>1
      <4>2. CASE ~(readOf[j][1] = l /\ readOf[j][2] = t)
        BY <2>2, <3>1, <3>2, <4>2
      <4> QED
        BY <4>1, <4>2
    <3>3. CASE \E d \in Lives : pc[d] = "cancel" /\ held[d] = j
      BY <1>1, <1>2, <3>3
    <3> QED
      BY <1>0, <3>2, <3>3 DEF SubscriptionOwned
  <2>10. SubscriptionHeld'
    <3> SUFFICES ASSUME NEW d \in Lives, pc'[d] = "cancel" PROVE readOf'[held'[d]] = At(d)'
      BY DEF SubscriptionHeld
    <3>1. CASE d = c
      BY <1>3, <2>1, <2>3, <2>7, <3>1
    <3>2. CASE d # c
      <4>1. d \in Using /\ pc[d] = "cancel"
        BY <1>2, <3>2 DEF Using
      <4> QED
        BY <1>0, <1>3, <2>6, <4>1 DEF SubscriptionHeld
    <3> QED
      BY <3>1, <3>2
  <2>11. AloneWithTopic'
    <3>1. topics'[l][t] = None
      BY <1>1, <2>2
    <3>2. \A d \in Using : topics'[found'[d]][call'[d].topic] = None
      BY <1>0, <2>2, <2>4, <2>6 DEF AloneWithTopic
    <3> QED
      BY <1>0, <2>1, <2>4, <2>5, <2>6, <2>7, <3>1, <3>2 DEF AloneWithTopic
  <2>12. JoinedIsUsed'
    <3>1. \A m \in Lives, u \in Topics :
            (\E d \in Lives : pc'[d] \in {"cancel", "leave"} /\ found'[d] = m /\ call'[d].topic = u)
            <=> \/ \E d \in Lives : pc[d] \in {"cancel", "leave"} /\ found[d] = m /\ call[d].topic = u
                \/ m = l /\ u = t
      BY <2>1, <2>5, <2>6 DEF Using
    <3> QED
      BY <1>0, <1>3, <1>5, <2>2, <3>1 DEF JoinedIsUsed
  <2> QED
    BY <2>8, <2>9, <2>10, <2>11, <2>12 DEF SubscriptionsInv
<1> QED
  BY <1>4, <1>5

\* Cancelling what was taken out of the map ends the goroutine and leaves the topic.
LEMMA SubscriptionsCancel ==
  ASSUME TypeOK, SubscriptionsInv, NEW c \in Lives, CancelTopic(c) \/ LeaveTopic(c)
  PROVE  SubscriptionsInv'
<1> DEFINE l == found[c]  t == call[c].topic
<1>0. /\ SubscriptionNamed /\ SubscriptionOwned /\ SubscriptionHeld
      /\ AloneWithTopic /\ JoinedIsUsed
  BY DEF SubscriptionsInv
<1>1. l \in Lives /\ t \in Topics /\ pc[c] \in {"cancel", "leave"} /\ c \in Using
  BY UseTypes DEF CancelTopic, LeaveTopic, Using
<1>2. \A d \in Lives \ {c} : /\ pc'[d] = pc[d] /\ found'[d] = found[d]
                             /\ held'[d] = held[d] /\ call'[d] = call[d]
  BY OthersStay DEF Request
<1>3. UNCHANGED topics /\ joined' = [joined EXCEPT ![l] = @ \ {t}]
  BY DEF CancelTopic, LeaveTopic, peerVars
<1>4. pc'[c] \notin {"cancel", "leave"}
  BY DEF CancelTopic, LeaveTopic, Respond, Ends, Next2, Goto, TypeOK
<1>5. Using' = Using \ {c}
  BY <1>1, <1>2, <1>4 DEF Using
<1>6. \A d \in Using \ {c} : /\ pc'[d] = pc[d] /\ found'[d] = found[d]
                             /\ held'[d] = held[d] /\ call'[d] = call[d] /\ At(d)' = At(d)
                             /\ At(d) # <<l, t>>
                             /\ found[d] \in Lives /\ call[d].topic \in Topics
  <2>1. \A d \in Using : d \in Lives
    BY DEF Using
  <2> QED
    BY <1>0, <1>1, <1>2, <2>1, UseTypes DEF AloneWithTopic, At, Using
<1>7. \A j \in Readers :
        readOf'[j] = IF pc[c] = "cancel" /\ j = held[c] THEN None ELSE readOf[j]
  BY <1>1, UseTypes DEF CancelTopic, LeaveTopic, TypeOK
<1>8. topics[l][t] = None
  BY <1>0, <1>1 DEF AloneWithTopic
<1>9. SubscriptionNamed'
  <2> SUFFICES ASSUME NEW m \in Lives, NEW u \in Topics, topics[m][u] # None
               PROVE  readOf'[topics[m][u]] = <<m, u>>
    BY <1>3 DEF SubscriptionNamed
  <2>1. readOf[topics[m][u]] = <<m, u>> /\ topics[m][u] \in Readers
    BY <1>0 DEF SubscriptionNamed, TypeOK
  <2>2. pc[c] = "cancel" => readOf[held[c]] = <<l, t>>
    BY <1>0 DEF SubscriptionHeld, At
  <2>3. <<m, u>> # <<l, t>>
    BY <1>8
  <2> QED
    BY <1>7, <2>1, <2>2, <2>3
<1>10. SubscriptionOwned'
  <2> SUFFICES ASSUME NEW j \in Readers, readOf'[j] # None
               PROVE  \/ topics[readOf'[j][1]][readOf'[j][2]] = j
                      \/ \E d \in Lives : pc'[d] = "cancel" /\ held'[d] = j
    BY <1>3 DEF SubscriptionOwned
  <2>1. readOf'[j] = readOf[j] /\ ~(pc[c] = "cancel" /\ j = held[c])
    BY <1>7
  <2> QED
    BY <1>0, <1>2, <2>1 DEF SubscriptionOwned
<1>11. SubscriptionHeld'
  <2> SUFFICES ASSUME NEW d \in Lives, pc'[d] = "cancel" PROVE readOf'[held'[d]] = At(d)'
    BY DEF SubscriptionHeld
  <2>1. d \in Using \ {c} /\ pc[d] = "cancel"
    BY <1>2, <1>4 DEF Using
  <2>2. readOf[held[d]] = At(d) /\ held[d] \in Readers
    BY <1>0, <2>1, UseTypes DEF SubscriptionHeld
  <2>3. pc[c] = "cancel" => readOf[held[c]] = <<l, t>>
    BY <1>0 DEF SubscriptionHeld, At
  <2>4. At(d) # <<l, t>> /\ At(d)' = At(d) /\ held'[d] = held[d]
    BY <1>6, <2>1
  <2> QED
    BY <1>7, <2>2, <2>3, <2>4
<1>12. AloneWithTopic'
  BY <1>0, <1>3, <1>5, <1>6 DEF AloneWithTopic
<1>13. JoinedIsUsed'
  <2>1. \A m \in Lives, u \in Topics :
          (\E d \in Lives : pc'[d] \in {"cancel", "leave"} /\ found'[d] = m /\ call'[d].topic = u)
          <=> (\E d \in Using \ {c} : found[d] = m /\ call[d].topic = u)
    BY <1>5, <1>6 DEF Using
  <2>2. \A m \in Lives, u \in Topics :
          (\E d \in Lives : pc[d] \in {"cancel", "leave"} /\ found[d] = m /\ call[d].topic = u)
          <=> \/ \E d \in Using \ {c} : found[d] = m /\ call[d].topic = u
              \/ m = l /\ u = t
    BY <1>1 DEF Using
  <2>3. \A d \in Using \ {c} : ~(found[d] = l /\ call[d].topic = t)
    BY <1>6 DEF At
  <2>4. \A m \in Lives, u \in Topics : u \in joined'[m] <=> u \in joined[m] /\ ~(m = l /\ u = t)
    BY <1>1, <1>3 DEF TypeOK
  <2> QED
    BY <1>0, <1>3, <1>8, <2>1, <2>2, <2>3, <2>4 DEF JoinedIsUsed
<1> QED
  BY <1>9, <1>10, <1>11, <1>12, <1>13 DEF SubscriptionsInv

\* Publish joins a topic that nobody uses, and is alone with it.
LEMMA SubscriptionsPublish ==
  ASSUME TypeOK, SubscriptionsInv, NEW c \in Lives, Publish(c)
  PROVE  SubscriptionsInv'
<1> DEFINE l == found[c]  t == call[c].topic
<1>0. /\ SubscriptionNamed /\ SubscriptionOwned /\ SubscriptionHeld
      /\ AloneWithTopic /\ JoinedIsUsed
  BY DEF SubscriptionsInv
<1>1. l \in Lives /\ t \in Topics /\ pc[c] = "publish"
  BY UseTypes DEF Publish
<1>2. \A d \in Lives \ {c} : /\ pc'[d] = pc[d] /\ found'[d] = found[d]
                             /\ held'[d] = held[d] /\ call'[d] = call[d]
  BY OthersStay DEF Request
<1>3. UNCHANGED <<topics, readOf>>
  BY DEF Publish
<1>4. CASE topics[l][t] # None \/ t \in joined[l]
  <2>1. UNCHANGED joined /\ pc'[c] \in {"idle", "ended"}
    BY <1>4 DEF Publish, Respond, Ends, TypeOK
  <2>2. \A d \in Lives : Stays(d, {"cancel", "leave"})
    BY <1>1, <1>2, <2>1 DEF Stays
  <2> QED
    BY <1>3, <2>1, <2>2, QuietSubscriptions
<1>5. CASE topics[l][t] = None /\ t \notin joined[l]
  <2>1. /\ pc'[c] = "leave" /\ found'[c] = l /\ call'[c] = call[c]
        /\ joined' = [joined EXCEPT ![l] = @ \cup {t}]
    BY <1>5 DEF Publish, Goto, TypeOK
  <2>2. \A d \in Using : /\ d # c /\ d \in Lives /\ At(d) # <<l, t>>
    BY <1>0, <1>1, <1>5 DEF JoinedIsUsed, Using, At
  <2>3. Using' = Using \cup {c}
    BY <1>1, <1>2, <2>1 DEF Using
  <2>4. \A d \in Using : /\ pc'[d] = pc[d] /\ found'[d] = found[d]
                         /\ held'[d] = held[d] /\ call'[d] = call[d] /\ At(d)' = At(d)
    BY <1>2, <2>2 DEF At
  <2>5. At(c)' = <<l, t>>
    BY <2>1 DEF At
  <2>6. SubscriptionNamed'
    BY <1>0, <1>3 DEF SubscriptionNamed
  <2>7. SubscriptionOwned'
    BY <1>0, <1>1, <1>2, <1>3 DEF SubscriptionOwned
  <2>8. SubscriptionHeld'
    <3> SUFFICES ASSUME NEW d \in Lives, pc'[d] = "cancel" PROVE readOf'[held'[d]] = At(d)'
      BY DEF SubscriptionHeld
    <3>1. d \in Using /\ pc[d] = "cancel"
      BY <1>2, <2>1 DEF Using
    <3> QED
      BY <1>0, <1>3, <2>4, <3>1 DEF SubscriptionHeld
  <2>9. AloneWithTopic'
    BY <1>0, <1>3, <1>5, <2>1, <2>2, <2>3, <2>4, <2>5 DEF AloneWithTopic
  <2>10. JoinedIsUsed'
    <3>1. \A m \in Lives, u \in Topics :
            (\E d \in Lives : pc'[d] \in {"cancel", "leave"} /\ found'[d] = m /\ call'[d].topic = u)
            <=> \/ \E d \in Lives : pc[d] \in {"cancel", "leave"} /\ found[d] = m /\ call[d].topic = u
                \/ m = l /\ u = t
      BY <2>1, <2>3, <2>4 DEF Using
    <3>2. \A m \in Lives, u \in Topics : u \in joined'[m] <=> u \in joined[m] \/ (m = l /\ u = t)
      BY <1>1, <2>1 DEF TypeOK
    <3> QED
      BY <1>0, <1>3, <3>1, <3>2 DEF JoinedIsUsed
  <2> QED
    BY <2>6, <2>7, <2>8, <2>9, <2>10 DEF SubscriptionsInv
<1> QED
  BY <1>4, <1>5

\* The steps of a peer other than Close, and of pages and monitors, are quiet for all.
LEMMA SubscriptionsStep == TypeOK /\ SubscriptionsInv /\ [Next]_vars => SubscriptionsInv'
<1> SUFFICES ASSUME TypeOK, SubscriptionsInv, [Next]_vars PROVE SubscriptionsInv'
  OBVIOUS
<1>1. CASE UNCHANGED <<topics, joined, readOf, pc, found, held, call>>
  BY <1>1, QuietSubscriptions DEF Stays
<1>2. CASE UNCHANGED vars
  BY <1>1, <1>2 DEF vars, peerVars, reqVars
<1>3. ASSUME NEW l \in Lives, CreatePeer(l) \/ RemovePeer(l) \/ HostClose(l) PROVE SubscriptionsInv'
  BY <1>1, <1>3 DEF CreatePeer, RemovePeer, HostClose, peerVars, reqVars
<1>4. ASSUME NEW t \in Topics, NEW x \in Remotes, MembersChange(t, x) PROVE SubscriptionsInv'
  BY <1>1, <1>4 DEF MembersChange, peerVars, reqVars
<1>5. ASSUME NEW c \in Lives, NEW op \in Ops, NEW t \in Topics, Call(c, op, t) PROVE SubscriptionsInv'
  BY <1>1, <1>5 DEF Call, peerVars, reqVars
<1>6. ASSUME NEW k \in Monitors, Round(k) \/ MonitorEnds(k) PROVE SubscriptionsInv'
  <2>1. CASE Tick(k) \/ MonitorEnds(k)
    BY <1>1, <2>1 DEF Tick, MonitorEnds, peerVars, reqVars
  <2>2. CASE Learn(k) \/ Forget(k)
    BY <1>1, <2>2 DEF Learn, Forget, peerVars, reqVars
  <2>3. CASE Tell(k)
    BY <1>1, <2>3 DEF Tell, peerVars, reqVars
  <2> QED
    BY <1>6, <2>1, <2>2, <2>3 DEF Round
<1>7. ASSUME NEW c \in Lives, Request(c) PROVE SubscriptionsInv'
  <2>1. CASE \/ ReadMessage(c) \/ ReadMessageTooLate(c) \/ ReadFails(c) \/ GetPeerAgain(c)
             \/ Monitor(c) \/ StopMonitor(c) \/ CancelMonitor(c) \/ ListPeers(c) \/ EndIteration(c)
    <3>1. \A d \in Lives : Stays(d, {"cancel", "leave"})
      BY <1>7, <2>1, OthersStay, SubscriptionsUntouched DEF Stays
    <3> QED
      BY <2>1, <3>1, QuietSubscriptions, SubscriptionsUntouched
  <2> QED
    BY <1>7, <2>1, SubscriptionsSubscribe, SubscriptionsUnsubscribe, SubscriptionsCancel,
       SubscriptionsPublish DEF Request
<1> QED
  BY <1>2, <1>3, <1>4, <1>5, <1>6, <1>7, SubscriptionsClose DEF Next

\* Close cancels every monitor that a map of the peer names.
LEMMA MonitorsClose ==
  ASSUME TypeOK, MonitorsInv, NEW p \in Lives, Close(p)
  PROVE  MonitorsInv'
<1> USE DEF reqVars
<1>0. MonitorNamed /\ MonitorOwned /\ MonitorHeld
  BY DEF MonitorsInv
<1>1. /\ \A l \in Lives, t \in Topics : monitors'[l][t] = IF l = p THEN None ELSE monitors[l][t]
      /\ \A k \in Monitors : monOn'[k] <=> monOn[k] /\ \A t \in Topics : monitors[p][t] # k
  BY DEF Close, TypeOK, NoTopics
<1>2. UNCHANGED <<pc, found, held, call, monOf>>
  BY DEF Close
<1>3. MonitorNamed'
  <2> SUFFICES ASSUME NEW l \in Lives, NEW t \in Topics, monitors'[l][t] # None
               PROVE  monOn'[monitors'[l][t]] /\ monOf[monitors'[l][t]] = <<l, t>>
    BY <1>2 DEF MonitorNamed
  <2>1. l # p /\ monitors'[l][t] = monitors[l][t] /\ monitors[l][t] \in Monitors
    BY <1>1 DEF TypeOK
  <2>2. monOn[monitors[l][t]] /\ monOf[monitors[l][t]] = <<l, t>>
    BY <1>0, <2>1 DEF MonitorNamed
  <2>3. \A u \in Topics : monitors[p][u] # monitors[l][t]
    BY <1>0, <2>1, <2>2 DEF MonitorNamed
  <2> QED
    BY <1>1, <2>1, <2>2, <2>3
<1>4. MonitorOwned'
  <2> SUFFICES ASSUME NEW k \in Monitors, monOn'[k]
               PROVE  /\ monOf[k] # None
                      /\ \/ monitors'[monOf[k][1]][monOf[k][2]] = k
                         \/ \E c \in Lives : pc[c] = "cancelMonitor" /\ held[c] = k
    BY <1>2 DEF MonitorOwned
  <2>1. monOn[k] /\ \A t \in Topics : monitors[p][t] # k
    BY <1>1
  <2>2. monOf[k] # None /\ monOf[k][1] \in Lives /\ monOf[k][2] \in Topics
    BY <1>0, <2>1 DEF MonitorOwned, TypeOK
  <2> QED
    BY <1>0, <1>1, <2>1, <2>2 DEF MonitorOwned
<1>5. MonitorHeld'
  <2>1. ASSUME NEW c \in Lives, pc[c] = "cancelMonitor"
        PROVE  /\ monOn'[held[c]] /\ monOf[held[c]] = At(c)
               /\ monitors'[found[c]][call[c].topic] # held[c]
    <3>1. found[c] \in Lives /\ call[c].topic \in Topics /\ held[c] \in Monitors /\ held[c] # None
      BY <2>1, UseTypes, NoneAssumption
    <3>2. /\ monOn[held[c]] /\ monOf[held[c]] = <<found[c], call[c].topic>>
          /\ monitors[found[c]][call[c].topic] # held[c]
      BY <1>0, <2>1 DEF MonitorHeld, At
    <3>3. \A t \in Topics : monitors[p][t] # held[c]
      BY <1>0, <3>1, <3>2 DEF MonitorNamed
    <3> QED
      BY <1>1, <3>1, <3>2, <3>3 DEF At
  <2>2. \A c \in Lives : At(c)' = At(c)
    BY <1>2 DEF At
  <2> QED
    BY <1>0, <1>2, <2>1, <2>2 DEF MonitorHeld
<1> QED
  BY <1>3, <1>4, <1>5 DEF MonitorsInv

\* Monitor starts one goroutine, which its map names.
LEMMA MonitorsStart ==
  ASSUME TypeOK, MonitorsInv, NEW c \in Lives, Monitor(c)
  PROVE  MonitorsInv'
<1> DEFINE l == found[c]  t == call[c].topic
<1>0. MonitorNamed /\ MonitorOwned /\ MonitorHeld
  BY DEF MonitorsInv
<1>1. l \in Lives /\ t \in Topics /\ pc[c] = "monitor" /\ pc'[c] # "cancelMonitor"
  <2>1. pc[c] = "monitor" /\ Respond(c)
    BY DEF Monitor
  <2>2. pc'[c] # "cancelMonitor"
    BY <2>1 DEF Respond, Ends, TypeOK
  <2> QED
    BY <2>1, <2>2, UseTypes
<1>2. \A d \in Lives \ {c} : /\ pc'[d] = pc[d] /\ found'[d] = found[d]
                             /\ held'[d] = held[d] /\ call'[d] = call[d]
  BY OthersStay DEF Request
<1>3. CASE monitors[l][t] # None
  <2>1. UNCHANGED <<monitors, monOf, monOn>>
    BY <1>3 DEF Monitor, monVars
  <2>2. \A d \in Lives : Stays(d, {"cancelMonitor"})
    BY <1>1, <1>2 DEF Stays
  <2> QED
    BY <2>1, <2>2, QuietMonitors
<1>4. CASE monitors[l][t] = None
  <2>1. PICK k \in Monitors : /\ monOf[k] = None
                              /\ monOf' = [monOf EXCEPT ![k] = <<l, t>>]
                              /\ monOn' = [monOn EXCEPT ![k] = TRUE]
                              /\ monitors' = [monitors EXCEPT ![l][t] = k]
    BY <1>4 DEF Monitor
  <2>2. /\ \A m \in Lives, u \in Topics :
             monitors'[m][u] = IF m = l /\ u = t THEN k ELSE monitors[m][u]
        /\ \A j \in Monitors \ {k} : monOf'[j] = monOf[j] /\ monOn'[j] = monOn[j]
        /\ monOf'[k] = <<l, t>> /\ monOn'[k]
    BY <1>1, <2>1 DEF TypeOK
  <2>3. \A m \in Lives, u \in Topics : <<m, u>> # None
    BY NoneAssumption
  <2>4. MonitorNamed'
    <3> SUFFICES ASSUME NEW m \in Lives, NEW u \in Topics, monitors'[m][u] # None
                 PROVE  monOn'[monitors'[m][u]] /\ monOf'[monitors'[m][u]] = <<m, u>>
      BY DEF MonitorNamed
    <3>1. CASE m = l /\ u = t
      BY <2>2, <3>1
    <3>2. CASE ~(m = l /\ u = t)
      <4>1. monitors'[m][u] = monitors[m][u] /\ monitors[m][u] \in Monitors
        BY <2>2, <3>2 DEF TypeOK
      <4>2. monOn[monitors[m][u]] /\ monOf[monitors[m][u]] = <<m, u>>
        BY <1>0, <4>1 DEF MonitorNamed
      <4> QED
        BY <2>1, <2>2, <2>3, <4>1, <4>2
    <3> QED
      BY <3>1, <3>2
  <2>5. MonitorOwned'
    <3> SUFFICES ASSUME NEW j \in Monitors, monOn'[j]
                 PROVE  /\ monOf'[j] # None
                        /\ \/ monitors'[monOf'[j][1]][monOf'[j][2]] = j
                           \/ \E d \in Lives : pc'[d] = "cancelMonitor" /\ held'[d] = j
      BY DEF MonitorOwned
    <3>1. CASE j = k
      <4>1. monOf'[k] = <<l, t>> /\ monitors'[l][t] = k /\ <<l, t>> # None
        BY <1>1, <2>2, <2>3
      <4> QED
        BY <3>1, <4>1
    <3>2. CASE j # k
      <4>1. monOn[j] /\ monOf'[j] = monOf[j]
        BY <2>2, <3>2
      <4>2. monOf[j] # None /\ monOf[j][1] \in Lives /\ monOf[j][2] \in Topics
        BY <1>0, <4>1 DEF MonitorOwned, TypeOK
      <4>3. CASE monitors[monOf[j][1]][monOf[j][2]] = j
        <5>1. ~(monOf[j][1] = l /\ monOf[j][2] = t)
          BY <1>4, <4>3, NoneAssumption
        <5> QED
          BY <2>2, <4>1, <4>2, <4>3, <5>1
      <4>4. CASE \E d \in Lives : pc[d] = "cancelMonitor" /\ held[d] = j
        BY <1>1, <1>2, <4>1, <4>2, <4>4
      <4> QED
        BY <1>0, <4>1, <4>3, <4>4 DEF MonitorOwned
    <3> QED
      BY <3>1, <3>2
  <2>6. MonitorHeld'
    <3>1. \A d \in Lives : pc'[d] = "cancelMonitor" =>
            d # c /\ pc[d] = "cancelMonitor" /\ held'[d] = held[d] /\ At(d)' = At(d)
      BY <1>1, <1>2 DEF At
    <3>2. ASSUME NEW d \in Lives, pc'[d] = "cancelMonitor"
          PROVE  /\ monOn'[held'[d]] /\ monOf'[held'[d]] = At(d)'
                 /\ monitors'[found'[d]][call'[d].topic] # held'[d]
      <4>1. /\ d # c /\ pc[d] = "cancelMonitor"
            /\ found[d] \in Lives /\ call[d].topic \in Topics /\ held[d] \in Monitors
        BY <3>1, <3>2, UseTypes
      <4>2. /\ monOn[held[d]] /\ monOf[held[d]] = At(d)
            /\ monitors[found[d]][call[d].topic] # held[d]
        BY <1>0, <4>1 DEF MonitorHeld
      <4>3. held[d] # k
        BY <2>1, <2>3, <4>1, <4>2 DEF At
      <4> QED
        BY <1>2, <2>2, <3>1, <3>2, <4>1, <4>2, <4>3
    <3> QED
      BY <1>0, <3>1, <3>2 DEF MonitorHeld
  <2> QED
    BY <2>4, <2>5, <2>6 DEF MonitorsInv
<1> QED
  BY <1>3, <1>4

\* StopMonitor takes the monitor out of the map and holds it.
LEMMA MonitorsStop ==
  ASSUME TypeOK, MonitorsInv, NEW c \in Lives, StopMonitor(c)
  PROVE  MonitorsInv'
<1> DEFINE l == found[c]  t == call[c].topic  k == monitors[l][t]
<1>0. MonitorNamed /\ MonitorOwned /\ MonitorHeld
  BY DEF MonitorsInv
<1>1. l \in Lives /\ t \in Topics /\ pc[c] = "stopMonitor"
  BY UseTypes DEF StopMonitor
<1>2. \A d \in Lives \ {c} : /\ pc'[d] = pc[d] /\ found'[d] = found[d]
                             /\ held'[d] = held[d] /\ call'[d] = call[d]
  BY OthersStay DEF Request
<1>3. UNCHANGED <<monOf, monOn>>
  BY DEF StopMonitor, monVars
<1>4. CASE k = None
  <2>1. UNCHANGED monitors /\ pc'[c] # "cancelMonitor"
    BY <1>4 DEF StopMonitor, Respond, Ends, TypeOK
  <2>2. \A d \in Lives : Stays(d, {"cancelMonitor"})
    BY <1>1, <1>2, <2>1 DEF Stays
  <2> QED
    BY <1>3, <2>1, <2>2, QuietMonitors
<1>5. CASE k # None
  <2>1. /\ pc'[c] = "cancelMonitor" /\ held'[c] = k /\ found'[c] = l /\ call'[c] = call[c]
        /\ monitors' = [monitors EXCEPT ![l][t] = None]
    BY <1>5 DEF StopMonitor, Goto, TypeOK
  <2>2. \A m \in Lives, u \in Topics :
          monitors'[m][u] = IF m = l /\ u = t THEN None ELSE monitors[m][u]
    BY <1>1, <2>1 DEF TypeOK
  <2>3. k \in Monitors /\ monOn[k] /\ monOf[k] = <<l, t>>
    BY <1>0, <1>1, <1>5 DEF MonitorNamed, TypeOK
  <2>4. \A d \in Lives \ {c} : At(d)' = At(d)
    BY <1>2 DEF At
  <2>5. At(c)' = <<l, t>>
    BY <2>1 DEF At
  <2>6. \A d \in Lives : pc[d] = "cancelMonitor" =>
          /\ held[d] # k /\ held[d] \in Monitors
          /\ found[d] \in Lives /\ call[d].topic \in Topics
    <3> SUFFICES ASSUME NEW d \in Lives, pc[d] = "cancelMonitor"
                 PROVE  /\ held[d] # k /\ held[d] \in Monitors
                        /\ found[d] \in Lives /\ call[d].topic \in Topics
      OBVIOUS
    <3>1. held[d] \in Monitors /\ found[d] \in Lives /\ call[d].topic \in Topics
      BY UseTypes
    <3>2. /\ monOf[held[d]] = <<found[d], call[d].topic>>
          /\ monitors[found[d]][call[d].topic] # held[d]
      BY <1>0 DEF MonitorHeld, At
    <3> QED
      BY <2>3, <3>1, <3>2
  <2>7. MonitorNamed'
    <3> SUFFICES ASSUME NEW m \in Lives, NEW u \in Topics, monitors'[m][u] # None
                 PROVE  monOn[monitors'[m][u]] /\ monOf[monitors'[m][u]] = <<m, u>>
      BY <1>3 DEF MonitorNamed
    <3>1. monitors'[m][u] = monitors[m][u]
      BY <2>2
    <3> QED
      BY <1>0, <3>1 DEF MonitorNamed
  <2>8. MonitorOwned'
    <3> SUFFICES ASSUME NEW j \in Monitors, monOn[j]
                 PROVE  /\ monOf[j] # None
                        /\ \/ monitors'[monOf[j][1]][monOf[j][2]] = j
                           \/ \E d \in Lives : pc'[d] = "cancelMonitor" /\ held'[d] = j
      BY <1>3 DEF MonitorOwned
    <3>1. monOf[j] # None /\ monOf[j][1] \in Lives /\ monOf[j][2] \in Topics
      BY <1>0 DEF MonitorOwned, TypeOK
    <3>2. CASE monitors[monOf[j][1]][monOf[j][2]] = j
      <4>1. CASE monOf[j][1] = l /\ monOf[j][2] = t
        BY <2>1, <3>1, <3>2, <4>1
      <4>2. CASE ~(monOf[j][1] = l /\ monOf[j][2] = t)
        BY <2>2, <3>1, <3>2, <4>2
      <4> QED
        BY <4>1, <4>2
    <3>3. CASE \E d \in Lives : pc[d] = "cancelMonitor" /\ held[d] = j
      BY <1>1, <1>2, <3>1, <3>3
    <3> QED
      BY <1>0, <3>2, <3>3 DEF MonitorOwned
  <2>9. MonitorHeld'
    <3>1. ASSUME NEW d \in Lives, pc'[d] = "cancelMonitor"
          PROVE  /\ monOn[held'[d]] /\ monOf[held'[d]] = At(d)'
                 /\ monitors'[found'[d]][call'[d].topic] # held'[d]
      <4>1. CASE d = c
        <5>1. k # None
          BY <1>5
        <5> QED
          BY <1>1, <2>1, <2>2, <2>3, <2>5, <4>1, <5>1, SMTT(30)
      <4>2. CASE d # c
        <5>1. /\ pc[d] = "cancelMonitor" /\ held'[d] = held[d] /\ found'[d] = found[d]
              /\ call'[d] = call[d] /\ At(d)' = At(d)
          BY <1>2, <2>4, <3>1, <4>2
        <5>2. /\ monOn[held[d]] /\ monOf[held[d]] = At(d)
              /\ monitors[found[d]][call[d].topic] # held[d]
          BY <1>0, <5>1 DEF MonitorHeld
        <5>3. held[d] # None
          BY <2>6, <5>1, NoneAssumption
        <5> QED
          BY <2>2, <2>6, <5>1, <5>2, <5>3
      <4> QED
        BY <4>1, <4>2
    <3>2. \A d, e \in Lives :
            pc'[d] = "cancelMonitor" /\ pc'[e] = "cancelMonitor" /\ held'[d] = held'[e] => d = e
      BY <1>0, <1>2, <2>1, <2>6 DEF MonitorHeld
    <3> QED
      BY <1>3, <3>1, <3>2 DEF MonitorHeld
  <2> QED
    BY <2>7, <2>8, <2>9 DEF MonitorsInv
<1> QED
  BY <1>4, <1>5

\* What was taken out of the map is cancelled, and nothing else.
LEMMA MonitorsCancel ==
  ASSUME TypeOK, MonitorsInv, NEW c \in Lives, CancelMonitor(c)
  PROVE  MonitorsInv'
<1> DEFINE k == held[c]
<1>0. MonitorNamed /\ MonitorOwned /\ MonitorHeld
  BY DEF MonitorsInv
<1>1. /\ pc[c] = "cancelMonitor" /\ pc'[c] # "cancelMonitor" /\ k \in Monitors
      /\ found[c] \in Lives /\ call[c].topic \in Topics
  BY UseTypes DEF CancelMonitor, Respond, Ends, TypeOK
<1>2. \A d \in Lives \ {c} : /\ pc'[d] = pc[d] /\ found'[d] = found[d]
                             /\ held'[d] = held[d] /\ call'[d] = call[d] /\ At(d)' = At(d)
  BY OthersStay DEF Request, At
<1>3. UNCHANGED <<monitors, monOf>> /\ \A j \in Monitors : monOn'[j] <=> monOn[j] /\ j # k
  BY DEF CancelMonitor, peerVars, TypeOK
<1>4. monOf[k] = <<found[c], call[c].topic>> /\ monitors[found[c]][call[c].topic] # k
  BY <1>0, <1>1 DEF MonitorHeld, At
<1>5. MonitorNamed'
  <2> SUFFICES ASSUME NEW l \in Lives, NEW t \in Topics, monitors[l][t] # None
               PROVE  monOn'[monitors[l][t]] /\ monOf[monitors[l][t]] = <<l, t>>
    BY <1>3 DEF MonitorNamed
  <2>1. /\ monitors[l][t] \in Monitors
        /\ monOn[monitors[l][t]] /\ monOf[monitors[l][t]] = <<l, t>>
    BY <1>0 DEF MonitorNamed, TypeOK
  <2> QED
    BY <1>3, <1>4, <2>1
<1>6. MonitorOwned'
  <2> SUFFICES ASSUME NEW j \in Monitors, monOn'[j]
               PROVE  /\ monOf[j] # None
                      /\ \/ monitors[monOf[j][1]][monOf[j][2]] = j
                         \/ \E d \in Lives : pc'[d] = "cancelMonitor" /\ held'[d] = j
    BY <1>3 DEF MonitorOwned
  <2>1. monOn[j] /\ j # k
    BY <1>3
  <2> QED
    BY <1>0, <1>2, <2>1 DEF MonitorOwned
<1>7. MonitorHeld'
  <2>1. ASSUME NEW d \in Lives, pc'[d] = "cancelMonitor"
        PROVE  /\ monOn'[held'[d]] /\ monOf[held'[d]] = At(d)'
               /\ monitors[found'[d]][call'[d].topic] # held'[d]
    <3>1. d # c /\ pc[d] = "cancelMonitor" /\ held[d] \in Monitors
      BY <1>1, <1>2, <2>1, UseTypes
    <3>2. held[d] # k
      BY <1>0, <1>1, <3>1 DEF MonitorHeld
    <3> QED
      BY <1>0, <1>2, <1>3, <3>1, <3>2 DEF MonitorHeld
  <2>2. \A d, e \in Lives :
          pc'[d] = "cancelMonitor" /\ pc'[e] = "cancelMonitor" /\ held'[d] = held'[e] => d = e
    BY <1>0, <1>1, <1>2 DEF MonitorHeld
  <2> QED
    BY <1>3, <2>1, <2>2 DEF MonitorHeld
<1> QED
  BY <1>5, <1>6, <1>7 DEF MonitorsInv

\* A goroutine ends when it has been cancelled: nothing names or holds it.
LEMMA MonitorsEnd ==
  ASSUME TypeOK, MonitorsInv, NEW k \in Monitors, MonitorEnds(k)
  PROVE  MonitorsInv'
<1>0. MonitorNamed /\ MonitorOwned /\ MonitorHeld
  BY DEF MonitorsInv
<1>1. UNCHANGED <<monitors, monOn, pc, found, held, call>>
  BY DEF MonitorEnds, peerVars, reqVars
<1>2. ~monOn[k] /\ \A j \in Monitors \ {k} : monOf'[j] = monOf[j]
  BY DEF MonitorEnds, TypeOK
<1>3. MonitorNamed'
  <2> SUFFICES ASSUME NEW l \in Lives, NEW t \in Topics, monitors[l][t] # None
               PROVE  monOn[monitors[l][t]] /\ monOf'[monitors[l][t]] = <<l, t>>
    BY <1>1 DEF MonitorNamed
  <2>1. monitors[l][t] \in Monitors
    BY DEF TypeOK
  <2>2. monOn[monitors[l][t]] /\ monOf[monitors[l][t]] = <<l, t>>
    BY <1>0 DEF MonitorNamed
  <2> QED
    BY <1>2, <2>1, <2>2
<1>4. MonitorOwned'
  BY <1>0, <1>1, <1>2 DEF MonitorOwned
<1>5. MonitorHeld'
  <2>1. \A c \in Lives : At(c)' = At(c)
    BY <1>1 DEF At
  <2>2. \A c \in Lives : pc[c] = "cancelMonitor" => held[c] \in Monitors
    BY UseTypes
  <2>3. \A c \in Lives : pc[c] = "cancelMonitor" => monOf'[held[c]] = monOf[held[c]]
    BY <1>0, <1>2, <2>2 DEF MonitorHeld
  <2> QED
    BY <1>0, <1>1, <2>1, <2>3 DEF MonitorHeld
<1> QED
  BY <1>3, <1>4, <1>5 DEF MonitorsInv

LEMMA MonitorsStep == TypeOK /\ MonitorsInv /\ [Next]_vars => MonitorsInv'
<1> SUFFICES ASSUME TypeOK, MonitorsInv, [Next]_vars PROVE MonitorsInv'
  OBVIOUS
<1>1. CASE UNCHANGED <<monitors, monOf, monOn, pc, found, held, call>>
  BY <1>1, QuietMonitors DEF Stays
<1>2. CASE UNCHANGED vars
  BY <1>1, <1>2 DEF vars, peerVars, monVars, reqVars
<1>3. ASSUME NEW l \in Lives, CreatePeer(l) \/ RemovePeer(l) \/ HostClose(l) PROVE MonitorsInv'
  BY <1>1, <1>3 DEF CreatePeer, RemovePeer, HostClose, peerVars, monVars, reqVars
<1>4. ASSUME NEW t \in Topics, NEW x \in Remotes, MembersChange(t, x) PROVE MonitorsInv'
  BY <1>1, <1>4 DEF MembersChange, peerVars, monVars, reqVars
<1>5. ASSUME NEW c \in Lives, NEW op \in Ops, NEW t \in Topics, Call(c, op, t) PROVE MonitorsInv'
  BY <1>1, <1>5 DEF Call, peerVars, monVars, reqVars
<1>6. ASSUME NEW k \in Monitors, Round(k) PROVE MonitorsInv'
  <2>1. CASE Tick(k)
    BY <1>1, <2>1 DEF Tick, peerVars, monVars, reqVars
  <2>2. CASE Learn(k) \/ Forget(k)
    BY <1>1, <2>2 DEF Learn, Forget, peerVars, monVars, reqVars
  <2>3. CASE Tell(k)
    BY <1>1, <2>3 DEF Tell, peerVars, monVars, reqVars
  <2> QED
    BY <1>6, <2>1, <2>2, <2>3 DEF Round
<1>7. ASSUME NEW c \in Lives, Request(c) PROVE MonitorsInv'
  <2>1. CASE \/ ReadMessage(c) \/ ReadMessageTooLate(c) \/ ReadFails(c) \/ GetPeerAgain(c)
             \/ Subscribe(c) \/ Unsubscribe(c) \/ CancelTopic(c)
             \/ Publish(c) \/ LeaveTopic(c) \/ ListPeers(c) \/ EndIteration(c)
    <3>1. \A d \in Lives : Stays(d, {"cancelMonitor"})
      BY <1>7, <2>1, OthersStay, MonitorsUntouched DEF Stays
    <3> QED
      BY <2>1, <3>1, QuietMonitors, MonitorsUntouched
  <2> QED
    BY <1>7, <2>1, MonitorsStart, MonitorsStop, MonitorsCancel DEF Request
<1> QED
  BY <1>2, <1>3, <1>4, <1>5, <1>6, <1>7, MonitorsClose, MonitorsEnd DEF Next

LEMMA OwnersCorrect == Spec => [](TypeOK /\ OwnersInv)
<1>1. TypeOK /\ OwnersInv /\ [Next]_vars => (TypeOK /\ OwnersInv)'
  BY TypeStep, SubscriptionsStep, MonitorsStep DEF OwnersInv
<1> QED
  BY <1>1, TypeInit, OwnersInit, PTL DEF Spec

\* Every goroutine of a subscription or monitor that is not cancelled is named by the map
\* of its life, or about to be cancelled by the one request that holds it, and what a
\* map names runs for that life and topic.
THEOREM HandlersOwnedCorrect == Spec => []HandlersOwned
  BY OwnersCorrect, OwnersImply, PTL

\* A topic is joined as long as it is subscribed or one request uses it, and no longer.
THEOREM JoinedIsUsedCorrect == Spec => []JoinedIsUsed
  BY OwnersCorrect, OwnersImply, PTL

-----------------------------------------------------------------------------
(* Pages and lives.  What a page may count on is the peer it has created,  *)
(* as long as no other connection has used it: then every change to it is  *)
(* one of the page's own requests.                                         *)

Fresh(l) ==
  /\ topics[l] = NoTopics /\ monitors[l] = NoTopics
  /\ pc[l] = "idle" /\ calls[l] = <<>> /\ listening[l] = {}

LivesInv ==
  /\ \A l \in Lives : life[l] = "up" <=> owner = l
  /\ \A l \in Lives : life[l] = "none" => Fresh(l)
  /\ \A c \in Lives : life[c] = "up" => found[c] \in {None, c}
  /\ \A c, d \in Lives : found[d] = c => life[c] # "none" /\ (d = c \/ intruded[c])

\* What a request leaves alone: everything but its connection and the life it has found.
LEMMA RequestTouches ==
  ASSUME TypeOK, NEW c \in Lives, Request(c)
  PROVE  /\ UNCHANGED <<life, owner, listening, view, late>>
         /\ \A l \in Lives \ {found[c]} : /\ topics'[l] = topics[l] /\ monitors'[l] = monitors[l]
                                          /\ suspect'[l] = suspect[l]
         /\ \A d \in Lives \ {c} : calls'[d] = calls[d]
         /\ pc[c] # "idle" \/ calls[c] # <<>> \/ life[c] \in {"removed", "closed", "down"}
<1> USE DEF peerVars, pageVars, histVars
<1> DEFINE Touched == \A l \in Lives \ {found[c]} : /\ topics'[l] = topics[l] /\ monitors'[l] = monitors[l]
                                                    /\ suspect'[l] = suspect[l]
           OwnCalls == \A d \in Lives \ {c} : calls'[d] = calls[d]
<1>1. Respond(c) => OwnCalls
  BY DEF Respond, Ends, TypeOK
<1>2. ASSUME NEW from, NEW to, Next2(c, from, to) \/ Goto(c, from, to) PROVE OwnCalls
  BY <1>2 DEF Next2, Goto
<1>3. CASE ReadMessage(c) \/ ReadMessageTooLate(c) \/ ReadFails(c)
  BY <1>3 DEF ReadMessage, ReadMessageTooLate, ReadFails, Ends, TypeOK
<1>4. CASE GetPeerAgain(c)
  BY <1>1, <1>2, <1>4 DEF GetPeerAgain, LookupAgain
<1>5. CASE Subscribe(c)
  <2>1. Touched
    BY <1>5 DEF Subscribe, TypeOK
  <2>2. OwnCalls
    BY <1>1, <1>2, <1>5 DEF Subscribe
  <2> QED
    BY <1>5, <2>1, <2>2 DEF Subscribe
<1>6. CASE Monitor(c)
  <2>1. Touched
    BY <1>6 DEF Monitor, TypeOK
  <2>2. OwnCalls
    BY <1>1, <1>6 DEF Monitor
  <2> QED
    BY <1>6, <2>1, <2>2 DEF Monitor
<1>7. CASE Unsubscribe(c)
  <2>1. Touched
    BY <1>7 DEF Unsubscribe, TypeOK
  <2>2. OwnCalls
    BY <1>2, <1>7 DEF Unsubscribe
  <2> QED
    BY <1>7, <2>1, <2>2 DEF Unsubscribe
<1>8. CASE StopMonitor(c)
  <2>1. Touched
    BY <1>8 DEF StopMonitor, TypeOK
  <2>2. OwnCalls
    BY <1>1, <1>2, <1>8 DEF StopMonitor
  <2> QED
    BY <1>8, <2>1, <2>2 DEF StopMonitor
<1>9. CASE CancelTopic(c) \/ CancelMonitor(c) \/ LeaveTopic(c) \/ EndIteration(c)
  BY <1>1, <1>2, <1>9 DEF CancelTopic, CancelMonitor, LeaveTopic, EndIteration
<1>10. CASE Publish(c) \/ ListPeers(c)
  BY <1>1, <1>2, <1>10 DEF Publish, ListPeers
<1> QED
  BY <1>3, <1>4, <1>5, <1>6, <1>7, <1>8, <1>9, <1>10 DEF Request

\* A request finds the present life of its peer, and is noted on it if that is not its
\* own; it drops what it has found before it looks again.
LEMMA RequestFinds ==
  ASSUME TypeOK, NEW c \in Lives, Request(c)
  PROVE  \/ found'[c] \in {None, found[c]} /\ UNCHANGED intruded
         \/ /\ owner # None /\ found[c] = None /\ found'[c] = owner
            /\ intruded' = [intruded EXCEPT ![owner] = @ \/ owner # c]
<1> USE DEF histVars
<1>1. Respond(c) => found'[c] = None
  BY DEF Respond, TypeOK
<1>2. ASSUME NEW from, NEW to, Next2(c, from, to) PROVE found'[c] = None
  BY <1>2 DEF Next2, TypeOK
<1>3. CASE ReadMessage(c)
  BY <1>3 DEF ReadMessage, GetPeer, TypeOK
<1>4. CASE GetPeerAgain(c)
  BY <1>1, <1>4 DEF GetPeerAgain, LookupAgain, GetPeer, TypeOK
<1>5. CASE ReadMessageTooLate(c) \/ ReadFails(c)
  BY <1>5 DEF ReadMessageTooLate, ReadFails
<1>6. CASE \/ Subscribe(c) \/ Monitor(c) \/ Unsubscribe(c) \/ CancelTopic(c) \/ StopMonitor(c)
           \/ CancelMonitor(c) \/ Publish(c) \/ LeaveTopic(c) \/ ListPeers(c) \/ EndIteration(c)
  <2>1. UNCHANGED intruded
    BY <1>6 DEF Subscribe, Monitor, Unsubscribe, CancelTopic, StopMonitor, CancelMonitor,
                Publish, LeaveTopic, ListPeers, EndIteration
  <2>2. found'[c] \in {None, found[c]}
    BY <1>1, <1>2, <1>6 DEF Subscribe, Monitor, Unsubscribe, CancelTopic, StopMonitor,
                            CancelMonitor, Publish, LeaveTopic, ListPeers, EndIteration
  <2> QED
    BY <2>1, <2>2
<1> QED
  BY <1>3, <1>4, <1>5, <1>6 DEF Request

\* What the goroutines leave alone.
LEMMA RoundTouches ==
  ASSUME NEW k \in Monitors, Round(k) \/ MonitorEnds(k)
  PROVE  UNCHANGED <<peerVars, members, readOf, monOn, reqVars, listening, intruded, late>>
<1>1. CASE Tick(k) \/ MonitorEnds(k)
  BY <1>1 DEF Tick, MonitorEnds, pageVars, histVars
<1>2. CASE Learn(k) \/ Forget(k)
  BY <1>2 DEF Learn, Forget, pageVars
<1>3. CASE Tell(k)
  BY <1>3 DEF Tell, histVars
<1> QED
  BY <1>1, <1>2, <1>3 DEF Round

LEMMA LivesInit == Init => LivesInv
  BY NoneAssumption DEF Init, LivesInv, Fresh, NoTopics

LEMMA LivesRequest ==
  ASSUME TypeOK, LivesInv, NEW c \in Lives, Request(c)
  PROVE  LivesInv'
<1>0. UNCHANGED <<life, owner>> /\ \A d \in Lives \ {c} : found'[d] = found[d]
  BY OthersStay, RequestTouches
<1>1. life[c] # "none"
  BY RequestTouches DEF LivesInv, Fresh
<1>2. \A l \in Lives : life[l] = "none" => l # c /\ l # found[c]
  BY <1>1 DEF LivesInv
<1>3. \A l \in Lives : life[l] = "none" => Fresh(l)'
  BY <1>2, OthersStay, RequestTouches DEF LivesInv, Fresh
<1>4. CASE found'[c] \in {None, found[c]} /\ UNCHANGED intruded
  BY <1>0, <1>3, <1>4, NoneAssumption DEF LivesInv
<1>5. CASE /\ owner # None /\ found[c] = None /\ found'[c] = owner
           /\ intruded' = [intruded EXCEPT ![owner] = @ \/ owner # c]
  <2>1. owner \in Lives /\ life[owner] = "up"
    BY <1>5 DEF LivesInv, TypeOK
  <2>2. life[c] = "up" => found'[c] = c
    BY <1>5 DEF LivesInv
  <2>3. \A d \in Lives : intruded'[d] <=> intruded[d] \/ (d = owner /\ owner # c)
    <3>1. /\ intruded'[owner] = (intruded[owner] \/ owner # c)
          /\ \A d \in Lives \ {owner} : intruded'[d] = intruded[d]
      BY <1>5, <2>1, Zenon DEF TypeOK
    <3> QED
      BY <3>1
  <2>4. ASSUME NEW d \in Lives, NEW e \in Lives, found'[e] = d
        PROVE  life[d] # "none" /\ (e = d \/ intruded'[d])
    <3>1. CASE e = c
      BY <1>5, <2>1, <2>3, <2>4, <3>1
    <3>2. CASE e # c
      BY <1>0, <2>3, <2>4, <3>2 DEF LivesInv
    <3> QED
      BY <3>1, <3>2
  <2> QED
    BY <1>0, <1>3, <2>2, <2>4 DEF LivesInv
<1> QED
  BY <1>4, <1>5, RequestFinds

LEMMA LivesStep == TypeOK /\ LivesInv /\ [Next]_vars => LivesInv'
<1> SUFFICES ASSUME TypeOK, LivesInv, [Next]_vars PROVE LivesInv'
  OBVIOUS
<1> USE NoneAssumption
<1>1. CASE UNCHANGED <<life, owner, topics, monitors, pc, calls, listening, found, intruded>>
  BY <1>1 DEF LivesInv, Fresh
<1>2. CASE UNCHANGED vars
  BY <1>1, <1>2 DEF vars, peerVars, reqVars, pageVars, histVars
<1>3. ASSUME NEW l \in Lives, CreatePeer(l) PROVE LivesInv'
  <2>1. Fresh(l) /\ found[l] = None
    BY <1>3 DEF CreatePeer, LivesInv, Fresh, TypeOK
  <2>2. \A d \in Lives : life'[d] = IF d = l THEN "up" ELSE life[d]
    BY <1>3 DEF CreatePeer, TypeOK
  <2>3. owner = None /\ owner' = l
    BY <1>3 DEF CreatePeer
  <2>4. UNCHANGED <<topics, monitors, pc, calls, listening, found, intruded>>
    BY <1>3 DEF CreatePeer, reqVars, pageVars, histVars
  <2>5. \A d \in Lives : Fresh(d)' <=> Fresh(d)
    BY <2>4 DEF Fresh
  <2> QED
    BY <2>1, <2>2, <2>3, <2>4, <2>5 DEF LivesInv
<1>4. ASSUME NEW l \in Lives, RemovePeer(l) PROVE LivesInv'
  <2>1. \A d \in Lives : life'[d] = IF d = l THEN "removed" ELSE life[d]
    BY <1>4 DEF RemovePeer, TypeOK
  <2>2. life[l] = "up" /\ owner' = None
    BY <1>4 DEF RemovePeer
  <2>3. UNCHANGED <<topics, monitors, pc, calls, found, intruded>>
    BY <1>4 DEF RemovePeer, reqVars, histVars
  <2>4. \A d \in Lives \ {l} : listening'[d] = listening[d]
    BY <1>4 DEF RemovePeer, TypeOK
  <2>5. \A d \in Lives \ {l} : Fresh(d) => Fresh(d)'
    BY <2>3, <2>4 DEF Fresh
  <2> QED
    BY <2>1, <2>2, <2>3, <2>5 DEF LivesInv
<1>5. ASSUME NEW l \in Lives, Close(l) \/ HostClose(l) PROVE LivesInv'
  <2>1. PICK s \in {"closed", "down"} : \A d \in Lives : life'[d] = IF d = l THEN s ELSE life[d]
    BY <1>5 DEF Close, HostClose, TypeOK
  <2>2. life[l] \notin {"none", "up"}
    BY <1>5 DEF Close, HostClose
  <2>3. UNCHANGED <<owner, pc, calls, found, intruded, listening>>
    BY <1>5 DEF Close, HostClose, reqVars, pageVars, histVars
  <2>4. \A d \in Lives \ {l} : topics'[d] = topics[d] /\ monitors'[d] = monitors[d]
    BY <1>5 DEF Close, HostClose, TypeOK
  <2>5. \A d \in Lives \ {l} : Fresh(d) => Fresh(d)'
    BY <2>3, <2>4 DEF Fresh
  <2> QED
    BY <2>1, <2>2, <2>3, <2>5 DEF LivesInv
<1>6. ASSUME NEW t \in Topics, NEW x \in Remotes, MembersChange(t, x) PROVE LivesInv'
  BY <1>1, <1>6 DEF MembersChange, peerVars, reqVars, pageVars, histVars
<1>7. ASSUME NEW c \in Lives, NEW op \in Ops, NEW t \in Topics, Call(c, op, t) PROVE LivesInv'
  <2>1. life[c] = "up"
    BY <1>7 DEF Call
  <2>2. UNCHANGED <<life, owner, topics, monitors, pc, found, intruded>>
    BY <1>7 DEF Call, peerVars, histVars
  <2>3. \A d \in Lives \ {c} : calls'[d] = calls[d] /\ listening'[d] = listening[d]
    BY <1>7 DEF Call, TypeOK
  <2>4. \A d \in Lives \ {c} : Fresh(d) => Fresh(d)'
    BY <2>2, <2>3 DEF Fresh
  <2> QED
    BY <2>1, <2>2, <2>4 DEF LivesInv
<1>8. ASSUME NEW k \in Monitors, Round(k) \/ MonitorEnds(k) PROVE LivesInv'
  BY <1>1, <1>8, RoundTouches DEF peerVars, reqVars
<1> QED
  BY <1>2, <1>3, <1>4, <1>5, <1>6, <1>7, <1>8, LivesRequest DEF Next

\* What the handler of a request does in which place.
Joining == {"subscribe", "lookupMonitor", "monitor"}
Leaves  == {"unsubscribe", "cancel", "lookupStop", "stopMonitor", "cancelMonitor"}
Sends   == {"publish", "leave", "listpeers", "iterate"}

PlacesInv ==
  \A c \in Lives :
    /\ pc[c] \in Joining => call[c].op = "subscribe"
    /\ pc[c] \in Leaves => call[c].op = "unsubscribe"
    /\ pc[c] \in Sends => call[c].op \in {"publish", "listpeers"}

LEMMA PlacesStep == TypeOK /\ PlacesInv /\ [Next]_vars => PlacesInv'
<1> SUFFICES ASSUME TypeOK, PlacesInv, [Next]_vars PROVE PlacesInv'
  OBVIOUS
<1> USE DEF Joining, Leaves, Sends
<1>1. CASE UNCHANGED <<pc, call>>
  BY <1>1 DEF PlacesInv
<1>2. CASE UNCHANGED vars
  BY <1>1, <1>2 DEF vars, reqVars
<1>3. ASSUME NEW l \in Lives, CreatePeer(l) \/ RemovePeer(l) \/ Close(l) \/ HostClose(l) PROVE PlacesInv'
  BY <1>1, <1>3 DEF CreatePeer, RemovePeer, Close, HostClose, reqVars
<1>4. ASSUME NEW t \in Topics, NEW x \in Remotes, MembersChange(t, x) PROVE PlacesInv'
  BY <1>1, <1>4 DEF MembersChange, reqVars
<1>5. ASSUME NEW c \in Lives, NEW op \in Ops, NEW t \in Topics, Call(c, op, t) PROVE PlacesInv'
  BY <1>1, <1>5 DEF Call
<1>6. ASSUME NEW k \in Monitors, Round(k) \/ MonitorEnds(k) PROVE PlacesInv'
  BY <1>1, <1>6, RoundTouches DEF reqVars
<1>7. ASSUME NEW c \in Lives, Request(c) PROVE PlacesInv'
  <2> DEFINE Placed == /\ pc'[c] \in Joining => call'[c].op = "subscribe"
                       /\ pc'[c] \in Leaves => call'[c].op = "unsubscribe"
                       /\ pc'[c] \in Sends => call'[c].op \in {"publish", "listpeers"}
  <2>1. Respond(c) => Placed
    BY DEF Respond, Ends, TypeOK
  <2>2. ASSUME NEW from \in Stages, NEW to \in Stages, Next2(c, from, to) \/ Goto(c, from, to)
        PROVE  pc[c] = from /\ pc'[c] = to /\ call'[c] = call[c]
    BY <2>2 DEF Next2, Goto, TypeOK
  <2>3. ASSUME ReadMessage(c) PROVE Placed
    <3>1. Head(calls[c]) \in Calls
      BY <2>3 DEF ReadMessage, TypeOK
    <3>2. pc'[c] = Head(calls[c]).op /\ call'[c] = Head(calls[c])
      BY <2>3 DEF ReadMessage, TypeOK
    <3> QED
      BY <3>1, <3>2 DEF Calls, Ops
  <2>4. ASSUME ReadMessageTooLate(c) \/ ReadFails(c) PROVE Placed
    BY <2>4 DEF ReadMessageTooLate, ReadFails, Ends, TypeOK
  <2>5. ASSUME GetPeerAgain(c) PROVE Placed
    <3>1. ASSUME NEW from \in {"lookupMonitor", "lookupStop"}, NEW to \in {"monitor", "stopMonitor"},
                 LookupAgain(c, from, to)
          PROVE  Respond(c) \/ Goto(c, from, to)
      BY <3>1 DEF LookupAgain
    <3>2. \/ Respond(c)
          \/ Goto(c, "lookupMonitor", "monitor")
          \/ Goto(c, "lookupStop", "stopMonitor")
      BY <2>5, <3>1 DEF GetPeerAgain
    <3> QED
      BY <2>1, <2>2, <3>2 DEF PlacesInv, Stages
  <2>6. ASSUME Subscribe(c) \/ Unsubscribe(c) \/ CancelTopic(c) PROVE Placed
    BY <2>1, <2>2, <2>6 DEF Subscribe, Unsubscribe, CancelTopic, PlacesInv, Stages, Ops
  <2>7. ASSUME StopMonitor(c) PROVE Placed
    <3>1. Respond(c) \/ Goto(c, "stopMonitor", "cancelMonitor")
      BY <2>7 DEF StopMonitor
    <3> QED
      BY <2>1, <2>2, <3>1 DEF PlacesInv, Stages
  <2>8. ASSUME Publish(c) \/ ListPeers(c) PROVE Placed
    BY <2>1, <2>2, <2>8 DEF Publish, ListPeers, PlacesInv, Stages, Ops
  <2>9. ASSUME Monitor(c) \/ CancelMonitor(c) \/ LeaveTopic(c) \/ EndIteration(c) PROVE Placed
    BY <2>1, <2>9 DEF Monitor, CancelMonitor, LeaveTopic, EndIteration
  <2>10. Placed
    BY <1>7, <2>3, <2>4, <2>5, <2>6, <2>7, <2>8, <2>9 DEF Request
  <2> QED
    BY <1>7, <2>10, OthersStay DEF PlacesInv
<1> QED
  BY <1>2, <1>3, <1>4, <1>5, <1>6, <1>7 DEF Next

\* Life c is there for its page, and for nobody else.
Alone(c) == life[c] = "up" /\ ~intruded[c]

Busy(c, t, S) == pc[c] \in S /\ call[c].topic = t

\* The two halves of a subscription, apart from what a request is just doing to them.
Halves(c, t) ==
  /\ \/ topics[c][t] # None <=> monitors[c][t] # None
     \/ Busy(c, t, (Joining \cup Leaves) \ Ops)
  /\ Busy(c, t, Joining \ Ops) => topics[c][t] # None
  /\ Busy(c, t, Leaves \ Ops) => topics[c][t] = None
  /\ Busy(c, t, {"cancelMonitor"}) => monitors[c][t] = None

HalvesInv == \A c \in Lives, t \in Topics : Alone(c) => Halves(c, t)

\* Requests of other connections pass by a life that is its page's own after the step.
LEMMA OthersPassBy ==
  ASSUME TypeOK, LivesInv, NEW c \in Lives, Request(c), NEW d \in Lives, Alone(d)'
  PROVE  /\ Alone(d)
         /\ d # c => /\ UNCHANGED <<topics[d], monitors[d], suspect[d], pc[d], call[d], calls[d]>>
                     /\ found[c] # d
         /\ d = c => owner = c /\ found[c] \in {None, c}
<1>1. Alone(d)
  <2>1. life[d] = "up"
    BY RequestTouches DEF Alone
  <2>2. ~intruded[d]
    <3>1. CASE UNCHANGED intruded
      BY <3>1 DEF Alone
    <3>2. CASE owner # None /\ intruded' = [intruded EXCEPT ![owner] = @ \/ owner # c]
      <4>1. owner \in Lives
        BY <3>2 DEF TypeOK
      <4>2. /\ intruded'[owner] = (intruded[owner] \/ owner # c)
            /\ \A e \in Lives \ {owner} : intruded'[e] = intruded[e]
        BY <3>2, <4>1, Zenon DEF TypeOK
      <4> QED
        BY <4>2 DEF Alone
    <3> QED
      BY <3>1, <3>2, RequestFinds
  <2> QED
    BY <2>1, <2>2 DEF Alone
<1>2. d # c => found[c] # d
  BY <1>1 DEF LivesInv, Alone
<1>3. d # c => UNCHANGED <<topics[d], monitors[d], suspect[d], pc[d], call[d], calls[d]>>
  BY <1>2, OthersStay, RequestTouches
<1>4. d = c => owner = c /\ found[c] \in {None, c}
  BY <1>1 DEF LivesInv, Alone
<1> QED
  BY <1>1, <1>2, <1>3, <1>4

\* A page's own subscription goes on to the monitor: it could fail only on a topic that
\* somebody else has joined on this life.
LEMMA SubscribeGoesOn ==
  ASSUME TypeOK, SubscriptionsInv, LivesInv, NEW c \in Lives, Subscribe(c), Alone(c)
  PROVE  /\ pc[c] = "subscribe" /\ pc'[c] = "lookupMonitor"
         /\ UNCHANGED <<monitors, call, calls>>
         /\ found[c] = c /\ call[c].topic \in Topics
         /\ topics'[c][call[c].topic] # None
         /\ \A v \in Topics \ {call[c].topic} : topics'[c][v] = topics[c][v]
<1> DEFINE t == call[c].topic
<1>1. pc[c] = "subscribe" /\ found[c] = c /\ t \in Topics /\ UNCHANGED monitors
  BY UseTypes DEF Subscribe, Alone, LivesInv, TypeOK
<1>2. ~(topics[c][t] = None /\ t \in joined[c])
  <2> SUFFICES ASSUME topics[c][t] = None, t \in joined[c] PROVE FALSE
    OBVIOUS
  <2>1. PICK d \in Lives : pc[d] \in {"cancel", "leave"} /\ found[d] = c
    BY <1>1 DEF SubscriptionsInv, JoinedIsUsed
  <2> QED
    BY <1>1, <2>1 DEF LivesInv, Alone
<1>3. Next2(c, "subscribe", "lookupMonitor")
  BY <1>1, <1>2 DEF Subscribe
<1>4. pc'[c] = "lookupMonitor" /\ UNCHANGED <<call, calls>>
  BY <1>3 DEF Next2, Goto, TypeOK
<1>5. topics'[c][t] # None /\ \A v \in Topics \ {t} : topics'[c][v] = topics[c][v]
  <2>1. CASE UNCHANGED topics /\ topics[c][t] # None
    BY <2>1
  <2>2. CASE topics[c][t] = None /\ t \notin joined[c]
    <3>1. PICK i \in Readers : topics' = [topics EXCEPT ![c][t] = i]
      BY <1>1, <2>2 DEF Subscribe
    <3> QED
      BY <1>1, <3>1, NoneAssumption DEF TypeOK
  <2> QED
    BY <1>1, <1>2, <2>1, <2>2 DEF Subscribe
<1> QED
  BY <1>1, <1>4, <1>5

\* A page's own request takes both halves, one after the other.
LEMMA HalvesOwn ==
  ASSUME TypeOK, SubscriptionsInv, LivesInv, NEW c \in Lives, Request(c), Alone(c),
         \A u \in Topics : Halves(c, u),
         NEW u \in Topics
  PROVE  Halves(c, u)'
<1> DEFINE t == call[c].topic
<1> USE DEF Joining, Leaves, Ops
<1>1. /\ life[c] = "up" /\ owner # None
      /\ pc[c] \notin {"idle", "ended", "lookupMonitor", "lookupStop"} => found[c] = c /\ t \in Topics
  BY NoneAssumption, UseTypes DEF Alone, LivesInv, TypeOK
<1>2. Respond(c) => pc'[c] = "idle"
  BY <1>1 DEF Respond, TypeOK
<1>3. ASSUME NEW from, NEW to, Next2(c, from, to) \/ Goto(c, from, to)
      PROVE  pc[c] = from /\ pc'[c] = to /\ call'[c] = call[c]
  BY <1>3 DEF Next2, Goto, TypeOK
<1>4. ASSUME pc'[c] \notin (Joining \cup Leaves) \ Ops,
             topics'[c][u] # None <=> monitors'[c][u] # None
      PROVE  Halves(c, u)'
  BY <1>4 DEF Halves, Busy
<1>5. Halves(c, u)
  OBVIOUS
<1>6. CASE ReadMessage(c)
  <2>1. Head(calls[c]) \in Calls
    BY <1>6 DEF ReadMessage, TypeOK
  <2>2. pc[c] = "idle" /\ pc'[c] \in Ops /\ UNCHANGED <<topics, monitors>>
    BY <1>6, <2>1 DEF ReadMessage, TypeOK, Calls, peerVars
  <2> QED
    BY <1>4, <1>5, <2>2 DEF Halves, Busy
<1>7. CASE ReadMessageTooLate(c) \/ ReadFails(c)
  BY <1>1, <1>7 DEF ReadMessageTooLate, ReadFails
<1>8. CASE GetPeerAgain(c)
  <2>1. UNCHANGED <<topics, monitors>>
    BY <1>8 DEF GetPeerAgain, LookupAgain, peerVars
  <2>2. Goto(c, "lookupMonitor", "monitor") \/ Goto(c, "lookupStop", "stopMonitor")
    BY <1>1, <1>8 DEF GetPeerAgain, LookupAgain
  <2> QED
    BY <1>3, <1>5, <2>1, <2>2 DEF Halves, Busy
<1>9. CASE Subscribe(c)
  BY <1>5, <1>9, SubscribeGoesOn DEF Halves, Busy
<1>10. CASE Monitor(c)
  <2>1. pc[c] = "monitor" /\ found[c] = c /\ t \in Topics /\ pc'[c] = "idle" /\ UNCHANGED topics
    BY <1>1, <1>2, <1>10 DEF Monitor
  <2>2. topics[c][t] # None
    BY <2>1 DEF Halves, Busy
  <2>3. monitors'[c][t] # None /\ \A v \in Topics \ {t} : monitors'[c][v] = monitors[c][v]
    <3>1. CASE monitors[c][t] # None
      BY <1>10, <2>1, <3>1 DEF Monitor
    <3>2. CASE monitors[c][t] = None
      <4>1. PICK k \in Monitors : monitors' = [monitors EXCEPT ![c][t] = k]
        BY <1>10, <2>1, <3>2 DEF Monitor
      <4> QED
        BY <2>1, <4>1, NoneAssumption DEF TypeOK
    <3> QED
      BY <3>1, <3>2
  <2> QED
    BY <1>4, <1>5, <2>1, <2>2, <2>3 DEF Halves, Busy
<1>11. CASE Unsubscribe(c)
  <2>1. pc[c] = "unsubscribe" /\ found[c] = c /\ t \in Topics /\ UNCHANGED monitors
    BY <1>1, <1>11 DEF Unsubscribe
  <2>2. Next2(c, "unsubscribe", "lookupStop") \/ Goto(c, "unsubscribe", "cancel")
    BY <1>11 DEF Unsubscribe
  <2>3. topics'[c][t] = None /\ \A v \in Topics \ {t} : topics'[c][v] = topics[c][v]
    BY <1>11, <2>1 DEF Unsubscribe, TypeOK
  <2> QED
    BY <1>3, <1>5, <2>1, <2>2, <2>3 DEF Halves, Busy
<1>12. CASE CancelTopic(c)
  <2>1. Next2(c, "cancel", "lookupStop") /\ UNCHANGED <<topics, monitors>>
    BY <1>12 DEF CancelTopic
  <2> QED
    BY <1>3, <1>5, <2>1 DEF Halves, Busy
<1>13. CASE StopMonitor(c)
  <2>1. pc[c] = "stopMonitor" /\ found[c] = c /\ t \in Topics /\ UNCHANGED topics
    BY <1>1, <1>13 DEF StopMonitor
  <2>2. topics[c][t] = None
    BY <2>1 DEF Halves, Busy
  <2>3. monitors'[c][t] = None /\ \A v \in Topics \ {t} : monitors'[c][v] = monitors[c][v]
    BY <1>13, <2>1 DEF StopMonitor, TypeOK
  <2>4. Respond(c) \/ Goto(c, "stopMonitor", "cancelMonitor")
    BY <1>13 DEF StopMonitor
  <2>5. CASE Respond(c)
    BY <1>2, <1>4, <1>5, <2>1, <2>2, <2>3, <2>5 DEF Halves, Busy
  <2>6. CASE Goto(c, "stopMonitor", "cancelMonitor")
    BY <1>3, <1>5, <2>1, <2>2, <2>3, <2>6 DEF Halves, Busy
  <2> QED
    BY <2>4, <2>5, <2>6
<1>14. CASE CancelMonitor(c)
  <2>1. pc[c] = "cancelMonitor" /\ t \in Topics /\ UNCHANGED <<topics, monitors>> /\ pc'[c] = "idle"
    BY <1>1, <1>2, <1>14 DEF CancelMonitor, peerVars
  <2> QED
    BY <1>4, <1>5, <2>1 DEF Halves, Busy
<1>15. CASE Publish(c) \/ LeaveTopic(c) \/ ListPeers(c) \/ EndIteration(c)
  <2>1. UNCHANGED <<topics, monitors>>
    BY <1>15 DEF Publish, LeaveTopic, ListPeers, EndIteration, peerVars
  <2>2. pc[c] \in Sends /\ pc'[c] \in {"idle", "leave", "iterate"}
    BY <1>2, <1>15 DEF Publish, LeaveTopic, ListPeers, EndIteration, Goto, Sends, TypeOK
  <2> QED
    BY <1>4, <1>5, <2>1, <2>2 DEF Halves, Busy, Sends
<1> QED
  BY <1>6, <1>7, <1>8, <1>9, <1>10, <1>11, <1>12, <1>13, <1>14, <1>15 DEF Request

LEMMA HalvesStep ==
  TypeOK /\ SubscriptionsInv /\ LivesInv /\ HalvesInv /\ [Next]_vars => HalvesInv'
<1> SUFFICES ASSUME TypeOK, SubscriptionsInv, LivesInv, HalvesInv, [Next]_vars,
                    NEW d \in Lives, NEW u \in Topics, Alone(d)'
             PROVE  Halves(d, u)'
  BY DEF HalvesInv
<1>1. CASE Alone(d) /\ UNCHANGED <<topics[d], monitors[d], pc, call>>
  BY <1>1 DEF HalvesInv, Halves, Busy
<1>2. CASE UNCHANGED vars
  BY <1>1, <1>2 DEF vars, peerVars, reqVars, histVars, Alone
<1>3. ASSUME NEW l \in Lives, CreatePeer(l) PROVE Halves(d, u)'
  <2>1. UNCHANGED <<topics, monitors, pc, call, intruded>>
    BY <1>3 DEF CreatePeer, reqVars, histVars
  <2>2. CASE d = l
    <3>1. Fresh(d)
      BY <1>3, <2>2 DEF CreatePeer, LivesInv
    <3> QED
      BY <2>1, <3>1 DEF Fresh, NoTopics, Halves, Busy, Joining, Leaves
  <2>3. CASE d # l
    BY <1>1, <1>3, <2>1, <2>3 DEF CreatePeer, Alone, TypeOK
  <2> QED
    BY <2>2, <2>3
<1>4. ASSUME NEW l \in Lives, RemovePeer(l) \/ Close(l) \/ HostClose(l) PROVE Halves(d, u)'
  <2>1. d # l /\ life'[d] = life[d]
    BY <1>4 DEF RemovePeer, Close, HostClose, Alone, TypeOK
  <2>2. UNCHANGED <<topics[d], monitors[d], pc, call, intruded>>
    BY <1>4, <2>1 DEF RemovePeer, Close, HostClose, reqVars, histVars, TypeOK
  <2> QED
    BY <1>1, <2>1, <2>2 DEF Alone
<1>5. ASSUME NEW t \in Topics, NEW x \in Remotes, MembersChange(t, x) PROVE Halves(d, u)'
  BY <1>1, <1>5 DEF MembersChange, peerVars, reqVars, histVars, Alone
<1>6. ASSUME NEW c \in Lives, NEW op \in Ops, NEW t \in Topics, Call(c, op, t) PROVE Halves(d, u)'
  BY <1>1, <1>6 DEF Call, peerVars, histVars, Alone
<1>7. ASSUME NEW k \in Monitors, Round(k) \/ MonitorEnds(k) PROVE Halves(d, u)'
  BY <1>1, <1>7, RoundTouches DEF peerVars, reqVars, Alone
<1>8. ASSUME NEW c \in Lives, Request(c) PROVE Halves(d, u)'
  <2>1. CASE d = c
    BY <1>8, <2>1, OthersPassBy, HalvesOwn DEF HalvesInv
  <2>2. CASE d # c
    <3>1. Alone(d) /\ UNCHANGED <<topics[d], monitors[d], pc[d], call[d]>>
      BY <1>8, <2>2, OthersPassBy
    <3> QED
      BY <3>1 DEF HalvesInv, Halves, Busy
  <2> QED
    BY <2>1, <2>2
<1> QED
  BY <1>2, <1>3, <1>4, <1>5, <1>6, <1>7, <1>8 DEF Next

\* A request in a queue, and one that no other request undoes.
Lacks(q, b) == \A n \in DOMAIN q : q[n] # b
Stands(q, a, b) == \E n \in DOMAIN q : q[n] = a /\ \A m \in DOMAIN q : m > n => q[m] # b

LEMMA AppendLacks ==
  ASSUME NEW S, NEW q \in Seq(S), NEW r \in S, NEW b
  PROVE  Lacks(Append(q, r), b) <=> Lacks(q, b) /\ r # b
<1>1. /\ DOMAIN q = 1 .. Len(q) /\ DOMAIN Append(q, r) = 1 .. Len(q) + 1 /\ Len(q) \in Nat
      /\ Append(q, r)[Len(q) + 1] = r
      /\ \A n \in 1 .. Len(q) : Append(q, r)[n] = q[n]
  OBVIOUS
<1>2. \A n \in 1 .. Len(q) + 1 : n \in 1 .. Len(q) \/ n = Len(q) + 1
  BY <1>1
<1>3. 1 .. Len(q) \subseteq 1 .. Len(q) + 1 /\ Len(q) + 1 \in 1 .. Len(q) + 1
  BY <1>1
<1> QED
  BY <1>1, <1>2, <1>3 DEF Lacks

LEMMA AppendStands ==
  ASSUME NEW S, NEW q \in Seq(S), NEW r \in S, NEW a, NEW b, a # b
  PROVE  Stands(Append(q, r), a, b) <=> r = a \/ (Stands(q, a, b) /\ r # b)
<1> DEFINE s == Append(q, r)
<1>1. /\ DOMAIN q = 1 .. Len(q) /\ DOMAIN s = 1 .. Len(q) + 1 /\ Len(q) \in Nat
      /\ s[Len(q) + 1] = r
      /\ \A n \in 1 .. Len(q) : s[n] = q[n]
  OBVIOUS
<1>2. ASSUME r = a PROVE Stands(s, a, b)
  <2>1. Len(q) + 1 \in DOMAIN s /\ s[Len(q) + 1] = a
    BY <1>1, <1>2
  <2>2. \A m \in DOMAIN s : ~(m > Len(q) + 1)
    BY <1>1
  <2> QED
    BY <2>1, <2>2 DEF Stands
<1>3. ASSUME Stands(q, a, b), r # b PROVE Stands(s, a, b)
  <2>1. PICK n \in DOMAIN q : q[n] = a /\ \A m \in DOMAIN q : m > n => q[m] # b
    BY <1>3 DEF Stands
  <2>2. n \in DOMAIN s /\ s[n] = a
    BY <1>1, <2>1
  <2>3. \A m \in DOMAIN s : m > n => s[m] # b
    <3> SUFFICES ASSUME NEW m \in DOMAIN s, m > n PROVE s[m] # b
      OBVIOUS
    <3>1. m \in DOMAIN q \/ m = Len(q) + 1
      BY <1>1
    <3> QED
      BY <1>1, <1>3, <2>1, <3>1
  <2> QED
    BY <2>2, <2>3 DEF Stands
<1>4. ASSUME Stands(s, a, b), r # a PROVE Stands(q, a, b) /\ r # b
  <2>1. PICK n \in DOMAIN s : s[n] = a /\ \A m \in DOMAIN s : m > n => s[m] # b
    BY <1>4 DEF Stands
  <2>2. n \in DOMAIN q /\ Len(q) + 1 \in DOMAIN s /\ Len(q) + 1 > n
    BY <1>1, <1>4, <2>1
  <2>3. r # b
    BY <1>1, <2>1, <2>2
  <2>4. \A m \in DOMAIN q : m \in DOMAIN s /\ s[m] = q[m]
    BY <1>1
  <2>5. q[n] = a /\ \A m \in DOMAIN q : m > n => q[m] # b
    BY <2>1, <2>2, <2>4
  <2> QED
    BY <2>2, <2>3, <2>5 DEF Stands
<1> HIDE DEF s
<1> QED
  BY <1>2, <1>3, <1>4 DEF s

LEMMA TailLacks ==
  ASSUME NEW S, NEW q \in Seq(S), q # <<>>, NEW b
  PROVE  Lacks(q, b) <=> Head(q) # b /\ Lacks(Tail(q), b)
<1> DEFINE w == Tail(q)
<1>1. /\ DOMAIN q = 1 .. Len(q) /\ Len(q) \in Nat \ {0} /\ Head(q) = q[1]
      /\ DOMAIN w = 1 .. Len(q) - 1
      /\ \A n \in 1 .. Len(q) - 1 : w[n] = q[n + 1]
  OBVIOUS
<1>2. \A n \in 1 .. Len(q) : n = 1 \/ (n - 1 \in 1 .. Len(q) - 1 /\ q[n] = w[n - 1])
  <2> HIDE DEF w
  <2> TAKE n \in 1 .. Len(q)
  <2>1. n \in Nat /\ (n = 1 \/ n - 1 \in 1 .. Len(q) - 1)
    BY <1>1
  <2>2. ASSUME n # 1 PROVE n - 1 \in DOMAIN w /\ q[n] = w[n - 1]
    <3>1. w[n - 1] = q[(n - 1) + 1]
      BY <1>1, <2>1, <2>2
    <3>2. (n - 1) + 1 = n
      BY <2>1
    <3> QED
      BY <1>1, <2>1, <2>2, <3>1, <3>2
  <2> QED
    BY <1>1, <2>1, <2>2
<1>3. 1 \in 1 .. Len(q) /\ \A n \in 1 .. Len(q) - 1 : n + 1 \in 1 .. Len(q)
  BY <1>1
<1> HIDE DEF w
<1> QED
  BY <1>1, <1>2, <1>3 DEF Lacks, w

LEMMA TailStands ==
  ASSUME NEW S, NEW q \in Seq(S), q # <<>>, NEW a, NEW b
  PROVE  Stands(q, a, b) <=> Stands(Tail(q), a, b) \/ (Head(q) = a /\ Lacks(Tail(q), b))
<1> DEFINE w == Tail(q)
<1>1. /\ DOMAIN q = 1 .. Len(q) /\ Len(q) \in Nat \ {0} /\ Head(q) = q[1]
      /\ DOMAIN w = 1 .. Len(q) - 1
      /\ \A n \in 1 .. Len(q) - 1 : w[n] = q[n + 1]
  OBVIOUS
<1>2. \A n \in DOMAIN q : n \in Nat /\ (n = 1 \/ (n - 1 \in DOMAIN w /\ q[n] = w[n - 1]))
  <2> HIDE DEF w
  <2> TAKE n \in DOMAIN q
  <2>1. n \in Nat /\ (n = 1 \/ n - 1 \in 1 .. Len(q) - 1)
    BY <1>1
  <2>2. ASSUME n # 1 PROVE n - 1 \in DOMAIN w /\ q[n] = w[n - 1]
    <3>1. w[n - 1] = q[(n - 1) + 1]
      BY <1>1, <2>1, <2>2
    <3>2. (n - 1) + 1 = n
      BY <2>1
    <3> QED
      BY <1>1, <2>1, <2>2, <3>1, <3>2
  <2> QED
    BY <1>1, <2>1, <2>2
<1>3. 1 \in DOMAIN q /\ \A n \in DOMAIN w : n \in Nat \ {0} /\ n + 1 \in DOMAIN q /\ q[n + 1] = w[n]
  BY <1>1
<1>4. ASSUME Stands(w, a, b) PROVE Stands(q, a, b)
  <2>1. PICK n \in DOMAIN w : w[n] = a /\ \A m \in DOMAIN w : m > n => w[m] # b
    BY <1>4 DEF Stands
  <2>2. \A m \in DOMAIN q : m > n + 1 => q[m] # b
    <3> SUFFICES ASSUME NEW m \in DOMAIN q, m > n + 1 PROVE q[m] # b
      OBVIOUS
    <3>1. m - 1 \in DOMAIN w /\ q[m] = w[m - 1] /\ m - 1 > n
      BY <1>2, <1>3
    <3> QED
      BY <2>1, <3>1
  <2> QED
    BY <1>3, <2>1, <2>2 DEF Stands
<1>5. ASSUME Head(q) = a, Lacks(w, b) PROVE Stands(q, a, b)
  <2>1. \A m \in DOMAIN q : m > 1 => q[m] # b
    <3> HIDE DEF w
    <3> SUFFICES ASSUME NEW m \in DOMAIN q, m > 1 PROVE q[m] # b
      OBVIOUS
    <3>1. m - 1 \in DOMAIN w /\ q[m] = w[m - 1]
      BY <1>2
    <3> QED
      BY <1>5, <3>1 DEF Lacks
  <2> QED
    BY <1>1, <1>3, <1>5, <2>1 DEF Stands
<1>6. ASSUME Stands(q, a, b) PROVE Stands(w, a, b) \/ (Head(q) = a /\ Lacks(w, b))
  <2>1. PICK n \in DOMAIN q : q[n] = a /\ \A m \in DOMAIN q : m > n => q[m] # b
    BY <1>6 DEF Stands
  <2>2. CASE n = 1
    <3>1. \A m \in DOMAIN w : w[m] # b
      <4> TAKE m \in DOMAIN w
      <4>1. m + 1 \in DOMAIN q /\ m + 1 > 1 /\ q[m + 1] = w[m]
        BY <1>3
      <4> QED
        BY <2>1, <2>2, <4>1
    <3> QED
      BY <1>1, <2>1, <2>2, <3>1 DEF Lacks
  <2>3. CASE n # 1
    <3>1. n - 1 \in DOMAIN w /\ w[n - 1] = a /\ n \in Nat
      BY <1>2, <2>1, <2>3
    <3>2. \A m \in DOMAIN w : m > n - 1 => w[m] # b
      <4> SUFFICES ASSUME NEW m \in DOMAIN w, m > n - 1 PROVE w[m] # b
        OBVIOUS
      <4>1. m + 1 \in DOMAIN q /\ m + 1 > n /\ q[m + 1] = w[m]
        BY <1>3, <3>1
      <4> QED
        BY <2>1, <4>1
    <3> QED
      BY <3>1, <3>2 DEF Stands
  <2> QED
    BY <2>2, <2>3
<1> HIDE DEF w
<1> QED
  BY <1>4, <1>5, <1>6 DEF w

Req(op, t) == [op |-> op, topic |-> t]

\* Whether the peer is subscribed when its present request is done.
Subscribed(c, t) == Busy(c, t, Joining) \/ (~Busy(c, t, Leaves) /\ topics[c][t] # None)

\* A page listens to a topic if its peer will be subscribed when it has handled every
\* request that is waiting.
Heeds(c, t) ==
  t \in listening[c] <=>
    \/ Stands(calls[c], Req("subscribe", t), Req("unsubscribe", t))
    \/ Lacks(calls[c], Req("unsubscribe", t)) /\ Subscribed(c, t)

ListeningInv == \A c \in Lives, t \in Topics : Alone(c) => Heeds(c, t)

LEMMA RequestIs ==
  ASSUME NEW r \in Calls, NEW op, NEW t
  PROVE  r = Req(op, t) <=> r.op = op /\ r.topic = t
  BY DEF Calls, Req

\* What a request of the page itself does not change.
LEMMA SubscribedStays ==
  ASSUME TypeOK, SubscriptionsInv, LivesInv, NEW c \in Lives, Request(c), ~ReadMessage(c), Alone(c),
         \A u \in Topics : Halves(c, u),
         NEW u \in Topics
  PROVE  UNCHANGED calls /\ (Subscribed(c, u)' <=> Subscribed(c, u))
<1> DEFINE t == call[c].topic
<1> USE DEF Joining, Leaves, Ops
<1>1. /\ life[c] = "up" /\ owner # None
      /\ pc[c] \notin {"idle", "ended", "lookupMonitor", "lookupStop"} => found[c] = c /\ t \in Topics
  BY NoneAssumption, UseTypes DEF Alone, LivesInv, TypeOK
<1>2. Respond(c) => pc'[c] = "idle" /\ UNCHANGED calls
  BY <1>1 DEF Respond, TypeOK
<1>3. ASSUME NEW from, NEW to, Next2(c, from, to) \/ Goto(c, from, to)
      PROVE  pc[c] = from /\ pc'[c] = to /\ call'[c] = call[c] /\ UNCHANGED calls
  BY <1>3 DEF Next2, Goto, TypeOK
<1>4. CASE ReadMessageTooLate(c) \/ ReadFails(c)
  BY <1>1, <1>4 DEF ReadMessageTooLate, ReadFails
<1>5. CASE GetPeerAgain(c)
  <2>1. UNCHANGED topics
    BY <1>5 DEF GetPeerAgain, LookupAgain, peerVars
  <2>2. Goto(c, "lookupMonitor", "monitor") \/ Goto(c, "lookupStop", "stopMonitor")
    BY <1>1, <1>5 DEF GetPeerAgain, LookupAgain
  <2> QED
    BY <1>3, <2>1, <2>2 DEF Subscribed, Busy
<1>6. CASE Subscribe(c)
  BY <1>6, SubscribeGoesOn DEF Subscribed, Busy
<1>7. CASE Monitor(c)
  <2>1. pc[c] = "monitor" /\ t \in Topics /\ Respond(c) /\ UNCHANGED topics
    BY <1>1, <1>7 DEF Monitor
  <2>2. topics[c][t] # None
    BY <2>1 DEF Halves, Busy
  <2> QED
    BY <1>2, <2>1, <2>2 DEF Subscribed, Busy
<1>8. CASE Unsubscribe(c)
  <2>1. pc[c] = "unsubscribe" /\ found[c] = c /\ t \in Topics
    BY <1>1, <1>8 DEF Unsubscribe
  <2>2. Next2(c, "unsubscribe", "lookupStop") \/ Goto(c, "unsubscribe", "cancel")
    BY <1>8 DEF Unsubscribe
  <2>3. \A v \in Topics \ {t} : topics'[c][v] = topics[c][v]
    BY <1>8, <2>1 DEF Unsubscribe, TypeOK
  <2> QED
    BY <1>3, <2>1, <2>2, <2>3 DEF Subscribed, Busy
<1>9. CASE CancelTopic(c)
  <2>1. Next2(c, "cancel", "lookupStop") /\ UNCHANGED topics
    BY <1>9 DEF CancelTopic
  <2> QED
    BY <1>3, <2>1 DEF Subscribed, Busy
<1>10. CASE StopMonitor(c) \/ CancelMonitor(c)
  <2>1. pc[c] \in {"stopMonitor", "cancelMonitor"} /\ t \in Topics /\ UNCHANGED topics
    BY <1>1, <1>10 DEF StopMonitor, CancelMonitor, peerVars
  <2>2. topics[c][t] = None
    BY <2>1 DEF Halves, Busy
  <2>3. Respond(c) \/ Goto(c, "stopMonitor", "cancelMonitor")
    BY <1>10 DEF StopMonitor, CancelMonitor
  <2>4. CASE Respond(c)
    BY <1>2, <2>1, <2>2, <2>4 DEF Subscribed, Busy
  <2>5. CASE Goto(c, "stopMonitor", "cancelMonitor")
    BY <1>3, <2>1, <2>5 DEF Subscribed, Busy
  <2> QED
    BY <2>3, <2>4, <2>5
<1>11. CASE Publish(c) \/ LeaveTopic(c) \/ ListPeers(c) \/ EndIteration(c)
  <2>1. UNCHANGED topics
    BY <1>11 DEF Publish, LeaveTopic, ListPeers, EndIteration, peerVars
  <2>2. pc[c] \in Sends /\ pc'[c] \in {"idle", "leave", "iterate"} /\ UNCHANGED calls
    BY <1>2, <1>11 DEF Publish, LeaveTopic, ListPeers, EndIteration, Goto, Sends, TypeOK
  <2> QED
    BY <2>1, <2>2 DEF Subscribed, Busy, Sends
<1> QED
  BY <1>4, <1>5, <1>6, <1>7, <1>8, <1>9, <1>10, <1>11 DEF Request

\* readPump takes the first request out of the queue and has it on its hands.
LEMMA ListeningReads ==
  ASSUME TypeOK, NEW c \in Lives, ReadMessage(c), NEW u \in Topics, Heeds(c, u)
  PROVE  Heeds(c, u)'
<1> DEFINE r == Head(calls[c])  w == Tail(calls[c])  a == Req("subscribe", u)  b == Req("unsubscribe", u)
<1>1. calls[c] \in Seq(Calls) /\ calls[c] # <<>> /\ r \in Calls /\ w \in Seq(Calls)
  BY DEF ReadMessage, TypeOK
<1>2. /\ pc[c] = "idle" /\ pc'[c] = r.op /\ call'[c] = r /\ calls'[c] = w
      /\ UNCHANGED <<topics, listening>>
  BY DEF ReadMessage, TypeOK, peerVars, pageVars
<1>3. (r = a <=> r.op = "subscribe" /\ r.topic = u) /\ (r = b <=> r.op = "unsubscribe" /\ r.topic = u)
  BY <1>1, RequestIs
<1>4. Subscribed(c, u) <=> topics[c][u] # None
  BY <1>2 DEF Subscribed, Busy, Joining, Leaves
<1>5. Subscribed(c, u)' <=> r = a \/ (r # b /\ topics[c][u] # None)
  <2>1. r.op \in Ops
    BY <1>1 DEF Calls
  <2> QED
    BY <1>2, <1>3, <2>1 DEF Subscribed, Busy, Joining, Leaves, Ops
<1>6. Stands(calls[c], a, b) <=> Stands(w, a, b) \/ (r = a /\ Lacks(w, b))
  BY <1>1, TailStands
<1>7. Lacks(calls[c], b) <=> r # b /\ Lacks(w, b)
  BY <1>1, TailLacks
<1>8. r = a => r # b
  BY <1>3
<1>9. u \in listening[c] <=> Stands(calls[c], a, b) \/ (Lacks(calls[c], b) /\ Subscribed(c, u))
  BY DEF Heeds
<1>10. Heeds(c, u)' <=> (u \in listening[c] <=> Stands(w, a, b) \/ (Lacks(w, b) /\ Subscribed(c, u)'))
  BY <1>2 DEF Heeds, Req
<1> HIDE DEF r, w, a, b
<1> QED
  BY <1>4, <1>5, <1>6, <1>7, <1>8, <1>9, <1>10

\* The page sets its listener as it sends the request.
LEMMA ListeningCalls ==
  ASSUME TypeOK, NEW c \in Lives, NEW op \in Ops, NEW t \in Topics, Call(c, op, t),
         NEW u \in Topics, Heeds(c, u)
  PROVE  Heeds(c, u)'
<1> DEFINE r == Req(op, t)  q == calls[c]  a == Req("subscribe", u)  b == Req("unsubscribe", u)
<1>1. q \in Seq(Calls) /\ r \in Calls
  BY DEF TypeOK, Calls, Req
<1>2. calls'[c] = Append(q, r) /\ UNCHANGED <<topics, pc, call>>
  BY DEF Call, TypeOK, Req, peerVars
<1>3. (r = a <=> op = "subscribe" /\ t = u) /\ (r = b <=> op = "unsubscribe" /\ t = u) /\ a # b
  BY DEF Req
<1>4. u \in listening'[c] <=> r = a \/ (r # b /\ u \in listening[c])
  <2>1. listening'[c] = IF op = "subscribe" THEN listening[c] \cup {t}
                        ELSE IF op = "unsubscribe" THEN listening[c] \ {t} ELSE listening[c]
    BY DEF Call, TypeOK
  <2> HIDE DEF r, a, b
  <2> QED
    BY <1>3, <2>1
<1>5. Stands(Append(q, r), a, b) <=> r = a \/ (Stands(q, a, b) /\ r # b)
  BY <1>1, <1>3, AppendStands
<1>6. Lacks(Append(q, r), b) <=> Lacks(q, b) /\ r # b
  BY <1>1, AppendLacks
<1>7. Subscribed(c, u)' <=> Subscribed(c, u)
  BY <1>2 DEF Subscribed, Busy
<1>8. u \in listening[c] <=> Stands(q, a, b) \/ (Lacks(q, b) /\ Subscribed(c, u))
  BY DEF Heeds
<1>9. Heeds(c, u)' <=> (u \in listening'[c] <=> \/ Stands(Append(q, r), a, b)
                                                \/ Lacks(Append(q, r), b) /\ Subscribed(c, u)')
  BY <1>2 DEF Heeds, Req
<1>10. r = a => r # b
  BY <1>3
<1> HIDE DEF r, q, a, b
<1> QED
  BY <1>4, <1>5, <1>6, <1>7, <1>8, <1>9, <1>10

LEMMA ListeningStep ==
  TypeOK /\ SubscriptionsInv /\ LivesInv /\ HalvesInv /\ ListeningInv /\ [Next]_vars => ListeningInv'
<1> SUFFICES ASSUME TypeOK, SubscriptionsInv, LivesInv, HalvesInv, ListeningInv, [Next]_vars,
                    NEW d \in Lives, NEW u \in Topics, Alone(d)'
             PROVE  Heeds(d, u)'
  BY DEF ListeningInv
<1>1. CASE Alone(d) /\ UNCHANGED <<topics[d], pc[d], call[d], calls[d], listening[d]>>
  BY <1>1 DEF ListeningInv, Heeds, Subscribed, Busy
<1>2. CASE UNCHANGED vars
  BY <1>1, <1>2 DEF vars, peerVars, reqVars, pageVars, histVars, Alone
<1>3. ASSUME NEW l \in Lives, CreatePeer(l) PROVE Heeds(d, u)'
  <2>1. UNCHANGED <<topics, pc, call, calls, listening, intruded>>
    BY <1>3 DEF CreatePeer, reqVars, pageVars, histVars
  <2>2. CASE d = l
    <3>1. Fresh(d)
      BY <1>3, <2>2 DEF CreatePeer, LivesInv
    <3>2. /\ listening'[d] = {} /\ calls'[d] = <<>>
          /\ topics'[d][u] = None /\ pc'[d] = "idle"
      BY <2>1, <3>1 DEF Fresh, NoTopics
    <3>3. ~Subscribed(d, u)'
      BY <3>2 DEF Subscribed, Busy, Joining, Leaves
    <3>4. ~Stands(calls'[d], Req("subscribe", u), Req("unsubscribe", u))
      BY <3>2 DEF Stands
    <3> QED
      BY <3>2, <3>3, <3>4 DEF Heeds, Req
  <2>3. CASE d # l
    BY <1>1, <1>3, <2>1, <2>3 DEF CreatePeer, Alone, TypeOK
  <2> QED
    BY <2>2, <2>3
<1>4. ASSUME NEW l \in Lives, RemovePeer(l) \/ Close(l) \/ HostClose(l) PROVE Heeds(d, u)'
  <2>1. d # l /\ life'[d] = life[d]
    BY <1>4 DEF RemovePeer, Close, HostClose, Alone, TypeOK
  <2>2. UNCHANGED <<topics[d], pc, call, calls, listening[d], intruded>>
    BY <1>4, <2>1 DEF RemovePeer, Close, HostClose, reqVars, pageVars, histVars, TypeOK
  <2> QED
    BY <1>1, <2>1, <2>2 DEF Alone
<1>5. ASSUME NEW t \in Topics, NEW x \in Remotes, MembersChange(t, x) PROVE Heeds(d, u)'
  BY <1>1, <1>5 DEF MembersChange, peerVars, reqVars, pageVars, histVars, Alone
<1>6. ASSUME NEW c \in Lives, NEW op \in Ops, NEW t \in Topics, Call(c, op, t) PROVE Heeds(d, u)'
  <2>1. Alone(d) /\ UNCHANGED <<topics, pc, call>>
    BY <1>6 DEF Call, peerVars, histVars, Alone
  <2>2. CASE d = c
    BY <1>6, <2>1, <2>2, ListeningCalls DEF ListeningInv
  <2>3. CASE d # c
    <3>1. UNCHANGED <<calls[d], listening[d]>>
      BY <1>6, <2>3 DEF Call, TypeOK
    <3> QED
      BY <1>1, <2>1, <3>1
  <2> QED
    BY <2>2, <2>3
<1>7. ASSUME NEW k \in Monitors, Round(k) \/ MonitorEnds(k) PROVE Heeds(d, u)'
  BY <1>1, <1>7, RoundTouches DEF peerVars, reqVars, Alone
<1>8. ASSUME NEW c \in Lives, Request(c) PROVE Heeds(d, u)'
  <2>1. Alone(d) /\ UNCHANGED listening
    BY <1>8, OthersPassBy, RequestTouches
  <2>2. CASE d # c
    BY <1>1, <1>8, <2>1, <2>2, OthersPassBy
  <2>3. CASE d = c /\ ReadMessage(c)
    BY <2>1, <2>3, ListeningReads DEF ListeningInv
  <2>4. CASE d = c /\ ~ReadMessage(c)
    <3>1. UNCHANGED calls /\ (Subscribed(d, u)' <=> Subscribed(d, u))
      BY <1>8, <2>1, <2>4, SubscribedStays DEF HalvesInv
    <3> QED
      BY <2>1, <3>1 DEF ListeningInv, Heeds, Req
  <2> QED
    BY <2>2, <2>3, <2>4
<1> QED
  BY <1>2, <1>3, <1>4, <1>5, <1>6, <1>7, <1>8 DEF Next

PagesInv == LivesInv /\ PlacesInv /\ HalvesInv /\ ListeningInv

LEMMA PagesInit == Init => PagesInv
<1> SUFFICES ASSUME Init PROVE PagesInv
  OBVIOUS
<1>1. PlacesInv
  BY DEF Init, PlacesInv, Joining, Leaves, Sends
<1>2. \A c \in Lives : ~Alone(c)
  BY DEF Init, Alone
<1> QED
  BY <1>1, <1>2, LivesInit DEF PagesInv, HalvesInv, ListeningInv

LEMMA PagesCorrect == Spec => [](TypeOK /\ OwnersInv /\ PagesInv)
<1>1. TypeOK /\ OwnersInv /\ PagesInv /\ [Next]_vars => (TypeOK /\ OwnersInv /\ PagesInv)'
  BY TypeStep, SubscriptionsStep, MonitorsStep, LivesStep, PlacesStep, HalvesStep, ListeningStep
     DEF OwnersInv, PagesInv
<1> QED
  BY <1>1, TypeInit, OwnersInit, PagesInit, PTL DEF Spec

LEMMA PagesImply == PagesInv => SubscribedTogether
<1> SUFFICES ASSUME PagesInv, NEW c \in Lives, Alone(c), pc[c] = "idle", NEW t \in Topics
             PROVE  /\ topics[c][t] # None <=> monitors[c][t] # None
                    /\ calls[c] = <<>> => (t \in listening[c] <=> topics[c][t] # None)
  BY DEF SubscribedTogether, Alone
<1>1. \A S : "idle" \notin S => ~Busy(c, t, S)
  BY DEF Busy
<1>2. "idle" \notin Joining /\ "idle" \notin Leaves
  BY DEF Joining, Leaves
<1>3. topics[c][t] # None <=> monitors[c][t] # None
  BY <1>1, <1>2 DEF PagesInv, HalvesInv, Halves
<1>4. ASSUME calls[c] = <<>> PROVE t \in listening[c] <=> topics[c][t] # None
  <2>1. ~Stands(calls[c], Req("subscribe", t), Req("unsubscribe", t))
    BY <1>4 DEF Stands
  <2>2. Lacks(calls[c], Req("unsubscribe", t))
    BY <1>4 DEF Lacks
  <2>3. Subscribed(c, t) <=> topics[c][t] # None
    BY <1>1, <1>2 DEF Subscribed
  <2> QED
    BY <2>1, <2>2, <2>3 DEF PagesInv, ListeningInv, Heeds
<1> QED
  BY <1>3, <1>4

\* A page and the peer it created agree, when its requests are answered, on what it
\* listens to, is subscribed to and monitors, in whatever order requests were sent while
\* others were handled, unless another connection has used the peer.
THEOREM SubscribedTogetherCorrect == Spec => []SubscribedTogether
  BY PagesCorrect, PagesImply, PTL

-----------------------------------------------------------------------------
(* What a page hears.  It is what the monitor of the topic knows, since    *)
(* that monitor began.                                                     *)

TidyInv ==
  \A k \in Monitors :
    /\ monOf[k] = None => known[k] = {} /\ monPc[k] = "select"
    /\ news[k] # None => (news[k].joined <=> news[k].peer \in known[k])

LEMMA RequestKeepsRounds ==
  ASSUME NEW c \in Lives, Request(c)
  PROVE  UNCHANGED <<monPc, known, snap, news>>
<1> USE DEF monVars
<1>1. CASE Monitor(c)
  BY <1>1 DEF Monitor
<1>2. CASE ReadMessage(c) \/ ReadMessageTooLate(c) \/ ReadFails(c) \/ GetPeerAgain(c)
  BY <1>2 DEF ReadMessage, ReadMessageTooLate, ReadFails, GetPeerAgain, LookupAgain
<1>3. CASE Subscribe(c) \/ Unsubscribe(c) \/ CancelTopic(c) \/ StopMonitor(c) \/ CancelMonitor(c)
  BY <1>3 DEF Subscribe, Unsubscribe, CancelTopic, StopMonitor, CancelMonitor
<1>4. CASE Publish(c) \/ LeaveTopic(c) \/ ListPeers(c) \/ EndIteration(c)
  BY <1>4 DEF Publish, LeaveTopic, ListPeers, EndIteration
<1> QED
  BY <1>1, <1>2, <1>3, <1>4 DEF Request

\* A request starts monitors, and ends none.
LEMMA RequestKeepsMonitors ==
  ASSUME TypeOK, NEW c \in Lives, Request(c), NEW k \in Monitors
  PROVE  monOf'[k] = monOf[k] \/ monOf'[k] # None
<1>1. CASE Monitor(c)
  <2> DEFINE l == found[c]  t == call[c].topic
  <2>1. l \in Lives /\ t \in Topics
    BY <1>1, UseTypes DEF Monitor
  <2>2. CASE monitors[l][t] # None
    BY <1>1, <2>2 DEF Monitor, monVars
  <2>3. CASE monitors[l][t] = None
    <3>1. PICK j \in Monitors : monOf' = [monOf EXCEPT ![j] = <<l, t>>]
      BY <1>1, <2>3 DEF Monitor
    <3>2. <<l, t>> # None
      BY <2>1, NoneAssumption
    <3> QED
      BY <3>1, <3>2 DEF TypeOK
  <2> QED
    BY <2>2, <2>3
<1>2. CASE ~Monitor(c)
  <2>1. UNCHANGED monOf
    BY <1>2, MonitorsUntouched DEF Request, StopMonitor, CancelMonitor, monVars
  <2> QED
    BY <2>1
<1> QED
  BY <1>1, <1>2

LEMMA TidyStep == TypeOK /\ TidyInv /\ [Next]_vars => TidyInv'
<1> SUFFICES ASSUME TypeOK, TidyInv, [Next]_vars PROVE TidyInv'
  OBVIOUS
<1>1. CASE UNCHANGED <<monOf, known, monPc, news>>
  BY <1>1 DEF TidyInv
<1>2. CASE UNCHANGED vars
  BY <1>1, <1>2 DEF vars, monVars
<1>3. ASSUME NEW l \in Lives, CreatePeer(l) \/ RemovePeer(l) \/ Close(l) \/ HostClose(l) PROVE TidyInv'
  BY <1>1, <1>3 DEF CreatePeer, RemovePeer, Close, HostClose, monVars
<1>4. ASSUME NEW t \in Topics, NEW x \in Remotes, MembersChange(t, x) PROVE TidyInv'
  BY <1>1, <1>4 DEF MembersChange, monVars
<1>5. ASSUME NEW c \in Lives, NEW op \in Ops, NEW t \in Topics, Call(c, op, t) PROVE TidyInv'
  BY <1>1, <1>5 DEF Call, monVars
<1>6. ASSUME NEW c \in Lives, Request(c) PROVE TidyInv'
  BY <1>6, RequestKeepsRounds, RequestKeepsMonitors DEF TidyInv
<1>7. ASSUME NEW k \in Monitors, Round(k) \/ MonitorEnds(k) PROVE TidyInv'
  <2>1. CASE Tick(k)
    <3>1. monOf[k] # None /\ UNCHANGED <<monOf, known, news>>
      BY <2>1 DEF Tick
    <3>2. \A j \in Monitors \ {k} : monPc'[j] = monPc[j]
      BY <2>1 DEF Tick, TypeOK
    <3> QED
      BY <3>1, <3>2 DEF TidyInv
  <2>2. CASE Learn(k) \/ Forget(k)
    <3>1. monOf[k] # None /\ UNCHANGED monOf
      BY <2>2 DEF Learn, Forget, TidyInv
    <3>2. \A j \in Monitors \ {k} : monPc'[j] = monPc[j] /\ known'[j] = known[j] /\ news'[j] = news[j]
      BY <2>2 DEF Learn, Forget, WriteKnown, TypeOK
    <3>3. news'[k].joined <=> news'[k].peer \in known'[k]
      <4>1. CASE Learn(k)
        <5>1. PICK x \in snap[k] : /\ known' = [known EXCEPT ![k] = known[k] \cup {x}]
                                   /\ news' = [news EXCEPT ![k] = [peer |-> x, joined |-> TRUE]]
          BY <4>1 DEF Learn, WriteKnown
        <5>2. news'[k] = [peer |-> x, joined |-> TRUE] /\ x \in known'[k]
          BY <5>1 DEF TypeOK
        <5>3. news'[k].joined = TRUE /\ news'[k].peer = x
          BY <5>2
        <5> QED
          BY <5>2, <5>3
      <4>2. CASE Forget(k)
        <5>1. PICK x \in known[k] : /\ known' = [known EXCEPT ![k] = known[k] \ {x}]
                                    /\ news' = [news EXCEPT ![k] = [peer |-> x, joined |-> FALSE]]
          BY <4>2 DEF Forget, WriteKnown
        <5>2. news'[k] = [peer |-> x, joined |-> FALSE] /\ x \notin known'[k]
          BY <5>1 DEF TypeOK
        <5>3. news'[k].joined = FALSE /\ news'[k].peer = x
          BY <5>2
        <5> QED
          BY <5>2, <5>3
      <4> QED
        BY <2>2, <4>1, <4>2
    <3> QED
      BY <3>1, <3>2, <3>3 DEF TidyInv
  <2>3. CASE Tell(k)
    <3>1. monOf[k] # None /\ UNCHANGED <<monOf, known>>
      BY <2>3 DEF Tell, TidyInv
    <3>2. news'[k] = None /\ \A j \in Monitors \ {k} : monPc'[j] = monPc[j] /\ news'[j] = news[j]
      BY <2>3 DEF Tell, TypeOK
    <3> QED
      BY <3>1, <3>2 DEF TidyInv
  <2>4. CASE MonitorEnds(k)
    <3>1. /\ monPc[k] = "select" /\ known'[k] = {} /\ UNCHANGED <<monPc, news>>
          /\ \A j \in Monitors \ {k} : monOf'[j] = monOf[j] /\ known'[j] = known[j]
      BY <2>4 DEF MonitorEnds, TypeOK
    <3>2. news[k] = None
      BY <3>1 DEF TypeOK
    <3> QED
      BY <3>1, <3>2 DEF TidyInv
  <2> QED
    BY <1>7, <2>1, <2>2, <2>3, <2>4 DEF Round
<1> QED
  BY <1>2, <1>3, <1>4, <1>5, <1>6, <1>7 DEF Next

LEMMA LeavingIs ==
  ASSUME TypeOK, NEW c \in Lives, NEW t \in Topics
  PROVE  Leaving(c, t) <=> \/ pc[c] \notin {"idle", "ended"} /\ call[c] = Req("unsubscribe", t)
                           \/ ~Lacks(calls[c], Req("unsubscribe", t))
  BY DEF Leaving, Lacks, Req

\* A topic the page does not listen to, and is not just leaving, has no monitor.
LEMMA UnheardIsUnmonitored ==
  ASSUME TypeOK, PagesInv, NEW c \in Lives, NEW t \in Topics, Alone(c),
         t \notin listening[c], ~Leaving(c, t)
  PROVE  monitors[c][t] = None
<1>1. Lacks(calls[c], Req("unsubscribe", t))
  BY LeavingIs
<1>2. ~Subscribed(c, t)
  BY <1>1 DEF PagesInv, ListeningInv, Heeds
<1>3. ~Busy(c, t, Joining)
  BY <1>2 DEF Subscribed
<1>4. ~Busy(c, t, Leaves)
  <2> SUFFICES ASSUME pc[c] \in Leaves, call[c].topic = t PROVE FALSE
    BY DEF Busy
  <2>1. call[c] \in Calls /\ pc[c] \notin {"idle", "ended"}
    BY DEF TypeOK, Leaves
  <2>2. call[c].op = "unsubscribe"
    BY DEF PagesInv, PlacesInv
  <2>3. call[c] = Req("unsubscribe", t)
    BY <2>1, <2>2, RequestIs
  <2> QED
    BY <2>1, <2>3, LeavingIs
<1>5. topics[c][t] = None
  BY <1>2, <1>3, <1>4 DEF Subscribed
<1>6. ~Busy(c, t, (Joining \cup Leaves) \ Ops)
  BY <1>3, <1>4 DEF Busy
<1> QED
  BY <1>5, <1>6 DEF PagesInv, HalvesInv, Halves

\* A request stays the same until it is answered.
LEMMA CallStays ==
  ASSUME TypeOK, NEW c \in Lives, Request(c), ~ReadMessage(c)
  PROVE  pc'[c] \in {"idle", "ended"} \/ (call'[c] = call[c] /\ pc[c] \notin {"idle", "ended"})
<1> DEFINE Stayed == pc'[c] \in {"idle", "ended"} \/ (call'[c] = call[c] /\ pc[c] \notin {"idle", "ended"})
<1>1. Respond(c) => Stayed
  BY DEF Respond, Ends, TypeOK
<1>2. ASSUME NEW from \in Stages \ {"idle", "ended"}, NEW to, Next2(c, from, to) \/ Goto(c, from, to)
      PROVE  Stayed
  BY <1>2 DEF Next2, Goto, TypeOK
<1>3. CASE ReadMessageTooLate(c) \/ ReadFails(c)
  BY <1>3 DEF ReadMessageTooLate, ReadFails, Ends, TypeOK
<1>4. CASE GetPeerAgain(c)
  <2>1. Respond(c) \/ Goto(c, "lookupMonitor", "monitor") \/ Goto(c, "lookupStop", "stopMonitor")
    BY <1>4 DEF GetPeerAgain, LookupAgain
  <2> QED
    BY <1>1, <1>2, <2>1 DEF Stages
<1>5. CASE Subscribe(c) \/ Unsubscribe(c) \/ CancelTopic(c)
  <2>1. \/ Respond(c) \/ Next2(c, "subscribe", "lookupMonitor")
        \/ Next2(c, "unsubscribe", "lookupStop") \/ Goto(c, "unsubscribe", "cancel")
        \/ Next2(c, "cancel", "lookupStop")
    BY <1>5 DEF Subscribe, Unsubscribe, CancelTopic
  <2> QED
    BY <1>1, <1>2, <2>1 DEF Stages, Ops
<1>6. CASE StopMonitor(c) \/ Publish(c) \/ ListPeers(c)
  <2>1. \/ Respond(c) \/ Goto(c, "stopMonitor", "cancelMonitor")
        \/ Goto(c, "publish", "leave") \/ Goto(c, "listpeers", "iterate")
    BY <1>6 DEF StopMonitor, Publish, ListPeers
  <2> QED
    BY <1>1, <1>2, <2>1 DEF Stages, Ops
<1>7. CASE Monitor(c) \/ CancelMonitor(c) \/ LeaveTopic(c) \/ EndIteration(c)
  BY <1>1, <1>7 DEF Monitor, CancelMonitor, LeaveTopic, EndIteration
<1> QED
  BY <1>3, <1>4, <1>5, <1>6, <1>7 DEF Request

\* When the page is done with leaving a topic, the topic has no monitor.
LEMMA LeftIsUnmonitored ==
  ASSUME TypeOK, SubscriptionsInv, PagesInv, NEW c \in Lives, Request(c), Alone(c), Alone(c)',
         NEW t \in Topics, Leaving(c, t), ~Leaving(c, t)', TypeOK'
  PROVE  monitors'[c][t] = None
<1> DEFINE b == Req("unsubscribe", t)
<1>1. CASE ReadMessage(c)
  <2>1. calls[c] \in Seq(Calls) /\ calls[c] # <<>> /\ Head(calls[c]) \in Calls
    BY <1>1 DEF ReadMessage, TypeOK
  <2>2. /\ pc[c] = "idle" /\ pc'[c] \in Ops
        /\ call'[c] = Head(calls[c]) /\ calls'[c] = Tail(calls[c])
    BY <1>1, <2>1 DEF ReadMessage, TypeOK, Calls
  <2>3. ~Lacks(calls[c], b)
    BY <2>2, LeavingIs
  <2>4. Head(calls[c]) = b \/ ~Lacks(Tail(calls[c]), b)
    BY <2>1, <2>3, TailLacks
  <2>5. Leaving(c, t)' <=> \/ pc'[c] \notin {"idle", "ended"} /\ call'[c] = b
                           \/ ~Lacks(calls'[c], b)
    BY DEF Leaving, Lacks, Req
  <2> QED
    BY <2>2, <2>4, <2>5 DEF Ops
<1>2. CASE ~ReadMessage(c)
  <2>1. UNCHANGED calls /\ (Subscribed(c, t)' <=> Subscribed(c, t))
    BY <1>2, SubscribedStays DEF PagesInv, HalvesInv
  <2>2. Leaving(c, t)' <=> \/ pc'[c] \notin {"idle", "ended"} /\ call'[c] = b
                           \/ ~Lacks(calls[c], b)
    BY <2>1 DEF Leaving, Lacks, Req
  <2>3. pc[c] \notin {"idle", "ended"} /\ call[c] = b /\ pc'[c] \in {"idle", "ended"}
    BY <1>2, <2>2, LeavingIs, CallStays
  <2>4. call[c].op = "unsubscribe" /\ call[c].topic = t
    BY <2>3 DEF Req
  <2>5. pc[c] \in Leaves
    BY <2>3, <2>4 DEF PagesInv, PlacesInv, TypeOK, Joining, Leaves, Sends, Ops
  <2>6. ~Subscribed(c, t)
    BY <2>4, <2>5 DEF Subscribed, Busy, Joining, Leaves
  <2>7. topics'[c][t] = None
    BY <2>1, <2>3, <2>6 DEF Subscribed, Busy, Leaves
  <2>8. Halves(c, t)'
    BY HalvesOwn DEF PagesInv, HalvesInv
  <2> QED
    BY <2>3, <2>7, <2>8 DEF Halves, Busy, Joining, Leaves
<1> QED
  BY <1>1, <1>2

\* What a page has heard of x is what its monitor knows.
Heard(c, t, x) ==
  LET k == monitors[c][t] IN
  x \in view[c][t] <=> (x \in known[k] /\ ~Reporting(k, x, TRUE)) \/ Reporting(k, x, FALSE)

\* A new monitor knows nobody, and the page trusts nothing it heard before.
LEMMA ViewMonitor ==
  ASSUME TypeOK, LivesInv, TidyInv, ViewFollows, NEW c \in Lives, Monitor(c), Alone(c), NEW t \in Topics,
         t \in listening[c], ~Leaving(c, t), monitors'[c][t] # None,
         NEW x \in Remotes \ suspect'[c][t]
  PROVE  Heard(c, t, x)'
<1> DEFINE u == call[c].topic
<1>1. found[c] = c /\ u \in Topics /\ UNCHANGED <<view, known, news>>
  BY UseTypes DEF Monitor, Alone, LivesInv, TypeOK, monVars
<1>2. CASE monitors[c][t] # None /\ UNCHANGED <<monitors[c][t], suspect[c][t]>>
  <2>1. Follows(c, t)
    BY <1>2 DEF Follows, Alone
  <2>2. Heard(c, t, x)
    BY <1>2, <2>1 DEF ViewFollows, Heard
  <2> QED
    BY <1>1, <1>2, <2>2 DEF Heard, Reporting
<1>3. CASE monitors[c][u] # None
  <2>1. UNCHANGED <<monitors, suspect>>
    BY <1>1, <1>3 DEF Monitor
  <2> QED
    BY <1>2, <2>1
<1>4. CASE monitors[c][u] = None
  <2>1. PICK k \in Monitors : monOf[k] = None /\ monitors' = [monitors EXCEPT ![c][u] = k]
    BY <1>1, <1>4 DEF Monitor
  <2>2. suspect' = [suspect EXCEPT ![c][u] = @ \cup view[c][u]]
    BY <1>1, <1>4 DEF Monitor
  <2>3. CASE t # u
    <3>1. UNCHANGED <<monitors[c][t], suspect[c][t]>>
      BY <1>1, <2>1, <2>2, <2>3 DEF TypeOK
    <3> QED
      BY <1>2, <3>1
  <2>4. CASE t = u
    <3>1. monitors'[c][t] = k /\ x \notin view[c][t]
      BY <1>1, <2>1, <2>2, <2>4 DEF TypeOK
    <3>2. known[k] = {} /\ news[k] = None
      BY <2>1 DEF TidyInv, TypeOK
    <3>3. None # [peer |-> x, joined |-> FALSE]
      <4>1. [peer |-> x, joined |-> FALSE] \in News
        BY DEF News
      <4> QED
        BY <4>1, NoneAssumption
    <3> QED
      BY <1>1, <3>1, <3>2, <3>3 DEF Heard, Reporting
  <2> QED
    BY <2>3, <2>4
<1> QED
  BY <1>3, <1>4

LEMMA ViewRequest ==
  ASSUME TypeOK, TypeOK', SubscriptionsInv, PagesInv, TidyInv, ViewFollows,
         NEW c \in Lives, Request(c), NEW d \in Lives, NEW t \in Topics, Follows(d, t)',
         NEW x \in Remotes \ suspect'[d][t]
  PROVE  Heard(d, t, x)'
<1>1. Alone(d)' /\ Alone(d) /\ LivesInv
  BY OthersPassBy DEF Follows, Alone, PagesInv
<1>2. UNCHANGED <<view, listening, known, news>>
  BY RequestTouches, RequestKeepsRounds
<1>3. /\ t \in listening[d] /\ ~Leaving(d, t)' /\ monitors'[d][t] # None
  BY <1>2 DEF Follows
<1>4. CASE ~Leaving(d, t) /\ UNCHANGED <<monitors[d][t], suspect[d][t]>>
  <2>1. Follows(d, t)
    BY <1>1, <1>3, <1>4 DEF Follows, Alone
  <2>2. Heard(d, t, x)
    BY <1>4, <2>1 DEF ViewFollows, Heard
  <2> QED
    BY <1>2, <1>4, <2>2 DEF Heard, Reporting
<1>5. CASE d # c
  <2>1. UNCHANGED <<monitors[d], suspect[d], pc[d], call[d], calls[d]>>
    BY <1>1, <1>5, OthersPassBy
  <2>2. ~Leaving(d, t)
    BY <1>3, <2>1 DEF Leaving
  <2> QED
    BY <1>4, <2>1, <2>2
<1>6. CASE d = c
  <2>1. ~Leaving(c, t)
    BY <1>1, <1>3, <1>6, LeftIsUnmonitored
  <2>2. CASE Monitor(c)
    BY <1>1, <1>3, <1>6, <2>1, <2>2, ViewMonitor
  <2>3. CASE ~Monitor(c)
    <3>1. UNCHANGED suspect
      BY <2>3 DEF Request, ReadMessage, ReadMessageTooLate, ReadFails, GetPeerAgain, LookupAgain,
                  Subscribe, Unsubscribe, CancelTopic, StopMonitor, CancelMonitor, Publish,
                  LeaveTopic, ListPeers, EndIteration, pageVars
    <3>2. monitors'[c][t] = monitors[c][t]
      <4>1. CASE StopMonitor(c)
        <5>1. found[c] = c /\ call[c].topic \in Topics
          BY <1>1, <1>6, <4>1, UseTypes DEF StopMonitor, Alone, LivesInv, TypeOK
        <5>2. monitors' \in {monitors, [monitors EXCEPT ![c][call[c].topic] = None]}
          BY <4>1, <5>1 DEF StopMonitor
        <5> QED
          BY <1>3, <1>6, <5>1, <5>2 DEF TypeOK
      <4>2. CASE CancelMonitor(c)
        BY <4>2 DEF CancelMonitor, peerVars
      <4>3. CASE ~StopMonitor(c) /\ ~CancelMonitor(c)
        BY <2>3, <4>3, MonitorsUntouched DEF Request
      <4> QED
        BY <4>1, <4>2, <4>3
    <3> QED
      BY <1>4, <1>6, <2>1, <3>1, <3>2
  <2> QED
    BY <2>2, <2>3
<1> QED
  BY <1>5, <1>6

LEMMA NewsIs ==
  ASSUME NEW x, NEW y, NEW i, NEW j
  PROVE  [peer |-> x, joined |-> i] = [peer |-> y, joined |-> j] <=> x = y /\ i = j
<1> DEFINE r == [peer |-> x, joined |-> i]  s == [peer |-> y, joined |-> j]
<1>1. r = s => r.peer = s.peer /\ r.joined = s.joined
  OBVIOUS
<1>2. r.peer = x /\ r.joined = i /\ s.peer = y /\ s.joined = j
  OBVIOUS
<1> QED
  BY <1>1, <1>2

\* A monitor adds to what it knows, or takes away, what it is about to report.
LEMMA ViewRound ==
  ASSUME TypeOK, MonitorsInv, LivesInv, TidyInv, ViewFollows,
         NEW j \in Monitors, Round(j) \/ MonitorEnds(j),
         NEW c \in Lives, NEW t \in Topics, Follows(c, t)',
         NEW x \in Remotes \ suspect'[c][t]
  PROVE  Heard(c, t, x)'
<1> DEFINE k == monitors[c][t]
<1>1. UNCHANGED <<life, intruded, listening, pc, call, calls, monitors, monOn, owner>>
  BY RoundTouches DEF peerVars, reqVars
<1>2. Follows(c, t)
  BY <1>1 DEF Follows, Leaving
<1>3. k \in Monitors /\ monOf[k] = <<c, t>> /\ monOn[k] /\ owner = c /\ t \in listening[c]
  BY <1>2 DEF Follows, LivesInv, MonitorsInv, MonitorNamed, TypeOK
<1>4. x \notin suspect[c][t] => Heard(c, t, x)
  BY <1>2 DEF ViewFollows, Heard
<1>5. CASE UNCHANGED <<view, suspect>> /\ known'[k] = known[k] /\ news'[k] = news[k]
  BY <1>1, <1>4, <1>5 DEF Heard, Reporting
<1>6. CASE Tick(j)
  BY <1>5, <1>6 DEF Tick, pageVars
<1>7. CASE MonitorEnds(j)
  <2>1. j # k
    BY <1>3, <1>7 DEF MonitorEnds
  <2>2. UNCHANGED <<view, suspect, news>> /\ known'[k] = known[k]
    BY <1>3, <1>7, <2>1 DEF MonitorEnds, pageVars, TypeOK
  <2> QED
    BY <1>5, <2>2
<1>8. CASE Learn(j) \/ Forget(j)
  <2>1. UNCHANGED <<view, suspect>>
    BY <1>8 DEF Learn, Forget, pageVars
  <2>2. CASE j # k
    <3>1. known'[k] = known[k] /\ news'[k] = news[k]
      BY <1>3, <1>8, <2>2 DEF Learn, Forget, WriteKnown, TypeOK
    <3> QED
      BY <1>5, <2>1, <3>1
  <2>3. CASE j = k
    <3>1. news[k] = None
      BY <1>8, <2>3 DEF Learn, Forget, TypeOK
    <3>2. \A y \in Remotes, b \in BOOLEAN : None # [peer |-> y, joined |-> b]
      <4>1. \A y \in Remotes, b \in BOOLEAN : [peer |-> y, joined |-> b] \in News
        BY DEF News
      <4> QED
        BY <4>1, NoneAssumption
    <3>3. x \in view[c][t] <=> x \in known[k]
      BY <1>4, <2>1, <3>1, <3>2 DEF Heard, Reporting
    <3>4. CASE Learn(j)
      <4>1. PICK y \in snap[k] \ known[k] :
               /\ known' = [known EXCEPT ![k] = known[k] \cup {y}]
               /\ news' = [news EXCEPT ![k] = [peer |-> y, joined |-> TRUE]]
        BY <2>3, <3>4 DEF Learn, WriteKnown
      <4>2. known'[k] = known[k] \cup {y} /\ news'[k] = [peer |-> y, joined |-> TRUE]
        BY <1>3, <4>1 DEF TypeOK
      <4>3. (Reporting(k, x, TRUE)' <=> x = y) /\ ~Reporting(k, x, FALSE)'
        <5>1. \A v, b : news'[k] = [peer |-> y, joined |-> v] => (Reporting(k, x, b)' <=> y = x /\ v = b)
          BY <1>1, NewsIs DEF Reporting
        <5>2. \A b : Reporting(k, x, b)' <=> y = x /\ TRUE = b
          BY <4>2, <5>1, Zenon
        <5> QED
          BY <5>2
      <4> QED
        BY <1>1, <2>1, <3>3, <4>1, <4>2, <4>3 DEF Heard, Reporting
    <3>5. CASE Forget(j)
      <4>1. PICK y \in known[k] :
               /\ known' = [known EXCEPT ![k] = known[k] \ {y}]
               /\ news' = [news EXCEPT ![k] = [peer |-> y, joined |-> FALSE]]
        BY <2>3, <3>5 DEF Forget, WriteKnown
      <4>2. known'[k] = known[k] \ {y} /\ news'[k] = [peer |-> y, joined |-> FALSE]
        BY <1>3, <4>1 DEF TypeOK
      <4>3. (Reporting(k, x, FALSE)' <=> x = y) /\ ~Reporting(k, x, TRUE)'
        <5>1. \A v, b : news'[k] = [peer |-> y, joined |-> v] => (Reporting(k, x, b)' <=> y = x /\ v = b)
          BY <1>1, NewsIs DEF Reporting
        <5>2. \A b : Reporting(k, x, b)' <=> y = x /\ FALSE = b
          BY <4>2, <5>1, Zenon
        <5> QED
          BY <5>2
      <4> QED
        BY <1>1, <2>1, <3>3, <4>1, <4>2, <4>3 DEF Heard, Reporting
    <3> QED
      BY <1>8, <3>4, <3>5
  <2> QED
    BY <2>2, <2>3
<1>9. CASE Tell(j)
  <2> DEFINE u == monOf[j][2]  y == news[j].peer
  <2>1. UNCHANGED known /\ news' = [news EXCEPT ![j] = None] /\ news[j] # None
    BY <1>9 DEF Tell, TypeOK
  <2>2. CASE UNCHANGED <<view, suspect>> /\ j # k
    BY <1>3, <1>5, <2>1, <2>2 DEF TypeOK
  <2>3. CASE u \notin listening[c]
    <3>1. j # k
      BY <1>3, <2>3
    <3>2. UNCHANGED <<view, suspect>>
      BY <1>3, <1>9, <2>3 DEF Tell
    <3> QED
      BY <2>2, <3>1, <3>2
  <2>4. CASE u \in listening[c]
    <3>1. Hear(j, c, u) /\ u \in Topics /\ news[j] \in News
      BY <1>3, <1>9, <2>1, <2>4, NoneAssumption DEF Tell, TypeOK
    <3>2. CASE j # k
      <4>1. news'[k] = news[k]
        BY <1>3, <2>1, <3>2 DEF TypeOK
      <4>2. CASE u # t \/ x # y
        <5>1. x \in view'[c][t] <=> x \in view[c][t]
          BY <3>1, <4>2 DEF Hear, TypeOK
        <5>2. x \notin suspect[c][t]
          BY <3>1, <4>2 DEF Hear, TypeOK
        <5> QED
          BY <1>1, <1>4, <2>1, <4>1, <5>1, <5>2 DEF Heard, Reporting
      <4>3. CASE u = t /\ x = y
        <5>1. suspect' = [suspect EXCEPT ![c][t] = @ \cup {y}]
          BY <3>1, <3>2, <4>3 DEF Hear
        <5> QED
          BY <4>3, <5>1 DEF TypeOK
      <4> QED
        BY <4>2, <4>3
    <3>3. CASE j = k
      <4>1. u = t /\ news'[k] = None
        BY <1>3, <2>1, <3>3 DEF TypeOK
      <4>2. ~Reporting(k, x, TRUE)' /\ ~Reporting(k, x, FALSE)'
        <5>1. \A b \in BOOLEAN : [peer |-> x, joined |-> b] \in News
          BY DEF News
        <5> QED
          BY <1>1, <4>1, <5>1, NoneAssumption DEF Reporting
      <4>3. Heard(c, t, x)' <=> (x \in view'[c][t] <=> x \in known[k])
        BY <1>1, <2>1, <4>2 DEF Heard
      <4>4. CASE x # y
        <5>1. x \in view'[c][t] <=> x \in view[c][t]
          BY <3>1, <4>1, <4>4 DEF Hear, TypeOK
        <5>2. x \notin suspect[c][t]
          BY <3>1, <4>1, <4>4 DEF Hear, TypeOK
        <5>3. ~Reporting(k, x, TRUE) /\ ~Reporting(k, x, FALSE)
          BY <3>3, <4>4 DEF Reporting
        <5> QED
          BY <1>4, <4>3, <5>1, <5>2, <5>3 DEF Heard
      <4>5. CASE x = y
        <5>1. view' = [view EXCEPT ![c][t] = IF news[k].joined THEN @ \cup {y} ELSE @ \ {y}]
          <6>1. CASE suspect' = [suspect EXCEPT ![c][t] = @ \cup {y}]
            BY <4>5, <6>1 DEF TypeOK
          <6> QED
            BY <3>1, <3>3, <4>1, <6>1 DEF Hear
        <5>2. x \in view'[c][t] <=> news[k].joined
          BY <3>1, <3>3, <4>5, <5>1 DEF TypeOK, News
        <5>3. news[k].joined <=> x \in known[k]
          BY <2>1, <3>3, <4>5 DEF TidyInv
        <5> QED
          BY <4>3, <5>2, <5>3
      <4> QED
        BY <4>4, <4>5
    <3> QED
      BY <3>2, <3>3
  <2> QED
    BY <2>3, <2>4
<1> QED
  BY <1>6, <1>7, <1>8, <1>9 DEF Round

LEMMA ViewStep ==
  /\ TypeOK /\ TypeOK' /\ SubscriptionsInv /\ MonitorsInv /\ PagesInv /\ TidyInv /\ ViewFollows
  /\ [Next]_vars
  => ViewFollows'
<1> SUFFICES ASSUME TypeOK, TypeOK', SubscriptionsInv, MonitorsInv, PagesInv, TidyInv, ViewFollows,
                    [Next]_vars,
                    NEW d \in Lives, NEW t \in Topics, Follows(d, t)',
                    NEW x \in Remotes \ suspect'[d][t]
             PROVE  Heard(d, t, x)'
  BY DEF ViewFollows, Heard
<1>0. LivesInv
  BY DEF PagesInv
<1>1. CASE Follows(d, t) /\ UNCHANGED <<view[d][t], suspect[d][t], known, news, monitors[d]>>
  <2>1. Heard(d, t, x)
    BY <1>1 DEF ViewFollows, Heard
  <2> QED
    BY <1>1, <2>1 DEF Heard, Reporting
<1>2. CASE UNCHANGED vars
  <2>1. Follows(d, t)
    BY <1>2 DEF Follows, Leaving, vars, peerVars, reqVars, pageVars, histVars
  <2> QED
    BY <1>1, <1>2, <2>1 DEF vars, peerVars, monVars, pageVars
<1>3. ASSUME NEW l \in Lives, CreatePeer(l) PROVE Heard(d, t, x)'
  <2>1. UNCHANGED <<monitors, pc, call, calls, listening, intruded, view, suspect, known, news>>
    BY <1>3 DEF CreatePeer, monVars, reqVars, pageVars, histVars
  <2>2. d # l
    BY <1>0, <1>3, <2>1 DEF CreatePeer, LivesInv, Fresh, NoTopics, Follows
  <2>3. Follows(d, t)
    BY <1>3, <2>1, <2>2 DEF CreatePeer, Follows, Leaving, TypeOK
  <2> QED
    BY <1>1, <2>1, <2>3
<1>4. ASSUME NEW l \in Lives, RemovePeer(l) \/ Close(l) \/ HostClose(l) PROVE Heard(d, t, x)'
  <2>1. d # l /\ life'[d] = life[d]
    BY <1>4 DEF RemovePeer, Close, HostClose, Follows, TypeOK
  <2>2. /\ UNCHANGED <<monitors[d], pc, call, calls, listening[d], intruded, known, news>>
        /\ UNCHANGED <<view[d], suspect[d]>>
    BY <1>4, <2>1 DEF RemovePeer, Close, HostClose, monVars, reqVars, pageVars, histVars, TypeOK
  <2>3. Follows(d, t)
    BY <2>1, <2>2 DEF Follows, Leaving
  <2> QED
    BY <1>1, <2>2, <2>3
<1>5. ASSUME NEW u \in Topics, NEW y \in Remotes, MembersChange(u, y) PROVE Heard(d, t, x)'
  <2>1. UNCHANGED <<peerVars, monVars, reqVars, pageVars, histVars>>
    BY <1>5 DEF MembersChange
  <2>2. Follows(d, t)
    BY <2>1 DEF Follows, Leaving, peerVars, reqVars, pageVars, histVars
  <2> QED
    BY <1>1, <2>1, <2>2 DEF peerVars, monVars, pageVars
<1>6. ASSUME NEW c \in Lives, NEW op \in Ops, NEW u \in Topics, Call(c, op, u) PROVE Heard(d, t, x)'
  <2> DEFINE b == Req("unsubscribe", t)  r == Req(op, u)
  <2>1. /\ UNCHANGED <<life, monitors, pc, call, intruded, known, news>>
        /\ calls' = [calls EXCEPT ![c] = Append(@, r)]
    BY <1>6 DEF Call, peerVars, monVars, histVars, Req
  <2>2. Alone(d) /\ calls[d] \in Seq(Calls)
    BY <2>1 DEF Follows, Alone, TypeOK
  <2>3. r \in Calls /\ (r = b <=> op = "unsubscribe" /\ u = t)
    BY DEF Calls, Req
  <2>4. calls'[d] = IF d = c THEN Append(calls[d], r) ELSE calls[d]
    BY <2>1 DEF TypeOK
  <2>5. Lacks(calls'[d], b) => Lacks(calls[d], b)
    BY <2>2, <2>3, <2>4, AppendLacks
  <2>6. Leaving(d, t)' <=> \/ pc[d] \notin {"idle", "ended"} /\ call[d] = b
                           \/ ~Lacks(calls'[d], b)
    BY <2>1 DEF Leaving, Lacks, Req
  <2>7. ~Leaving(d, t) /\ Lacks(calls'[d], b)
    BY <2>5, <2>6, LeavingIs DEF Follows
  <2>8. Follows(d, t)
    BY <2>1, <2>2, <2>7, UnheardIsUnmonitored DEF Follows, Alone
  <2>9. ~(d = c /\ r = b)
    BY <2>2, <2>3, <2>4, <2>7, AppendLacks
  <2>10. UNCHANGED <<view[d][t], suspect[d][t]>>
    <3>1. CASE op = "unsubscribe"
      <4>1. ~(d = c /\ t = u)
        BY <2>3, <2>9, <3>1
      <4>2. view' = [view EXCEPT ![c][u] = {}] /\ suspect' = [suspect EXCEPT ![c][u] = {}]
        BY <1>6, <3>1 DEF Call
      <4> QED
        BY <4>1, <4>2 DEF TypeOK
    <3>2. CASE op # "unsubscribe"
      BY <1>6, <3>2 DEF Call
    <3> QED
      BY <3>1, <3>2
  <2> QED
    BY <1>1, <2>1, <2>8, <2>10
<1>7. ASSUME NEW c \in Lives, Request(c) PROVE Heard(d, t, x)'
  BY <1>7, ViewRequest
<1>8. ASSUME NEW k \in Monitors, Round(k) \/ MonitorEnds(k) PROVE Heard(d, t, x)'
  BY <1>0, <1>8, ViewRound
<1> QED
  BY <1>2, <1>3, <1>4, <1>5, <1>6, <1>7, <1>8 DEF Next

\* The page of a topic has heard of exactly those peers its monitor knows, apart from the
\* change that is on its way, and from peers of which an event was lost or told by an
\* earlier monitor.
THEOREM ViewFollowsCorrect == Spec => []ViewFollows
<1>1. Init => TidyInv /\ ViewFollows
  <2> SUFFICES ASSUME Init PROVE TidyInv /\ ViewFollows
    OBVIOUS
  <2>1. \A c \in Lives, t \in Topics : ~Follows(c, t)
    BY DEF Init, Follows
  <2> QED
    BY <2>1 DEF Init, TidyInv, ViewFollows
<1>2. /\ TypeOK /\ OwnersInv /\ PagesInv /\ TypeOK' /\ TidyInv /\ ViewFollows /\ [Next]_vars
      => (TidyInv /\ ViewFollows)'
  BY TidyStep, ViewStep DEF OwnersInv
<1> QED
  BY <1>1, <1>2, PagesCorrect, PTL DEF Spec

-----------------------------------------------------------------------------
(* What a closed peer leaves running.  Each request that was using it then *)
(* can start one goroutine more, or cancel the one it holds; after that it *)
(* looks the peer up again, and finds this life no more.                   *)

Users(l) == {c \in Lives : found[c] = l}

HeldFor(l) == {held[c] : c \in {d \in Users(l) : pc[d] \in {"cancel", "cancelMonitor"}}}

\* What runs and nobody is about to cancel.
Left(l) == Running(l) \ HeldFor(l)

Came == {l \in Lives : life[l] # "none"}

FewLeft(l) ==
  /\ Users(l) \subseteq late[l]
  /\ IsFiniteSet(late[l])
  /\ IsFiniteSet(Left(l))
  /\ Cardinality(Left(l)) <= Cardinality(late[l] \ Users(l))

LeftInv ==
  /\ IsFiniteSet(Came)
  /\ \A l \in Lives : life[l] \in {"closed", "down"} => FewLeft(l)

\* One user less makes room for one element more.
LEMMA RoomForOne ==
  ASSUME NEW L, IsFiniteSet(L), NEW U, U \subseteq L, NEW c \in U,
         NEW S, IsFiniteSet(S), Cardinality(S) <= Cardinality(L \ U),
         NEW e, NEW R, R \subseteq S \cup {e}
  PROVE  IsFiniteSet(R) /\ Cardinality(R) <= Cardinality(L \ (U \ {c}))
<1>1. IsFiniteSet(L \ U) /\ Cardinality(L \ U) \in Nat /\ Cardinality(S) \in Nat
  <2>1. IsFiniteSet(L \ U)
    BY FS_Subset
  <2> QED
    BY <2>1, FS_CardinalityType
<1>2. IsFiniteSet(S \cup {e}) /\ Cardinality(S \cup {e}) <= Cardinality(S) + 1
  <2>1. /\ IsFiniteSet(S \cup {e})
        /\ Cardinality(S \cup {e}) = IF e \in S THEN Cardinality(S) ELSE Cardinality(S) + 1
    BY FS_AddElement
  <2> QED
    BY <1>1, <2>1
<1>3. IsFiniteSet(R) /\ Cardinality(R) <= Cardinality(S \cup {e})
  BY <1>2, FS_Subset
<1>4. Cardinality((L \ U) \cup {c}) = Cardinality(L \ U) + 1
  BY <1>1, FS_AddElement
<1>5. L \ (U \ {c}) = (L \ U) \cup {c}
  OBVIOUS
<1>6. Cardinality(R) \in Nat /\ Cardinality(S \cup {e}) \in Nat
  BY <1>2, <1>3, FS_CardinalityType
<1> QED
  BY <1>1, <1>2, <1>3, <1>4, <1>5, <1>6

\* No more of it runs than there were requests.
LEMMA LeftImplies ==
  ASSUME NEW l \in Lives, FewLeft(l)
  PROVE  Cardinality(Running(l)) <= Cardinality(late[l])
<1> DEFINE L == late[l]  U == Users(l)  D == {d \in U : pc[d] \in {"cancel", "cancelMonitor"}}
           H == HeldFor(l)  f == [c \in D |-> held[c]]
<1>1. IsFiniteSet(U) /\ IsFiniteSet(L \ U)
  BY FS_Subset DEF FewLeft
<1>2. IsFiniteSet(D) /\ Cardinality(D) <= Cardinality(U)
  BY <1>1, FS_Subset
<1>3. f \in Surjection(D, H)
  <2>1. \A c \in D : f[c] = held[c] /\ f[c] \in H
    BY DEF HeldFor
  <2>2. \A h \in H : \E c \in D : f[c] = h
    BY <2>1 DEF HeldFor
  <2>3. f \in [D -> H]
    BY <2>1
  <2> QED
    BY <2>2, <2>3 DEF Surjection
<1>4. IsFiniteSet(H) /\ Cardinality(H) <= Cardinality(D)
  BY <1>2, <1>3, FS_Surjection
<1>5. IsFiniteSet(Left(l)) /\ Cardinality(Left(l)) <= Cardinality(L \ U)
  BY DEF FewLeft
<1>6. /\ IsFiniteSet(Left(l) \cup H)
      /\ Cardinality(Left(l) \cup H) <= Cardinality(Left(l)) + Cardinality(H)
  <2>1. IsFiniteSet(Left(l) \cap H)
    BY <1>5, FS_Subset
  <2>2. Cardinality(Left(l) \cap H) \in Nat /\ Cardinality(Left(l)) \in Nat /\ Cardinality(H) \in Nat
    BY <1>4, <1>5, <2>1, FS_CardinalityType
  <2>3. /\ IsFiniteSet(Left(l) \cup H)
        /\ Cardinality(Left(l) \cup H)
             = Cardinality(Left(l)) + Cardinality(H) - Cardinality(Left(l) \cap H)
    BY <1>4, <1>5, FS_Union
  <2> QED
    BY <2>2, <2>3
<1>7. IsFiniteSet(Running(l)) /\ Cardinality(Running(l)) <= Cardinality(Left(l) \cup H)
  <2>1. Running(l) \in SUBSET (Left(l) \cup H)
    BY DEF Left
  <2> QED
    BY <1>6, <2>1, FS_Subset
<1>8. Cardinality(L) = Cardinality(L \ U) + Cardinality(U)
  <2>1. (L \ U) \cup U = L /\ (L \ U) \cap U = {}
    BY DEF FewLeft
  <2>2. Cardinality(L \ U) \in Nat /\ Cardinality(U) \in Nat
    BY <1>1, FS_CardinalityType
  <2> QED
    BY <1>1, <2>1, <2>2, FS_Union, FS_EmptySet
<1>9. /\ Cardinality(L \ U) \in Nat /\ Cardinality(U) \in Nat /\ Cardinality(D) \in Nat
      /\ Cardinality(H) \in Nat /\ Cardinality(Left(l)) \in Nat
      /\ Cardinality(Left(l) \cup H) \in Nat /\ Cardinality(Running(l)) \in Nat
  BY <1>1, <1>2, <1>4, <1>5, <1>6, <1>7, FS_CardinalityType
<1> HIDE DEF L, U, D, H, f
<1> QED
  BY <1>2, <1>4, <1>5, <1>6, <1>7, <1>8, <1>9 DEF L

\* Nobody begins or ends to use the life, and nothing is started for it.
LEMMA QuietLeft ==
  ASSUME NEW l \in Lives, FewLeft(l), UNCHANGED late[l],
         Users(l)' = Users(l), HeldFor(l) \subseteq HeldFor(l)', Running(l)' \subseteq Running(l)
  PROVE  FewLeft(l)'
<1>1. Left(l)' \in SUBSET Left(l)
  BY DEF Left
<1>2. IsFiniteSet(Left(l)) /\ IsFiniteSet(late[l] \ Users(l))
  BY FS_Subset DEF FewLeft
<1>3. IsFiniteSet(Left(l)') /\ Cardinality(Left(l)') <= Cardinality(Left(l))
  BY <1>1, <1>2, FS_Subset
<1>4. /\ Cardinality(Left(l)') \in Nat /\ Cardinality(Left(l)) \in Nat
      /\ Cardinality(late[l] \ Users(l)) \in Nat
  BY <1>2, <1>3, FS_CardinalityType
<1>5. Cardinality(Left(l)') <= Cardinality(late[l] \ Users(l))
  BY <1>3, <1>4 DEF FewLeft
<1> QED
  BY <1>3, <1>5 DEF FewLeft

\* One user drops the life, and starts or cancels one goroutine as it does.
LEMMA UserLeaves ==
  ASSUME NEW l \in Lives, FewLeft(l), UNCHANGED late[l],
         NEW c \in Users(l), Users(l)' = Users(l) \ {c},
         NEW e, Left(l)' \subseteq Left(l) \cup {e}
  PROVE  FewLeft(l)'
<1>1. IsFiniteSet(Left(l)') /\ Cardinality(Left(l)') <= Cardinality(late[l] \ (Users(l) \ {c}))
  <2>1. ASSUME NEW R, R \subseteq Left(l) \cup {e}
        PROVE  IsFiniteSet(R) /\ Cardinality(R) <= Cardinality(late[l] \ (Users(l) \ {c}))
    <3> DEFINE L == late[l]  U == Users(l)  S == Left(l)
    <3>1. IsFiniteSet(L) /\ U \subseteq L /\ IsFiniteSet(S) /\ Cardinality(S) <= Cardinality(L \ U)
      BY DEF FewLeft
    <3>2. c \in U /\ R \subseteq S \cup {e}
      BY <2>1
    <3> HIDE DEF L, U, S
    <3>3. IsFiniteSet(R) /\ Cardinality(R) <= Cardinality(L \ (U \ {c}))
      BY <3>1, <3>2, RoomForOne
    <3> QED
      BY <3>3 DEF L, U
  <2> QED
    BY <2>1
<1> QED
  BY <1>1 DEF FewLeft

\* Only two requests start a goroutine, each one, for the life it has found.
LEMMA RequestRuns ==
  ASSUME TypeOK, NEW c \in Lives, Request(c), NEW l \in Lives
  PROVE  /\ l # found[c] \/ pc[c] \notin {"subscribe", "monitor"} => Running(l)' \subseteq Running(l)
         /\ \E e : Running(l)' \subseteq Running(l) \cup {e}
         /\ pc[c] \in {"subscribe", "monitor", "cancel", "cancelMonitor"} => found'[c] = None
<1> USE DEF peerVars, monVars
<1>1. Respond(c) => found'[c] = None
  BY DEF Respond, TypeOK
<1>2. ASSUME NEW from, NEW to, Next2(c, from, to) PROVE found'[c] = None
  BY <1>2 DEF Next2, TypeOK
<1>3. CASE Subscribe(c)
  <2>1. pc[c] = "subscribe" /\ found'[c] = None /\ UNCHANGED <<monOf, monOn>>
    BY <1>1, <1>2, <1>3 DEF Subscribe
  <2>2. CASE UNCHANGED readOf
    BY <2>1, <2>2 DEF Running
  <2>3. ASSUME NEW i \in Readers, readOf' = [readOf EXCEPT ![i] = <<found[c], call[c].topic>>]
        PROVE  /\ l # found[c] => Running(l)' \subseteq Running(l)
               /\ Running(l)' \subseteq Running(l) \cup {i}
    <3>1. readOf'[i] = <<found[c], call[c].topic>> /\ \A j \in Readers \ {i} : readOf'[j] = readOf[j]
      BY <2>3 DEF TypeOK
    <3> QED
      BY <2>1, <3>1 DEF Running
  <2>4. UNCHANGED readOf \/ \E i \in Readers : readOf' = [readOf EXCEPT ![i] = <<found[c], call[c].topic>>]
    BY <1>3 DEF Subscribe
  <2> QED
    BY <2>1, <2>2, <2>3, <2>4
<1>4. CASE Monitor(c)
  <2>1. pc[c] = "monitor" /\ found'[c] = None /\ UNCHANGED readOf
    BY <1>1, <1>4 DEF Monitor
  <2>2. CASE UNCHANGED <<monOf, monOn>>
    BY <2>1, <2>2 DEF Running
  <2>3. ASSUME NEW k \in Monitors, monOf' = [monOf EXCEPT ![k] = <<found[c], call[c].topic>>],
               monOn' = [monOn EXCEPT ![k] = TRUE]
        PROVE  /\ l # found[c] => Running(l)' \subseteq Running(l)
               /\ Running(l)' \subseteq Running(l) \cup {k}
    <3>1. /\ monOf'[k] = <<found[c], call[c].topic>>
          /\ \A j \in Monitors \ {k} : monOf'[j] = monOf[j] /\ monOn'[j] = monOn[j]
      BY <2>3 DEF TypeOK
    <3> QED
      BY <2>1, <3>1 DEF Running
  <2>4. \/ UNCHANGED <<monOf, monOn>>
        \/ \E k \in Monitors : /\ monOf' = [monOf EXCEPT ![k] = <<found[c], call[c].topic>>]
                               /\ monOn' = [monOn EXCEPT ![k] = TRUE]
    BY <1>4 DEF Monitor
  <2> QED
    BY <2>1, <2>2, <2>3, <2>4
<1>5. CASE CancelTopic(c)
  <2>1. pc[c] = "cancel" /\ found'[c] = None /\ UNCHANGED <<monOf, monOn>>
    BY <1>2, <1>5 DEF CancelTopic
  <2>2. \A i \in Readers : readOf'[i] \in {readOf[i], None}
    BY <1>5 DEF CancelTopic, TypeOK
  <2> QED
    BY <2>1, <2>2 DEF Running
<1>6. CASE CancelMonitor(c)
  <2>1. pc[c] = "cancelMonitor" /\ found'[c] = None /\ UNCHANGED <<readOf, monOf>>
    BY <1>1, <1>6 DEF CancelMonitor
  <2>2. \A k \in Monitors : monOn'[k] => monOn[k]
    BY <1>6 DEF CancelMonitor, TypeOK
  <2> QED
    BY <2>1, <2>2 DEF Running
<1>7. CASE /\ pc[c] \notin {"subscribe", "monitor", "cancel", "cancelMonitor"}
           /\ UNCHANGED <<readOf, monOf, monOn>>
  BY <1>7 DEF Running
<1>8. CASE ReadMessage(c) \/ ReadMessageTooLate(c) \/ ReadFails(c) \/ GetPeerAgain(c)
  BY <1>7, <1>8 DEF ReadMessage, ReadMessageTooLate, ReadFails, GetPeerAgain, LookupAgain
<1>9. CASE \/ Unsubscribe(c) \/ StopMonitor(c) \/ Publish(c) \/ LeaveTopic(c) \/ ListPeers(c)
           \/ EndIteration(c)
  BY <1>7, <1>9 DEF Unsubscribe, StopMonitor, Publish, LeaveTopic, ListPeers, EndIteration
<1> QED
  BY <1>3, <1>4, <1>5, <1>6, <1>8, <1>9 DEF Request

LEMMA LeftRequest ==
  ASSUME TypeOK, LivesInv, NEW c \in Lives, Request(c),
         NEW l \in Lives, life[l] \in {"closed", "down"}, FewLeft(l)
  PROVE  FewLeft(l)'
<1>1. owner # l /\ UNCHANGED late
  BY RequestTouches DEF LivesInv
<1>2. \A d \in Lives \ {c} : /\ pc'[d] = pc[d] /\ found'[d] = found[d] /\ held'[d] = held[d]
  BY OthersStay
<1>3. found'[c] = l => found[c] = l
  BY <1>1, RequestFinds, NoneAssumption
<1>4. CASE found[c] = l /\ found'[c] # l
  <2>1. c \in Users(l) /\ Users(l)' = Users(l) \ {c}
    BY <1>2, <1>4 DEF Users
  <2>2. \A d \in Users(l) \ {c} : d \in Users(l)' /\ pc'[d] = pc[d] /\ held'[d] = held[d]
    BY <1>2, <2>1 DEF Users
  <2>3. CASE pc[c] \in {"subscribe", "monitor"}
    <3>1. PICK e : Running(l)' \subseteq Running(l) \cup {e}
      BY RequestRuns
    <3>2. HeldFor(l) \subseteq HeldFor(l)'
      BY <2>2, <2>3 DEF HeldFor
    <3>3. Left(l)' \subseteq Left(l) \cup {e}
      BY <3>1, <3>2 DEF Left
    <3> QED
      BY <1>1, <2>1, <3>3, UserLeaves
  <2>4. CASE pc[c] \notin {"subscribe", "monitor"}
    <3>1. Running(l)' \subseteq Running(l)
      BY <2>4, RequestRuns
    <3>2. HeldFor(l) \subseteq HeldFor(l)' \cup {held[c]}
      BY <2>2 DEF HeldFor
    <3>3. Left(l)' \subseteq Left(l) \cup {held[c]}
      BY <3>1, <3>2 DEF Left
    <3> QED
      BY <1>1, <2>1, <3>3, UserLeaves
  <2> QED
    BY <2>3, <2>4
<1>5. CASE ~(found[c] = l /\ found'[c] # l)
  <2>1. Users(l)' = Users(l)
    BY <1>2, <1>3, <1>5 DEF Users
  <2>2. c \notin Users(l) \/ pc[c] \notin {"subscribe", "monitor", "cancel", "cancelMonitor"}
    BY <1>5, RequestRuns, NoneAssumption DEF Users
  <2>3. Running(l)' \subseteq Running(l)
    BY <2>2, RequestRuns DEF Users
  <2>4. HeldFor(l) \subseteq HeldFor(l)'
    BY <1>2, <2>1, <2>2 DEF HeldFor, Users
  <2> QED
    BY <1>1, <2>1, <2>3, <2>4, QuietLeft
<1> QED
  BY <1>4, <1>5

\* Close cancels what the maps name; the rest is held by the requests that are late.
LEMMA LeftClose ==
  ASSUME TypeOK, TypeOK', OwnersInv', LivesInv, IsFiniteSet(Came), NEW l \in Lives, Close(l)
  PROVE  FewLeft(l)'
<1>1. /\ topics'[l] = NoTopics /\ monitors'[l] = NoTopics
      /\ UNCHANGED <<found, pc, held>> /\ late'[l] = Users(l)
  BY DEF Close, TypeOK, reqVars, Users
<1>2. Users(l)' = Users(l)
  BY <1>1 DEF Users
<1>3. IsFiniteSet(Users(l))
  <2>1. \A c \in Lives : found[c] = l => life[c] # "none"
    BY NoneAssumption DEF LivesInv, Fresh, TypeOK
  <2>2. Users(l) \in SUBSET Came
    BY <2>1 DEF Users, Came
  <2> QED
    BY <2>2, FS_Subset
<1>4. ASSUME NEW i \in Readers, readOf'[i] # None, readOf'[i][1] = l
      PROVE  i \in HeldFor(l)'
  <2>1. readOf'[i][2] \in Topics
    BY <1>4 DEF TypeOK
  <2>2. topics'[readOf'[i][1]][readOf'[i][2]] # i
    BY <1>1, <1>4, <2>1, NoneAssumption DEF NoTopics
  <2>3. PICK c \in Lives : pc'[c] = "cancel" /\ held'[c] = i
    BY <1>4, <2>2 DEF OwnersInv, SubscriptionsInv, SubscriptionOwned
  <2>4. readOf'[i] = <<found'[c], call'[c].topic>>
    BY <2>3 DEF OwnersInv, SubscriptionsInv, SubscriptionHeld, At
  <2>5. found'[c] = l
    BY <1>4, <2>4
  <2> QED
    BY <2>3, <2>5 DEF HeldFor, Users
<1>5. ASSUME NEW k \in Monitors, monOn'[k], monOf'[k][1] = l
      PROVE  k \in HeldFor(l)'
  <2>1. monOf'[k] # None
    BY <1>5 DEF OwnersInv, MonitorsInv, MonitorOwned
  <2>2. monOf'[k][2] \in Topics
    BY <2>1 DEF TypeOK
  <2>3. monitors'[monOf'[k][1]][monOf'[k][2]] # k
    BY <1>1, <1>5, <2>2, NoneAssumption DEF NoTopics
  <2>4. PICK c \in Lives : pc'[c] = "cancelMonitor" /\ held'[c] = k
    BY <1>5, <2>3 DEF OwnersInv, MonitorsInv, MonitorOwned
  <2>5. monOf'[k] = <<found'[c], call'[c].topic>>
    BY <2>4 DEF OwnersInv, MonitorsInv, MonitorHeld, At
  <2>6. found'[c] = l
    BY <1>5, <2>5
  <2> QED
    BY <2>4, <2>6 DEF HeldFor, Users
<1>6. Left(l)' = {}
  BY <1>4, <1>5 DEF Left, Running
<1>7. late'[l] \ Users(l)' = {}
  BY <1>1, <1>2
<1> QED
  BY <1>1, <1>2, <1>3, <1>6, <1>7, FS_EmptySet DEF FewLeft

LEMMA CameStep == TypeOK /\ IsFiniteSet(Came) /\ [Next]_vars => IsFiniteSet(Came')
<1> SUFFICES ASSUME TypeOK, IsFiniteSet(Came), [Next]_vars PROVE IsFiniteSet(Came')
  OBVIOUS
<1>1. CASE UNCHANGED life
  BY <1>1 DEF Came
<1>2. CASE UNCHANGED vars
  BY <1>1, <1>2 DEF vars, peerVars
<1>3. ASSUME NEW l \in Lives, CreatePeer(l) PROVE IsFiniteSet(Came')
  <2>1. Came' = Came \cup {l}
    BY <1>3 DEF CreatePeer, Came, TypeOK
  <2> QED
    BY <2>1, FS_AddElement
<1>4. ASSUME NEW l \in Lives, RemovePeer(l) \/ Close(l) \/ HostClose(l) PROVE IsFiniteSet(Came')
  <2>1. Came' \in SUBSET Came
    BY <1>4 DEF RemovePeer, Close, HostClose, Came, TypeOK
  <2> QED
    BY <2>1, FS_Subset
<1>5. ASSUME NEW t \in Topics, NEW x \in Remotes, MembersChange(t, x) PROVE IsFiniteSet(Came')
  BY <1>1, <1>5 DEF MembersChange, peerVars
<1>6. ASSUME NEW c \in Lives, NEW op \in Ops, NEW t \in Topics, Call(c, op, t) PROVE IsFiniteSet(Came')
  BY <1>1, <1>6 DEF Call, peerVars
<1>7. ASSUME NEW c \in Lives, Request(c) PROVE IsFiniteSet(Came')
  BY <1>1, <1>7, RequestTouches
<1>8. ASSUME NEW k \in Monitors, Round(k) \/ MonitorEnds(k) PROVE IsFiniteSet(Came')
  BY <1>1, <1>8, RoundTouches DEF peerVars
<1> QED
  BY <1>2, <1>3, <1>4, <1>5, <1>6, <1>7, <1>8 DEF Next

LEMMA LeftStep ==
  TypeOK /\ TypeOK' /\ OwnersInv' /\ LivesInv /\ LeftInv /\ [Next]_vars => LeftInv'
<1> SUFFICES ASSUME TypeOK, TypeOK', OwnersInv', LivesInv, LeftInv, [Next]_vars,
                    NEW l \in Lives, life'[l] \in {"closed", "down"}
             PROVE  FewLeft(l)'
  BY CameStep DEF LeftInv
<1>1. CASE /\ life[l] \in {"closed", "down"} /\ UNCHANGED <<late[l], pc, found, held>>
           /\ Running(l)' \subseteq Running(l)
  <2>1. Users(l)' = Users(l)
    BY <1>1 DEF Users
  <2>2. HeldFor(l)' = HeldFor(l)
    BY <1>1, <2>1 DEF HeldFor
  <2> QED
    BY <1>1, <2>1, <2>2, QuietLeft DEF LeftInv
<1>2. CASE /\ life[l] \in {"closed", "down"}
           /\ UNCHANGED <<late[l], pc, found, held, readOf, monOf, monOn>>
  BY <1>1, <1>2 DEF Running
<1>3. CASE UNCHANGED vars
  BY <1>2, <1>3 DEF vars, peerVars, monVars, reqVars, histVars
<1>4. ASSUME NEW p \in Lives, CreatePeer(p) \/ RemovePeer(p) \/ HostClose(p) PROVE FewLeft(l)'
  <2>1. life[l] \in {"closed", "down"}
    BY <1>4 DEF CreatePeer, RemovePeer, HostClose, TypeOK
  <2> QED
    BY <1>2, <1>4, <2>1 DEF CreatePeer, RemovePeer, HostClose, monVars, reqVars, histVars
<1>5. ASSUME NEW p \in Lives, Close(p) PROVE FewLeft(l)'
  <2>1. CASE p = l
    BY <1>5, <2>1, LeftClose DEF LeftInv
  <2>2. CASE p # l
    <3>1. life[l] \in {"closed", "down"} /\ UNCHANGED <<late[l], pc, found, held, monOf>>
      BY <1>5, <2>2 DEF Close, reqVars, TypeOK
    <3>2. /\ \A i \in Readers : readOf'[i] \in {readOf[i], None}
          /\ \A k \in Monitors : monOn'[k] => monOn[k]
      BY <1>5 DEF Close
    <3>3. Running(l)' \subseteq Running(l)
      BY <3>1, <3>2 DEF Running
    <3> QED
      BY <1>1, <3>1, <3>3
  <2> QED
    BY <2>1, <2>2
<1>6. ASSUME NEW t \in Topics, NEW x \in Remotes, MembersChange(t, x) PROVE FewLeft(l)'
  BY <1>2, <1>6 DEF MembersChange, peerVars, monVars, reqVars, histVars
<1>7. ASSUME NEW c \in Lives, NEW op \in Ops, NEW t \in Topics, Call(c, op, t) PROVE FewLeft(l)'
  BY <1>2, <1>7 DEF Call, peerVars, monVars, histVars
<1>8. ASSUME NEW c \in Lives, Request(c) PROVE FewLeft(l)'
  <2>1. life[l] \in {"closed", "down"}
    BY <1>8, RequestTouches
  <2> QED
    BY <1>8, <2>1, LeftRequest DEF LeftInv
<1>9. ASSUME NEW k \in Monitors, Round(k) \/ MonitorEnds(k) PROVE FewLeft(l)'
  <2>1. UNCHANGED <<life, late, pc, found, held, readOf, monOn>>
    BY <1>9, RoundTouches DEF peerVars, reqVars
  <2>2. \A j \in Monitors : monOn[j] => monOf'[j] = monOf[j]
    BY <1>9 DEF Round, Tick, Learn, Forget, Tell, MonitorEnds, TypeOK
  <2>3. Running(l)' \subseteq Running(l)
    BY <2>1, <2>2 DEF Running
  <2> QED
    BY <1>1, <2>1, <2>3
<1> QED
  BY <1>3, <1>4, <1>5, <1>6, <1>7, <1>8, <1>9 DEF Next

\* What still runs for a peer after it was closed are at most as many goroutines as there
\* were requests using it then, however they interleave with each other and with Close.
THEOREM LeftByLateRequestCorrect == Spec => []LeftByLateRequest
<1>1. Init => LeftInv
  <2> SUFFICES ASSUME Init PROVE LeftInv
    OBVIOUS
  <2>1. Came = {} /\ \A l \in Lives : life[l] \notin {"closed", "down"}
    BY DEF Init, Came
  <2> QED
    BY <2>1, FS_EmptySet DEF LeftInv
<1>2. /\ TypeOK /\ OwnersInv /\ PagesInv /\ TypeOK' /\ OwnersInv' /\ LeftInv /\ [Next]_vars
      => LeftInv'
  BY LeftStep DEF PagesInv
<1>3. LeftInv => LeftByLateRequest
  BY LeftImplies DEF LeftInv, LeftByLateRequest
<1> QED
  BY <1>1, <1>2, <1>3, PagesCorrect, PTL DEF Spec
=============================================================================
