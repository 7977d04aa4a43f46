----------------------------- MODULE PeerTopics -----------------------------
(***************************************************************************)
(* The topics and topic monitors of the peers (internal/peer/manager.go)   *)
(* as the requests of the pages, the goroutines of the peers and the       *)
(* removal of a peer meet on them.                                         *)
(*                                                                         *)
(* A page that is reloaded asks for the peer of the same key again, so one *)
(* peer ID has several lives: life c is the Peer object that connection c  *)
(* created.  The manager knows peers by their ID only, and so does the     *)
(* server's table of routes; owner is the life both tables name (module    *)
(* Server shows that they agree).  Nothing else is shared by two peer IDs. *)
(*                                                                         *)
(* A request of a page is handled by its connection's readPump in several  *)
(* steps, each one critical section of m.mu or p.mu: the peer is looked up *)
(* by ID, then used.  Every life has a goroutine per subscription          *)
(* (readFromTopic) and per monitor (monitorTopic); the latter is modelled  *)
(* round by round, one map write or one event to the page at a time.       *)
(*                                                                         *)
(* Outside the model: pubsub itself.  Sees(l, t) is what ListPeers of the  *)
(* pubsub instance of life l answers, and changes at any time.  A page     *)
(* handles the events of one topic in the order they are queued for it     *)
(* (module Client), so that queuing an event and hearing it are one step.  *)
(***************************************************************************)
EXTENDS Naturals, Sequences, FiniteSets

CONSTANTS Lives,    \* the connections, in the order in which they create the peer: numbers
          Topics,
          Remotes,  \* the other peers
          Readers,  \* bound: goroutines running readFromTopic at one time
          Monitors, \* bound: goroutines running monitorTopic at one time
          Scenarios, \* bound: the operations each page asks for, several choices
          Leavers,  \* bound: the connections that are closed
          MaxCalls, \* bound: requests of a page waiting for its readPump
          None

Ops == {"subscribe", "unsubscribe", "publish", "listpeers"}

Calls == [op : Ops, topic : Topics]
News  == [peer : Remotes, joined : BOOLEAN]

ASSUME LivesAssumption == Lives \in SUBSET Nat
ASSUME ScenariosAssumption == Scenarios \subseteq [Lives -> SUBSET Ops]
ASSUME LeaversAssumption == Leavers \subseteq Lives
ASSUME MaxCallsAssumption == MaxCalls \in Nat
ASSUME NoneAssumption ==
  /\ None \notin Lives \cup Topics \cup Remotes \cup Readers \cup Monitors
  /\ None \notin Calls \cup News \cup (Lives \X Topics)

VARIABLES
  asks,      \* the scenario: what each page asks for; a page that asks for nothing
             \* does not come
  life,      \* of each life: none, up, removed (from m.peers), closed (its topics
             \* and monitors are cancelled), down (its host is closed)
  owner,     \* the life that m.peers and the routing table name
  topics,    \* p.topics: the subscription of each topic, None if there is none
  monitors,  \* p.monitoredTopics
  joined,    \* the topics the life's pubsub instance has joined and not left
  members,   \* the remote peers on each topic
  readOf,    \* of each goroutine of readFromTopic: <<life, topic>>, None if there is
             \* none or its context is cancelled, for it does nothing more then
  monOf,     \* of each goroutine of monitorTopic: <<life, topic>>, None if there is none
  monOn,     \* its context is not cancelled
  monPc,     \* where it is: select, round, tell
  known,     \* monitor.knownPeers
  snap,      \* its local variable currentPeerSet
  news,      \* the change it is about to report: [peer, joined], None if none
  calls,     \* of each page: its requests that readPump has not read yet
  pc,        \* where the readPump of each connection is
  call,      \* the request it handles
  found,     \* the peer it has looked up for it
  held,      \* the subscription or monitor it has taken out of the map
  listening, \* the topics for which the page has a listener
  view,      \* the members of a topic, according to what its listener heard
  suspect,   \* history: peers for which the last event was lost, or came from
             \* another goroutine than the topic's present monitor
  intruded,  \* history: a request of another connection has used this life
  late,      \* history: connections with a request running on the life when its
             \* topics were cancelled
  crashed    \* fatal error: concurrent map iteration and map write

peerVars == <<life, owner, topics, monitors, joined>>
monVars  == <<monOf, monOn, monPc, known, snap, news>>
reqVars  == <<calls, pc, call, found, held>>
pageVars == <<listening, view, suspect>>
histVars == <<intruded, late, crashed>>
vars == <<asks, peerVars, members, readOf, monVars, reqVars, pageVars, histVars>>

NoTopics == [t \in Topics |-> None]
Nobody   == [t \in Topics |-> {}]

Init ==
  /\ asks \in Scenarios
  /\ life = [l \in Lives |-> "none"]
  /\ owner = None
  /\ topics = [l \in Lives |-> NoTopics]
  /\ monitors = [l \in Lives |-> NoTopics]
  /\ joined = [l \in Lives |-> {}]
  /\ members = Nobody
  /\ readOf = [i \in Readers |-> None]
  /\ monOf = [k \in Monitors |-> None]
  /\ monOn = [k \in Monitors |-> FALSE]
  /\ monPc = [k \in Monitors |-> "select"]
  /\ known = [k \in Monitors |-> {}]
  /\ snap = [k \in Monitors |-> {}]
  /\ news = [k \in Monitors |-> None]
  /\ calls = [c \in Lives |-> <<>>]
  /\ pc = [c \in Lives |-> "idle"]
  /\ call = [c \in Lives |-> None]
  /\ found = [c \in Lives |-> None]
  /\ held = [c \in Lives |-> None]
  /\ listening = [c \in Lives |-> {}]
  /\ view = [c \in Lives |-> Nobody]
  /\ suspect = [c \in Lives |-> Nobody]
  /\ intruded = [l \in Lives |-> FALSE]
  /\ late = [l \in Lives |-> {}]
  /\ crashed = FALSE

-----------------------------------------------------------------------------
(* The life of a peer, and of its page                                     *)

\* CreatePeer and RegisterPeer: a key whose peer exists is refused.
CreatePeer(l) ==
  /\ life[l] = "none"
  /\ asks[l] # {}
  /\ \A j \in Lives : j < l => life[j] # "none"
  /\ owner = None
  /\ life' = [life EXCEPT ![l] = "up"]
  /\ owner' = l
  /\ UNCHANGED <<topics, monitors, joined, members, readOf, monVars, reqVars, pageVars, histVars>>

\* The connection is closed, by either pump: the route and the entry of m.peers
\* are gone.  The page, if there still is one, hears nothing any more.
RemovePeer(l) ==
  /\ life[l] = "up"
  /\ l \in Leavers
  /\ life' = [life EXCEPT ![l] = "removed"]
  /\ owner' = None
  /\ listening' = [listening EXCEPT ![l] = {}]
  /\ view' = [view EXCEPT ![l] = Nobody]
  /\ suspect' = [suspect EXCEPT ![l] = Nobody]
  /\ UNCHANGED <<topics, monitors, joined, members, readOf, monVars, reqVars, histVars>>

\* Mutant: Close does not cancel the monitors.
CloseKeepsMonitors(l) ==
  /\ life[l] = "removed"
  /\ life' = [life EXCEPT ![l] = "closed"]
  /\ readOf' = [i \in Readers |-> IF \E t \in Topics : topics[l][t] = i THEN None ELSE readOf[i]]
  /\ joined' = [joined EXCEPT ![l] = {t \in @ : topics[l][t] = None}]
  /\ topics' = [topics EXCEPT ![l] = NoTopics]
  /\ late' = [late EXCEPT ![l] = {c \in Lives : found[c] = l}]
  /\ UNCHANGED <<owner, monitors, members, monVars, reqVars, pageVars, intruded, crashed>>

\* The section of Peer.Close under p.mu, after vcm.Close.
Close(l) ==
  /\ life[l] = "removed"
  /\ life' = [life EXCEPT ![l] = "closed"]
  /\ readOf' = [i \in Readers |-> IF \E t \in Topics : topics[l][t] = i THEN None ELSE readOf[i]]
  /\ joined' = [joined EXCEPT ![l] = {t \in @ : topics[l][t] = None}]
  /\ topics' = [topics EXCEPT ![l] = NoTopics]
  /\ monOn' = [k \in Monitors |-> monOn[k] /\ \A t \in Topics : monitors[l][t] # k]
  /\ monitors' = [monitors EXCEPT ![l] = NoTopics]
  /\ late' = [late EXCEPT ![l] = {c \in Lives : found[c] = l}]
  /\ UNCHANGED <<owner, members, monOf, monPc, known, snap, news, reqVars, pageVars,
                 intruded, crashed>>

\* host.Close.
HostClose(l) ==
  /\ life[l] = "closed"
  /\ life' = [life EXCEPT ![l] = "down"]
  /\ UNCHANGED <<owner, topics, monitors, joined, members, readOf, monVars, reqVars, pageVars, histVars>>

\* A remote peer subscribes to a topic or leaves it, or is found or lost.
MembersChange(t, x) ==
  /\ members' = [members EXCEPT ![t] = IF x \in @ THEN @ \ {x} ELSE @ \cup {x}]
  /\ UNCHANGED <<peerVars, readOf, monVars, reqVars, pageVars, histVars>>

\* pubsub is the manager's: without its host it lives on, and sees everybody leave.
Sees(l, t) == IF life[l] = "down" THEN {} ELSE members[t]

-----------------------------------------------------------------------------
(* Requests: the page sends them, its readPump handles them in turn        *)

\* The page sends a request.  subscribe installs the listener first,
\* unsubscribe deletes it first.
Call(c, op, t) ==
  /\ life[c] = "up"
  /\ op \in asks[c]
  /\ Len(calls[c]) < MaxCalls
  /\ calls' = [calls EXCEPT ![c] = Append(@, [op |-> op, topic |-> t])]
  /\ listening' = [listening EXCEPT ![c] = IF op = "subscribe" THEN @ \cup {t}
                                           ELSE IF op = "unsubscribe" THEN @ \ {t} ELSE @]
  /\ IF op = "unsubscribe"
     THEN /\ view' = [view EXCEPT ![c][t] = {}]
          /\ suspect' = [suspect EXCEPT ![c][t] = {}]
     ELSE UNCHANGED <<view, suspect>>
  /\ UNCHANGED <<peerVars, members, readOf, monVars, pc, call, found, held, histVars>>

\* The socket is closed: readPump returns.  What it has not read is lost.
Ends(c) ==
  /\ pc' = [pc EXCEPT ![c] = "ended"]
  /\ calls' = [calls EXCEPT ![c] = <<>>]

ReadFails(c) ==
  /\ pc[c] = "idle"
  /\ life[c] \in {"removed", "closed", "down"}
  /\ Ends(c)
  /\ UNCHANGED <<peerVars, members, readOf, monVars, call, found, held, pageVars, histVars>>

\* Mutant: the peer that was looked up is kept for the next request.
RespondKeepsPeer(c) ==
  /\ IF life[c] = "up" THEN pc' = [pc EXCEPT ![c] = "idle"] /\ UNCHANGED calls ELSE Ends(c)
  /\ call' = [call EXCEPT ![c] = None]
  /\ held' = [held EXCEPT ![c] = None]
  /\ UNCHANGED found

\* The response is sent.  On a closed connection that fails, and readPump returns.
Respond(c) ==
  /\ IF life[c] = "up" THEN pc' = [pc EXCEPT ![c] = "idle"] /\ UNCHANGED calls ELSE Ends(c)
  /\ call' = [call EXCEPT ![c] = None]
  /\ found' = [found EXCEPT ![c] = None]
  /\ held' = [held EXCEPT ![c] = None]

Goto(c, from, to) ==
  /\ pc[c] = from
  /\ pc' = [pc EXCEPT ![c] = to]
  /\ UNCHANGED <<calls, call>>

\* getPeer: whatever life the manager has under the connection's peer ID now.
GetPeer(c) ==
  /\ owner # None
  /\ found' = [found EXCEPT ![c] = owner]
  /\ held' = [held EXCEPT ![c] = None]
  /\ intruded' = [intruded EXCEPT ![owner] = @ \/ owner # c]

\* readPump reads the next request, and the handler looks up the peer for it.
ReadMessage(c) ==
  /\ pc[c] = "idle"
  /\ calls[c] # <<>>
  /\ calls' = [calls EXCEPT ![c] = Tail(@)]
  /\ call' = [call EXCEPT ![c] = Head(calls[c])]
  /\ pc' = [pc EXCEPT ![c] = Head(calls[c]).op]
  /\ GetPeer(c)
  /\ UNCHANGED <<peerVars, members, readOf, monVars, pageVars, late, crashed>>

\* The same without a peer: the request fails, as does the response.
ReadMessageTooLate(c) ==
  /\ pc[c] = "idle"
  /\ calls[c] # <<>>
  /\ owner = None
  /\ Ends(c)
  /\ UNCHANGED <<peerVars, members, readOf, monVars, call, found, held, pageVars, histVars>>

\* The second half of subscribe and unsubscribe looks the peer up again.
LookupAgain(c, from, to) ==
  /\ pc[c] = from
  /\ IF owner = None
     THEN Respond(c) /\ UNCHANGED intruded
     ELSE Goto(c, from, to) /\ GetPeer(c)
  /\ UNCHANGED <<peerVars, members, readOf, monVars, pageVars, late, crashed>>

GetPeerAgain(c) ==
  \/ LookupAgain(c, "lookupMonitor", "monitor")
  \/ LookupAgain(c, "lookupStop", "stopMonitor")

\* The request is over for the peer it used; its second half looks it up again.
Next2(c, from, to) ==
  /\ Goto(c, from, to)
  /\ found' = [found EXCEPT ![c] = None]
  /\ held' = [held EXCEPT ![c] = None]

\* Peer.Subscribe: joining a topic twice fails.
Subscribe(c) ==
  LET l == found[c]  t == call[c].topic IN
  /\ pc[c] = "subscribe"
  /\ \/ /\ topics[l][t] # None
        /\ Next2(c, "subscribe", "lookupMonitor")
        /\ UNCHANGED <<topics, joined, readOf>>
     \/ /\ topics[l][t] = None /\ t \in joined[l]
        /\ Respond(c)
        /\ UNCHANGED <<topics, joined, readOf>>
     \/ /\ topics[l][t] = None /\ t \notin joined[l]
        /\ joined' = [joined EXCEPT ![l] = @ \cup {t}]
        /\ \E i \in Readers : readOf[i] = None
        /\ LET i == CHOOSE i \in Readers : readOf[i] = None IN
             /\ readOf' = [readOf EXCEPT ![i] = <<l, t>>]
             /\ topics' = [topics EXCEPT ![l][t] = i]
        /\ Next2(c, "subscribe", "lookupMonitor")
  /\ UNCHANGED <<life, owner, monitors, members, monVars, pageVars, histVars>>

\* Peer.Monitor.  What the page heard before is not known to the new monitor.
Monitor(c) ==
  LET l == found[c]  t == call[c].topic IN
  /\ pc[c] = "monitor"
  /\ IF monitors[l][t] # None
     THEN UNCHANGED <<monitors, monVars, suspect>>
     ELSE /\ \E k \in Monitors : monOf[k] = None
          /\ LET k == CHOOSE k \in Monitors : monOf[k] = None IN
            /\ monOf' = [monOf EXCEPT ![k] = <<l, t>>]
            /\ monOn' = [monOn EXCEPT ![k] = TRUE]
            /\ monitors' = [monitors EXCEPT ![l][t] = k]
            /\ suspect' = [suspect EXCEPT ![l][t] = @ \cup view[l][t]]
            /\ UNCHANGED <<monPc, known, snap, news>>
  /\ Respond(c)
  /\ UNCHANGED <<life, owner, topics, joined, members, readOf, listening, view, histVars>>

\* Peer.Unsubscribe: out of the map in one section, cancelled after it.
Unsubscribe(c) ==
  LET l == found[c]  t == call[c].topic IN
  /\ pc[c] = "unsubscribe"
  /\ IF topics[l][t] = None
     THEN Next2(c, "unsubscribe", "lookupStop") /\ UNCHANGED topics
     ELSE /\ Goto(c, "unsubscribe", "cancel")
          /\ held' = [held EXCEPT ![c] = topics[l][t]]
          /\ topics' = [topics EXCEPT ![l][t] = None]
          /\ UNCHANGED found
  /\ UNCHANGED <<life, owner, monitors, joined, members, readOf, monVars, pageVars, histVars>>

\* Mutant: unsubscribe does not go on to StopMonitor.
CancelTopicOnly(c) ==
  /\ pc[c] = "cancel"
  /\ readOf' = [readOf EXCEPT ![held[c]] = None]
  /\ joined' = [joined EXCEPT ![found[c]] = @ \ {call[c].topic}]
  /\ Respond(c)
  /\ UNCHANGED <<life, owner, topics, monitors, members, monVars, pageVars, histVars>>

CancelTopic(c) ==
  /\ pc[c] = "cancel"
  /\ readOf' = [readOf EXCEPT ![held[c]] = None]
  /\ joined' = [joined EXCEPT ![found[c]] = @ \ {call[c].topic}]
  /\ Next2(c, "cancel", "lookupStop")
  /\ UNCHANGED <<life, owner, topics, monitors, members, monVars, pageVars, histVars>>

\* Mutant: the monitor is left running.
StopMonitorOnlyForgets(c) ==
  /\ pc[c] = "stopMonitor"
  /\ monitors' = [monitors EXCEPT ![found[c]][call[c].topic] = None]
  /\ Respond(c)
  /\ UNCHANGED <<life, owner, topics, joined, members, readOf, monVars, pageVars, histVars>>

StopMonitor(c) ==
  LET l == found[c]  t == call[c].topic IN
  /\ pc[c] = "stopMonitor"
  /\ IF monitors[l][t] = None
     THEN Respond(c) /\ UNCHANGED monitors
     ELSE /\ Goto(c, "stopMonitor", "cancelMonitor")
          /\ held' = [held EXCEPT ![c] = monitors[l][t]]
          /\ monitors' = [monitors EXCEPT ![l][t] = None]
          /\ UNCHANGED found
  /\ UNCHANGED <<life, owner, topics, joined, members, readOf, monVars, pageVars, histVars>>

CancelMonitor(c) ==
  /\ pc[c] = "cancelMonitor"
  /\ monOn' = [monOn EXCEPT ![held[c]] = FALSE]
  /\ Respond(c)
  /\ UNCHANGED <<peerVars, members, readOf, monOf, monPc, known, snap, news, pageVars, histVars>>

\* Peer.Publish: a topic that is not subscribed is joined for the message only.
Publish(c) ==
  LET l == found[c]  t == call[c].topic IN
  /\ pc[c] = "publish"
  /\ IF topics[l][t] # None \/ t \in joined[l]
     THEN Respond(c) /\ UNCHANGED joined
     ELSE /\ Goto(c, "publish", "leave")
          /\ joined' = [joined EXCEPT ![l] = @ \cup {t}]
          /\ UNCHANGED <<found, held>>
  /\ UNCHANGED <<life, owner, topics, monitors, members, readOf, monVars, pageVars, histVars>>

\* Mutant: the topic that was joined for one message is not closed.
LeaveTopicStays(c) ==
  /\ pc[c] = "leave"
  /\ Respond(c)
  /\ UNCHANGED <<peerVars, members, readOf, monVars, pageVars, histVars>>

LeaveTopic(c) ==
  /\ pc[c] = "leave"
  /\ joined' = [joined EXCEPT ![found[c]] = @ \ {call[c].topic}]
  /\ Respond(c)
  /\ UNCHANGED <<life, owner, topics, monitors, members, readOf, monVars, pageVars, histVars>>

\* Peer.ListPeers: the map of a monitor is iterated without p.mu.
ListPeers(c) ==
  LET k == monitors[found[c]][call[c].topic] IN
  /\ pc[c] = "listpeers"
  /\ IF k = None \/ known[k] = {}
     THEN Respond(c)
     ELSE /\ Goto(c, "listpeers", "iterate")
          /\ held' = [held EXCEPT ![c] = k]
          /\ UNCHANGED found
  /\ UNCHANGED <<peerVars, members, readOf, monVars, pageVars, histVars>>

EndIteration(c) ==
  /\ pc[c] = "iterate"
  /\ Respond(c)
  /\ UNCHANGED <<peerVars, members, readOf, monVars, pageVars, histVars>>

Request(c) ==
  \/ ReadMessage(c) \/ ReadMessageTooLate(c) \/ ReadFails(c) \/ GetPeerAgain(c)
  \/ Subscribe(c) \/ Monitor(c)
  \/ Unsubscribe(c) \/ CancelTopic(c) \/ StopMonitor(c) \/ CancelMonitor(c)
  \/ Publish(c) \/ LeaveTopic(c) \/ ListPeers(c) \/ EndIteration(c)

-----------------------------------------------------------------------------
(* The goroutines of a peer                                                *)

\* Mutant: a round is made only when somebody has joined.
TickOnJoin(k) ==
  /\ monOf[k] # None
  /\ monPc[k] = "select"
  /\ LET now == Sees(monOf[k][1], monOf[k][2]) IN
       /\ now \ known[k] # {}
       /\ snap' = [snap EXCEPT ![k] = now]
  /\ monPc' = [monPc EXCEPT ![k] = "round"]
  /\ UNCHANGED <<peerVars, members, readOf, monOf, monOn, known, news, reqVars, pageVars, histVars>>

\* monitorTopic: a tick starts a round, also when the context is cancelled: select
\* takes any case that is ready.  A round that finds no change does nothing.
Tick(k) ==
  /\ monOf[k] # None
  /\ monPc[k] = "select"
  /\ LET now == Sees(monOf[k][1], monOf[k][2]) IN
       /\ now # known[k]
       /\ snap' = [snap EXCEPT ![k] = now]
  /\ monPc' = [monPc EXCEPT ![k] = "round"]
  /\ UNCHANGED <<peerVars, members, readOf, monOf, monOn, known, news, reqVars, pageVars, histVars>>

\* The runtime may detect that the map is written while it is iterated.
WriteKnown(k, now) ==
  /\ known' = [known EXCEPT ![k] = now]
  /\ \/ crashed' = FALSE
     \/ crashed' = TRUE /\ \E c \in Lives : pc[c] = "iterate" /\ held[c] = k

Learn(k) ==
  /\ monPc[k] = "round"
  /\ \E x \in snap[k] \ known[k] :
       /\ WriteKnown(k, known[k] \cup {x})
       /\ news' = [news EXCEPT ![k] = [peer |-> x, joined |-> TRUE]]
  /\ monPc' = [monPc EXCEPT ![k] = "tell"]
  /\ UNCHANGED <<peerVars, members, readOf, monOf, monOn, snap, reqVars, pageVars, intruded, late>>

Forget(k) ==
  /\ monPc[k] = "round"
  /\ snap[k] \subseteq known[k]
  /\ \E x \in known[k] \ snap[k] :
       /\ WriteKnown(k, known[k] \ {x})
       /\ news' = [news EXCEPT ![k] = [peer |-> x, joined |-> FALSE]]
  /\ monPc' = [monPc EXCEPT ![k] = "tell"]
  /\ UNCHANGED <<peerVars, members, readOf, monOf, monOn, snap, reqVars, pageVars, intruded, late>>

\* onPeerChange: the event goes to the page that has the peer ID now.  It is lost
\* when the page's send buffer is full, and never repeated.
Hear(k, c, t) ==
  LET x == news[k].peer IN
  \/ /\ view' = [view EXCEPT ![c][t] = IF news[k].joined THEN @ \cup {x} ELSE @ \ {x}]
     /\ suspect' = [suspect EXCEPT ![c][t] = IF monitors[c][t] = k THEN @ \ {x} ELSE @ \cup {x}]
  \/ /\ suspect' = [suspect EXCEPT ![c][t] = @ \cup {x}]
     /\ UNCHANGED view

Tell(k) ==
  /\ monPc[k] = "tell"
  /\ LET t == monOf[k][2] IN
       IF owner # None /\ t \in listening[owner]
       THEN Hear(k, owner, t)
       ELSE UNCHANGED <<view, suspect>>
  /\ news' = [news EXCEPT ![k] = None]
  /\ IF snap[k] = known[k]
     THEN /\ monPc' = [monPc EXCEPT ![k] = "select"]
          /\ snap' = [snap EXCEPT ![k] = {}]
     ELSE monPc' = [monPc EXCEPT ![k] = "round"] /\ UNCHANGED snap
  /\ UNCHANGED <<peerVars, members, readOf, monOf, monOn, known, reqVars, listening, histVars>>

\* Mutant: the next monitor of the topic starts with what this one knew.
MonitorEndsKeepsKnown(k) ==
  /\ monOf[k] # None
  /\ monPc[k] = "select"
  /\ ~monOn[k]
  /\ monOf' = [monOf EXCEPT ![k] = None]
  /\ UNCHANGED <<peerVars, members, readOf, monOn, monPc, known, snap, news, reqVars, pageVars, histVars>>

MonitorEnds(k) ==
  /\ monOf[k] # None
  /\ monPc[k] = "select"
  /\ ~monOn[k]
  /\ monOf' = [monOf EXCEPT ![k] = None]
  /\ known' = [known EXCEPT ![k] = {}]
  /\ UNCHANGED <<peerVars, members, readOf, monOn, monPc, snap, news, reqVars, pageVars, histVars>>

Round(k) == Tick(k) \/ Learn(k) \/ Forget(k) \/ Tell(k)

-----------------------------------------------------------------------------
\* A fatal error ends the process: no step is taken after it.
Alive == ~crashed /\ UNCHANGED asks

Next ==
  /\ Alive
  /\ \/ \E l \in Lives : CreatePeer(l) \/ RemovePeer(l) \/ Close(l) \/ HostClose(l)
     \/ \E t \in Topics, x \in Remotes : MembersChange(t, x)
     \/ \E c \in Lives, op \in Ops, t \in Topics : Call(c, op, t)
     \/ \E c \in Lives : Request(c)
     \/ \E k \in Monitors : Round(k) \/ MonitorEnds(k)

Spec == Init /\ [][Next]_vars

\* The Go scheduler runs every goroutine that can run, and the ticks go on.  A select
\* with two ready cases takes either at random, so that a cancelled monitor ends
\* although it may be given more ticks.  Nothing is assumed of pages and requests.
Fairness ==
  \A k \in Monitors : WF_vars(Alive /\ Round(k)) /\ SF_vars(Alive /\ MonitorEnds(k))

FairSpec == Spec /\ Fairness

-----------------------------------------------------------------------------
(* Properties                                                              *)

\* Every variable has its type; a request that uses a peer has found one, and one
\* that cancels holds what it cancels.
TypeOK ==
  /\ asks \in Scenarios
  /\ life \in [Lives -> {"none", "up", "removed", "closed", "down"}]
  /\ owner \in Lives \cup {None}
  /\ topics \in [Lives -> [Topics -> Readers \cup {None}]]
  /\ monitors \in [Lives -> [Topics -> Monitors \cup {None}]]
  /\ joined \in [Lives -> SUBSET Topics]
  /\ members \in [Topics -> SUBSET Remotes]
  /\ readOf \in [Readers -> (Lives \X Topics) \cup {None}]
  /\ monOf \in [Monitors -> (Lives \X Topics) \cup {None}]
  /\ monOn \in [Monitors -> BOOLEAN]
  /\ monPc \in [Monitors -> {"select", "round", "tell"}]
  /\ known \in [Monitors -> SUBSET Remotes]
  /\ snap \in [Monitors -> SUBSET Remotes]
  /\ news \in [Monitors -> News \cup {None}]
  /\ \A k \in Monitors : monPc[k] = "tell" <=> news[k] # None
  /\ calls \in [Lives -> Seq(Calls)]
  /\ pc \in [Lives -> {"idle", "lookupMonitor", "lookupStop", "monitor", "cancel",
                       "stopMonitor", "cancelMonitor", "leave", "iterate", "ended"} \cup Ops]
  /\ call \in [Lives -> Calls \cup {None}]
  /\ found \in [Lives -> Lives \cup {None}]
  /\ held \in [Lives -> Readers \cup Monitors \cup {None}]
  /\ \A c \in Lives :
       /\ call[c] = None <=> pc[c] \in {"idle", "ended"}
       /\ found[c] = None <=> pc[c] \in {"idle", "ended", "lookupMonitor", "lookupStop"}
       /\ pc[c] = "cancel" => held[c] \in Readers
       /\ pc[c] \in {"cancelMonitor", "iterate"} => held[c] \in Monitors
  /\ listening \in [Lives -> SUBSET Topics]
  /\ view \in [Lives -> [Topics -> SUBSET Remotes]]
  /\ suspect \in [Lives -> [Topics -> SUBSET Remotes]]
  /\ intruded \in [Lives -> BOOLEAN]
  /\ late \in [Lives -> SUBSET Lives]
  /\ crashed \in BOOLEAN

\* One goroutine per subscription and one per monitor, although maps and contexts
\* change in different sections: what the maps of a life name runs for that life and
\* topic, and what runs uncancelled is in a map or about to be cancelled by a request.
HandlersOwned ==
  /\ \A l \in Lives, t \in Topics :
       /\ topics[l][t] # None => readOf[topics[l][t]] = <<l, t>>
       /\ monitors[l][t] # None => monOn[monitors[l][t]] /\ monOf[monitors[l][t]] = <<l, t>>
  /\ \A i \in Readers : readOf[i] # None =>
       \/ topics[readOf[i][1]][readOf[i][2]] = i
       \/ \E c \in Lives : pc[c] = "cancel" /\ held[c] = i
  /\ \A k \in Monitors : monOn[k] =>
       /\ monOf[k] # None
       /\ \/ monitors[monOf[k][1]][monOf[k][2]] = k
          \/ \E c \in Lives : pc[c] = "cancelMonitor" /\ held[c] = k

\* A topic stays joined only as long as it is subscribed or a request is using it:
\* no publication, unsubscription or removal of the peer leaves one joined, which
\* would make every later subscription fail.
JoinedIsUsed ==
  \A l \in Lives, t \in Topics :
    t \in joined[l] <=>
      \/ topics[l][t] # None
      \/ \E c \in Lives : pc[c] \in {"cancel", "leave"} /\ found[c] = l /\ call[c].topic = t

Running(l) == {i \in Readers : readOf[i] # None /\ readOf[i][1] = l}
              \cup {k \in Monitors : monOn[k] /\ monOf[k][1] = l}

\* A peer that is closed leaves nothing running behind except by requests that were
\* already using it then: at most one goroutine each.
LeftByLateRequest ==
  \A l \in Lives : life[l] \in {"closed", "down"} =>
     Cardinality(Running(l)) <= Cardinality(late[l])

\* The page and its peer agree, once its requests are answered, on the topics it has
\* a listener for, those it is subscribed to and those it monitors, although a
\* request sets the one after the other and looks the peer up for each.  Excepted is
\* a peer on which a request of an earlier connection has worked.
SubscribedTogether ==
  \A c \in Lives : life[c] = "up" /\ ~intruded[c] /\ pc[c] = "idle" =>
    \A t \in Topics :
      /\ topics[c][t] # None <=> monitors[c][t] # None
      /\ calls[c] = <<>> => (t \in listening[c] <=> topics[c][t] # None)

\* An unsubscribe of the page has not come to its end.
Leaving(c, t) ==
  \/ pc[c] \notin {"idle", "ended"} /\ call[c] = [op |-> "unsubscribe", topic |-> t]
  \/ \E n \in DOMAIN calls[c] : calls[c][n] = [op |-> "unsubscribe", topic |-> t]

Follows(c, t) ==
  /\ life[c] = "up" /\ ~intruded[c]
  /\ t \in listening[c] /\ ~Leaving(c, t)
  /\ monitors[c][t] # None

Reporting(k, x, j) == news[k] = [peer |-> x, joined |-> j]

\* What the page has heard is what its monitor knows, but for the change the monitor
\* is just reporting and for peers of which an event was lost or came late from
\* another monitor: joins and leaves reach the page in order and each once.
ViewFollows ==
  \A c \in Lives, t \in Topics : Follows(c, t) =>
    \A x \in Remotes \ suspect[c][t] :
      LET k == monitors[c][t] IN
      x \in view[c][t] <=> (x \in known[k] /\ ~Reporting(k, x, TRUE)) \/ Reporting(k, x, FALSE)

\* A page that stays subscribed learns of everybody who joins and stays, and of
\* everybody who leaves, unless the event was lost: again and again it is right about
\* every remote peer.
ChangesAreHeard ==
  \A c \in Lives, t \in Topics, x \in Remotes :
    []<>(Follows(c, t) /\ ~crashed => x \in suspect[c][t] \/ (x \in view[c][t] <=> x \in members[t]))

\* The goroutines of a peer that was closed while no request was using it come to
\* an end, whatever they were doing.
ClosedPeerEnds ==
  []<>(\A l \in Lives : life[l] = "down" /\ late[l] = {} /\ ~crashed =>
         /\ \A i \in Readers : readOf[i] = None \/ readOf[i][1] # l
         /\ \A k \in Monitors : monOf[k] = None \/ monOf[k][1] # l)

-----------------------------------------------------------------------------
(* A property the documentation states and the code does not have: see the *)
(* findings in README.md                                                   *)

\* "const currentPeers = await client.listPeers(...)", for a topic that is subscribed:
\* the request is answered.  ListPeers iterates the map of the topic's monitor, which
\* the monitor may be writing: a fatal error of the runtime.
NoFatalError == ~crashed
=============================================================================
