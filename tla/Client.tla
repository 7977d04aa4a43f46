------------------------------- MODULE Client -------------------------------
(***************************************************************************)
(* The TypeScript client (pkg/client/src/client.ts) of one page, the two   *)
(* directions of its WebSocket, and the server's side of it as the client  *)
(* sees it (internal/protocol/handler.go): requests are answered in order, *)
(* and notifications come at any time.                                     *)
(*                                                                         *)
(* JavaScript runs to completion: an action is an event (a message, the    *)
(* closing of the socket, a call by the page, the return of a listener)    *)
(* with the continuations that follow it before the next event.  A         *)
(* processMessageQueue loop can be seen between two events only where it   *)
(* awaits a listener: running holds those loops.  The page may connect     *)
(* again on the same client: the sessions are numbered.                    *)
(*                                                                         *)
(* connect is one action: the page uses the client when connect has        *)
(* returned.  A notification that finds no room in the server's buffer is  *)
(* one that is not sent, a response that finds none costs the socket.      *)
(* peerChange messages are topic messages.  The numbers of acks are those  *)
(* of the requests they are for.                                           *)
(*                                                                         *)
(* Every session has a peer of its own, its life numbered as the session.  *)
(* The page may ask for the peer ID of the session before: then what that  *)
(* session leaves behind on the server reaches the new one, for the server *)
(* finds peers and connections by peer ID.  That is a request in the hand  *)
(* of an old readPump (late), which works on the new peer, and a message   *)
(* in the hand of a goroutine of an old life, which is sent to the new     *)
(* connection.  Nothing makes either happen, so a page that asks for       *)
(* another peer ID is covered as well.                                     *)
(***************************************************************************)
EXTENDS Naturals, Sequences, FiniteSets

CONSTANTS Protocols, Topics,
          MaxSessions, \* bound: sessions of the page
          MaxRequests, \* bound: requests sent
          MaxData,     \* bound: data messages sent by the server
          Hasty        \* the page may connect again before the socket's close event

ASSUME BoundsAssumption == {MaxSessions, MaxRequests, MaxData} \subseteq Nat
ASSUME HastyAssumption == Hasty \in BOOLEAN
ASSUME ChannelsAssumption == Protocols \cap Topics = {}

Channels == Protocols \cup Topics
Sessions == 1..MaxSessions

VARIABLES
  session,      \* the session of this.ws, 0 before the first
  sock,         \* the sockets: unused, open, lost (by the server or the network, the close
                \* event is to come), closing (by the page), closed
  calls,        \* the requests sent, in the order of their ids
  pending,      \* the ids in this.pending
  listening,    \* the keys of protocolListeners and topicListeners
  acks,         \* the keys of ackCallbacks
  queue,        \* messageQueue
  processing,   \* processingMessage
  running,      \* the loops that await a listener: its message, and the request that the
                \* listener awaits in turn, 0 if none
  toServer,     \* requests on their way, by session
  toClient,     \* messages on their way, by session
  reply,        \* the server: what readPump has yet to queue for the request it handles
  started,      \* the protocols and topics of the session's peer
  opened,       \* the channels on which data may arrive, by life: stop ends no stream, and
                \* a message may be in hand when its topic is left or its peer removed
  late,         \* the requests in the hand of readPump when their connection was closed
  intruded,     \* history: the channels that late requests have started or stopped in the
                \* present life
  sentData,     \* the number of data messages sent
  heard,        \* history: the numbers of the data messages given to listeners
  unheard,      \* history: the channels a message of which found no listener although
                \* the page had not left the channel
  accepted,     \* history: the sends the server accepted
  overlap       \* history: a listener was awaited when the page connected again

lateVars   == <<late, intruded>>
pageVars   == <<calls, pending, listening, acks>>
queueVars  == <<queue, processing, running, heard, unheard>>
serverVars == <<reply, started, opened, sentData, accepted, lateVars>>
wireVars   == <<session, sock, toServer, toClient>>
vars == <<pageVars, queueVars, serverVars, wireVars, overlap>>

Init ==
  /\ session = 0 /\ sock = [s \in Sessions |-> "unused"]
  /\ calls = <<>> /\ pending = {} /\ listening = {} /\ acks = {}
  /\ queue = <<>> /\ processing = FALSE /\ running = {}
  /\ toServer = [s \in Sessions |-> <<>>] /\ toClient = [s \in Sessions |-> <<>>]
  /\ reply = <<>> /\ started = {} /\ opened = [s \in Sessions |-> {}] /\ sentData = 0
  /\ late = {} /\ intruded = {}
  /\ heard = <<>> /\ unheard = {} /\ accepted = {} /\ overlap = FALSE

Response(i, ok) == [type |-> "response", id |-> i, ok |-> ok]
Ack(i)          == [type |-> "ack", id |-> i]
Data(c, n, s)   == [type |-> "data", chan |-> c, id |-> n, life |-> s]

-----------------------------------------------------------------------------
(* Calls of the page                                                       *)

Open(s) == s > 0 /\ sock[s] = "open"

\* readyState is OPEN until the close event, also when the server is gone.
CanSend == session > 0 /\ sock[session] \in {"open", "lost"}

\* Mutant of NextId: one number is left out.
NextIdSkips == Len(calls) + 2

NextId == Len(calls) + 1

SendRequest(op, c) ==
  /\ CanSend /\ NextId <= MaxRequests
  /\ calls' = Append(calls, [op |-> op, chan |-> c, session |-> session])
  /\ pending' = pending \cup {NextId}
  /\ toServer' = IF Open(session) THEN [toServer EXCEPT ![session] = Append(@, NextId)]
                 ELSE toServer
  /\ UNCHANGED <<session, sock, toClient, serverVars, overlap>>

Start(c) ==
  /\ c \notin listening
  /\ SendRequest("start", c)
  /\ UNCHANGED <<listening, acks, queueVars>>

Stop(c) ==
  /\ c \in listening
  /\ SendRequest("stop", c)
  /\ UNCHANGED <<listening, acks, queueVars>>

\* With an onAck callback.  (The callback of a send that finds the socket closing is not
\* modelled: no ack has its number.)
Send(c) ==
  /\ c \in listening
  /\ SendRequest("send", c)
  /\ acks' = acks \cup {NextId}
  /\ UNCHANGED <<listening, queueVars>>

\* Mutant of Subscribe: the listener is set by the response, as start does it.
SubscribeLikeStart(t) ==
  /\ SendRequest("start", t)
  /\ UNCHANGED <<listening, acks, queueVars>>

\* The request is refused when the socket is gone, after the listeners have changed.
Request(op, c) ==
  \/ SendRequest(op, c)
  \/ ~CanSend /\ UNCHANGED <<calls, pending, wireVars, serverVars, overlap>>

\* The listener is set first.
Subscribe(t) ==
  /\ listening' = listening \cup {t}
  /\ Request("subscribe", t)
  /\ UNCHANGED <<acks, queueVars>>

Unsubscribe(t) ==
  /\ listening' = listening \ {t}
  /\ Request("unsubscribe", t)
  /\ UNCHANGED <<acks, queueVars>>

\* A listener makes a request of its own (listPeers, publish) and awaits the answer.
ListenerAsks(r, t) ==
  /\ r.awaits = 0
  /\ SendRequest("ask", t)
  /\ running' = (running \ {r}) \cup {[r EXCEPT !.awaits = NextId]}
  /\ UNCHANGED <<listening, acks, queue, processing, heard, unheard>>

-----------------------------------------------------------------------------
(* The server                                                              *)

\* The request is taken and answered with msgs.
Answer(s, msgs) ==
  /\ toServer' = [toServer EXCEPT ![s] = Tail(@)]
  /\ reply' = msgs

\* Mutant of Accepts: the ack is sent before it is known whether the send fails.
AcceptsAtOnce(s, i) == Answer(s, <<Ack(i), Response(i, FALSE)>>) /\ UNCHANGED accepted

\* handleSend: the ack is queued ahead of the response, unless the buffer is full.
Accepts(s, i) ==
  \/ Answer(s, <<Response(i, FALSE)>>) /\ UNCHANGED accepted
  \/ /\ Answer(s, <<Ack(i), Response(i, TRUE)>>) \/ Answer(s, <<Response(i, TRUE)>>)
     /\ accepted' = accepted \cup {i}

HandleSend(s, i) == Accepts(s, i) /\ UNCHANGED <<started, opened>>

\* The session's peer takes up channel c, or leaves it.
Opens(c)  == started' = started \cup {c} /\ opened' = [opened EXCEPT ![session] = @ \cup {c}]
Leaves(c) == started' = started \ {c} /\ UNCHANGED opened

\* It fails for a protocol that the peer has started.
HandleStart(s, i, c) ==
  /\ Answer(s, <<Response(i, c \notin started)>>)
  /\ Opens(c)
  /\ UNCHANGED accepted

HandleStop(s, i, c) ==
  /\ Answer(s, <<Response(i, c \in started)>>)
  /\ Leaves(c)
  /\ UNCHANGED accepted

\* A topic may refuse to be joined.
HandleSubscribe(s, i, t) ==
  \/ /\ Answer(s, <<Response(i, TRUE)>>)
     /\ Opens(t)
     /\ UNCHANGED accepted
  \/ /\ t \notin started
     /\ Answer(s, <<Response(i, FALSE)>>)
     /\ UNCHANGED <<started, opened, accepted>>

HandleUnsubscribe(s, i, t) ==
  /\ Answer(s, <<Response(i, TRUE)>>)
  /\ Leaves(t)
  /\ UNCHANGED accepted

\* publish and listPeers: it makes no difference here whether they succeed.
HandleAsk(s, i) == Answer(s, <<Response(i, TRUE)>>) /\ UNCHANGED <<started, opened, accepted>>

HandleClientMessage(s) ==
  /\ Open(s) /\ reply = <<>> /\ toServer[s] # <<>>
  /\ LET i == Head(toServer[s])
         c == calls[i].chan
         op == calls[i].op
     IN  \/ op = "start" /\ HandleStart(s, i, c)
         \/ op = "stop" /\ HandleStop(s, i, c)
         \/ op = "send" /\ HandleSend(s, i)
         \/ op = "subscribe" /\ HandleSubscribe(s, i, c)
         \/ op = "unsubscribe" /\ HandleUnsubscribe(s, i, c)
         \/ op = "ask" /\ HandleAsk(s, i)
  /\ UNCHANGED <<session, sock, toClient, pageVars, queueVars, sentData, lateVars, overlap>>

\* The ack, or the response, is queued: data may have been queued since the request was
\* handled.
SendMessage(s) ==
  /\ Open(s) /\ reply # <<>>
  /\ toClient' = [toClient EXCEPT ![s] = Append(@, Head(reply))]
  /\ reply' = Tail(reply)
  /\ UNCHANGED <<session, sock, toServer, pageVars, queueVars, started, opened, sentData,
                 accepted, lateVars, overlap>>

\* onPeerData, onTopicData and onPeerChange: the connection is found by the ID of the
\* peer, which may be that of an earlier life s.
Notify(s, c) ==
  /\ Open(session) /\ c \in opened[s] /\ sentData < MaxData
  /\ sentData' = sentData + 1
  /\ toClient' = [toClient EXCEPT ![session] = Append(@, Data(c, sentData + 1, s))]
  /\ UNCHANGED <<session, sock, toServer, reply, started, opened, accepted, lateVars,
                 pageVars, queueVars, overlap>>

\* What readPump goes on with when its connection is closed: the request it has read, or
\* the ack it is about to send.  It reads no other, for it cannot send the response.
InHand(s) ==
  {i \in DOMAIN calls : IF reply = <<>> THEN toServer[s] # <<>> /\ i = Head(toServer[s])
                        ELSE Head(reply) = Ack(i)}

LateStart(i, c) ==
  /\ calls[i].op \in {"start", "subscribe"} /\ c \notin started
  /\ Opens(c) /\ intruded' = intruded \cup {c}
  /\ UNCHANGED <<accepted, toClient>>

LateStop(i, c) ==
  /\ calls[i].op \in {"stop", "unsubscribe"} /\ c \in started
  /\ Leaves(c) /\ intruded' = intruded \cup {c}
  /\ UNCHANGED <<accepted, toClient>>

\* The ack goes to the present connection.
LateSend(i) ==
  /\ calls[i].op = "send"
  /\ accepted' = accepted \cup {i}
  /\ toClient' = [toClient EXCEPT ![session] = Append(@, Ack(i))]
  /\ UNCHANGED <<started, opened, intruded>>

\* A late request works on the peer that has the ID of the one it was for.  Its response
\* goes to the closed connection, and one that changes nothing is not shown.
LateRequest(i) ==
  /\ Open(session) /\ i \in late
  /\ late' = late \ {i}
  /\ LateStart(i, calls[i].chan) \/ LateStop(i, calls[i].chan) \/ LateSend(i)
  /\ UNCHANGED <<session, sock, toServer, reply, sentData, pageVars, queueVars, overlap>>

-----------------------------------------------------------------------------
(* Events of the client                                                    *)

Listened(m) == IF m.type = "ack" THEN m.id \in acks ELSE m.chan \in listening

\* The page has left the session that m belongs to, or called close, or stop or unsubscribe
\* for its channel and not start or subscribe since.
HasLeft(m) ==
  \/ m.life # session \/ ~CanSend
  \/ \E i \in DOMAIN calls :
       /\ calls[i].op \in {"stop", "unsubscribe"} /\ calls[i].chan = m.chan
       /\ calls[i].session = session
       /\ \A j \in i + 1 .. Len(calls) :
            calls[j].chan = m.chan => calls[j].op \notin {"start", "subscribe"}

\* The first message of q that somebody listens to.
Take(q, i) == i \in DOMAIN q /\ Listened(q[i]) /\ \A j \in 1 .. i - 1 : ~Listened(q[j])

\* The loop goes on with queue q until it awaits a listener or has emptied q; others are
\* the loops that it leaves waiting.
Loop(q, others) ==
  LET Ignored(n) == {q[j].chan : j \in {k \in 1..n : q[k].type = "data"
                                          /\ ~Listened(q[k]) /\ ~HasLeft(q[k])}}
  IN  \/ \E i \in DOMAIN q :
           /\ Take(q, i)
           /\ queue' = SubSeq(q, i + 1, Len(q))
           /\ processing' = TRUE
           /\ running' = others \cup {[msg |-> q[i], awaits |-> 0]}
           /\ unheard' = unheard \cup Ignored(i)
           /\ IF q[i].type = "ack"
              THEN acks' = acks \ {q[i].id} /\ UNCHANGED heard
              ELSE heard' = Append(heard, q[i].id) /\ UNCHANGED acks
      \/ /\ \A i \in DOMAIN q : ~Listened(q[i])
         /\ queue' = <<>>
         /\ processing' = FALSE
         /\ running' = others
         /\ unheard' = unheard \cup Ignored(Len(q))
         /\ UNCHANGED <<acks, heard>>

\* A response settles its request; start and stop go on.
HandleResponse(m) ==
  LET call == calls[m.id]
      settles == m.id \in pending /\ m.ok
  IN  /\ pending' = pending \ {m.id}
      /\ listening' = IF settles /\ call.op = "start" THEN listening \cup {call.chan}
                      ELSE IF settles /\ call.op = "stop" THEN listening \ {call.chan}
                      ELSE listening
      /\ UNCHANGED <<acks, queueVars>>

\* Mutant of HandleRequest: every message starts a loop.
HandleRequestAlways(m) ==
  /\ Loop(Append(queue, m), running)
  /\ UNCHANGED <<pending, listening>>

\* A message of the server is queued, and processed unless another one is.
HandleRequest(m) ==
  /\ IF processing
     THEN queue' = Append(queue, m) /\ UNCHANGED <<processing, running, heard, unheard, acks>>
     ELSE Loop(Append(queue, m), running)
  /\ UNCHANGED <<pending, listening>>

\* Mutant of IsImmediate: responses wait for the listeners.
IsImmediateIfIdle(m) == m.type = "response" /\ ~processing

IsImmediate(m) == m.type = "response"

HandleMessage(s) ==
  /\ sock[s] \in {"open", "lost"} /\ toClient[s] # <<>>
  /\ LET m == Head(toClient[s])
     IN  IF IsImmediate(m) THEN HandleResponse(m)
         ELSE /\ m.type # "response"
              /\ HandleRequest(m)
  /\ toClient' = [toClient EXCEPT ![s] = Tail(@)]
  /\ UNCHANGED <<calls, session, sock, toServer, serverVars, overlap>>

\* The promise that the loop awaits is settled.
ListenerReturns(r) ==
  /\ r.awaits \notin pending
  /\ Loop(queue, running \ {r})
  /\ UNCHANGED <<calls, pending, listening, wireVars, serverVars, overlap>>

\* Mutant of HandleClose: the listeners stay.
HandleCloseKeepsListeners ==
  /\ acks' = {} /\ queue' = <<>> /\ processing' = FALSE
  /\ UNCHANGED <<calls, pending, listening, running, heard, unheard>>

\* The pending requests and the loops are left as they are.
HandleClose ==
  /\ listening' = {} /\ acks' = {} /\ queue' = <<>> /\ processing' = FALSE
  /\ UNCHANGED <<calls, pending, running, heard, unheard>>

CloseEvent(s) ==
  /\ sock[s] = "closing" \/ (sock[s] = "lost" /\ toClient[s] = <<>>)
  /\ sock' = [sock EXCEPT ![s] = "closed"]
  /\ HandleClose
  /\ UNCHANGED <<session, toServer, toClient, serverVars, overlap>>

-----------------------------------------------------------------------------
(* Sessions                                                                *)

\* The page has a new peer; what the sessions before have left in the server's hands, and
\* the data that may still come from their lives, stay as they are.
Connect ==
  /\ session < MaxSessions
  /\ \A s \in 1..session : sock[s] = "closed" \/ (Hasty /\ sock[s] # "open")
  /\ session' = session + 1
  /\ sock' = [sock EXCEPT ![session + 1] = "open"]
  /\ reply' = <<>> /\ started' = {} /\ intruded' = {}
  /\ overlap' = (overlap \/ running # {})
  /\ UNCHANGED <<pageVars, queueVars, opened, sentData, accepted, late, toServer, toClient>>

\* close(): a closing socket delivers nothing; the server may have a request in hand.
Close ==
  /\ CanSend
  /\ sock' = [sock EXCEPT ![session] = "closing"]
  /\ toServer' = [toServer EXCEPT ![session] = <<>>]
  /\ toClient' = [toClient EXCEPT ![session] = <<>>]
  /\ late' = late \cup InHand(session)
  /\ UNCHANGED <<session, pageVars, queueVars, reply, started, opened, sentData, accepted,
                 intruded, overlap>>

\* The server closes the socket or exits, or the network fails; some of what is on its
\* way still arrives, and the server may have a request in hand.
SocketLost(s) ==
  /\ Open(s)
  /\ sock' = [sock EXCEPT ![s] = "lost"]
  /\ toServer' = [toServer EXCEPT ![s] = <<>>]
  /\ \E n \in 0..Len(toClient[s]) : toClient' = [toClient EXCEPT ![s] = SubSeq(@, 1, n)]
  /\ late' = late \cup InHand(s)
  /\ UNCHANGED <<session, pageVars, queueVars, reply, started, opened, sentData, accepted,
                 intruded, overlap>>

Call ==
  \/ \E c \in Protocols : Start(c) \/ Stop(c) \/ Send(c)
  \/ \E t \in Topics : Subscribe(t) \/ Unsubscribe(t)
  \/ \E r \in running, t \in Topics : ListenerAsks(r, t)

Returns == \E r \in running : ListenerReturns(r)

Next ==
  \/ Connect \/ Close \/ Call \/ Returns
  \/ \E s \in Sessions, c \in Channels : Notify(s, c)
  \/ \E i \in late : LateRequest(i)
  \/ \E s \in Sessions : \/ HandleClientMessage(s) \/ SendMessage(s) \/ HandleMessage(s)
                         \/ CloseEvent(s) \/ SocketLost(s)

Spec == Init /\ [][Next]_vars

\* The server answers, what is on its way arrives, events are handled, and a listener
\* returns once what it awaits is settled.  The page and the network owe nothing.
Fairness ==
  /\ \A s \in Sessions : /\ WF_vars(HandleClientMessage(s) \/ SendMessage(s))
                         /\ WF_vars(HandleMessage(s)) /\ WF_vars(CloseEvent(s))
  /\ WF_vars(Returns)

FairSpec == Spec /\ Fairness

-----------------------------------------------------------------------------
(* Properties                                                              *)

Ids   == 1..MaxRequests
Notes == [type : {"ack"}, id : Ids] \cup 
         [type : {"data"}, chan : Channels, id : 1..MaxData, life : Sessions]
MessageType == Notes \cup [type : {"response"}, id : Ids, ok : BOOLEAN]

\* Every variable has its type: no response is in the queue of notifications, and what is
\* on its way names requests that were made.
TypeOK ==
  /\ session \in 0..MaxSessions
  /\ sock \in [Sessions -> {"unused", "open", "lost", "closing", "closed"}]
  /\ calls \in Seq([op : {"start", "stop", "send", "subscribe", "unsubscribe", "ask"},
                    chan : Channels, session : Sessions])
  /\ Len(calls) <= MaxRequests
  /\ pending \subseteq DOMAIN calls /\ acks \subseteq DOMAIN calls
  /\ listening \subseteq Channels
  /\ queue \in Seq(Notes)
  /\ processing \in BOOLEAN
  /\ running \subseteq [msg : Notes, awaits : {0} \cup Ids]
  /\ toServer \in [Sessions -> Seq(Ids)]
  /\ \A s \in Sessions : \A i \in DOMAIN toServer[s] : toServer[s][i] \in DOMAIN calls
  /\ toClient \in [Sessions -> Seq(MessageType)]
  /\ reply \in Seq(MessageType)
  /\ started \subseteq Channels /\ opened \in [Sessions -> SUBSET Channels]
  /\ session > 0 => started \subseteq opened[session]
  /\ late \subseteq DOMAIN calls /\ intruded \subseteq Channels
  /\ sentData \in 0..MaxData
  /\ heard \in Seq(1..MaxData)
  /\ unheard \subseteq Channels /\ accepted \subseteq DOMAIN calls
  /\ overlap \in BOOLEAN

\* Listeners are given the server's messages in the order the server sent them, and one at
\* a time (client.ts:31, "Message queuing for sequential processing"), whatever they await,
\* as long as no listener outlives its session.
HeardInOrder ==
  /\ \A i, j \in DOMAIN heard : i < j => heard[i] < heard[j]
  /\ ~overlap => Cardinality(running) <= 1 /\ (running # {} => processing \/ ~Open(session))

\* When no request of the session is outstanding, page and server agree: the page has a
\* listener for exactly the protocols its peer has started, and for every topic it
\* has joined, whatever calls overlapped or failed.  The only disagreement that the last
\* session can cause is on the channel of a request that it left in the server's hand: the
\* old readPump finds the new peer by its ID (manager.go:362) and starts or stops there
\* what this page has not asked for.
Agreement ==
  Open(session) /\ (\A i \in pending : calls[i].session # session) =>
    \A c \in Channels \ intruded : /\ c \in started => c \in listening
                                  /\ c \in listening \cap Protocols => c \in started

\* A message of the session's peer finds its listener unless the page has left its protocol
\* or topic, or is still waiting for the response to start: subscribe sets the listener
\* before it asks, start when the response has come (client.ts:84, 125), and nothing else
\* loses one, but for channels on which a late request of an earlier session has worked.
LostOnlyWhileStarting ==
  [][\A c \in unheard' \ (unheard \cup intruded) : c \in Protocols /\
       \E i \in pending : calls[i] = [op |-> "start", chan |-> c, session |-> session]]_vars

\* An onAck callback runs only for a message that the server has accepted into its queue,
\* never for one that it refused, and also when the ack is that of a late request.  It
\* says no more, although it is documented as the confirmation of delivery: see Delivery.
AckedWasAccepted == \A r \in running : r.msg.type = "ack" => r.msg.id \in accepted

\* A request is settled unless its socket is lost or closed, also when it was made by the
\* listener that the loop awaits: responses do not queue behind it (client.ts:183).
RequestsSettle ==
  \A i \in 1..MaxRequests : []<>(i \in pending => sock[calls[i].session] # "open")
=============================================================================
