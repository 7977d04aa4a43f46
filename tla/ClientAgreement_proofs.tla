----------------------- MODULE ClientAgreement_proofs -----------------------
(***************************************************************************)
(* What is proved of Client about page and server together, for a page     *)
(* that connects again only after the close event of its last socket: they *)
(* agree on what is started whenever no request of the session is          *)
(* outstanding, and a message that finds no listener is one for a protocol *)
(* that the page is waiting to start, or has left.  The difference between *)
(* the two is what is on its way: the answers that the page has yet to     *)
(* hear of, and the requests that the server has yet to take.  All of it   *)
(* is said channel by channel: a late request of an earlier session upsets *)
(* the channel it works on, and no other.                                  *)
(***************************************************************************)
EXTENDS Client_proofs

-----------------------------------------------------------------------------
(* What is on its way in the present session                               *)

Responses(q) == Kind("response", q)

\* The answers that the page has not handled, and the requests that the server has not.
Answers == Responses(toClient[session]) \cup Responses(reply)
Waiting == Range(toServer[session])

Increasing(q) == \A i, j \in DOMAIN q : i < j => q[i] < q[j]

\* Requests are answered in the order of their numbers.
InTurn ==
  /\ Rising("response", reply) /\ Rising("response", toClient[session])
  /\ Increasing(toServer[session])
  /\ \A m \in Responses(toClient[session]), n \in Responses(reply) : m.id < n.id
  /\ \A m \in Answers, i \in Waiting : m.id < i

\* The page waits for the answers of all of them.
Owed(i) == i \in pending /\ calls[i].session = session
AllOwed == (\A m \in Answers : Owed(m.id)) /\ (\A i \in Waiting : Owed(i))

\* Requests about protocols and requests about topics differ.
Told == \A i \in DOMAIN calls : calls[i].chan \in Protocols <=> calls[i].op \in {"start", "stop", "send"}

\* The page will have a listener for c when it has handled all answers.
Decides(m, c) == m.ok /\ calls[m.id].chan = c /\ calls[m.id].op \in {"start", "stop"}
WillListen(c) ==
  \/ c \in listening /\ \A m \in Answers : ~Decides(m, c)
  \/ \E m \in Answers : /\ Decides(m, c) /\ calls[m.id].op = "start"
                        /\ \A n \in Answers : Decides(n, c) => n.id <= m.id

ProtocolsAgree == \A c \in Protocols \ intruded : c \in started <=> WillListen(c)

\* The server will have left every topic without a listener when it has taken all requests.
Asks(op, t) == {i \in Waiting : calls[i].op = op /\ calls[i].chan = t}
TopicsAgree ==
  \A t \in Topics \ (listening \cup intruded) :
    \/ \E i \in Asks("unsubscribe", t) : \A j \in Asks("subscribe", t) : j < i
    \/ t \notin started /\ Asks("subscribe", t) = {}

OnTheWay == InTurn /\ AllOwed /\ ProtocolsAgree /\ TopicsAgree

AgreeInv == Told /\ (Open(session) => OnTheWay)

LEMMA OpenTypes ==
  ASSUME TypeOK, Open(session)
  PROVE  /\ session \in Sessions /\ toClient[session] \in Seq(MessageType)
         /\ toServer[session] \in Seq(Ids) /\ reply \in Seq(MessageType)
         /\ Waiting \subseteq DOMAIN calls
         /\ \A m \in Answers : m \in MessageType /\ m.id \in Nat /\ m.ok \in BOOLEAN
         /\ \A m \in Answers : m.type = "response"
<1>1. session \in Sessions
  BY DEF TypeOK, Open, Sessions
<1>2. /\ toClient[session] \in Seq(MessageType) /\ toServer[session] \in Seq(Ids)
      /\ reply \in Seq(MessageType)
  BY <1>1 DEF TypeOK
<1>3. \A q \in Seq(MessageType) : \A m \in Responses(q) : m \in MessageType /\ m.type = "response"
  <2> SUFFICES ASSUME NEW q \in Seq(MessageType), NEW m \in Responses(q)
               PROVE  m \in MessageType /\ m.type = "response"
    OBVIOUS
  <2>1. PICK i \in DOMAIN q : m = q[i]
    BY DEF Responses, Kind, Range
  <2>2. q[i] \in MessageType
    BY LenProperties, ElementOfSeq
  <2> QED
    BY <2>1, <2>2 DEF Responses, Kind
<1>4. \A m \in Answers : m \in MessageType /\ m.type = "response"
  BY <1>2, <1>3 DEF Answers
<1>5. Ids \subseteq Nat
  BY BoundsAssumption DEF Ids
<1>6. \A m \in Answers : m.id \in Nat /\ m.ok \in BOOLEAN
  BY <1>4, <1>5, MessageKinds
<1>7. Waiting \subseteq DOMAIN calls
  BY <1>1 DEF Waiting, Range, TypeOK
<1> QED
  BY <1>1, <1>2, <1>4, <1>6, <1>7

LEMMA CallNumbers ==
  ASSUME TypeOK
  PROVE  /\ Len(calls) \in Nat /\ DOMAIN calls = 1..Len(calls) /\ DOMAIN calls \subseteq Nat
         /\ NextId = Len(calls) + 1 /\ NextId \notin DOMAIN calls
         /\ \A i \in DOMAIN calls : i < NextId
         /\ pending \subseteq DOMAIN calls
         /\ \A i \in DOMAIN calls : calls[i].chan \in Channels
<1>1. Len(calls) \in Nat /\ DOMAIN calls = 1..Len(calls) /\ \A i \in DOMAIN calls : calls[i] \in CallType
  BY CallTypes
<1>2. NextId = Len(calls) + 1
  BY DEF NextId
<1>3. pending \subseteq DOMAIN calls
  BY DEF TypeOK
<1> QED
  BY <1>1, <1>2, <1>3 DEF CallType

-----------------------------------------------------------------------------
(* Steps that change nothing of it                                         *)

LEMMA SameWay ==
  ASSUME OnTheWay, InTurn',
         UNCHANGED <<session, calls, pending, listening, started, intruded, Answers, Waiting>>
  PROVE  OnTheWay'
<1>1. AllOwed'
  BY DEF OnTheWay, AllOwed, Owed
<1>2. ProtocolsAgree'
  BY DEF OnTheWay, ProtocolsAgree, WillListen, Decides
<1>3. TopicsAgree'
  BY DEF OnTheWay, TopicsAgree, Asks
<1> QED
  BY <1>1, <1>2, <1>3 DEF OnTheWay

\* The server sends a notification.
LEMMA NotifyAgrees ==
  ASSUME TypeOK, Open(session), OnTheWay,
         NEW r \in Sessions, NEW c \in Channels, Notify(r, c)
  PROVE  OnTheWay'
<1> DEFINE m == Data(c, sentData + 1, r)
           q == toClient[session]
<1>1. q \in Seq(MessageType) /\ session \in Sessions
  BY OpenTypes
<1>2. m \in MessageType /\ m.type # "response"
  <2>1. sentData + 1 \in 1..MaxData
    BY BoundsAssumption DEF Notify, TypeOK
  <2> QED
    BY <2>1, Messages, MessageKinds
<1>3. UNCHANGED <<session, toServer, reply, calls, pending, listening, started, intruded>>
  BY DEF Notify, pageVars, lateVars
<1>4. toClient'[session] = Append(q, m)
  BY <1>1 DEF Notify, TypeOK
<1>5. Rising("response", q)
  BY DEF OnTheWay, InTurn
<1> HIDE DEF q, m
<1>6. Responses(Append(q, m)) = Responses(q) /\ Rising("response", Append(q, m))
  BY <1>1, <1>2, <1>5, RisingAppend DEF Responses
<1>7. UNCHANGED <<Answers, Waiting>>
  BY <1>3, <1>4, <1>6 DEF Answers, Waiting, q
<1>8. InTurn'
  BY <1>3, <1>4, <1>6, <1>7 DEF OnTheWay, InTurn, q
<1> QED
  BY <1>3, <1>7, <1>8, SameWay

\* A late request changes what is started on its own channel only.
LEMMA LateAgrees ==
  ASSUME TypeOK, Open(session), OnTheWay, NEW i \in late, LateRequest(i)
  PROVE  OnTheWay'
<1> DEFINE c == calls[i].chan  q == toClient[session]
<1>1. q \in Seq(MessageType) /\ session \in Sessions
  BY OpenTypes
<1>2. /\ i \in Ids /\ UNCHANGED <<session, toServer, reply, calls, pending, listening>>
      /\ intruded \subseteq intruded'
      /\ toClient' = toClient \/ toClient' = [toClient EXCEPT ![session] = Append(@, Ack(i))]
  BY LateFacts DEF pageVars
<1>3. \/ UNCHANGED started
      \/ /\ c \in intruded'
         /\ started' \subseteq started \cup {c} /\ started \subseteq started' \cup {c}
  BY LateFacts
<1>4. \A d : d \notin intruded' => (d \in started' <=> d \in started)
  BY <1>3
<1>5. Rising("response", q)
  BY DEF OnTheWay, InTurn
<1> HIDE DEF q, c
<1>6. Responses(toClient'[session]) = Responses(q) /\ Rising("response", toClient'[session])
  <2>1. Ack(i) \in MessageType /\ Ack(i).type # "response"
    BY <1>2, Messages, MessageKinds
  <2>2. Responses(Append(q, Ack(i))) = Responses(q) /\ Rising("response", Append(q, Ack(i)))
    BY <1>1, <1>5, <2>1, RisingAppend DEF Responses
  <2>3. toClient'[session] = q \/ toClient'[session] = Append(q, Ack(i))
    BY <1>1, <1>2 DEF q, TypeOK
  <2> QED
    BY <1>5, <2>2, <2>3
<1>7. UNCHANGED <<Answers, Waiting>>
  BY <1>2, <1>6 DEF Answers, Waiting, q
<1>8. InTurn'
  BY <1>2, <1>6, <1>7 DEF OnTheWay, InTurn, q
<1>9. AllOwed'
  BY <1>2, <1>7 DEF OnTheWay, AllOwed, Owed
<1>10. ProtocolsAgree'
  <2>1. \A d : WillListen(d)' <=> WillListen(d)
    BY <1>2, <1>7 DEF WillListen, Decides
  <2> QED
    BY <1>2, <1>4, <2>1 DEF OnTheWay, ProtocolsAgree
<1>11. TopicsAgree'
  <2>1. \A op, t : Asks(op, t)' = Asks(op, t)
    BY <1>2, <1>7 DEF Asks
  <2> QED
    BY <1>2, <1>4, <2>1 DEF OnTheWay, TopicsAgree
<1> QED
  BY <1>8, <1>9, <1>10, <1>11 DEF OnTheWay

\* The server sends the ack or the response of the request it has taken.
LEMMA SendMessageAgrees ==
  ASSUME TypeOK, Open(session), OnTheWay, NEW s \in Sessions, s = session, SendMessage(s)
  PROVE  OnTheWay'
<1> DEFINE m == Head(reply)
           q == toClient[session]
           r == Tail(reply)
<1>1. q \in Seq(MessageType) /\ session \in Sessions /\ reply \in Seq(MessageType) /\ reply # <<>>
  BY OpenTypes DEF SendMessage
<1>2. m \in MessageType /\ Range(reply) = {m} \cup Range(r) /\ r \in Seq(MessageType)
  BY <1>1, TailFacts
<1>3. UNCHANGED <<session, toServer, calls, pending, listening, started, intruded>> /\ reply' = r
  BY DEF SendMessage, pageVars, lateVars
<1>4. toClient'[session] = Append(q, m)
  BY <1>1 DEF SendMessage, TypeOK
<1>5. /\ Rising("response", q) /\ Rising("response", reply)
      /\ \A x \in Responses(q), y \in Responses(reply) : x.id < y.id
      /\ \A x \in Answers, i \in Waiting : x.id < i
      /\ Increasing(toServer[session])
  BY DEF OnTheWay, InTurn
<1>6. /\ Rising("response", r) /\ Responses(r) \subseteq Responses(reply)
      /\ m.type = "response" =>
           m \in Responses(reply) /\ \A x \in Responses(r) : m.id < x.id
  BY <1>1, <1>5, RisingTail DEF Responses
<1>7. Answers = Responses(q) \cup Responses(reply)
  BY DEF Answers
<1> HIDE DEF q, m, r
<1>8. m.type = "response" => \A x \in Responses(q) : x.id < m.id
  BY <1>5, <1>6
<1>9. /\ Rising("response", Append(q, m))
      /\ Responses(Append(q, m)) \subseteq Responses(q) \cup {m}
      /\ m.type # "response" => Responses(Append(q, m)) = Responses(q)
  BY <1>1, <1>2, <1>5, <1>8, RisingAppend DEF Responses
<1>10. Responses(reply) = IF m.type = "response" THEN {m} \cup Responses(r) ELSE Responses(r)
  BY <1>2 DEF Responses, Kind
<1>11. Range(Append(q, m)) = Range(q) \cup {m}
  BY <1>1, <1>2, AppendFacts
<1>12. Responses(Append(q, m)) = IF m.type = "response" THEN Responses(q) \cup {m} ELSE Responses(q)
  BY <1>11 DEF Responses, Kind
<1>13. Answers' = Responses(Append(q, m)) \cup Responses(r) /\ Waiting' = Waiting
  BY <1>3, <1>4 DEF Answers, Waiting
<1>14. Answers' = Answers
  BY <1>7, <1>10, <1>12, <1>13
<1>15. InTurn'
  <2>1. \A x \in Responses(Append(q, m)), y \in Responses(r) : x.id < y.id
    BY <1>5, <1>6, <1>12
  <2> QED
    BY <1>3, <1>4, <1>5, <1>6, <1>9, <1>13, <1>14, <2>1 DEF InTurn
<1> QED
  BY <1>3, <1>13, <1>14, <1>15, SameWay

-----------------------------------------------------------------------------
(* The server takes a request                                              *)

\* The set left by the oldest number of an increasing sequence.
LEMMA IncreasingTail ==
  ASSUME NEW q \in Seq(Ids), q # <<>>, Increasing(q)
  PROVE  /\ Increasing(Tail(q)) /\ Range(q) = {Head(q)} \cup Range(Tail(q))
         /\ \A i \in Range(Tail(q)) : Head(q) < i
<1> DEFINE t == Tail(q)
<1>1. /\ Head(q) = q[1] /\ Len(q) \in Nat \ {0} /\ DOMAIN q = 1..Len(q) /\ DOMAIN t = 1 .. Len(q) - 1
      /\ \A i \in 1 .. Len(q) - 1 : t[i] = q[i + 1]
      /\ Range(q) = {Head(q)} \cup Range(t)
  BY TailFacts
<1> HIDE DEF t
<1>2. \A i \in DOMAIN t : i + 1 \in DOMAIN q /\ t[i] = q[i + 1] /\ 1 < i + 1 /\ i \in Int /\ 1 \in DOMAIN q
  BY <1>1
<1>3. Increasing(t)
  BY <1>2 DEF Increasing
<1>4. \A i \in DOMAIN t : Head(q) < t[i]
  BY <1>1, <1>2 DEF Increasing
<1> QED
  BY <1>1, <1>3, <1>4 DEF t, Range

\* What the server does with request i, and whether it answers that it succeeded.
Handled(i, ok) ==
  LET c == calls[i].chan
      op == calls[i].op
  IN  /\ op = "start" => ok = (c \notin started) /\ started' = started \cup {c}
      /\ op = "stop" => ok = (c \in started) /\ started' = started \ {c}
      /\ op = "subscribe" => started' \in {started, started \cup {c}}
      /\ op = "unsubscribe" => started' = started \ {c}
      /\ op \in {"send", "ask"} => started' = started

Taken(i) ==
  \E ok \in BOOLEAN :
    /\ reply' = <<Response(i, ok)>> \/ reply' = <<Ack(i), Response(i, ok)>>
    /\ Handled(i, ok)

LEMMA HandledCases ==
  ASSUME TypeOK, NEW s \in Sessions, HandleClientMessage(s)
  PROVE  Taken(Head(toServer[s]))
<1> DEFINE i == Head(toServer[s])  c == calls[i].chan  op == calls[i].op
<1>1. \/ op = "start" /\ HandleStart(s, i, c)
      \/ op = "stop" /\ HandleStop(s, i, c)
      \/ op = "send" /\ HandleSend(s, i)
      \/ op = "subscribe" /\ HandleSubscribe(s, i, c)
      \/ op = "unsubscribe" /\ HandleUnsubscribe(s, i, c)
      \/ op = "ask" /\ HandleAsk(s, i)
  BY DEF HandleClientMessage
<1> HIDE DEF i, c, op, Taken
<1>2. CASE op = "start" /\ HandleStart(s, i, c)
  <2>1. (c \notin started) \in BOOLEAN /\ reply' = <<Response(i, c \notin started)>>
        /\ Handled(i, c \notin started)
    BY <1>2 DEF c, op, Opens, HandleStart, Answer, Handled
  <2> QED
    BY <2>1 DEF i, c, op, Taken
<1>3. CASE op = "stop" /\ HandleStop(s, i, c)
  <2>1. (c \in started) \in BOOLEAN /\ reply' = <<Response(i, c \in started)>>
        /\ Handled(i, c \in started)
    BY <1>3 DEF c, op, Leaves, HandleStop, Answer, Handled
  <2> QED
    BY <2>1 DEF i, c, op, Taken
<1>4. CASE op = "send" /\ HandleSend(s, i)
  <2>1. started' = started
        /\ (reply' = <<Response(i, FALSE)>> \/ reply' = <<Response(i, TRUE)>>
            \/ reply' = <<Ack(i), Response(i, TRUE)>>)
    BY <1>4 DEF c, op, HandleSend, Accepts, Answer
  <2>2. \A ok \in BOOLEAN : Handled(i, ok)
    BY <1>4, <2>1 DEF Handled, c, op
  <2> QED
    BY <2>1, <2>2 DEF i, c, op, Taken
<1>5. CASE op = "subscribe" /\ HandleSubscribe(s, i, c)
  <2>1. started' \in {started, started \cup {c}}
        /\ (reply' = <<Response(i, FALSE)>> \/ reply' = <<Response(i, TRUE)>>)
    BY <1>5 DEF c, op, Opens, HandleSubscribe, Answer
  <2>2. \A ok \in BOOLEAN : Handled(i, ok)
    BY <1>5, <2>1 DEF Handled, c, op
  <2> QED
    BY <2>1, <2>2 DEF i, c, op, Taken
<1>6. CASE (op = "unsubscribe" /\ HandleUnsubscribe(s, i, c)) \/ (op = "ask" /\ HandleAsk(s, i))
  <2>1. reply' = <<Response(i, TRUE)>> /\ Handled(i, TRUE)
    BY <1>6 DEF c, op, Leaves, HandleUnsubscribe, HandleAsk, Answer, Handled
  <2> QED
    BY <2>1 DEF i, c, op, Taken
<1> QED
  BY <1>1, <1>2, <1>3, <1>4, <1>5, <1>6

LEMMA OneResponse ==
  ASSUME NEW i \in Ids, NEW ok \in BOOLEAN, NEW q,
         q = <<Response(i, ok)>> \/ q = <<Ack(i), Response(i, ok)>>
  PROVE  Responses(q) = {Response(i, ok)} /\ Rising("response", q)
<1> DEFINE r == Response(i, ok)  a == Ack(i)
<1>1. r.type = "response" /\ a.type = "ack"
  BY Messages
<1> HIDE DEF r, a
<1>2. CASE q = <<r>>
  <2>1. Range(q) = {r} /\ DOMAIN q = {1}
    <3>1. DOMAIN <<r>> = {1}
      OBVIOUS
    <3> QED
      BY <1>2, <3>1, PairFacts
  <2> QED
    BY <1>1, <2>1 DEF Responses, Kind, Rising, r
<1>3. CASE q = <<a, r>>
  <2>1. Range(q) = {a, r} /\ DOMAIN q = {1, 2} /\ q[1] = a
    <3>1. DOMAIN <<a, r>> = {1, 2} /\ <<a, r>>[1] = a
      OBVIOUS
    <3> QED
      BY <1>3, <3>1, PairFacts
  <2> QED
    BY <1>1, <2>1 DEF Responses, Kind, Rising, r
<1> QED
  BY <1>2, <1>3 DEF r, a

LEMMA TakenFacts ==
  ASSUME TypeOK, Open(session), OnTheWay, NEW s \in Sessions, s = session, HandleClientMessage(s)
  PROVE  LET i == Head(toServer[s]) IN
         /\ UNCHANGED <<session, calls, pending, listening, intruded>>
         /\ i \in DOMAIN calls /\ i \in Nat /\ Waiting = {i} \cup Waiting' /\ \A j \in Waiting' : i < j
         /\ \A m \in Answers : m.id < i
         /\ \E ok \in BOOLEAN : Handled(i, ok) /\ Answers' = Answers \cup {Response(i, ok)}
         /\ InTurn'
<1> DEFINE q == toServer[s]  i == Head(q)
<1>1. /\ q \in Seq(Ids) /\ q # <<>> /\ reply = <<>>
      /\ i \in DOMAIN calls /\ i \in Ids
      /\ toServer' = [toServer EXCEPT ![s] = Tail(q)]
      /\ UNCHANGED <<session, toClient, calls, pending, listening, intruded>>
  BY OpenTypes, HandledFacts DEF HandleClientMessage, pageVars, lateVars
<1>2. toServer'[s] = Tail(q) /\ Waiting = Range(q) /\ Waiting' = Range(Tail(q))
  BY <1>1 DEF Waiting, TypeOK
<1>3. Increasing(q) /\ Rising("response", toClient[session]) /\ \A m \in Answers, j \in Waiting : m.id < j
  BY DEF OnTheWay, InTurn
<1>4. /\ Increasing(Tail(q)) /\ Range(q) = {i} \cup Range(Tail(q))
      /\ \A j \in Range(Tail(q)) : i < j
  BY <1>1, <1>3, IncreasingTail
<1>5. Taken(i)
  BY HandledCases
<1> HIDE DEF i, q
<1>6. PICK ok \in BOOLEAN : /\ reply' = <<Response(i, ok)>> \/ reply' = <<Ack(i), Response(i, ok)>>
                            /\ Handled(i, ok)
  BY <1>5 DEF Taken
<1>7. Responses(reply') = {Response(i, ok)} /\ Rising("response", reply')
  BY <1>1, <1>6, OneResponse
<1>8. Responses(reply) = {}
  BY <1>1, EmptyFacts DEF Responses, Kind
<1>9. Answers = Responses(toClient[session]) /\ Answers' = Answers \cup {Response(i, ok)}
  BY <1>1, <1>7, <1>8 DEF Answers
<1>10. Response(i, ok).id = i /\ i \in Nat
  BY <1>1, BoundsAssumption DEF Response, Ids
<1>11. \A m \in Answers : m.id < i /\ m.id \in Nat
  BY <1>2, <1>3, <1>4, OpenTypes
<1>12. \A m \in Answers', j \in Waiting' : m.id < j
  BY <1>2, <1>3, <1>4, <1>9, <1>10
<1>13. InTurn'
  <2>1. \A m \in Responses(toClient'[session']), n \in Responses(reply') : m.id < n.id
    BY <1>1, <1>7, <1>9, <1>10, <1>11
  <2> QED
    BY <1>1, <1>2, <1>3, <1>4, <1>7, <1>12, <2>1 DEF InTurn
<1> QED
  BY <1>1, <1>2, <1>4, <1>6, <1>9, <1>10, <1>11, <1>13 DEF i, q

LEMMA HandleAgrees ==
  ASSUME TypeOK, Open(session), Told, OnTheWay, NEW s \in Sessions, s = session,
         HandleClientMessage(s)
  PROVE  OnTheWay'
<1> DEFINE i == Head(toServer[s])  c == calls[i].chan  op == calls[i].op
<1>1. /\ UNCHANGED <<session, calls, pending, listening, intruded>>
      /\ i \in DOMAIN calls /\ i \in Nat /\ Waiting = {i} \cup Waiting' /\ \A j \in Waiting' : i < j
      /\ \A m \in Answers : m.id < i
      /\ \E ok \in BOOLEAN : Handled(i, ok) /\ Answers' = Answers \cup {Response(i, ok)}
      /\ InTurn'
  BY TakenFacts
<1> HIDE DEF i
<1>2. PICK ok \in BOOLEAN : Handled(i, ok) /\ Answers' = Answers \cup {Response(i, ok)}
  BY <1>1
<1> DEFINE r == Response(i, ok)
<1>3. r.id = i /\ r.ok = ok
  BY DEF Response
<1> HIDE DEF r
<1>4. AllOwed'
  <2>1. (\A m \in Answers : Owed(m.id)) /\ (\A j \in Waiting : Owed(j))
    BY DEF OnTheWay, AllOwed
  <2>2. \A j : Owed(j)' <=> Owed(j)
    BY <1>1 DEF Owed
  <2> QED
    BY <1>1, <1>2, <1>3, <2>1, <2>2 DEF AllOwed, r
<1>5. op \in {"start", "stop", "send", "subscribe", "unsubscribe", "ask"}
  BY <1>1, CallTypes DEF CallType
<1>6. ProtocolsAgree'
  <2> SUFFICES ASSUME NEW p \in Protocols \ intruded PROVE p \in started' <=> WillListen(p)'
    BY <1>1 DEF ProtocolsAgree
  <2>1. p \in started <=> WillListen(p)
    BY DEF OnTheWay, ProtocolsAgree
  <2>2. Answers' = Answers \cup {r} /\ \A m : Decides(m, p)' <=> Decides(m, p)
    BY <1>1, <1>2 DEF Decides, r
  <2>3. Decides(r, p) <=> ok /\ c = p /\ op \in {"start", "stop"}
    BY <1>3 DEF Decides
  <2>4. CASE Decides(r, p)
    <3>1. WillListen(p)' <=> op = "start"
      <4>1. \A m \in Answers' : ~(calls'[m.id].op = "start"
                                   /\ \A n \in Answers' : Decides(n, p)' => n.id <= m.id) \/ m = r
        BY <1>1, <1>3, <2>2, <2>4, OpenTypes
      <4>2. \A n \in Answers' : n.id <= r.id
        BY <1>1, <1>3, <2>2, OpenTypes
      <4> QED
        BY <1>1, <1>3, <2>2, <2>4, <4>1, <4>2 DEF WillListen
    <3>2. p \in started' <=> op = "start"
      BY <1>2, <2>3, <2>4 DEF Handled
    <3> QED
      BY <3>1, <3>2
  <2>5. CASE ~Decides(r, p)
    <3>1. WillListen(p)' <=> WillListen(p)
      BY <1>1, <2>2, <2>5 DEF WillListen
    <3>2. p \in started' <=> p \in started
      <4>1. CASE c # p
        BY <1>2, <1>5, <4>1 DEF Handled
      <4>2. CASE c = p
        <5>1. op \in {"start", "stop", "send"}
          BY <1>1, <4>2 DEF Told
        <5> QED
          BY <1>2, <2>3, <2>5, <4>2, <5>1 DEF Handled
      <4> QED
        BY <4>1, <4>2
    <3> QED
      BY <2>1, <3>1, <3>2
  <2> QED
    BY <2>4, <2>5
<1>7. TopicsAgree'
  <2> SUFFICES ASSUME NEW t \in Topics \ (listening \cup intruded)
               PROVE  \/ \E j \in Asks("unsubscribe", t)' : \A k \in Asks("subscribe", t)' : k < j
                      \/ t \notin started' /\ Asks("subscribe", t)' = {}
    BY <1>1 DEF TopicsAgree
  <2>1. \/ \E j \in Asks("unsubscribe", t) : \A k \in Asks("subscribe", t) : k < j
        \/ t \notin started /\ Asks("subscribe", t) = {}
    BY DEF OnTheWay, TopicsAgree
  <2>2. \A o : Asks(o, t)' = Asks(o, t) \ {i} /\ \A j \in Asks(o, t)' : i < j
    <3>1. i \notin Waiting'
      BY <1>1
    <3> QED
      BY <1>1, <3>1 DEF Asks
  <2>3. \A o : i \in Asks(o, t) <=> op = o /\ c = t
    BY <1>1 DEF Asks
  <2>4. \A o : Asks(o, t) \subseteq Nat
    BY <1>1, OpenTypes, CallNumbers DEF Asks
  <2>5. CASE \E j \in Asks("unsubscribe", t)' : \A k \in Asks("subscribe", t) : k < j
    BY <2>2, <2>5
  <2>6. CASE \A j \in Asks("unsubscribe", t)' : ~ \A k \in Asks("subscribe", t) : k < j
    <3>1. CASE t \notin started /\ Asks("subscribe", t) = {}
      <4>1. t \notin started'
        <5>1. ~(c = t /\ op \in {"start", "subscribe"})
          <6>1. c = t => op # "start"
            BY <1>1, ChannelsAssumption DEF Told
          <6> QED
            BY <2>3, <3>1, <6>1
        <5> QED
          BY <1>2, <1>5, <3>1, <5>1 DEF Handled
      <4> QED
        BY <2>2, <3>1, <4>1
    <3>2. CASE \E j \in Asks("unsubscribe", t) : \A k \in Asks("subscribe", t) : k < j
      <4>1. i \in Asks("unsubscribe", t) /\ \A k \in Asks("subscribe", t) : k < i
        BY <2>2, <2>6, <3>2
      <4>2. c = t /\ op = "unsubscribe"
        BY <2>3, <4>1
      <4>3. t \notin started'
        BY <1>2, <4>2 DEF Handled
      <4>4. Asks("subscribe", t)' = {}
        BY <1>1, <2>2, <2>4, <4>1
      <4> QED
        BY <4>3, <4>4
    <3> QED
      BY <2>1, <3>1, <3>2
  <2> QED
    BY <2>5, <2>6
<1> QED
  BY <1>1, <1>4, <1>6, <1>7 DEF OnTheWay

-----------------------------------------------------------------------------
(* The page handles a message                                              *)

LEMMA ReceivedWay ==
  ASSUME TypeOK, Open(session), OnTheWay, NEW s \in Sessions, s = session, HandleMessage(s)
  PROVE  LET m == Head(toClient[s]) IN
         /\ UNCHANGED <<session, calls, started, intruded, Waiting>>
         /\ m.type # "response" => Answers' = Answers
         /\ m.type = "response" => /\ m \in Answers /\ Answers = {m} \cup Answers'
                                   /\ \A n \in Answers' : m.id < n.id
         /\ InTurn'
<1> DEFINE q == toClient[s]  m == Head(q)  t == Tail(q)
<1>1. /\ q \in Seq(MessageType) /\ q # <<>>
      /\ toClient' = [toClient EXCEPT ![s] = t]
      /\ UNCHANGED <<session, calls, started, intruded, reply, toServer>>
  BY ReceivedFacts DEF serverVars, lateVars
<1>2. toClient'[s] = t
  BY <1>1 DEF TypeOK
<1>3. /\ Rising("response", q) /\ Rising("response", reply) /\ Increasing(toServer[session])
      /\ \A x \in Responses(q), y \in Responses(reply) : x.id < y.id
      /\ \A x \in Answers, i \in Waiting : x.id < i
      /\ Answers = Responses(q) \cup Responses(reply)
  BY DEF OnTheWay, InTurn, Answers
<1>4. /\ Rising("response", t) /\ Responses(t) \subseteq Responses(q)
      /\ m.type = "response" => m \in Responses(q) /\ \A x \in Responses(t) : m.id < x.id
  BY <1>1, <1>3, RisingTail DEF Responses
<1>5. Range(q) = {m} \cup Range(t)
  BY <1>1, TailFacts
<1> HIDE DEF m, t, q
<1>6. Responses(q) = IF m.type = "response" THEN {m} \cup Responses(t) ELSE Responses(t)
  BY <1>5 DEF Responses, Kind
<1>7. Answers' = Responses(t) \cup Responses(reply) /\ Waiting' = Waiting
  BY <1>1, <1>2 DEF Answers, Waiting
<1>8. InTurn'
  BY <1>1, <1>2, <1>3, <1>4, <1>7 DEF InTurn
<1> QED
  BY <1>1, <1>3, <1>4, <1>6, <1>7, <1>8 DEF m, q

LEMMA ReceiveAgrees ==
  ASSUME TypeOK, Open(session), Told, OnTheWay, NEW s \in Sessions, s = session, HandleMessage(s)
  PROVE  OnTheWay'
<1> DEFINE m == Head(toClient[s])  c == calls[m.id].chan  op == calls[m.id].op
<1>1. /\ UNCHANGED <<session, calls, started, intruded, Waiting>>
      /\ m.type # "response" => Answers' = Answers
      /\ m.type = "response" => /\ m \in Answers /\ Answers = {m} \cup Answers'
                                /\ \A n \in Answers' : m.id < n.id
      /\ InTurn'
  BY ReceivedWay
<1>2. \/ m.type = "response" /\ HandleResponse(m)
      \/ m.type # "response" /\ HandleRequest(m)
  BY ReceivedFacts
<1> HIDE DEF m
<1>3. CASE m.type # "response" /\ HandleRequest(m)
  <2>1. UNCHANGED <<pending, listening>>
    BY <1>3 DEF HandleRequest
  <2> QED
    BY <1>1, <1>3, <2>1, SameWay
<1>4. CASE m.type = "response" /\ HandleResponse(m)
  <2>0. /\ m \in Answers /\ Answers = {m} \cup Answers' /\ \A n \in Answers' : m.id < n.id
        /\ \A n \in Answers : n.id \in Nat
    BY <1>1, <1>4, OpenTypes
  <2>1. (\A n \in Answers : Owed(n.id)) /\ (\A j \in Waiting : Owed(j))
    BY DEF OnTheWay, AllOwed
  <2>2. m.id \in pending /\ m.id \in DOMAIN calls /\ c \in Channels
    BY <2>0, <2>1, CallNumbers DEF Owed
  <2>3. /\ pending' = pending \ {m.id}
        /\ listening' = IF m.ok /\ op = "start" THEN listening \cup {c}
                        ELSE IF m.ok /\ op = "stop" THEN listening \ {c} ELSE listening
    BY <1>4, <2>2 DEF HandleResponse
  <2>4. AllOwed'
    <3>1. \A n \in Answers' : n.id # m.id /\ n \in Answers
      BY <2>0
    <3>2. \A j \in Waiting : j # m.id
      <4>1. \A j \in Waiting : m.id < j /\ j \in Nat
        BY <2>0, OpenTypes, CallNumbers DEF OnTheWay, InTurn
      <4> QED
        BY <2>0, <4>1
    <3> QED
      BY <1>1, <2>1, <2>3, <3>1, <3>2 DEF AllOwed, Owed
  <2>5. ProtocolsAgree'
    <3> SUFFICES ASSUME NEW p \in Protocols \ intruded PROVE p \in started <=> WillListen(p)'
      BY <1>1 DEF ProtocolsAgree
    <3>1. p \in started <=> WillListen(p)
      BY DEF OnTheWay, ProtocolsAgree
    <3>2. \A n : Decides(n, p)' <=> Decides(n, p)
      BY <1>1 DEF Decides
    <3>3. Decides(m, p) <=> m.ok /\ c = p /\ op \in {"start", "stop"}
      BY DEF Decides
    <3>4. \A n \in Answers' : m.id < n.id /\ n.id \in Nat /\ m.id \in Nat
      BY <2>0
    <3>5. CASE ~Decides(m, p)
      <4>1. p \in listening' <=> p \in listening
        BY <2>3, <3>3, <3>5
      <4> QED
        BY <1>1, <2>0, <3>1, <3>2, <3>5, <4>1 DEF WillListen
    <3>6. CASE Decides(m, p) /\ \E n \in Answers' : Decides(n, p)
      <4>1. \A k \in Answers : (\A n \in Answers : Decides(n, p) => n.id <= k.id) => k \in Answers'
        BY <2>0, <3>4, <3>6
      <4>2. \A k \in Answers' : (\A n \in Answers' : Decides(n, p) => n.id <= k.id)
                                <=> (\A n \in Answers : Decides(n, p) => n.id <= k.id)
        BY <2>0, <3>4
      <4>3. \E n \in Answers : Decides(n, p)
        BY <2>0, <3>6
      <4>4. WillListen(p) <=>
              \E k \in Answers : /\ Decides(k, p) /\ calls[k.id].op = "start"
                                 /\ \A n \in Answers : Decides(n, p) => n.id <= k.id
        BY <4>3 DEF WillListen
      <4>5. WillListen(p)' <=>
              \E k \in Answers' : /\ Decides(k, p) /\ calls[k.id].op = "start"
                                  /\ \A n \in Answers' : Decides(n, p) => n.id <= k.id
        BY <1>1, <3>2, <3>6 DEF WillListen
      <4> QED
        BY <2>0, <3>1, <4>1, <4>2, <4>4, <4>5
    <3>7. CASE Decides(m, p) /\ \A n \in Answers' : ~Decides(n, p)
      <4>1. WillListen(p) <=> op = "start"
        BY <2>0, <3>7 DEF WillListen
      <4>2. WillListen(p)' <=> p \in listening'
        BY <3>2, <3>7 DEF WillListen
      <4>3. p \in listening' <=> op = "start"
        BY <2>3, <3>3, <3>7
      <4> QED
        BY <3>1, <4>1, <4>2, <4>3
    <3> QED
      BY <3>5, <3>6, <3>7
  <2>6. TopicsAgree'
    <3>1. \A t \in Topics : t \in listening' <=> t \in listening
      <4>1. op \in {"start", "stop"} => c \in Protocols
        BY <2>2 DEF Told
      <4> QED
        BY <2>3, <4>1, ChannelsAssumption
    <3>2. \A o, t : Asks(o, t)' = Asks(o, t)
      BY <1>1 DEF Asks
    <3> QED
      BY <1>1, <3>1, <3>2 DEF OnTheWay, TopicsAgree
  <2> QED
    BY <1>1, <2>4, <2>5, <2>6 DEF OnTheWay
<1> QED
  BY <1>2, <1>3, <1>4

-----------------------------------------------------------------------------
(* The page makes a request                                                *)

LEMMA AskedWay ==
  ASSUME TypeOK, Open(session), OnTheWay,
         NEW op \in {"start", "stop", "send", "subscribe", "unsubscribe", "ask"},
         NEW c \in Channels, SendRequest(op, c)
  PROVE  /\ UNCHANGED <<session, started, intruded, Answers>>
         /\ pending' = pending \cup {NextId} /\ Waiting' = Waiting \cup {NextId}
         /\ \A i \in DOMAIN calls : calls'[i] = calls[i]
         /\ calls'[NextId] = [op |-> op, chan |-> c, session |-> session]
         /\ InTurn'
<1> DEFINE q == toServer[session]  a == Append(q, NextId)
<1>1. /\ NextId \in Ids /\ pending' = pending \cup {NextId}
      /\ \A i \in DOMAIN calls : calls'[i] = calls[i]
      /\ calls'[NextId] = [op |-> op, chan |-> c, session |-> session]
  BY SendRequestFacts
<1>2. UNCHANGED <<session, toClient, reply, started, intruded>>
  BY DEF SendRequest, serverVars, lateVars
<1>3. /\ q \in Seq(Ids) /\ session \in Sessions /\ Waiting \subseteq DOMAIN calls
      /\ \A m \in Answers : m.id \in Nat
  BY OpenTypes
<1>4. toServer'[session] = a
  BY <1>3 DEF SendRequest, TypeOK
<1>5. Increasing(q) /\ (\A m \in Answers, i \in Waiting : m.id < i)
      /\ \A m \in Answers : m.id \in pending
  BY DEF OnTheWay, InTurn, AllOwed, Owed
<1>6. /\ Len(q) \in Nat /\ DOMAIN q = 1..Len(q) /\ DOMAIN a = 1 .. Len(q) + 1
      /\ \A i \in 1..Len(q) : a[i] = q[i]
      /\ a[Len(q) + 1] = NextId /\ Range(a) = Range(q) \cup {NextId}
  BY <1>1, <1>3, AppendFacts
<1>7. \A i \in DOMAIN q : q[i] \in Waiting /\ q[i] < NextId
  <2>1. \A i \in DOMAIN q : q[i] \in Waiting
    BY DEF Waiting, Range
  <2> QED
    BY <1>3, <2>1, CallNumbers
<1>8. UNCHANGED Answers /\ Waiting' = Waiting \cup {NextId}
  BY <1>2, <1>4, <1>6 DEF Answers, Waiting
<1> HIDE DEF a, q
<1>9. Increasing(a)
  <2> SUFFICES ASSUME NEW i \in DOMAIN a, NEW j \in DOMAIN a, i < j PROVE a[i] < a[j]
    BY DEF Increasing
  <2>1. i \in DOMAIN q /\ a[i] = q[i]
    BY <1>6
  <2>2. CASE j = Len(q) + 1
    BY <1>6, <1>7, <2>1, <2>2
  <2>3. CASE j # Len(q) + 1
    <3>1. j \in DOMAIN q /\ a[j] = q[j]
      BY <1>6, <2>3
    <3> QED
      BY <1>5, <2>1, <3>1 DEF Increasing
  <2> QED
    BY <2>2, <2>3
<1>10. \A m \in Answers : m.id < NextId
  BY <1>5, CallNumbers
<1>11. InTurn'
  BY <1>2, <1>4, <1>5, <1>8, <1>9, <1>10 DEF OnTheWay, InTurn
<1> QED
  BY <1>1, <1>2, <1>8, <1>11

LEMMA AskAgrees ==
  ASSUME TypeOK, Open(session), OnTheWay,
         NEW op \in {"start", "stop", "send", "subscribe", "unsubscribe", "ask"},
         NEW c \in Channels, SendRequest(op, c),
         c \in Protocols <=> op \in {"start", "stop", "send"},
         listening' = IF op = "subscribe" THEN listening \cup {c}
                      ELSE IF op = "unsubscribe" THEN listening \ {c} ELSE listening
  PROVE  OnTheWay'
<1>1. /\ UNCHANGED <<session, started, intruded, Answers>>
      /\ pending' = pending \cup {NextId} /\ Waiting' = Waiting \cup {NextId}
      /\ \A i \in DOMAIN calls : calls'[i] = calls[i]
      /\ calls'[NextId] = [op |-> op, chan |-> c, session |-> session]
      /\ InTurn'
  BY AskedWay
<1>2. (\A m \in Answers : Owed(m.id)) /\ (\A j \in Waiting : Owed(j))
  BY DEF OnTheWay, AllOwed
<1>3. /\ pending \subseteq DOMAIN calls /\ NextId \notin DOMAIN calls /\ NextId \in Nat
      /\ \A i \in DOMAIN calls : i < NextId
  BY CallNumbers
<1>4. AllOwed'
  BY <1>1, <1>2, <1>3 DEF AllOwed, Owed
<1>5. ProtocolsAgree'
  <2>1. \A p \in Protocols : p \in listening' <=> p \in listening
    OBVIOUS
  <2>2. \A m \in Answers : calls'[m.id] = calls[m.id]
    BY <1>1, <1>2, <1>3 DEF Owed
  <2> QED
    BY <1>1, <2>1, <2>2 DEF OnTheWay, ProtocolsAgree, WillListen, Decides
<1>6. TopicsAgree'
  <2> SUFFICES ASSUME NEW t \in Topics, t \notin listening' \cup intruded
               PROVE  \/ \E j \in Asks("unsubscribe", t)' : \A k \in Asks("subscribe", t)' : k < j
                      \/ t \notin started' /\ Asks("subscribe", t)' = {}
    BY <1>1 DEF TopicsAgree
  <2>1. \A o : Asks(o, t)' = IF op = o /\ c = t THEN Asks(o, t) \cup {NextId} ELSE Asks(o, t)
    <3>1. \A i \in Waiting : i \in DOMAIN calls /\ calls'[i] = calls[i]
      BY <1>1, OpenTypes
    <3> QED
      BY <1>1, <3>1 DEF Asks
  <2>2. CASE c = t /\ op = "unsubscribe"
    <3>1. NextId \in Asks("unsubscribe", t)' /\ Asks("subscribe", t)' = Asks("subscribe", t)
      BY <2>1, <2>2
    <3>2. \A k \in Asks("subscribe", t) : k < NextId
      BY <1>3, OpenTypes DEF Asks
    <3> QED
      BY <3>1, <3>2
  <2>3. CASE c # t \/ op \notin {"subscribe", "unsubscribe"}
    <3>1. t \notin listening
      BY <2>3
    <3>2. Asks("subscribe", t)' = Asks("subscribe", t) /\ Asks("unsubscribe", t)' = Asks("unsubscribe", t)
      BY <2>1, <2>3
    <3> QED
      BY <1>1, <3>1, <3>2 DEF OnTheWay, TopicsAgree
  <2>4. CASE c = t /\ op = "subscribe"
    BY <2>4
  <2> QED
    BY <2>2, <2>3, <2>4
<1> QED
  BY <1>1, <1>4, <1>5, <1>6 DEF OnTheWay

\* A call of the page, with or without a request.
LEMMA CallCases ==
  ASSUME Call
  PROVE  \/ \E op \in {"start", "stop", "send", "subscribe", "unsubscribe", "ask"}, c \in Channels :
              /\ SendRequest(op, c)
              /\ c \in Protocols <=> op \in {"start", "stop", "send"}
              /\ listening' = IF op = "subscribe" THEN listening \cup {c}
                              ELSE IF op = "unsubscribe" THEN listening \ {c} ELSE listening
         \/ ~CanSend /\ UNCHANGED <<session, sock, calls>>
<1> DEFINE Ops == {"start", "stop", "send", "subscribe", "unsubscribe", "ask"}
           Asked(op, c) ==
             /\ SendRequest(op, c)
             /\ c \in Protocols <=> op \in {"start", "stop", "send"}
             /\ listening' = IF op = "subscribe" THEN listening \cup {c}
                             ELSE IF op = "unsubscribe" THEN listening \ {c} ELSE listening
<1>1. ASSUME NEW p \in Protocols, Start(p) \/ Stop(p) \/ Send(p)
      PROVE  \E op \in Ops, c \in Channels : Asked(op, c)
  <2>1. p \in Channels
    BY DEF Channels
  <2>2. Asked("start", p) \/ Asked("stop", p) \/ Asked("send", p)
    BY <1>1 DEF Start, Stop, Send
  <2> QED
    BY <2>1, <2>2
<1>2. ASSUME NEW t \in Topics, Subscribe(t) \/ Unsubscribe(t)
      PROVE  \/ \E op \in Ops, c \in Channels : Asked(op, c)
             \/ ~CanSend /\ UNCHANGED <<session, sock, calls>>
  <2>1. t \in Channels /\ t \notin Protocols
    BY ChannelsAssumption DEF Channels
  <2>2. \/ Asked("subscribe", t) \/ Asked("unsubscribe", t)
        \/ ~CanSend /\ UNCHANGED <<session, sock, calls>>
    BY <1>2, <2>1 DEF Subscribe, Unsubscribe, Request, wireVars
  <2> QED
    BY <2>1, <2>2
<1>3. ASSUME NEW r \in running, NEW t \in Topics, ListenerAsks(r, t)
      PROVE  \E op \in Ops, c \in Channels : Asked(op, c)
  <2>1. t \in Channels /\ t \notin Protocols
    BY ChannelsAssumption DEF Channels
  <2>2. Asked("ask", t)
    BY <1>3, <2>1 DEF ListenerAsks
  <2> QED
    BY <2>1, <2>2
<1> QED
  BY <1>1, <1>2, <1>3 DEF Call

LEMMA ToldStep == ASSUME TypeOK, Told, [Next]_vars PROVE Told'
<1>1. CASE calls' = calls
  BY <1>1 DEF Told
<1>2. CASE Call
  <2>1. ASSUME NEW op \in {"start", "stop", "send", "subscribe", "unsubscribe", "ask"},
               NEW c \in Channels, SendRequest(op, c),
               c \in Protocols <=> op \in {"start", "stop", "send"}
        PROVE  Told'
    <3>1. /\ DOMAIN calls' = 1..NextId /\ DOMAIN calls = 1..Len(calls) /\ NextId = Len(calls) + 1
          /\ \A i \in DOMAIN calls : calls'[i] = calls[i]
          /\ calls'[NextId] = [op |-> op, chan |-> c, session |-> session]
      BY <2>1, SendRequestFacts
    <3>2. \A i \in DOMAIN calls' : i \in DOMAIN calls \/ i = NextId
      BY <3>1, CallNumbers
    <3>3. \A i \in DOMAIN calls : calls'[i].chan \in Protocols <=> calls'[i].op \in {"start", "stop", "send"}
      BY <3>1 DEF Told
    <3>4. calls'[NextId].chan = c /\ calls'[NextId].op = op
      BY <3>1
    <3>5. calls'[NextId].chan \in Protocols <=> calls'[NextId].op \in {"start", "stop", "send"}
      BY <2>1, <3>4
    <3> QED
      BY <3>2, <3>3, <3>5 DEF Told
  <2>2. CASE ~CanSend /\ UNCHANGED <<session, sock, calls>>
    BY <1>1, <2>2
  <2> QED
    BY <1>2, <2>1, <2>2, CallCases
<1>3. ASSUME ~Call PROVE calls' = calls
  BY <1>3 DEF Next, Connect, Close, Returns, ListenerReturns, Notify, HandleClientMessage, SendMessage,
              HandleMessage, CloseEvent, HandleClose, SocketLost, LateRequest, vars, pageVars
<1> QED
  BY <1>1, <1>2, <1>3

-----------------------------------------------------------------------------
(* Sessions                                                                *)

LEMMA ConnectAgrees ==
  ASSUME TypeOK, Wires, ~Hasty, Cleared, Connect
  PROVE  OnTheWay'
<1>1. session \in 0..MaxSessions /\ MaxSessions \in Nat
  BY BoundsAssumption DEF TypeOK
<1>2. session' = session + 1 /\ session' \in Sessions
  BY <1>1 DEF Connect, Sessions
<1>3. sock[session'] = "unused"
  BY <1>1, <1>2 DEF Wires, Sessions
<1>4. toServer'[session'] = <<>> /\ toClient'[session'] = <<>> /\ reply' = <<>>
  BY <1>2, <1>3 DEF Connect, Wires
<1>5. Answers' = {} /\ Waiting' = {}
  BY <1>4, EmptyFacts DEF Answers, Waiting, Responses, Kind
<1>6. InTurn'
  BY <1>4, <1>5, EmptyFacts DEF InTurn, Rising, Increasing, Responses, Kind
<1>7. AllOwed'
  BY <1>5 DEF AllOwed
<1>8. started' = {} /\ listening' = listening
  BY DEF Connect, pageVars
<1>9. listening \cap Protocols = {}
  <2>1. Ended
    BY <1>1 DEF Connect, Ended, Sessions
  <2> QED
    BY <2>1 DEF Cleared
<1>10. ProtocolsAgree'
  BY <1>5, <1>8, <1>9 DEF ProtocolsAgree, WillListen
<1>11. TopicsAgree'
  BY <1>5, <1>8 DEF TopicsAgree, Asks
<1> QED
  BY <1>6, <1>7, <1>10, <1>11 DEF OnTheWay

\* Of the other steps, those that leave the socket open change nothing of it.
LEMMA AgreeStep ==
  ASSUME TypeOK, Wires, ~Hasty, Cleared, AgreeInv, [Next]_vars
  PROVE  AgreeInv'
<1> USE DEF pageVars, queueVars, serverVars, lateVars, wireVars
<1>0. Told'
  BY ToldStep DEF AgreeInv
<1>1. SUFFICES ASSUME Open(session)' PROVE OnTheWay'
  BY <1>0, <1>1 DEF AgreeInv
<1>2. CASE Connect
  BY <1>2, ConnectAgrees
<1>3. ASSUME UNCHANGED <<session, sock>> PROVE Open(session) /\ OnTheWay
  BY <1>1, <1>3 DEF AgreeInv, Open
<1>4. Told
  BY DEF AgreeInv
<1>5. CASE Close
  <2>1. session \in Sessions
    BY <1>5 DEF Close, CanSend, TypeOK, Sessions
  <2> QED
    BY <1>1, <1>5, <2>1 DEF Close, Open, TypeOK
<1>6. CASE Call
  <2>1. ASSUME NEW op \in {"start", "stop", "send", "subscribe", "unsubscribe", "ask"},
               NEW c \in Channels, SendRequest(op, c),
               c \in Protocols <=> op \in {"start", "stop", "send"},
               listening' = IF op = "subscribe" THEN listening \cup {c}
                            ELSE IF op = "unsubscribe" THEN listening \ {c} ELSE listening
        PROVE  OnTheWay'
    <3>1. Open(session) /\ OnTheWay
      BY <1>3, <2>1 DEF SendRequest
    <3> QED
      BY <2>1, <3>1, AskAgrees
  <2>2. CASE ~CanSend /\ UNCHANGED <<session, sock, calls>>
    BY <1>3, <2>2 DEF Open, CanSend
  <2> QED
    BY <1>6, <2>1, <2>2, CallCases
<1>7. CASE Returns \/ UNCHANGED vars
  <2>1. UNCHANGED <<session, sock, calls, pending, listening, started, intruded, toServer, toClient, reply>>
    BY <1>7 DEF Returns, ListenerReturns, vars
  <2>2. Open(session) /\ OnTheWay
    BY <1>3, <2>1
  <2>3. UNCHANGED <<Answers, Waiting>>
    BY <2>1 DEF Answers, Waiting
  <2>4. InTurn'
    BY <2>1, <2>2, <2>3 DEF OnTheWay, InTurn
  <2> QED
    BY <2>1, <2>2, <2>3, <2>4, SameWay
<1>8. ASSUME NEW r \in Sessions, NEW c \in Channels, Notify(r, c) PROVE OnTheWay'
  BY <1>3, <1>8, NotifyAgrees DEF Notify
<1>9. ASSUME NEW s \in Sessions, HandleClientMessage(s) PROVE OnTheWay'
  <2>1. s = session
    BY <1>9, Current DEF HandleClientMessage, Open
  <2>2. Open(session) /\ OnTheWay
    BY <1>3, <1>9 DEF HandleClientMessage
  <2> QED
    BY <1>4, <1>9, <2>1, <2>2, HandleAgrees
<1>10. ASSUME NEW s \in Sessions, SendMessage(s) PROVE OnTheWay'
  <2>1. s = session
    BY <1>10, Current DEF SendMessage, Open
  <2>2. Open(session) /\ OnTheWay
    BY <1>3, <1>10 DEF SendMessage
  <2> QED
    BY <1>10, <2>1, <2>2, SendMessageAgrees
<1>11. ASSUME NEW s \in Sessions, HandleMessage(s) PROVE OnTheWay'
  <2>1. s = session
    BY <1>11, Current DEF HandleMessage
  <2>2. Open(session) /\ OnTheWay
    BY <1>3, <1>11 DEF HandleMessage
  <2> QED
    BY <1>4, <1>11, <2>1, <2>2, ReceiveAgrees
<1>12. ASSUME NEW s \in Sessions, CloseEvent(s) PROVE OnTheWay'
  <2>1. s = session
    BY <1>12, Current DEF CloseEvent
  <2> QED
    BY <1>1, <1>12, <2>1 DEF CloseEvent, Open, TypeOK
<1>13. ASSUME NEW s \in Sessions, SocketLost(s) PROVE OnTheWay'
  <2>1. s = session
    BY <1>13, Current DEF SocketLost, Open
  <2> QED
    BY <1>1, <1>13, <2>1 DEF SocketLost, Open, TypeOK
<1>14. ASSUME NEW i \in late, LateRequest(i) PROVE OnTheWay'
  BY <1>3, <1>14, LateAgrees DEF LateRequest
<1> QED
  BY <1>2, <1>5, <1>6, <1>7, <1>8, <1>9, <1>10, <1>11, <1>12, <1>13, <1>14 DEF Next

LEMMA AgreeInit == Init => AgreeInv
BY EmptyFacts DEF Init, AgreeInv, Told, Open

\* When all is answered, nothing is on its way, and page and server agree.
LEMMA AgreeEnds == TypeOK /\ AgreeInv => Agreement
<1> SUFFICES ASSUME TypeOK, AgreeInv, Open(session), \A i \in pending : calls[i].session # session,
                    NEW c \in Channels \ intruded
             PROVE  /\ c \in started => c \in listening
                    /\ c \in listening \cap Protocols => c \in started
  BY DEF Agreement
<1>1. OnTheWay
  BY DEF AgreeInv
<1>2. Answers = {} /\ Waiting = {}
  BY <1>1 DEF OnTheWay, AllOwed, Owed
<1>3. c \in Protocols => (c \in started <=> c \in listening)
  BY <1>1, <1>2 DEF OnTheWay, ProtocolsAgree, WillListen
<1>4. c \in Topics \ listening => c \notin started
  BY <1>1, <1>2 DEF OnTheWay, TopicsAgree, Asks
<1> QED
  BY <1>3, <1>4 DEF Channels

\* When no request of the session is outstanding, page and server agree on what is started,
\* if the page connects again only after the close event, but for the channels on which late
\* requests of earlier sessions have worked on the present peer.
THEOREM AgreementCorrect == ASSUME ~Hasty PROVE Spec => []Agreement
<1>1. SocketsInv /\ SocketsInv' /\ AgreeInv /\ [Next]_vars => AgreeInv'
  BY AgreeStep DEF SocketsInv
<1>2. SocketsInv /\ AgreeInv => Agreement
  BY AgreeEnds DEF SocketsInv
<1> QED
  BY <1>1, <1>2, AgreeInit, SocketsCorrect, PTL DEF Spec

-----------------------------------------------------------------------------
(* Messages that find no listener                                          *)

\* The answers that the page will hear, unless the socket is closed: on a lost socket the
\* server sends no more.
Coming == Responses(toClient[session]) \cup IF Open(session) THEN Responses(reply) ELSE {}

\* Whether the page, which listens to L now, listens to c when it has handled the answers A to
\* requests in C.
Settles(C, m, c) == m.ok /\ C[m.id].chan = c /\ C[m.id].op \in {"start", "stop"}
Listens(C, L, A, c) ==
  \/ c \in L /\ \A m \in A : ~Settles(C, m, c)
  \/ \E m \in A : /\ Settles(C, m, c) /\ C[m.id].op = "start"
                  /\ \A n \in A : Settles(C, n, c) => n.id <= m.id
Before(A, i) == {m \in A : m.id < i}

\* A start is refused only when the page has a listener by the time it hears of it.
RefusedKnows ==
  \A m \in Coming : calls[m.id].op = "start" /\ ~m.ok =>
    \/ calls[m.id].chan \in intruded
    \/ Listens(calls, listening, Before(Coming, m.id), calls[m.id].chan)

\* What the page has asked for in this session, and the starts that are not answered.
Asked(c) == \E i \in DOMAIN calls : /\ calls[i].op \in {"start", "subscribe"}
                                    /\ calls[i].chan = c /\ calls[i].session = session
Starting(c) == \E i \in DOMAIN calls : Owed(i) /\ calls[i].op = "start" /\ calls[i].chan = c

\* What HasLeft says of the messages of this session on channel c.
Left(c) ==
  \/ ~CanSend
  \/ \E i \in DOMAIN calls :
       /\ calls[i].op \in {"stop", "unsubscribe"} /\ calls[i].chan = c
       /\ calls[i].session = session
       /\ \A j \in i + 1 .. Len(calls) :
            calls[j].chan = c => calls[j].op \notin {"start", "subscribe"}

\* What was asked for has a listener, or was left, or is still waited for.
AskedStands ==
  \A c \in Channels \ intruded : Asked(c) => c \in listening \/ Left(c) \/ Starting(c)

\* The data of this session comes only on channels that were asked for.
IsWanted(m) == m.type = "data" /\ m.life = session => m.chan \in intruded \/ Asked(m.chan)
DataAsked ==
  /\ \A c \in opened[session] \ intruded : Asked(c)
  /\ \A m \in Range(queue) \cup Range(toClient[session]) : IsWanted(m)

\* Requests are settled in the order of their numbers: an answer is that of the first request
\* that is not settled, and what is not settled is with the server or on its way, until the
\* socket is lost.
InSequence == \A i, j \in DOMAIN calls : i < j /\ Owed(i) => Owed(j)
Accounted  == \A i \in DOMAIN calls : Owed(i) => i \in Waiting \/ \E m \in Coming : m.id = i
ComesInOrder ==
  /\ Rising("response", toClient[session])
  /\ \A m \in Coming : Owed(m.id)
  /\ \A m \in Coming, i \in DOMAIN calls : Owed(i) /\ i < m.id => \E n \in Coming : n.id = i

ListenersStand ==
  /\ RefusedKnows /\ AskedStands /\ DataAsked /\ InSequence /\ ComesInOrder
  /\ Open(session) => Accounted

\* No request is of a later session, and no later life has opened anything.
Dated ==
  /\ \A i \in DOMAIN calls : calls[i].session <= session
  /\ \A s \in Sessions : s > session => opened[s] = {}

ListenInv == Dated /\ (CanSend => ListenersStand)

LEMMA ComingOpen ==
  Open(session) => Coming = Answers /\ \A c : WillListen(c) <=> Listens(calls, listening, Answers, c)
BY DEF Coming, Answers, WillListen, Decides, Listens, Settles

LEMMA OwedCalls == TypeOK => \A i : Owed(i) => i \in DOMAIN calls /\ i \in Nat
BY CallNumbers DEF Owed

\* On an open socket the order follows from that of requests and answers.
LEMMA OpenComes == TypeOK /\ Open(session) /\ OnTheWay /\ Accounted => ComesInOrder
<1> SUFFICES ASSUME TypeOK, Open(session), OnTheWay, Accounted PROVE ComesInOrder
  OBVIOUS
<1>1. Coming = Answers /\ (\A m \in Answers : Owed(m.id)) /\ Rising("response", toClient[session])
  BY ComingOpen DEF OnTheWay, AllOwed, InTurn
<1>2. ASSUME NEW m \in Coming, NEW i \in DOMAIN calls, Owed(i), i < m.id
      PROVE  \E n \in Coming : n.id = i
  <2>1. i \in Nat /\ m.id \in Nat
    BY <1>1, <1>2, OwedCalls, OpenTypes
  <2>2. i \notin Waiting
    BY <1>1, <1>2, <2>1 DEF OnTheWay, InTurn
  <2> QED
    BY <1>2, <2>2 DEF Accounted
<1> QED
  BY <1>1, <1>2 DEF ComesInOrder

\* Steps that change nothing of it but what is queued and on its way, and the channels on
\* which late requests have worked.
LEMMA SameListeners ==
  ASSUME ListenersStand, Rising("response", toClient[session])',
         UNCHANGED <<session, sock, calls, pending, listening, toServer, Coming>>,
         intruded \subseteq intruded', opened'[session] \subseteq opened[session] \cup intruded',
         \A m \in Range(queue') \cup Range(toClient'[session]) : IsWanted(m)
  PROVE  ListenersStand'
<1>1. \A c : (Asked(c)' <=> Asked(c)) /\ (Left(c)' <=> Left(c)) /\ (Starting(c)' <=> Starting(c))
  BY DEF Asked, Left, CanSend, Starting, Owed
<1>2. AskedStands'
  BY <1>1 DEF ListenersStand, AskedStands
<1>3. DataAsked'
  <2>1. \A m : IsWanted(m) => IsWanted(m)'
    BY <1>1 DEF IsWanted
  <2> QED
    BY <1>1, <2>1 DEF ListenersStand, DataAsked
<1>4. RefusedKnows'
  BY DEF ListenersStand, RefusedKnows
<1>5. InSequence' /\ ComesInOrder'
  BY DEF ListenersStand, InSequence, ComesInOrder, Owed
<1>6. Open(session)' => Accounted'
  BY DEF ListenersStand, Accounted, Open, Owed, Waiting
<1> QED
  BY <1>2, <1>3, <1>4, <1>5, <1>6 DEF ListenersStand

\* The page makes a request.
LEMMA RequestListeners ==
  ASSUME TypeOK, Told, ListenersStand,
         NEW op \in {"start", "stop", "send", "subscribe", "unsubscribe", "ask"},
         NEW c \in Channels, SendRequest(op, c),
         c \in Protocols <=> op \in {"start", "stop", "send"},
         listening' = IF op = "subscribe" THEN listening \cup {c}
                      ELSE IF op = "unsubscribe" THEN listening \ {c} ELSE listening,
         UNCHANGED <<queue, opened, intruded>>
  PROVE  ListenersStand'
<1>1. /\ CanSend /\ session \in Sessions
      /\ DOMAIN calls = 1..Len(calls) /\ DOMAIN calls' = 1..NextId /\ NextId = Len(calls) + 1
      /\ \A i \in DOMAIN calls : calls'[i] = calls[i]
      /\ calls'[NextId] = [op |-> op, chan |-> c, session |-> session]
      /\ pending' = pending \cup {NextId}
      /\ sock[session] = "open" => Range(toServer'[session]) = Range(toServer[session]) \cup {NextId}
  BY SendRequestFacts
<1>2. UNCHANGED <<session, sock, toClient, reply>> /\ Coming' = Coming
  BY DEF SendRequest, serverVars, Coming, Open
<1>3. /\ Len(calls) \in Nat /\ pending \subseteq DOMAIN calls /\ NextId \notin DOMAIN calls
      /\ NextId \in Nat /\ DOMAIN calls \subseteq Nat /\ \A i \in DOMAIN calls : i < NextId
  BY CallNumbers
<1>4. DOMAIN calls' = DOMAIN calls \cup {NextId} /\ Len(calls') = NextId
  <2>1. Len(calls') = NextId
    BY SendRequestFacts
  <2> QED
    BY <1>1, <1>3, <2>1
<1>5. /\ \A i \in DOMAIN calls : Owed(i)' <=> Owed(i)
      /\ \A i : i = NextId => Owed(i)'
      /\ \A i : Owed(i) => i \in DOMAIN calls
      /\ \A i : Owed(i)' => i \in DOMAIN calls'
  BY <1>1, <1>2, <1>3, <1>4 DEF Owed
<1>6. \A m \in Coming : m.id \in DOMAIN calls /\ calls'[m.id] = calls[m.id]
  BY <1>1, <1>5 DEF ListenersStand, ComesInOrder
<1> HIDE DEF NextId
<1>7. InSequence'
  <2> SUFFICES ASSUME NEW i \in DOMAIN calls', NEW j \in DOMAIN calls', i < j, Owed(i)' PROVE Owed(j)'
    BY DEF InSequence
  <2>1. CASE j = NextId
    BY <1>5, <2>1
  <2>2. CASE j # NextId
    <3>1. j \in DOMAIN calls /\ i \in DOMAIN calls
      BY <1>1, <1>3, <1>4, <2>2
    <3> QED
      BY <1>5, <3>1 DEF ListenersStand, InSequence
  <2> QED
    BY <2>1, <2>2
<1>8. ComesInOrder'
  <2>1. ASSUME NEW m \in Coming, NEW i \in DOMAIN calls', Owed(i)', i < m.id
        PROVE  \E n \in Coming : n.id = i
    <3>1. i \in DOMAIN calls
      BY <1>1, <1>3, <1>4, <1>6, <2>1
    <3> QED
      BY <1>5, <2>1, <3>1 DEF ListenersStand, ComesInOrder
  <2> QED
    BY <1>2, <1>5, <1>6, <2>1 DEF ListenersStand, ComesInOrder
<1>9. ASSUME Open(session)' PROVE Accounted'
  <2>1. Open(session) /\ sock[session] = "open"
    BY <1>2, <1>9 DEF Open
  <2>2. Waiting' = Waiting \cup {NextId}
    BY <1>1, <1>2, <2>1 DEF Waiting
  <2> QED
    BY <1>2, <1>4, <1>5, <2>1, <2>2 DEF ListenersStand, Accounted
<1>10. RefusedKnows'
  <2> SUFFICES ASSUME NEW m \in Coming, calls'[m.id].op = "start", ~m.ok
               PROVE  \/ calls'[m.id].chan \in intruded
                      \/ Listens(calls', listening', Before(Coming, m.id), calls'[m.id].chan)
    BY <1>2 DEF RefusedKnows
  <2> DEFINE p == calls[m.id].chan  A == Before(Coming, m.id)
  <2>1. calls[m.id].op = "start" /\ calls'[m.id] = calls[m.id] /\ p \in Protocols
    BY <1>6 DEF Told
  <2>2. p \in intruded \/ Listens(calls, listening, A, p)
    BY <2>1 DEF ListenersStand, RefusedKnows
  <2>3. A \subseteq Coming
    BY DEF Before
  <2>4. p \in listening' <=> p \in listening
    BY <2>1
  <2> HIDE DEF p, A
  <2>5. \A n \in A : calls'[n.id] = calls[n.id]
    BY <1>6, <2>3
  <2>6. p \in intruded \/ Listens(calls', listening', A, p)
    BY <2>2, <2>4, <2>5 DEF Listens, Settles
  <2> QED
    BY <2>1, <2>6 DEF p, A
<1>11. \A d : Asked(d) => Asked(d)'
  BY <1>1, <1>2, <1>4 DEF Asked
<1>12. DataAsked'
  BY <1>2, <1>11 DEF ListenersStand, DataAsked, IsWanted
<1>13. AskedStands'
  <2> SUFFICES ASSUME NEW d \in Channels \ intruded, Asked(d)'
               PROVE  d \in listening' \/ Left(d)' \/ Starting(d)'
    BY DEF AskedStands
  <2>1. CASE d = c /\ op = "start"
    <3>1. calls'[NextId].op = "start" /\ calls'[NextId].chan = d
      BY <1>1, <2>1
    <3> QED
      BY <1>4, <1>5, <3>1 DEF Starting
  <2>2. CASE d = c /\ op = "subscribe"
    BY <2>2
  <2>3. CASE d = c /\ op \in {"stop", "unsubscribe"}
    <3>1. /\ NextId \in DOMAIN calls' /\ NextId + 1 .. Len(calls') = {}
          /\ calls'[NextId].op \in {"stop", "unsubscribe"} /\ calls'[NextId].chan = d
          /\ calls'[NextId].session = session'
      BY <1>1, <1>2, <1>3, <1>4, <2>3
    <3> QED
      BY <3>1 DEF Left
  <2>4. CASE d # c \/ op \in {"send", "ask"}
    <3>1. calls'[NextId].chan = d => calls'[NextId].op \notin {"start", "subscribe"}
      BY <1>1, <2>4
    <3>2. Asked(d)
      BY <1>1, <1>2, <1>4, <3>1 DEF Asked
    <3>3. d \in listening' <=> d \in listening
      BY <2>4
    <3>4. CASE Left(d)
      <4>1. PICK i \in DOMAIN calls :
              /\ calls[i].op \in {"stop", "unsubscribe"} /\ calls[i].chan = d
              /\ calls[i].session = session
              /\ \A j \in i + 1 .. Len(calls) :
                   calls[j].chan = d => calls[j].op \notin {"start", "subscribe"}
        BY <1>1, <3>4 DEF Left
      <4>2. i \in DOMAIN calls' /\ calls'[i] = calls[i] /\ i \in Nat
        BY <1>1, <1>3, <1>4
      <4>3. ASSUME NEW j \in i + 1 .. Len(calls'), calls'[j].chan = d
            PROVE  calls'[j].op \notin {"start", "subscribe"}
        <5>1. CASE j = NextId
          BY <3>1, <4>3, <5>1
        <5>2. CASE j # NextId
          <6>1. j \in i + 1 .. Len(calls) /\ j \in DOMAIN calls
            BY <1>1, <1>3, <1>4, <4>2, <5>2
          <6> QED
            BY <1>1, <4>1, <4>3, <6>1
        <5> QED
          BY <5>1, <5>2
      <4>4. Left(d)'
        BY <1>2, <4>1, <4>2, <4>3 DEF Left
      <4> QED
        BY <4>4
    <3>5. CASE Starting(d)
      <4>1. Starting(d)'
        BY <1>1, <1>4, <1>5, <3>5 DEF Starting
      <4> QED
        BY <4>1
    <3> QED
      BY <3>2, <3>3, <3>4, <3>5 DEF ListenersStand, AskedStands
  <2> QED
    BY <2>1, <2>2, <2>3, <2>4
<1> QED
  BY <1>7, <1>8, <1>9, <1>10, <1>12, <1>13 DEF ListenersStand

\* The server opens a channel only for a request that asks for it.
LEMMA OpensAsked ==
  ASSUME TypeOK, NEW s \in Sessions, HandleClientMessage(s)
  PROVE  LET i == Head(toServer[s]) IN
         /\ opened' = opened \/ opened' = [opened EXCEPT ![session] = @ \cup {calls[i].chan}]
         /\ \A d \in opened'[session] :
              d \in opened[session] \/ (d = calls[i].chan /\ calls[i].op \in {"start", "subscribe"})
<1> DEFINE i == Head(toServer[s])  c == calls[i].chan  op == calls[i].op
<1>1. \/ op = "start" /\ HandleStart(s, i, c)
      \/ op = "stop" /\ HandleStop(s, i, c)
      \/ op = "send" /\ HandleSend(s, i)
      \/ op = "subscribe" /\ HandleSubscribe(s, i, c)
      \/ op = "unsubscribe" /\ HandleUnsubscribe(s, i, c)
      \/ op = "ask" /\ HandleAsk(s, i)
  BY DEF HandleClientMessage
<1> HIDE DEF i, c, op
<1>2. \/ opened' = opened
      \/ opened' = [opened EXCEPT ![session] = @ \cup {c}] /\ op \in {"start", "subscribe"}
  BY <1>1 DEF HandleStart, HandleStop, HandleSend, HandleSubscribe, HandleUnsubscribe, HandleAsk,
              Opens, Leaves
<1>3. \A d \in opened'[session] : d \in opened[session] \/ (d = c /\ op \in {"start", "subscribe"})
  BY <1>2 DEF TypeOK
<1> QED
  BY <1>2, <1>3 DEF i, c, op

\* The server takes a request.
LEMMA HandleListeners ==
  ASSUME TypeOK, Open(session), Told, OnTheWay, ListenersStand,
         NEW s \in Sessions, s = session, HandleClientMessage(s), Accounted' => ComesInOrder'
  PROVE  ListenersStand'
<1> DEFINE i == Head(toServer[s])  c == calls[i].chan  op == calls[i].op
<1>1. /\ UNCHANGED <<session, calls, pending, listening, intruded>>
      /\ i \in DOMAIN calls /\ i \in Nat /\ Waiting = {i} \cup Waiting'
      /\ \A m \in Answers : m.id < i
      /\ \E ok \in BOOLEAN : Handled(i, ok) /\ Answers' = Answers \cup {Response(i, ok)}
  BY TakenFacts
<1>2. \A d \in opened'[session] : d \in opened[session] \/ (d = c /\ op \in {"start", "subscribe"})
  BY OpensAsked
<1>3. UNCHANGED <<sock, queue, toClient>>
  BY DEF HandleClientMessage, queueVars
<1> HIDE DEF i
<1>4. PICK ok \in BOOLEAN : Handled(i, ok) /\ Answers' = Answers \cup {Response(i, ok)}
  BY <1>1
<1> DEFINE r == Response(i, ok)
<1>5. r.id = i /\ r.ok = ok
  BY DEF Response
<1> HIDE DEF r
<1>6. /\ Coming = Answers /\ Coming' = Coming \cup {r}
      /\ \A d : WillListen(d) <=> Listens(calls, listening, Coming, d)
  <2>1. Coming' = Answers'
    BY <1>1, <1>3 DEF Coming, Answers, Open
  <2> QED
    BY <1>4, <2>1, ComingOpen DEF r
<1>7. \A j : Owed(j)' <=> Owed(j)
  BY <1>1 DEF Owed
<1>8. InSequence'
  BY <1>1, <1>7 DEF ListenersStand, InSequence
<1>9. Accounted'
  BY <1>1, <1>5, <1>6, <1>7 DEF ListenersStand, Accounted
<1>10. \A d : (Asked(d)' <=> Asked(d)) /\ (Left(d)' <=> Left(d)) /\ (Starting(d)' <=> Starting(d))
  BY <1>1, <1>3, <1>7 DEF Asked, Left, CanSend, Starting
<1>11. AskedStands'
  BY <1>1, <1>10 DEF ListenersStand, AskedStands
<1>12. Owed(i)
  BY <1>1 DEF OnTheWay, AllOwed
<1>13. DataAsked'
  <2>1. op \in {"start", "subscribe"} => Asked(c)
    BY <1>1, <1>12 DEF Asked, Owed
  <2> QED
    BY <1>1, <1>2, <1>3, <1>10, <2>1 DEF ListenersStand, DataAsked, IsWanted
<1>14. RefusedKnows'
  <2> SUFFICES ASSUME NEW m \in Coming', calls[m.id].op = "start", ~m.ok,
                      calls[m.id].chan \notin intruded
               PROVE  Listens(calls, listening, Before(Coming', m.id), calls[m.id].chan)
    BY <1>1 DEF RefusedKnows
  <2>1. \A n \in Coming : n.id \in Nat /\ n.id < i
    BY <1>1, <1>6, OpenTypes
  <2>2. CASE m \in Coming
    <3>1. Before(Coming', m.id) = Before(Coming, m.id)
      BY <1>1, <1>5, <1>6, <2>1, <2>2 DEF Before
    <3> QED
      BY <2>2, <3>1 DEF ListenersStand, RefusedKnows
  <2>3. CASE m = r
    <3>1. Before(Coming', m.id) = Coming
      BY <1>1, <1>5, <1>6, <2>1, <2>3 DEF Before
    <3>2. m.id = i /\ ~ok /\ op = "start"
      BY <1>5, <2>3
    <3>3. c \in started
      BY <1>4, <3>2 DEF Handled
    <3>4. c \in Protocols
      BY <1>1, <3>2 DEF Told
    <3>5. WillListen(c)
      BY <3>2, <3>3, <3>4 DEF OnTheWay, ProtocolsAgree
    <3> QED
      BY <1>6, <3>1, <3>2, <3>5
  <2> QED
    BY <1>6, <2>2, <2>3
<1> QED
  BY <1>8, <1>9, <1>11, <1>13, <1>14 DEF ListenersStand

\* The server queues an ack or a response, or sends data.
LEMMA ServerListeners ==
  ASSUME TypeOK, Open(session), OnTheWay, Order, ListenersStand, NEW s \in Sessions, s = session,
         SendMessage(s), Rising("response", toClient[session])'
  PROVE  ListenersStand'
<1> DEFINE m == Head(reply)  q == toClient[session]
<1>1. /\ q \in Seq(MessageType) /\ reply \in Seq(MessageType) /\ reply # <<>>
      /\ m \in MessageType /\ Range(reply) = {m} \cup Range(Tail(reply))
  BY OpenTypes, TailFacts DEF SendMessage
<1>2. /\ UNCHANGED <<session, sock, toServer, calls, pending, listening, opened, intruded, queue>>
      /\ reply' = Tail(reply)
  BY DEF SendMessage, pageVars, queueVars, lateVars
<1>3. toClient'[session] = Append(q, m)
  BY DEF SendMessage, TypeOK
<1>4. Range(Append(q, m)) = Range(q) \cup {m}
  BY <1>1, AppendFacts
<1>5. m.type # "data"
  BY <1>1 DEF Order, DataOf, Kind
<1> HIDE DEF m, q
<1>6. Coming' = Coming
  <2>1. Responses(Append(q, m)) \cup Responses(Tail(reply)) = Responses(q) \cup Responses(reply)
    BY <1>1, <1>4 DEF Responses, Kind
  <2> QED
    BY <1>2, <1>3, <2>1 DEF Coming, Open, q
<1>7. \A n \in Range(queue') \cup Range(toClient'[session]) : IsWanted(n)
  BY <1>2, <1>3, <1>4, <1>5 DEF ListenersStand, DataAsked, IsWanted, q
<1> QED
  BY <1>2, <1>6, <1>7, SameListeners

LEMMA NotifyListeners ==
  ASSUME TypeOK, Open(session), ListenersStand,
         NEW r \in Sessions, NEW c \in Channels, Notify(r, c)
  PROVE  ListenersStand'
<1> DEFINE m == Data(c, sentData + 1, r)  q == toClient[session]
<1>1. q \in Seq(MessageType) /\ session \in Sessions
  BY OpenTypes
<1>2. m \in MessageType /\ m.type # "response" /\ m.chan = c /\ m.life = r
  <2>1. sentData + 1 \in 1..MaxData
    BY BoundsAssumption DEF Notify, TypeOK
  <2> QED
    BY <2>1, Messages, MessageKinds
<1>3. /\ UNCHANGED <<session, sock, toServer, reply, calls, pending, listening, opened, intruded, queue>>
      /\ c \in opened[r]
  BY DEF Notify, pageVars, queueVars, lateVars
<1>4. toClient'[session] = Append(q, m)
  BY <1>1 DEF Notify, TypeOK
<1>5. Rising("response", q)
  BY DEF ListenersStand, ComesInOrder
<1> HIDE DEF q, m
<1>6. /\ Responses(Append(q, m)) = Responses(q) /\ Rising("response", Append(q, m))
      /\ Range(Append(q, m)) = Range(q) \cup {m}
  BY <1>1, <1>2, <1>5, RisingAppend, AppendFacts DEF Responses
<1>7. Coming' = Coming
  BY <1>3, <1>4, <1>6 DEF Coming, Open, q
<1>8. \A n \in Range(queue') \cup Range(toClient'[session]) : IsWanted(n)
  BY <1>2, <1>3, <1>4, <1>6 DEF ListenersStand, DataAsked, IsWanted, q
<1>9. Rising("response", toClient[session])'
  BY <1>3, <1>4, <1>6
<1> QED
  BY <1>3, <1>7, <1>8, <1>9, SameListeners

\* A late request sends no data, and its channel is one on which late requests have worked.
LEMMA LateListeners ==
  ASSUME TypeOK, Open(session), ListenersStand, NEW i \in late, LateRequest(i)
  PROVE  ListenersStand'
<1> DEFINE c == calls[i].chan  q == toClient[session]
<1>1. q \in Seq(MessageType) /\ session \in Sessions
  BY OpenTypes
<1>2. /\ i \in Ids /\ UNCHANGED <<session, sock, toServer, reply, calls, pending, listening, queue>>
      /\ intruded \subseteq intruded'
      /\ toClient' = toClient \/ toClient' = [toClient EXCEPT ![session] = Append(@, Ack(i))]
  BY LateFacts DEF pageVars, queueVars
<1>3. opened'[session] \subseteq opened[session] \cup intruded'
  <2>1. opened' = opened \/ (c \in intruded' /\ opened' = [opened EXCEPT ![session] = @ \cup {c}])
    BY LateFacts
  <2> HIDE DEF c
  <2> QED
    BY <1>1, <2>1 DEF TypeOK
<1>4. Rising("response", q)
  BY DEF ListenersStand, ComesInOrder
<1>5. Ack(i) \in MessageType /\ Ack(i).type = "ack"
  BY <1>2, Messages, MessageKinds
<1> HIDE DEF q, c
<1>6. /\ Responses(Append(q, Ack(i))) = Responses(q) /\ Rising("response", Append(q, Ack(i)))
      /\ Range(Append(q, Ack(i))) = Range(q) \cup {Ack(i)}
  BY <1>1, <1>4, <1>5, RisingAppend, AppendFacts DEF Responses
<1>7. toClient'[session] = q \/ toClient'[session] = Append(q, Ack(i))
  BY <1>1, <1>2 DEF q, TypeOK
<1>8. Coming' = Coming
  BY <1>2, <1>6, <1>7 DEF Coming, Open, q
<1>9. \A n \in Range(queue') \cup Range(toClient'[session]) : IsWanted(n)
  BY <1>2, <1>5, <1>6, <1>7 DEF ListenersStand, DataAsked, IsWanted, q
<1>10. Rising("response", toClient[session])'
  BY <1>2, <1>4, <1>6, <1>7
<1> QED
  BY <1>2, <1>3, <1>8, <1>9, <1>10, SameListeners

\* What a loop leaves in the queue.
LEMMA LoopLeaves == ASSUME NEW q \in Seq(Notes), NEW others, Loop(q, others) PROVE Range(queue') \subseteq Range(q)
BY LoopFacts, RangeCut, EmptyFacts

\* A message that arrives is the first of what is coming, also on a lost socket.
LEMMA ReceivedComing ==
  ASSUME TypeOK, ComesInOrder, Open(session) => OnTheWay,
         NEW s \in Sessions, s = session, HandleMessage(s)
  PROVE  LET m == Head(toClient[s]) IN
         /\ UNCHANGED <<session, sock, calls, toServer, reply, opened, intruded>>
         /\ Rising("response", toClient[session])'
         /\ Range(toClient[session]) = {m} \cup Range(toClient'[session])
         /\ m.type # "response" => Coming' = Coming
         /\ m.type = "response" => /\ m \in Coming /\ Coming = {m} \cup Coming'
                                   /\ \A n \in Coming' : m.id < n.id
<1> DEFINE q == toClient[s]  m == Head(q)  t == Tail(q)
           w == IF Open(session) THEN Responses(reply) ELSE {}
<1>1. /\ q \in Seq(MessageType) /\ q # <<>>
      /\ toClient' = [toClient EXCEPT ![s] = t]
      /\ UNCHANGED <<session, sock, calls, toServer, reply, opened, intruded>>
  BY ReceivedFacts DEF serverVars, lateVars
<1>2. toClient'[session] = t /\ Range(q) = {m} \cup Range(t)
  BY <1>1, TailFacts DEF TypeOK
<1>3. Rising("response", q)
  BY DEF ComesInOrder
<1>4. /\ Rising("response", t) /\ Responses(t) \subseteq Responses(q)
      /\ m.type = "response" => m \in Responses(q) /\ \A x \in Responses(t) : m.id < x.id
  BY <1>1, <1>3, RisingTail DEF Responses
<1>5. \A x \in Responses(q), y \in w : x.id < y.id
  BY DEF OnTheWay, InTurn
<1>6. Coming = Responses(q) \cup w /\ Coming' = Responses(t) \cup w
  BY <1>1, <1>2 DEF Coming, Open
<1> HIDE DEF m, q, t, w
<1>7. Responses(q) = IF m.type = "response" THEN {m} \cup Responses(t) ELSE Responses(t)
  BY <1>2 DEF Responses, Kind
<1>8. m.type = "response" => /\ m \in Coming /\ Coming = {m} \cup Coming'
                             /\ \A n \in Coming' : m.id < n.id
  BY <1>4, <1>5, <1>6, <1>7
<1>9. m.type # "response" => Coming' = Coming
  BY <1>6, <1>7
<1>10. Rising("response", toClient[session])'
  BY <1>1, <1>2, <1>4
<1> QED
  BY <1>1, <1>2, <1>8, <1>9, <1>10 DEF q, m

\* When the first answer m is handled, the page expects what it expected.
LEMMA ListensOn ==
  ASSUME NEW C, NEW L, NEW K, NEW A, NEW B, NEW m, NEW c,
         A = {m} \cup B, m.id \in Nat, \A n \in B : m.id < n.id /\ n.id \in Nat,
         c \in K <=> (Settles(C, m, c) /\ C[m.id].op = "start") \/ (~Settles(C, m, c) /\ c \in L),
         Listens(C, L, A, c)
  PROVE  Listens(C, K, B, c)
<1>1. CASE \A n \in B : ~Settles(C, n, c)
  <2>1. c \in K
    BY <1>1 DEF Listens
  <2> QED
    BY <1>1, <2>1 DEF Listens
<1>2. CASE \E n \in B : Settles(C, n, c)
  <2>1. PICK k \in A : /\ Settles(C, k, c) /\ C[k.id].op = "start"
                       /\ \A n \in A : Settles(C, n, c) => n.id <= k.id
    BY <1>2 DEF Listens
  <2>2. k \in B
    BY <1>2, <2>1
  <2> QED
    BY <2>1, <2>2 DEF Listens
<1> QED
  BY <1>1, <1>2

\* The page handles a response.
LEMMA ResponseListeners ==
  ASSUME TypeOK, Told, ListenersStand, Open(session) => OnTheWay,
         NEW s \in Sessions, s = session, HandleMessage(s), Head(toClient[s]).type = "response"
  PROVE  ListenersStand'
<1> DEFINE m == Head(toClient[s])  c == calls[m.id].chan  op == calls[m.id].op
<1>1. /\ UNCHANGED <<session, sock, calls, toServer, reply, opened, intruded>>
      /\ Rising("response", toClient[session])'
      /\ Range(toClient[session]) = {m} \cup Range(toClient'[session])
      /\ m \in Coming /\ Coming = {m} \cup Coming' /\ \A n \in Coming' : m.id < n.id
  BY ReceivedComing DEF ListenersStand
<1>2. HandleResponse(m)
  BY ReceivedFacts
<1> HIDE DEF m
<1>3. \A n \in Coming : Owed(n.id) /\ n.id \in DOMAIN calls /\ n.id \in Nat
  BY OwedCalls DEF ListenersStand, ComesInOrder
<1>4. m.id \in pending /\ Owed(m.id) /\ m.id \in DOMAIN calls /\ m.id \in Nat
  BY <1>1, <1>3 DEF Owed
<1>5. /\ pending' = pending \ {m.id}
      /\ listening' = IF m.ok /\ op = "start" THEN listening \cup {c}
                      ELSE IF m.ok /\ op = "stop" THEN listening \ {c} ELSE listening
      /\ queue' = queue
  BY <1>2, <1>4 DEF HandleResponse, queueVars
<1>6. \A i : Owed(i)' <=> Owed(i) /\ i # m.id
  BY <1>1, <1>5 DEF Owed
<1>7. \A i \in DOMAIN calls : Owed(i) => m.id <= i
  <2> SUFFICES ASSUME NEW i \in DOMAIN calls, Owed(i), i < m.id PROVE FALSE
    BY <1>4, CallNumbers
  <2>1. PICK n \in Coming : n.id = i
    BY <1>1 DEF ListenersStand, ComesInOrder
  <2> QED
    BY <1>1, <1>3, <2>1
<1>8. InSequence'
  <2>1. ASSUME NEW i \in DOMAIN calls, NEW j \in DOMAIN calls, i < j, Owed(i), i # m.id
        PROVE  Owed(j) /\ j # m.id
    <3>1. m.id <= i /\ i \in Nat /\ j \in Nat
      BY <1>7, <2>1, CallNumbers
    <3> QED
      BY <1>4, <2>1, <3>1 DEF ListenersStand, InSequence
  <2> QED
    BY <1>1, <1>6, <2>1 DEF InSequence
<1>9. ComesInOrder'
  <2>1. \A n \in Coming' : n \in Coming /\ n.id # m.id
    BY <1>1, <1>3
  <2>2. \A n \in Coming' : Owed(n.id)'
    BY <1>3, <1>6, <2>1
  <2>3. ASSUME NEW n \in Coming', NEW i \in DOMAIN calls, Owed(i), i # m.id, i < n.id
        PROVE  \E x \in Coming' : x.id = i
    <3>1. PICK x \in Coming : x.id = i
      BY <2>1, <2>3 DEF ListenersStand, ComesInOrder
    <3> QED
      BY <1>1, <2>3, <3>1
  <2> QED
    BY <1>1, <1>6, <2>2, <2>3 DEF ComesInOrder
<1>10. ASSUME Open(session)' PROVE Accounted'
  <2>1. Open(session) /\ Waiting' = Waiting
    BY <1>1, <1>10 DEF Open, Waiting
  <2>2. \A i \in DOMAIN calls : Owed(i) => i \in Waiting \/ \E n \in Coming : n.id = i
    BY <2>1 DEF ListenersStand, Accounted
  <2>3. \A i \in DOMAIN calls : Owed(i) /\ i # m.id => i \in Waiting \/ \E n \in Coming' : n.id = i
    BY <1>1, <2>2
  <2> QED
    BY <1>1, <1>6, <2>1, <2>3 DEF Accounted
<1>11. RefusedKnows'
  <2> SUFFICES ASSUME NEW k \in Coming', calls[k.id].op = "start", ~k.ok,
                      calls[k.id].chan \notin intruded
               PROVE  Listens(calls, listening', Before(Coming', k.id), calls[k.id].chan)
    BY <1>1 DEF RefusedKnows
  <2> DEFINE p == calls[k.id].chan  A == Before(Coming, k.id)  B == Before(Coming', k.id)
  <2>1. Listens(calls, listening, A, p)
    BY <1>1 DEF ListenersStand, RefusedKnows
  <2>2. A = {m} \cup B /\ \A n \in B : m.id < n.id /\ n.id \in Nat
    BY <1>1, <1>3 DEF Before
  <2> HIDE DEF A, B
  <2>3. Settles(calls, m, p) <=> m.ok /\ c = p /\ op \in {"start", "stop"}
    BY DEF Settles
  <2> HIDE DEF p
  <2>4. p \in listening' <=> (Settles(calls, m, p) /\ op = "start") \/ (~Settles(calls, m, p) /\ p \in listening)
    BY <1>5, <2>3
  <2>5. Listens(calls, listening', B, p)
    BY <1>4, <2>1, <2>2, <2>4, ListensOn
  <2> QED
    BY <2>5 DEF p, B
<1>12. \A d : (Asked(d)' <=> Asked(d)) /\ (Left(d)' <=> Left(d))
  BY <1>1 DEF Asked, Left, CanSend
<1>13. DataAsked'
  BY <1>1, <1>5, <1>12 DEF ListenersStand, DataAsked, IsWanted
<1>14. AskedStands'
  <2> SUFFICES ASSUME NEW d \in Channels \ intruded, Asked(d)
               PROVE  d \in listening' \/ Left(d) \/ Starting(d)'
    BY <1>1, <1>12 DEF AskedStands
  <2>0. ASSUME NEW i \in DOMAIN calls, Owed(i), i # m.id, calls[i].op = "start", calls[i].chan = d
        PROVE  Starting(d)'
    BY <1>1, <1>6, <2>0 DEF Starting
  <2>1. CASE Starting(d)
    <3>1. PICK i \in DOMAIN calls : Owed(i) /\ calls[i].op = "start" /\ calls[i].chan = d
      BY <2>1 DEF Starting
    <3>2. CASE i # m.id
      BY <2>0, <3>1, <3>2
    <3>3. CASE i = m.id
      <4>1. op = "start" /\ c = d
        BY <3>1, <3>3
      <4>2. CASE m.ok
        BY <1>5, <4>1, <4>2
      <4>3. CASE ~m.ok
        <5>1. Listens(calls, listening, Before(Coming, m.id), c)
          BY <1>1, <4>1, <4>3 DEF ListenersStand, RefusedKnows
        <5>2. Before(Coming, m.id) = {}
          BY <1>1, <1>3 DEF Before
        <5>3. c \in listening
          BY <5>1, <5>2 DEF Listens
        <5> QED
          BY <1>5, <4>1, <4>3, <5>3
      <4> QED
        BY <4>2, <4>3
    <3> QED
      BY <3>2, <3>3
  <2>2. CASE d \in listening
    <3>1. CASE ~(m.ok /\ op = "stop" /\ c = d)
      BY <1>5, <2>2, <3>1
    <3>2. CASE op = "stop" /\ c = d
      <4>1. c \in Protocols
        BY <1>4, <3>2 DEF Told
      <4>2. CASE \E j \in m.id + 1 .. Len(calls) : calls[j].chan = d /\ calls[j].op \in {"start", "subscribe"}
        <5>1. PICK j \in m.id + 1 .. Len(calls) : calls[j].chan = d /\ calls[j].op \in {"start", "subscribe"}
          BY <4>2
        <5>2. j \in DOMAIN calls /\ m.id < j
          BY <1>4, CallNumbers
        <5>3. calls[j].op = "start"
          BY <3>2, <4>1, <5>1, <5>2 DEF Told
        <5>4. Owed(j)
          BY <1>4, <5>2 DEF ListenersStand, InSequence
        <5> QED
          BY <1>4, <2>0, <5>1, <5>2, <5>3, <5>4
      <4>3. CASE \A j \in m.id + 1 .. Len(calls) : calls[j].chan = d => calls[j].op \notin {"start", "subscribe"}
        <5>1. calls[m.id].session = session
          BY <1>4 DEF Owed
        <5> QED
          BY <1>4, <3>2, <4>3, <5>1 DEF Left
      <4> QED
        BY <4>2, <4>3
    <3> QED
      BY <3>1, <3>2
  <2> QED
    BY <2>1, <2>2 DEF ListenersStand, AskedStands
<1> QED
  BY <1>8, <1>9, <1>10, <1>11, <1>13, <1>14 DEF ListenersStand

\* The page handles a message of the server: what is in the queue was on its way.
LEMMA NoteListeners ==
  ASSUME TypeOK, ListenersStand, Open(session) => OnTheWay,
         NEW s \in Sessions, s = session, HandleMessage(s), Head(toClient[s]).type # "response"
  PROVE  ListenersStand'
<1> DEFINE m == Head(toClient[s])
<1>1. /\ UNCHANGED <<session, sock, calls, toServer, reply, opened, intruded, Coming>>
      /\ Rising("response", toClient[session])'
      /\ Range(toClient[session]) = {m} \cup Range(toClient'[session])
  BY ReceivedComing DEF ListenersStand
<1>2. m \in Notes /\ Append(queue, m) \in Seq(Notes) /\ HandleRequest(m)
  BY ReceivedFacts
<1> HIDE DEF m
<1>3. UNCHANGED <<pending, listening>>
  BY <1>2 DEF HandleRequest
<1>4. Range(queue') \subseteq Range(queue) \cup {m}
  <2>1. Range(queue') \subseteq Range(Append(queue, m))
    <3>1. queue' = Append(queue, m) \/ Loop(Append(queue, m), running)
      BY <1>2 DEF HandleRequest
    <3> QED
      BY <1>2, <3>1, LoopLeaves
  <2>2. Range(Append(queue, m)) = Range(queue) \cup {m}
    BY <1>2, AppendFacts DEF TypeOK
  <2> QED
    BY <2>1, <2>2
<1>5. \A n \in Range(queue') \cup Range(toClient'[session]) : IsWanted(n)
  BY <1>1, <1>4 DEF ListenersStand, DataAsked
<1> QED
  BY <1>1, <1>3, <1>5, SameListeners

\* The server or the network gives up the socket: the first messages still arrive.
LEMMA LostListeners ==
  ASSUME TypeOK, Open(session), OnTheWay, ListenersStand, NEW s \in Sessions, s = session, SocketLost(s)
  PROVE  ListenersStand'
<1> DEFINE q == toClient[session]
<1>1. PICK n \in 0..Len(q) : toClient' = [toClient EXCEPT ![s] = SubSeq(@, 1, n)]
  BY DEF SocketLost
<1> DEFINE r == SubSeq(q, 1, n)
<1>2. /\ UNCHANGED <<session, calls, pending, listening, opened, intruded, queue>>
      /\ session \in Sessions /\ sock'[session] = "lost" /\ toClient'[session] = r
      /\ CanSend /\ CanSend' /\ ~Open(session)'
  BY <1>1 DEF SocketLost, TypeOK, pageVars, queueVars, serverVars, Open, CanSend, Sessions
<1>3. q \in Seq(MessageType) /\ Rising("response", q)
  BY OpenTypes DEF ListenersStand, ComesInOrder
<1>4. /\ DOMAIN q = 1..Len(q) /\ Len(q) \in Nat
      /\ r \in Seq(MessageType) /\ DOMAIN r = 1..n /\ \A k \in 1..n : r[k] = q[k]
      /\ Rising("response", r) /\ Responses(r) \subseteq Responses(q) /\ Range(r) \subseteq Range(q)
  BY <1>3, CutFacts, RisingCut, RangeCut DEF Responses
<1>5. Coming = Responses(q) \cup Responses(reply) /\ Coming' = Responses(r)
  BY <1>2 DEF Coming
<1>6. \A x \in Responses(q), y \in Responses(reply) : x.id < y.id
  BY DEF OnTheWay, InTurn
<1>7. \A m \in Coming : Owed(m.id) /\ m.id \in DOMAIN calls /\ m.id \in Nat
  BY OwedCalls DEF ListenersStand, ComesInOrder
<1> HIDE DEF q, r
<1>8. ASSUME NEW m \in Coming', NEW x \in Coming, x.id < m.id PROVE x \in Coming'
  <2>1. m \in Responses(q) /\ m \in Coming /\ m.id \in Nat /\ x.id \in Nat
    BY <1>4, <1>5, <1>7
  <2>2. x \in Responses(q)
    BY <1>5, <1>6, <1>8, <2>1
  <2>3. PICK a \in DOMAIN r : m = r[a]
    BY <1>5 DEF Responses, Kind, Range
  <2>4. PICK b \in DOMAIN q : x = q[b]
    BY <2>2 DEF Responses, Kind, Range
  <2>5. a \in DOMAIN q /\ m = q[a] /\ a \in Int /\ b \in Int /\ a <= n
    BY <1>4, <2>3
  <2>6. m.type = "response" /\ x.type = "response"
    BY <2>1, <2>2 DEF Responses, Kind
  <2>7. ~(a < b)
    BY <1>3, <1>8, <2>1, <2>4, <2>5, <2>6 DEF Rising
  <2>8. b \in DOMAIN r /\ x = r[b]
    BY <1>4, <2>4, <2>5, <2>7
  <2> QED
    BY <1>5, <2>6, <2>8 DEF Responses, Kind, Range
<1>9. \A i : Owed(i)' <=> Owed(i)
  BY <1>2 DEF Owed
<1>10. Coming' \subseteq Coming
  BY <1>4, <1>5
<1>11. ComesInOrder'
  <2>1. ASSUME NEW m \in Coming', NEW i \in DOMAIN calls, Owed(i), i < m.id
        PROVE  \E x \in Coming' : x.id = i
    <3>1. PICK x \in Coming : x.id = i
      BY <1>10, <2>1 DEF ListenersStand, ComesInOrder
    <3> QED
      BY <1>8, <2>1, <3>1
  <2> QED
    BY <1>2, <1>4, <1>7, <1>9, <1>10, <2>1 DEF ComesInOrder
<1>12. RefusedKnows'
  <2> SUFFICES ASSUME NEW k \in Coming', calls[k.id].op = "start", ~k.ok,
                      calls[k.id].chan \notin intruded
               PROVE  Listens(calls, listening, Before(Coming', k.id), calls[k.id].chan)
    BY <1>2 DEF RefusedKnows
  <2>1. Before(Coming', k.id) = Before(Coming, k.id)
    BY <1>8, <1>10 DEF Before
  <2> QED
    BY <1>10, <2>1 DEF ListenersStand, RefusedKnows
<1>13. \A c : (Asked(c)' <=> Asked(c)) /\ (Left(c)' <=> Left(c)) /\ (Starting(c)' <=> Starting(c))
  BY <1>2, <1>9 DEF Asked, Left, Starting
<1>14. AskedStands' /\ DataAsked'
  BY <1>2, <1>4, <1>13 DEF ListenersStand, AskedStands, DataAsked, IsWanted, q
<1>15. InSequence'
  BY <1>2, <1>9 DEF ListenersStand, InSequence
<1> QED
  BY <1>2, <1>11, <1>12, <1>14, <1>15 DEF ListenersStand

\* A new session has asked for nothing.
LEMMA ConnectListeners ==
  ASSUME TypeOK, Wires, ~Hasty, Cleared, Dated, Connect
  PROVE  Dated' /\ ListenersStand'
<1>1. session \in 0..MaxSessions /\ MaxSessions \in Nat
  BY BoundsAssumption DEF TypeOK
<1>2. session' = session + 1 /\ session' \in Sessions
  BY <1>1 DEF Connect, Sessions
<1>3. sock[session'] = "unused"
  BY <1>1, <1>2 DEF Wires, Sessions
<1>4. toClient'[session'] = <<>> /\ reply' = <<>> /\ UNCHANGED <<calls, pending, queue, opened>>
  BY <1>2, <1>3 DEF Connect, Wires, pageVars, queueVars
<1>5. opened'[session'] = {} /\ \A s \in Sessions : s > session' => opened'[s] = {}
  BY <1>1, <1>2, <1>4 DEF Dated, Sessions
<1>6. queue = <<>>
  <2>1. Ended
    BY <1>1 DEF Connect, Ended, Sessions
  <2> QED
    BY <2>1 DEF Cleared
<1>7. \A i \in DOMAIN calls : calls[i].session <= session /\ calls[i].session \in Nat
  BY CallTypes DEF Dated, CallType, Sessions
<1>8. \A i \in DOMAIN calls : calls'[i].session # session' /\ calls'[i].session <= session'
  BY <1>1, <1>2, <1>4, <1>7
<1>9. Coming' = {}
  BY <1>4, EmptyFacts DEF Coming, Responses, Kind
<1>10. \A i : ~Owed(i)'
  BY <1>4, <1>8, CallNumbers DEF Owed
<1>11. \A c : ~Asked(c)'
  BY <1>4, <1>8 DEF Asked
<1>12. ComesInOrder' /\ RefusedKnows' /\ InSequence' /\ Accounted'
  BY <1>4, <1>9, <1>10, EmptyFacts DEF ComesInOrder, RefusedKnows, InSequence, Accounted, Rising
<1>13. AskedStands' /\ DataAsked'
  BY <1>4, <1>6, <1>11, <1>5, EmptyFacts DEF AskedStands, DataAsked
<1> QED
  BY <1>4, <1>8, <1>12, <1>13, <1>5 DEF ListenersStand, Dated

LEMMA OpenedStep ==
  ASSUME TypeOK, Dated, [Next]_vars
  PROVE  \A s \in Sessions : s > session' => opened'[s] = {}
<1>1. session \in Nat
  BY BoundsAssumption DEF TypeOK
<1>2. session' = session \/ session' = session + 1
  BY DEF Next, Connect, Close, Call, Start, Stop, Send, Subscribe, Unsubscribe, Request, ListenerAsks,
         SendRequest, Returns, ListenerReturns, Notify, HandleClientMessage, SendMessage, HandleMessage,
         CloseEvent, SocketLost, LateRequest, vars, wireVars
<1>3. opened' = opened \/ \E c \in Channels : opened' = [opened EXCEPT ![session] = @ \cup {c}]
  <2>1. ASSUME NEW s \in Sessions, HandleClientMessage(s)
        PROVE  opened' = opened \/ \E c \in Channels : opened' = [opened EXCEPT ![session] = @ \cup {c}]
    <3>1. calls[Head(toServer[s])].chan \in Channels
      BY <2>1, HandledFacts DEF CallType
    <3> QED
      BY <2>1, <3>1, OpensAsked
  <2>2. ASSUME NEW i \in late, LateRequest(i)
        PROVE  opened' = opened \/ \E c \in Channels : opened' = [opened EXCEPT ![session] = @ \cup {c}]
    BY <2>2, LateFacts
  <2>3. ASSUME ~(\E s \in Sessions : HandleClientMessage(s)), ~(\E i \in late : LateRequest(i))
        PROVE  opened' = opened
    BY <2>3 DEF Next, Connect, Close, Call, Start, Stop, Send, Subscribe, Unsubscribe, Request, ListenerAsks,
                SendRequest, Returns, ListenerReturns, Notify, SendMessage, HandleMessage,
                CloseEvent, SocketLost, vars, serverVars
  <2> QED
    BY <2>1, <2>2, <2>3
<1>4. ASSUME NEW s \in Sessions, s > session PROVE opened'[s] = {}
  <2>1. opened[s] = {} /\ s # session
    BY <1>1, <1>4 DEF Dated, Sessions
  <2> QED
    BY <1>3, <2>1 DEF TypeOK
<1> QED
  BY <1>1, <1>2, <1>4, BoundsAssumption DEF Sessions

LEMMA DatedStep == ASSUME TypeOK, Dated, [Next]_vars PROVE Dated'
<1>0. session \in Nat /\ \A i \in DOMAIN calls : calls[i].session \in Nat
  <2>1. session \in Nat
    BY BoundsAssumption DEF TypeOK
  <2>2. \A i \in DOMAIN calls : calls[i].session \in Sessions
    BY CallTypes DEF CallType
  <2>3. Sessions \subseteq Nat
    BY BoundsAssumption DEF Sessions
  <2> QED
    BY <2>1, <2>2, <2>3
<1>1. CASE calls' = calls
  <2>1. session' = session \/ session' = session + 1
    BY <1>1 DEF Next, Connect, Close, Call, Start, Stop, Send, Subscribe, Unsubscribe, Request, ListenerAsks,
                SendRequest, Returns, ListenerReturns, Notify, HandleClientMessage, SendMessage, HandleMessage,
                CloseEvent, SocketLost, LateRequest, vars, wireVars
  <2> QED
    BY <1>0, <1>1, <2>1, OpenedStep DEF Dated
<1>2. CASE Call
  <2>1. ASSUME NEW op \in {"start", "stop", "send", "subscribe", "unsubscribe", "ask"},
               NEW c \in Channels, SendRequest(op, c)
        PROVE  Dated'
    <3>1. /\ DOMAIN calls' = 1..NextId /\ DOMAIN calls = 1..Len(calls) /\ NextId = Len(calls) + 1
          /\ \A i \in DOMAIN calls : calls'[i] = calls[i]
          /\ calls'[NextId] = [op |-> op, chan |-> c, session |-> session]
      BY <2>1, SendRequestFacts
    <3>2. \A i \in DOMAIN calls' : i \in DOMAIN calls \/ i = NextId
      BY <3>1, CallNumbers
    <3>3. session' = session
      BY <2>1 DEF SendRequest
    <3>4. \A i \in DOMAIN calls' : calls'[i].session <= session
      BY <1>0, <3>1, <3>2 DEF Dated
    <3> QED
      BY <3>3, <3>4, OpenedStep DEF Dated
  <2> QED
    BY <1>1, <1>2, <2>1, CallCases
<1>3. ASSUME ~Call PROVE calls' = calls
  BY <1>3 DEF Next, Connect, Close, Returns, ListenerReturns, Notify, HandleClientMessage, SendMessage,
              HandleMessage, CloseEvent, HandleClose, SocketLost, LateRequest, vars, pageVars
<1> QED
  BY <1>1, <1>2, <1>3

LEMMA ListenStep ==
  ASSUME TypeOK, TypeOK', Wires, ~Hasty, Cleared, Order, AgreeInv, AgreeInv', ListenInv, [Next]_vars
  PROVE  ListenInv'
<1> USE DEF pageVars, queueVars, serverVars, lateVars, wireVars
<1>0. Dated'
  BY DatedStep DEF ListenInv
<1>1. SUFFICES ASSUME CanSend' PROVE ListenersStand'
  BY <1>0, <1>1 DEF ListenInv
<1>2. CASE Connect
  BY <1>2, ConnectListeners DEF ListenInv
<1>3. ASSUME UNCHANGED <<session, sock>>
      PROVE  CanSend /\ ListenersStand /\ (Open(session)' <=> Open(session))
  BY <1>1, <1>3 DEF ListenInv, Open, CanSend
<1>4. /\ Told /\ (Open(session) => OnTheWay) /\ (Open(session)' => OnTheWay')
      /\ (Open(session)' => Rising("response", toClient[session])')
      /\ (Open(session)' /\ Accounted' => ComesInOrder')
  <2>1. (TypeOK /\ Open(session) /\ OnTheWay /\ Accounted)' => ComesInOrder'
    BY OpenComes, PTL
  <2> QED
    BY <2>1 DEF AgreeInv, OnTheWay, InTurn
<1>5. CASE Close
  <2>1. session \in Sessions
    BY <1>5 DEF Close, CanSend, TypeOK, Sessions
  <2> QED
    BY <1>1, <1>5, <2>1 DEF Close, CanSend, TypeOK
<1>6. CASE Call
  <2>1. UNCHANGED <<queue, opened, intruded>>
    BY <1>6 DEF Call, Start, Stop, Send, Subscribe, Unsubscribe, Request, ListenerAsks, SendRequest
  <2>2. ASSUME NEW op \in {"start", "stop", "send", "subscribe", "unsubscribe", "ask"},
               NEW c \in Channels, SendRequest(op, c),
               c \in Protocols <=> op \in {"start", "stop", "send"},
               listening' = IF op = "subscribe" THEN listening \cup {c}
                            ELSE IF op = "unsubscribe" THEN listening \ {c} ELSE listening
        PROVE  ListenersStand'
    <3>1. ListenersStand
      BY <1>3, <2>2 DEF SendRequest
    <3> QED
      BY <1>4, <2>1, <2>2, <3>1, RequestListeners
  <2>3. CASE ~CanSend /\ UNCHANGED <<session, sock, calls>>
    BY <1>3, <2>3
  <2> QED
    BY <1>6, <2>2, <2>3, CallCases
<1>7. CASE Returns \/ UNCHANGED vars
  <2>1. UNCHANGED <<session, sock, calls, pending, listening, opened, intruded, toServer, toClient, reply>>
    BY <1>7 DEF Returns, ListenerReturns, vars
  <2>2. ListenersStand
    BY <1>3, <2>1
  <2>3. Range(queue') \subseteq Range(queue)
    <3>1. CASE UNCHANGED vars
      BY <3>1 DEF vars
    <3>2. CASE Returns
      <4>1. PICK r \in running : Loop(queue, running \ {r})
        BY <3>2 DEF Returns, ListenerReturns
      <4> QED
        BY <4>1, LoopLeaves DEF TypeOK
    <3> QED
      BY <1>7, <3>1, <3>2
  <2>4. Coming' = Coming
    BY <2>1 DEF Coming, Open
  <2>5. \A m \in Range(queue') \cup Range(toClient'[session]) : IsWanted(m)
    BY <2>1, <2>2, <2>3 DEF ListenersStand, DataAsked
  <2>6. Rising("response", toClient[session])'
    BY <2>1, <2>2 DEF ListenersStand, ComesInOrder
  <2> QED
    BY <2>1, <2>2, <2>4, <2>5, <2>6, SameListeners
<1>8. ASSUME NEW r \in Sessions, NEW c \in Channels, Notify(r, c) PROVE ListenersStand'
  <2>1. Open(session) /\ ListenersStand
    BY <1>3, <1>8 DEF Notify
  <2> QED
    BY <1>8, <2>1, NotifyListeners
<1>9. ASSUME NEW s \in Sessions, HandleClientMessage(s) PROVE ListenersStand'
  <2>1. s = session /\ Open(session)
    BY <1>9, Current DEF HandleClientMessage, Open
  <2>2. ListenersStand /\ Open(session)'
    BY <1>3, <1>9, <2>1 DEF HandleClientMessage
  <2> QED
    BY <1>4, <1>9, <2>1, <2>2, HandleListeners
<1>10. ASSUME NEW s \in Sessions, SendMessage(s) PROVE ListenersStand'
  <2>1. s = session /\ Open(session)
    BY <1>10, Current DEF SendMessage, Open
  <2>2. ListenersStand /\ Open(session)'
    BY <1>3, <1>10, <2>1 DEF SendMessage
  <2> QED
    BY <1>4, <1>10, <2>1, <2>2, ServerListeners
<1>11. ASSUME NEW s \in Sessions, HandleMessage(s) PROVE ListenersStand'
  <2>1. s = session
    BY <1>11, Current DEF HandleMessage
  <2>2. ListenersStand
    BY <1>3, <1>11 DEF HandleMessage
  <2>3. CASE Head(toClient[s]).type = "response"
    BY <1>4, <1>11, <2>1, <2>2, <2>3, ResponseListeners
  <2>4. CASE Head(toClient[s]).type # "response"
    BY <1>4, <1>11, <2>1, <2>2, <2>4, NoteListeners
  <2> QED
    BY <2>3, <2>4
<1>12. ASSUME NEW s \in Sessions, CloseEvent(s) PROVE ListenersStand'
  <2>1. s = session
    BY <1>12, Current DEF CloseEvent
  <2> QED
    BY <1>1, <1>12, <2>1 DEF CloseEvent, CanSend, TypeOK
<1>13. ASSUME NEW s \in Sessions, SocketLost(s) PROVE ListenersStand'
  <2>1. s = session /\ Open(session)
    BY <1>13, Current DEF SocketLost, Open
  <2>2. ListenersStand
    BY <2>1 DEF ListenInv, Open, CanSend
  <2> QED
    BY <1>4, <1>13, <2>1, <2>2, LostListeners
<1>14. ASSUME NEW i \in late, LateRequest(i) PROVE ListenersStand'
  <2>1. Open(session) /\ ListenersStand
    BY <1>3, <1>14 DEF LateRequest
  <2> QED
    BY <1>14, <2>1, LateListeners
<1> QED
  BY <1>2, <1>5, <1>6, <1>7, <1>8, <1>9, <1>10, <1>11, <1>12, <1>13, <1>14 DEF Next

LEMMA ListenInit == Init => ListenInv
BY EmptyFacts DEF Init, ListenInv, Dated, CanSend

\* What a loop ignores, its page has left or is waiting to start.
LEMMA LoopIgnores ==
  ASSUME TypeOK, Told, ListenInv, NEW q \in Seq(Notes), NEW others, Loop(q, others),
         CanSend => \A m \in Range(q) : IsWanted(m),
         NEW c \in unheard' \ (unheard \cup intruded)
  PROVE  /\ c \in Protocols
         /\ \E i \in pending : calls[i] = [op |-> "start", chan |-> c, session |-> session]
<1>1. PICK m \in Range(q) : m.type = "data" /\ m.chan = c /\ ~Listened(m) /\ ~HasLeft(m)
  <2>1. Len(q) \in Nat /\ DOMAIN q = 1..Len(q) /\ \A i \in DOMAIN q : 1..i \subseteq DOMAIN q
    BY LenProperties
  <2> DEFINE Ignored(n) == {q[j].chan : j \in {k \in 1..n :
                             q[k].type = "data" /\ ~Listened(q[k]) /\ ~HasLeft(q[k])}}
  <2>2. (\E i \in DOMAIN q : unheard' \subseteq unheard \cup Ignored(i))
        \/ unheard' \subseteq unheard \cup Ignored(Len(q))
    BY LoopFacts
  <2>3. PICK n : c \in Ignored(n) /\ (n \in DOMAIN q \/ n = Len(q))
    BY <2>2
  <2>4. PICK j \in 1..n : q[j].type = "data" /\ q[j].chan = c /\ ~Listened(q[j]) /\ ~HasLeft(q[j])
    BY <2>3
  <2>5. j \in DOMAIN q
    BY <2>1, <2>3
  <2> QED
    BY <2>4, <2>5 DEF Range
<1>2. CanSend /\ ~Left(c) /\ m.life = session /\ c \notin listening
  BY <1>1 DEF HasLeft, Left, Listened
<1>3. m \in Notes /\ c \in Channels
  <2>1. m \in Notes
    BY <1>1, ElementOfSeq, LenProperties DEF Range
  <2> QED
    BY <1>1, <2>1, MessageKinds
<1>4. Starting(c)
  <2>1. Asked(c)
    BY <1>1, <1>2 DEF IsWanted
  <2> QED
    BY <1>2, <1>3, <2>1 DEF ListenInv, ListenersStand, AskedStands
<1>5. PICK i \in DOMAIN calls : Owed(i) /\ calls[i].op = "start" /\ calls[i].chan = c
  BY <1>4 DEF Starting
<1>6. i \in pending /\ calls[i].session = session /\ calls[i] \in CallType
  BY <1>5, CallTypes DEF Owed
<1>7. calls[i] = [op |-> "start", chan |-> c, session |-> session]
  BY <1>5, <1>6 DEF CallType
<1>8. c \in Protocols
  BY <1>5 DEF Told
<1> QED
  BY <1>6, <1>7, <1>8

LEMMA LostStep ==
  ASSUME TypeOK, Told, Wires, ListenInv, [Next]_vars, NEW c \in unheard' \ (unheard \cup intruded)
  PROVE  /\ c \in Protocols
         /\ \E i \in pending : calls[i] = [op |-> "start", chan |-> c, session |-> session]
<1> USE DEF pageVars, queueVars, serverVars, lateVars, wireVars
<1>1. Returns \/ \E s \in Sessions : HandleMessage(s)
  <2>1. unheard' # unheard
    OBVIOUS
  <2>2. ASSUME Call PROVE unheard' = unheard
    BY <2>2 DEF Call, Start, Stop, Send, Subscribe, Unsubscribe, ListenerAsks
  <2>3. ASSUME NEW s \in Sessions,
               HandleClientMessage(s) \/ SendMessage(s) \/ CloseEvent(s) \/ SocketLost(s)
        PROVE  unheard' = unheard
    BY <2>3 DEF HandleClientMessage, SendMessage, CloseEvent, HandleClose, SocketLost
  <2>4. ASSUME \/ Connect \/ Close \/ UNCHANGED vars
               \/ \E r \in Sessions, d \in Channels : Notify(r, d)
               \/ \E i \in late : LateRequest(i)
        PROVE  unheard' = unheard
    BY <2>4 DEF Connect, Close, Notify, LateRequest, vars
  <2> QED
    BY <2>1, <2>2, <2>3, <2>4 DEF Next
<1>2. CASE Returns
  <2>1. PICK r \in running : Loop(queue, running \ {r})
    BY <1>2 DEF Returns, ListenerReturns
  <2>2. queue \in Seq(Notes) /\ (CanSend => \A m \in Range(queue) : IsWanted(m))
    BY DEF TypeOK, ListenInv, ListenersStand, DataAsked
  <2> QED
    BY <2>1, <2>2, LoopIgnores
<1>3. ASSUME NEW s \in Sessions, HandleMessage(s)
      PROVE  /\ c \in Protocols
             /\ \E i \in pending : calls[i] = [op |-> "start", chan |-> c, session |-> session]
  <2> DEFINE m == Head(toClient[s])  q == Append(queue, m)
  <2>1. s = session /\ toClient[s] \in Seq(MessageType) /\ toClient[s] # <<>>
    BY <1>3, Current, ReceivedFacts DEF HandleMessage
  <2>2. m \in Range(toClient[session])
    BY <2>1, TailFacts
  <2>3. /\ m.type # "response" /\ m \in Notes /\ q \in Seq(Notes) /\ HandleRequest(m)
        /\ queue \in Seq(Notes)
    <3>1. HandleResponse(m) => unheard' = unheard
      BY DEF HandleResponse
    <3> QED
      BY <1>3, <3>1, ReceivedFacts DEF TypeOK
  <2>4. Loop(q, running)
    BY <2>3 DEF HandleRequest
  <2> HIDE DEF m
  <2>5. Range(q) = Range(queue) \cup {m}
    BY <2>3, AppendFacts
  <2>6. CanSend => \A n \in Range(q) : IsWanted(n)
    BY <2>2, <2>5 DEF ListenInv, ListenersStand, DataAsked
  <2> HIDE DEF q
  <2> QED
    BY <2>3, <2>4, <2>6, LoopIgnores
<1> QED
  BY <1>1, <1>2, <1>3

\* A message of the session's peer that finds no listener is one for a protocol that the page
\* is waiting to start, or has left, if the page connects again only after the close event,
\* but for channels on which late requests have worked: start is the only operation that has
\* the server ready before the page.
THEOREM LostOnlyWhileStartingCorrect == ASSUME ~Hasty PROVE Spec => LostOnlyWhileStarting
<1> DEFINE All == SocketsInv /\ AgreeInv /\ ListenInv
           Lost == \A c \in unheard' \ (unheard \cup intruded) : c \in Protocols /\
                     \E i \in pending : calls[i] = [op |-> "start", chan |-> c, session |-> session]
<1>1. SocketsInv /\ SocketsInv' /\ AgreeInv /\ [Next]_vars => AgreeInv'
  BY AgreeStep DEF SocketsInv
<1>2. SocketsInv /\ SocketsInv' /\ AgreeInv /\ AgreeInv' /\ ListenInv /\ [Next]_vars => ListenInv'
  BY ListenStep DEF SocketsInv
<1>3. SocketsInv /\ AgreeInv /\ ListenInv /\ [Next]_vars => [Lost]_vars
  BY LostStep DEF SocketsInv, AgreeInv
<1> QED
  BY <1>1, <1>2, <1>3, AgreeInit, ListenInit, SocketsCorrect, PTL DEF Spec, LostOnlyWhileStarting
=============================================================================
