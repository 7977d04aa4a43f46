---------------------------- MODULE Client_proofs ----------------------------
(***************************************************************************)
(* What is proved of Client for every number of sessions, requests and     *)
(* messages: type correctness, that an ack is the ack of an accepted       *)
(* message, and, for a page that connects again only after the close event *)
(* of its last socket, the order in which listeners hear messages.         *)
(***************************************************************************)
EXTENDS Client, SequenceTheorems, FiniteSetTheorems, TLAPS

CallType == [op : {"start", "stop", "send", "subscribe", "unsubscribe", "ask"},
             chan : Channels, session : Sessions]
LoopType == [msg : Notes, awaits : {0} \cup Ids]

-----------------------------------------------------------------------------
(* Sequences                                                               *)

LEMMA AppendFacts ==
  ASSUME NEW S, NEW q \in Seq(S), NEW e \in S
  PROVE  /\ Append(q, e) \in Seq(S)
         /\ Len(q) \in Nat /\ DOMAIN q = 1..Len(q)
         /\ Len(Append(q, e)) = Len(q) + 1 /\ DOMAIN Append(q, e) = 1 .. Len(q) + 1
         /\ \A i \in 1..Len(q) : Append(q, e)[i] = q[i]
         /\ Append(q, e)[Len(q) + 1] = e
         /\ Range(Append(q, e)) = Range(q) \cup {e}
<1>1. /\ Append(q, e) \in Seq(S) /\ Len(Append(q, e)) = Len(q) + 1
      /\ \A i \in 1..Len(q) : Append(q, e)[i] = q[i]
      /\ Append(q, e)[Len(q) + 1] = e
  BY AppendProperties
<1>2. Len(q) \in Nat /\ DOMAIN q = 1..Len(q)
  BY LenProperties
<1>3. DOMAIN Append(q, e) = 1 .. Len(q) + 1
  BY <1>1, LenProperties
<1> DEFINE a == Append(q, e)
<1>4. Range(a) = Range(q) \cup {e}
  <2> HIDE DEF a
  <2>1. \A x : x \in Range(a) <=> \E i \in 1 .. Len(q) + 1 : x = a[i]
    BY <1>3 DEF a, Range
  <2>2. \A x : x \in Range(q) <=> \E i \in 1..Len(q) : x = a[i]
    BY <1>1, <1>2 DEF a, Range
  <2> QED
    BY <1>1, <1>2, <2>1, <2>2 DEF a
<1> QED
  BY <1>1, <1>2, <1>3, <1>4

LEMMA TailFacts ==
  ASSUME NEW S, NEW q \in Seq(S), q # <<>>
  PROVE  /\ Head(q) \in S /\ Head(q) = q[1] /\ Tail(q) \in Seq(S)
         /\ Len(q) \in Nat \ {0} /\ DOMAIN q = 1..Len(q)
         /\ Len(Tail(q)) = Len(q) - 1 /\ DOMAIN Tail(q) = 1 .. Len(q) - 1
         /\ \A i \in 1 .. Len(q) - 1 : Tail(q)[i] = q[i + 1]
         /\ Range(q) = {Head(q)} \cup Range(Tail(q))
<1> DEFINE t == Tail(q)
<1>1. /\ Head(q) \in S /\ t \in Seq(S) /\ Len(t) = Len(q) - 1
      /\ \A i \in 1 .. Len(t) : t[i] = q[i + 1]
  BY HeadTailProperties
<1>2. Len(q) \in Nat \ {0} /\ DOMAIN q = 1..Len(q) /\ DOMAIN t = 1..Len(t)
  BY <1>1, EmptySeq, LenProperties
<1>3. Head(q) = q[1]
  OBVIOUS
<1> HIDE DEF t
<1>4. Range(q) = {q[1]} \cup Range(t)
  <2>1. ASSUME NEW x \in Range(q), x # q[1] PROVE x \in Range(t)
    <3>1. PICK i \in 1..Len(q) : x = q[i]
      BY <1>2 DEF Range
    <3>2. i - 1 \in 1..Len(t) /\ t[i - 1] = x
      BY <1>1, <1>2, <2>1, <3>1
    <3> QED
      BY <1>2, <3>2 DEF Range
  <2>2. ASSUME NEW x \in Range(t) PROVE x \in Range(q)
    <3>1. PICK i \in 1..Len(t) : x = t[i]
      BY <1>2, <2>2 DEF Range
    <3>2. i + 1 \in 1..Len(q) /\ q[i + 1] = x
      BY <1>1, <1>2, <3>1
    <3> QED
      BY <1>2, <3>2 DEF Range
  <2>3. q[1] \in Range(q)
    BY <1>2 DEF Range
  <2> QED
    BY <2>1, <2>2, <2>3
<1> QED
  BY <1>1, <1>2, <1>3, <1>4 DEF t

LEMMA EmptyFacts == Range(<<>>) = {} /\ DOMAIN <<>> = {} /\ \A S : <<>> \in Seq(S)
  BY DEF Range

LEMMA PairFacts ==
  ASSUME NEW x, NEW y
  PROVE  Range(<<x>>) = {x} /\ Range(<<x, y>>) = {x, y}
<1>1. DOMAIN <<x>> = {1} /\ DOMAIN <<x, y>> = {1, 2}
  OBVIOUS
<1>2. <<x>>[1] = x /\ <<x, y>>[1] = x /\ <<x, y>>[2] = y
  OBVIOUS
<1> QED
  BY <1>1, <1>2 DEF Range

\* What is left of q after its element i, and its first n elements.
LEMMA CutFacts ==
  ASSUME NEW S, NEW q \in Seq(S)
  PROVE  /\ Len(q) \in Nat /\ DOMAIN q = 1..Len(q)
         /\ \A i \in DOMAIN q : LET r == SubSeq(q, i + 1, Len(q)) IN
              /\ r \in Seq(S) /\ DOMAIN r = 1 .. Len(q) - i
              /\ \A k \in 1 .. Len(q) - i : r[k] = q[i + k]
         /\ \A n \in 0..Len(q) : LET r == SubSeq(q, 1, n) IN
              /\ r \in Seq(S) /\ DOMAIN r = 1..n
              /\ \A k \in 1..n : r[k] = q[k]
<1>1. Len(q) \in Nat /\ DOMAIN q = 1..Len(q) /\ \A i \in 1..Len(q) : q[i] \in S
  BY LenProperties, ElementOfSeq
<1>2. ASSUME NEW i \in DOMAIN q
      PROVE  LET r == SubSeq(q, i + 1, Len(q)) IN
               /\ r \in Seq(S) /\ DOMAIN r = 1 .. Len(q) - i
               /\ \A k \in 1 .. Len(q) - i : r[k] = q[i + k]
  <2> DEFINE r == SubSeq(q, i + 1, Len(q))
  <2>1. i \in Int /\ i + 1 \in Int /\ Len(q) \in Int /\ \A j \in i + 1 .. Len(q) : q[j] \in S
    BY <1>1
  <2>2. /\ r \in Seq(S)
        /\ Len(r) = IF i + 1 <= Len(q) THEN Len(q) - (i + 1) + 1 ELSE 0
        /\ \A k \in 1 .. Len(q) - (i + 1) + 1 : r[k] = q[i + 1 + k - 1]
    BY <2>1, SubSeqProperties
  <2>3. Len(r) = Len(q) - i /\ Len(q) - (i + 1) + 1 = Len(q) - i
    BY <1>1, <2>2
  <2>4. \A k \in 1 .. Len(q) - i : i + 1 + k - 1 = i + k
    BY <1>1
  <2> QED
    BY <2>2, <2>3, <2>4, LenProperties
<1>3. ASSUME NEW n \in 0..Len(q)
      PROVE  LET r == SubSeq(q, 1, n) IN
               /\ r \in Seq(S) /\ DOMAIN r = 1..n
               /\ \A k \in 1..n : r[k] = q[k]
  <2> DEFINE r == SubSeq(q, 1, n)
  <2>1. n \in Int /\ \A j \in 1..n : q[j] \in S
    BY <1>1
  <2>2. /\ r \in Seq(S)
        /\ Len(r) = IF 1 <= n THEN n - 1 + 1 ELSE 0
        /\ \A k \in 1 .. n - 1 + 1 : r[k] = q[1 + k - 1]
    BY <2>1, SubSeqProperties
  <2>3. Len(r) = n /\ n - 1 + 1 = n /\ \A k \in 1..n : 1 + k - 1 = k
    BY <1>1, <2>2
  <2> QED
    BY <2>2, <2>3, LenProperties
<1> QED
  BY <1>1, <1>2, <1>3

LEMMA RangeCut ==
  ASSUME NEW S, NEW q \in Seq(S)
  PROVE  /\ \A i \in DOMAIN q : q[i] \in Range(q) /\ Range(SubSeq(q, i + 1, Len(q))) \subseteq Range(q)
         /\ \A n \in 0..Len(q) : Range(SubSeq(q, 1, n)) \subseteq Range(q)
<1>0. \A i \in DOMAIN q : q[i] \in Range(q)
  BY DEF Range
<1>1. ASSUME NEW i \in DOMAIN q PROVE Range(SubSeq(q, i + 1, Len(q))) \subseteq Range(q)
  <2> DEFINE r == SubSeq(q, i + 1, Len(q))
  <2>1. /\ Len(q) \in Nat /\ DOMAIN q = 1..Len(q) /\ DOMAIN r = 1 .. Len(q) - i
        /\ \A k \in 1 .. Len(q) - i : r[k] = q[i + k]
    BY CutFacts
  <2> HIDE DEF r
  <2>2. \A k \in DOMAIN r : i + k \in DOMAIN q /\ r[k] = q[i + k]
    BY <2>1
  <2> QED
    BY <2>2 DEF Range, r
<1>2. ASSUME NEW n \in 0..Len(q) PROVE Range(SubSeq(q, 1, n)) \subseteq Range(q)
  <2> DEFINE r == SubSeq(q, 1, n)
  <2>1. /\ Len(q) \in Nat /\ DOMAIN q = 1..Len(q) /\ DOMAIN r = 1..n
        /\ \A k \in 1..n : r[k] = q[k]
    BY CutFacts
  <2> HIDE DEF r
  <2>2. \A k \in DOMAIN r : k \in DOMAIN q /\ r[k] = q[k]
    BY <2>1
  <2> QED
    BY <2>2 DEF Range, r
<1> QED
  BY <1>0, <1>1, <1>2

-----------------------------------------------------------------------------
(* Type correctness                                                        *)

LEMMA Messages ==
  /\ \A i \in Ids, ok \in BOOLEAN :
       /\ Response(i, ok) \in MessageType
       /\ Response(i, ok).type = "response" /\ Response(i, ok).id = i /\ Response(i, ok).ok = ok
  /\ \A i \in Ids : Ack(i) \in Notes /\ Ack(i).type = "ack" /\ Ack(i).id = i
  /\ \A c \in Channels, n \in 1..MaxData, r \in Sessions :
       /\ Data(c, n, r) \in Notes
       /\ Data(c, n, r).type = "data" /\ Data(c, n, r).chan = c
       /\ Data(c, n, r).id = n /\ Data(c, n, r).life = r
  BY DEF Response, Ack, Data, MessageType, Notes

LEMMA MessageKinds ==
  /\ \A m \in MessageType : m.type # "response" => m \in Notes
  /\ \A m \in MessageType : m.type = "response" => m.id \in Ids /\ m.ok \in BOOLEAN
  /\ \A m \in Notes : /\ m \in MessageType /\ m.type \in {"ack", "data"}
                      /\ m.type = "ack" => m.id \in Ids
                      /\ m.type = "data" => /\ m.chan \in Channels /\ m.id \in 1..MaxData
                                          /\ m.life \in Sessions
  BY DEF MessageType, Notes

LEMMA TypeInit == Init => TypeOK
<1> SUFFICES ASSUME Init PROVE TypeOK
  OBVIOUS
<1> USE DEF Init
<1>1. /\ calls = <<>> /\ queue = <<>> /\ reply = <<>> /\ heard = <<>>
      /\ \A S : <<>> \in Seq(S) /\ Len(<<>>) = 0 /\ DOMAIN <<>> = {}
  OBVIOUS
<1>2. MaxSessions \in Nat /\ MaxRequests \in Nat /\ MaxData \in Nat
  BY BoundsAssumption
<1>3. toServer \in [Sessions -> Seq(Ids)] /\ toClient \in [Sessions -> Seq(MessageType)]
  BY <1>1
<1>4. \A s \in Sessions : \A i \in DOMAIN toServer[s] : toServer[s][i] \in DOMAIN calls
  BY <1>1
<1>5. session \in 0..MaxSessions /\ sentData \in 0..MaxData /\ Len(calls) <= MaxRequests
  BY <1>1, <1>2
<1>6. opened \in [Sessions -> SUBSET Channels] /\ ~(session > 0)
  OBVIOUS
<1> QED
  BY <1>1, <1>3, <1>4, <1>5, <1>6 DEF TypeOK

\* What a request that is sent changes.
LEMMA SendRequestFacts ==
  ASSUME TypeOK, NEW op \in {"start", "stop", "send", "subscribe", "unsubscribe", "ask"},
         NEW c \in Channels, SendRequest(op, c)
  PROVE  LET r == [op |-> op, chan |-> c, session |-> session] IN
         /\ CanSend /\ session \in Sessions
         /\ r \in CallType /\ NextId \in Ids /\ NextId = Len(calls) + 1
         /\ calls' \in Seq(CallType) /\ Len(calls') = NextId
         /\ DOMAIN calls = 1..Len(calls) /\ DOMAIN calls' = 1..NextId
         /\ \A i \in DOMAIN calls : calls'[i] = calls[i]
         /\ calls'[NextId] = r
         /\ pending' = pending \cup {NextId}
         /\ toServer' \in [Sessions -> Seq(Ids)]
         /\ \A s \in Sessions :
              Range(toServer'[s]) = IF s = session /\ sock[s] = "open"
                                    THEN Range(toServer[s]) \cup {NextId} ELSE Range(toServer[s])
<1> DEFINE r == [op |-> op, chan |-> c, session |-> session]
<1>1. CanSend /\ session \in Sessions
  BY DEF SendRequest, CanSend, TypeOK, Sessions
<1>2. r \in CallType
  BY <1>1 DEF CallType
<1>3. calls \in Seq(CallType) /\ Len(calls) \in Nat
  BY LenProperties DEF TypeOK, CallType
<1>4. NextId \in Ids /\ NextId = Len(calls) + 1
  BY <1>3, BoundsAssumption DEF SendRequest, NextId, Ids
<1>5. calls' = Append(calls, r)
  BY DEF SendRequest
<1>6. /\ calls' \in Seq(CallType) /\ Len(calls') = NextId
      /\ DOMAIN calls = 1..Len(calls) /\ DOMAIN calls' = 1..NextId
      /\ \A i \in DOMAIN calls : calls'[i] = calls[i]
      /\ calls'[NextId] = r
  <2> HIDE DEF r
  <2> QED
    BY <1>2, <1>3, <1>4, <1>5, AppendFacts
<1>7. pending' = pending \cup {NextId}
  BY DEF SendRequest
<1>8. \A s \in Sessions : toServer[s] \in Seq(Ids)
  BY DEF TypeOK
<1>9. toServer' \in [Sessions -> Seq(Ids)]
  <2>1. \A s \in Sessions : Append(toServer[s], NextId) \in Seq(Ids)
    BY <1>4, <1>8, AppendFacts
  <2> QED
    BY <2>1 DEF SendRequest, TypeOK
<1>10. ASSUME NEW s \in Sessions
       PROVE  Range(toServer'[s]) = IF s = session /\ sock[s] = "open"
                                    THEN Range(toServer[s]) \cup {NextId} ELSE Range(toServer[s])
  <2>1. toServer'[s] = IF s = session /\ sock[s] = "open" THEN Append(toServer[s], NextId)
                       ELSE toServer[s]
    BY <1>1 DEF SendRequest, Open, TypeOK, Sessions
  <2>2. Range(Append(toServer[s], NextId)) = Range(toServer[s]) \cup {NextId}
    BY <1>4, <1>8, AppendFacts
  <2> QED
    BY <2>1, <2>2
<1> QED
  BY <1>1, <1>2, <1>4, <1>6, <1>7, <1>9, <1>10

LEMMA TypeSendRequest ==
  ASSUME TypeOK, NEW op \in {"start", "stop", "send", "subscribe", "unsubscribe", "ask"},
         NEW c \in Channels, SendRequest(op, c),
         listening' \subseteq Channels, acks' \subseteq acks \cup {NextId},
         queue' = queue /\ processing' = processing /\ heard' = heard /\ unheard' = unheard,
         running' \subseteq LoopType
  PROVE  TypeOK'
<1>1. /\ CallType = [op : {"start", "stop", "send", "subscribe", "unsubscribe", "ask"},
                     chan : Channels, session : Sessions]
      /\ LoopType = [msg : Notes, awaits : {0} \cup Ids]
  BY DEF CallType, LoopType
<1>2. /\ NextId \in Ids /\ NextId = Len(calls) + 1 /\ NextId <= MaxRequests
      /\ calls' \in Seq(CallType) /\ Len(calls') = NextId
      /\ DOMAIN calls \subseteq DOMAIN calls' /\ NextId \in DOMAIN calls'
      /\ pending' = pending \cup {NextId}
      /\ toServer' \in [Sessions -> Seq(Ids)]
      /\ \A s \in Sessions : Range(toServer'[s]) \subseteq Range(toServer[s]) \cup {NextId}
  <2>1. NextId <= MaxRequests
    BY DEF SendRequest
  <2>2. Len(calls) \in Nat
    BY LenProperties DEF TypeOK
  <2>3. /\ NextId \in Ids /\ NextId = Len(calls) + 1
        /\ calls' \in Seq(CallType) /\ Len(calls') = NextId
        /\ DOMAIN calls = 1..Len(calls) /\ DOMAIN calls' = 1..NextId
        /\ pending' = pending \cup {NextId} /\ toServer' \in [Sessions -> Seq(Ids)]
    BY SendRequestFacts
  <2>4. \A s \in Sessions : Range(toServer'[s]) \subseteq Range(toServer[s]) \cup {NextId}
    BY SendRequestFacts
  <2>5. DOMAIN calls \subseteq DOMAIN calls' /\ NextId \in DOMAIN calls'
    BY <2>2, <2>3
  <2> QED
    BY <2>1, <2>3, <2>4, <2>5
<1>3. UNCHANGED <<session, sock, toClient, serverVars, overlap>>
  BY DEF SendRequest
<1>4. \A s \in Sessions : \A i \in DOMAIN toServer'[s] : toServer'[s][i] \in DOMAIN calls'
  BY <1>2 DEF TypeOK, Range
<1>5. late' \subseteq DOMAIN calls'
  BY <1>2, <1>3 DEF TypeOK, serverVars, lateVars
<1> QED
  BY <1>1, <1>2, <1>3, <1>4, <1>5 DEF TypeOK, serverVars, lateVars

\* What a loop leaves of queue q and adds to what was heard.
LEMMA LoopFacts ==
  ASSUME NEW q \in Seq(Notes), NEW others, Loop(q, others)
  PROVE  \/ \E i \in DOMAIN q :
              /\ Take(q, i) /\ q[i] \in Notes
              /\ queue' = SubSeq(q, i + 1, Len(q)) /\ processing'
              /\ running' = others \cup {[msg |-> q[i], awaits |-> 0]}
              /\ unheard' \subseteq unheard \cup {q[j].chan : j \in {k \in 1..i :
                              q[k].type = "data" /\ ~Listened(q[k]) /\ ~HasLeft(q[k])}}
              /\ \/ q[i].type = "ack" /\ acks' \subseteq acks /\ heard' = heard
                 \/ q[i].type = "data" /\ heard' = Append(heard, q[i].id) /\ acks' = acks
         \/ /\ queue' = <<>> /\ processing' = FALSE /\ running' = others
            /\ unheard' \subseteq unheard \cup {q[j].chan : j \in {k \in 1..Len(q) :
                            q[k].type = "data" /\ ~Listened(q[k]) /\ ~HasLeft(q[k])}}
            /\ heard' = heard /\ acks' = acks
<1>1. \A i \in DOMAIN q : q[i] \in Notes
  BY LenProperties, ElementOfSeq
<1>2. \A i \in DOMAIN q : q[i].type \in {"ack", "data"}
  BY <1>1, MessageKinds
<1> QED
  BY <1>1, <1>2 DEF Loop

LEMMA TypeLoop ==
  ASSUME TypeOK, NEW q \in Seq(Notes), NEW others, others \subseteq LoopType, Loop(q, others)
  PROVE  /\ queue' \in Seq(Notes) /\ processing' \in BOOLEAN /\ running' \subseteq LoopType
         /\ unheard' \subseteq Channels /\ acks' \subseteq acks /\ heard' \in Seq(1..MaxData)
<1>1. /\ Len(q) \in Nat /\ DOMAIN q = 1..Len(q)
      /\ \A i \in DOMAIN q : SubSeq(q, i + 1, Len(q)) \in Seq(Notes)
  BY CutFacts
<1>2. \A i \in DOMAIN q : /\ q[i] \in Notes
                          /\ q[i].type = "data" => q[i].chan \in Channels /\ q[i].id \in 1..MaxData
  BY <1>1, ElementOfSeq, MessageKinds
<1>3. \A m \in Notes : [msg |-> m, awaits |-> 0] \in LoopType
  BY DEF LoopType
<1>4. \A n \in 1..MaxData : Append(heard, n) \in Seq(1..MaxData)
  BY AppendProperties DEF TypeOK
<1>5. unheard \subseteq Channels /\ heard \in Seq(1..MaxData) /\ <<>> \in Seq(Notes)
  BY DEF TypeOK
<1>6. CASE \E i \in DOMAIN q :
             /\ Take(q, i) /\ q[i] \in Notes
             /\ queue' = SubSeq(q, i + 1, Len(q)) /\ processing'
             /\ running' = others \cup {[msg |-> q[i], awaits |-> 0]}
             /\ unheard' \subseteq unheard \cup {q[j].chan : j \in {k \in 1..i :
                             q[k].type = "data" /\ ~Listened(q[k]) /\ ~HasLeft(q[k])}}
             /\ \/ q[i].type = "ack" /\ acks' \subseteq acks /\ heard' = heard
                \/ q[i].type = "data" /\ heard' = Append(heard, q[i].id) /\ acks' = acks
  <2> PICK i \in DOMAIN q :
             /\ queue' = SubSeq(q, i + 1, Len(q)) /\ processing'
             /\ running' = others \cup {[msg |-> q[i], awaits |-> 0]}
             /\ unheard' \subseteq unheard \cup {q[j].chan : j \in {k \in 1..i :
                             q[k].type = "data" /\ ~Listened(q[k]) /\ ~HasLeft(q[k])}}
             /\ \/ q[i].type = "ack" /\ acks' \subseteq acks /\ heard' = heard
                \/ q[i].type = "data" /\ heard' = Append(heard, q[i].id) /\ acks' = acks
    BY <1>6
  <2>1. \A k \in 1..i : k \in DOMAIN q
    BY <1>1
  <2>2. unheard' \subseteq Channels
    BY <1>2, <1>5, <2>1
  <2>3. heard' \in Seq(1..MaxData)
    BY <1>2, <1>4, <1>5
  <2>4. processing' \in BOOLEAN
    BY <1>6 DEF Loop
  <2> QED
    BY <1>1, <1>2, <1>3, <2>2, <2>3, <2>4
<1>7. CASE /\ queue' = <<>> /\ processing' = FALSE /\ running' = others
           /\ unheard' \subseteq unheard \cup {q[j].chan : j \in {k \in 1..Len(q) :
                           q[k].type = "data" /\ ~Listened(q[k]) /\ ~HasLeft(q[k])}}
           /\ heard' = heard /\ acks' = acks
  <2>1. unheard' \subseteq Channels
    BY <1>1, <1>2, <1>5, <1>7
  <2> QED
    BY <1>5, <1>7, <2>1
<1> QED
  BY <1>6, <1>7, LoopFacts

LEMMA CallTypes ==
  ASSUME TypeOK
  PROVE  /\ calls \in Seq(CallType) /\ Len(calls) \in Nat /\ DOMAIN calls = 1..Len(calls)
         /\ \A i \in DOMAIN calls : calls[i] \in CallType
<1>1. calls \in Seq(CallType)
  BY DEF TypeOK, CallType
<1> QED
  BY <1>1, LenProperties, ElementOfSeq

\* The server takes the oldest request of its open socket.
LEMMA HandledFacts ==
  ASSUME TypeOK, NEW s \in Sessions, HandleClientMessage(s)
  PROVE  LET i == Head(toServer[s])
             c == calls[i].chan
         IN  /\ sock[s] = "open" /\ reply = <<>> /\ toServer[s] # <<>>
             /\ i \in Ids /\ i \in DOMAIN calls /\ calls[i] \in CallType
             /\ toServer' = [toServer EXCEPT ![s] = Tail(@)]
             /\ \/ \E ok \in BOOLEAN : reply' = <<Response(i, ok)>>
                \/ reply' = <<Ack(i), Response(i, TRUE)>> /\ i \in accepted'
             /\ accepted \subseteq accepted' /\ accepted' \subseteq accepted \cup {i}
             /\ started' \subseteq started \cup {c}
             /\ \/ opened' = opened /\ started' \subseteq started
                \/ opened' = [opened EXCEPT ![session] = @ \cup {c}]
             /\ UNCHANGED lateVars
<1> DEFINE i == Head(toServer[s])  c == calls[i].chan
<1>1. sock[s] = "open" /\ reply = <<>> /\ toServer[s] # <<>>
  BY DEF HandleClientMessage, Open
<1>2. i \in Ids /\ i \in DOMAIN calls
  <2>1. toServer[s] \in Seq(Ids)
    BY DEF TypeOK
  <2>2. i \in Ids /\ i = toServer[s][1] /\ 1 \in DOMAIN toServer[s]
    BY <1>1, <2>1, TailFacts
  <2> QED
    BY <2>2 DEF TypeOK
<1>3. calls[i] \in CallType
  BY <1>2, CallTypes
<1>4. \/ HandleStart(s, i, c) \/ HandleStop(s, i, c) \/ HandleSend(s, i)
      \/ HandleSubscribe(s, i, c) \/ HandleUnsubscribe(s, i, c) \/ HandleAsk(s, i)
  BY DEF HandleClientMessage
<1> HIDE DEF i, c
<1>5. toServer' = [toServer EXCEPT ![s] = Tail(@)]
  BY <1>4 DEF HandleStart, HandleStop, HandleSend, Accepts, HandleSubscribe, HandleUnsubscribe,
              HandleAsk, Answer
<1>6. \/ \E ok \in BOOLEAN : reply' = <<Response(i, ok)>>
      \/ reply' = <<Ack(i), Response(i, TRUE)>> /\ i \in accepted'
  <2>1. CASE HandleStart(s, i, c)
    <3>1. (c \notin started) \in BOOLEAN
      OBVIOUS
    <3> QED
      BY <2>1, <3>1 DEF HandleStart, Answer
  <2>2. CASE HandleStop(s, i, c)
    <3>1. (c \in started) \in BOOLEAN
      OBVIOUS
    <3> QED
      BY <2>2, <3>1 DEF HandleStop, Answer
  <2>3. CASE HandleSend(s, i)
    BY <2>3 DEF HandleSend, Accepts, Answer
  <2>4. CASE HandleSubscribe(s, i, c) \/ HandleUnsubscribe(s, i, c) \/ HandleAsk(s, i)
    BY <2>4 DEF HandleSubscribe, HandleUnsubscribe, HandleAsk, Answer
  <2> QED
    BY <1>4, <2>1, <2>2, <2>3, <2>4
<1>7. accepted \subseteq accepted' /\ accepted' \subseteq accepted \cup {i}
  BY <1>4 DEF HandleStart, HandleStop, HandleSend, Accepts, HandleSubscribe, HandleUnsubscribe,
              HandleAsk
<1>8. /\ started' \subseteq started \cup {c}
      /\ \/ opened' = opened /\ started' \subseteq started
         \/ opened' = [opened EXCEPT ![session] = @ \cup {c}]
  BY <1>4 DEF HandleStart, HandleStop, HandleSend, Accepts, HandleSubscribe, HandleUnsubscribe,
              HandleAsk, Opens, Leaves
<1>9. UNCHANGED lateVars
  BY DEF HandleClientMessage
<1> QED
  BY <1>1, <1>2, <1>3, <1>5, <1>6, <1>7, <1>8, <1>9 DEF i, c

\* The server keeps the types of what belongs to the session's peer.
LEMMA PeerTypes ==
  ASSUME TypeOK, NEW c \in Channels, started' \subseteq started \cup {c},
         \/ opened' = opened /\ started' \subseteq started
         \/ opened' = [opened EXCEPT ![session] = @ \cup {c}],
         session' = session
  PROVE  /\ started' \subseteq Channels /\ opened' \in [Sessions -> SUBSET Channels]
         /\ session' > 0 => started' \subseteq opened'[session']
<1>1. /\ started \subseteq Channels /\ opened \in [Sessions -> SUBSET Channels]
      /\ session > 0 => session \in Sessions /\ started \subseteq opened[session]
  BY BoundsAssumption DEF TypeOK, Sessions
<1>2. CASE opened' = opened /\ started' \subseteq started
  BY <1>1, <1>2
<1>3. CASE opened' = [opened EXCEPT ![session] = @ \cup {c}]
  <2>1. opened' \in [Sessions -> SUBSET Channels]
    BY <1>1, <1>3
  <2>2. session > 0 => opened'[session] = opened[session] \cup {c}
    BY <1>1, <1>3
  <2> QED
    BY <1>1, <2>1, <2>2
<1> QED
  BY <1>2, <1>3

\* A late request of a session that has ended works on the present one.
LEMMA LateFacts ==
  ASSUME TypeOK, NEW i \in late, LateRequest(i)
  PROVE  LET c == calls[i].chan IN
         /\ session \in Sessions /\ sock[session] = "open"
         /\ i \in Ids /\ i \in DOMAIN calls /\ calls[i] \in CallType /\ c \in Channels
         /\ UNCHANGED <<session, sock, toServer, reply, sentData, pageVars, queueVars, overlap>>
         /\ late' \subseteq late /\ intruded \subseteq intruded' /\ intruded' \subseteq intruded \cup {c}
         /\ accepted \subseteq accepted' /\ accepted' \subseteq accepted \cup {i}
         /\ \/ toClient' = toClient
            \/ /\ toClient' = [toClient EXCEPT ![session] = Append(@, Ack(i))]
               /\ i \in accepted'
         /\ \/ UNCHANGED <<started, opened>>
            \/ /\ c \in intruded'
               /\ started' \subseteq started \cup {c} /\ started \subseteq started' \cup {c}
               /\ \/ opened' = opened /\ started' \subseteq started
                  \/ opened' = [opened EXCEPT ![session] = @ \cup {c}]
<1> DEFINE c == calls[i].chan
<1>1. session \in Sessions /\ sock[session] = "open"
  BY BoundsAssumption DEF LateRequest, Open, TypeOK, Sessions
<1>2. i \in DOMAIN calls /\ calls[i] \in CallType
  BY CallTypes DEF TypeOK
<1>3. i \in Ids /\ c \in Channels
  <2>1. Len(calls) \in Nat /\ DOMAIN calls = 1..Len(calls) /\ Len(calls) <= MaxRequests
    BY CallTypes DEF TypeOK
  <2> QED
    BY <1>2, <2>1, BoundsAssumption DEF Ids, CallType
<1>4. /\ UNCHANGED <<session, sock, toServer, reply, sentData, pageVars, queueVars, overlap>>
      /\ late' \subseteq late
      /\ LateStart(i, c) \/ LateStop(i, c) \/ LateSend(i)
  BY DEF LateRequest
<1> HIDE DEF c
<1>5. /\ intruded \subseteq intruded' /\ intruded' \subseteq intruded \cup {c}
      /\ accepted \subseteq accepted' /\ accepted' \subseteq accepted \cup {i}
      /\ \/ toClient' = toClient
         \/ toClient' = [toClient EXCEPT ![session] = Append(@, Ack(i))] /\ i \in accepted'
  BY <1>4 DEF LateStart, LateStop, LateSend
<1>6. \/ UNCHANGED <<started, opened>>
      \/ /\ c \in intruded'
         /\ started' \subseteq started \cup {c} /\ started \subseteq started' \cup {c}
         /\ \/ opened' = opened /\ started' \subseteq started
            \/ opened' = [opened EXCEPT ![session] = @ \cup {c}]
  BY <1>4 DEF LateStart, LateStop, LateSend, Opens, Leaves
<1> QED
  BY <1>1, <1>2, <1>3, <1>4, <1>5, <1>6 DEF c

\* A message that is received is the oldest one on its way.
LEMMA ReceivedFacts ==
  ASSUME TypeOK, NEW s \in Sessions, HandleMessage(s)
  PROVE  LET m == Head(toClient[s]) IN
         /\ sock[s] \in {"open", "lost"} /\ toClient[s] # <<>> /\ toClient[s] \in Seq(MessageType)
         /\ m \in MessageType
         /\ toClient' = [toClient EXCEPT ![s] = Tail(@)]
         /\ \/ m.type = "response" /\ HandleResponse(m)
            \/ /\ m.type # "response" /\ m \in Notes
               /\ Append(queue, m) \in Seq(Notes)
               /\ HandleRequest(m)
         /\ UNCHANGED <<calls, session, sock, toServer, serverVars, overlap>>
<1> DEFINE m == Head(toClient[s])
<1>1. /\ sock[s] \in {"open", "lost"} /\ toClient[s] # <<>>
      /\ toClient' = [toClient EXCEPT ![s] = Tail(@)]
      /\ UNCHANGED <<calls, session, sock, toServer, serverVars, overlap>>
      /\ \/ m.type = "response" /\ HandleResponse(m)
         \/ m.type # "response" /\ HandleRequest(m)
  BY DEF HandleMessage, IsImmediate
<1>2. toClient[s] \in Seq(MessageType)
  BY DEF TypeOK
<1>3. m \in MessageType
  BY <1>1, <1>2, TailFacts
<1>4. m.type # "response" => m \in Notes
  BY <1>3, MessageKinds
<1>5. m \in Notes => Append(queue, m) \in Seq(Notes)
  BY AppendProperties DEF TypeOK
<1> QED
  BY <1>1, <1>2, <1>3, <1>4, <1>5

LEMMA TypeCall == ASSUME TypeOK, Call PROVE TypeOK'
<1> USE DEF Channels
<1>1. ASSUME NEW c \in Protocols, Start(c) PROVE TypeOK'
  <2>1. listening' \subseteq Channels /\ running' \subseteq LoopType
    BY <1>1 DEF Start, TypeOK, queueVars, LoopType
  <2> QED
    BY <1>1, <2>1, TypeSendRequest DEF Start, queueVars
<1>2. ASSUME NEW c \in Protocols, Stop(c) PROVE TypeOK'
  <2>1. listening' \subseteq Channels /\ running' \subseteq LoopType
    BY <1>2 DEF Stop, TypeOK, queueVars, LoopType
  <2> QED
    BY <1>2, <2>1, TypeSendRequest DEF Stop, queueVars
<1>3. ASSUME NEW c \in Protocols, Send(c) PROVE TypeOK'
  <2>1. listening' \subseteq Channels /\ running' \subseteq LoopType
    BY <1>3 DEF Send, TypeOK, queueVars, LoopType
  <2> QED
    BY <1>3, <2>1, TypeSendRequest DEF Send, queueVars
<1>4. ASSUME NEW t \in Topics, Subscribe(t) \/ Unsubscribe(t) PROVE TypeOK'
  <2>1. listening' \subseteq Channels /\ running' \subseteq LoopType
    BY <1>4 DEF Subscribe, Unsubscribe, TypeOK, queueVars, LoopType
  <2>2. CASE SendRequest("subscribe", t) \/ SendRequest("unsubscribe", t)
    BY <1>4, <2>1, <2>2, TypeSendRequest DEF Subscribe, Unsubscribe, queueVars
  <2>3. CASE UNCHANGED <<calls, pending, wireVars, serverVars, overlap>>
    BY <1>4, <2>1, <2>3 DEF Subscribe, Unsubscribe, TypeOK, queueVars, wireVars, serverVars, lateVars
  <2> QED
    BY <1>4, <2>2, <2>3 DEF Subscribe, Unsubscribe, Request
<1>5. ASSUME NEW r \in running, NEW t \in Topics, ListenerAsks(r, t) PROVE TypeOK'
  <2>1. NextId \in Ids
    BY <1>5, SendRequestFacts DEF ListenerAsks
  <2>2. r \in LoopType
    BY DEF TypeOK, LoopType
  <2>3. [r EXCEPT !.awaits = NextId] \in LoopType
    BY <2>1, <2>2 DEF LoopType
  <2>4. listening' \subseteq Channels /\ running' \subseteq LoopType
    BY <1>5, <2>3 DEF ListenerAsks, TypeOK, LoopType
  <2> QED
    BY <1>5, <2>4, TypeSendRequest DEF ListenerAsks
<1> QED
  BY <1>1, <1>2, <1>3, <1>4, <1>5 DEF Call

LEMMA TypeServer ==
  ASSUME TypeOK, NEW s \in Sessions, HandleClientMessage(s) \/ SendMessage(s)
  PROVE  TypeOK'
<1>1. CASE HandleClientMessage(s)
  <2> DEFINE i == Head(toServer[s])  c == calls[i].chan
  <2>1. /\ i \in Ids /\ i \in DOMAIN calls /\ c \in Channels
        /\ toServer[s] # <<>> /\ toServer' = [toServer EXCEPT ![s] = Tail(@)]
        /\ \/ \E ok \in BOOLEAN : reply' = <<Response(i, ok)>>
           \/ reply' = <<Ack(i), Response(i, TRUE)>>
        /\ accepted' \subseteq accepted \cup {i}
    BY <1>1, HandledFacts DEF CallType
  <2>2. /\ started' \subseteq started \cup {c}
        /\ \/ opened' = opened /\ started' \subseteq started
           \/ opened' = [opened EXCEPT ![session] = @ \cup {c}]
    BY <1>1, HandledFacts
  <2> HIDE DEF i, c
  <2>3. UNCHANGED <<session, sock, toClient, pageVars, queueVars, sentData, lateVars, overlap>>
    BY <1>1 DEF HandleClientMessage
  <2>4. reply' \in Seq(MessageType)
    <3>1. /\ \A ok \in BOOLEAN : Response(i, ok) \in MessageType
          /\ Ack(i) \in MessageType /\ TRUE \in BOOLEAN
      BY <2>1, Messages, MessageKinds
    <3>2. \A x \in MessageType : <<x>> \in Seq(MessageType)
      OBVIOUS
    <3>3. \A x, y \in MessageType : <<x, y>> \in Seq(MessageType)
      OBVIOUS
    <3> QED
      BY <2>1, <3>1, <3>2, <3>3
  <2>5. toServer[s] \in Seq(Ids)
    BY DEF TypeOK
  <2>6. toServer' \in [Sessions -> Seq(Ids)]
    BY <2>1, <2>5, TailFacts DEF TypeOK
  <2>7. \A r \in Sessions : \A j \in DOMAIN toServer'[r] : toServer'[r][j] \in DOMAIN calls
    <3> SUFFICES ASSUME NEW r \in Sessions, NEW j \in DOMAIN toServer'[r]
                 PROVE  toServer'[r][j] \in DOMAIN calls
      OBVIOUS
    <3>1. CASE r = s
      <4>1. toServer'[s] = Tail(toServer[s])
        BY <2>1 DEF TypeOK
      <4>2. /\ DOMAIN toServer[s] = 1..Len(toServer[s]) /\ Len(toServer[s]) \in Nat
            /\ DOMAIN toServer'[s] = 1 .. Len(toServer[s]) - 1
            /\ \A k \in 1 .. Len(toServer[s]) - 1 : toServer'[s][k] = toServer[s][k + 1]
        BY <2>1, <2>5, <4>1, TailFacts, ZenonT(40)
      <4>3. j + 1 \in DOMAIN toServer[s] /\ toServer'[s][j] = toServer[s][j + 1]
        BY <3>1, <4>2
      <4> QED
        BY <3>1, <4>3 DEF TypeOK
    <3>2. CASE r # s
      BY <2>1, <3>2 DEF TypeOK
    <3> QED
      BY <3>1, <3>2
  <2>8. /\ started' \subseteq Channels /\ opened' \in [Sessions -> SUBSET Channels]
        /\ session' > 0 => started' \subseteq opened'[session']
    BY <2>1, <2>2, <2>3, PeerTypes
  <2> QED
    BY <2>1, <2>3, <2>4, <2>6, <2>7, <2>8 DEF TypeOK, pageVars, queueVars, lateVars
<1>2. CASE SendMessage(s)
  <2>1. reply # <<>> /\ reply \in Seq(MessageType) /\ toClient[s] \in Seq(MessageType)
    BY <1>2 DEF SendMessage, TypeOK
  <2>2. Head(reply) \in MessageType /\ Tail(reply) \in Seq(MessageType)
    BY <2>1, TailFacts
  <2>3. Append(toClient[s], Head(reply)) \in Seq(MessageType)
    BY <2>1, <2>2, AppendFacts
  <2> QED
    BY <1>2, <2>2, <2>3 DEF SendMessage, TypeOK, pageVars, queueVars, lateVars
<1> QED
  BY <1>1, <1>2

LEMMA TypeClient ==
  ASSUME TypeOK, NEW s \in Sessions, HandleMessage(s)
  PROVE  TypeOK'
<1> DEFINE m == Head(toClient[s])
<1>1. /\ m \in MessageType
      /\ toClient[s] # <<>> /\ toClient[s] \in Seq(MessageType)
      /\ toClient' = [toClient EXCEPT ![s] = Tail(@)]
      /\ UNCHANGED <<calls, session, sock, toServer, serverVars, overlap>>
  BY ReceivedFacts
<1>2. toClient' \in [Sessions -> Seq(MessageType)]
  BY <1>1, TailFacts DEF TypeOK
<1>3. CASE m.type = "response" /\ HandleResponse(m)
  <2>1. m.id \in pending => calls[m.id].chan \in Channels
    <3>1. \A i \in DOMAIN calls : calls[i] \in CallType
      BY CallTypes
    <3> QED
      BY <3>1 DEF TypeOK, CallType
  <2>2. pending' \subseteq pending /\ listening' \subseteq Channels
    BY <1>3, <2>1 DEF HandleResponse, TypeOK
  <2> QED
    BY <1>1, <1>2, <1>3, <2>2 DEF HandleResponse, TypeOK, serverVars, lateVars, queueVars
<1>4. CASE m \in Notes /\ Append(queue, m) \in Seq(Notes) /\ HandleRequest(m)
  <2> HIDE DEF m
  <2>1. /\ queue' \in Seq(Notes) /\ processing' \in BOOLEAN /\ running' \subseteq LoopType
        /\ unheard' \subseteq Channels /\ acks' \subseteq acks /\ heard' \in Seq(1..MaxData)
    <3>1. CASE processing
      BY <1>4, <3>1 DEF HandleRequest, TypeOK, LoopType
    <3>2. CASE ~processing
      <4>1. running \subseteq LoopType
        BY DEF TypeOK, LoopType
      <4> QED
        BY <1>4, <3>2, <4>1, TypeLoop DEF HandleRequest
    <3> QED
      BY <3>1, <3>2
  <2>2. UNCHANGED <<pending, listening>>
    BY <1>4 DEF HandleRequest
  <2> QED
    BY <1>1, <1>2, <2>1, <2>2 DEF TypeOK, serverVars, lateVars, LoopType
<1> QED
  BY <1>3, <1>4, ReceivedFacts

LEMMA HandInDomain == \A s : InHand(s) \subseteq DOMAIN calls
BY DEF InHand

LEMMA TypeLate == ASSUME TypeOK, NEW i \in late, LateRequest(i) PROVE TypeOK'
<1> DEFINE c == calls[i].chan
<1>1. /\ session \in Sessions /\ i \in Ids /\ i \in DOMAIN calls /\ c \in Channels
      /\ UNCHANGED <<session, sock, toServer, reply, sentData, pageVars, queueVars, overlap>>
      /\ late' \subseteq late /\ intruded' \subseteq intruded \cup {c}
      /\ accepted' \subseteq accepted \cup {i}
      /\ \/ toClient' = toClient
         \/ toClient' = [toClient EXCEPT ![session] = Append(@, Ack(i))]
  BY LateFacts
<1>2. /\ started' \subseteq started \cup {c}
      /\ \/ opened' = opened /\ started' \subseteq started
         \/ opened' = [opened EXCEPT ![session] = @ \cup {c}]
  BY LateFacts
<1> HIDE DEF c
<1>3. /\ started' \subseteq Channels /\ opened' \in [Sessions -> SUBSET Channels]
      /\ session' > 0 => started' \subseteq opened'[session']
  BY <1>1, <1>2, PeerTypes
<1>4. toClient' \in [Sessions -> Seq(MessageType)]
  <2>1. Ack(i) \in MessageType /\ toClient[session] \in Seq(MessageType)
    BY <1>1, Messages, MessageKinds DEF TypeOK
  <2>2. Append(toClient[session], Ack(i)) \in Seq(MessageType)
    BY <2>1, AppendFacts
  <2> QED
    BY <1>1, <2>2 DEF TypeOK
<1> QED
  BY <1>1, <1>3, <1>4 DEF TypeOK, pageVars, queueVars

LEMMA TypeStep == ASSUME TypeOK, [Next]_vars PROVE TypeOK'
<1>1. CASE Connect
  <2>1. session + 1 \in Sessions /\ session + 1 \in 0..MaxSessions /\ <<>> \in Seq(MessageType)
    BY <1>1, BoundsAssumption DEF Connect, TypeOK, Sessions
  <2> QED
    BY <1>1, <2>1 DEF Connect, TypeOK, pageVars, queueVars, lateVars
<1>2. CASE Close
  <2>1. \A S : <<>> \in Seq(S) /\ DOMAIN <<>> = {}
    OBVIOUS
  <2>2. /\ toServer' \in [Sessions -> Seq(Ids)] /\ toClient' \in [Sessions -> Seq(MessageType)]
        /\ \A s \in Sessions : toServer'[s] = toServer[s] \/ toServer'[s] = <<>>
    BY <1>2, <2>1 DEF Close, TypeOK
  <2>3. \A s \in Sessions : \A i \in DOMAIN toServer'[s] : toServer'[s][i] \in DOMAIN calls
    BY <2>1, <2>2 DEF TypeOK
  <2> QED
    BY <1>2, <2>2, <2>3, HandInDomain DEF Close, TypeOK, pageVars, queueVars
<1>3. CASE Returns
  <2> PICK r \in running : ListenerReturns(r)
    BY <1>3 DEF Returns
  <2>1. queue \in Seq(Notes) /\ running \ {r} \subseteq LoopType
    BY DEF TypeOK, LoopType
  <2>2. /\ queue' \in Seq(Notes) /\ processing' \in BOOLEAN /\ running' \subseteq LoopType
        /\ unheard' \subseteq Channels /\ acks' \subseteq acks /\ heard' \in Seq(1..MaxData)
    BY <2>1, TypeLoop DEF ListenerReturns
  <2> QED
    BY <2>2 DEF ListenerReturns, TypeOK, wireVars, serverVars, lateVars, LoopType
<1>4. ASSUME NEW r \in Sessions, NEW c \in Channels, Notify(r, c) PROVE TypeOK'
  <2>1. sentData + 1 \in 1..MaxData /\ sentData + 1 \in 0..MaxData /\ session \in Sessions
    BY <1>4, BoundsAssumption DEF Notify, TypeOK, Sessions, Open
  <2>2. Data(c, sentData + 1, r) \in MessageType
    BY <2>1, Messages, MessageKinds
  <2>3. toClient[session] \in Seq(MessageType)
    BY <2>1 DEF TypeOK
  <2>4. Append(toClient[session], Data(c, sentData + 1, r)) \in Seq(MessageType)
    BY <2>2, <2>3, AppendFacts
  <2>5. toClient' \in [Sessions -> Seq(MessageType)] /\ sentData' \in 0..MaxData
    BY <1>4, <2>1, <2>4 DEF Notify, TypeOK
  <2> QED
    BY <1>4, <2>5 DEF Notify, TypeOK, pageVars, queueVars, lateVars
<1>5. ASSUME NEW s \in Sessions, CloseEvent(s) PROVE TypeOK'
  <2>1. <<>> \in Seq(Notes)
    OBVIOUS
  <2> QED
    BY <1>5, <2>1 DEF CloseEvent, HandleClose, TypeOK, serverVars, lateVars
<1>6. ASSUME NEW s \in Sessions, SocketLost(s) PROVE TypeOK'
  <2>1. toClient[s] \in Seq(MessageType)
    BY DEF TypeOK
  <2>2. PICK n \in 0..Len(toClient[s]) : toClient' = [toClient EXCEPT ![s] = SubSeq(@, 1, n)]
    BY <1>6 DEF SocketLost
  <2>3. SubSeq(toClient[s], 1, n) \in Seq(MessageType)
    BY <2>1, CutFacts
  <2>4. toClient' \in [Sessions -> Seq(MessageType)]
    BY <2>2, <2>3 DEF TypeOK
  <2>5. \A S : <<>> \in Seq(S) /\ DOMAIN <<>> = {}
    OBVIOUS
  <2>6. /\ toServer' \in [Sessions -> Seq(Ids)]
        /\ \A r \in Sessions : toServer'[r] = toServer[r] \/ toServer'[r] = <<>>
    BY <1>6, <2>5 DEF SocketLost, TypeOK
  <2>7. \A r \in Sessions : \A i \in DOMAIN toServer'[r] : toServer'[r][i] \in DOMAIN calls
    BY <2>5, <2>6 DEF TypeOK
  <2> QED
    BY <1>6, <2>4, <2>6, <2>7, HandInDomain DEF SocketLost, TypeOK, pageVars, queueVars
<1>7. CASE UNCHANGED vars
  BY <1>7 DEF vars, pageVars, queueVars, serverVars, lateVars, wireVars, TypeOK
<1> QED
  BY <1>1, <1>2, <1>3, <1>4, <1>5, <1>6, <1>7, TypeCall, TypeServer, TypeClient, TypeLate DEF Next

\* Every variable has its type, whatever the page does.
THEOREM TypeCorrect == Spec => []TypeOK
<1>1. TypeOK /\ [Next]_vars => TypeOK'
  BY TypeStep
<1> QED
  BY <1>1, TypeInit, PTL DEF Spec

-----------------------------------------------------------------------------
(* Acks                                                                    *)

\* The messages that are on their way to a listener.
Awaited(loops) == {r.msg : r \in loops}
OnWire == UNION {Range(toClient[s]) : s \in Sessions}
Underway == Range(reply) \cup Range(queue) \cup OnWire \cup Awaited(running)

AcksAccepted == \A m \in Underway : m.type = "ack" => m.id \in accepted

\* A loop hears of no message that was not in its queue.
LEMMA LoopKeeps ==
  ASSUME NEW q \in Seq(Notes), NEW others, Loop(q, others)
  PROVE  Range(queue') \cup Awaited(running') \subseteq Range(q) \cup Awaited(others)
<1>1. CASE \E i \in DOMAIN q : /\ queue' = SubSeq(q, i + 1, Len(q))
                               /\ running' = others \cup {[msg |-> q[i], awaits |-> 0]}
  <2> PICK i \in DOMAIN q : /\ queue' = SubSeq(q, i + 1, Len(q))
                            /\ running' = others \cup {[msg |-> q[i], awaits |-> 0]}
    BY <1>1
  <2>1. Range(queue') \subseteq Range(q) /\ q[i] \in Range(q)
    BY RangeCut
  <2>2. Awaited(running') \subseteq Awaited(others) \cup {q[i]}
    BY DEF Awaited
  <2> QED
    BY <2>1, <2>2
<1>2. CASE queue' = <<>> /\ running' = others
  BY <1>2, EmptyFacts
<1> QED
  BY <1>1, <1>2, LoopFacts

LEMMA AcksKept ==
  ASSUME AcksAccepted, accepted \subseteq accepted',
         \A m \in Underway' : m \in Underway \/ m.type # "ack" \/ m.id \in accepted'
  PROVE  AcksAccepted'
BY DEF AcksAccepted

LEMMA AcksStep == ASSUME TypeOK, AcksAccepted, [Next]_vars PROVE AcksAccepted'
<1> USE DEF pageVars, queueVars, serverVars, lateVars, wireVars
<1>1. CASE Connect \/ UNCHANGED vars
  <2>1. \A m \in Range(reply') : m \in Range(reply)
    BY <1>1, EmptyFacts DEF Connect, vars
  <2>2. UNCHANGED <<queue, toClient, running, accepted>>
    BY <1>1 DEF Connect, vars
  <2> QED
    BY <2>1, <2>2, AcksKept DEF Underway, OnWire
<1>2. CASE Close
  <2>1. \A s \in Sessions : Range(toClient'[s]) \subseteq Range(toClient[s])
    BY <1>2, EmptyFacts DEF Close, TypeOK
  <2>2. UNCHANGED <<reply, queue, running, accepted>>
    BY <1>2 DEF Close
  <2> QED
    BY <2>1, <2>2, AcksKept DEF Underway, OnWire
<1>3. CASE Call
  <2>1. UNCHANGED <<reply, queue, toClient, accepted>>
    BY <1>3 DEF Call, Start, Stop, Send, Subscribe, Unsubscribe, Request, ListenerAsks, SendRequest
  <2>2. Awaited(running') \subseteq Awaited(running)
    <3>1. CASE running' = running
      BY <3>1
    <3>2. ASSUME NEW r \in running, NEW t \in Topics, ListenerAsks(r, t)
          PROVE  Awaited(running') \subseteq Awaited(running)
      <4>1. r \in LoopType
        BY DEF TypeOK, LoopType
      <4>2. [r EXCEPT !.awaits = NextId].msg = r.msg
        BY <4>1 DEF LoopType
      <4> QED
        BY <3>2, <4>2 DEF ListenerAsks, Awaited
    <3> QED
      BY <1>3, <3>1, <3>2 DEF Call, Start, Stop, Send, Subscribe, Unsubscribe
  <2> QED
    BY <2>1, <2>2, AcksKept DEF Underway, OnWire
<1>4. CASE Returns
  <2> PICK r \in running : ListenerReturns(r)
    BY <1>4 DEF Returns
  <2>1. queue \in Seq(Notes) /\ Loop(queue, running \ {r})
    BY DEF TypeOK, ListenerReturns
  <2>2. Range(queue') \cup Awaited(running') \subseteq Range(queue) \cup Awaited(running)
    <3>1. Awaited(running \ {r}) \subseteq Awaited(running)
      BY DEF Awaited
    <3> QED
      BY <2>1, <3>1, LoopKeeps
  <2>3. UNCHANGED <<reply, toClient, accepted>>
    BY DEF ListenerReturns
  <2>4. Underway' \subseteq Underway
    BY <2>2, <2>3 DEF Underway, OnWire
  <2> QED
    BY <2>3, <2>4, AcksKept
<1>5. ASSUME NEW r \in Sessions, NEW c \in Channels, Notify(r, c) PROVE AcksAccepted'
  <2>1. session \in Sessions /\ sentData + 1 \in 1..MaxData
    BY <1>5, BoundsAssumption DEF Notify, TypeOK, Sessions, Open
  <2>2. Data(c, sentData + 1, r) \in MessageType /\ Data(c, sentData + 1, r).type # "ack"
    BY <2>1, Messages, MessageKinds
  <2>3. toClient[session] \in Seq(MessageType)
    BY <2>1 DEF TypeOK
  <2>4. Range(Append(toClient[session], Data(c, sentData + 1, r)))
          = Range(toClient[session]) \cup {Data(c, sentData + 1, r)}
    BY <2>2, <2>3, AppendFacts
  <2>5. \A s \in Sessions :
          Range(toClient'[s]) \subseteq Range(toClient[s]) \cup {Data(c, sentData + 1, r)}
    BY <1>5, <2>4 DEF Notify, TypeOK
  <2>6. UNCHANGED <<reply, queue, running, accepted>>
    BY <1>5 DEF Notify
  <2> QED
    BY <2>2, <2>5, <2>6, AcksKept DEF Underway, OnWire
<1>6. ASSUME NEW s \in Sessions, HandleClientMessage(s) PROVE AcksAccepted'
  <2> DEFINE i == Head(toServer[s])
  <2>1. /\ i \in Ids /\ accepted \subseteq accepted'
        /\ \/ \E ok \in BOOLEAN : reply' = <<Response(i, ok)>>
           \/ reply' = <<Ack(i), Response(i, TRUE)>> /\ i \in accepted'
    BY <1>6, HandledFacts
  <2> HIDE DEF i
  <2>2. \A m \in Range(reply') : m.type # "ack" \/ m.id \in accepted'
    <3>1. \A ok \in BOOLEAN : Response(i, ok).type # "ack"
      BY DEF Response
    <3>2. Ack(i).id = i /\ Response(i, TRUE).type # "ack"
      BY DEF Ack, Response
    <3>3. CASE \E ok \in BOOLEAN : reply' = <<Response(i, ok)>>
      <4> PICK ok \in BOOLEAN : reply' = <<Response(i, ok)>>
        BY <3>3
      <4>1. Range(reply') = {Response(i, ok)}
        BY PairFacts
      <4> QED
        BY <3>1, <4>1
    <3>4. CASE reply' = <<Ack(i), Response(i, TRUE)>> /\ i \in accepted'
      <4>1. Range(reply') = {Ack(i), Response(i, TRUE)}
        BY <3>4, PairFacts
      <4> QED
        BY <3>2, <3>4, <4>1
    <3> QED
      BY <2>1, <3>3, <3>4
  <2>3. UNCHANGED <<queue, toClient, running>>
    BY <1>6 DEF HandleClientMessage
  <2> QED
    BY <2>1, <2>2, <2>3, AcksKept DEF Underway, OnWire
<1>7. ASSUME NEW s \in Sessions, SendMessage(s) PROVE AcksAccepted'
  <2>1. reply # <<>> /\ reply \in Seq(MessageType) /\ toClient[s] \in Seq(MessageType)
    BY <1>7 DEF SendMessage, TypeOK
  <2>2. Head(reply) \in MessageType /\ Range(reply) = {Head(reply)} \cup Range(Tail(reply))
    BY <2>1, TailFacts
  <2>3. Range(Append(toClient[s], Head(reply))) = Range(toClient[s]) \cup {Head(reply)}
    BY <2>1, <2>2, AppendFacts
  <2>4. \A r \in Sessions : Range(toClient'[r]) \subseteq Range(toClient[r]) \cup Range(reply)
    BY <1>7, <2>2, <2>3 DEF SendMessage, TypeOK
  <2>5. Range(reply') \subseteq Range(reply) /\ UNCHANGED <<queue, running, accepted>>
    BY <1>7, <2>2 DEF SendMessage
  <2> QED
    BY <2>4, <2>5, AcksKept DEF Underway, OnWire
<1>8. ASSUME NEW s \in Sessions, HandleMessage(s) PROVE AcksAccepted'
  <2> DEFINE m == Head(toClient[s])
  <2>1. /\ m \in MessageType
        /\ toClient[s] # <<>> /\ toClient[s] \in Seq(MessageType)
        /\ toClient' = [toClient EXCEPT ![s] = Tail(@)]
        /\ UNCHANGED <<reply, accepted>>
    BY <1>8, ReceivedFacts
  <2>2. Range(toClient[s]) = {m} \cup Range(Tail(toClient[s]))
    BY <2>1, TailFacts
  <2>3. \A r \in Sessions : Range(toClient'[r]) \subseteq Range(toClient[r])
    BY <2>1, <2>2 DEF TypeOK
  <2>4. Range(queue') \cup Awaited(running')
          \subseteq Range(queue) \cup Awaited(running) \cup {m}
    <3>1. CASE HandleResponse(m)
      BY <3>1 DEF HandleResponse
    <3>2. CASE m \in Notes /\ Append(queue, m) \in Seq(Notes) /\ HandleRequest(m)
      <4>1. queue \in Seq(Notes)
        BY DEF TypeOK
      <4>2. Range(Append(queue, m)) = Range(queue) \cup {m}
        BY <3>2, <4>1, AppendFacts
      <4> HIDE DEF m
      <4>3. CASE processing
        BY <3>2, <4>2, <4>3 DEF HandleRequest
      <4>4. CASE ~processing
        BY <3>2, <4>2, <4>4, LoopKeeps DEF HandleRequest
      <4> QED
        BY <4>3, <4>4
    <3> QED
      BY <1>8, <3>1, <3>2, ReceivedFacts
  <2> HIDE DEF m
  <2>5. m \in OnWire
    BY <2>2 DEF OnWire
  <2>6. OnWire' \subseteq OnWire
    BY <2>3 DEF OnWire
  <2>7. Underway' \subseteq Underway
    BY <2>1, <2>4, <2>5, <2>6 DEF Underway
  <2> QED
    BY <2>1, <2>7, AcksKept
<1>9. ASSUME NEW s \in Sessions, CloseEvent(s) PROVE AcksAccepted'
  <2>1. Range(queue') = {} /\ UNCHANGED <<reply, toClient, running, accepted>>
    BY <1>9, EmptyFacts DEF CloseEvent, HandleClose
  <2> QED
    BY <2>1, AcksKept DEF Underway, OnWire
<1>10. ASSUME NEW s \in Sessions, SocketLost(s) PROVE AcksAccepted'
  <2>1. toClient[s] \in Seq(MessageType)
    BY DEF TypeOK
  <2>2. PICK n \in 0..Len(toClient[s]) : toClient' = [toClient EXCEPT ![s] = SubSeq(@, 1, n)]
    BY <1>10 DEF SocketLost
  <2>3. Range(SubSeq(toClient[s], 1, n)) \subseteq Range(toClient[s])
    BY <2>1, RangeCut
  <2>4. \A r \in Sessions : Range(toClient'[r]) \subseteq Range(toClient[r])
    BY <2>2, <2>3 DEF TypeOK
  <2>5. UNCHANGED <<reply, queue, running, accepted>>
    BY <1>10 DEF SocketLost
  <2> QED
    BY <2>4, <2>5, AcksKept DEF Underway, OnWire
<1>11. ASSUME NEW i \in late, LateRequest(i) PROVE AcksAccepted'
  <2>1. /\ session \in Sessions /\ i \in Ids /\ accepted \subseteq accepted'
        /\ UNCHANGED <<reply, queue, running>>
        /\ \/ toClient' = toClient
           \/ /\ toClient' = [toClient EXCEPT ![session] = Append(@, Ack(i))]
              /\ i \in accepted'
    BY <1>11, LateFacts
  <2>2. CASE toClient' = toClient
    BY <2>1, <2>2, AcksKept DEF Underway, OnWire
  <2>3. CASE toClient' = [toClient EXCEPT ![session] = Append(@, Ack(i))] /\ i \in accepted'
    <3>1. Ack(i) \in MessageType /\ Ack(i).id = i /\ toClient[session] \in Seq(MessageType)
      BY <2>1, Messages, MessageKinds DEF TypeOK
    <3>2. Range(Append(toClient[session], Ack(i))) = Range(toClient[session]) \cup {Ack(i)}
      BY <3>1, AppendFacts
    <3>3. \A s \in Sessions : Range(toClient'[s]) \subseteq Range(toClient[s]) \cup {Ack(i)}
      BY <2>3, <3>2 DEF TypeOK
    <3> QED
      BY <2>1, <2>3, <3>1, <3>3, AcksKept DEF Underway, OnWire
  <2> QED
    BY <2>1, <2>2, <2>3
<1> QED
  BY <1>1, <1>2, <1>3, <1>4, <1>5, <1>6, <1>7, <1>8, <1>9, <1>10, <1>11 DEF Next

\* An ack that is called is the ack of a message the server has accepted: an ack is queued
\* once the send is accepted, also by a late request, and nothing on its way to the callback
\* makes one up.
THEOREM AckedWasAcceptedCorrect == Spec => []AckedWasAccepted
<1>1. Init => AcksAccepted
  <2> SUFFICES ASSUME Init PROVE Underway = {}
    BY DEF AcksAccepted
  <2>1. Range(reply) = {} /\ Range(queue) = {} /\ \A s \in Sessions : Range(toClient[s]) = {}
    BY EmptyFacts DEF Init
  <2>2. Awaited(running) = {}
    BY DEF Init, Awaited
  <2> QED
    BY <2>1, <2>2 DEF Underway, OnWire
<1>2. TypeOK /\ AcksAccepted /\ [Next]_vars => AcksAccepted'
  BY AcksStep
<1>3. AcksAccepted => AckedWasAccepted
  <2>1. \A r \in running : r.msg \in Underway
    BY DEF Underway, Awaited
  <2> QED
    BY <2>1 DEF AcksAccepted, AckedWasAccepted
<1> QED
  BY <1>1, <1>2, <1>3, TypeCorrect, PTL DEF Spec

-----------------------------------------------------------------------------
(* The sockets of a page that waits for the close event                    *)

\* There is one socket at a time, and nothing is on its way on a closed one.
Wires ==
  /\ \A s \in Sessions : s < session => sock[s] = "closed"
  /\ \A s \in Sessions : s > session => sock[s] = "unused"
  /\ session > 0 => sock[session] # "unused"
  /\ \A s \in Sessions : sock[s] \notin {"open", "lost"} => toClient[s] = <<>>
  /\ \A s \in Sessions : sock[s] # "open" => toServer[s] = <<>>

\* The page has no socket, or its close event has been handled.
Ended == session = 0 \/ sock[session] = "closed"

\* What handleClose leaves until the page connects again.
Cleared == Ended => queue = <<>> /\ ~processing /\ listening \cap Protocols = {}

LEMMA Current ==
  ASSUME TypeOK, Wires, NEW s \in Sessions, sock[s] \notin {"unused", "closed"}
  PROVE  s = session /\ ~Ended
BY DEF TypeOK, Wires, Ended, Sessions

LEMMA WiresStep == ASSUME TypeOK, Wires, ~Hasty, [Next]_vars PROVE Wires'
<1> USE DEF pageVars, queueVars, serverVars, lateVars, wireVars
<1>0. session \in 0..MaxSessions /\ MaxSessions \in Nat
  BY BoundsAssumption DEF TypeOK
<1>1. CASE Connect
  <2>1. session' = session + 1 /\ session + 1 \in Sessions
    BY <1>0, <1>1 DEF Connect, Sessions
  <2>2. \A s \in Sessions : sock'[s] = IF s = session + 1 THEN "open" ELSE sock[s]
    BY <1>1, <2>1 DEF Connect, TypeOK
  <2>3. \A s \in Sessions : s <= session => sock[s] = "closed"
    BY <1>0, <1>1 DEF Connect, Sessions
  <2>4. UNCHANGED <<toServer, toClient>>
    BY <1>1 DEF Connect
  <2>5. \A s \in Sessions : s < session' => sock'[s] = "closed"
    BY <1>0, <2>1, <2>2, <2>3 DEF Sessions
  <2>6. \A s \in Sessions : s > session' => sock'[s] = "unused"
    BY <1>0, <2>1, <2>2 DEF Sessions, Wires
  <2>7. sock'[session'] # "unused"
    BY <2>1, <2>2
  <2>8. \A s \in Sessions : /\ sock'[s] \notin {"open", "lost"} => toClient'[s] = <<>>
                            /\ sock'[s] # "open" => toServer'[s] = <<>>
    BY <2>2, <2>4 DEF Wires
  <2> QED
    BY <2>5, <2>6, <2>7, <2>8 DEF Wires
<1>2. CASE Close
  <2>1. session \in Sessions /\ session' = session
    BY <1>0, <1>2 DEF Close, CanSend, Sessions
  <2>2. \A s \in Sessions : /\ sock'[s] = IF s = session THEN "closing" ELSE sock[s]
                            /\ toServer'[s] = IF s = session THEN <<>> ELSE toServer[s]
                            /\ toClient'[s] = IF s = session THEN <<>> ELSE toClient[s]
    BY <1>2, <2>1 DEF Close, TypeOK
  <2> QED
    BY <1>0, <2>1, <2>2 DEF Wires, Sessions
<1>3. ASSUME UNCHANGED <<session, sock, toClient>>,
             \A s \in Sessions : toServer'[s] # toServer[s] => sock[s] = "open"
      PROVE  Wires'
  BY <1>3 DEF Wires
<1>4. CASE Call
  <2>1. UNCHANGED <<session, sock, toClient>>
    BY <1>4 DEF Call, Start, Stop, Send, Subscribe, Unsubscribe, Request, ListenerAsks, SendRequest
  <2>2. \A s \in Sessions : toServer'[s] # toServer[s] => sock[s] = "open"
    <3>1. ASSUME NEW op \in {"start", "stop", "send", "subscribe", "unsubscribe", "ask"},
                 NEW c \in Channels, SendRequest(op, c)
          PROVE  \A s \in Sessions : toServer'[s] # toServer[s] => sock[s] = "open"
      <4>1. CASE Open(session)
        BY <3>1, <4>1 DEF SendRequest, Open, TypeOK
      <4>2. CASE ~Open(session)
        BY <3>1, <4>2 DEF SendRequest
      <4> QED
        BY <4>1, <4>2
    <3>2. toServer' = toServer
          \/ \E op \in {"start", "stop", "send", "subscribe", "unsubscribe", "ask"}, c \in Channels :
               SendRequest(op, c)
      BY <1>4 DEF Call, Start, Stop, Send, Subscribe, Unsubscribe, Request, ListenerAsks, Channels
    <3> QED
      BY <3>1, <3>2
  <2> QED
    BY <1>3, <2>1, <2>2
<1>5. CASE Returns \/ UNCHANGED vars
  BY <1>3, <1>5 DEF Returns, ListenerReturns, vars
<1>6. ASSUME NEW s \in Sessions, HandleClientMessage(s) PROVE Wires'
  <2>1. sock[s] = "open" /\ toServer' = [toServer EXCEPT ![s] = Tail(@)]
    BY <1>6, HandledFacts
  <2> QED
    BY <1>3, <1>6, <2>1 DEF HandleClientMessage, TypeOK
<1>7. ASSUME NEW s \in Sessions, sock[s] \in {"open", "lost"},
             NEW q, toClient' = [toClient EXCEPT ![s] = q],
             UNCHANGED <<session, sock, toServer>>
      PROVE  Wires'
  BY <1>7 DEF Wires, TypeOK
<1>8. ASSUME NEW s \in Sessions, SendMessage(s) \/ HandleMessage(s) PROVE Wires'
  <2>1. CASE SendMessage(s)
    <3>1. toClient' = [toClient EXCEPT ![s] = Append(toClient[s], Head(reply))]
      BY <2>1 DEF SendMessage
    <3> QED
      BY <1>7, <2>1, <3>1 DEF SendMessage, Open
  <2>2. CASE HandleMessage(s)
    <3>1. toClient' = [toClient EXCEPT ![s] = Tail(toClient[s])] /\ sock[s] \in {"open", "lost"}
      BY <2>2 DEF HandleMessage
    <3>2. UNCHANGED <<session, sock, toServer>>
      BY <2>2 DEF HandleMessage
    <3> QED
      BY <1>7, <3>1, <3>2
  <2> QED
    BY <1>8, <2>1, <2>2
<1>9. ASSUME NEW r \in Sessions, NEW c \in Channels, Notify(r, c) PROVE Wires'
  <2>1. session \in Sessions /\ sock[session] = "open"
    BY <1>0, <1>9 DEF Notify, Open, Sessions
  <2>2. toClient' = [toClient EXCEPT ![session] = Append(toClient[session], Data(c, sentData + 1, r))]
    BY <1>9 DEF Notify
  <2>3. UNCHANGED <<session, sock, toServer>>
    BY <1>9 DEF Notify
  <2> QED
    BY <1>7, <2>1, <2>2, <2>3
<1>10. ASSUME NEW s \in Sessions, CloseEvent(s) PROVE Wires'
  <2>1. s = session
    BY <1>10, Current DEF CloseEvent
  <2>2. \A r \in Sessions : sock'[r] = IF r = s THEN "closed" ELSE sock[r]
    BY <1>10 DEF CloseEvent, TypeOK
  <2>3. toClient[s] = <<>> /\ toServer[s] = <<>>
    BY <1>10 DEF CloseEvent, Wires
  <2>4. UNCHANGED <<session, toClient, toServer>>
    BY <1>10 DEF CloseEvent
  <2> QED
    BY <1>0, <2>1, <2>2, <2>3, <2>4 DEF Wires, Sessions
<1>11. ASSUME NEW s \in Sessions, SocketLost(s) PROVE Wires'
  <2>1. s = session
    BY <1>11, Current DEF SocketLost, Open
  <2>2. PICK n \in 0..Len(toClient[s]) : toClient' = [toClient EXCEPT ![s] = SubSeq(@, 1, n)]
    BY <1>11 DEF SocketLost
  <2>3. \A r \in Sessions : /\ sock'[r] = IF r = s THEN "lost" ELSE sock[r]
                            /\ toServer'[r] = IF r = s THEN <<>> ELSE toServer[r]
                            /\ r # s => toClient'[r] = toClient[r]
    BY <1>11, <2>2 DEF SocketLost, TypeOK
  <2>4. session' = session
    BY <1>11 DEF SocketLost
  <2> QED
    BY <1>0, <2>1, <2>3, <2>4 DEF Wires, Sessions
<1>12. ASSUME NEW i \in late, LateRequest(i) PROVE Wires'
  <2>1. /\ session \in Sessions /\ sock[session] = "open"
        /\ UNCHANGED <<session, sock, toServer>>
        /\ \/ toClient' = toClient
           \/ toClient' = [toClient EXCEPT ![session] = Append(@, Ack(i))]
    BY <1>12, LateFacts
  <2> QED
    BY <1>3, <1>7, <2>1
<1> QED
  BY <1>1, <1>2, <1>4, <1>5, <1>6, <1>8, <1>9, <1>10, <1>11, <1>12 DEF Next

\* A loop with nothing to do.
LEMMA EmptyLoop ==
  ASSUME NEW others, Loop(<<>>, others)
  PROVE  queue' = <<>> /\ processing' = FALSE /\ running' = others
BY EmptyFacts, LoopFacts

LEMMA ClearedStep == ASSUME TypeOK, Wires, ~Hasty, Cleared, [Next]_vars PROVE Cleared'
<1> USE DEF pageVars, queueVars, serverVars, lateVars, wireVars
<1>0. session \in 0..MaxSessions /\ MaxSessions \in Nat
  BY BoundsAssumption DEF TypeOK
<1>1. CASE Connect
  <2>1. session' = session + 1 /\ session + 1 \in Sessions
    BY <1>0, <1>1 DEF Connect, Sessions
  <2>2. sock'[session'] = "open"
    BY <1>1, <2>1 DEF Connect, TypeOK
  <2> QED
    BY <1>0, <2>1, <2>2 DEF Cleared, Ended
<1>2. CASE Close
  <2>1. session \in Sessions /\ session' = session
    BY <1>0, <1>2 DEF Close, CanSend, Sessions
  <2>2. sock'[session] = "closing"
    BY <1>2, <2>1 DEF Close, TypeOK
  <2> QED
    BY <2>1, <2>2, <1>2 DEF Cleared, Ended, Close, CanSend
<1>3. CASE UNCHANGED <<session, sock, queue, processing, listening>>
  BY <1>3 DEF Cleared, Ended
<1>4. CASE Call
  <2>1. UNCHANGED <<session, sock, queue, processing>>
    BY <1>4 DEF Call, Start, Stop, Send, Subscribe, Unsubscribe, Request, ListenerAsks, SendRequest
  <2>2. listening' \cap Protocols = listening \cap Protocols
    <3>1. ASSUME NEW t \in Topics, Subscribe(t) \/ Unsubscribe(t)
          PROVE  listening' \cap Protocols = listening \cap Protocols
      BY <3>1, ChannelsAssumption DEF Subscribe, Unsubscribe
    <3>2. CASE listening' = listening
      BY <3>2
    <3> QED
      BY <1>4, <3>1, <3>2 DEF Call, Start, Stop, Send, ListenerAsks
  <2> QED
    BY <2>1, <2>2 DEF Cleared, Ended
<1>5. CASE Returns
  <2> PICK r \in running : ListenerReturns(r)
    BY <1>5 DEF Returns
  <2>1. UNCHANGED <<session, sock, listening>> /\ Loop(queue, running \ {r})
    BY DEF ListenerReturns
  <2>2. Ended => queue' = <<>> /\ processing' = FALSE
    BY <2>1, EmptyLoop DEF Cleared
  <2> QED
    BY <2>1, <2>2 DEF Cleared, Ended
<1>6. ASSUME NEW s \in Sessions, HandleClientMessage(s) \/ SendMessage(s) PROVE Cleared'
  BY <1>3, <1>6 DEF HandleClientMessage, SendMessage
<1>7. ASSUME NEW s \in Sessions, HandleMessage(s) PROVE Cleared'
  <2>1. ~Ended /\ UNCHANGED <<session, sock>>
    BY <1>7, Current DEF HandleMessage
  <2> QED
    BY <2>1 DEF Cleared, Ended
<1>8. ASSUME NEW r \in Sessions, NEW c \in Channels, Notify(r, c) PROVE Cleared'
  BY <1>3, <1>8 DEF Notify
<1>9. ASSUME NEW s \in Sessions, CloseEvent(s) PROVE Cleared'
  BY <1>9 DEF CloseEvent, HandleClose, Cleared
<1>10. ASSUME NEW s \in Sessions, SocketLost(s) PROVE Cleared'
  <2>1. s = session /\ ~Ended
    BY <1>10, Current DEF SocketLost, Open
  <2>2. sock'[session] = "lost" /\ session' = session
    BY <1>10, <2>1 DEF SocketLost, TypeOK
  <2> QED
    BY <2>1, <2>2 DEF Cleared, Ended
<1>11. CASE UNCHANGED vars
  BY <1>3, <1>11 DEF vars
<1>12. ASSUME NEW i \in late, LateRequest(i) PROVE Cleared'
  BY <1>3, <1>12 DEF LateRequest
<1> QED
  BY <1>1, <1>2, <1>4, <1>5, <1>6, <1>7, <1>8, <1>9, <1>10, <1>11, <1>12 DEF Next

-----------------------------------------------------------------------------
(* The order in which listeners hear messages                              *)

Kind(k, q) == {m \in Range(q) : m.type = k}
DataOf(q)  == Kind("data", q)

\* The messages of kind k in q are numbered in order.
Rising(k, q) ==
  \A i, j \in DOMAIN q : q[i].type = k /\ q[j].type = k /\ i < j => q[i].id < q[j].id

\* The numbers of all of N are below those of all data messages of q.
Below(N, q) == \A n \in N : \A m \in DataOf(q) : n < m.id

Numbers(q) == {m.id : m \in DataOf(q)}

\* What was heard comes before what is queued, and that before what is on its way.
Order ==
  /\ \A n \in Range(heard) : n <= sentData
  /\ \A i, j \in DOMAIN heard : i < j => heard[i] < heard[j]
  /\ Rising("data", queue)
  /\ Below(Range(heard), queue)
  /\ \A m \in DataOf(queue) : m.id <= sentData
  /\ \A s \in Sessions : /\ Rising("data", toClient[s])
                         /\ Below(Range(heard), toClient[s])
                         /\ Below(Numbers(queue), toClient[s])
                         /\ \A m \in DataOf(toClient[s]) : m.id <= sentData
  /\ DataOf(reply) = {}

\* One loop at a time: a second one is started only after the close event.
OneLoop == ~overlap => running = {} \/ \E r \in running : running = {r} /\ (processing \/ Ended)

LEMMA RisingAppend ==
  ASSUME NEW k, NEW q \in Seq(MessageType), NEW e \in MessageType, Rising(k, q),
         e.type = k => \A m \in Kind(k, q) : m.id < e.id
  PROVE  /\ Rising(k, Append(q, e))
         /\ Kind(k, Append(q, e)) \subseteq Kind(k, q) \cup {e}
         /\ e.type # k => Kind(k, Append(q, e)) = Kind(k, q)
<1> DEFINE a == Append(q, e)
<1>1. /\ Len(q) \in Nat /\ DOMAIN q = 1..Len(q) /\ DOMAIN a = 1 .. Len(q) + 1
      /\ \A i \in 1..Len(q) : a[i] = q[i]
      /\ a[Len(q) + 1] = e /\ Range(a) = Range(q) \cup {e}
  BY AppendFacts
<1> HIDE DEF a
<1>2. Rising(k, a)
  <2> SUFFICES ASSUME NEW i \in DOMAIN a, NEW j \in DOMAIN a,
                      a[i].type = k, a[j].type = k, i < j
               PROVE  a[i].id < a[j].id
    BY DEF Rising
  <2>1. i \in DOMAIN q /\ a[i] = q[i] /\ q[i] \in Kind(k, q)
    <3>1. i \in DOMAIN q /\ a[i] = q[i]
      BY <1>1
    <3> QED
      BY <3>1 DEF Kind, Range
  <2>2. CASE j = Len(q) + 1
    BY <1>1, <2>1, <2>2
  <2>3. CASE j # Len(q) + 1
    <3>1. j \in DOMAIN q /\ a[j] = q[j]
      BY <1>1, <2>3
    <3> QED
      BY <2>1, <3>1 DEF Rising
  <2> QED
    BY <2>2, <2>3
<1>3. Kind(k, a) \subseteq Kind(k, q) \cup {e} /\ (e.type # k => Kind(k, a) = Kind(k, q))
  BY <1>1 DEF Kind
<1> QED
  BY <1>2, <1>3 DEF a

LEMMA RisingTail ==
  ASSUME NEW k, NEW q \in Seq(MessageType), q # <<>>, Rising(k, q)
  PROVE  /\ Rising(k, Tail(q)) /\ Kind(k, Tail(q)) \subseteq Kind(k, q)
         /\ Head(q).type = k =>
              Head(q) \in Kind(k, q) /\ \A m \in Kind(k, Tail(q)) : Head(q).id < m.id
<1> DEFINE t == Tail(q)
<1>1. /\ Head(q) = q[1] /\ Len(q) \in Nat \ {0} /\ DOMAIN q = 1..Len(q) /\ DOMAIN t = 1 .. Len(q) - 1
      /\ \A i \in 1 .. Len(q) - 1 : t[i] = q[i + 1]
      /\ Range(q) = {Head(q)} \cup Range(t)
  BY TailFacts
<1> HIDE DEF t
<1>2. \A i \in DOMAIN t : i + 1 \in DOMAIN q /\ t[i] = q[i + 1] /\ 1 < i + 1 /\ i \in Int
  BY <1>1
<1>3. Rising(k, t)
  BY <1>2 DEF Rising
<1>4. Kind(k, t) \subseteq Kind(k, q) /\ (Head(q).type = k => Head(q) \in Kind(k, q))
  BY <1>1 DEF Kind
<1>5. ASSUME Head(q).type = k, NEW m \in Kind(k, t) PROVE Head(q).id < m.id
  <2>1. PICK i \in DOMAIN t : m = t[i]
    BY DEF Kind, Range
  <2>2. q[i + 1].type = k /\ q[1].type = k /\ 1 \in DOMAIN q
    BY <1>1, <1>2, <1>5, <2>1 DEF Kind
  <2> QED
    BY <1>1, <1>2, <2>1, <2>2 DEF Rising
<1> QED
  BY <1>3, <1>4, <1>5 DEF t

LEMMA RisingCut ==
  ASSUME NEW k, NEW q \in Seq(MessageType), Rising(k, q)
  PROVE  /\ \A i \in DOMAIN q : LET r == SubSeq(q, i + 1, Len(q)) IN
              /\ Rising(k, r) /\ Kind(k, r) \subseteq Kind(k, q)
              /\ q[i].type = k => q[i] \in Kind(k, q) /\ \A m \in Kind(k, r) : q[i].id < m.id
         /\ \A n \in 0..Len(q) : LET r == SubSeq(q, 1, n) IN
              Rising(k, r) /\ Kind(k, r) \subseteq Kind(k, q)
<1>1. ASSUME NEW i \in DOMAIN q
      PROVE  LET r == SubSeq(q, i + 1, Len(q)) IN
             /\ Rising(k, r) /\ Kind(k, r) \subseteq Kind(k, q)
             /\ q[i].type = k => q[i] \in Kind(k, q) /\ \A m \in Kind(k, r) : q[i].id < m.id
  <2> DEFINE r == SubSeq(q, i + 1, Len(q))
  <2>1. /\ Len(q) \in Nat /\ DOMAIN q = 1..Len(q) /\ DOMAIN r = 1 .. Len(q) - i
        /\ \A h \in 1 .. Len(q) - i : r[h] = q[i + h]
    BY CutFacts
  <2>2. q[i] \in Range(q) /\ Range(r) \subseteq Range(q)
    BY RangeCut
  <2> HIDE DEF r
  <2>3. \A h \in DOMAIN r : i + h \in DOMAIN q /\ r[h] = q[i + h] /\ i < i + h /\ h \in Int
    BY <2>1
  <2>4. Rising(k, r)
    <3> SUFFICES ASSUME NEW h \in DOMAIN r, NEW j \in DOMAIN r,
                        r[h].type = k, r[j].type = k, h < j
                 PROVE  r[h].id < r[j].id
      BY DEF Rising
    <3>1. i + h < i + j
      BY <2>1, <2>3
    <3> QED
      BY <2>3, <3>1 DEF Rising
  <2>5. ASSUME q[i].type = k, NEW m \in Kind(k, r) PROVE q[i].id < m.id
    <3>1. PICK h \in DOMAIN r : m = r[h]
      BY DEF Kind, Range
    <3> QED
      BY <2>3, <2>5, <3>1 DEF Rising, Kind
  <2> QED
    BY <2>2, <2>4, <2>5 DEF Kind, r
<1>2. ASSUME NEW n \in 0..Len(q)
      PROVE  LET r == SubSeq(q, 1, n) IN Rising(k, r) /\ Kind(k, r) \subseteq Kind(k, q)
  <2> DEFINE r == SubSeq(q, 1, n)
  <2>1. /\ Len(q) \in Nat /\ DOMAIN q = 1..Len(q) /\ DOMAIN r = 1..n
        /\ \A h \in 1..n : r[h] = q[h]
    BY CutFacts
  <2>2. Range(r) \subseteq Range(q)
    BY RangeCut
  <2> HIDE DEF r
  <2>3. \A h \in DOMAIN r : h \in DOMAIN q /\ r[h] = q[h]
    BY <2>1
  <2> QED
    BY <2>2, <2>3 DEF Rising, Kind, r
<1> QED
  BY <1>1, <1>2

LEMMA DataTypes ==
  ASSUME NEW q \in Seq(MessageType)
  PROVE  /\ \A m \in DataOf(q) : m \in MessageType /\ m.id \in 1..MaxData
         /\ q = <<>> => DataOf(q) = {} /\ Rising("data", q)
<1>1. \A m \in Range(q) : m \in MessageType
  <2>1. \A i \in DOMAIN q : q[i] \in MessageType
    BY LenProperties, ElementOfSeq
  <2> QED
    BY <2>1 DEF Range
<1>2. \A m \in MessageType : m.type = "data" => m.id \in 1..MaxData
  BY MessageKinds
<1>3. q = <<>> => Range(q) = {} /\ DOMAIN q = {}
  BY EmptyFacts
<1> QED
  BY <1>1, <1>2, <1>3 DEF DataOf, Kind, Rising

LEMMA NotesAreMessages == \A q \in Seq(Notes) : q \in Seq(MessageType)
<1>1. Notes \subseteq MessageType
  BY DEF MessageType
<1> QED
  BY <1>1, SeqMonotonic

\* A loop hears the messages of q in their order, after what was heard before.
LEMMA OrderLoop ==
  ASSUME NEW q \in Seq(Notes), NEW others, Loop(q, others), Rising("data", q),
         heard \in Seq(1..MaxData), \A i, j \in DOMAIN heard : i < j => heard[i] < heard[j],
         Below(Range(heard), q)
  PROVE  /\ \A i, j \in DOMAIN heard' : i < j => heard'[i] < heard'[j]
         /\ Rising("data", queue') /\ Below(Range(heard'), queue')
         /\ DataOf(queue') \subseteq DataOf(q)
         /\ Range(heard') \subseteq Range(heard) \cup Numbers(q)
<1>1. q \in Seq(MessageType)
  BY NotesAreMessages
<1>2. \A i \in DOMAIN q : LET r == SubSeq(q, i + 1, Len(q)) IN
        /\ Rising("data", r) /\ DataOf(r) \subseteq DataOf(q)
        /\ q[i].type = "data" => q[i] \in DataOf(q) /\ \A m \in DataOf(r) : q[i].id < m.id
  BY <1>1, RisingCut DEF DataOf
<1>3. CASE \E i \in DOMAIN q :
             /\ queue' = SubSeq(q, i + 1, Len(q))
             /\ \/ heard' = heard
                \/ q[i].type = "data" /\ heard' = Append(heard, q[i].id)
  <2> PICK i \in DOMAIN q :
             /\ queue' = SubSeq(q, i + 1, Len(q))
             /\ \/ heard' = heard
                \/ q[i].type = "data" /\ heard' = Append(heard, q[i].id)
    BY <1>3
  <2>1. /\ Rising("data", queue') /\ DataOf(queue') \subseteq DataOf(q)
        /\ q[i].type = "data" => q[i] \in DataOf(q) /\ \A m \in DataOf(queue') : q[i].id < m.id
    BY <1>2
  <2>2. CASE heard' = heard
    BY <2>1, <2>2 DEF Below
  <2>3. CASE q[i].type = "data" /\ heard' = Append(heard, q[i].id)
    <3> DEFINE n == q[i].id
    <3>1. n \in 1..MaxData /\ n \in Numbers(q) /\ \A x \in Range(heard) : x < n
      <4>1. q[i] \in DataOf(q)
        BY <2>1, <2>3
      <4> QED
        BY <1>1, <4>1, DataTypes DEF Numbers, Below
    <3>2. \A m \in DataOf(queue') : n < m.id
      BY <2>1, <2>3
    <3> HIDE DEF n
    <3>3. heard' = Append(heard, n)
      BY <2>3 DEF n
    <3>4. /\ Len(heard) \in Nat /\ DOMAIN heard = 1..Len(heard) /\ DOMAIN heard' = 1 .. Len(heard) + 1
          /\ \A k \in 1..Len(heard) : heard'[k] = heard[k]
          /\ heard'[Len(heard) + 1] = n /\ Range(heard') = Range(heard) \cup {n}
      <4> DEFINE S == 1..MaxData
      <4>1. heard \in Seq(S) /\ n \in S
        BY <3>1
      <4> HIDE DEF S
      <4> QED
        BY <3>3, <4>1, AppendFacts
    <3>5. ASSUME NEW k \in DOMAIN heard', NEW j \in DOMAIN heard', k < j
          PROVE  heard'[k] < heard'[j]
      <4>1. k \in DOMAIN heard /\ heard'[k] = heard[k] /\ heard[k] \in Range(heard)
        <5>1. k \in DOMAIN heard /\ heard'[k] = heard[k]
          BY <3>4, <3>5
        <5> QED
          BY <5>1 DEF Range
      <4>2. CASE j = Len(heard) + 1
        BY <3>1, <3>4, <4>1, <4>2
      <4>3. CASE j # Len(heard) + 1
        <5>1. j \in DOMAIN heard /\ heard'[j] = heard[j]
          BY <3>4, <4>3
        <5> QED
          BY <3>5, <4>1, <5>1
      <4> QED
        BY <4>2, <4>3
    <3>6. Below(Range(heard'), queue')
      BY <2>1, <3>2, <3>4 DEF Below
    <3> QED
      BY <2>1, <3>1, <3>4, <3>5, <3>6
  <2> QED
    BY <2>2, <2>3
<1>4. CASE queue' = <<>> /\ heard' = heard
  <2>1. <<>> \in Seq(MessageType)
    BY EmptyFacts
  <2>2. Rising("data", queue') /\ DataOf(queue') = {}
    BY <1>4, <2>1, DataTypes
  <2> QED
    BY <1>4, <2>2 DEF Below
<1> QED
  BY <1>3, <1>4, LoopFacts

LEMMA OneLoopStep == ASSUME TypeOK, Wires, ~Hasty, Cleared, OneLoop, [Next]_vars PROVE OneLoop'
<1> USE DEF pageVars, queueVars, serverVars, lateVars, wireVars
<1>0. session \in 0..MaxSessions /\ MaxSessions \in Nat
  BY BoundsAssumption DEF TypeOK
<1>1. CASE Connect
  <2>1. overlap' \in BOOLEAN /\ (~overlap' => running = {}) /\ running' = running
    BY <1>1 DEF Connect, TypeOK
  <2> QED
    BY <2>1 DEF OneLoop
<1>2. CASE Close
  <2>1. ~Ended /\ UNCHANGED <<running, processing, overlap>>
    BY <1>0, <1>2 DEF Close, CanSend, Ended
  <2> QED
    BY <2>1 DEF OneLoop
<1>3. CASE UNCHANGED <<session, sock, running, processing, overlap>>
  BY <1>3 DEF OneLoop, Ended
<1>4. CASE Call
  <2>1. UNCHANGED <<session, sock, processing, overlap>>
    BY <1>4 DEF Call, Start, Stop, Send, Subscribe, Unsubscribe, Request, ListenerAsks, SendRequest
  <2>2. CASE running' = running
    BY <1>3, <2>1, <2>2
  <2>3. ASSUME NEW r \in running, NEW t \in Topics, ListenerAsks(r, t) PROVE OneLoop'
    <3>1. running' = (running \ {r}) \cup {[r EXCEPT !.awaits = NextId]}
      BY <2>3 DEF ListenerAsks
    <3>2. ~overlap => running = {r} /\ (processing \/ Ended)
      BY DEF OneLoop
    <3>3. ~overlap => running' = {[r EXCEPT !.awaits = NextId]}
      BY <3>1, <3>2
    <3> QED
      BY <2>1, <3>2, <3>3 DEF OneLoop, Ended
  <2> QED
    BY <1>4, <2>2, <2>3 DEF Call, Start, Stop, Send, Subscribe, Unsubscribe
<1>5. ASSUME NEW q \in Seq(Notes), NEW others, ~overlap => others = {}, Loop(q, others),
             overlap' = overlap
      PROVE  OneLoop'
  <2>1. \/ \E i \in DOMAIN q : processing' /\ running' = others \cup {[msg |-> q[i], awaits |-> 0]}
        \/ running' = others
    BY <1>5, LoopFacts
  <2> QED
    BY <1>5, <2>1 DEF OneLoop
<1>6. CASE Returns
  <2> PICK r \in running : ListenerReturns(r)
    BY <1>6 DEF Returns
  <2>1. queue \in Seq(Notes) /\ Loop(queue, running \ {r}) /\ overlap' = overlap
    BY DEF ListenerReturns, TypeOK
  <2>2. ~overlap => running \ {r} = {}
    BY DEF OneLoop
  <2> QED
    BY <1>5, <2>1, <2>2
<1>7. ASSUME NEW s \in Sessions, HandleClientMessage(s) \/ SendMessage(s) PROVE OneLoop'
  BY <1>3, <1>7 DEF HandleClientMessage, SendMessage
<1>8. ASSUME NEW s \in Sessions, HandleMessage(s) PROVE OneLoop'
  <2> DEFINE m == Head(toClient[s])
  <2>1. ~Ended /\ UNCHANGED <<session, sock, overlap>>
    BY <1>8, Current DEF HandleMessage
  <2>2. CASE HandleResponse(m)
    BY <1>3, <2>1, <2>2 DEF HandleResponse
  <2>3. CASE m \in Notes /\ Append(queue, m) \in Seq(Notes) /\ HandleRequest(m)
    <3> HIDE DEF m
    <3>1. CASE processing
      BY <1>3, <2>1, <2>3, <3>1 DEF HandleRequest
    <3>2. CASE ~processing
      <4>1. ~overlap => running = {}
        BY <2>1, <3>2 DEF OneLoop
      <4> QED
        BY <1>5, <2>1, <2>3, <3>2, <4>1 DEF HandleRequest
    <3> QED
      BY <3>1, <3>2
  <2> QED
    BY <1>8, <2>2, <2>3, ReceivedFacts
<1>9. ASSUME NEW r \in Sessions, NEW c \in Channels, Notify(r, c) PROVE OneLoop'
  BY <1>3, <1>9 DEF Notify
<1>10. ASSUME NEW s \in Sessions, CloseEvent(s) PROVE OneLoop'
  <2>1. s = session
    BY <1>10, Current DEF CloseEvent
  <2>2. Ended' /\ UNCHANGED <<running, overlap>>
    BY <1>10, <2>1 DEF CloseEvent, HandleClose, Ended, TypeOK
  <2> QED
    BY <2>2 DEF OneLoop
<1>11. ASSUME NEW s \in Sessions, SocketLost(s) PROVE OneLoop'
  <2>1. ~Ended
    BY <1>11, Current DEF SocketLost, Open
  <2> QED
    BY <1>11, <2>1 DEF SocketLost, OneLoop
<1>12. CASE UNCHANGED vars
  BY <1>3, <1>12 DEF vars
<1>13. ASSUME NEW i \in late, LateRequest(i) PROVE OneLoop'
  BY <1>3, <1>13 DEF LateRequest
<1> QED
  BY <1>1, <1>2, <1>4, <1>6, <1>7, <1>8, <1>9, <1>10, <1>11, <1>12, <1>13 DEF Next

\* Nothing is heard or queued, and no data is sent: what is on its way shrinks.
LEMMA OrderKept ==
  ASSUME Order, UNCHANGED <<heard, queue, sentData>>, DataOf(reply') = {},
         \A s \in Sessions : Rising("data", toClient'[s]) /\ DataOf(toClient'[s]) \subseteq DataOf(toClient[s])
  PROVE  Order'
BY DEF Order, Below

LEMMA OrderStep == ASSUME TypeOK, Wires, ~Hasty, Cleared, Order, [Next]_vars PROVE Order'
<1> USE DEF pageVars, queueVars, serverVars, lateVars, wireVars
<1>0. /\ queue \in Seq(Notes) /\ queue \in Seq(MessageType)
      /\ \A s \in Sessions : toClient[s] \in Seq(MessageType)
      /\ heard \in Seq(1..MaxData) /\ <<>> \in Seq(MessageType)
  BY NotesAreMessages, EmptyFacts DEF TypeOK
<1>1. CASE UNCHANGED <<heard, queue, sentData, toClient>> /\ DataOf(reply') = {}
  BY <1>1, OrderKept DEF Order
<1>2. CASE Connect \/ UNCHANGED vars
  <2>1. DataOf(reply') = {}
    BY <1>0, <1>2, DataTypes DEF Connect, vars, Order
  <2> QED
    BY <1>1, <1>2, <2>1 DEF Connect, vars
<1>3. CASE Close
  <2>1. \A s \in Sessions : toClient'[s] = toClient[s] \/ toClient'[s] = <<>>
    BY <1>3 DEF Close, TypeOK
  <2>2. \A s \in Sessions : Rising("data", toClient'[s]) /\ DataOf(toClient'[s]) \subseteq DataOf(toClient[s])
    BY <1>0, <2>1, DataTypes DEF Order
  <2> QED
    BY <1>3, <2>2, OrderKept DEF Close, Order
<1>4. CASE Call
  <2>1. UNCHANGED <<heard, queue, sentData, toClient, reply>>
    BY <1>4 DEF Call, Start, Stop, Send, Subscribe, Unsubscribe, Request, ListenerAsks, SendRequest
  <2> QED
    BY <1>1, <2>1 DEF Order
<1>5. ASSUME NEW s \in Sessions, HandleClientMessage(s) PROVE Order'
  <2> DEFINE i == Head(toServer[s])
  <2>1. (\E ok \in BOOLEAN : reply' = <<Response(i, ok)>>) \/ reply' = <<Ack(i), Response(i, TRUE)>>
    BY <1>5, HandledFacts
  <2> HIDE DEF i
  <2>2. (\E ok \in BOOLEAN : Range(reply') = {Response(i, ok)}) \/ Range(reply') = {Ack(i), Response(i, TRUE)}
    BY <2>1, PairFacts
  <2>3. DataOf(reply') = {}
    BY <2>2 DEF DataOf, Kind, Response, Ack
  <2>4. UNCHANGED <<heard, queue, sentData, toClient>>
    BY <1>5 DEF HandleClientMessage
  <2> QED
    BY <1>1, <2>3, <2>4
<1>6. ASSUME NEW q \in Seq(Notes), NEW others, Loop(q, others), Rising("data", q), Below(Range(heard), q),
             \A m \in DataOf(q) : m.id <= sentData, UNCHANGED <<sentData, reply>>,
             \A s \in Sessions : /\ Rising("data", toClient'[s])
                                 /\ DataOf(toClient'[s]) \subseteq DataOf(toClient[s])
                                 /\ Below(Numbers(q), toClient'[s])
      PROVE  Order'
  <2>1. /\ \A i, j \in DOMAIN heard' : i < j => heard'[i] < heard'[j]
        /\ Rising("data", queue') /\ Below(Range(heard'), queue')
        /\ DataOf(queue') \subseteq DataOf(q)
        /\ Range(heard') \subseteq Range(heard) \cup Numbers(q)
    <3>1. \A i, j \in DOMAIN heard : i < j => heard[i] < heard[j]
      BY DEF Order
    <3> QED
      BY <1>0, <1>6, <3>1, OrderLoop
  <2>2. \A n \in Range(heard') : n <= sentData'
    BY <1>6, <2>1 DEF Order, Numbers
  <2>3. \A m \in DataOf(queue') : m.id <= sentData'
    BY <1>6, <2>1
  <2>4. ASSUME NEW s \in Sessions
        PROVE  /\ Below(Range(heard'), toClient'[s]) /\ Below(Numbers(queue'), toClient'[s])
               /\ \A m \in DataOf(toClient'[s]) : m.id <= sentData'
    <3>1. Numbers(queue') \subseteq Numbers(q)
      BY <2>1 DEF Numbers
    <3>2. Below(Range(heard), toClient[s]) /\ \A m \in DataOf(toClient[s]) : m.id <= sentData
      BY DEF Order
    <3>3. /\ DataOf(toClient'[s]) \subseteq DataOf(toClient[s])
          /\ Below(Numbers(q), toClient'[s])
      BY <1>6
    <3> QED
      BY <1>6, <2>1, <3>1, <3>2, <3>3 DEF Below
  <2> QED
    BY <1>6, <2>1, <2>2, <2>3, <2>4 DEF Order
<1>7. CASE Returns
  <2> PICK r \in running : ListenerReturns(r)
    BY <1>7 DEF Returns
  <2>1. Loop(queue, running \ {r}) /\ UNCHANGED <<sentData, toClient, reply>>
    BY DEF ListenerReturns
  <2>2. /\ Rising("data", queue) /\ Below(Range(heard), queue) /\ \A m \in DataOf(queue) : m.id <= sentData
        /\ \A s \in Sessions : Rising("data", toClient'[s]) /\ Below(Numbers(queue), toClient'[s])
    BY <2>1 DEF Order
  <2>3. \A s \in Sessions : DataOf(toClient'[s]) \subseteq DataOf(toClient[s])
    BY <2>1
  <2> QED
    BY <1>0, <1>6, <2>1, <2>2, <2>3
<1>8. ASSUME NEW s \in Sessions, SendMessage(s) PROVE Order'
  <2> DEFINE m == Head(reply)
  <2>1. /\ reply # <<>> /\ reply \in Seq(MessageType) /\ reply' = Tail(reply)
        /\ toClient' = [toClient EXCEPT ![s] = Append(@, m)]
        /\ UNCHANGED <<heard, queue, sentData>>
    BY <1>8 DEF SendMessage, TypeOK
  <2>2. m \in MessageType /\ Range(reply) = {m} \cup Range(reply')
    BY <2>1, TailFacts
  <2> HIDE DEF m
  <2>3. m.type # "data" /\ DataOf(reply') = {}
    BY <2>2 DEF Order, DataOf, Kind
  <2>4. Rising("data", Append(toClient[s], m)) /\ DataOf(Append(toClient[s], m)) = DataOf(toClient[s])
    BY <1>0, <2>2, <2>3, RisingAppend DEF Order, DataOf
  <2>5. \A r \in Sessions : Rising("data", toClient'[r]) /\ DataOf(toClient'[r]) \subseteq DataOf(toClient[r])
    BY <2>1, <2>4 DEF Order, TypeOK
  <2> QED
    BY <2>1, <2>3, <2>5, OrderKept
<1>9. ASSUME NEW s \in Sessions, HandleMessage(s) PROVE Order'
  <2> DEFINE m == Head(toClient[s])
  <2>1. /\ toClient[s] # <<>> /\ sock[s] \in {"open", "lost"} /\ m \in MessageType
        /\ toClient' = [toClient EXCEPT ![s] = Tail(@)]
        /\ UNCHANGED <<sentData, reply>>
    BY <1>9, ReceivedFacts
  <2>2. /\ Rising("data", Tail(toClient[s])) /\ DataOf(Tail(toClient[s])) \subseteq DataOf(toClient[s])
        /\ m.type = "data" => m \in DataOf(toClient[s]) /\ \A x \in DataOf(Tail(toClient[s])) : m.id < x.id
    BY <1>0, <2>1, RisingTail DEF Order, DataOf
  <2>3. \A r \in Sessions : Rising("data", toClient'[r]) /\ DataOf(toClient'[r]) \subseteq DataOf(toClient[r])
    BY <2>1, <2>2 DEF Order, TypeOK
  <2>4. \A r \in Sessions : r # s => toClient'[r] = <<>>
    <3>1. s = session
      BY <2>1, Current
    <3>2. \A r \in Sessions : r # s => sock[r] \notin {"open", "lost"}
      BY <3>1, Current
    <3> QED
      BY <2>1, <3>2 DEF Wires, TypeOK
  <2>5. toClient'[s] = Tail(toClient[s])
    BY <2>1 DEF TypeOK
  <2> HIDE DEF m
  <2>6. CASE HandleResponse(m)
    BY <2>1, <2>3, <2>6, OrderKept DEF HandleResponse, Order
  <2>7. CASE m \in Notes /\ Append(queue, m) \in Seq(Notes) /\ HandleRequest(m)
    <3> DEFINE q == Append(queue, m)
    <3>1. /\ Rising("data", queue) /\ Below(Range(heard), queue) /\ \A x \in DataOf(queue) : x.id <= sentData
          /\ Below(Range(heard), toClient[s]) /\ Below(Numbers(queue), toClient[s])
          /\ \A x \in DataOf(toClient[s]) : x.id <= sentData
      BY DEF Order
    <3>2. m.type = "data" => \A x \in DataOf(queue) : x.id < m.id
      BY <2>2, <3>1 DEF Below, Numbers
    <3>3. /\ Rising("data", q) /\ DataOf(q) \subseteq DataOf(queue) \cup {m}
          /\ m.type # "data" => DataOf(q) = DataOf(queue)
      BY <1>0, <2>1, <3>1, <3>2, RisingAppend DEF DataOf
    <3> HIDE DEF q
    <3>4. \A x \in DataOf(q) : x.type = "data"
      BY DEF DataOf, Kind
    <3>5. ASSUME NEW x \in DataOf(q) PROVE x \in DataOf(queue) \/ (x = m /\ m.type = "data")
      <4>1. x.type = "data" /\ (x \in DataOf(queue) \/ x = m)
        BY <3>3, <3>4
      <4>2. CASE x = m
        BY <4>1, <4>2
      <4> QED
        BY <4>1, <4>2
    <3>6. Below(Range(heard), q) /\ \A x \in DataOf(q) : x.id <= sentData
      BY <2>2, <3>1, <3>5 DEF Below
    <3>7. Below(Numbers(q), Tail(toClient[s]))
      BY <2>2, <3>1, <3>5 DEF Below, Numbers
    <3>8. \A r \in Sessions : Below(Numbers(q), toClient'[r])
      <4>1. \A r \in Sessions : r # s => DataOf(toClient'[r]) = {}
        BY <1>0, <2>4, DataTypes
      <4> QED
        BY <2>5, <3>7, <4>1 DEF Below
    <3>9. CASE processing
      <4>1. queue' = q /\ UNCHANGED heard
        BY <2>7, <3>9 DEF HandleRequest, q
      <4>2. \A r \in Sessions : Below(Range(heard), toClient'[r])
                                /\ \A x \in DataOf(toClient'[r]) : x.id <= sentData
        <5>1. \A r \in Sessions : Below(Range(heard), toClient[r])
                                  /\ \A x \in DataOf(toClient[r]) : x.id <= sentData
          BY DEF Order
        <5> QED
          BY <2>3, <5>1 DEF Below
      <4>3. /\ \A n \in Range(heard) : n <= sentData
            /\ \A i, j \in DOMAIN heard : i < j => heard[i] < heard[j]
            /\ DataOf(reply) = {}
        BY DEF Order
      <4> QED
        BY <2>1, <2>3, <3>3, <3>6, <3>8, <4>1, <4>2, <4>3 DEF Order
    <3>10. CASE ~processing
      <4>1. Loop(q, running) /\ q \in Seq(Notes)
        BY <2>7, <3>10 DEF HandleRequest, q
      <4> QED
        BY <1>6, <2>1, <2>3, <3>3, <3>6, <3>8, <4>1
    <3> QED
      BY <3>9, <3>10
  <2> QED
    BY <1>9, <2>6, <2>7, ReceivedFacts DEF m
<1>10. ASSUME NEW r \in Sessions, NEW c \in Channels, Notify(r, c) PROVE Order'
  <2> DEFINE d == Data(c, sentData + 1, r)
  <2>1. session \in Sessions /\ sentData + 1 \in 1..MaxData /\ sentData \in Nat
    BY <1>10, BoundsAssumption DEF Notify, TypeOK, Sessions, Open
  <2>2. d \in MessageType /\ d.type = "data" /\ d.id = sentData + 1
    BY <2>1, Messages, MessageKinds
  <2>3. /\ toClient' = [toClient EXCEPT ![session] = Append(@, d)] /\ sentData' = sentData + 1
        /\ UNCHANGED <<heard, queue, reply>>
    BY <1>10 DEF Notify
  <2> HIDE DEF d
  <2>4. \A n \in Range(heard) : n \in 1..MaxData
    <3>1. \A i \in DOMAIN heard : heard[i] \in 1..MaxData
      BY <1>0, LenProperties, ElementOfSeq
    <3> QED
      BY <3>1 DEF Range
  <2>5. /\ \A n \in Range(heard) : n < d.id
        /\ \A m \in DataOf(queue) : m.id < d.id
        /\ \A s \in Sessions : \A m \in DataOf(toClient[s]) : m.id < d.id
    <3>1. /\ \A m \in DataOf(queue) : m.id \in 1..MaxData
          /\ \A s \in Sessions : \A m \in DataOf(toClient[s]) : m.id \in 1..MaxData
      BY <1>0, DataTypes
    <3> QED
      BY <2>1, <2>2, <2>4, <3>1 DEF Order
  <2>6. /\ Rising("data", Append(toClient[session], d))
        /\ DataOf(Append(toClient[session], d)) \subseteq DataOf(toClient[session]) \cup {d}
    BY <1>0, <2>1, <2>2, <2>5, RisingAppend DEF Order, DataOf
  <2>7. \A s \in Sessions : /\ Rising("data", toClient'[s])
                            /\ DataOf(toClient'[s]) \subseteq DataOf(toClient[s]) \cup {d}
    BY <2>1, <2>3, <2>6 DEF Order, TypeOK
  <2>8. \A s \in Sessions : /\ Below(Range(heard), toClient'[s]) /\ Below(Numbers(queue), toClient'[s])
                            /\ \A m \in DataOf(toClient'[s]) : m.id <= sentData'
    <3> SUFFICES ASSUME NEW s \in Sessions, NEW m \in DataOf(toClient'[s])
                 PROVE  /\ \A n \in Range(heard) : n < m.id
                        /\ \A x \in DataOf(queue) : x.id < m.id
                        /\ m.id <= sentData'
      BY DEF Below, Numbers
    <3>1. CASE m = d
      BY <2>1, <2>2, <2>3, <2>5, <3>1
    <3>2. CASE m \in DataOf(toClient[s])
      <4>1. /\ \A n \in Range(heard) : n < m.id
            /\ \A x \in DataOf(queue) : x.id < m.id
        BY <3>2 DEF Order, Below, Numbers
      <4> QED
        BY <2>1, <2>3, <2>5, <2>2, <3>2, <4>1, DataTypes, <1>0
    <3> QED
      BY <2>7, <3>1, <3>2
  <2>9. /\ \A n \in Range(heard) : n <= sentData'
        /\ \A m \in DataOf(queue) : m.id <= sentData'
    BY <2>1, <2>2, <2>3, <2>4, <2>5, <1>0, DataTypes
  <2>10. /\ \A i, j \in DOMAIN heard : i < j => heard[i] < heard[j]
         /\ Rising("data", queue) /\ Below(Range(heard), queue) /\ DataOf(reply) = {}
    BY DEF Order
  <2> QED
    BY <2>3, <2>7, <2>8, <2>9, <2>10 DEF Order
<1>11. ASSUME NEW s \in Sessions, CloseEvent(s) PROVE Order'
  <2>1. queue' = <<>> /\ UNCHANGED <<heard, sentData, toClient, reply>>
    BY <1>11 DEF CloseEvent, HandleClose
  <2>2. Rising("data", queue') /\ DataOf(queue') = {} /\ Numbers(queue') = {}
    BY <1>0, <2>1, DataTypes DEF Numbers
  <2> QED
    BY <2>1, <2>2 DEF Order, Below
<1>12. ASSUME NEW s \in Sessions, SocketLost(s) PROVE Order'
  <2>1. PICK n \in 0..Len(toClient[s]) : toClient' = [toClient EXCEPT ![s] = SubSeq(@, 1, n)]
    BY <1>12 DEF SocketLost
  <2>2. Rising("data", SubSeq(toClient[s], 1, n)) /\ DataOf(SubSeq(toClient[s], 1, n)) \subseteq DataOf(toClient[s])
    BY <1>0, RisingCut DEF Order, DataOf
  <2>3. \A r \in Sessions : Rising("data", toClient'[r]) /\ DataOf(toClient'[r]) \subseteq DataOf(toClient[r])
    BY <2>1, <2>2 DEF Order, TypeOK
  <2> QED
    BY <1>12, <2>3, OrderKept DEF SocketLost, Order
<1>13. ASSUME NEW i \in late, LateRequest(i) PROVE Order'
  <2>1. /\ session \in Sessions /\ i \in Ids /\ UNCHANGED <<heard, queue, sentData, reply>>
        /\ \/ toClient' = toClient
           \/ toClient' = [toClient EXCEPT ![session] = Append(@, Ack(i))]
    BY <1>13, LateFacts
  <2>2. Ack(i) \in MessageType /\ Ack(i).type # "data"
    BY <2>1, Messages, MessageKinds
  <2>3. /\ Rising("data", Append(toClient[session], Ack(i)))
        /\ DataOf(Append(toClient[session], Ack(i))) = DataOf(toClient[session])
    BY <1>0, <2>1, <2>2, RisingAppend DEF Order, DataOf
  <2>4. \A r \in Sessions : Rising("data", toClient'[r]) /\ DataOf(toClient'[r]) \subseteq DataOf(toClient[r])
    BY <2>1, <2>3 DEF Order, TypeOK
  <2> QED
    BY <2>1, <2>4, OrderKept DEF Order
<1> QED
  BY <1>2, <1>3, <1>4, <1>5, <1>7, <1>8, <1>9, <1>10, <1>11, <1>12, <1>13 DEF Next

SocketsInv == TypeOK /\ Wires /\ Cleared /\ OneLoop /\ Order

LEMMA SocketsInit == Init => SocketsInv
<1> SUFFICES ASSUME Init PROVE SocketsInv
  OBVIOUS
<1>1. TypeOK
  BY TypeInit
<1>2. Wires /\ Cleared /\ OneLoop
  BY DEF Init, Wires, Cleared, OneLoop, Sessions
<1>3. Range(heard) = {} /\ DOMAIN heard = {} /\ sentData = 0
  BY EmptyFacts DEF Init
<1>4. /\ DataOf(queue) = {} /\ Rising("data", queue) /\ DataOf(reply) = {}
      /\ \A s \in Sessions : DataOf(toClient[s]) = {} /\ Rising("data", toClient[s])
  <2>1. <<>> \in Seq(MessageType)
    BY EmptyFacts
  <2> QED
    BY <2>1, DataTypes DEF Init
<1>5. Order
  BY <1>3, <1>4 DEF Order, Below
<1> QED
  BY <1>1, <1>2, <1>5 DEF SocketsInv

LEMMA SocketsStep == ASSUME ~Hasty PROVE SocketsInv /\ [Next]_vars => SocketsInv'
BY TypeStep, WiresStep, ClearedStep, OneLoopStep, OrderStep DEF SocketsInv

LEMMA SocketsCorrect == ASSUME ~Hasty PROVE Spec => []SocketsInv
<1>1. SocketsInv /\ [Next]_vars => SocketsInv'
  BY SocketsStep
<1> QED
  BY <1>1, SocketsInit, PTL DEF Spec

\* Listeners hear the messages in the order of the server, one at a time as long as none
\* outlives its session, if the page connects again only after the close event.
THEOREM HeardInOrderCorrect == ASSUME ~Hasty PROVE Spec => []HeardInOrder
<1>1. SocketsInv => HeardInOrder
  <2> SUFFICES ASSUME SocketsInv PROVE HeardInOrder
    OBVIOUS
  <2>1. \A i, j \in DOMAIN heard : i < j => heard[i] < heard[j]
    BY DEF SocketsInv, Order
  <2>2. ~overlap => Cardinality(running) <= 1
    <3>1. \A r : Cardinality({r}) = 1
      BY FS_Singleton
    <3>2. Cardinality({}) = 0
      BY FS_EmptySet
    <3> QED
      BY <3>1, <3>2 DEF SocketsInv, OneLoop
  <2>3. ~overlap => (running # {} => processing \/ ~Open(session))
    BY DEF SocketsInv, OneLoop, Ended, Open
  <2> QED
    BY <2>1, <2>2, <2>3 DEF HeardInOrder
<1> QED
  BY <1>1, SocketsCorrect, PTL

=============================================================================
