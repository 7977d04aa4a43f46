------------------------- MODULE MessageQueue_proofs -------------------------
(***************************************************************************)
(* What is proved of MessageQueue for every number of messages, streams    *)
(* and processors: type correctness, the safety invariants that its runs   *)
(* check, and that it implements FifoChannel.                              *)
(***************************************************************************)
EXTENDS MessageQueue, SequenceTheorems, TLAPS

LEMMA TypeInit == Init => TypeOK
<1> SUFFICES ASSUME Init PROVE TypeOK
  OBVIOUS
<1> USE DEF Init, ProcStates, ReaderStates, Working
<1>1. messages \in Seq(Messages) /\ sent \in Seq(Messages)
  OBVIOUS
<1>2. incoming \in 0..MaxIncoming
  BY MaxIncomingAssumption
<1>3. attempts \in [Messages -> Nat]
  OBVIOUS
<1>4. \A p \in Procs : procPc[p] = "idle"
  OBVIOUS
<1>5. \A r \in Streams : readerPc[r] = "none"
  OBVIOUS
<1> QED
  BY <1>1, <1>2, <1>3, <1>4, <1>5 DEF TypeOK

\* A step of a processor preserves the type invariant.
LEMMA TypeProcessor ==
  ASSUME TypeOK, NEW p \in Procs, Processor(p)
  PROVE  TypeOK'
<1> USE DEF TypeOK, ProcStates, ReaderStates, Working, Goto, procVars, readerVars,
            queueVars, netVars
<1>1. CASE StartProcessing(p)
  BY <1>1 DEF StartProcessing
<1>2. CASE PickMessage(p)
  <2>1. messages # <<>> => Head(messages) \in Messages
    BY HeadTailProperties
  <2> QED
    BY <1>2, <2>1, ZenonT(40) DEF PickMessage
<1>3. CASE StopProcessing(p)
  BY <1>3 DEF StopProcessing
<1>4. CASE EnsureStream(p)
  <2> USE <1>4 DEF EnsureStream
  <2>1. CASE stream # None
    BY <2>1
  <2>2. CASE stream = None /\ procPc'[p] = "send"
    <3> PICK s \in Streams : AdoptStream(s) /\ conn' = [conn EXCEPT ![s] = "open"]
      BY <2>2
    <3>1. stream' \in Streams /\ conn' \in [Streams -> {"unused", "open", "broken", "closed"}]
      BY DEF AdoptStream
    <3>2. readerPc' \in [Streams -> ReaderStates]
      BY DEF AdoptStream
    <3>3. \A r \in Streams : readerPc'[r] # readerPc[r] => readerPc'[r] = "start"
      BY DEF AdoptStream
    <3>4. UNCHANGED <<readerOn, ackOn, readerDone, incoming, queueVars, procMsg, procStream,
                      host, sent, panicked>>
      BY DEF AdoptStream
    <3>5. procPc' = [procPc EXCEPT ![p] = "send"] /\ procPc[p] = "ensure"
      BY <2>2
    <3> HIDE DEF EnsureStream
    <3> QED
      BY <3>1, <3>2, <3>3, <3>4, <3>5
  <2>3. CASE stream = None /\ procPc'[p] = "fail"
    BY <2>3
  <2> QED
    BY <2>1, <2>2, <2>3
<1>5. CASE SendMessage(p)
  BY <1>5 DEF SendMessage
<1>6. CASE WriteHeader(p)
  BY <1>6 DEF WriteHeader
<1>7. CASE WriteBody(p)
  BY <1>7 DEF WriteBody
<1>8. CASE WriteFails(p)
  BY <1>8 DEF WriteFails, CloseStreamLocked
<1>9. CASE RemoveAcked(p)
  BY <1>9 DEF RemoveAcked
<1>10. CASE HandleSendFailure(p)
  <2>1. procMsg[p] \in Messages
    BY <1>10 DEF HandleSendFailure
  <2>2. \/ attempts' = attempts
        \/ attempts' = [attempts EXCEPT ![procMsg[p]] = @ + 1]
    BY <1>10, Zenon DEF HandleSendFailure
  <2>3. attempts' \in [Messages -> Nat]
    BY <2>1, <2>2
  <2>4. unreachable' \in BOOLEAN
    BY <1>10, Zenon DEF HandleSendFailure
  <2> QED
    BY <1>10, <2>4, <2>3 DEF HandleSendFailure
<1> QED
  BY <1>1, <1>2, <1>3, <1>4, <1>5, <1>6, <1>7, <1>8, <1>9, <1>10 DEF Processor

\* A step of a reader preserves the type invariant.
LEMMA TypeReader ==
  ASSUME TypeOK, NEW r \in Streams, Reader(r)
  PROVE  TypeOK'
<1> USE DEF TypeOK, ProcStates, ReaderStates, Working, procVars, readerVars, queueVars,
            netVars, At
<1>1. CASE StartReading(r)
  <2>1. CASE stream = None
    BY <1>1, <2>1 DEF At, StartReading, CloseReaderDone
  <2>2. CASE stream # None
    <3>1. /\ stream \in Streams
          /\ readerPc' = [readerPc EXCEPT ![r] = "reading"]
          /\ readerOn' = [readerOn EXCEPT ![r] = stream]
          /\ UNCHANGED <<readerDone, panicked, ackOn, incoming, queueVars, procVars,
                         netVars, sent>>
      BY <1>1, <2>2 DEF At, StartReading
    <3>2. readerPc' \in [Streams -> ReaderStates]
      BY <3>1
    <3>3. readerOn' \in [Streams -> Streams \cup {None}]
      BY <3>1
    <3> QED
      BY <3>1, <3>2, <3>3
  <2> QED
    BY <2>1, <2>2
<1>2. CASE HandleIncomingData(r)
  <2>1. incoming' \in 0..MaxIncoming
    BY <1>2, MaxIncomingAssumption DEF At, HandleIncomingData
  <2> QED
    BY <1>2, <2>1 DEF At, HandleIncomingData, SpawnProcessor, Goto
<1>3. CASE TakeAckStream(r)
  BY <1>3 DEF At, TakeAckStream
<1>4. CASE WriteAckHeader(r)
  BY <1>4 DEF WriteAckHeader
<1>5. CASE FinishAck(r)
  BY <1>5 DEF FinishAck
<1>6. CASE ReadFails(r)
  BY <1>6 DEF ReadFails, CloseReaderDone, CloseStreamLocked
<1> QED
  BY <1>1, <1>2, <1>3, <1>4, <1>5, <1>6 DEF Reader

LEMMA TypeStep == TypeOK /\ [Next]_vars => TypeOK'
<1> SUFFICES ASSUME TypeOK, [Next]_vars PROVE TypeOK'
  OBVIOUS
<1> USE DEF procVars, readerVars, queueVars, netVars
<1>1. ASSUME NEW m \in Messages, SendToQueue(m) PROVE TypeOK'
  <2>1. messages' \in Seq(Messages)
    BY <1>1, AppendProperties DEF SendToQueue, TypeOK
  <2>2. /\ procPc' \in [Procs -> ProcStates]
        /\ \A p \in Procs : procPc'[p] # procPc[p] => procPc'[p] = "start"
    BY <1>1 DEF SendToQueue, SpawnProcessor, Goto, TypeOK, ProcStates
  <2> QED
    BY <1>1, <2>1, <2>2 DEF SendToQueue, TypeOK, Working
<1>2. ASSUME NEW p \in Procs, Processor(p) PROVE TypeOK'
  BY <1>2, TypeProcessor
<1>3. ASSUME NEW r \in Streams, Reader(r) PROVE TypeOK'
  BY <1>3, TypeReader
<1>4. ASSUME NEW s \in Streams, HandleIncomingStream(s) PROVE TypeOK'
  BY <1>4 DEF HandleIncomingStream, AdoptStream, TypeOK, ReaderStates
<1>5. ASSUME NEW s \in Streams, StreamBreaks(s) PROVE TypeOK'
  BY <1>5 DEF StreamBreaks, TypeOK
<1>6. CASE CheckIdleStreams
  BY <1>6 DEF CheckIdleStreams, CloseStreamLocked, TypeOK
<1>7. CASE Close
  BY <1>7 DEF Close, CloseStreamLocked, TypeOK
<1>8. CASE HostClose
  BY <1>8 DEF HostClose, TypeOK
<1>9. CASE UNCHANGED vars
  BY <1>9 DEF vars, TypeOK
<1> QED
  BY <1>1, <1>2, <1>3, <1>4, <1>5, <1>6, <1>7, <1>8, <1>9 DEF Next

\* Every variable keeps its type.
THEOREM TypeCorrect == Spec => []TypeOK
  BY TypeInit, TypeStep, PTL DEF Spec

-----------------------------------------------------------------------------
(* The queue invariant.  To the invariants of the model it adds what makes  *)
(* them inductive: a processor works only while the peer is reachable, no   *)
(* message is queued twice, a message that has been attempted is queued or  *)
(* sent, and one whose ACK is awaited is sent.                              *)

WorkingMeansReachable == \A p \in Procs : procPc[p] \in Working => ~unreachable

NoDuplicates ==
  \A i, j \in DOMAIN messages : messages[i] = messages[j] => i = j

AttemptedIsKnown ==
  \A m \in Messages : attempts[m] # 0 => m \in Range(messages) \cup Range(sent)

WaitIsSent ==
  \A p \in Procs : procPc[p] = "wait" => procMsg[p] \in Range(sent)

QueueInv ==
  /\ TypeOK
  /\ SingleProcessor
  /\ PickedIsHead
  /\ UnreachableMeansExhausted
  /\ HeadOfLine
  /\ WorkingMeansReachable
  /\ NoDuplicates
  /\ AttemptedIsKnown
  /\ WaitIsSent

\* What Append and Tail do to the elements of a sequence.
LEMMA RangeAppend ==
  ASSUME NEW S, NEW q \in Seq(S), NEW e \in S
  PROVE  Range(Append(q, e)) = Range(q) \cup {e}
  BY AppendProperties DEF Range

LEMMA RangeTail ==
  ASSUME NEW S, NEW q \in Seq(S), q # <<>>
  PROVE  Range(q) \subseteq {Head(q)} \cup Range(Tail(q))
<1> SUFFICES ASSUME NEW i \in 1..Len(q), i > 1 PROVE q[i] \in Range(Tail(q))
  BY DEF Range
<1> DEFINE t == Tail(q)
<1>1. t \in Seq(S) /\ Len(t) = Len(q) - 1 /\ \A j \in 1..Len(t) : t[j] = q[j + 1]
  BY HeadTailProperties
<1>2. Len(q) \in Nat /\ i - 1 \in 1..Len(t)
  BY <1>1
<1>3. t[i - 1] = q[i]
  BY <1>1, <1>2
<1> HIDE DEF t
<1>4. q[i] \in Range(t)
  BY <1>1, <1>2, <1>3, RangeEquality
<1> QED
  BY <1>4 DEF t

LEMMA QueueInit == Init => QueueInv
<1> SUFFICES ASSUME Init PROVE QueueInv
  OBVIOUS
<1>1. messages = <<>> /\ sent = <<>> /\ ~unreachable /\ ~processing
  BY DEF Init
<1>2. \A p \in Procs : procPc[p] = "idle"
  BY DEF Init
<1>3. \A m \in Messages : attempts[m] = 0
  BY DEF Init
<1>4. SingleProcessor
  BY <1>1, <1>2 DEF SingleProcessor, Active
<1>5. PickedIsHead /\ WorkingMeansReachable /\ WaitIsSent
  BY <1>2 DEF PickedIsHead, WorkingMeansReachable, WaitIsSent, Working
<1>6. UnreachableMeansExhausted /\ HeadOfLine /\ NoDuplicates
  BY <1>1 DEF UnreachableMeansExhausted, HeadOfLine, NoDuplicates
<1>7. AttemptedIsKnown
  BY <1>3 DEF AttemptedIsKnown
<1> QED
  BY TypeInit, <1>4, <1>5, <1>6, <1>7 DEF QueueInv

\* The steps that touch neither the queue nor a processor.
LEMMA QueueUntouched ==
  ASSUME QueueInv, TypeOK', UNCHANGED <<queueVars, procPc, procMsg, sent>>
  PROVE  QueueInv'
<1> USE DEF QueueInv, queueVars
<1>1. SingleProcessor' /\ PickedIsHead' /\ WorkingMeansReachable' /\ WaitIsSent'
  BY DEF SingleProcessor, Active, PickedIsHead, WorkingMeansReachable, WaitIsSent
<1>2. UnreachableMeansExhausted' /\ HeadOfLine' /\ NoDuplicates' /\ AttemptedIsKnown'
  BY DEF UnreachableMeansExhausted, HeadOfLine, NoDuplicates, AttemptedIsKnown
<1> QED
  BY <1>1, <1>2

\* A processor goes on with its message, before the message is written.
LEMMA QueueWorking ==
  ASSUME QueueInv, TypeOK', NEW p \in Procs, NEW to \in Working \ {"wait"},
         procPc[p] \in Working, procPc' = [procPc EXCEPT ![p] = to],
         UNCHANGED <<queueVars, procMsg, sent>>
  PROVE  QueueInv'
<1> USE DEF QueueInv, queueVars
<1>1. \A q \in Procs : procPc'[q] \in Working <=> procPc[q] \in Working
  BY DEF TypeOK
<1>2. Active' = Active
  BY DEF TypeOK, Active, Working
<1>3. SingleProcessor'
  BY <1>2 DEF SingleProcessor
<1>4. PickedIsHead' /\ WorkingMeansReachable'
  BY <1>1 DEF PickedIsHead, WorkingMeansReachable
<1>5. WaitIsSent'
  BY DEF WaitIsSent, TypeOK
<1>6. UnreachableMeansExhausted' /\ HeadOfLine' /\ NoDuplicates' /\ AttemptedIsKnown'
  BY DEF UnreachableMeansExhausted, HeadOfLine, NoDuplicates, AttemptedIsKnown
<1> QED
  BY <1>3, <1>4, <1>5, <1>6

\* A goroutine for processQueue is started, or not.
LEMMA SpawnedIsInactive ==
  ASSUME QueueInv, SpawnProcessor \/ UNCHANGED procPc
  PROVE  /\ Active' = Active
         /\ \A p \in Procs : procPc'[p] \in Working <=> procPc[p] \in Working
         /\ \A p \in Procs : procPc'[p] = "wait" <=> procPc[p] = "wait"
<1>1. CASE UNCHANGED procPc
  BY <1>1 DEF Active
<1>2. CASE SpawnProcessor
  <2> PICK q \in Procs : procPc[q] = "idle" /\ procPc' = [procPc EXCEPT ![q] = "start"]
    BY <1>2 DEF SpawnProcessor, Goto
  <2> QED
    BY DEF QueueInv, TypeOK, Active, Working
<1> QED
  BY <1>1, <1>2

\* Each step of the queue in turn.
LEMMA QueueSend ==
  ASSUME QueueInv, TypeOK', NEW m \in Messages, SendToQueue(m)
  PROVE  QueueInv'
<1> USE DEF QueueInv
<1>1. /\ messages \in Seq(Messages) /\ sent \in Seq(Messages)
      /\ m \notin Range(messages) /\ m \notin Range(sent)
      /\ messages' = Append(messages, m)
      /\ UNCHANGED <<attempts, unreachable, processing, procMsg, sent>>
  BY DEF SendToQueue, TypeOK
<1>2. /\ Active' = Active
      /\ \A p \in Procs : procPc'[p] \in Working <=> procPc[p] \in Working
      /\ \A p \in Procs : procPc'[p] = "wait" <=> procPc[p] = "wait"
  <2>1. SpawnProcessor \/ UNCHANGED procPc
    BY DEF SendToQueue
  <2> QED
    BY <2>1, SpawnedIsInactive
<1>3. /\ Len(messages') = Len(messages) + 1
      /\ messages' # <<>>
      /\ \A i \in 1..Len(messages) : messages'[i] = messages[i]
      /\ messages'[Len(messages) + 1] = m
  BY <1>1, AppendProperties
<1>4. messages # <<>> => Head(messages') = Head(messages)
  BY <1>1, HeadTailAppend
<1>5. \A i \in DOMAIN messages : messages[i] # m
  BY <1>1 DEF Range
<1>6. DOMAIN messages = 1..Len(messages) /\ DOMAIN messages' = 1..(Len(messages) + 1)
      /\ Len(messages) \in Nat
  BY <1>1, <1>3 DEF TypeOK
<1>7. attempts[m] = 0
  BY <1>1 DEF AttemptedIsKnown
<1>8. SingleProcessor'
  BY <1>1, <1>2 DEF SingleProcessor
<1>9. PickedIsHead' /\ WorkingMeansReachable' /\ WaitIsSent'
  BY <1>1, <1>2, <1>3, <1>4 DEF PickedIsHead, WorkingMeansReachable, WaitIsSent
<1>10. UnreachableMeansExhausted'
  BY <1>1, <1>3, <1>4 DEF UnreachableMeansExhausted
<1>11. HeadOfLine'
  BY <1>1, <1>3, <1>6, <1>7 DEF HeadOfLine
<1>12. NoDuplicates'
  BY <1>3, <1>5, <1>6 DEF NoDuplicates
<1>13. AttemptedIsKnown'
  BY <1>1, RangeAppend DEF AttemptedIsKnown
<1> QED
  BY <1>8, <1>9, <1>10, <1>11, <1>12, <1>13

LEMMA QueueStart ==
  ASSUME QueueInv, TypeOK', NEW p \in Procs, StartProcessing(p)
  PROVE  QueueInv'
<1> USE DEF QueueInv
<1>1. /\ procPc[p] = "start"
      /\ UNCHANGED <<messages, attempts, unreachable, procMsg, sent>>
      /\ \/ processing /\ procPc' = [procPc EXCEPT ![p] = "idle"] /\ UNCHANGED processing
         \/ ~processing /\ procPc' = [procPc EXCEPT ![p] = "check"] /\ processing'
  BY DEF StartProcessing, Goto
<1>2. \A q \in Procs : procPc'[q] \in Working <=> procPc[q] \in Working
  BY <1>1 DEF TypeOK, Working
<1>3. SingleProcessor'
  <2>1. CASE processing
    <3>1. Active' = Active
      BY <1>1, <2>1 DEF Active, TypeOK
    <3> QED
      BY <1>1, <2>1, <3>1 DEF SingleProcessor
  <2>2. CASE ~processing
    <3>1. Active' = Active \cup {p}
      BY <1>1, <2>2 DEF Active, TypeOK
    <3> QED
      BY <1>1, <2>2, <3>1 DEF SingleProcessor
  <2> QED
    BY <2>1, <2>2
<1>4. PickedIsHead' /\ WorkingMeansReachable'
  BY <1>1, <1>2 DEF PickedIsHead, WorkingMeansReachable
<1>5. WaitIsSent'
  BY <1>1 DEF WaitIsSent, TypeOK
<1>6. UnreachableMeansExhausted' /\ HeadOfLine' /\ NoDuplicates' /\ AttemptedIsKnown'
  BY <1>1 DEF UnreachableMeansExhausted, HeadOfLine, NoDuplicates, AttemptedIsKnown
<1> QED
  BY <1>3, <1>4, <1>5, <1>6

LEMMA QueuePick ==
  ASSUME QueueInv, TypeOK', NEW p \in Procs, PickMessage(p)
  PROVE  QueueInv'
<1> USE DEF QueueInv
<1>1. /\ procPc[p] = "check"
      /\ UNCHANGED <<queueVars, sent>>
      /\ \/ procPc' = [procPc EXCEPT ![p] = "exit"] /\ UNCHANGED procMsg
         \/ /\ messages # <<>> /\ ~unreachable
            /\ procPc' = [procPc EXCEPT ![p] = "ensure"]
            /\ procMsg' = [procMsg EXCEPT ![p] = Head(messages)]
  BY DEF PickMessage, Goto
<1>2. Active' = Active
  BY <1>1 DEF TypeOK, Active
<1>3. SingleProcessor'
  BY <1>1, <1>2 DEF SingleProcessor, queueVars
<1>4. PickedIsHead' /\ WorkingMeansReachable'
  BY <1>1 DEF PickedIsHead, WorkingMeansReachable, Working, TypeOK, queueVars
<1>5. WaitIsSent'
  BY <1>1 DEF WaitIsSent, TypeOK
<1>6. UnreachableMeansExhausted' /\ HeadOfLine' /\ NoDuplicates' /\ AttemptedIsKnown'
  BY <1>1 DEF UnreachableMeansExhausted, HeadOfLine, NoDuplicates, AttemptedIsKnown, queueVars
<1> QED
  BY <1>3, <1>4, <1>5, <1>6

LEMMA QueueStop ==
  ASSUME QueueInv, TypeOK', NEW p \in Procs, StopProcessing(p)
  PROVE  QueueInv'
<1> USE DEF QueueInv
<1>1. /\ procPc[p] = "exit"
      /\ procPc' = [procPc EXCEPT ![p] = "idle"]
      /\ ~processing'
      /\ procMsg' = [procMsg EXCEPT ![p] = None]
      /\ UNCHANGED <<messages, attempts, unreachable, sent>>
  BY DEF StopProcessing, Goto
<1>2. Active' = {}
  <2>1. p \in Active /\ Active' = Active \ {p}
    BY <1>1 DEF TypeOK, Active
  <2> QED
    BY <2>1 DEF SingleProcessor
<1>3. SingleProcessor'
  BY <1>1, <1>2 DEF SingleProcessor
<1>4. PickedIsHead' /\ WorkingMeansReachable'
  BY <1>1 DEF PickedIsHead, WorkingMeansReachable, Working, TypeOK
<1>5. WaitIsSent'
  BY <1>1 DEF WaitIsSent, TypeOK
<1>6. UnreachableMeansExhausted' /\ HeadOfLine' /\ NoDuplicates' /\ AttemptedIsKnown'
  BY <1>1 DEF UnreachableMeansExhausted, HeadOfLine, NoDuplicates, AttemptedIsKnown
<1> QED
  BY <1>3, <1>4, <1>5, <1>6

LEMMA QueueWrite ==
  ASSUME QueueInv, TypeOK', NEW p \in Procs, WriteBody(p)
  PROVE  QueueInv'
<1> USE DEF QueueInv
<1>1. /\ procPc[p] = "body"
      /\ procPc' = [procPc EXCEPT ![p] = "wait"]
      /\ sent' = Append(sent, procMsg[p])
      /\ UNCHANGED <<messages, attempts, unreachable, processing, procMsg>>
  BY DEF WriteBody, Goto, queueVars
<1>2. Range(sent') = Range(sent) \cup {procMsg[p]}
  BY <1>1, RangeAppend DEF TypeOK, Working
<1>3. Active' = Active /\ \A q \in Procs : procPc'[q] \in Working <=> procPc[q] \in Working
  BY <1>1 DEF TypeOK, Active, Working
<1>4. SingleProcessor'
  BY <1>1, <1>3 DEF SingleProcessor
<1>5. PickedIsHead' /\ WorkingMeansReachable'
  BY <1>1, <1>3 DEF PickedIsHead, WorkingMeansReachable
<1>6. WaitIsSent'
  BY <1>1, <1>2 DEF WaitIsSent, TypeOK
<1>7. UnreachableMeansExhausted' /\ HeadOfLine' /\ NoDuplicates'
  BY <1>1 DEF UnreachableMeansExhausted, HeadOfLine, NoDuplicates
<1>8. AttemptedIsKnown'
  BY <1>1, <1>2 DEF AttemptedIsKnown
<1> QED
  BY <1>4, <1>5, <1>6, <1>7, <1>8

LEMMA QueueRemove ==
  ASSUME QueueInv, TypeOK', NEW p \in Procs, RemoveAcked(p)
  PROVE  QueueInv'
<1> USE DEF QueueInv
<1>1. /\ procPc[p] = "wait"
      /\ procPc' = [procPc EXCEPT ![p] = "check"]
      /\ UNCHANGED <<attempts, unreachable, processing, procMsg, sent>>
  BY DEF RemoveAcked, Goto
<1>2. /\ messages # <<>> /\ Head(messages) = procMsg[p]
      /\ ~unreachable
      /\ procMsg[p] \in Range(sent)
      /\ messages \in Seq(Messages)
  BY <1>1 DEF PickedIsHead, WorkingMeansReachable, WaitIsSent, Working, TypeOK
<1>3. messages' = Tail(messages)
  BY <1>2 DEF RemoveAcked
<1>4. /\ Len(messages) \in Nat
      /\ DOMAIN messages = 1..Len(messages) /\ DOMAIN messages' = 1..(Len(messages) - 1)
      /\ \A i \in 1..(Len(messages) - 1) : messages'[i] = messages[i + 1]
  BY <1>2, <1>3, HeadTailProperties
<1>5. Active' = Active
  BY <1>1 DEF TypeOK, Active
<1>6. SingleProcessor'
  BY <1>1, <1>5 DEF SingleProcessor
<1>7. \A q \in Procs : procPc'[q] \notin Working
  <2>1. \A q \in Procs : procPc[q] \in Working => q = p
    BY <1>1 DEF SingleProcessor, Active, Working
  <2> QED
    BY <1>1, <2>1 DEF TypeOK, Working
<1>8. PickedIsHead' /\ WorkingMeansReachable' /\ WaitIsSent'
  BY <1>7 DEF PickedIsHead, WorkingMeansReachable, WaitIsSent, Working
<1>9. UnreachableMeansExhausted'
  BY <1>1, <1>2 DEF UnreachableMeansExhausted
<1>10. HeadOfLine'
  <2> SUFFICES ASSUME NEW i \in DOMAIN messages', i > 1 PROVE attempts[messages'[i]] = 0
    BY <1>1 DEF HeadOfLine
  <2>1. i + 1 \in DOMAIN messages /\ i + 1 > 1 /\ messages'[i] = messages[i + 1]
    BY <1>4
  <2> QED
    BY <2>1 DEF HeadOfLine
<1>11. NoDuplicates'
  <2> SUFFICES ASSUME NEW i \in DOMAIN messages', NEW j \in DOMAIN messages',
                      messages'[i] = messages'[j]
               PROVE  i = j
    BY DEF NoDuplicates
  <2>1. i + 1 \in DOMAIN messages /\ j + 1 \in DOMAIN messages
        /\ messages[i + 1] = messages[j + 1]
    BY <1>4
  <2>2. i + 1 = j + 1
    BY <2>1 DEF NoDuplicates
  <2> QED
    BY <1>4, <2>2
<1>12. AttemptedIsKnown'
  <2>1. Range(messages) \subseteq {procMsg[p]} \cup Range(messages')
    BY <1>2, <1>3, RangeTail
  <2> QED
    BY <1>1, <1>2, <2>1 DEF AttemptedIsKnown
<1> QED
  BY <1>6, <1>8, <1>9, <1>10, <1>11, <1>12

LEMMA QueueFail ==
  ASSUME QueueInv, TypeOK', NEW p \in Procs, HandleSendFailure(p)
  PROVE  QueueInv'
<1> USE DEF QueueInv
<1> DEFINE m == procMsg[p]
<1>1. /\ procPc[p] = "fail"
      /\ procPc' = [procPc EXCEPT ![p] = "check"]
      /\ UNCHANGED <<messages, processing, procMsg, sent>>
  BY DEF HandleSendFailure, Goto
<1>2. /\ messages # <<>> /\ Head(messages) = m
      /\ ~unreachable
      /\ messages \in Seq(Messages) /\ m \in Messages
  BY <1>1 DEF PickedIsHead, WorkingMeansReachable, Working, TypeOK
<1>3. attempts' = [attempts EXCEPT ![m] = @ + 1]
  BY <1>2, Zenon DEF HandleSendFailure
<1>4. unreachable' => attempts[m] + 1 >= MaxAttempts
  BY <1>2, Zenon DEF HandleSendFailure
<1>5. m = messages[1] /\ 1 \in DOMAIN messages
  BY <1>2, LenProperties, EmptySeq
<1>6. Active' = Active
  BY <1>1 DEF TypeOK, Active
<1>7. SingleProcessor'
  BY <1>1, <1>6 DEF SingleProcessor
<1>8. \A q \in Procs : procPc'[q] \notin Working
  <2>1. \A q \in Procs : procPc[q] \in Working => q = p
    BY <1>1 DEF SingleProcessor, Active, Working
  <2> QED
    BY <1>1, <2>1 DEF TypeOK, Working
<1>9. PickedIsHead' /\ WorkingMeansReachable' /\ WaitIsSent'
  BY <1>8 DEF PickedIsHead, WorkingMeansReachable, WaitIsSent, Working
<1>10. attempts'[m] = attempts[m] + 1 /\ \A n \in Messages : n # m => attempts'[n] = attempts[n]
  BY <1>2, <1>3 DEF TypeOK
<1>11. UnreachableMeansExhausted'
  BY <1>1, <1>2, <1>4, <1>10 DEF UnreachableMeansExhausted
<1>12. HeadOfLine'
  <2> SUFFICES ASSUME NEW i \in DOMAIN messages, i > 1 PROVE attempts'[messages[i]] = 0
    BY <1>1 DEF HeadOfLine
  <2>1. messages[i] # m /\ messages[i] \in Messages
    BY <1>2, <1>5 DEF NoDuplicates
  <2> QED
    BY <1>10, <2>1 DEF HeadOfLine
<1>13. NoDuplicates'
  BY <1>1 DEF NoDuplicates
<1>14. AttemptedIsKnown'
  <2>1. m \in Range(messages)
    BY <1>5 DEF Range
  <2> QED
    BY <1>1, <1>10, <2>1 DEF AttemptedIsKnown
<1> QED
  BY <1>7, <1>9, <1>11, <1>12, <1>13, <1>14

LEMMA QueueIncoming ==
  ASSUME QueueInv, TypeOK', NEW r \in Streams, HandleIncomingData(r)
  PROVE  QueueInv'
<1> USE DEF QueueInv
<1>1. /\ ~unreachable'
      /\ UNCHANGED <<messages, attempts, processing, procMsg, sent>>
  BY DEF At, HandleIncomingData
<1>2. /\ Active' = Active
      /\ \A p \in Procs : procPc'[p] \in Working <=> procPc[p] \in Working
      /\ \A p \in Procs : procPc'[p] = "wait" <=> procPc[p] = "wait"
  <2>1. SpawnProcessor \/ UNCHANGED procPc
    BY DEF At, HandleIncomingData
  <2> QED
    BY <2>1, SpawnedIsInactive
<1>3. SingleProcessor'
  BY <1>1, <1>2 DEF SingleProcessor
<1>4. PickedIsHead' /\ WorkingMeansReachable' /\ WaitIsSent'
  BY <1>1, <1>2 DEF PickedIsHead, WorkingMeansReachable, WaitIsSent
<1>5. UnreachableMeansExhausted' /\ HeadOfLine' /\ NoDuplicates' /\ AttemptedIsKnown'
  BY <1>1 DEF UnreachableMeansExhausted, HeadOfLine, NoDuplicates, AttemptedIsKnown
<1> QED
  BY <1>3, <1>4, <1>5

LEMMA QueueStep == QueueInv /\ [Next]_vars => QueueInv'
<1> SUFFICES ASSUME QueueInv, [Next]_vars PROVE QueueInv'
  OBVIOUS
<1>1. TypeOK'
  BY TypeStep DEF QueueInv
<1> USE <1>1 DEF procVars, netVars
<1>2. ASSUME NEW m \in Messages, SendToQueue(m) PROVE QueueInv'
  BY <1>2, QueueSend
<1>3. ASSUME NEW p \in Procs, Processor(p) PROVE QueueInv'
  <2>1. CASE StartProcessing(p)
    BY <2>1, QueueStart
  <2>2. CASE PickMessage(p)
    BY <2>2, QueuePick
  <2>3. CASE StopProcessing(p)
    BY <2>3, QueueStop
  <2>4. CASE EnsureStream(p)
    <3>1. \E to \in Working \ {"wait"} :
             procPc[p] \in Working /\ procPc' = [procPc EXCEPT ![p] = to]
      BY <2>4 DEF EnsureStream, Goto, Working
    <3> QED
      BY <2>4, <3>1, QueueWorking DEF EnsureStream
  <2>5. CASE SendMessage(p)
    <3>1. \E to \in Working \ {"wait"} :
             procPc[p] \in Working /\ procPc' = [procPc EXCEPT ![p] = to]
      BY <2>5 DEF SendMessage, Goto, Working
    <3> QED
      BY <2>5, <3>1, QueueWorking DEF SendMessage
  <2>6. CASE WriteHeader(p)
    <3>1. "body" \in Working \ {"wait"} /\ procPc[p] \in Working
      BY <2>6 DEF WriteHeader, Goto, Working
    <3> QED
      BY <2>6, <3>1, QueueWorking DEF WriteHeader, Goto
  <2>7. CASE WriteFails(p)
    <3>1. "fail" \in Working \ {"wait"} /\ procPc[p] \in Working
      BY <2>7 DEF WriteFails, Goto, Working
    <3> QED
      BY <2>7, <3>1, QueueWorking DEF WriteFails, Goto
  <2>8. CASE WriteBody(p)
    BY <2>8, QueueWrite
  <2>9. CASE RemoveAcked(p)
    BY <2>9, QueueRemove
  <2>10. CASE HandleSendFailure(p)
    BY <2>10, QueueFail
  <2> QED
    BY <1>3, <2>1, <2>2, <2>3, <2>4, <2>5, <2>6, <2>7, <2>8, <2>9, <2>10 DEF Processor
<1>4. ASSUME NEW r \in Streams, Reader(r) PROVE QueueInv'
  <2>1. CASE HandleIncomingData(r)
    BY <2>1, QueueIncoming
  <2>2. CASE ~HandleIncomingData(r)
    <3>1. UNCHANGED <<queueVars, procVars, sent>>
      BY <1>4, <2>2 DEF Reader, StartReading, TakeAckStream, WriteAckHeader, FinishAck,
                        ReadFails
    <3> QED
      BY <3>1, QueueUntouched
  <2> QED
    BY <2>1, <2>2
<1>5. ASSUME NEW s \in Streams, HandleIncomingStream(s) \/ StreamBreaks(s) PROVE QueueInv'
  BY <1>5, QueueUntouched DEF HandleIncomingStream, StreamBreaks
<1>6. CASE CheckIdleStreams \/ Close \/ HostClose
  BY <1>6, QueueUntouched DEF CheckIdleStreams, Close, HostClose
<1>7. CASE UNCHANGED vars
  BY <1>7, QueueUntouched DEF vars
<1> QED
  BY <1>2, <1>3, <1>4, <1>5, <1>6, <1>7 DEF Next

\* The queue invariant holds in every reachable state.
THEOREM QueueCorrect == Spec => []QueueInv
  BY QueueInit, QueueStep, PTL DEF Spec

\* There is one processor at a time and q.processing says whether there is one.
THEOREM OneProcessor == Spec => []SingleProcessor
  BY QueueCorrect, PTL DEF QueueInv

\* The message a processor works on is the head of the queue.
THEOREM HeadIsPicked == Spec => []PickedIsHead
  BY QueueCorrect, PTL DEF QueueInv

\* A peer is marked unreachable only for a message that is still first in the
\* queue and has used up its attempts; and the messages behind the first have
\* not been tried.
THEOREM RetriesInOrder == Spec => [](UnreachableMeansExhausted /\ HeadOfLine)
  BY QueueCorrect, PTL DEF QueueInv

-----------------------------------------------------------------------------
(* The queue implements FifoChannel.                                        *)

LEMMA FifoInit == Init => Fifo!Init
  BY DEF Init, Fifo!Init, Unsent

\* A step that changes neither the queue, nor what was sent, nor which
\* processors wait for an ACK, is a stutter of the channel.
LEMMA FifoStutter ==
  ASSUME UNCHANGED <<messages, sent>>,
         \A p \in Procs : procPc'[p] = "wait" <=> procPc[p] = "wait"
  PROVE  UNCHANGED Fifo!vars
  BY DEF Fifo!vars, Unsent

\* The steps of a processor that are not steps of the channel.
LEMMA FifoMoves ==
  ASSUME TypeOK, NEW p \in Procs, NEW to \in ProcStates \ {"wait"},
         procPc[p] # "wait", procPc' = [procPc EXCEPT ![p] = to],
         UNCHANGED <<messages, sent>>
  PROVE  UNCHANGED Fifo!vars
<1>1. \A q \in Procs : procPc'[q] = "wait" <=> procPc[q] = "wait"
  BY DEF TypeOK
<1> QED
  BY <1>1, FifoStutter

LEMMA FifoStep == QueueInv /\ [Next]_vars => [Fifo!Next]_Fifo!vars
<1> SUFFICES ASSUME QueueInv, [Next]_vars PROVE [Fifo!Next]_Fifo!vars
  OBVIOUS
<1> USE DEF procVars, netVars, queueVars
<1>1. TypeOK /\ messages \in Seq(Messages)
  BY DEF QueueInv, TypeOK
<1>2. ASSUME NEW m \in Messages, SendToQueue(m) PROVE Fifo!Accept(m)
  <2>1. messages' = Append(messages, m) /\ sent' = sent
    BY <1>2 DEF SendToQueue
  <2>2. \A p \in Procs : procPc'[p] = "wait" <=> procPc[p] = "wait"
    BY <1>2, SpawnedIsInactive DEF SendToQueue
  <2>3. CASE \E p \in Procs : procPc[p] = "wait"
    <3>1. messages # <<>>
      BY <2>3 DEF QueueInv, PickedIsHead, Working
    <3>2. Tail(messages') = Append(Tail(messages), m)
      BY <1>1, <2>1, <3>1, HeadTailAppend
    <3> QED
      BY <2>1, <2>2, <2>3, <3>2 DEF Fifo!Accept, Unsent
  <2>4. CASE ~\E p \in Procs : procPc[p] = "wait"
    BY <2>1, <2>2, <2>4 DEF Fifo!Accept, Unsent
  <2> QED
    BY <2>3, <2>4
<1>3. ASSUME NEW p \in Procs, WriteBody(p) PROVE Fifo!Transmit
  <2>1. procPc[p] = "body" /\ procPc' = [procPc EXCEPT ![p] = "wait"]
        /\ sent' = Append(sent, procMsg[p]) /\ messages' = messages
    BY <1>3 DEF WriteBody, Goto
  <2>2. messages # <<>> /\ Head(messages) = procMsg[p]
    BY <2>1 DEF QueueInv, PickedIsHead, Working
  <2>3. \A q \in Procs : procPc[q] # "wait"
    BY <2>1 DEF QueueInv, SingleProcessor, Active
  <2>4. procPc'[p] = "wait"
    BY <1>1, <2>1 DEF TypeOK
  <2>5. Unsent = messages /\ Unsent' = Tail(messages)
    BY <2>1, <2>3, <2>4 DEF Unsent
  <2> QED
    BY <2>1, <2>2, <2>5 DEF Fifo!Transmit
<1>4. ASSUME NEW p \in Procs, RemoveAcked(p) PROVE UNCHANGED Fifo!vars
  <2>1. procPc[p] = "wait" /\ procPc' = [procPc EXCEPT ![p] = "check"] /\ sent' = sent
    BY <1>4 DEF RemoveAcked, Goto
  <2>2. messages' = Tail(messages)
    BY <1>4, <2>1 DEF RemoveAcked, QueueInv, PickedIsHead, Working
  <2>3. \A q \in Procs : procPc[q] = "wait" => q = p
    BY <2>1 DEF QueueInv, SingleProcessor, Active
  <2>4. \A q \in Procs : procPc'[q] # "wait"
    BY <1>1, <2>1, <2>3 DEF TypeOK
  <2> QED
    BY <2>1, <2>2, <2>4 DEF Fifo!vars, Unsent
<1>5. ASSUME NEW p \in Procs, Processor(p), ~WriteBody(p), ~RemoveAcked(p)
      PROVE  UNCHANGED Fifo!vars
  <2>1. /\ procPc[p] # "wait"
        /\ \E to \in ProcStates \ {"wait"} : procPc' = [procPc EXCEPT ![p] = to]
        /\ UNCHANGED <<messages, sent>>
    BY <1>5 DEF Processor, StartProcessing, PickMessage, StopProcessing, EnsureStream,
                SendMessage, WriteHeader, WriteFails, HandleSendFailure, Goto, ProcStates
  <2> QED
    BY <1>1, <2>1, FifoMoves
<1>6. ASSUME NEW r \in Streams, Reader(r) PROVE UNCHANGED Fifo!vars
  <2>1. UNCHANGED <<messages, sent>>
    BY <1>6 DEF Reader, StartReading, HandleIncomingData, TakeAckStream, WriteAckHeader,
                FinishAck, ReadFails
  <2>2. SpawnProcessor \/ UNCHANGED procPc
    BY <1>6 DEF Reader, StartReading, HandleIncomingData, TakeAckStream, WriteAckHeader,
                FinishAck, ReadFails
  <2> QED
    BY <2>1, <2>2, SpawnedIsInactive, FifoStutter
<1>7. ASSUME NEW s \in Streams, HandleIncomingStream(s) \/ StreamBreaks(s)
      PROVE  UNCHANGED Fifo!vars
  BY <1>7, FifoStutter DEF HandleIncomingStream, StreamBreaks
<1>8. CASE CheckIdleStreams \/ Close \/ HostClose
  BY <1>8, FifoStutter DEF CheckIdleStreams, Close, HostClose
<1>9. CASE UNCHANGED vars
  BY <1>9, FifoStutter DEF vars
<1> QED
  BY <1>2, <1>3, <1>4, <1>5, <1>6, <1>7, <1>8, <1>9 DEF Next, Fifo!Next

\* The queue hands its messages to the network in order, each at most once.
THEOREM ImplementsFifo == Spec => InOrderAtMostOnce
<1>1. Spec => Fifo!Init /\ [][Fifo!Next]_Fifo!vars
  BY QueueCorrect, FifoInit, FifoStep, PTL DEF Spec
<1> QED
  BY <1>1 DEF InOrderAtMostOnce, Fifo!Spec

-----------------------------------------------------------------------------
(* The streams.                                                             *)

LEMMA StreamInit == Init => NoStreamLeak /\ StreamIsRead
  BY DEF Init, NoStreamLeak, StreamIsRead

\* After closeStreamLocked no stream is open and the queue has none.
LEMMA ClosedIsClosed ==
  ASSUME TypeOK, NoStreamLeak, CloseStreamLocked
  PROVE  NoStreamLeak' /\ StreamIsRead'
<1>1. stream' = None
  BY DEF CloseStreamLocked
<1>2. \A s \in Streams : conn'[s] \notin {"open", "broken"}
  BY DEF CloseStreamLocked, NoStreamLeak
<1> QED
  BY <1>1, <1>2 DEF NoStreamLeak, StreamIsRead

LEMMA StreamUntouched ==
  ASSUME NoStreamLeak, StreamIsRead, UNCHANGED <<stream, conn, readerPc, readerOn>>
  PROVE  NoStreamLeak' /\ StreamIsRead'
  BY DEF NoStreamLeak, StreamIsRead

\* A stream that is adopted is the only one open and has its reader.
LEMMA Adopted ==
  ASSUME TypeOK, NEW s \in Streams, AdoptStream(s),
         \A t \in Streams : t # s => conn'[t] \notin {"open", "broken"}
  PROVE  NoStreamLeak' /\ StreamIsRead'
<1>1. stream' = s /\ readerPc' = [readerPc EXCEPT ![s] = "start"]
  BY DEF AdoptStream
<1>2. readerPc'[s] = "start"
  BY <1>1 DEF TypeOK
<1> QED
  BY <1>1, <1>2 DEF NoStreamLeak, StreamIsRead

LEMMA StreamStep ==
  TypeOK /\ NoStreamLeak /\ StreamIsRead /\ [Next]_vars => NoStreamLeak' /\ StreamIsRead'
<1> SUFFICES ASSUME TypeOK, NoStreamLeak, StreamIsRead, [Next]_vars
             PROVE  NoStreamLeak' /\ StreamIsRead'
  OBVIOUS
<1> USE DEF netVars, readerVars
<1>1. ASSUME NEW m \in Messages, SendToQueue(m) PROVE NoStreamLeak' /\ StreamIsRead'
  BY <1>1, StreamUntouched DEF SendToQueue
<1>2. ASSUME NEW p \in Procs, Processor(p) PROVE NoStreamLeak' /\ StreamIsRead'
  <2>1. CASE EnsureStream(p)
    <3>1. CASE UNCHANGED <<stream, conn, readerVars>>
      BY <3>1, StreamUntouched
    <3>2. ASSUME NEW s \in Streams, stream = None, AdoptStream(s),
                 conn' = [conn EXCEPT ![s] = "open"]
          PROVE  NoStreamLeak' /\ StreamIsRead'
      <4>1. \A t \in Streams : conn[t] \notin {"open", "broken"}
        BY <3>2, NoneAssumption DEF NoStreamLeak
      <4>2. \A t \in Streams : t # s => conn'[t] \notin {"open", "broken"}
        BY <3>2, <4>1 DEF TypeOK
      <4> QED
        BY <3>2, <4>2, Adopted
    <3> QED
      BY <2>1, <3>1, <3>2 DEF EnsureStream
  <2>2. CASE WriteFails(p)
    BY <2>2, ClosedIsClosed DEF WriteFails
  <2>3. CASE ~EnsureStream(p) /\ ~WriteFails(p)
    <3>1. UNCHANGED <<netVars, readerVars>>
      BY <1>2, <2>3 DEF Processor, StartProcessing, PickMessage, StopProcessing, SendMessage,
                        WriteHeader, WriteBody, RemoveAcked, HandleSendFailure
    <3> QED
      BY <3>1, StreamUntouched
  <2> QED
    BY <2>1, <2>2, <2>3
<1>3. ASSUME NEW r \in Streams, Reader(r) PROVE NoStreamLeak' /\ StreamIsRead'
  <2>1. CASE StartReading(r)
    <3>1. stream' = stream /\ conn' = conn /\ readerPc[r] = "start"
      BY <2>1 DEF At, StartReading
    <3>2. CASE stream = None
      BY <3>1, <3>2 DEF NoStreamLeak, StreamIsRead
    <3>3. CASE stream # None
      <4>1. stream \in Streams
            /\ readerPc' = [readerPc EXCEPT ![r] = "reading"]
            /\ readerOn' = [readerOn EXCEPT ![r] = stream]
        BY <2>1, <3>3 DEF At, StartReading, TypeOK
      <4>2. CASE stream = r
        BY <3>1, <4>1, <4>2 DEF NoStreamLeak, StreamIsRead, TypeOK
      <4>3. CASE stream # r
        BY <3>1, <4>1, <4>3 DEF NoStreamLeak, StreamIsRead, TypeOK
      <4> QED
        BY <4>2, <4>3
    <3> QED
      BY <3>2, <3>3
  <2>2. CASE ReadFails(r)
    BY <2>2, ClosedIsClosed DEF ReadFails
  <2>3. CASE \/ HandleIncomingData(r) \/ TakeAckStream(r) \/ WriteAckHeader(r)
             \/ FinishAck(r)
    <3>1. /\ UNCHANGED <<stream, conn, readerOn>>
          /\ readerPc[r] \notin {"none", "start", "done"}
          /\ \E to \in ReaderStates \ {"none", "start", "done"} :
                readerPc' = [readerPc EXCEPT ![r] = to]
      <4>1. CASE HandleIncomingData(r)
        BY <4>1 DEF At, HandleIncomingData, ReaderStates
      <4>2. CASE TakeAckStream(r)
        BY <4>2 DEF At, TakeAckStream, ReaderStates
      <4>3. CASE WriteAckHeader(r)
        BY <4>3 DEF At, WriteAckHeader, ReaderStates
      <4>4. CASE FinishAck(r)
        BY <4>4 DEF At, FinishAck, ReaderStates
      <4> QED
        BY <2>3, <4>1, <4>2, <4>3, <4>4
    <3>2. NoStreamLeak'
      BY <3>1 DEF NoStreamLeak
    <3>3. StreamIsRead'
      BY <3>1 DEF StreamIsRead, TypeOK
    <3> QED
      BY <3>2, <3>3
  <2> QED
    BY <1>3, <2>1, <2>2, <2>3 DEF Reader
<1>4. ASSUME NEW s \in Streams, HandleIncomingStream(s) PROVE NoStreamLeak' /\ StreamIsRead'
  <2>1. \A t \in Streams : t # s => conn'[t] \notin {"open", "broken"}
    BY <1>4 DEF HandleIncomingStream, NoStreamLeak
  <2> QED
    BY <1>4, <2>1, Adopted DEF HandleIncomingStream
<1>5. ASSUME NEW s \in Streams, StreamBreaks(s) PROVE NoStreamLeak' /\ StreamIsRead'
  BY <1>5 DEF StreamBreaks, NoStreamLeak, StreamIsRead, TypeOK
<1>6. CASE CheckIdleStreams \/ Close
  BY <1>6, ClosedIsClosed DEF CheckIdleStreams, Close
<1>7. CASE HostClose
  BY <1>7 DEF HostClose, NoStreamLeak, StreamIsRead
<1>8. CASE UNCHANGED vars
  BY <1>8, StreamUntouched DEF vars
<1> QED
  BY <1>1, <1>2, <1>3, <1>4, <1>5, <1>6, <1>7, <1>8 DEF Next

\* No stream but the queue's own is left open.
THEOREM NoLeak == Spec => []NoStreamLeak
<1>1. Spec => [](NoStreamLeak /\ StreamIsRead)
  BY TypeCorrect, StreamInit, StreamStep, PTL DEF Spec
<1> QED
  BY <1>1, PTL

\* The stream the queue holds has a reader.
THEOREM AlwaysRead == Spec => []StreamIsRead
<1>1. Spec => [](NoStreamLeak /\ StreamIsRead)
  BY TypeCorrect, StreamInit, StreamStep, PTL DEF Spec
<1> QED
  BY <1>1, PTL

-----------------------------------------------------------------------------
(* How a queue with messages comes to be without a processor.               *)

\* While q.processing is set, a processor of a stranded queue is at its exit.
LEMMA StrandedAtExit ==
  ASSUME QueueInv, processing,
         \A p \in Procs : procPc[p] \in {"idle", "start", "exit"}
  PROVE  \E p \in Procs : procPc[p] = "exit"
  BY DEF QueueInv, SingleProcessor, Active

\* A processor that is started while the flag is clear will find it clear.
LEMMA SpawnedLooks ==
  ASSUME TypeOK, SpawnProcessor, ~processing, processing' = processing
  PROVE  ~Stranded'
  BY DEF SpawnProcessor, Goto, TypeOK, Stranded

LEMMA StrandedUntouched ==
  ASSUME Stranded', UNCHANGED <<messages, unreachable, processing, procPc>>
  PROVE  Stranded /\ messages' = messages
  BY DEF Stranded

\* A processor that has just left or entered a step of its loop will look again.
LEMMA LooksAgain ==
  ASSUME TypeOK, NEW p \in Procs, NEW to \in ProcStates \ {"idle", "start", "exit"},
         procPc' = [procPc EXCEPT ![p] = to]
  PROVE  ~Stranded'
<1>1. procPc'[p] = to
  BY DEF TypeOK
<1> QED
  BY <1>1 DEF Stranded

LEMMA StrandedSend ==
  ASSUME QueueInv, Stranded', NEW m \in Messages, SendToQueue(m)
  PROVE  \E p \in Procs : procPc[p] = "exit"
<1>1. processing' = processing
  BY DEF SendToQueue
<1>2. processing
  BY <1>1, SpawnedLooks DEF SendToQueue, QueueInv
<1>3. procPc' = procPc
  BY <1>2 DEF SendToQueue
<1> QED
  BY <1>2, <1>3, StrandedAtExit DEF Stranded

LEMMA StrandedIncoming ==
  ASSUME QueueInv, Stranded', NEW r \in Streams, HandleIncomingData(r)
  PROVE  \/ Stranded /\ messages' = messages
         \/ \E p \in Procs : procPc[p] = "exit"
<1>1. UNCHANGED <<messages, processing>> /\ unreachable' = FALSE
  BY DEF HandleIncomingData
<1>2. CASE ~unreachable
  <2>1. unreachable' = unreachable /\ procPc' = procPc
    BY <1>1, <1>2 DEF HandleIncomingData, QueueInv, TypeOK
  <2> QED
    BY <1>1, <2>1, StrandedUntouched
<1>3. CASE unreachable
  <2>1. messages # <<>>
    BY <1>1 DEF Stranded
  <2>2. processing
    BY <1>1, <1>3, <2>1, SpawnedLooks DEF HandleIncomingData, QueueInv
  <2>3. procPc' = procPc
    BY <2>2 DEF HandleIncomingData
  <2> QED
    BY <2>2, <2>3, StrandedAtExit DEF Stranded
<1> QED
  BY <1>2, <1>3

LEMMA StrandedProcessor ==
  ASSUME QueueInv, Stranded', NEW p \in Procs, Processor(p)
  PROVE  Stranded /\ messages' = messages
<1>1. TypeOK
  BY DEF QueueInv
<1>2. CASE StartProcessing(p)
  <2>1. processing /\ procPc[p] = "start" /\ procPc' = [procPc EXCEPT ![p] = "idle"]
    BY <1>1, <1>2, LooksAgain DEF StartProcessing, Goto, ProcStates
  <2>2. UNCHANGED <<messages, unreachable, processing>>
    BY <1>2, <2>1 DEF StartProcessing
  <2> QED
    BY <1>1, <2>1, <2>2 DEF Stranded, TypeOK
<1>3. CASE PickMessage(p)
  <2>1. UNCHANGED <<messages, unreachable>>
    BY <1>3 DEF PickMessage, queueVars
  <2>2. procPc' = [procPc EXCEPT ![p] = "ensure"]
    BY <1>3, <2>1 DEF PickMessage, Goto, Stranded
  <2> QED
    BY <1>1, <2>2, LooksAgain DEF ProcStates
<1>4. CASE StopProcessing(p)
  <2>1. /\ procPc[p] = "exit" /\ procPc' = [procPc EXCEPT ![p] = "idle"]
        /\ ~processing' /\ UNCHANGED <<messages, unreachable>>
    BY <1>4 DEF StopProcessing, Goto
  <2> QED
    BY <1>1, <2>1 DEF Stranded, TypeOK
<1>5. CASE ~StartProcessing(p) /\ ~PickMessage(p) /\ ~StopProcessing(p)
  <2>1. \E to \in ProcStates \ {"idle", "start", "exit"} : procPc' = [procPc EXCEPT ![p] = to]
    BY <1>5 DEF Processor, EnsureStream, SendMessage, WriteHeader, WriteBody, WriteFails,
                RemoveAcked, HandleSendFailure, Goto, ProcStates
  <2> QED
    BY <1>1, <2>1, LooksAgain
<1> QED
  BY <1>2, <1>3, <1>4, <1>5

LEMMA StrandedStep ==
  ASSUME QueueInv, [Next]_vars, Stranded'
  PROVE  \/ Stranded /\ messages' = messages
         \/ \E p \in Procs : procPc[p] = "exit"
<1> USE DEF queueVars, procVars
<1>1. ASSUME NEW r \in Streams, Reader(r), ~HandleIncomingData(r)
      PROVE  UNCHANGED <<messages, unreachable, processing, procPc>>
  BY <1>1 DEF Reader, StartReading, TakeAckStream, WriteAckHeader, FinishAck, ReadFails
<1>2. ASSUME NEW s \in Streams, HandleIncomingStream(s) \/ StreamBreaks(s)
      PROVE  UNCHANGED <<messages, unreachable, processing, procPc>>
  BY <1>2 DEF HandleIncomingStream, StreamBreaks
<1>3. CASE CheckIdleStreams \/ Close \/ HostClose \/ UNCHANGED vars
  BY <1>3, StrandedUntouched DEF CheckIdleStreams, Close, HostClose, vars
<1> QED
  BY <1>1, <1>2, <1>3, StrandedUntouched, StrandedSend, StrandedIncoming, StrandedProcessor
     DEF Next

\* The window between the last look of a processor and the clearing of its flag is the only
\* way in which messages are left behind: the test of q.processing in SendToQueue and in
\* handleIncomingData never relies on a processor that is gone.
THEOREM StrandedOnlyAtExitCorrect == Spec => StrandedOnlyAtExit
<1>1. QueueInv /\ [Next]_vars =>
        [Stranded' => \/ Stranded /\ messages' = messages
                      \/ \E p \in Procs : procPc[p] = "exit"]_vars
  BY StrandedStep
<1> QED
  BY <1>1, QueueCorrect, PTL DEF Spec, StrandedOnlyAtExit

=============================================================================
