---------------------------- MODULE MessageQueue ----------------------------
(***************************************************************************)
(* One message queue of a peer's virtual connection manager                *)
(* (internal/peer/virtual_connection.go): the queue of the messages the    *)
(* local peer sends to one remote peer on one protocol, and the stream it  *)
(* shares with the messages that come back.                                *)
(*                                                                         *)
(* The goroutines that touch the queue:                                    *)
(*   - callers of SendToQueue, any number of them;                         *)
(*   - processors, running processQueue: procPc[p];                        *)
(*   - readers, running readFromStream: one is started with every stream   *)
(*     the queue is given, so the reader started with stream s is called s *)
(*     here, whatever stream it then reads: readerPc[s], readerOn[s];      *)
(*   - the idle monitor, HandleIncomingStream and Close.                   *)
(*                                                                         *)
(* A step is one critical section of q.mu, or one use of a stream outside  *)
(* it.  Every critical section is atomic here because all of the queue's   *)
(* fields are read and written under q.mu only; the backoff sleep and the  *)
(* dialling done while q.mu is held only delay the other goroutines.       *)
(* Times are abstracted: any stream may be found idle, any stream may      *)
(* break, any attempt to open one may fail.  lastActivity and retryCount   *)
(* are left out: the first only decides when a stream is idle, the second  *)
(* is never read.                                                          *)
(*                                                                         *)
(* A queue that does not exist yet is the queue in its initial state: the  *)
(* code creates it, in that state, when it is first looked up.             *)
(***************************************************************************)
EXTENDS Naturals, Sequences, FiniteSets, Functions

CONSTANTS Messages,    \* what the application sends, each once
          Streams,     \* the streams opened over the queue's life, by either side
          Procs,       \* names for the goroutines running processQueue
          MaxAttempts, \* QueuedMessage.maxAttempts (3 in the code)
          MaxIncoming, \* bound: data frames received from the remote peer
          None

ASSUME MaxAttemptsAssumption == MaxAttempts \in Nat \ {0}
ASSUME MaxIncomingAssumption == MaxIncoming \in Nat
ASSUME NoneAssumption == None \notin Messages \cup Streams

VARIABLES
  messages,    \* q.messages: ids, oldest first
  attempts,    \* QueuedMessage.attempts
  unreachable, \* q.unreachable
  processing,  \* q.processing
  stream,      \* q.stream, None for nil
  readerDone,  \* q.streamReaderDone is closed
  procPc,      \* where each processor is; "idle" when there is no such goroutine
  procMsg,     \* its local variable msg
  procStream,  \* its local variable stream in sendMessage, None when it is not there
  readerPc,    \* where each reader is; "none" before it is started
  readerOn,    \* its local variable stream in readFromStream, None when it has ended
  ackOn,       \* its local variable stream in handleIncomingData, None outside
  conn,        \* the libp2p stream: unused, open, broken (by the network or the
               \* remote side) or closed (by this side)
  host,        \* the peer's libp2p host: up, closing (Close has run), down
  sent,        \* history: messages written to a stream without error, in order
  incoming,    \* number of data frames received so far
  panicked     \* a goroutine panicked and took the process with it

procVars   == <<procPc, procMsg, procStream>>
readerVars == <<readerPc, readerOn, ackOn, readerDone, incoming>>
queueVars  == <<messages, attempts, unreachable, processing>>
netVars    == <<stream, conn, host>>
vars == <<queueVars, procVars, readerVars, netVars, sent, panicked>>

ProcStates   == {"idle", "start", "check", "ensure", "send", "header", "body",
                 "wait", "fail", "exit"}
ReaderStates == {"none", "start", "reading", "ack", "ackHeader", "ackBody", "done"}

\* The processors that have set q.processing and not yet cleared it.
Active == {p \in Procs : procPc[p] \notin {"idle", "start"}}

\* Where a processor works on a message.
Working == {"ensure", "send", "header", "body", "wait", "fail"}

Init ==
  /\ messages = <<>>
  /\ attempts = [m \in Messages |-> 0]
  /\ unreachable = FALSE
  /\ processing = FALSE
  /\ stream = None
  /\ readerDone = FALSE
  /\ procPc = [p \in Procs |-> "idle"]
  /\ procMsg = [p \in Procs |-> None]
  /\ procStream = [p \in Procs |-> None]
  /\ readerPc = [s \in Streams |-> "none"]
  /\ readerOn = [s \in Streams |-> None]
  /\ ackOn = [s \in Streams |-> None]
  /\ conn = [s \in Streams |-> "unused"]
  /\ host = "up"
  /\ sent = <<>>
  /\ incoming = 0
  /\ panicked = FALSE

-----------------------------------------------------------------------------
(* SendToQueue and processQueue                                            *)

\* A panic of any goroutine ends the process: no step is taken after it.
Goto(p, from, to) == /\ ~panicked
                     /\ procPc[p] = from
                     /\ procPc' = [procPc EXCEPT ![p] = to]

\* go q.processQueue().  The names of goroutines, and of streams below, are given in a
\* fixed order.
SpawnProcessor ==
  \E p \in Procs :
    /\ p = CHOOSE q \in Procs : procPc[q] = "idle"
    /\ Goto(p, "idle", "start")

\* Mutant: the message is put in front of the others.
SendToQueueInFront(m) ==
  /\ ~panicked
  /\ m \notin Range(messages) \cup Range(sent)
  /\ messages' = <<m>> \o messages
  /\ IF processing THEN UNCHANGED procPc ELSE SpawnProcessor
  /\ UNCHANGED <<attempts, unreachable, processing, procMsg, procStream,
                 readerVars, netVars, sent, panicked>>

SendToQueue(m) ==
  /\ ~panicked
  /\ m \notin Range(messages) \cup Range(sent)
  /\ messages' = Append(messages, m)
  /\ IF processing THEN UNCHANGED procPc ELSE SpawnProcessor
  /\ UNCHANGED <<attempts, unreachable, processing, procMsg, procStream,
                 readerVars, netVars, sent, panicked>>

\* Mutant: q.processing is not tested again when the goroutine starts.
StartProcessingUnchecked(p) ==
  /\ Goto(p, "start", "check")
  /\ processing' = TRUE
  /\ UNCHANGED <<messages, attempts, unreachable, procMsg, procStream,
                 readerVars, netVars, sent, panicked>>

\* The first critical section of processQueue: only one processor goes on.
StartProcessing(p) ==
  /\ IF processing
     THEN Goto(p, "start", "idle") /\ UNCHANGED processing
     ELSE Goto(p, "start", "check") /\ processing' = TRUE
  /\ UNCHANGED <<messages, attempts, unreachable, procMsg, procStream,
                 readerVars, netVars, sent, panicked>>

\* The head of the loop: stop, or pick the oldest message.
PickMessage(p) ==
  /\ IF messages = <<>> \/ unreachable
     THEN Goto(p, "check", "exit") /\ UNCHANGED procMsg
     ELSE Goto(p, "check", "ensure")
          /\ procMsg' = [procMsg EXCEPT ![p] = Head(messages)]
  /\ UNCHANGED <<queueVars, procStream, readerVars, netVars, sent, panicked>>

\* Mutant: the flag stays set.
StopProcessingKeepsFlag(p) ==
  /\ Goto(p, "exit", "idle")
  /\ procMsg' = [procMsg EXCEPT ![p] = None]
  /\ procStream' = [procStream EXCEPT ![p] = None]
  /\ UNCHANGED <<messages, attempts, unreachable, processing, readerVars, netVars, sent, panicked>>

\* The deferred function: it runs in a critical section of its own, after the
\* loop has let go of q.mu.
StopProcessing(p) ==
  /\ Goto(p, "exit", "idle")
  /\ processing' = FALSE
  /\ procMsg' = [procMsg EXCEPT ![p] = None]
  /\ procStream' = [procStream EXCEPT ![p] = None]
  /\ UNCHANGED <<messages, attempts, unreachable, readerVars, netVars, sent, panicked>>

\* A stream is given to the queue and a reader is started for it.
AdoptStream(s) ==
  /\ conn[s] = "unused"
  /\ s = CHOOSE t \in Streams : conn[t] = "unused"
  /\ stream' = s
  /\ readerPc' = [readerPc EXCEPT ![s] = "start"]
  /\ UNCHANGED <<readerOn, ackOn, readerDone, incoming>>

EnsureStream(p) ==
  /\ \/ /\ stream # None
        /\ Goto(p, "ensure", "send")
        /\ UNCHANGED <<stream, conn, readerVars>>
     \/ /\ stream = None                      \* NewStream succeeds
        /\ host # "down"
        /\ Goto(p, "ensure", "send")
        /\ \E s \in Streams : AdoptStream(s) /\ conn' = [conn EXCEPT ![s] = "open"]
     \/ /\ stream = None                      \* Decode, Connect or NewStream fails
        /\ Goto(p, "ensure", "fail")
        /\ UNCHANGED <<stream, conn, readerVars>>
  /\ UNCHANGED <<queueVars, procMsg, procStream, host, sent, panicked>>

\* sendMessage takes the queue's stream, which may be gone since ensureStream.
SendMessage(p) ==
  /\ IF stream = None
     THEN Goto(p, "send", "fail") /\ UNCHANGED procStream
     ELSE Goto(p, "send", "header")
          /\ procStream' = [procStream EXCEPT ![p] = stream]
  /\ UNCHANGED <<queueVars, procMsg, readerVars, netVars, sent, panicked>>

CanWrite(s)     == conn[s] \in {"open", "broken"}
CanFailWrite(s) == conn[s] \in {"broken", "closed"}

\* closeStreamLocked: whatever stream the queue holds now.
CloseStreamLocked ==
  /\ stream' = None
  /\ conn' = [s \in Streams |-> IF s = stream THEN "closed" ELSE conn[s]]

\* writeMessage writes the length and the body in two calls, without a lock.
WriteHeader(p) ==
  /\ Goto(p, "header", "body")
  /\ CanWrite(procStream[p])
  /\ UNCHANGED <<queueVars, procMsg, procStream, readerVars, netVars, sent, panicked>>

WriteBody(p) ==
  /\ Goto(p, "body", "wait")
  /\ CanWrite(procStream[p])
  /\ sent' = Append(sent, procMsg[p])
  /\ procStream' = [procStream EXCEPT ![p] = None]
  /\ UNCHANGED <<queueVars, procMsg, readerVars, netVars, panicked>>

WriteFails(p) ==
  /\ Goto(p, "header", "fail") \/ Goto(p, "body", "fail")
  /\ CanFailWrite(procStream[p])
  /\ CloseStreamLocked
  /\ procStream' = [procStream EXCEPT ![p] = None]
  /\ UNCHANGED <<queueVars, procMsg, readerVars, host, sent, panicked>>

\* waitForAck reports an ACK after 10 ms, whatever happened; the message is
\* then removed if it is still the head of the queue.
RemoveAcked(p) ==
  /\ Goto(p, "wait", "check")
  /\ messages' = IF messages # <<>> /\ Head(messages) = procMsg[p]
                 THEN Tail(messages) ELSE messages
  /\ UNCHANGED <<attempts, unreachable, processing, procMsg, procStream,
                 readerVars, netVars, sent, panicked>>

\* Mutant: the failed attempt is not counted.
HandleSendFailureUncounted(p) ==
  /\ Goto(p, "fail", "check")
  /\ unreachable' = (unreachable \/ attempts[procMsg[p]] >= MaxAttempts)
  /\ UNCHANGED <<messages, attempts, processing, procMsg, procStream, readerVars,
                 netVars, sent, panicked>>

\* Mutant: a message whose attempt failed goes to the back of the queue.
HandleSendFailureRotates(p) ==
  /\ Goto(p, "fail", "check")
  /\ attempts' = [attempts EXCEPT ![procMsg[p]] = @ + 1]
  /\ unreachable' = (unreachable \/ attempts'[procMsg[p]] >= MaxAttempts)
  /\ messages' = Append(Tail(messages), Head(messages))
  /\ UNCHANGED <<processing, procMsg, procStream, readerVars, netVars, sent, panicked>>

HandleSendFailure(p) ==
  /\ Goto(p, "fail", "check")
  /\ LET m == procMsg[p] IN
       IF messages = <<>> \/ Head(messages) # m
       THEN UNCHANGED <<attempts, unreachable>>
       ELSE /\ attempts' = [attempts EXCEPT ![m] = @ + 1]
            /\ unreachable' = (unreachable \/ attempts[m] + 1 >= MaxAttempts)
  /\ UNCHANGED <<messages, processing, procMsg, procStream, readerVars, netVars,
                 sent, panicked>>

Processor(p) ==
  \/ StartProcessing(p) \/ PickMessage(p) \/ StopProcessing(p)
  \/ EnsureStream(p) \/ SendMessage(p)
  \/ WriteHeader(p) \/ WriteBody(p) \/ WriteFails(p)
  \/ RemoveAcked(p) \/ HandleSendFailure(p)

-----------------------------------------------------------------------------
(* readFromStream and handleIncomingData                                   *)

\* The deferred close(q.streamReaderDone): closing a closed channel panics.
CloseReaderDone(r) ==
  /\ readerPc' = [readerPc EXCEPT ![r] = "done"]
  /\ readerDone' = TRUE
  /\ panicked' = readerDone

At(r, pc) == ~panicked /\ readerPc[r] = pc

\* The reader takes the stream the queue holds when the reader first runs.
StartReading(r) ==
  /\ At(r, "start")
  /\ IF stream = None
     THEN CloseReaderDone(r) /\ UNCHANGED readerOn
     ELSE /\ readerPc' = [readerPc EXCEPT ![r] = "reading"]
          /\ readerOn' = [readerOn EXCEPT ![r] = stream]
          /\ UNCHANGED <<readerDone, panicked>>
  /\ UNCHANGED <<ackOn, incoming, queueVars, procVars, netVars, sent>>

\* Data from the remote peer: it is reachable again, so a processor is started
\* for the messages that were left waiting.
HandleIncomingData(r) ==
  /\ At(r, "reading")
  /\ conn[readerOn[r]] \in {"open", "broken"}
  /\ incoming < MaxIncoming
  /\ incoming' = incoming + 1
  /\ readerPc' = [readerPc EXCEPT ![r] = "ack"]
  /\ unreachable' = FALSE
  /\ IF unreachable /\ ~processing /\ messages # <<>>
     THEN SpawnProcessor ELSE UNCHANGED procPc
  /\ UNCHANGED <<messages, attempts, processing, procMsg, procStream,
                 readerOn, ackOn, readerDone, netVars, sent, panicked>>

\* Mutant: no test of the stream for nil before the ACK is written.
TakeAckStreamUnchecked(r) ==
  /\ At(r, "ack")
  /\ readerPc' = [readerPc EXCEPT ![r] = "ackHeader"]
  /\ ackOn' = [ackOn EXCEPT ![r] = stream]
  /\ UNCHANGED <<readerOn, readerDone, incoming, queueVars, procVars, netVars, sent, panicked>>

\* The ACK goes to the stream the queue holds now, if it holds one.
TakeAckStream(r) ==
  /\ At(r, "ack")
  /\ readerPc' = [readerPc EXCEPT ![r] = IF stream = None THEN "reading" ELSE "ackHeader"]
  /\ ackOn' = [ackOn EXCEPT ![r] = stream]
  /\ UNCHANGED <<readerOn, readerDone, incoming, queueVars, procVars, netVars, sent, panicked>>

WriteAckHeader(r) ==
  /\ At(r, "ackHeader")
  /\ CanWrite(ackOn[r])
  /\ readerPc' = [readerPc EXCEPT ![r] = "ackBody"]
  /\ UNCHANGED <<readerOn, ackOn, readerDone, incoming, queueVars, procVars, netVars, sent, panicked>>

\* The body is written, or either write fails (which is only logged); the data
\* goes to the application and the reader reads on.
FinishAck(r) ==
  /\ \/ At(r, "ackBody") /\ CanWrite(ackOn[r])
     \/ (At(r, "ackHeader") \/ At(r, "ackBody")) /\ CanFailWrite(ackOn[r])
  /\ readerPc' = [readerPc EXCEPT ![r] = "reading"]
  /\ ackOn' = [ackOn EXCEPT ![r] = None]
  /\ UNCHANGED <<readerOn, readerDone, incoming, queueVars, procVars, netVars, sent, panicked>>

\* Mutant: the reader returns without closing the stream.
ReadFailsKeepsStream(r) ==
  /\ At(r, "reading")
  /\ conn[readerOn[r]] \in {"broken", "closed"}
  /\ CloseReaderDone(r)
  /\ UNCHANGED <<readerOn, ackOn, incoming, queueVars, procVars, netVars, sent>>

\* Mutant: the reader retries unless the remote side broke the stream.
ReadFailsOnBreak(r) ==
  /\ At(r, "reading")
  /\ conn[readerOn[r]] = "broken"
  /\ CloseStreamLocked
  /\ CloseReaderDone(r)
  /\ readerOn' = [readerOn EXCEPT ![r] = None]
  /\ UNCHANGED <<ackOn, incoming, queueVars, procVars, host, sent>>

\* The stream ended or failed: the reader closes the queue's stream and returns.
ReadFails(r) ==
  /\ At(r, "reading")
  /\ conn[readerOn[r]] \in {"broken", "closed"}
  /\ CloseStreamLocked
  /\ CloseReaderDone(r)
  /\ readerOn' = [readerOn EXCEPT ![r] = None]
  /\ UNCHANGED <<ackOn, incoming, queueVars, procVars, host, sent>>

Reader(r) ==
  \/ StartReading(r) \/ HandleIncomingData(r) \/ TakeAckStream(r)
  \/ WriteAckHeader(r) \/ FinishAck(r) \/ ReadFails(r)

-----------------------------------------------------------------------------
(* The other goroutines, and the network                                   *)

CheckIdleStreams ==
  /\ ~panicked
  /\ stream # None
  /\ CloseStreamLocked
  /\ UNCHANGED <<queueVars, procVars, readerVars, host, sent, panicked>>

\* Mutant: the stream that is replaced is not closed.
HandleIncomingStreamKeepsOld(s) ==
  /\ ~panicked
  /\ host # "down"
  /\ AdoptStream(s)
  /\ conn' = [conn EXCEPT ![s] = "open"]
  /\ UNCHANGED <<queueVars, procVars, host, sent, panicked>>

\* A stream opened by the remote peer replaces the queue's stream.
HandleIncomingStream(s) ==
  /\ ~panicked
  /\ host # "down"
  /\ AdoptStream(s)
  /\ conn' = [t \in Streams |-> CASE t = s -> "open"
                                  [] t = stream -> "closed"
                                  [] OTHER -> conn[t]]
  /\ UNCHANGED <<queueVars, procVars, host, sent, panicked>>

\* VirtualConnectionManager.Close, the first thing Peer.Close does.
Close ==
  /\ ~panicked
  /\ host = "up"
  /\ host' = "closing"
  /\ CloseStreamLocked
  /\ UNCHANGED <<queueVars, procVars, readerVars, sent, panicked>>

\* host.Close, the last thing Peer.Close does, closes every stream.
HostClose ==
  /\ ~panicked
  /\ host = "closing"
  /\ host' = "down"
  /\ conn' = [s \in Streams |-> IF conn[s] = "unused" THEN "unused" ELSE "closed"]
  /\ UNCHANGED <<stream, queueVars, procVars, readerVars, sent, panicked>>

\* The remote side closes or resets the stream, or the connection is lost.
StreamBreaks(s) ==
  /\ ~panicked
  /\ conn[s] = "open"
  /\ conn' = [conn EXCEPT ![s] = "broken"]
  /\ UNCHANGED <<stream, host, queueVars, procVars, readerVars, sent, panicked>>

Next ==
  \/ \E m \in Messages : SendToQueue(m)
  \/ \E p \in Procs : Processor(p)
  \/ \E s \in Streams : Reader(s) \/ HandleIncomingStream(s) \/ StreamBreaks(s)
  \/ CheckIdleStreams \/ Close \/ HostClose

Spec == Init /\ [][Next]_vars

\* The Go scheduler runs every goroutine that can run, and Peer.Close, once
\* begun, goes on to close the host.  Nothing is assumed of the senders, the
\* remote peer, the network or the idle monitor.
Fairness ==
  /\ \A p \in Procs : WF_vars(Processor(p))
  /\ \A s \in Streams : WF_vars(Reader(s))
  /\ WF_vars(HostClose)

FairSpec == Spec /\ Fairness

-----------------------------------------------------------------------------
(* Properties                                                              *)

\* Every variable has its type; a processor at work has a message, one that writes has a
\* stream, a reader that reads or acknowledges has one too.
TypeOK ==
  /\ messages \in Seq(Messages)
  /\ attempts \in [Messages -> Nat]
  /\ unreachable \in BOOLEAN
  /\ processing \in BOOLEAN
  /\ stream \in Streams \cup {None}
  /\ readerDone \in BOOLEAN
  /\ procPc \in [Procs -> ProcStates]
  /\ procMsg \in [Procs -> Messages \cup {None}]
  /\ procStream \in [Procs -> Streams \cup {None}]
  /\ \A p \in Procs :
       /\ procPc[p] \in Working => procMsg[p] \in Messages
       /\ procPc[p] \in {"header", "body"} => procStream[p] \in Streams
  /\ readerPc \in [Streams -> ReaderStates]
  /\ readerOn \in [Streams -> Streams \cup {None}]
  /\ ackOn \in [Streams -> Streams \cup {None}]
  /\ \A r \in Streams :
       /\ readerPc[r] \in {"reading", "ack", "ackHeader", "ackBody"} => readerOn[r] \in Streams
       /\ readerPc[r] \in {"ackHeader", "ackBody"} => ackOn[r] \in Streams
  /\ conn \in [Streams -> {"unused", "open", "broken", "closed"}]
  /\ host \in {"up", "closing", "down"}
  /\ sent \in Seq(Messages)
  /\ incoming \in 0..MaxIncoming
  /\ panicked \in BOOLEAN

\* At most one processor is past the test of q.processing, and the flag says
\* whether there is one, although the flag is tested by SendToQueue and by
\* handleIncomingData in one critical section and set by processQueue in
\* another, and although it is cleared after the loop has let go of q.mu.
SingleProcessor ==
  /\ \A p, q \in Active : p = q
  /\ processing <=> Active # {}

\* The message a processor works on stays the head of the queue until that
\* processor removes it: the copy it took before it let go of q.mu is never
\* stale, so that the attempts it counts and the message it removes are the
\* ones of the message it wrote.
PickedIsHead ==
  \A p \in Procs : procPc[p] \in Working =>
     messages # <<>> /\ Head(messages) = procMsg[p]

\* A peer is marked unreachable only on account of a message that is still at
\* the head of the queue and has used up its attempts: there is always
\* something to retry when the peer comes back.
UnreachableMeansExhausted ==
  unreachable => messages # <<>> /\ attempts[Head(messages)] >= MaxAttempts

\* Head-of-line order of the retries: no message is tried before the messages
\* in front of it are out of the queue.
HeadOfLine ==
  \A i \in DOMAIN messages : i > 1 => attempts[messages[i]] = 0

\* The only stream this side has not closed is the one the queue holds, however
\* streams are opened, replaced, found idle and closed: none is leaked.
NoStreamLeak ==
  \A s \in Streams : conn[s] \in {"open", "broken"} => s = stream

\* The stream the queue holds is always read, by the reader that was started for
\* it, so that its failure will be noticed and incoming messages delivered.
StreamIsRead ==
  stream # None =>
     \/ readerPc[stream] = "start"
     \/ readerPc[stream] \notin {"none", "done"} /\ readerOn[stream] = stream

\* The queue hands its messages to the network in order and each at most once.
\* A message is handed over when its body is written: until it is removed from
\* the queue, the head has already been transmitted.
Unsent == IF \E p \in Procs : procPc[p] = "wait" THEN Tail(messages) ELSE messages

Fifo == INSTANCE FifoChannel WITH pending <- Unsent, out <- sent

\* The queue has messages for a peer that is not marked unreachable, and nobody will look
\* at them: no processor is before or in its loop, and none is about to find the flag clear.
Stranded == /\ messages # <<>> /\ ~unreachable
            /\ \A p \in Procs : \/ procPc[p] \in {"idle", "exit"}
                                \/ processing /\ procPc[p] = "start"

\* "Trigger processing if not already processing" does leave messages behind: SendToQueue
\* and handleIncomingData test the flag in one critical section, and processQueue clears it
\* in another than the one in which it found nothing to do.  That window is the only
\* way: a queue becomes stranded, or is still stranded after one more message, only while
\* a processor stands between the two.  Every message that is added then waits; the first
\* one that is added after it takes all of them along.
StrandedOnlyAtExit ==
  [][Stranded' => \/ Stranded /\ messages' = messages
                  \/ \E p \in Procs : procPc[p] = "exit"]_vars

\* The refinement of FifoChannel: see Unsent.
InOrderAtMostOnce == Fifo!Spec

\* No message stays at the head of a queue that is being processed for ever, unless its
\* peer is marked unreachable: retries are bounded (or the process has died).
PickedIsResolved ==
  \A m \in Messages :
     []<>(processing /\ messages # <<>> /\ Head(messages) = m => unreachable \/ panicked)

\* Once the host is closed the queue's goroutines come to an end, although
\* vcm.Close neither empties the queue nor stops its processor.
GoroutinesEnd ==
  []<>(host = "down" =>
     \/ panicked
     \/ /\ \A p \in Procs : procPc[p] = "idle"
        /\ \A s \in Streams : readerPc[s] \in {"none", "done"})

-----------------------------------------------------------------------------
(* A property the source states and the code does not have: see the        *)
(* findings in README.md                                                   *)

\* "Close should not panic": no goroutine of a queue panics.  readFromStream
\* closes q.streamReaderDone when it returns, and a queue that is given a
\* second stream has a second reader.
NoPanic == ~panicked
=============================================================================
