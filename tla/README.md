# A verification model of p2p-webapp

`p2p-webapp` serves a web site from a Go program and gives its pages peer-to-peer messaging:
every browser tab opens a WebSocket, asks for a libp2p peer of its own, and then sends and receives
data frames and gossipsub messages through it. This directory holds TLA+ models of the parts of the
program whose correctness depends on interleavings, TLC configurations that check them on small
instances, and proofs, checked by TLAPS, of their most important invariants for instances of any size.

Line numbers below are those of the files under `src/`.

- `V` = `internal/peer/virtual_connection.go`, `M` = `internal/peer/manager.go`
- `S` = `internal/server/server.go`, `W` = `internal/server/websocket.go`
- `P` = `internal/pidfile/pidfile.go`, `C` = `pkg/client/src/client.ts`
- `B` = `internal/bundle/bundle.go`, `H` = `internal/protocol/handler.go`

## 1. The system

```
 browser tab (client.ts)
     |  requests, responses, notifications          one WebSocket per tab
 WSConnection: readPump / writePump (W) --- handler.go --- Manager.CreatePeer / RemovePeer (M)
     |  s.connections, s.peerConnection                         |
 Server (S): accept, callbacks, exit timer, Stop                 |  one Peer per tab
     |                                                          |
     |                        VirtualConnectionManager (V): a MessageQueue per (peer, protocol)
     |                        topics and topic monitors (M)
     |                                                          |
 PID file (P), shared with other servers,            libp2p streams, gossipsub
 ps, kill and killall

 the program file (B): executable + ZIP of the site + footer, written by bundle,
 read by extract, cp, ls and by the server that serves the site in it
```

### Components

**Message queue of the virtual connection manager** (`V`).
*State:* a map of queues; each has its messages with their attempts, the flags `processing` and
`unreachable`, one stream and the channel `streamReaderDone`, under one mutex `q.mu`.
*Operations:* `SendToQueue`, `processQueue`, `ensureStream`, `sendMessage`, `handleSendFailure`,
`readFromStream`, `handleIncomingData`, `HandleIncomingStream`, `checkIdleStreams`, `Close`.
*Interaction:* called by `Peer.SendData`, by libp2p's stream handler, by a timer; calls the peer's data
callback; shares its streams with the queue at the other end.
*Hard:* the mutex is given up between picking a message, opening a stream, writing and removing the message;
processors and readers are goroutines that can be started twice; both ends may open a stream at once.
*Correct when:* one processor at a time; messages are transmitted in order and at most once per delivery;
retries are bounded; no stream leaks or goes unread; a message that can be sent is sent; frames are not mixed;
nothing panics; all goroutines end when the host closes.

**WebSocket server** (`S`, `W`), with the exit timer and `Stop`, the waiting of `cmd/p2p-webapp/main.go`, the
dispatch of `internal/protocol/handler.go` and the peer table of `M`.
*State:* `s.connections`, `s.peerConnection` (peer to tab), per connection the closed flag, the peer and a
buffer of 100 messages; the manager's `m.peers`; the exit timer and the server's context.
*Operations:* accept, read, respond, write, `Close` (from either pump, or from `Stop`), `CreatePeer`,
`RegisterPeer`, `UnregisterPeer`, `RemovePeer`, the four callbacks that forward to a tab, the cleanup goroutine,
`startExitTimer`/`cancelExitTimer`, `Stop`.
*Hard:* four locks, two pumps per connection that both close it, a cleanup goroutine, callbacks that look up a
connection and use it later, and page reloads that take over a peer ID that is still being removed.
*Correct when:* a peer never has two owners; messages go to the owner; no peer outlives its connection; a lost
connection is cleaned up; the server exits once, and only once, everybody has left; `Stop` completes.

**PID tracking file** (`P`, `pidfile_unix.go`, `pidfile_windows.go`, `internal/commands/{ps,kill,killall}.go`).
*State:* a JSON file of PIDs shared by all processes of the user, with an exclusive file lock.
*Operations:* `Register`, `Unregister`, `List`, `Kill`, `KillAll`; every one verifies the PIDs it reads and drops
those that belong to no p2p-webapp process.
*Hard:* several processes, any of which may be killed anywhere (`kill` and `killall` send SIGKILL without holding
the lock); stale entries; PIDs that are given again; a file rewritten in place.
*Correct when:* a running server is listed; no other program is killed; a server that is told to stop leaves.

**TypeScript client** (`C`), with what `internal/protocol/handler.go` answers and what the server's callbacks send.
*State:* pending requests by number, listeners, ack callbacks, the queue of server messages and the flag
`processingMessage`; on the server the peer's started protocols and topics.
*Operations:* `connect`, `close`, `start`, `stop`, `send`, `subscribe`, `unsubscribe`, `publish`, `listPeers`, and the
events `onmessage` and `onclose`.
*Interaction:* requests and responses in order over one WebSocket, notifications at any time; listeners of the page are
awaited and may call the client again.
*Hard:* an awaited listener suspends the handling of messages but not of responses; calls overlap; notifications race
responses; the socket closes at any time and the page connects again on the same object.
*Correct when:* messages are handled one at a time and in the order sent; a response never waits for a listener; no
message is lost for want of a listener; page and server agree on what is started.

**Topics and topic monitors** (`M`: Subscribe, Publish, Unsubscribe, ListPeers, Monitor and StopMonitor; the goroutines
`readFromTopic` and `monitorTopic`), with the two halves of subscribe and unsubscribe in `H` and the removal of the peer.
*State:* maps of topics and monitors under `p.mu`, what the pubsub instance has joined, and each monitor's `knownPeers`.
*Interaction:* a request looks the peer up by its ID in `m.peers`, then uses it; events go to the page that owns the ID.
*Hard:* a request is several critical sections of two locks, and the peer may be removed, or created again under the same ID by a
reloaded page, between any two; `knownPeers` is read by `ListPeers` and written by the monitor without a common lock; a
stopped monitor may finish a round after its successor has begun; events that find the send buffer full are dropped.
*Correct when:* every goroutine that runs is in the maps, and the maps name nothing that does not run; a topic is joined as long as it
is used and no longer; page and peer agree on what is subscribed; the page knows who is on its topics; a closed peer leaves
nothing running.

**Bundle** (`B`), the **commands bundle, extract and cp** (`internal/commands`), the **serving of files** (S:48-115, S:343-390)
and the choice of the site by the **main program**. *State:* program files, laid out as executable, ZIP, footer; directories.
*Operations:* `CreateBundle`, `GetBinarySize`, `IsBundled`, `GetBundleReader`, `ExtractBundle`, `runCp`, `zipFileSystem.Open`, `spaHandler`.
*Hard:* a binary is written in place and a process may stop at any write; the size of the executable part is read from the
footer of a binary that may itself be bundled, cut off or half overwritten; two file systems answer for the same paths.
*Correct when:* a file that says it is bundled is whole; extract and cp that end well have written everything; a page looks the
same wherever its site is served from.

The commands **ls** and **version** only print; the **demo** and the **scripts** are no part of the program. **libp2p, gossipsub and
the package `internal/ipfs`** are outside the repository's source; streams and pubsub are modelled from how `V` and `M` use them.

`PROJECT.json` lists the components with their status, the map from definitions to source lines, and the hazards
(what is hard to test in this code) with the properties that watch over each.

## 2. Modules

| module | models | extends |
|---|---|---|
| `FifoChannel` | abstract: a channel that hands messages over in order, each once | |
| `MessageQueue` | one queue of `V`, its goroutines, its streams | refines `FifoChannel` |
| `Server` | connections, owners of peers, callbacks, exit timer, `Stop` | |
| `PidFile` | the PID file and the processes that use it | |
| `Client` | the client of one page, its socket, the server as the client sees it, what old connections leave behind | |
| `Delivery` | a client with the queue that the server puts its messages in | extends `Client`, an instance of `FifoChannel` |
| `PeerTopics` | topics and monitors of one peer ID over its lives, the requests and goroutines that use them | |
| `Bundle` | program files and directories, and the processes that bundle, extract, copy and serve | |
| `MC*` | the instances: symmetry sets, scenarios, sites, the process that `ServerLeaves` is checked for | the module checked |
| `*_proofs` | theorems and proofs | the module proved about |

### MessageQueue

Every field of a queue is read and written under `q.mu` only, so one critical section is one action; the uses of a
stream outside the mutex (the two `Write` calls of a frame, the reads) are actions of their own. `procPc[p]` is where
the goroutine `p` running `processQueue` is:

| `procPc` | the code is about to | action that leaves it |
|---|---|---|
| `start` | run `processQueue`'s first section (V:116) | `StartProcessing` |
| `check` | lock and look at the queue (V:131) | `PickMessage` |
| `ensure` | `ensureStream` (V:179) | `EnsureStream` |
| `send` | read `q.stream` in `sendMessage` (V:233) | `SendMessage` |
| `header`, `body` | write the length, the body (M:832) | `WriteHeader`, `WriteBody`, `WriteFails` |
| `wait` | remove the message (V:160) | `RemoveAcked` |
| `fail` | `handleSendFailure` (V:273) | `HandleSendFailure` |
| `exit` | clear `processing` in the deferred function (V:125) | `StopProcessing` |

A reader is named by the stream it was started with, and `readerOn` is the stream it really reads: `readFromStream` takes
`q.stream` when it first runs. `conn[s]` is the life of a stream: `unused`, `open`, `broken` (by the other side or the
network), `closed` (by this side). Opening a stream may fail at any time, a stream may be found idle at any time, and any
stream may break: time, retry delays and reachability are abstracted to that choice. A panic of any goroutine
(`close` of a closed channel) ends the process: no action is enabled after it.

`FifoChannel` has the variables `pending` and `out`. The refinement maps `out` to the history of messages written without
error and `pending` to the messages that are yet to be transmitted (`Unsent`: the queue, without its head once the head's
body is written and it only has to be removed).

### Server

One action per critical section of `s.mu`, `ws.mu`, `m.mu` or `exitTimerMu`. `readPc`, `writePc`, `cleanup`, `closePc` and
`mainPc` are the places of the goroutines; the body of `Close` is run by whichever goroutine sets `ws.closed`, hence
`closePc` belongs to the connection and `"open"` means that `ws.closed` is unset. Holding `s.mu` from one step to the next
happens in `Stop` only (`Unlocked` is the guard of the other sections of `s.mu`). The four callbacks (S:435-S:496) do
the same thing, look up a connection and send it one message, and are one `courier`. Message contents are left out: a
send buffer is its length.

### PidFile

A process is a record: what it does (`op`), where it is (`pc`), the PID given to `kill`, the PIDs `verifyPIDs` has yet to look
at (`left`) and has found valid (`seen`), and `KillAll`'s `toKill` (`doomed`). `withLockedPIDFile` is `LockFile`, `Verify` for
each PID, `Prune` and `Rewrite` if some were stale, then the callback; `writePIDFile` is two steps, the truncation and the
write, because a process may die in between. Any process may die at any step, and its PID may then be given to any other
program or command. The file is a set of PIDs, for `Register` never adds one that is there.

### Client

JavaScript runs to completion, so an action is an event (a message, the close event, a call of the page, the return of a
listener) with everything up to the next point where the code gives control back. The one place where
`processMessageQueue` can be seen half way is the `await` of a listener (C:216): `running` holds the loops that are there, each
with its message and the request that the listener awaits, if it made one. `Loop` is the `while` from there to the next
listener, dropping the messages nobody listens to. A socket is `open`, `lost` (by the server or the network: what has arrived
is still delivered, then the close event comes), `closing` (by the page) or `closed`; `CanSend` is `readyState === OPEN`, which
a lost socket still has. `overlap` remembers that the page connected again while a listener of the last session was awaited.

The server answers one request at a time, in order (`readPump`): `HandleClientMessage` changes the peer and computes the
answer, `SendMessage` queues it, and `Notify` may come in between, for stream and topic goroutines use the socket on their
own. `connect`, with its `peer` request, is one action; `Server` has its details.

Each session has a peer of its own, one life of a peer ID; the page may ask for the ID it had before, and the server finds peers and
connections by ID. So what a closed connection leaves on the server can reach the next session. A `readPump` goes on with the request it
has read when its connection is closed, and looks its peer up in `m.peers` (W:114-139, M:362): `InHand` is that request, `late` the
requests left in this way, and `LateRequest` is such a request that finds the present peer and works on it; `intruded` is the
history of the channels on which one has done so in the present life. A late `send` acks to the present connection (S:484), as does
`readPump` when it was about to send the ack. A stream or topic goroutine that has a message in hand when its channel is stopped or
its life ends queues it on the present connection all the same: `opened[s]` are the channels of life `s` from which a message may
still come, and a `Data` message says which life it is of. Nothing makes any of this happen, so a page that asks for another ID is
covered too. A late request that finds no peer, or changes nothing, is never seen and stays in `late`.

### Delivery

`SendQueue` is the queue of the remote peer and protocol as `FifoChannel` has it, which `MessageQueue` implements: `queued` and `handed` are its
variables. Every send that the server accepts in `Client` is put into it in the same step (`Queues`); `Transmit` takes the oldest one out at any time,
or never, for the peer may be unreachable.

### PeerTopics

A page that is reloaded asks for the peer of its key again while its first connection is still being closed, and a request names
its peer by ID only. So one peer ID has several *lives*, one per connection; `owner` is the life that `m.peers` and the routing
table name (`Server` shows that the two agree). `pc[c]` is where the `readPump` of connection `c` is in its request: `GetPeer` and
`GetPeerAgain` are the two look-ups of a subscribe or unsubscribe, `Subscribe`, `Monitor`, `Unsubscribe`, `CancelTopic`, `LeaveTopic`,
`StopMonitor`, `CancelMonitor`, `Publish`, `ListPeers` the critical sections of `p.mu` and the calls between them. A round of
`monitorTopic` is `Tick` (what pubsub lists), then one `Learn` or `Forget` for each write of `knownPeers` and one `Tell` for
each event; `MonitorEnds` is its `ctx.Done()`. `ListPeers` holds the monitor while it iterates the map: a `Learn`
or `Forget` in between is the fatal error of the Go runtime, `crashed`. `readFromTopic` has no state but that it
runs. Events reach the page in the order in which they are queued (`Client`), so queuing one and hearing it are one step.
`suspect`, `intruded` and `late` are history: what the page may be wrong about, and whose requests used which life.

### Bundle

A binary is a sequence of cells: the executable, then a cell per file of the ZIP and one for its central directory, then offset,
size and magic marker. `CreateBundle` opens and truncates the output, `WriteCell` writes one cell, `Pack` reads the site once the executable
is copied, `BundleEnds` closes; `Stop` ends a process anywhere, by a signal or by a call that fails. `GetBinarySize`,
`IsBundled`, `GetBundleReader` are the functions of the same names on cells: a file cut off at any cell, or overwritten by
another writer, reads as the code would read it. `zip.NewReader` looks for the central directory at the end of its range
(`ZipOpens`) and tells changed content by its checksum (`Corrupt`). `SpaHandler` gives what the handler answers for a path, over
`ZipOpen` (the bundled site) or `DirOpen` (`http.Dir`), and `Browse` follows its redirections.

## 3. Runs

Every run is `tlc -config <cfg> <MC module>`. Every property of a passing run has a mutant in `PROJECT.json`: a plausible
bug in a mapped definition under which TLC finds the property violated.

| run | checks | bounds |
|---|---|---|
| `queue` | types; one processor; the picked message stays the head; order of retries; no stream leaked; the stream is read; refinement of `FifoChannel`; a queue is left without a processor only in the window of V:125-134; a picked message is transmitted or its peer given up; goroutines end with the host | 2 messages, 2 streams, 2 processors, 2 attempts, 1 incoming frame |
| `server_serving` | types and buffer capacity; one owner per peer, whom the routing table names; no peer without a connection; no message delivered past a change of owner; a lost connection is closed; without `--linger` the server exits when all have left | 2 connections, 1 peer, 1 request, clients like `client.ts` |
| `pidfile_track` | types and the lock; no entry lost; no other program killed; a server told to stop leaves | 3 processes |
| `client_session` | types; messages one at a time and in order; agreement of page and server, and that only an unanswered `start` loses messages, but for channels that late requests have worked on; an ack means accepted; requests are settled | 1 protocol, 1 topic, 2 sessions, 3 requests, 2 data messages |
| `topics` | types; goroutines and maps fit; topics joined are used; what a closed peer leaves behind; page and peer agree on subscriptions; the page's view of the members, and that it catches up; closed peers end | 2 lives, 1 topic, 1 other peer, 2 goroutines of each kind |
| `bundle` | types; a bundled file is whole; sites appear at once; what extract and cp wrote; the same page from binary and directory | 2 processes at a time, 3 in all, 2 binaries, 3 directories |
| `queue_panic`, `server_countdown`, `server_stop`, `pidfile_lost`, `topics_fatal`, `delivery_acked` | what the source says and the code does not do: see the findings | as small as shows it |

*Why these bounds.* Queue: two messages are a head and a successor, which is what reordering and a retry that overtakes need; two
streams let one replace or follow another, and a stream may be opened again after it was closed; two processors can be started at
once, and two attempts (the code has three) let a message fail, be retried and give up. Server: two connections can
contend for one peer, and one of them can be the old tab of a reloaded page; capacity 1 makes the buffer full with the first
message. PidFile: three processes are a victim, one that updates the file and one that updates or kills it meanwhile; `ServerLeaves` is
checked for one of them, which stands for all. Client: three requests let calls overlap (start, stop, start; start, send, and
one made by the listener that is awaited), two data messages have an order, and the second session finds what the first one
left, on the page and on the server: a start that was in hand works on the second peer, and a message of the first peer is heard by the second page. PeerTopics: one page asks for everything, in any order, or a page subscribes, is closed, and its successor subscribes while
requests of the first are still running (`PageAsks`); topics do not interact, and one member who comes and goes gives all the
events. Bundle: three starts are enough to bundle, to bundle the result again, and to extract or serve it, each stopped anywhere; two
processes meet in one output; the larger site has a directory below `html/` and two files of one name, and the new binary lies
in the directory of the smaller site. Symmetry is declared only in runs without liveness properties.

*Deadlock.* Runs of queue, server, client, topics and bundle end: the messages, sessions or starts are used up, or the process has exited or
panicked, or everybody has come and gone. Their configurations say `CHECK_DEADLOCK FALSE`. In `PidFile` processes can always
start or die.

*Fairness.* `MessageQueue`: the Go scheduler runs every goroutine that can run (weak fairness of every processor and
reader), and `Peer.Close` goes on from `vcm.Close` to `host.Close`. Nothing is assumed of senders, remote peers, the network or
the idle monitor. `Server`: weak fairness of every goroutine's steps and of the running timer; clients and signals owe
nothing. `PidFile`: weak fairness of a process's own steps, and strong fairness of taking the file's lock, which is free
again and again: `flock` queues those who wait. Nobody need start, stop or die. `Client`: the server handles and answers
what it has received, what is on its way arrives unless the socket is lost, JavaScript events are handled, and a listener returns
once the request it awaits is settled. The page need not call anything. `PeerTopics`: weak fairness of the rounds of a monitor, which its
ticker starts again and again; strong fairness of its end, for a `select` that finds both its ticker and `ctx.Done()`
ready picks either at random. Requests, pages and remote peers owe nothing. `Bundle` has no liveness property.

`server_serving` uses one key, one request per connection and disciplined clients: what is read has no part in the countdown. A client that asks
for a second peer on one connection, and clients of several keys, are covered by `TypeCorrect`, `OneOwnerCorrect` and `DeliveredToOwnerCorrect`,
which are proved for all of them.
`StopCompletes` is a liveness property and is violated under the fair specification.

### Findings

The properties of these runs are taken from the repository's own words; each run gives a shortest behaviour of the code
that contradicts them.

1. **A queue that is given a second stream panics** (`queue_panic`, V:308). Every reader closes `q.streamReaderDone` when it
   returns. A stream that breaks or is found idle, or a stream that comes in, gives the queue a second stream and a
   second reader; the second one to return closes a closed channel.
2. **The countdown may run with a browser connected** (`server_countdown`, S:424). The connections are counted under `s.mu`, the
   timer is started afterwards: a browser that connects in between finds no timer to cancel, and the server exits under it.
3. **`Stop` never returns when a tab with a peer is connected** (`server_stop`, S:239). It closes the connections with `s.mu` held,
   and `Close` calls `UnregisterPeer`, which locks `s.mu`.
4. **A process killed while it rewrites the PID file empties it** (`pidfile_lost`, P:92). It truncates, then writes; `kill` may
   send SIGKILL to a server in `Unregister` without the file's lock, and a file that cannot be decoded counts as empty.
5. **Listing the peers of a topic may end the process** (`topics_fatal`, M:619). `ListPeers` iterates the map `knownPeers` of a
   monitor that may be writing it: `fatal error: concurrent map iteration and map write`.
6. **An ack is no confirmation of delivery** (`delivery_acked`, H:126). `handleSend` sends it once the message is in the queue; the
   message may be transmitted much later, or never. `onAck` is documented as "Optional callback invoked when delivery is confirmed"
   (`pkg/client/src/client.ts:103`), and shown with "Message delivered!" and "Delivered ✓" (`README.md:179-182`, `README.md:253`).

Met while modelling, without a run of their own; each is an exception that some property names.

*Queue.* A message added after the processor has found the queue empty and before it clears `processing` has no processor
(V:104), nor has any other that is added in this window; they wait, for good if no message is added after it. `StrandedOnlyAtExit` says that
there is no other way to this, and that the first message added after the window takes them along. The reader's ACK frame and the processor's data frame are each
two `Write` calls on the same stream without a lock, and can be mixed (V:391). A reader whose stream was replaced closes the
queue's *new* stream when its read fails (V:326).

*Server.* A second `peer` request on a connection makes nobody the owner of the first peer (W:150; excluded by `Disciplined`). `Close`
that runs while `readPump` is inside `CreatePeer` does not remove that peer (W:78; needs a full buffer or a lost writer before
the first request is answered, so it too is excluded by `Disciplined`).

*PID file.* `kill` and `killall` do not look again at a process they have verified, so a PID that is given again is killed whatever it
is (P:227; excluded by `Reuse`). A `killall` that dies before it has killed all it took from the file leaves the rest running without an entry
(P:219; excepted from `Tracked`). `killall`, whose own name matches, may find a stale entry with its own PID and kill itself
(in the model, `KillAllKills` with `q = p`).

*Client.* A message may reach a page that is starting its protocol and be dropped: the server's stream handler is set before the response
is sent, the page's listener after it has come (C:84); `LostOnlyWhileStarting` says that nothing else loses one. No request
whose socket has closed is settled, so a listener that awaits one is never done (C:289, the other half of `RequestsSettle`). A page
that connects again while a listener of the last session is awaited has two loops on one queue, for `handleClose` clears
`processingMessage` (C:296; excluded from `HeardInOrder` by `overlap`). A page that connects again before the close event of the last
socket loses the listeners of the new session to it (C:54; excluded by `Hasty = FALSE`). A page that is given the peer ID it had before may find a protocol or topic started or stopped that
it did not ask for, by a request of the last session (M:362; `intruded` in `Agreement` and `LostOnlyWhileStarting`). `send` leaves its ack callback
behind when it fails (C:114).

*Topics.* A request that has found the peer before it was removed may subscribe or monitor after its topics were cancelled: that
goroutine runs on for a closed peer (M:521; `LeftByLateRequest` says that there is no more than one per such request). The second half of a
subscribe, or any request that was under way, may work on the next life of its peer ID (M:362; `intruded`). A change of
which the event was dropped for a full buffer is not reported again (M:810; `suspect`).

*Bundle.* A bundled site has no directories: `sub/` shows the page of the root, where the unpacked site serves `sub/index.html` (S:48;
`NestedDirectory` in `ServedAlike`). `bundle . -o my-app`, the form the README gives (`README.md:129`, `README.md:627`), packs whatever
lies in the directory, the program and the half-written output among it (`Binary` in `SiteOf`). Two bundlers of one output may leave a
file that says it is bundled and is not whole (`mixed`). An output that was cut off and happens to end before its footer counts as an
unbundled program, so a bundle made with it keeps the remains of the old ZIP in its executable part: it works, and it only grows. cp counts two files of
one name as two copies and keeps either. A server that is started from a bundled binary does not look for an index as one of
a directory does (`cmd/p2p-webapp/main.go`), so a site that loses its index between the test of `bundle` and the packing is served without one;
`ServedAlike` speaks of sites that have it. That a running program is not overwritten is left to the operating system.

## 4. Proofs

All proofs are in the `*_proofs` modules, one or two for each of the others (`ClientAgreement_proofs` extends `Client_proofs`,
`BundleSites_proofs` extends `Bundle_proofs`), and hold for every value of the constants allowed
by the named assumptions (`MaxAttempts` positive, `SendCap` positive, the null value not in the sets).

**MessageQueue.** `TypeCorrect`, `QueueCorrect` (one processor, the flag, the picked head, retries, unreachable), its
parts `OneProcessor`, `HeadIsPicked`, `RetriesInOrder`, then `NoLeak`, `AlwaysRead` and the refinement `ImplementsFifo`:
`Spec => Fifo!Spec`. The safety properties are not inductive one by one: that the head is stable needs that there is one
processor, which needs the flag to be exact; that messages behind the head have no attempts needs that they are distinct
and that what has been sent is gone from the queue (or is the head in `wait`). Their conjunction with these facts is. The refinement
uses the same invariant, action by action: `SendToQueue` is `Fifo!Accept`, `WriteBody` is `Fifo!Transmit`, everything else
stutters.

**Server.** `TypeCorrect`, `OneOwnerCorrect` and `DeliveredToOwnerCorrect` hold for arbitrary clients; `RoutedToOwnerCorrect` and
`NoOrphanPeerCorrect` assume `Disciplined`. `OwnerInv` says where each connection is in the life of its peer, so that a
claim is never dropped before the peer is removed; since `CreatePeer` only gives out what is not in `peers`, two claims cannot
coexist. `DeliveryInv` says what a courier knows of the connection it holds: a message enters a buffer only while that
connection is open, and then its peer is still its own. `ServingInv` adds what holds until `Stop` begins: the table has no entry
that its connection will not remove.

**PidFile.** `TypeCorrect` for everything; `NoBystanderCorrect` and `TrackedCorrect` assume `~Reuse`. `Shape` says what fields
a process of each kind may have. `KillInv` and `HandInv` say that a PID in hand is that of an instance or of nobody: it was an
instance when it was verified, and if it died it was not given again. `CheckInv` says what the holder of the lock knows
of the file: the entries of registered servers are in what it has yet to verify or has found valid, and the
file is empty while it rewrites it. With these, `Carries` follows the entry of a registered server through every step of the
process that moves: it stays in the file, or in that process's memory until it is written back, unless the
process dies with it (`torn`).

**PeerTopics.** Everything for any number of lives, topics, peers and goroutines, and whatever the pages ask for. `HandlersOwnedCorrect`
and `JoinedIsUsedCorrect`: `HandlersOwned` says what runs for what the maps name, and the other way round; it is not inductive,
for a request takes a subscription out of the map in one step and cancels it in another. `OwnersInv` adds what a
request holds in between: `SubscriptionHeld` and `MonitorHeld` say that it is what the request took and still runs, and
`AloneWithTopic` that a topic one request is about to leave is not subscribed and is left by no other, so that nobody's
subscription loses its topic. `SubscribedTogetherCorrect` speaks of moments between requests; `PagesInv` says what holds at all
others. `LivesInv`: which life a request may have found. `PlacesInv`: which request can be at which place. `HalvesInv`: at each
place of a request, which of the two maps of a peer that is `Alone` with its connection has changed and which has not yet.
`ListeningInv`: the last subscribe or unsubscribe among the requests on their way, or the one under way, decides whether the page
listens. `ViewFollowsCorrect` adds `TidyInv` (a monitor that was not started knows nobody; what a round is about to report is what it
has just written) to follow a change from `knownPeers` to the page. `LeftByLateRequestCorrect` counts: `LeftInv` says that what
runs for a closed peer and that nobody is about to cancel (`Left`) is no more than the late requests that are through with it,
because a request that is still using the peer has its goroutine yet to start. It needs that there are finitely many lives so
far, not that there are finitely many.

**Bundle.** `TypeCorrect`, `BundledFilesAreWhole` and `SitesArePublishedWhole` hold for any sites, any size of the executable and any
number of processes and starts. `Intact` says of every file that was not written by two at once: it is either free of markers, or whole;
a file that is being written is the former up to its last cell, which is the marker. `Fresh`, `Undisturbed`
and `Alone` say what a writer may rely on: its source does not change (it runs) and nobody else writes its output; `CopyPlan` and
`WritePlan` relate what it has written to what is left to write. `BundleSites_proofs` builds on this for what is read back:
`CopiedOutCorrect` and `ServedAlikeCorrect`. `Copied` says of an extract or cp under way that nobody else writes to its directory
(`AloneInDir`) and that what it has written together with what is left is what it took from the binary (`ExtractPlan`, `CpPlan`); of a
server that its site is that of the binary (`ServePlan`); and of all files at hand that they can be read (`Clean`), from which
`ServedAlike` follows by cases on the URL. The sites are assumed to consist of paths in `html/`, files that can be read, and no file
where a directory is (`PathsAssumption`, `StartAssumption`).

**Client.** `TypeCorrect` and `AckedWasAcceptedCorrect` hold for every page; `HeardInOrderCorrect` assumes `~Hasty`. `AcksAccepted`
follows an ack from the server's reply over the socket and the queue to the loop that awaits it. `SocketsInv` is `Wires` (all
sockets before the present one are closed, and a socket that is not open or lost carries nothing), `Cleared` (what a closed
session leaves), `OneLoop` and `Order` (numbers rise along heard, queue and socket, in this order). Without `~Hasty` a socket that is
lost can deliver after the next one, and `Wires` fails.

`ClientAgreement_proofs` builds on this: `AgreementCorrect` (`~Hasty` too). `Agreement` speaks of moments when nothing is outstanding; the
invariant says what the difference is at all others. `InTurn`: requests are answered in the order of their numbers, so what the
page will hear next is the least number. `AllOwed`: whatever is on its way belongs to a pending request of this session.
`ProtocolsAgree`: the server has started a protocol exactly if the page *will* listen to it, by its last answer on the way that
decides about it, or by its listener if none does. `TopicsAgree` is the other direction, for `subscribe` sets the listener first:
of a topic without a listener the last word on the way is an unsubscribe, or the server has left it.

`LostOnlyWhileStartingCorrect` (`~Hasty`) is about lost sockets too, on which what has arrived is still handled. `ListenInv`: what a page
has asked for in this session has a listener, or was left, or its start is not answered (`AskedStands`); data comes only on
channels that were asked for (`DataAsked`). A start that fails, because an earlier one has started the protocol, leaves its page
without a pending request: `RefusedKnows` says that by then the page has the listener of the earlier one. A stop that succeeds takes a
listener away: a start behind it is then still pending, for requests are settled in their order (`InSequence`, `ComesInOrder`),
on a lost socket because the first part of what was on its way is what arrives.

Both are said and proved channel by channel: what a late request of an earlier session does to the present peer (`LateRequest`) changes one channel,
which is `intruded` from then on, and everything above is kept for the others. The order of what is on its way, and who owes an answer, do
not depend on it, for a late request is answered to nobody. `AcksAccepted` and `Order` hold with late acks and with data of former lives.

**MessageQueue**, one action property: `StrandedOnlyAtExitCorrect`. A message that is added finds the flag set, and then by `QueueInv` there is the
processor that has set it, in its loop unless it is at `exit`; or it finds it clear and starts one. The other steps that could leave a queue alone are those
of a processor, which gives up only an empty queue or that of a peer marked unreachable.

**Only model-checked:** the liveness properties `PickedIsResolved`, `GoroutinesEnd`, `LostIsClosed`, `AutoExit`, `ServerLeaves`,
`RequestsSettle`, `ChangesAreHeard` and `ClosedPeerEnds`, because liveness under fairness is beyond the prover. Every invariant and
every action property of a passing run, and the refinement, is a theorem (`PagesInv`, `TidyInv`, `LeftInv`, `Copied` and
`ListenInv` also hold of the instances of the runs, by TLC). The runs remain what shows that these theorems are about something: that their cases happen,
and that a plausible bug would break them.

## 5. What is not modelled

- *Time*: delays, timeouts and backoff are choices. `handleSendFailure` sleeps up to four seconds with `q.mu` held, which
  delays everybody but changes no order of critical sections.
- *Contents*: payloads, JSON, error texts, logging, the parsing of options, patterns of cp other than the set of names they match.
- *Memory*: a queue whose peer is unreachable keeps growing (V:94), queues of peers that are gone are never freed, and the idle
  monitor outlives its peer (V:64).
- *I/O errors* of the PID file other than a missing file, and the operating system's process table beyond "runs, and its
  name contains p2p-webapp".
- *The network*: hosts, DHT, mDNS, routing of topic messages and the delivery of streams are libraries. Two queues joined by their
  streams are not composed: what the remote end does is whatever a stream may do to this one.
- *The demo and the scripts*, and the commands ls and version, which print.

## 6. Plan

1. `VirtualLink`: two `MessageQueue`s and the streams between them, so that a stream opened by both sides at once, frames lost with
   a stream or mixed with an acknowledgement (V:391), and the acknowledgement that H:126 sends before delivery become
   visible at the receiving end (`Delivery` has the sending end). Abstract specification: an unreliable FIFO channel per direction.
2. Proofs for `VirtualLink`: that a frame is delivered at most once and in order in each direction, from the theorems of the two queues
   and an invariant about what is on the streams between them.
3. Malformed requests and the counter of request ids of `H`, if the server's answers to them are to be part of `Client`.
