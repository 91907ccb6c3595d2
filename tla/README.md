# Verification of the news server

TLA+ models, model-checking runs and TLAPS proofs for the STOMP news server
(`src/server`, Java) and its client (`src/client`, C++).

A client logs in to the server over TCP with a STOMP `CONNECT`, joins channels
(`SUBSCRIBE`), publishes reports (`SEND`), receives those of others (`MESSAGE`)
and leaves (`DISCONNECT`). The server runs in one of two patterns, a thread per
client (`tpc`) or a reactor with a pool of workers; both run the same protocol
objects over one shared registry. The client has two threads, one for the
keyboard and one for the socket.

In this file: the [inventory](#inventory) of the system, the
[modules](#modules) and how they correspond to the code, the [runs](#runs) and
what they show, the [fairness and assumptions](#fairness-and-assumptions), the
[proofs](#proofs), the [findings](#findings), what is [not
modelled](#not-modelled) and the [plan](#plan).

Paths below are relative to `src/server/src/main/java/bgu/spl/net/` (Java) and
`src/client/src/` (C++) unless they begin with `src/`.

## Inventory

### Connection registry: `srv/ConnectionsImpl.java`, `srv/User.java`

- *State*: `clients` (id to handler), `channels` (channel to id to subscription
  id), `users` (name to `User`: password, connection id, online flag), all
  `ConcurrentHashMap`s.
- *Operations*: `addClient`, `loginUser`, `disconnect`, `addSubscription`,
  `removeSubscription`, `isSubscribed`, `send` to an id, `send` to a channel.
- *Interaction*: called by every protocol object and every connection handler;
  `send` calls the receiver's handler, in the sender's thread.
- *Hard*: only `loginUser` is synchronized. `disconnect` and `send(channel)` are
  loops of single map operations that interleave with everything, and
  `disconnect(c)` runs twice for a connection that logs out or is refused.
- *Correct when*: one password and one owner per account; an account changes
  hands only while offline; one live session per user; a message reaches every
  connection that listened throughout, once, with the receiver's own
  subscription id; a connection that ended leaves nothing behind.

### Protocol object: `impl/stomp/StompMessagingProtocol.java`

- *State*: `connectionId`, `shouldTerminate`; the static `MESSAGE_ID_COUNTER`.
- *Operations*: `process` and one handler per command.
- *Interaction*: called by its connection's thread or worker, one frame at a
  time; returns a reply or null; calls the registry.
- *Hard*: what it reads of the registry may be stale when it acts; the reply is
  written by its caller, after the registry has been changed.
- *Correct when*: message ids are unique, one publisher's messages stay in order,
  and an `ERROR` or logout receipt reaches the client only when the server has
  forgotten the connection.

### Thread-per-client server: `srv/BaseServer.java`, `srv/BlockingConnectionHandler.java`

- *State*: per handler the volatile `connected`, the atomic
  `disconnectedNotified`, the socket with its streams; the lock on `out`.
- *Operations*: `serve` (accept loop), `run` (read loop), `send`, `close`,
  `notifyDisconnectedOnce`.
- *Interaction*: `run` calls `process`; `send` is called by the threads of other
  connections and, when its write fails, closes *this* connection in *their*
  thread.
- *Hard*: blocking writes under a lock, slow and dead clients, several threads
  closing one handler, a final frame followed at once by a close.
- *Correct when*: it behaves as the broker's abstract handler does (writes or
  drops a frame, closes once, calls `disconnect` once), closes a live client only
  after its final frame, and no thread waits for ever.

### Reactor server: `srv/Reactor.java`, `srv/NonBlockingConnectionHandler.java`

- *State*: the selector, the queue of selector tasks, per handler a write queue
  and its key's interest set.
- *Operations*: `serve`, `handleAccept`, `handleReadWrite`, `updateInterestedOps`,
  `continueRead`, `continueWrite`, `send`, `close`.
- *Hard*: interest changes are queued and may be applied late; workers and the
  selector thread close and use one handler at the same time; frames behind a
  final one are still processed.
- *Correct when*: every queued frame is written or its connection closed, the
  last frame is not lost, a connection that is over is removed, and it implements
  the broker.

### Actor thread pool: `srv/ActorThreadPool.java`

- *State*: a queue per actor (`acts`, weak), `playingNow`, the executor.
- *Operations*: `submit`, `execute`, `complete`, `shutdown`.
- *Interaction*: the selector thread submits the bytes of each read as a task of
  the connection's handler, the actor; a worker runs it and calls `complete`.
- *Hard*: `submit` and `complete` race for the actor's turn, under its monitor.
- *Correct when*: tasks of one actor run one at a time, in the order submitted,
  and all of them run.

### Frame codec: `impl/stomp/StompEncoderDecoder.java`, `impl/stomp/StompMessage.java`

- Pure but for the decoder's byte buffer. *Correct when* what one program writes
  the other reads back, whatever the texts in it.

### Client program: `StompClient.cpp`

- *State*: the atomic flags `loggedIn`, `stopReader`, `awaitingLogoutReceipt`;
  `channelToSubId`, `receiptAction`, the stored events, each with its mutex; the
  connection; the reader thread object; two counters.
- *Operations*: `login`, `join`, `exit`, `report`, `summary`, `logout`, end of
  input (main thread); one handler per kind of server frame (reader thread).
- *Hard*: both threads write the flags and close the connection; several
  commands in flight over several sessions; a logout that times out; thread
  objects that must be joined before they are reused.
- *Correct when*: receipts are matched to the right command; client and server
  agree on the subscriptions once settled; every command returns to the prompt;
  no sequence of commands takes the program down; each report is kept once.

### Client connection and events: `ConnectionHandler.cpp`, `event.cpp`

- The connection sends and receives frames as bytes over a socket that either
  thread may close; `event.cpp` parses event files, with dates in several forms.
- *Hard*: texts that look like syntax, blank lines, dates past an `int`, a file
  with one bad event among good ones.
- *Correct when*: a report arrives as it was sent, under its reporter's name; a
  file is reported as a whole or not at all; a summary is complete and in order.

### Examples and vendored code

`impl/echo`, `impl/rci`, `impl/newsfeed`, `echoClient.cpp` demonstrate the
framework and are not part of the news server. `json.hpp` is a third-party
header. `StompServer` parses two arguments and starts a server.

## Modules

| Module | Models | Kind |
| --- | --- | --- |
| `StompBroker` | the registry and the protocol objects, with an abstract connection handler | specification; abstract for the servers |
| `BrokerDelivery` | `StompBroker` with a history variable for delivery | extension |
| `TpcServer` | thread-per-client server: accept loop, read loops, sends, closes, sockets, clients that stall or die | composition with `StompBroker`, which it implements |
| `ReactorServer` | reactor: selector loop, interest changes, selector tasks, write queues, workers, clients that stall or die | composition with `StompBroker`, which it implements |
| `TpcServer_proofs` | theorems on `TpcServer`, and those of the broker carried over to it | proofs |
| `ReactorServer_proofs` | theorems on `ReactorServer`, and those of the broker carried over to it | proofs |
| `SerialExecutor` | what the actor pool promises | abstract specification |
| `ActorThreadPool` | `submit`, `complete`, the workers, the shutdown | specification; implements `SerialExecutor` |
| `ActorThreadPool_proofs` | theorems on `ActorThreadPool` | proofs |
| `ClientSession` | the client's two threads and the server as one client sees it | specification |
| `ClientSession_proofs` | theorems on `ClientSession` | proofs |
| `EventReports` | event files, message bodies, both parsers, the stores and summaries of all clients | specification |
| `EventReports_proofs` | theorems on `EventReports` | proofs |
| `FoldFacts` | what a fold over a sequence computes, for any operator | proofs |
| `StompBroker_proofs` | theorems on the accounts, passwords and final replies of `StompBroker` | proofs |
| `BrokerMessages_proofs` | theorems on the messages of `StompBroker` and `BrokerDelivery` | proofs |
| `*_MC` | constants for TLC | model checking |

Operators commented *Fault* (`VisitAgain`, `NotifyOwnNever`, ...) are not part of
any specification. Each is a plausible mistake in the definition that follows
it; putting it in that definition's place makes TLC find the property it is for
violated, which shows that the property can fail.

### `StompBroker`

The worker of connection `c` is the thread that runs `process()` for `c`; `pc[c]`
says where it is. Each access to shared state is a step of its own:

| Code | Actions |
| --- | --- |
| `BaseServer.serve` calls `addClient` | `Accept` |
| a decoded frame is handed to `process` | `Receive` |
| `StompMessage` or `process` rejects a frame | `Malformed` |
| `handleSubscribe`, `handleUnsubscribe`, `handleDisconnect` | `Subscribe`, `Unsubscribe`, `Disconnect` |
| `handleSend`, `nextMessageId` | `Send`, then the loop of `send(channel)`: `Visit` (the iterator reads an entry), `LookUp` (`clients.get`), `HandOver` (`handler.send`), `FanoutDone` |
| `loginUser` (synchronized) | `LoginCheck`, then `LoginCreate`, or `LoginBind` (`setConnectionId`) and `LoginActivate` (`setActive`) |
| `disconnect` | `RemoveClient`, `CheckUser` and `ClearUser` for each user, `RemoveSub` for each channel |
| the handler writes the result of `process` | `Reply` |
| the handler closes and calls `disconnect` | `Close`, `StartClose` |

`disc` has an entry for each running call of `disconnect`: a connection may be in
the one its own `process` makes and the one its handler makes at once. The
iterator of a `ConcurrentHashMap` is weakly consistent, and while it yields an
entry it has already read the next; so `Visit` may fill `ahead` while the entry in
`pick` is still being handed over. `subs[ch]` is a function on all connections and
a missing entry is `NoSub`; deleting an entry and deleting an empty channel map
are the same.

A frame is a record of its command and the fields its handler uses. The receipt
id is the position of the frame in its connection, so a frame only says whether
it has one. A `MESSAGE` carries, as its body, the connection and position of the
`SEND` it came from: the properties are about who got which message. The logs
`got` and `out` are the frames read and written so far.

Two parameters tell the uses apart. `StopAtTerminate` is `TRUE` for the
thread-per-client server, whose loop tests `shouldTerminate`. `Disciplined` limits the
clients to what `StompClient.cpp` sends (a login first and once, fresh
subscription ids, nothing after a logout); the broker runs do without it, so
their clients are any STOMP clients.

### `TpcServer`

`B == INSTANCE StompBroker` with `closed` mapped to "`connected` is false or the
socket is closed"; all other broker variables are the server's own. `run[c]` is
where `run()` of the handler is, `writing[t]` where thread `t` is in the `send` of
`Target(t)`: the subscriber being served in a fan-out, or itself for a reply.

| Code | Actions |
| --- | --- |
| `while (!shouldTerminate && connected && read >= 0)` | `LoopCheck`, `ReadFrame`, `ReadEnds` |
| `process` | `Process`, `DisconnectStep` |
| `send`: the test of `connected`, the write under the lock | `SendEnter`, `Write`, `WriteFails` |
| `send`, on `IOException`: `close`, `notifyDisconnectedOnce` | `CloseTarget`, `NotifyTarget`, `TargetForgotten` |
| end of try-with-resources, then `finally` | `CloseSocket`, `ClearConnected`, `NotifyOwn`, `ThreadEnds` |
| the client's end | `PeerStalls`, `PeerResumes`, `PeerDies` |

A write that succeeds is one step, so the lock on `out` matters only for a thread
whose write failed and which closes the handler, lock in hand (`HoldsLock`).

### `ReactorServer`

`B == INSTANCE StompBroker` again, with `closed` mapped to "the channel is closed"
and `StopAtTerminate` to `FALSE`. `out[c]` is what was queued for `c` while its
channel was open and `sent[c]` how much of it is written; the write queue is the
difference. `sel` is where the selector thread is and with which channel, `ready`
the selected keys it has not seen yet, `waking[c]` the channel the worker of `c` is
queuing to. The pool runs the tasks of one handler one at a time and in order,
which `ActorThreadPool` is proved to do, so a connection has one worker and its
reads are a number of frames in `inbox`.

| Code | Actions |
| --- | --- |
| `select`, `runSelectionThreadTasks` | `Select` |
| `handleAccept` | `Accept` |
| `continueRead`: bytes for a task, or the end of the stream | `ReadFrames`, `ReadEnds` |
| the task of a read, in a worker | `Decode`, `Process`, `QueueReply` |
| `send`: `writeQueue.add`, then `updateInterestedOps` | `QueueMessage`, `QueueReply`, then `AskToWrite` |
| `continueWrite`: `isEmpty`, the write of the head, the test of `shouldTerminate` | `WriteStarts`, `WriteHead`, `QueueEmpty`, `Decide` |
| `close`, `notifyDisconnectedOnce`, `disconnect` | `CloseChannel`, `Notify`, `DisconnectStep`, `Closed` |
| the client's end | `PeerStalls`, `PeerResumes`, `PeerDies` |

Every task asks for `OP_READ | OP_WRITE` of one channel, so `tasks` is a set of
channels. `select` returns what is due (a writable channel with `OP_WRITE`, the end
of a stream, a wakeup) and whatever clients happen to send.

### `ActorThreadPool`

The selector thread is the only one that submits and that shuts the pool down
(`Reactor.serve`). `sel` is where it is in `submit`, `at[w]` where worker `w` is.

| Code | Actions |
| --- | --- |
| `submit`: enter the monitor, `playingNow.contains` | `SubmitTests` |
| `submit`: `playingNow.add` and `execute`, or `pendingRunnablesOf(act).add` | `SubmitPlays`, `SubmitQueues` |
| the lambda of `execute`, in a worker | `Take`, `TaskEnds` |
| `complete`: enter the monitor, `isEmpty` | `CompleteTests` |
| `complete`: `playingNow.remove`, or `poll` and `execute` | `CompleteStops`, `CompleteContinues` |
| `shutdown` | `Shutdown` |

A task that throws ends like one that returns, because `complete` is in the
`finally`. Under the monitor of an actor nobody else touches its entries, so that a
critical section is two steps, the test and what follows from it. The map of
queues creates an entry when it is first asked for; a missing one is empty here,
and its reader-writer lock makes each access one step. The fixed thread pool is
a queue of jobs and workers that take the next one.

### `ClientSession`

`main` and `reader` are the places of the two threads. `login`, `join`, `exit`,
`report`, `logout` and the end of input are split where the other thread can
interfere: the test of `loggedIn`, the update of the maps, the send, the wait,
the join. A receipt is looked up and erased in one step (one critical section)
and acted on with it; an `ERROR` clears `awaiting` before the other flags. The
server is that of this repository as one client sees it: it answers in order,
refuses any login it likes, echoes a report to a subscribed sender, and closes
after an `ERROR` or a logout receipt. `ServerDies` closes it at any moment.

### `EventReports`

A text is a sequence of lines, and a line is a key and a value, as its first colon
splits it, or a value alone. `job[c]` are the events a `report` has still to send,
`wire[c][d]` the `MESSAGE`s of `c` to `d`, `store[d]` the map
`eventsByChannelAndUser`, `written[c]` the last summary.

| Code | Actions and operators |
| --- | --- |
| `parseEventsFile`, `parseDateTimeFlexible` | `Readable`, `DateOf`, `ReportStarts` |
| the loop of `report` | `ReportNext`, with `Record`, `Body`, `SendFrame`, `Stored` |
| `StompMessage`, `handleSend`, `send(channel)` | `StompMessage`, `MessageFrame`, together `Delivered` |
| `parseFrame`, `parseEventFromMessageBody`, the reader | `ParseFrame`, `ParseLine`, `Field`, `ReceiveMessage` |
| `summary`: copy, sort, count, write | `Summary`, with `Before`, `SortedAlike`, `CountTrue` |

What trimming does to a text is a constant function (`Padded`), the order of names
another (`NameRank`, whose domain are the texts there are). `std::sort` is not stable: any order of equal records will do.
Clients are logged in and joined throughout, and messages arrive once and in the
order of their publisher, as `StompBroker` promises.

## Runs

Times are of the order seen on a laptop with two workers.

| Run | Instance | Distinct states | Shows |
| --- | --- | --- | --- |
| `broker_sessions` | 2 clients, 1 account, right and wrong passwords, 1 channel, every way to leave | 1.0 M | `FinalReplyMeansForgotten`, `ConnectedKnowsPassword`, `AccountsChangeHandsOffline` |
| `broker_pubsub` | 2 clients on 1 channel, 3 and 2 frames, either may go down | 985 k | `TypeOK`, `MessageIdNamesSend`, `PublisherOrder`, `MessageIsAddressed`, `AtMostOneStray`, `ListenersGetIt` |
| `tpc_server` | 2 clients, 2 accounts, 3 frames each, one may stall and die | 81 k | `TypeOK`, `OnlyFinalFrameCloses`, `NoGhostSession`, `ImplementsBroker` (refinement), `RequestsFinish`, `DeadAreRemoved` (liveness) |
| `reactor_server` | a publisher with 2 frames, a client with 1 that stalls and dies | 68 k | `TypeOK`, `QueuedIsAnnounced`, `AnsweredLoginEnds`, `ImplementsBroker` (refinement), `QueuedIsWritten`, `EndedIsRemoved` (liveness) |
| `actor_pool` | 2 handlers with 3 tasks each, 2 workers | 4 k | `TypeOK`, `ImplementsExecutor` (refinement), `EveryTaskRuns` (liveness) |
| `client_session` | any 5 commands, 2 channels, the server may go away | 734 k | `TypeOK`, `JoinedMeansSubscribed`, `SubscriptionsAgree`, `LogoutThenLogin`, `CommandsReturn` (liveness) |
| `event_reports` | 2 clients, one file each out of three, summaries at any time | 26 k | `TypeOK`, `EachReportIsKept`, `AttributedToReporter`, `WholeFilesOnly`, `Chronological`, `SummariesGrow` |
| `tpc_one_session`, `tpc_ghost_subscription`, `reactor_final_frame`, `client_relogin`, `client_reports` | the least instance of each | seconds | [findings](#findings), each a violation |

### What the properties say

- `FinalReplyMeansForgotten`: a client that has read its `ERROR` or logout receipt
  can log in again at once. Every handler calls `disconnect` before it returns such
  a frame; the property is that nothing the other connections or the closing
  handler do in between brings the connection back into the registry.
- `ConnectedKnowsPassword`, `AccountsChangeHandsOffline`: two logins race, also to
  create the account; a logout of the old owner and the login of the new one race.
- `MessageIdNamesSend`, `PublisherOrder`, `MessageIsAddressed`: what subscribers see
  of fan-out loops that run at the same time.
- `ListenersGetIt`: the guarantee a weakly consistent iteration leaves. Whoever
  was subscribed, registered and open from the start of the fan-out to its end
  has been handed the frame before the publisher gets its receipt.
- `AtMostOneStray`: a fan-out loop that has read an entry hands the message over
  even if the subscriber leaves in between, after its `UNSUBSCRIBE` receipt. That
  the code allows; the property is that it happens at most once for each
  publisher and subscription, so that leaving a channel takes effect. "For each
  publisher" alone would be wrong: one loop may hold an entry of an old
  subscription while its publisher's next `SEND` goes to another channel whose
  subscription was given up under the same id, or to a renewed one.
- `OnlyFinalFrameCloses`: the server ends the connection of a live client only
  after its final frame is written; a failing peer takes nobody else down.
- `NoGhostSession`: however a connection ends, and whoever closes it, no account
  stays online through it (its user would be locked out for ever) and no handler
  stays registered. Subscriptions are another matter: see the findings.
- `ImplementsBroker`: every step of the threaded server, or of the reactor, is a
  step of the broker or a stutter, so that all safety properties of the broker
  hold of it.
- `RequestsFinish`, `DeadAreRemoved`: no request waits for ever, and a client that
  went away leaves the registry, though only a read or a write notices.
- `QueuedIsAnnounced`, `QueuedIsWritten`: interest in writing is set by tasks that
  come late and dropped at once by `continueWrite`. A frame in the queue of an open
  channel always has somebody who will look at it, and is written in the end or
  its connection closed.
- `EndedIsRemoved`: only a completed write looks at `shouldTerminate`, and only a
  read or a failed write sees that a client went; still every connection that is
  over is closed and leaves the registry.
- `AnsweredLoginEnds`: the reactor's selector thread disconnects beside the worker of
  the same connection. An account whose login was answered before the channel
  closed goes offline. One whose login was still in process does not, see
  [known deviations](#known-deviations).
- `EachReportIsKept`, `AttributedToReporter`: texts may look like syntax. A report
  that does not itself collide with it arrives complete and once, whatever is
  reported around it, and no description files a report under another user.
- `WholeFilesOnly`: one date that cannot be read keeps back the events before it.
- `Chronological`, `SummariesGrow`: a summary is in the order of the dates in the
  files, as far as they fit in an `int`, and has everything an earlier one had.
- `ImplementsExecutor`, `EveryTaskRuns`: a handler's tasks, which share its decoder
  and its protocol object, never overlap, begin in the order of the reads, and
  none is stranded by a `complete` that stops the handler at that moment.
- `JoinedMeansSubscribed`, `SubscriptionsAgree`, `LogoutThenLogin`, `CommandsReturn`:
  the client's matching of receipts, its agreement with the server, a second
  session after a logout, and the return of every command to the prompt. The end
  of the input is not among them: its join may wait for a reader that is blocked
  in `recv` on a server that is up and silent.

### Bounds, and why they are enough

- *Connections*: 2 or 3. The hazards are pairwise (a publisher and a subscriber,
  an old and a new owner of an account), with a third party for
  `OneSessionPerUser`.
- *Frames* (`MaxFrames`, `Inputs`): 1 to 3 a client, from a small set. Enough for
  login, join, publish or leave; for two `SEND`s of one publisher
  (`PublisherOrder`); and for a second frame after a final one.
- *Client commands* (`MaxCommands`): 5, enough for login, join, exit, logout,
  login, and for reports in a second session. `EventsPerFile` is 2, the least that
  goes round the loop of `report`; the two client findings need only one.
- *Tasks* (`MaxTasks`): 3 for each handler, so that one runs, one waits and one
  comes while the first completes.
- *Clients that stall or die* (`MayStall`, `MayDie`): a stalled client that resumes
  and one that stays so; in the reactor a client stalls once.
- *Event files* (`Files`): eight events for each hazard of the texts and dates, one
  file a client. `IntMax` is 3, so that small dates wrap.
- `msgId` is a natural number bounded by the frames sent; its 32-bit wrap is out
  of these bounds and not modelled.
- Symmetry is not used: the clients' inputs differ.
- Deadlock is checked in the server's runs (`Quiet`, `AllQuiet` say when a server may
  rest). The client's runs switch it off: the program ends.

## Fairness and assumptions

- *Server threads* run: weak fairness of each thread and each call of `disconnect`.
  Java's intrinsic locks promise no order, but a holder of a stream's lock always
  releases it, and with the few writers of an instance weak fairness of the
  rest and *strong fairness of `Write`* say that a blocked write goes through if
  its client makes room again and again.
- *A stalled client reads again* (`WF(PeerResumes)`) or dies. Without this, a slow
  consumer stalls every publisher behind a blocking write; the code has no
  timeout for it, so `RequestsFinish` is a property under this assumption only.
- *Reactor*: the selector thread runs whenever something is due, the workers run,
  and a stalled client reads again. Nothing more is assumed of `select`: it need
  not return because a client might send.
- No fairness is assumed of clients' input, of `Accept`, of stalling or dying.
- *Client*: both threads run, the network delivers, and a server that is up answers.
  `recv` is *not* assumed to notice that another thread closed its descriptor
  (POSIX does not promise it); it returns when the server answers or closes.
- *Pool*: the selector thread and the workers run, and every task returns or throws.
- *Memory* is sequentially consistent. `User`'s fields are plain and `disconnect`
  writes them outside the monitor; a late visible write is outside the models.
- *TCP* delivers what the server wrote before it closed.
- *The client's server* sends this client only the echoes of its own reports: the
  reports of others change nothing but the store.

## Proofs

`StompBroker_proofs` proves, for any sets of connections, users, passwords,
channels and inputs, under `BrokerAssumption` alone:

| Theorem | Statement |
| --- | --- |
| `TypesHold` | `Spec => []TypeOK` |
| `LoginsHold` | `Spec => [](TypeOK /\ LoginOK)` |
| `AccountsHold` | `Spec => AccountsChangeHandsOffline` |
| `ConnectedHolds` | `Spec => []ConnectedKnowsPassword` |
| `FinalReplyHolds` | `Spec => []FinalReplyMeansForgotten` |

`BrokerAssumption` says that the null values are not members of the sets they
extend, that channels and users are not empty, and the types of the parameters.

- `TypeOK` is inductive as it stands, with `PhaseOK` (the frame a worker is busy
  with is of the command its place in the code is for) as a part of it.
- `LoginOK` is the inductive invariant of the accounts. A worker inside `loginUser`
  is the one that owns the monitor, and what it found out about the account stays
  true until it returns: the account is still absent, or still has the password
  it gave and is still offline. That needs an argument because `disconnect`
  writes to accounts without the monitor: it only ever clears the flag. From it
  follows `AccountsHold` step by step.
- `ConnectedOK` says of every `CONNECTED` frame, pending in `answer` or written to
  `out`, that its request gave the account's password. Passwords do not change
  (`AccountsHold`), so it is inductive, and it implies `ConnectedKnowsPassword`.
- `LeavingOK` follows a final reply from the handler that returns it to the
  client. While `disconnect` runs for it the connection is forgotten as far as that
  call has come (`ForgottenBy`); from its return until the reply is written, and
  ever after, it is `Forgotten`; and a connection whose reply is final has
  `shouldTerminate` set, so that no frame of its own is processed again. Lemma
  `NothingComesBack` is the heart: a step of another connection, or of the closing
  handler's `disconnect`, registers nothing for this one.

`BrokerMessages_proofs` proves, under the same assumption, what subscribers see:

| Theorem | Statement |
| --- | --- |
| `FanoutHolds` | `Spec => [](TypeOK /\ FanoutOK)` |
| `MessageIdsHold` | `Spec => []MessageIdNamesSend` |
| `OrderHolds` | `Spec => []PublisherOrder` |
| `AskedHolds` | `Spec => [](EntriesAsked /\ PendingAsked)` |
| `AddressesHold` | `Spec => []MessageIsAddressed` |
| `EndedHolds` | `Spec => []EndedOK` |
| `OneStrayHolds` | `Spec => []AtMostOneStray` |
| `DeliveryHolds` | `DeliverySpec => []ListenersGetIt` |

- `FanoutOK` is the inductive invariant of `send(channel)`. Running loops have ids of
  their own, all of them drawn (`FanoutsNamed`); a `MESSAGE` that was written shares
  its id with a running loop exactly if that loop carries its `SEND`
  (`MessagesNamed`); and a loop has each connection before it at most once, still
  to be read, read ahead or in hand, and has not served it yet (`LoopOK`). The last
  part is what `PublisherOrder` needs: it says that no client gets two copies.
- `EntriesAsked` says that an entry of the registry was asked for in a `SUBSCRIBE`,
  and `PendingAsked` says it of an entry that a loop has read, which may have
  left the registry since. `MessageIsAddressed` follows of what is handed over.
- `EndedOK` is about what is gone: every reply belongs to a frame its receiver sent
  (`RepliesOK`); a subscription whose `UNSUBSCRIBE` is answered, and that was not
  asked for again, is in no channel (`EndedGone`); and a publisher whose stray has
  arrived holds no second entry of that subscription (`NoStrayPending`), from
  which `AtMostOneStray` follows.
- `OwedOK` relates the history `owed` to the loop: whoever is owed the message is
  still to be read by the iterator, read, in hand, or has got it.

`TpcServer_proofs` proves, for any connections, inputs, stalls and deaths, from
`TpcAssumption` (the broker's assumption, and that `MayStall` and `MayDie` are sets
of connections):

| Theorem | Statement |
| --- | --- |
| `TpcImplementsBroker` | `Spec => ImplementsBroker` |
| `TpcKeepsPromises` | `Spec => [](` the six invariants proved of the broker `)` |
| `TpcTypesHold` | `Spec => []TypeOK` |
| `FinalFrameCloses` | `Spec => []OnlyFinalFrameCloses` |
| `GhostsHold` | `Spec => []NoGhostSession` |

- The refinement needs to know that the target of a send exists. A thread writes
  to `Target(t)`, which may be a subscriber whose entry was read long ago;
  `PendingAsked` of the broker says that it has subscribed, so that it was accepted
  and has a handler to close. `ThreadsOK` is the rest of the invariant: where a
  thread stands in `run` and in `send` fits the place of the broker's worker
  (`Placed`), and a handler's flag and socket fit the place of its own thread
  (`SocketsOK`). `CloseMaps` shows that the three ways to close a handler (the
  flag by `send`, the socket by `run`, the flag by `finally`) are one `Close` of the
  broker, whichever comes first, and that the others are stutters.
- Because the refinement is proved, the broker's theorems are used on the server
  through an instance of their module, and its lemmas serve as a library.
- `FinishingOK` follows the end of a connection: a handler of a live client is only
  closed when its own thread has left the loop, which it does when its final
  frame is written; a failed write is a dead client's.
- `EndedOK` says what each stage of the end has achieved: from the call of
  `notifyDisconnectedOnce` on, one `disconnect` runs or has run, and what it has
  passed stays removed (`LoginFirst` of the broker: no login of this connection
  is left to come). `NoGhostSession` is its last stage. `notified` is set by
  whoever comes first, so the argument has to hold for the handler's own thread
  and for a publisher's.

`ActorThreadPool_proofs` proves, for any actors, workers and numbers of tasks,
from `PoolAssumption` (the threads and null values are distinct):

| Theorem | Statement |
| --- | --- |
| `TypesHold` | `Spec => []TypeOK`, with the owner of each monitor |
| `PoolImplementsExecutor` | `Spec => ImplementsExecutor` |

Its inductive invariant `PoolOK` adds to `TypeOK`: an actor has its turn in at most
one place, a job or a worker, and is in `playingNow` while it has it (`TurnOK`);
what a thread found out under the monitor stays true while it holds it, so that
an actor with waiting tasks is playing (`MonitorOK`); and the numbers of the tasks
that began, have the job and wait are consecutive (`OrderOK`). `TurnOK` gives mutual
exclusion, `OrderOK` the order; neither is inductive without `MonitorOK`.

`ReactorServer_proofs` proves, for any connections and inputs, from
`ReactorAssumption` (the broker's assumption, and that `MayStall` and `MayDie` are
sets of connections):

| Theorem | Statement |
| --- | --- |
| `ReactorImplementsBroker` | `Spec => ImplementsBroker` |
| `QueuedHolds` | `Spec => []QueuedIsAnnounced` |
| `ReactorKeepsPromises` | `Spec => [](` five invariants proved of the broker `)` |
| `ReactorTypesHold` | `Spec => []TypeOK` |
| `AnsweredLoginsEnd` | `Spec => []AnsweredLoginEnds` |

Most steps of the reactor contain a step of the broker by name or leave the broker's
variables alone. `CloseChannel` is what needs the inductive invariant `SelectorOK`: it
is the broker's `Close` only if the channel is open and was accepted, and the
selector thread may have seen its key long before. `SelectorOK` says that a
key still in `ready`, or the channel `sel` is at, belongs to an open connection
(`KeysOK`): the selector thread alone closes channels, and drops all keys of the
one it closes. `QueuedIsAnnounced` is inductive together with it: `Decide` drops
`OP_WRITE` of a channel whose queue was empty at the test before, and a frame that
was queued in between belongs to a worker whose `AskToWrite` is still to come.

The broker's theorems carry over through an instance of `BrokerMessages_proofs` with
`StopAtTerminate` false: a protocol of the reactor still processes frames that follow
the final one. The promises that need the stop (`FinalReplyMeansForgotten`) are
not among them. `TypeOK` needs `WrittenWasQueued`: no more has been written than
the broker's `out` holds. `AnsweredLoginEnds` is the last stage of `EndingOK`: between
`close` and the end of `disconnect` the selector thread does nothing else, and from
the call on what it has passed is free of the connection (`LoggedOutBy`). A worker
may still run `loginUser` for the closed channel, which is the deviation listed
below; a connection whose only login is answered has no such worker left
(`AnsweredBefore`, the third part of the invariant).

`ClientSession_proofs` proves, for any channels, numbers of commands and sizes of
files, and whether or not the server may go away, from `ClientAssumption`:

| Theorem | Statement |
| --- | --- |
| `ClientHolds` | `Spec => []ClientOK` |
| `TypesHold` | `Spec => []TypeOK` |
| `JoinedHolds` | `Spec => []JoinedMeansSubscribed` |
| `AgreementHolds` | `Spec => []SubscriptionsAgree` |
| `LogoutsHold` | `Spec => []LogoutThenLogin` |

`ClientOK` is one inductive invariant of named parts:

- `StateTypeOK` types the variables by where the two threads are; `CountsOK` in it
  bounds ids, receipt numbers and reports by the commands typed, which is where
  the bounds of `TypeOK` come from.
- `NotesOK`: the note of a receipt (`actions`) still means what the request with that
  number asked for, wherever the request or its answer is: still with the main
  thread, on its way, or with the reader. `JoinedMeansSubscribed` follows.
- `OrderOK` and `StoresOK`: reports and their echoes travel in the order in which they
  were stored. So no echo is followed by another of the same report, a report on
  its way has been stored once, and its echo makes it two.
- `AgreeOK` is about the requests the server has not seen (`Asked`), the one the main
  thread is about to send included. `Consistent` says that subscription ids are
  never used twice (`FreshIds`), and that wherever client and server differ on a
  channel a request that settles it is coming (`WillAgree`): the `SUBSCRIBE` of what
  only the client has, and for what only the server has an `UNSUBSCRIBE`, or
  another `SUBSCRIBE` to the channel, which the server will refuse. When nothing is
  on its way, nothing differs.
- `SessionOK`: unless the server broke a session (`Hurt`), at the prompt a session is
  on, with its reader in the loop, or it is over and its reader was joined. The
  reader leaves the loop only after a logout's receipt or an `ERROR`, and there is no
  logout on its way before one is typed.

`EventReports_proofs` proves, for any clients, users, channels, event files and sizes
of an int, from four assumptions. `EventAssumption`: an event file is a finite list of
events with a number for a date, a description that is a list of lines and a finite map
of general information. `TextAssumption`: trimming a trimmed text changes nothing, nor
does trimming a field's name, a user's name (a word of the `login` command) or a number;
two numbers have two texts, and none is the mark or, for the id of a subscription, empty.
`NamesAssumption`: a user has a name (`login` wants four words), and files are for
channels the clients have joined. `RankAssumption`, which only `TypesHold` needs: the
texts of the instance (`Texts`) contain those of the files, the words of the program and
the numbers, and what trimming leaves of a text.

| Theorem | Statement |
| --- | --- |
| `WholeFiles` | `Spec => []WholeFilesOnly` |
| `OriginsHold` | `Spec => [](JobsOK /\ StoresOK /\ SummariesOK /\ FifoOK /\ OriginsOK)` |
| `Attribution` | `Spec => []AttributedToReporter` |
| `InOrder` | `Spec => []Chronological` |
| `SummariesGrowing` | `Spec => SummariesGrow` |
| `PlainSurvives` | `IsReport(r)` and `Plain(r)` imply `ParseEvent(Delivered(r, d)) = Clean(r)` |
| `StoresComplete` | `Spec => [](JobsOK /\ StoresOK /\ FifoOK /\ StoresAreComplete)` |
| `TypesHold` | `Spec => []TypeOK` |
| `Kept` | `ReportsDiffer` implies `Spec => []EachReportIsKept` |

- `JobsOK` says that what a client has sent, followed by what it has still to send,
  is one of its files. `WholeFilesOnly` is the case in which nothing is left.
- `FifoOK`: the frames on their way from `c` to `d` are `Delivered(r, d)`, the `MESSAGE`s
  made for `d`, of the last records `r` that `c` has reported, in order and without a gap.
  What such a frame is follows from the code on the way:
  `ServerReads` says that the body the server reads is that of the report without
  the blank lines of its description, `SubscriberReads` that the subscriber reads
  the same with its own id for the mark.
- `ParsedIs` is about `parseEventFromMessageBody` on such a body. After each line the
  parser holds a number for the date, it holds no user or one of the `UserLines` of
  the report, and once it has come to the description it leaves that part only at
  a line `general information:` in it. From it follows `OriginsOK`, the part that
  is about the stores, and from that `AttributedToReporter` and, because the dates
  that a summary compares are numbers, `Chronological`.
- `SummariesOK`: the reports of a summary can be embedded in the store they were
  taken from, which is only appended to. Sorting is a bijection, so that the
  later summary has room for everything in the earlier one.
- `PlainSurvives` is the round trip of one report. `FieldsAreRead`, `InfoIsRead` and
  `PlainIsRead` follow the parser through the four fields, the general information and
  the description of the body: after each line it holds the part of the report read so
  far (`SoFar`, `InfoTo`) and is in the section it should be in, because no line of a
  plain report is taken for a heading or a field. `NothingMarked` says that the mark is
  nowhere in it, `NumberSurvives` that `stoi` gives back the date, and `DeliveryAddresses`
  that the channel comes from the headers unchanged.
- `StoresAreComplete`: a record is in the store of `d`, in the place its channel and user
  say, as often as `d` has reported it and has read it (`Echoes`, by publisher and place).
  It needs `FifoOK`: the message that `d` takes next is that of the report whose place
  is one past what has arrived, so that no place is counted twice.
- `EachReportIsKept` counts the copies of one report, and follows from these two for
  files in which no report equals another or comes out like it (`ReportsDiffer`): of a
  plain report, the only echo is its own. The instance's files satisfy
  `ReportsDiffer`, which TLC evaluates (`FilesDiffer`); for files that do not,
  `StoresComplete` is what holds.
- `TypeOK` needs `StoresTyped` in the invariant: a stored record has a text for a city and
  a name, an int for a date and lines for a description (`Typed`), whatever field a
  line of the report is taken for. `DeliveredTyped` and `ParsedTyped` carry this through
  the frames and the parser.

The parsers are folds over lines, and what a fold computes is proved by induction
over the lines read. The prover cannot instantiate the library's induction theorems,
whose parameter is an operator. `FoldFacts` states induction up to a number for a set
(`UpTo`, from the well-foundedness of `<`), and proves from it that a fold is the
last result of a run (`FoldRuns`) for a *constant* operator `Op`; `EventReports_proofs`
instantiates the module with `KeepLine`, `AddHeader` and `ParseLine`.

*Only model-checked*:

- The liveness properties of all runs (`EveryTaskRuns`, `RequestsFinish`,
  `DeadAreRemoved`, `QueuedIsWritten`, `EndedIsRemoved`, `CommandsReturn`), because
  liveness and `ENABLED` are out of the prover's reach.

## Findings

Places where the code and its documentation disagree, each with a run whose
counterexample is the shortest TLC found. The assignment's specification is
`src/SPL251__Assignment_3_instructions.pdf`.

1. **Two sessions of one user** (`tpc_one_session`). `disconnect` tests the
   connection id of a user and clears its online flag in two unsynchronized
   steps, and runs twice for a connection that logs out. The second run may test,
   pause, and clear the flag of a login that has rebound the account.
2. **A subscription nobody removes** (`tpc_ghost_subscription`). A failed write
   closes the subscriber's handler and runs its only remaining `disconnect` in the
   publisher's thread, while the subscriber's own thread adds a subscription.
3. **The reactor loses the last frame** (`reactor_final_frame`). The worker sets
   `shouldTerminate` before it queues the `ERROR`; the selector thread, done with an
   earlier frame, closes the channel in between.
4. **Login after an error ends the client** (`client_relogin`). The reader thread
   ended but was not joined; assigning a new `std::thread` calls `std::terminate`.
5. **One's own reports count twice** (`client_reports`). They are stored when sent
   and again when the server echoes them.

### Known deviations

Met while modelling, and stated in the properties as what remains true:

- A `MESSAGE` may follow the receipt of an `UNSUBSCRIBE` (`AtMostOneStray`: one from each
  publisher for the subscription that ended).
- In the reactor, a login or subscription in process while the selector thread
  closes the channel is entered after the only `disconnect`: the account stays
  online and its user is locked out (`AnsweredLoginEnds` covers answered logins).
- A key of the general information named `user`, `city`, `event name` or `date time`
  overrides the field at the receiver, a description line `description:` is
  dropped, and `%%SUB_ID%%` in a report is replaced (`Plain` excludes such reports).
- A line `general information:` in a description makes the parser read the lines
  after it as fields: `user: x` there files the report under `x`
  (`AttributedToReporter` allows for exactly these lines).
- Blank lines of a description are lost on the way, and padding of values
  (`Clean`), so that one's own copy of a report differs from the others'.
- A date past 2038 wraps (`Chronological` is about those that fit).

## Not modelled

- *The byte decoder, text of dates, shortened descriptions, the layout of a summary*:
  functions on characters, which the models do not have.
- *`Reactor.close`*, which nothing calls, exceptions in a worker's task, and a failed
  accept: the reactor ends.
- *The constructor of an `Event` from a body* (`event.cpp`): nothing calls it; the
  client uses `parseEventFromMessageBody`.
- *Server socket failures, stream constructors that fail, command-line parsing*: end
  the program or a connection before any shared state exists.
- *`addUser`, `removeUser`, `isUserConnected`, `setUserConnected`*: nothing calls them.
- *Examples*: not part of the news server.
- *`json.hpp`*: the vendored JSON library, 24640 lines in one header. It is by far
  the longest file, so that the share of all lines that the models stand for is
  small however much of the program itself they cover.

## Plan

Done, in this order: `StompBroker` with its runs and proofs, `BrokerDelivery`,
`TpcServer` as an implementation of `StompBroker`, `ClientSession`,
`ActorThreadPool` as an implementation of `SerialExecutor`, `ReactorServer` as an
implementation of `StompBroker` with its proofs, `EventReports`, and the proofs of
the messages (`BrokerMessages_proofs`), of the threaded server
(`TpcServer_proofs`), of the client (`ClientSession_proofs`) and of the reports
(`FoldFacts`, `EventReports_proofs`).

Next, in this order:

1. A reactor whose workers are those of `ActorThreadPool` instead of the serial
   executor it implements.
2. The byte decoder against a reference definition, over a small alphabet.
