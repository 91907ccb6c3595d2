--------------------------- MODULE ReactorServer ---------------------------
(***************************************************************************)
(* The reactor: the selector thread of Reactor.serve, the                  *)
(* NonBlockingConnectionHandler of each connection, and the workers of the *)
(* actor pool, around the broker.                                          *)
(*                                                                         *)
(* The selector thread reads and writes all channels and closes them; it   *)
(* runs disconnect for what it closes.  The bytes of a read become a task  *)
(* of the connection's handler, which a worker runs: it decodes frames and *)
(* processes them, whether or not shouldTerminate is set.  The pool runs   *)
(* the tasks of one handler one at a time and in order (SerialExecutor),   *)
(* so the worker of connection c is named c.  A worker never writes to a   *)
(* channel: send queues the frame and asks the selector thread, by a task  *)
(* and a wakeup, to watch for OP_WRITE.                                    *)
(*                                                                         *)
(* out[c] of the broker is what was queued for c while its channel was     *)
(* open; the write queue is the part of it that is not yet sent.           *)
(***************************************************************************)
EXTENDS Naturals, Sequences

CONSTANTS Conns, Usernames, Passwords, Channels, SubIds, NoUser, NoSub,
          NoConn, Inputs, MaxFrames, Disciplined,
          MayStall,   \* bound: clients that stop reading once
          MayDie      \* bound: clients that may go away

VARIABLES clients, subs, users, monitor, msgId, pc, got, answer, todo, ahead,
          pick, sending, term, notified, disc, out,
          open,       \* the channel of the handler is open
          peer,       \* the client's end of the connection
          opWrite,    \* OP_WRITE is in the interest set; OP_READ always is
          tasks,      \* channels with a task in selectorTasks
          woken,      \* wakeup was called since the last select
          ready,      \* selected keys, by channel and operation, not yet seen
          sel,        \* where the selector thread is, and with which channel
          inbox,      \* frames read but not yet decoded
          sent,       \* how many frames of out are written to the channel
          waking      \* the channel a worker, inside send, has queued to

B == INSTANCE StompBroker
       WITH closed <- [c \in Conns |-> ~open[c]], StopAtTerminate <- FALSE

ASSUME ReactorAssumption ==
  /\ B!BrokerAssumption
  /\ MayStall \subseteq Conns /\ MayDie \subseteq Conns

brokerVars == <<clients, subs, users, monitor, msgId, pc, got, answer, todo,
                ahead, pick, sending, term, notified, disc, out>>
selectorVars == <<opWrite, tasks, woken, ready, sel>>
channelVars == <<open, peer, sent, inbox>>
vars == <<clients, subs, users, monitor, msgId, pc, got, answer, todo, ahead,
          pick, sending, term, notified, disc, out, open, peer, opWrite, tasks,
          woken, ready, sel, inbox, sent, waking>>

At(place, c) == [at |-> place, conn |-> c]
Keys == At("keys", NoConn)
AcceptKey == <<NoConn, "accept">>
KeysOf(c) == {<<c, "read">>, <<c, "write">>}

Init ==
  /\ open = [c \in Conns |-> TRUE]
  /\ B!Init
  /\ peer = [c \in Conns |-> "none"]
  /\ opWrite = [c \in Conns |-> FALSE]
  /\ tasks = {}
  /\ woken = FALSE
  /\ ready = {}
  /\ sel = Keys
  /\ inbox = [c \in Conns |-> 0]
  /\ sent = [c \in Conns |-> 0]
  /\ waking = [c \in Conns |-> NoConn]

(***************************************************************************)
(* select().  A key is writable when its channel takes bytes and OP_WRITE  *)
(* was asked for by then, and readable when bytes or the end of the stream *)
(* are there.  What clients send may come at any time.                     *)
(***************************************************************************)
Registered(c) == peer[c] # "none" /\ open[c]
MayStillSend(c) == Len(got[c]) + inbox[c] < MaxFrames[c]

Due ==
  {<<c, "write">> : c \in {d \in Conns : Registered(d) /\ opWrite[d]
                                           /\ peer[d] # "stalled"}}
    \cup {<<c, "read">> : c \in {d \in Conns : Registered(d)
                                                 /\ peer[d] = "closed"}}

Arrivals ==
  {<<c, "read">> : c \in {d \in Conns : Registered(d) /\ MayStillSend(d)}}
    \cup (IF \E c \in Conns : peer[c] = "none" THEN {AcceptKey} ELSE {})

(* select(), and runSelectionThreadTasks right after it: the keys are those *)
(* select found, with the interest sets of before the tasks.  Every task   *)
(* asks for OP_READ and OP_WRITE of a channel, so neither their order nor  *)
(* their number matters; one that is added after select returned may as    *)
(* well wait for the next round, which its wakeup brings about.            *)
Select ==
  /\ ready = {} /\ sel = Keys
  /\ \E new \in SUBSET Arrivals :
       /\ woken \/ Due \cup new # {}
       /\ ready' = Due \cup new
  /\ woken' = FALSE
  /\ tasks' = {}
  /\ opWrite' = [c \in Conns |-> opWrite[c] \/ (c \in tasks /\ open[c])]
  /\ UNCHANGED <<brokerVars, channelVars, sel, waking>>

(***************************************************************************)
(* The loop over the selected keys, in any order; a key that is readable   *)
(* and writable is read first.                                             *)
(***************************************************************************)
(* Fault: the handler is not added to the registry.                        *)
AcceptUnlisted(c) ==
  /\ sel = Keys
  /\ AcceptKey \in ready /\ peer[c] = "none"
  /\ ready' = ready \ {AcceptKey}
  /\ peer' = [peer EXCEPT ![c] = "reading"]
  /\ pc' = [pc EXCEPT ![c] = "idle"]
  /\ UNCHANGED <<clients, subs, users, monitor, msgId, got, answer, todo, ahead,
                 pick, sending, term, notified, disc, out, open, opWrite, tasks,
                 woken, sel, inbox, sent, waking>>

Accept(c) ==
  /\ sel = Keys
  /\ AcceptKey \in ready /\ peer[c] = "none"
  /\ ready' = ready \ {AcceptKey}
  /\ peer' = [peer EXCEPT ![c] = "reading"]
  /\ UNCHANGED <<open, opWrite, tasks, woken, sel, inbox, sent, waking>>
  /\ B!Accept(c)

(* continueRead: the bytes, of one frame or several, are submitted.        *)
ReadFrames(c) ==
  /\ sel = Keys
  /\ <<c, "read">> \in ready
  /\ ready' = ready \ {<<c, "read">>}
  /\ \E n \in 1 .. MaxFrames[c] :
       /\ Len(got[c]) + inbox[c] + n <= MaxFrames[c]
       /\ inbox' = [inbox EXCEPT ![c] = @ + n]
  /\ UNCHANGED <<brokerVars, open, peer, sent, opWrite, tasks, woken, sel,
                 waking>>

(* Fault: the end of the stream is taken for an empty read.                *)
ReadEndsUnnoticed(c) ==
  /\ sel = Keys
  /\ <<c, "read">> \in ready /\ peer[c] = "closed"
  /\ ready' = ready \ {<<c, "read">>}
  /\ UNCHANGED <<brokerVars, channelVars, opWrite, tasks, woken, sel, waking>>

(* continueRead, at the end of the stream or on an IOException: after      *)
(* close() the key is invalid.                                             *)
ReadEnds(c) ==
  /\ sel = Keys
  /\ <<c, "read">> \in ready /\ peer[c] = "closed"
  /\ ready' = ready \ KeysOf(c)
  /\ sel' = At("close", c)
  /\ UNCHANGED <<brokerVars, channelVars, opWrite, tasks, woken, waking>>

(***************************************************************************)
(* continueWrite.                                                          *)
(***************************************************************************)
WriteStarts(c) ==
  /\ sel = Keys
  /\ <<c, "write">> \in ready /\ <<c, "read">> \notin ready
  /\ ready' = ready \ {<<c, "write">>}
  /\ sel' = At("write", c)
  /\ UNCHANGED <<brokerVars, channelVars, opWrite, tasks, woken, waking>>

(* Fault: the head is removed although the channel did not take it all,    *)
(* and the loop goes round once too often.                                 *)
WriteHeadUnchecked(c) ==
  /\ sel = At("write", c)
  /\ \/ /\ sent[c] <= Len(out[c])
        /\ sent' = [sent EXCEPT ![c] = @ + 1]
        /\ UNCHANGED sel
     \/ /\ sent[c] > Len(out[c])
        /\ sel' = Keys
        /\ UNCHANGED sent
  /\ UNCHANGED <<brokerVars, open, peer, inbox, opWrite, tasks, woken, ready,
                 waking>>

(* The channel takes the frame, or not all of it, or the write fails; with *)
(* the client gone it may still take it.                                   *)
WriteHead(c) ==
  /\ sel = At("write", c)
  /\ sent[c] < Len(out[c])
  /\ \/ /\ peer[c] # "stalled"
        /\ sent' = [sent EXCEPT ![c] = @ + 1]
        /\ UNCHANGED sel
     \/ /\ peer[c] = "stalled"
        /\ sel' = Keys
        /\ UNCHANGED sent
     \/ /\ peer[c] = "closed"
        /\ sel' = At("close", c)
        /\ UNCHANGED sent
  /\ UNCHANGED <<brokerVars, open, peer, inbox, opWrite, tasks, woken, ready,
                 waking>>

(* Both tests of isEmpty: a frame added between them only sends the        *)
(* selector thread round once more.                                        *)
QueueEmpty(c) ==
  /\ sel = At("write", c)
  /\ sent[c] = Len(out[c])
  /\ sel' = At("decide", c)
  /\ UNCHANGED <<brokerVars, channelVars, opWrite, tasks, woken, ready, waking>>

(* Fault: a connection that is over is kept for reading.                   *)
DecideToRead(c) ==
  /\ sel = At("decide", c)
  /\ sel' = Keys
  /\ opWrite' = [opWrite EXCEPT ![c] = FALSE]
  /\ UNCHANGED <<brokerVars, channelVars, tasks, woken, ready, waking>>

(* shouldTerminate: close; or back to OP_READ alone, at once.              *)
Decide(c) ==
  /\ sel = At("decide", c)
  /\ \/ /\ term[c]
        /\ sel' = At("close", c)
        /\ UNCHANGED opWrite
     \/ /\ ~term[c]
        /\ sel' = Keys
        /\ opWrite' = [opWrite EXCEPT ![c] = FALSE]
  /\ UNCHANGED <<brokerVars, channelVars, tasks, woken, ready, waking>>

(***************************************************************************)
(* close().  Only the selector thread closes; that continueRead calls it a *)
(* second time after an IOException has no effect.                         *)
(***************************************************************************)
CloseChannel(c) ==
  /\ sel = At("close", c)
  /\ sel' = At("notify", c)
  /\ open' = [open EXCEPT ![c] = FALSE]
  /\ opWrite' = [opWrite EXCEPT ![c] = FALSE]
  /\ UNCHANGED <<brokerVars, peer, sent, inbox, tasks, woken, ready, waking>>

(* Fault: close() relies on process() to call disconnect.                  *)
NotifyNever(c) ==
  /\ sel = At("notify", c)
  /\ sel' = Keys
  /\ UNCHANGED <<brokerVars, channelVars, opWrite, tasks, woken, ready, waking>>

Notify(c) ==
  /\ sel = At("notify", c)
  /\ sel' = At("wait", c)
  /\ UNCHANGED <<channelVars, opWrite, tasks, woken, ready, waking>>
  /\ B!StartClose(c)

Closed(c) ==
  /\ sel = At("wait", c)
  /\ disc[<<"close", c>>] = B!Returned
  /\ sel' = Keys
  /\ UNCHANGED <<brokerVars, channelVars, opWrite, tasks, woken, ready, waking>>

(***************************************************************************)
(* A worker: the task of a read.                                           *)
(***************************************************************************)
Decode(c, f) ==
  /\ waking[c] = NoConn
  /\ inbox[c] > 0
  /\ inbox' = [inbox EXCEPT ![c] = @ - 1]
  /\ UNCHANGED <<open, peer, sent, selectorVars, waking>>
  /\ B!Receive(c, f)

Process(c) ==
  /\ waking[c] = NoConn
  /\ UNCHANGED <<channelVars, selectorVars, waking>>
  /\ B!Handle(c)

(* send: writeQueue.add, for a subscriber or for the connection itself.    *)
QueueMessage(c) ==
  /\ waking[c] = NoConn
  /\ waking' = [waking EXCEPT ![c] = pick[c].to]
  /\ UNCHANGED <<channelVars, selectorVars>>
  /\ B!HandOver(c)

QueueReply(c) ==
  /\ waking[c] = NoConn
  /\ waking' = [waking EXCEPT ![c] = IF answer[c] = <<>> THEN NoConn ELSE c]
  /\ UNCHANGED <<channelVars, selectorVars>>
  /\ B!Reply(c)

(* Fault: the task is added, but select is not woken up.                   *)
AskSilently(c) ==
  /\ waking[c] # NoConn
  /\ waking' = [waking EXCEPT ![c] = NoConn]
  /\ tasks' = IF open[waking[c]] THEN tasks \cup {waking[c]} ELSE tasks
  /\ UNCHANGED <<brokerVars, channelVars, opWrite, woken, ready, sel>>

(* Fault: no task if the interest set has OP_WRITE already.                *)
AskUnlessAsked(c) ==
  /\ waking[c] # NoConn
  /\ waking' = [waking EXCEPT ![c] = NoConn]
  /\ LET d == waking[c]
         needed == open[d] /\ ~opWrite[d]
     IN  /\ tasks' = IF needed THEN tasks \cup {d} ELSE tasks
         /\ woken' = (woken \/ needed)
  /\ UNCHANGED <<brokerVars, channelVars, opWrite, ready, sel>>

(* updateInterestedOps: the test of the key, the task and the wakeup.  A   *)
(* task that runs before its wakeup leaves a select that returns nothing.  *)
AskToWrite(c) ==
  /\ waking[c] # NoConn
  /\ waking' = [waking EXCEPT ![c] = NoConn]
  /\ LET d == waking[c]
     IN  /\ tasks' = IF open[d] THEN tasks \cup {d} ELSE tasks
         /\ woken' = (woken \/ open[d])
  /\ UNCHANGED <<brokerVars, channelVars, opWrite, ready, sel>>

DisconnectStep(k) ==
  /\ UNCHANGED <<channelVars, selectorVars, waking>>
  /\ B!DisconnectStep(k)

(***************************************************************************)
(* The client's end.                                                       *)
(***************************************************************************)
PeerMoves(c, from, to) ==
  /\ peer[c] \in from
  /\ peer' = [peer EXCEPT ![c] = to]
  /\ UNCHANGED <<brokerVars, open, sent, inbox, selectorVars, waking>>

PeerStalls(c) == c \in MayStall /\ PeerMoves(c, {"reading"}, "stalled")
PeerResumes(c) == PeerMoves(c, {"stalled"}, "resumed")
PeerDies(c) ==
  c \in MayDie /\ PeerMoves(c, {"reading", "stalled", "resumed"}, "closed")

(* select has nothing to return and no worker has anything to do.          *)
AllQuiet ==
  /\ sel = Keys /\ ready = {} /\ ~woken /\ Due = {}
  /\ \A c \in Conns : pc[c] \in {"off", "idle"} /\ waking[c] = NoConn
  /\ UNCHANGED vars

HandleKey(c) ==
  \/ Accept(c) \/ ReadFrames(c) \/ ReadEnds(c)
  \/ WriteStarts(c) \/ WriteHead(c) \/ QueueEmpty(c) \/ Decide(c)
  \/ CloseChannel(c) \/ Notify(c) \/ Closed(c)

Worker(c) ==
  \/ \E f \in Inputs[c] : Decode(c, f)
  \/ Process(c) \/ QueueMessage(c) \/ QueueReply(c) \/ AskToWrite(c)

Next ==
  \/ Select
  \/ \E c \in Conns : HandleKey(c) \/ Worker(c)
  \/ \E k \in B!Calls : DisconnectStep(k)
  \/ \E c \in Conns : PeerStalls(c) \/ PeerResumes(c) \/ PeerDies(c)
  \/ AllQuiet

Spec == Init /\ [][Next]_vars

-----------------------------------------------------------------------------
(* The selector thread runs, but a select with nothing to return need not  *)
(* return because a client might send; the pool runs every task; a client  *)
(* that stopped reading reads again.                                       *)
SelectorStep ==
  \/ (woken \/ Due # {}) /\ Select
  \/ \E c \in Conns : HandleKey(c)

Fairness ==
  /\ WF_vars(SelectorStep)
  /\ \A c \in Conns : WF_vars(Worker(c)) /\ WF_vars(PeerResumes(c))
  /\ \A k \in B!Calls : WF_vars(DisconnectStep(k))

FairSpec == Spec /\ Fairness

Places == {"close", "write", "decide", "notify", "wait"}

(* What the reactor's own variables may hold.                              *)
TypeOK ==
  /\ B!TypeOK
  /\ open \in [Conns -> BOOLEAN]
  /\ peer \in [Conns -> {"none", "reading", "stalled", "resumed", "closed"}]
  /\ opWrite \in [Conns -> BOOLEAN]
  /\ tasks \in SUBSET Conns
  /\ woken \in BOOLEAN
  /\ ready \in SUBSET ({AcceptKey} \cup UNION {KeysOf(c) : c \in Conns})
  /\ sel \in {Keys} \cup {At(p, c) : p \in Places, c \in Conns}
  /\ inbox \in [Conns -> Nat]
  /\ sent \in [Conns -> Nat] /\ \A c \in Conns : sent[c] <= Len(out[c])
  /\ waking \in [Conns -> Conns \cup {NoConn}]

(* The reactor with its queues and interest sets is the abstract broker:   *)
(* workers, the selector thread and its disconnects take no step together  *)
(* that the broker does not have.                                          *)
ImplementsBroker == B!Spec

(* Somebody will look at the write queue of c again: the interest set has  *)
(* OP_WRITE, a task will put it there, or a worker is about to add one.    *)
Announced(c) == c \in tasks \/ \E t \in Conns : waking[t] = c
WillLook(c) == opWrite[c] /\ sel # At("decide", c)

(* A frame in the write queue of an open channel is never forgotten: the   *)
(* selector thread drops OP_WRITE only after it saw the queue empty, and a *)
(* worker that queues a frame after that has its own request still to come *)
(* (send adds to the queue first and updates the interest second).         *)
QueuedIsAnnounced ==
  \A c \in Conns :
    open[c] /\ sent[c] < Len(out[c]) => WillLook(c) \/ Announced(c)

(* A frame that was queued is written, or its connection ends: no sequence *)
(* of interest changes, wakeups and partial writes strands it.             *)
QueuedIsWritten ==
  \A c \in Conns :
    (sent[c] < Len(out[c])) ~> (sent[c] = Len(out[c]) \/ ~open[c])

(* A connection that is over, because its protocol asks to terminate or    *)
(* its client went away, is closed and leaves the registry in the end,     *)
(* though only a completed write looks at shouldTerminate and only a read  *)
(* or a failed write sees that the client went.                            *)
EndedIsRemoved ==
  \A c \in Conns :
    (term[c] \/ peer[c] = "closed") ~> (~open[c] /\ c \notin clients)

(* The channel of c is closed, the selector thread is done with it, and no *)
(* frame of c is being processed or still to be.                           *)
Over(c) == ~open[c] /\ sel.conn # c /\ pc[c] = "idle" /\ inbox[c] = 0

(* An account does not stay online through a connection that ended, if its *)
(* login was answered before the channel closed: the disconnect that the   *)
(* selector thread runs beside the connection's worker finds the account   *)
(* and clears its flag.  (A login still in process when the channel closes *)
(* is bound after that disconnect and stays online.)                       *)
AnsweredLoginEnds ==
  \A c \in Conns : \A i \in DOMAIN out[c] :
    /\ Over(c)
    /\ out[c][i].kind = "CONNECTED"
    /\ B!Sent(c, "CONNECT") = {out[c][i].n}
    => \A u \in Usernames :
         users[u] # NoUser /\ users[u].conn = c => ~users[u].online

(* The server closes the connection of a client that is alive only after   *)
(* it has written it the ERROR or the logout receipt.                      *)
FinalFrameIsWritten ==
  \A c \in Conns : ~open[c] /\ peer[c] # "closed" =>
    \E i \in 1 .. sent[c] : B!IsFinal(c, i)
=============================================================================
