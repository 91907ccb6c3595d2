----------------------------- MODULE TpcServer -----------------------------
(***************************************************************************)
(* The thread-per-client server: BaseServer's accept loop and the          *)
(* BlockingConnectionHandler of each connection, around the broker.        *)
(*                                                                         *)
(* The thread of connection c runs c's read loop and everything process()  *)
(* does for it, which includes writing to the sockets of other             *)
(* connections: handler.send takes the lock on the receiver's stream, may  *)
(* block in the write, and on an IOException closes the receiver's         *)
(* connection and calls disconnect for it, all in the sender's thread.     *)
(* The abstract handler of the broker is "closed" as soon as one of the    *)
(* two facts send depends on, the flag and the socket, is gone.            *)
(***************************************************************************)
EXTENDS Naturals, Sequences

CONSTANTS Conns, Usernames, Passwords, Channels, SubIds, NoUser, NoSub,
          NoConn, Inputs, MaxFrames, StopAtTerminate, Disciplined,
          MayStall,   \* bound: clients that may stop reading for a while
          MayDie      \* bound: clients that may go away

VARIABLES clients, subs, users, monitor, msgId, pc, got, answer, todo, ahead,
          pick, sending, term, notified, disc, out,
          connected,  \* BlockingConnectionHandler.connected
          sock,       \* the socket of the handler is open
          peer,       \* the client's end of the connection
          run,        \* where run() of each handler is
          writing     \* where each thread is in the send of Target's handler

B == INSTANCE StompBroker
       WITH closed <- [c \in Conns |-> ~connected[c] \/ ~sock[c]]

ASSUME TpcAssumption ==
  /\ B!BrokerAssumption
  /\ MayStall \subseteq Conns /\ MayDie \subseteq Conns

registryVars == <<clients, subs, users, monitor, msgId>>
workerVars == <<pc, got, answer, todo, ahead, pick, sending, term>>
socketVars == <<connected, sock, peer>>
vars == <<clients, subs, users, monitor, msgId, pc, got, answer, todo, ahead,
          pick, sending, term, notified, disc, out, connected, sock, peer, run,
          writing>>

Init ==
  /\ connected = [c \in Conns |-> TRUE]
  /\ sock = [c \in Conns |-> TRUE]
  /\ B!Init
  /\ peer = [c \in Conns |-> "none"]
  /\ run = [c \in Conns |-> "new"]
  /\ writing = [c \in Conns |-> "no"]

(* addClient, start, and a new thread for the handler.                     *)
Accept(c) ==
  /\ run[c] = "new"
  /\ run' = [run EXCEPT ![c] = "check"]
  /\ peer' = [peer EXCEPT ![c] = "reading"]
  /\ UNCHANGED <<connected, sock, writing>>
  /\ B!Accept(c)

(***************************************************************************)
(* The loop of run().                                                      *)
(***************************************************************************)
LoopCheck(c) ==
  /\ run[c] = "check"
  /\ run' = [run EXCEPT ![c] = IF ~term[c] /\ connected[c] THEN "read"
                               ELSE "exit"]
  /\ UNCHANGED <<registryVars, workerVars, notified, disc, out, socketVars,
                 writing>>

(* The bytes of a frame may have arrived before the socket was closed.     *)
ReadFrame(c, f) ==
  /\ run[c] = "read"
  /\ run' = [run EXCEPT ![c] = "process"]
  /\ UNCHANGED <<socketVars, writing>>
  /\ B!Receive(c, f)

ReadEnds(c) ==
  /\ run[c] = "read"
  /\ ~sock[c] \/ peer[c] = "closed"
  /\ run' = [run EXCEPT ![c] = "exit"]
  /\ UNCHANGED <<registryVars, workerVars, notified, disc, out, socketVars,
                 writing>>

Process(c) ==
  /\ UNCHANGED <<socketVars, run, writing>>
  /\ B!Handle(c)

(***************************************************************************)
(* handler.send, called by the fan-out loop for a subscriber's handler and *)
(* by run() for its own.                                                   *)
(***************************************************************************)
Target(t) == IF pick[t] # B!NoPick THEN pick[t].to ELSE t

Replying(t) ==
  pc[t] = "reply" /\ disc[<<"process", t>>] = B!Returned

MustSend(t) == pick[t] # B!NoPick \/ (Replying(t) /\ answer[t] # <<>>)

(* send returns: the frame is written if the handler was open, dropped if  *)
(* not, and the thread goes on with its fan-out or its read loop.          *)
SendReturns(t) ==
  /\ writing' = [writing EXCEPT ![t] = "no"]
  /\ \/ /\ pick[t] # B!NoPick
        /\ UNCHANGED run
        /\ B!HandOver(t)
     \/ /\ pick[t] = B!NoPick
        /\ run' = [run EXCEPT ![t] = "check"]
        /\ B!Reply(t)

NoResponse(c) ==
  /\ Replying(c) /\ answer[c] = <<>>
  /\ UNCHANGED socketVars
  /\ SendReturns(c)

(* Fault: run() closes the handler on shouldTerminate before it sends.     *)
SendEnterUnlessOver(t) ==
  /\ MustSend(t) /\ writing[t] = "no"
  /\ UNCHANGED <<sock, peer>>
  /\ \/ /\ connected[Target(t)]
        /\ LET over == pick[t] = B!NoPick /\ term[t]
           IN  /\ connected' = [connected EXCEPT ![t] = @ /\ ~over]
               /\ writing' = [writing EXCEPT ![t] = IF over THEN @
                                                    ELSE "write"]
        /\ UNCHANGED <<registryVars, workerVars, notified, disc, out, run>>
     \/ /\ ~connected[Target(t)]
        /\ UNCHANGED connected
        /\ SendReturns(t)

SendEnter(t) ==
  /\ MustSend(t) /\ writing[t] = "no"
  /\ UNCHANGED socketVars
  /\ \/ /\ connected[Target(t)]
        /\ writing' = [writing EXCEPT ![t] = "write"]
        /\ UNCHANGED <<registryVars, workerVars, notified, disc, out, run>>
     \/ /\ ~connected[Target(t)]
        /\ SendReturns(t)

(* The lock on out is held from the write until send returns; a write that *)
(* succeeds is one step, so a holder is a thread whose write failed.       *)
HoldsLock(t, d) == Target(t) = d /\ writing[t] \in {"close", "notify", "wait"}
LockFree(d) == \A t \in Conns : ~HoldsLock(t, d)

(* The socket takes the frame; with the client gone it may still do so.    *)
Write(t) ==
  /\ writing[t] = "write"
  /\ LockFree(Target(t)) /\ sock[Target(t)] /\ peer[Target(t)] # "stalled"
  /\ UNCHANGED socketVars
  /\ SendReturns(t)

WriteFails(t) ==
  /\ writing[t] = "write"
  /\ LockFree(Target(t))
  /\ ~sock[Target(t)] \/ peer[Target(t)] = "closed"
  /\ writing' = [writing EXCEPT ![t] = "close"]
  /\ connected' = [connected EXCEPT ![Target(t)] = FALSE]
  /\ UNCHANGED <<registryVars, workerVars, notified, disc, out, sock, peer,
                 run>>

CloseTarget(t) ==
  /\ writing[t] = "close"
  /\ writing' = [writing EXCEPT ![t] = "notify"]
  /\ sock' = [sock EXCEPT ![Target(t)] = FALSE]
  /\ UNCHANGED <<registryVars, workerVars, notified, disc, out, connected,
                 peer, run>>

(* Fault: no compareAndSet, so that two closers both call disconnect.      *)
NotifyTargetAgain(t) ==
  /\ writing[t] = "notify"
  /\ disc[<<"close", Target(t)>>] = B!Returned
  /\ UNCHANGED <<registryVars, workerVars, socketVars, out, run>>
  /\ writing' = [writing EXCEPT ![t] = "wait"]
  /\ notified' = [notified EXCEPT ![Target(t)] = TRUE]
  /\ disc' = [disc EXCEPT ![<<"close", Target(t)>>] = B!Entered]

NotifyTarget(t) ==
  /\ writing[t] = "notify"
  /\ UNCHANGED socketVars
  /\ \/ /\ ~notified[Target(t)]
        /\ writing' = [writing EXCEPT ![t] = "wait"]
        /\ UNCHANGED run
        /\ B!StartClose(Target(t))
     \/ /\ notified[Target(t)]
        /\ SendReturns(t)

TargetForgotten(t) ==
  /\ writing[t] = "wait"
  /\ disc[<<"close", Target(t)>>] = B!Returned
  /\ UNCHANGED socketVars
  /\ SendReturns(t)

(***************************************************************************)
(* The end of run(): try-with-resources closes the socket, and only then   *)
(* does finally clear the flag and call disconnect if nobody has.          *)
(***************************************************************************)
CloseSocket(c) ==
  /\ run[c] = "exit"
  /\ run' = [run EXCEPT ![c] = "finally"]
  /\ sock' = [sock EXCEPT ![c] = FALSE]
  /\ UNCHANGED <<registryVars, workerVars, notified, disc, out, connected,
                 peer, writing>>

ClearConnected(c) ==
  /\ run[c] = "finally"
  /\ run' = [run EXCEPT ![c] = "notify"]
  /\ connected' = [connected EXCEPT ![c] = FALSE]
  /\ UNCHANGED <<registryVars, workerVars, notified, disc, out, sock, peer,
                 writing>>

(* Fault: the end of run() trusts process() to have called disconnect.     *)
NotifyOwnNever(c) ==
  /\ run[c] = "notify"
  /\ run' = [run EXCEPT ![c] = "gone"]
  /\ UNCHANGED <<socketVars, writing, registryVars, workerVars, notified, disc,
                 out>>

NotifyOwn(c) ==
  /\ run[c] = "notify"
  /\ UNCHANGED <<socketVars, writing>>
  /\ \/ /\ ~notified[c]
        /\ run' = [run EXCEPT ![c] = "cleanup"]
        /\ B!StartClose(c)
     \/ /\ notified[c]
        /\ run' = [run EXCEPT ![c] = "gone"]
        /\ UNCHANGED <<registryVars, workerVars, notified, disc, out>>

ThreadEnds(c) ==
  /\ run[c] = "cleanup"
  /\ disc[<<"close", c>>] = B!Returned
  /\ run' = [run EXCEPT ![c] = "gone"]
  /\ UNCHANGED <<registryVars, workerVars, notified, disc, out, socketVars,
                 writing>>

DisconnectStep(k) ==
  /\ UNCHANGED <<socketVars, run, writing>>
  /\ B!DisconnectStep(k)

(***************************************************************************)
(* The client's end.                                                       *)
(***************************************************************************)
PeerMoves(c, from, to) ==
  /\ peer[c] \in from
  /\ peer' = [peer EXCEPT ![c] = to]
  /\ UNCHANGED <<registryVars, workerVars, notified, disc, out, connected,
                 sock, run, writing>>

PeerStalls(c) == c \in MayStall /\ PeerMoves(c, {"reading"}, "stalled")
PeerResumes(c) == PeerMoves(c, {"stalled"}, "reading")
PeerDies(c) == c \in MayDie /\ PeerMoves(c, {"reading", "stalled"}, "closed")

(* Every thread is gone or waits for bytes that need never come.           *)
AllQuiet ==
  /\ \A c \in Conns : \/ run[c] \in {"new", "gone"}
                      \/ run[c] = "read" /\ sock[c] /\ peer[c] # "closed"
  /\ UNCHANGED vars

Thread(c) ==
  \/ LoopCheck(c) \/ ReadEnds(c) \/ Process(c) \/ NoResponse(c)
  \/ SendEnter(c) \/ Write(c) \/ WriteFails(c) \/ CloseTarget(c)
  \/ NotifyTarget(c) \/ TargetForgotten(c)
  \/ CloseSocket(c) \/ ClearConnected(c) \/ NotifyOwn(c) \/ ThreadEnds(c)

Next ==
  \/ \E c \in Conns : Accept(c) \/ Thread(c)
  \/ \E c \in Conns : \E f \in Inputs[c] : ReadFrame(c, f)
  \/ \E k \in B!Calls : DisconnectStep(k)
  \/ \E c \in Conns : PeerStalls(c) \/ PeerResumes(c) \/ PeerDies(c)
  \/ AllQuiet

Spec == Init /\ [][Next]_vars

-----------------------------------------------------------------------------
(* The scheduler runs every thread; a blocked write completes if the       *)
(* client keeps making room; and a client that stopped reading reads again *)
(* (without this a slow consumer stalls its publishers for ever).          *)
Fairness ==
  /\ \A c \in Conns : WF_vars(Thread(c)) /\ SF_vars(Write(c))
  /\ \A k \in B!Calls : WF_vars(DisconnectStep(k))
  /\ \A c \in Conns : WF_vars(PeerResumes(c))

FairSpec == Spec /\ Fairness

(* What the handler's own variables may hold.                              *)
TypeOK ==
  /\ B!TypeOK
  /\ connected \in [Conns -> BOOLEAN] /\ sock \in [Conns -> BOOLEAN]
  /\ peer \in [Conns -> {"none", "reading", "stalled", "closed"}]
  /\ run \in [Conns -> {"new", "check", "read", "process", "exit", "finally",
                        "notify", "cleanup", "gone"}]
  /\ writing \in [Conns -> {"no", "write", "close", "notify", "wait"}]

(* The server with its threads, locks and sockets is the abstract broker:  *)
(* a frame is written or dropped, the handler closes once and disconnect   *)
(* runs once for it, whoever notices first.                                *)
ImplementsBroker == B!Spec

(* The server closes a connection whose client is alive only after it has  *)
(* written it the ERROR or the logout receipt; no failure of another       *)
(* client takes it down, and no final frame is lost on the way.            *)
OnlyFinalFrameCloses ==
  \A c \in Conns : ~sock[c] /\ peer[c] # "closed" =>
    \E i \in DOMAIN out[c] : B!IsFinal(c, i)

(* Every activation of disconnect(c) has returned, and so has run().       *)
Over(c) ==
  /\ run[c] = "gone"
  /\ disc[<<"process", c>>] = B!Returned
  /\ disc[<<"close", c>>] = B!Returned

(* However a connection ends, with its own thread and those of publishers  *)
(* closing it at the same time, no account stays online through it and no  *)
(* handler stays registered: its user is not locked out.                   *)
NoGhostSession ==
  Disciplined =>
    \A c \in Conns : Over(c) =>
      /\ c \notin clients
      /\ \A u \in Usernames :
           users[u] # NoUser /\ users[u].conn = c => ~users[u].online

(* However a connection ends, its subscriptions are deleted.               *)
NoGhostSubscription ==
  \A c \in Conns : Over(c) => \A ch \in Channels : subs[ch][c] = NoSub

(* A property of the broker, as the server inherits it.                    *)
OneSessionPerUser == B!OneSessionPerUser

(* A request is answered, or its connection closed, in the end: no thread  *)
(* waits for ever for the login monitor, for the lock on a stream or for a *)
(* disconnect another thread runs.                                         *)
RequestsFinish == \A c \in Conns : pc[c] = "handle" ~> pc[c] = "idle"

(* A client that goes away is removed from the registry in the end.        *)
DeadAreRemoved ==
  \A c \in Conns : peer[c] = "closed" ~> (c \notin clients)
============================================================================
