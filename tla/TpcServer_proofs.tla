-------------------------- MODULE TpcServer_proofs --------------------------
(***************************************************************************)
(* Proofs about the thread-per-client server, for any number of            *)
(* connections, users, channels and frames: it implements the broker, and  *)
(* so keeps the broker's promises; it closes a connection only after the   *)
(* final frame; and no session outlives its connection.                    *)
(***************************************************************************)
EXTENDS TpcServer, TLAPS, SequenceTheorems

(* The broker with the proofs about it, for the state of this server.      *)
P == INSTANCE BrokerMessages_proofs
       WITH closed <- [c \in Conns |-> ~connected[c] \/ ~sock[c]],
            owed <- [c \in Conns |-> {}]

LEMMA Assumptions == P!BrokerAssumption
  BY TpcAssumption DEF B!BrokerAssumption, B!Frame, P!BrokerAssumption, P!Frame

(***************************************************************************)
(* B is that broker too: the same definitions, for the same state.         *)
(***************************************************************************)
LEMMA SameState ==
  /\ B!NoPick = P!NoPick /\ B!Returned = P!Returned
  /\ B!Calls = P!Calls /\ B!vars = P!vars
  /\ B!Init <=> P!Init
  <1> USE DEF B!registryVars, P!registryVars, B!loopVars, P!loopVars,
      B!workerVars, P!workerVars, B!handlerVars, P!handlerVars, B!vars,
      P!vars, B!Calls, P!Calls, B!Returned, P!Returned, B!Entered, P!Entered,
      B!NoPick, P!NoPick, B!Init, P!Init
  <1> QED
    OBVIOUS

LEMMA SameActions ==
  /\ \A c \in Conns :
       /\ B!Accept(c) <=> P!Accept(c)
       /\ B!Handle(c) <=> P!Handle(c)
       /\ B!HandOver(c) <=> P!HandOver(c)
       /\ B!Reply(c) <=> P!Reply(c)
       /\ B!StartClose(c) <=> P!StartClose(c)
       /\ \A f \in Inputs[c] : B!Receive(c, f) <=> P!Receive(c, f)
  /\ \A k \in P!Calls : B!DisconnectStep(k) <=> P!DisconnectStep(k)
  /\ B!Next <=> P!Next
  <1> USE DEF B!registryVars, P!registryVars, B!loopVars, P!loopVars,
      B!workerVars, P!workerVars, B!handlerVars, P!handlerVars, B!vars,
      P!vars, B!Calls, P!Calls, B!Returned, P!Returned, B!Entered, P!Entered,
      B!NoPick, P!NoPick, B!Init, P!Init, B!Current, P!Current, B!Answer,
      P!Answer, B!Receipt, P!Receipt, B!Error, P!Error, B!Connected,
      P!Connected, B!Complete, P!Complete, B!Leave, P!Leave, B!Accept,
      P!Accept, B!Sent, P!Sent, B!Polite, P!Polite, B!Receive, P!Receive,
      B!Handling, P!Handling, B!Malformed, P!Malformed, B!Disconnect,
      P!Disconnect, B!Subscribe, P!Subscribe, B!Unsubscribe, P!Unsubscribe,
      B!Send, P!Send, B!Iterating, P!Iterating, B!Fanning, P!Fanning, B!Visit,
      P!Visit, B!LookUp, P!LookUp, B!FrameFor, P!FrameFor, B!HandOver,
      P!HandOver, B!FanoutDone, P!FanoutDone, B!EnterLogin, P!EnterLogin,
      B!LoginCheck, P!LoginCheck, B!LoginReturns, P!LoginReturns,
      B!LoginCreate, P!LoginCreate, B!LoginBind, P!LoginBind, B!LoginActivate,
      P!LoginActivate, B!Reply, P!Reply, B!RemoveClient, P!RemoveClient,
      B!CheckUser, P!CheckUser, B!ClearUser, P!ClearUser, B!RemoveSub,
      P!RemoveSub, B!Close, P!Close, B!StartClose, P!StartClose, B!Quiet,
      P!Quiet, B!Handle, P!Handle, B!DisconnectStep, P!DisconnectStep, B!Next,
      P!Next
  <1> QED
    OBVIOUS

(***************************************************************************)
(* The invariant of the threads.                                           *)
(***************************************************************************)
SocketsOK ==
  /\ connected \in [Conns -> BOOLEAN] /\ sock \in [Conns -> BOOLEAN]
  /\ peer \in [Conns -> {"none", "reading", "stalled", "closed"}]
  /\ run \in [Conns -> {"new", "check", "read", "process", "exit", "finally",
                        "notify", "cleanup", "gone"}]
  /\ writing \in [Conns -> {"no", "write", "close", "notify", "wait"}]

(* The thread of c is in process() or in its own send exactly when the     *)
(* broker's worker is busy; it is inside a send only with a frame to send, *)
(* and past a failed write only once it has cleared the receiver's flag.   *)
Placed(c) ==
  /\ run[c] = "new" <=> pc[c] = "off"
  /\ pc[c] = "off" => got[c] = <<>>
  /\ run[c] = "process" <=> pc[c] \notin {"off", "idle"}
  /\ writing[c] # "no" => MustSend(c)
  /\ writing[c] \in {"close", "notify", "wait"} => ~connected[Target(c)]

ThreadsOK == SocketsOK /\ \A c \in Conns : Placed(c)

BrokerOK == P!TypeOK /\ P!LoginOK /\ P!EntriesAsked /\ P!PendingAsked

brokerVars == <<registryVars, workerVars, notified, disc, out>>

(* send returns in the thread of t, whatever it found.                     *)
Returns(t) ==
  /\ MustSend(t) \/ Replying(t)
  /\ SendReturns(t)
  /\ UNCHANGED socketVars

StartsWrite(t) ==
  /\ MustSend(t) /\ writing[t] = "no"
  /\ writing' = [writing EXCEPT ![t] = "write"]
  /\ UNCHANGED <<brokerVars, socketVars, run>>

StartsNotify(t) ==
  /\ writing[t] = "notify"
  /\ writing' = [writing EXCEPT ![t] = "wait"]
  /\ P!StartClose(Target(t))
  /\ UNCHANGED <<socketVars, run>>

(* A step of run() itself that is neither of the above.                    *)
Runs(c) ==
  \/ LoopCheck(c) \/ ReadEnds(c) \/ CloseSocket(c) \/ ClearConnected(c)
  \/ NotifyOwn(c) \/ ThreadEnds(c)

PeerMove(c) == PeerStalls(c) \/ PeerResumes(c) \/ PeerDies(c)

(* What a thread must send, in the broker's terms.                         *)
LEMMA Sending ==
  ASSUME NEW t
  PROVE  /\ Replying(t) <=>
              pc[t] = "reply" /\ disc[<<"process", t>>] = P!Returned
         /\ MustSend(t) <=> \/ pick[t] # P!NoPick
                            \/ Replying(t) /\ answer[t] # <<>>
         /\ Target(t) = IF pick[t] # P!NoPick THEN pick[t].to ELSE t
  BY SameState DEF Replying, MustSend, Target

(* Who is sent a frame has a thread and has been heard from: subscribers   *)
(* have asked for it.                                                      *)
LEMMA TargetIsHere ==
  ASSUME BrokerOK, ThreadsOK, NEW t \in Conns, MustSend(t) \/ Replying(t)
  PROVE  /\ Target(t) \in Conns
         /\ got[Target(t)] # <<>> /\ pc[Target(t)] # "off"
  <1>1. CASE pick[t] # P!NoPick
    <2>1. pick[t] \in [to : Conns, sub : SubIds] /\ Target(t) = pick[t].to
      BY <1>1, Sending DEF BrokerOK, P!TypeOK, P!WorkerTypeOK
    <2>2. P!Subscribed(pick[t].to, P!Current(t).dest, pick[t].sub)
      BY <1>1 DEF BrokerOK, P!PendingAsked, P!Pending
    <2>3. \E k \in 1 .. Len(got[pick[t].to]) : TRUE
      BY <2>2 DEF P!Subscribed, P!Sent
    <2>4. got[pick[t].to] # <<>>
      BY <2>3
    <2> QED
      BY <2>1, <2>4 DEF ThreadsOK, Placed
  <1>2. CASE pick[t] = P!NoPick
    <2>1. Target(t) = t /\ pc[t] = "reply"
      BY <1>2, Sending
    <2> QED
      BY <2>1 DEF BrokerOK, P!TypeOK, P!PhaseOK
  <1> QED
    BY <1>1, <1>2

(* What a step of the server is.                                           *)
LEMMA Steps ==
  ASSUME BrokerOK, ThreadsOK, [Next]_vars
  PROVE  \/ \E c \in Conns :
              \/ Accept(c) \/ (\E f \in Inputs[c] : ReadFrame(c, f))
              \/ Process(c) \/ Returns(c) \/ StartsWrite(c) \/ WriteFails(c)
              \/ CloseTarget(c) \/ StartsNotify(c) \/ Runs(c) \/ PeerMove(c)
         \/ \E k \in P!Calls : DisconnectStep(k)
         \/ UNCHANGED vars
  <1>1. ASSUME NEW t \in Conns,
               NoResponse(t) \/ Write(t) \/ TargetForgotten(t)
        PROVE  Returns(t)
    BY <1>1 DEF NoResponse, Write, TargetForgotten, Returns, ThreadsOK, Placed
  <1>2. ASSUME NEW t \in Conns, SendEnter(t)
        PROVE  Returns(t) \/ StartsWrite(t)
    BY <1>2 DEF SendEnter, Returns, StartsWrite, brokerVars
  <1>3. ASSUME NEW t \in Conns, NotifyTarget(t)
        PROVE  Returns(t) \/ StartsNotify(t)
    <2>1. MustSend(t)
      BY <1>3 DEF NotifyTarget, ThreadsOK, Placed
    <2>2. Target(t) \in Conns
      BY <2>1, TargetIsHere
    <2> QED
      BY <1>3, <2>1, <2>2, SameActions DEF NotifyTarget, Returns, StartsNotify
  <1> QED
    BY <1>1, <1>2, <1>3, SameState DEF Next, Thread, Runs, PeerMove, AllQuiet

(***************************************************************************)
(* The server implements the broker.                                       *)
(***************************************************************************)

(* The flag and the socket of d are the abstract closed: the one that goes *)
(* first closes the handler of the broker, the other is a stutter.         *)
LEMMA CloseMaps ==
  ASSUME SocketsOK, NEW d \in Conns, pc[d] # "off", UNCHANGED brokerVars,
         \/ connected' = [connected EXCEPT ![d] = FALSE] /\ UNCHANGED sock
         \/ sock' = [sock EXCEPT ![d] = FALSE] /\ UNCHANGED connected
  PROVE  P!Close(d) \/ UNCHANGED P!vars
  <1> DEFINE closed == [c \in Conns |-> ~connected[c] \/ ~sock[c]]
             after == [c \in Conns |-> ~connected'[c] \/ ~sock'[c]]
  <1>1. after = [closed EXCEPT ![d] = TRUE]
    BY DEF SocketsOK
  <1>2. closed[d] => after = closed
    BY <1>1
  <1> HIDE DEF closed
  <1>3. CASE closed[d]
    BY <1>2, <1>3 DEF closed, brokerVars, registryVars, workerVars, P!vars
  <1>4. CASE ~closed[d]
    BY <1>1, <1>4 DEF closed, brokerVars, registryVars, workerVars, P!Close,
       P!registryVars, P!workerVars, P!loopVars
  <1> QED
    BY <1>3, <1>4

LEMMA StepMaps ==
  ASSUME BrokerOK, ThreadsOK, [Next]_vars
  PROVE  [P!Next]_P!vars
  <1>1. ASSUME UNCHANGED <<brokerVars, connected, sock>>
        PROVE  UNCHANGED P!vars
    BY <1>1 DEF brokerVars, registryVars, workerVars, P!vars
  <1>2. ASSUME NEW c \in Conns,
               \/ Accept(c) \/ (\E f \in Inputs[c] : ReadFrame(c, f))
               \/ Process(c) \/ Returns(c)
        PROVE  P!Next
    BY <1>2, SameActions
    DEF Accept, ReadFrame, Process, Returns, SendReturns, P!Next
  <1>3. ASSUME NEW c \in Conns, StartsWrite(c) \/ PeerMove(c)
        PROVE  UNCHANGED P!vars
    BY <1>1, <1>3 DEF StartsWrite, PeerMove, PeerStalls, PeerResumes, PeerDies,
       PeerMoves, brokerVars, socketVars
  <1>4. ASSUME NEW t \in Conns, WriteFails(t) \/ CloseTarget(t)
        PROVE  P!Next \/ UNCHANGED P!vars
    <2>1. MustSend(t)
      BY <1>4 DEF WriteFails, CloseTarget, ThreadsOK, Placed
    <2>2. Target(t) \in Conns /\ pc[Target(t)] # "off"
      BY <2>1, TargetIsHere
    <2> SUFFICES ASSUME NEW d \in Conns, d = Target(t)
                 PROVE  P!Next \/ UNCHANGED P!vars
      BY <2>2
    <2>3. /\ UNCHANGED brokerVars
          /\ \/ connected' = [connected EXCEPT ![d] = FALSE] /\ UNCHANGED sock
             \/ sock' = [sock EXCEPT ![d] = FALSE] /\ UNCHANGED connected
      BY <1>4 DEF WriteFails, CloseTarget, brokerVars
    <2>4. P!Close(d) \/ UNCHANGED P!vars
      BY <2>2, <2>3, CloseMaps DEF ThreadsOK
    <2> QED
      BY <2>4 DEF P!Next
  <1>5. ASSUME NEW c \in Conns, CloseSocket(c) \/ ClearConnected(c)
        PROVE  P!Next \/ UNCHANGED P!vars
    <2>1. pc[c] # "off"
      BY <1>5 DEF CloseSocket, ClearConnected, ThreadsOK, Placed
    <2>2. P!Close(c) \/ UNCHANGED P!vars
      BY <1>5, <2>1, CloseMaps
      DEF CloseSocket, ClearConnected, brokerVars, ThreadsOK
    <2> QED
      BY <2>2 DEF P!Next
  <1>6. ASSUME NEW t \in Conns, StartsNotify(t)
        PROVE  P!Next
    <2>1. Target(t) \in Conns
      BY <1>6, TargetIsHere DEF StartsNotify, ThreadsOK, Placed
    <2> QED
      BY <1>6, <2>1 DEF StartsNotify, P!Next
  <1>7. ASSUME NEW c \in Conns, LoopCheck(c) \/ ReadEnds(c) \/ ThreadEnds(c)
        PROVE  UNCHANGED P!vars
    BY <1>1, <1>7 DEF LoopCheck, ReadEnds, ThreadEnds, brokerVars, socketVars
  <1>8. ASSUME NEW c \in Conns, NotifyOwn(c)
        PROVE  P!Next \/ UNCHANGED P!vars
    BY <1>1, <1>8, SameActions DEF NotifyOwn, brokerVars, socketVars, P!Next
  <1>9. ASSUME NEW k \in P!Calls, DisconnectStep(k)
        PROVE  P!Next
    BY <1>9, SameActions DEF DisconnectStep, P!Next
  <1>10. CASE UNCHANGED vars
    BY <1>1, <1>10 DEF vars, brokerVars, registryVars, workerVars
  <1> QED
    BY <1>2, <1>3, <1>4, <1>5, <1>6, <1>7, <1>8, <1>9, <1>10, Steps DEF Runs

(* Flags are never set again, and the sockets have their types.            *)
LEMMA SocketsStay ==
  ASSUME BrokerOK, ThreadsOK, [Next]_vars
  PROVE  SocketsOK' /\ \A d \in Conns : ~connected[d] => ~connected'[d]
  <1> USE DEF SocketsOK, socketVars
  <1>1. SocketsOK
    BY DEF ThreadsOK
  <1>2. ASSUME NEW c \in Conns,
               Accept(c) \/ (\E f \in Inputs[c] : ReadFrame(c, f)) \/ Process(c)
        PROVE  SocketsOK' /\ UNCHANGED connected
    BY <1>1, <1>2 DEF Accept, ReadFrame, Process
  <1>3. ASSUME NEW c \in Conns, Returns(c) \/ StartsWrite(c) \/ StartsNotify(c)
        PROVE  SocketsOK' /\ UNCHANGED connected
    BY <1>1, <1>3 DEF Returns, SendReturns, StartsWrite, StartsNotify
  <1>4. ASSUME NEW c \in Conns, WriteFails(c) \/ CloseTarget(c)
        PROVE  SocketsOK' /\ \A d \in Conns : ~connected[d] => ~connected'[d]
    BY <1>1, <1>4 DEF WriteFails, CloseTarget
  <1>5. ASSUME NEW c \in Conns, Runs(c)
        PROVE  SocketsOK' /\ \A d \in Conns : ~connected[d] => ~connected'[d]
    BY <1>1, <1>5 DEF Runs, LoopCheck, ReadEnds, CloseSocket, ClearConnected,
       NotifyOwn, ThreadEnds
  <1>6. ASSUME NEW c \in Conns, PeerMove(c)
        PROVE  SocketsOK' /\ UNCHANGED connected
    BY <1>1, <1>6 DEF PeerMove, PeerStalls, PeerResumes, PeerDies, PeerMoves
  <1>7. ASSUME NEW k \in P!Calls, DisconnectStep(k)
        PROVE  SocketsOK' /\ UNCHANGED connected
    BY <1>1, <1>7 DEF DisconnectStep
  <1>8. CASE UNCHANGED vars
    BY <1>1, <1>8 DEF vars
  <1> QED
    BY <1>2, <1>3, <1>4, <1>5, <1>6, <1>7, <1>8, Steps

(* The step of another thread leaves a thread where it is.                 *)
LEMMA PlacedKept ==
  ASSUME BrokerOK, ThreadsOK, [Next]_vars, NEW c \in Conns,
         P!Untouched(c), run'[c] = run[c], writing'[c] = writing[c]
  PROVE  Placed(c)'
  <1>1. /\ pc'[c] = pc[c] /\ pick'[c] = pick[c] /\ answer'[c] = answer[c]
        /\ got'[c] = got[c]
        /\ disc'[<<"process", c>>] = disc[<<"process", c>>]
    BY DEF P!Untouched
  <1>2. MustSend(c)' <=> MustSend(c)
    BY <1>1 DEF MustSend, Replying
  <1>3. Target(c)' = Target(c)
    BY <1>1 DEF Target
  <1>4. writing[c] \in {"close", "notify", "wait"} => ~connected'[Target(c)]
    <2>1. MustSend(c) => Target(c) \in Conns
      BY TargetIsHere
    <2> QED
      BY <2>1, SocketsStay DEF ThreadsOK, Placed
  <1> QED
    BY <1>1, <1>2, <1>3, <1>4 DEF ThreadsOK, Placed

(* A step of sockets and clients alone.                                    *)
LEMMA BrokerRests ==
  ASSUME UNCHANGED brokerVars
  PROVE  \A d \in Conns : P!Untouched(d)
  BY DEF brokerVars, registryVars, workerVars, P!Untouched

(* Every step keeps the threads in their places.                           *)
LEMMA ThreadsStay ==
  ASSUME BrokerOK, ThreadsOK, [Next]_vars
  PROVE  ThreadsOK'
  <1> SUFFICES ASSUME NEW c \in Conns PROVE Placed(c)'
    BY SocketsStay DEF ThreadsOK
  <1>1. /\ SocketsOK /\ Placed(c) /\ P!TypeOK
        /\ pc \in [Conns -> P!PCs] /\ got \in [Conns -> Seq(P!Frame)]
        /\ DOMAIN pick = Conns /\ DOMAIN answer = Conns
        /\ \A d \in Conns : <<"process", d>> \in P!Calls
                            /\ <<"close", d>> \in P!Calls
    BY DEF ThreadsOK, BrokerOK, P!TypeOK, P!WorkerTypeOK, P!Calls
  <1>2. ASSUME NEW e \in Conns, Accept(e)
        PROVE  Placed(c)'
    <2>1. /\ run[e] = "new" /\ run' = [run EXCEPT ![e] = "check"]
          /\ pc[e] = "off" /\ pc' = [pc EXCEPT ![e] = "idle"]
          /\ UNCHANGED <<writing, connected, got, pick, answer, term, disc>>
      BY <1>2, SameActions DEF Accept, P!Accept, P!loopVars
    <2>2. CASE e = c
      <3>1. writing[c] = "no"
        <4>1. ~MustSend(c)
          BY <1>1, <2>1, <2>2, Sending DEF P!TypeOK, P!PhaseOK
        <4> QED
          BY <1>1, <4>1 DEF Placed
      <3> QED
        BY <1>1, <2>1, <2>2, <3>1 DEF Placed, SocketsOK
    <2>3. CASE e # c
      <3>1. P!Untouched(c) /\ run'[c] = run[c] /\ writing'[c] = writing[c]
        BY <1>1, <2>1, <2>3 DEF P!Untouched, SocketsOK
      <3> QED
        BY <3>1, PlacedKept
    <2> QED
      BY <2>2, <2>3
  <1>3. ASSUME NEW e \in Conns, NEW f \in Inputs[e], ReadFrame(e, f)
        PROVE  Placed(c)'
    <2>1. /\ run[e] = "read" /\ run' = [run EXCEPT ![e] = "process"]
          /\ pc[e] = "idle" /\ pc' = [pc EXCEPT ![e] = "handle"]
          /\ UNCHANGED <<writing, connected, pick, answer, term, disc>>
          /\ got' = [got EXCEPT ![e] = Append(@, f)]
      BY <1>3, SameActions DEF ReadFrame, P!Receive, P!loopVars, socketVars
    <2>2. CASE e = c
      <3>1. writing[c] = "no"
        <4>1. ~MustSend(c)
          BY <1>1, <2>1, <2>2, Sending DEF P!TypeOK, P!PhaseOK
        <4> QED
          BY <1>1, <4>1 DEF Placed
      <3> QED
        BY <1>1, <2>1, <2>2, <3>1 DEF Placed, SocketsOK
    <2>3. CASE e # c
      <3>1. P!Untouched(c) /\ run'[c] = run[c] /\ writing'[c] = writing[c]
        BY <1>1, <2>1, <2>3 DEF P!Untouched, SocketsOK
      <3> QED
        BY <3>1, PlacedKept
    <2> QED
      BY <2>2, <2>3
  <1>4. ASSUME NEW e \in Conns, Process(e)
        PROVE  Placed(c)'
    <2>1. P!Handle(e) /\ UNCHANGED <<run, writing, connected>>
      BY <1>4, SameActions DEF Process, socketVars
    <2>2. /\ pc[e] \notin {"off", "idle", "reply"}
          /\ pc'[e] \notin {"off", "idle"}
          /\ pick[e] # P!NoPick => pick'[e] = pick[e]
          /\ UNCHANGED got
          /\ \A d \in Conns \ {e} : P!Untouched(d)
      BY <1>1, <2>1, Assumptions, P!HandleMoves DEF P!handlerVars
    <2>3. CASE e = c
      <3>1. writing[c] # "no" => pick[c] # P!NoPick
        BY <1>1, <2>2, <2>3, Sending DEF Placed
      <3>2. pick[c] # P!NoPick => MustSend(c)' /\ Target(c)' = Target(c)
        BY <2>2, <2>3, SameState DEF MustSend, Target, P!NoPick
      <3> QED
        BY <1>1, <2>1, <2>2, <2>3, <3>1, <3>2 DEF Placed
    <2> QED
      BY <2>1, <2>2, <2>3, PlacedKept
  <1>5. ASSUME NEW e \in Conns, Returns(e)
        PROVE  Placed(c)'
    <2>1. /\ writing' = [writing EXCEPT ![e] = "no"]
          /\ \/ pick[e] # P!NoPick /\ UNCHANGED run /\ P!HandOver(e)
             \/ /\ pick[e] = P!NoPick /\ run' = [run EXCEPT ![e] = "check"]
                /\ P!Reply(e)
      BY <1>5, SameState, SameActions DEF Returns, SendReturns
    <2>2. CASE e # c
      <3>1. P!Untouched(c)
        BY <1>1, <2>1, <2>2 DEF P!HandOver, P!Reply, P!Untouched, P!loopVars
      <3> QED
        BY <1>1, <2>1, <2>2, <3>1, PlacedKept DEF SocketsOK
    <2>3. CASE e = c /\ pick[c] # P!NoPick
      <3>1. writing'[c] = "no" /\ UNCHANGED <<run, pc, got>>
        BY <1>1, <2>1, <2>3 DEF P!HandOver, SocketsOK
      <3> QED
        BY <1>1, <3>1 DEF Placed
    <2>4. CASE e = c /\ pick[c] = P!NoPick
      <3>1. /\ writing'[c] = "no" /\ run'[c] = "check" /\ pc'[c] = "idle"
        BY <1>1, <2>1, <2>4 DEF P!Reply, SocketsOK
      <3> QED
        BY <3>1 DEF Placed
    <2> QED
      BY <2>2, <2>3, <2>4
  <1>6. ASSUME NEW e \in Conns, StartsWrite(e)
        PROVE  Placed(c)'
    <2>1. P!Untouched(c) /\ run' = run
      BY <1>6, BrokerRests DEF StartsWrite
    <2>2. CASE e = c
      <3>1. /\ MustSend(c)' /\ writing'[c] = "write"
            /\ UNCHANGED <<pc, got>>
        BY <1>1, <1>6, <2>2 DEF StartsWrite, SocketsOK, brokerVars,
           registryVars, workerVars, MustSend, Replying
      <3> QED
        BY <1>1, <2>1, <3>1 DEF Placed
    <2>3. CASE e # c
      <3>1. writing'[c] = writing[c]
        BY <1>1, <1>6, <2>3 DEF StartsWrite, SocketsOK
      <3> QED
        BY <2>1, <3>1, PlacedKept
    <2> QED
      BY <2>2, <2>3
  <1>7. ASSUME NEW e \in Conns,
               WriteFails(e) \/ CloseTarget(e) \/ StartsNotify(e)
        PROVE  Placed(c)'
    <2>1. /\ writing[e] \in {"write", "close", "notify"}
          /\ \E w \in {"close", "notify", "wait"} :
               writing' = [writing EXCEPT ![e] = w]
          /\ WriteFails(e) => connected' = [connected EXCEPT ![Target(e)] = FALSE]
          /\ ~WriteFails(e) => UNCHANGED connected
          /\ UNCHANGED run
      BY <1>7 DEF WriteFails, CloseTarget, StartsNotify, socketVars
    <2>2. MustSend(e) /\ Target(e) \in Conns
      BY <2>1, TargetIsHere DEF ThreadsOK, Placed
    <2>3. ~connected'[Target(e)]
      <3>1. ~WriteFails(e) => writing[e] \in {"close", "notify"}
        BY <1>7 DEF CloseTarget, StartsNotify
      <3> QED
        BY <1>1, <2>1, <2>2, <3>1 DEF SocketsOK, ThreadsOK, Placed
    <2>4. UNCHANGED <<pc, pick, answer, got, term>> /\ P!Untouched(c)
          /\ disc'[<<"process", e>>] = disc[<<"process", e>>]
      <3>1. CASE WriteFails(e) \/ CloseTarget(e)
        BY <3>1 DEF WriteFails, CloseTarget, workerVars, P!Untouched
      <3>2. CASE StartsNotify(e)
        BY <1>1, <3>2 DEF StartsNotify, P!StartClose, P!Untouched, P!TypeOK,
           P!DisconnectTypeOK, P!workerVars, P!loopVars
      <3> QED
        BY <1>7, <3>1, <3>2
    <2>5. CASE e = c
      <3>1. MustSend(c)' /\ Target(c)' = Target(c)
        BY <2>2, <2>4, <2>5 DEF MustSend, Replying, Target
      <3> QED
        BY <1>1, <2>1, <2>3, <2>4, <2>5, <3>1 DEF Placed
    <2>6. CASE e # c
      BY <1>1, <2>1, <2>4, <2>6, PlacedKept DEF SocketsOK
    <2> QED
      BY <2>5, <2>6
  <1>8. ASSUME NEW e \in Conns, Runs(e)
        PROVE  Placed(c)'
    <2>1. /\ UNCHANGED <<pc, pick, answer, got, term, writing>>
          /\ P!Untouched(c)
      <3>1. CASE NotifyOwn(e)
        BY <1>1, <3>1, SameActions DEF NotifyOwn, P!StartClose, P!Untouched,
           P!TypeOK, P!DisconnectTypeOK, P!workerVars, P!loopVars, workerVars
      <3>2. CASE ~NotifyOwn(e)
        BY <1>8, <3>2 DEF Runs, LoopCheck, ReadEnds, CloseSocket,
           ClearConnected, ThreadEnds, workerVars, P!Untouched
      <3> QED
        BY <3>1, <3>2
    <2>2. /\ run[e] \notin {"new", "process"}
          /\ \E r : /\ run' = [run EXCEPT ![e] = r]
                    /\ r \notin {"new", "process"}
      BY <1>8 DEF Runs, LoopCheck, ReadEnds, CloseSocket, ClearConnected,
         NotifyOwn, ThreadEnds
    <2>3. CASE e = c
      <3>1. pc[c] = "idle"
        BY <1>1, <2>2, <2>3 DEF Placed
      <3>2. ~MustSend(c)
        BY <1>1, <3>1, Sending DEF P!TypeOK, P!PhaseOK
      <3>3. writing'[c] = "no" /\ pc'[c] = "idle"
        BY <1>1, <2>1, <3>1, <3>2 DEF Placed
      <3> QED
        BY <1>1, <2>2, <2>3, <3>3 DEF Placed, SocketsOK
    <2>4. CASE e # c
      BY <1>1, <2>1, <2>2, <2>4, PlacedKept DEF SocketsOK
    <2> QED
      BY <2>3, <2>4
  <1>9. ASSUME NEW e \in Conns, PeerMove(e)
        PROVE  Placed(c)'
    BY <1>9, BrokerRests, PlacedKept DEF PeerMove, PeerStalls, PeerResumes,
       PeerDies, PeerMoves, brokerVars
  <1>10. ASSUME NEW k \in P!Calls, DisconnectStep(k)
         PROVE  Placed(c)'
    <2>1. P!DisconnectStep(k) /\ UNCHANGED <<run, writing, connected>>
      BY <1>10, SameActions DEF DisconnectStep, socketVars
    <2>2. /\ disc[k] # P!Returned
          /\ \A j \in P!Calls \ {k} : disc'[j] = disc[j]
          /\ UNCHANGED <<pc, got, answer, pick, term>>
      BY <1>1, <2>1, Assumptions, P!DisconnectMoves
    <2>3. MustSend(c) => MustSend(c)' /\ Target(c)' = Target(c)
      BY <1>1, <2>2, SameState DEF MustSend, Replying, Target, P!NoPick, P!Returned
    <2> QED
      BY <1>1, <2>1, <2>2, <2>3 DEF Placed
  <1>11. CASE UNCHANGED vars
    BY <1>11, BrokerRests, PlacedKept
    DEF vars, brokerVars, registryVars, workerVars
  <1> QED
    BY <1>2, <1>3, <1>4, <1>5, <1>6, <1>7, <1>8, <1>9, <1>10, <1>11, Steps

(* The joint invariant of the broker and the threads.                      *)
LEMMA ThreadsHold == Spec => [](BrokerOK /\ ThreadsOK)
  <1>1. Init => BrokerOK /\ ThreadsOK
    <2>1. Init => BrokerOK
      BY Assumptions, SameState, P!LoginsStart, P!AskedStart
      DEF Init, BrokerOK
    <2>2. Init => ThreadsOK
      BY SameState DEF Init, P!Init, ThreadsOK, SocketsOK, Placed
    <2> QED
      BY <2>1, <2>2
  <1>2. BrokerOK /\ ThreadsOK /\ [Next]_vars => BrokerOK' /\ ThreadsOK'
    <2> SUFFICES ASSUME BrokerOK, ThreadsOK, [Next]_vars
                 PROVE  BrokerOK' /\ ThreadsOK'
      OBVIOUS
    <2>1. [P!Next]_P!vars
      BY StepMaps
    <2>2. P!TypeOK' /\ P!LoginOK'
      BY <2>1, Assumptions, P!LoginsStay DEF BrokerOK
    <2>3. P!EntriesAsked' /\ P!PendingAsked'
      BY <2>1, <2>2, Assumptions, P!StepAsked DEF BrokerOK
    <2> QED
      BY <2>2, <2>3, ThreadsStay DEF BrokerOK
  <1> QED
    BY <1>1, <1>2, PTL DEF Spec

(* The broker in the vocabulary of its proofs.                             *)
LEMMA BrokerRuns == Spec => P!Spec
  <1>1. Init => P!Init
    BY SameState DEF Init
  <1>2. BrokerOK /\ ThreadsOK /\ [Next]_vars => [P!Next]_P!vars
    BY StepMaps
  <1> QED
    BY <1>1, <1>2, ThreadsHold, PTL DEF Spec, P!Spec

(* The server with its threads, locks and sockets, for any number of       *)
(* connections, is the abstract broker (ImplementsBroker): a frame is      *)
(* written or dropped, a handler closes once, and disconnect runs once for *)
(* it, whoever notices first that the client has gone.                     *)
THEOREM TpcImplementsBroker == Spec => ImplementsBroker
  <1>1. /\ P!Init => B!Init
        /\ [P!Next]_P!vars => [B!Next]_B!vars
    BY SameState, SameActions DEF B!vars, P!vars
  <1> QED
    BY <1>1, BrokerRuns, PTL DEF P!Spec, B!Spec, ImplementsBroker

(* What the broker promises of its replies and messages, the server keeps: *)
(* B!FinalReplyMeansForgotten, B!ConnectedKnowsPassword,                   *)
(* B!MessageIdNamesSend, B!PublisherOrder, B!MessageIsAddressed,           *)
(* B!AtMostOneStray, with a write that blocks, fails or closes another     *)
(* connection where the broker has a single step.                          *)
THEOREM TpcKeepsPromises ==
  Spec => [](/\ B!FinalReplyMeansForgotten /\ B!ConnectedKnowsPassword
             /\ B!MessageIdNamesSend /\ B!PublisherOrder
             /\ B!MessageIsAddressed /\ B!AtMostOneStray)
  <1>1. P!FinalReplyMeansForgotten => B!FinalReplyMeansForgotten
    BY DEF P!FinalReplyMeansForgotten, B!FinalReplyMeansForgotten, P!IsFinal,
       B!IsFinal, P!Forgotten, B!Forgotten
  <1>2. P!ConnectedKnowsPassword => B!ConnectedKnowsPassword
    BY DEF P!ConnectedKnowsPassword, B!ConnectedKnowsPassword
  <1>3. /\ P!MessageIdNamesSend => B!MessageIdNamesSend
        /\ P!PublisherOrder => B!PublisherOrder
    BY DEF P!MessageIdNamesSend, B!MessageIdNamesSend, P!PublisherOrder,
       B!PublisherOrder, P!IsMessage, B!IsMessage
  <1>4. P!MessageIsAddressed => B!MessageIsAddressed
    BY DEF P!MessageIsAddressed, B!MessageIsAddressed, P!IsMessage,
       B!IsMessage, P!Sent, B!Sent
  <1>5. P!AtMostOneStray => B!AtMostOneStray
    BY DEF P!AtMostOneStray, B!AtMostOneStray, P!Strays, B!Strays, P!Ends,
       B!Ends, P!IsMessage, B!IsMessage, P!Sent, B!Sent
  <1>6. P!Spec => /\ []P!FinalReplyMeansForgotten /\ []P!ConnectedKnowsPassword
                  /\ []P!MessageIdNamesSend /\ []P!PublisherOrder
                  /\ []P!MessageIsAddressed /\ []P!AtMostOneStray
    BY Assumptions, P!FinalReplyHolds, P!ConnectedHolds, P!MessageIdsHold,
       P!OrderHolds, P!AddressesHold, P!OneStrayHolds
  <1> QED
    BY <1>1, <1>2, <1>3, <1>4, <1>5, <1>6, BrokerRuns, PTL

(* The variables of the server keep their types (TypeOK).                  *)
THEOREM TpcTypesHold == Spec => []TypeOK
  <1>1. P!TypeOK => B!TypeOK
    BY SameState
    DEF P!TypeOK, B!TypeOK, P!RegistryTypeOK, B!RegistryTypeOK,
        P!WorkerTypeOK, B!WorkerTypeOK, P!HandlerTypeOK, B!HandlerTypeOK,
        P!DisconnectTypeOK, B!DisconnectTypeOK, P!PhaseOK, B!PhaseOK,
        P!Account, B!Account, P!PCs, B!PCs, P!Frame, B!Frame, P!ReplyFrame,
        B!ReplyFrame, P!MessageFrame, B!MessageFrame, P!Activation,
        B!Activation, P!Current, B!Current
  <1>2. BrokerOK /\ ThreadsOK => TypeOK
    BY <1>1 DEF BrokerOK, ThreadsOK, SocketsOK, TypeOK
  <1> QED
    BY <1>2, ThreadsHold, PTL

(***************************************************************************)
(* Only the final frame, or the end of the client, closes a connection.    *)
(***************************************************************************)
Closable(c) == peer[c] = "closed" \/ P!FinalWritten(c)

(* A connection whose flag or socket is gone, or whose read loop has       *)
(* ended, was allowed to close; and once shouldTerminate is set the thread *)
(* has the final frame to send, or has sent it.                            *)
Finishing(c) ==
  /\ ~connected[c] \/ ~sock[c] => Closable(c)
  /\ run[c] \in {"exit", "finally", "notify", "cleanup", "gone"} => Closable(c)
  /\ peer[c] # "none" => pc[c] # "off"
  /\ run[c] = "read" => ~term[c]
  /\ term[c] => \/ pc[c] = "reply" /\ P!FinalReturned(c)
                \/ pc[c] = "idle" /\ Closable(c)

FinishingOK == \A c \in Conns : Finishing(c)

(* What allows a connection to close stays.                                *)
LEMMA ClosableKept ==
  ASSUME BrokerOK, ThreadsOK, P!RepliesOK, [Next]_vars, NEW c \in Conns,
         Closable(c), Finishing(c)
  PROVE  Closable(c)'
  <1>1. P!FinalWritten(c) => P!FinalWritten(c)'
    BY StepMaps, Assumptions, P!FinalKept DEF BrokerOK
  <1>2. peer[c] = "closed" => peer'[c] = "closed"
    <2>1. peer[c] = "closed" => pc[c] # "off"
      BY DEF Finishing
    <2>2. peer \in [Conns -> {"none", "reading", "stalled", "closed"}]
          /\ \A e \in Conns : run[e] = "new" => pc[e] = "off"
      BY DEF ThreadsOK, SocketsOK, Placed
    <2> QED
      BY <2>1, <2>2, Steps
      DEF Accept, ReadFrame, Process, Returns, StartsWrite, WriteFails,
          CloseTarget, StartsNotify, Runs, LoopCheck, ReadEnds, CloseSocket,
          ClearConnected, NotifyOwn, ThreadEnds, PeerMove, PeerStalls,
          PeerResumes, PeerDies, PeerMoves, DisconnectStep, vars, socketVars
  <1> QED
    BY <1>1, <1>2 DEF Closable

(* The worker of c, and its thread as far as Finishing reads it, rest.     *)
LEMMA FinishingKept ==
  ASSUME BrokerOK, ThreadsOK, P!RepliesOK, [Next]_vars, NEW c \in Conns,
         Finishing(c), P!Untouched(c), run'[c] = run[c],
         connected'[c] = connected[c] \/ Closable(c),
         sock'[c] = sock[c] \/ Closable(c),
         peer'[c] = "none" \/ peer[c] # "none"
  PROVE  Finishing(c)'
  <1>1. Closable(c) => Closable(c)'
    BY ClosableKept
  <1>2. /\ pc'[c] = pc[c] /\ term'[c] = term[c] /\ answer'[c] = answer[c]
    BY DEF P!Untouched
  <1>3. P!FinalReturned(c) => P!FinalReturned(c)'
    BY <1>2, StepMaps, Assumptions, P!FinalKept DEF BrokerOK
  <1> QED
    BY <1>1, <1>2, <1>3 DEF Finishing

LEMMA FinishingStays ==
  ASSUME BrokerOK, ThreadsOK, P!RepliesOK, FinishingOK, [Next]_vars
  PROVE  FinishingOK'
  <1> SUFFICES ASSUME NEW c \in Conns PROVE Finishing(c)'
    BY DEF FinishingOK
  <1>1. /\ SocketsOK /\ Placed(c) /\ P!TypeOK /\ Finishing(c)
        /\ pc \in [Conns -> P!PCs] /\ DOMAIN got = Conns
        /\ DOMAIN pick = Conns /\ DOMAIN answer = Conns
        /\ \A d \in Conns : <<"process", d>> \in P!Calls
                            /\ <<"close", d>> \in P!Calls
    BY DEF ThreadsOK, BrokerOK, P!TypeOK, P!WorkerTypeOK, P!Calls, FinishingOK
  <1>2. Closable(c) => Closable(c)'
    BY <1>1, ClosableKept
  <1>3. ASSUME NEW e \in Conns, Accept(e)
        PROVE  Finishing(c)'
    <2>1. /\ run[e] = "new" /\ run' = [run EXCEPT ![e] = "check"]
          /\ pc[e] = "off" /\ pc' = [pc EXCEPT ![e] = "idle"]
          /\ peer' = [peer EXCEPT ![e] = "reading"]
          /\ UNCHANGED <<connected, sock, got, pick, answer, term, disc>>
      BY <1>3, SameActions DEF Accept, P!Accept, P!loopVars
    <2>2. CASE e = c
      BY <1>1, <1>2, <2>1, <2>2 DEF Finishing, SocketsOK
    <2>3. CASE e # c
      <3>1. P!Untouched(c) /\ run'[c] = run[c] /\ peer'[c] = peer[c]
        BY <1>1, <2>1, <2>3 DEF P!Untouched, SocketsOK
      <3> QED
        BY <1>1, <2>1, <3>1, FinishingKept
    <2> QED
      BY <2>2, <2>3
  <1>4. ASSUME NEW e \in Conns, NEW f \in Inputs[e], ReadFrame(e, f)
        PROVE  Finishing(c)'
    <2>1. /\ run[e] = "read" /\ run' = [run EXCEPT ![e] = "process"]
          /\ pc[e] = "idle" /\ pc' = [pc EXCEPT ![e] = "handle"]
          /\ UNCHANGED <<peer, connected, sock, pick, answer, term, disc>>
          /\ got' = [got EXCEPT ![e] = Append(@, f)]
      BY <1>4, SameActions DEF ReadFrame, P!Receive, P!loopVars, socketVars
    <2>2. CASE e = c
      BY <1>1, <1>2, <2>1, <2>2 DEF Finishing, SocketsOK
    <2>3. CASE e # c
      <3>1. P!Untouched(c) /\ run'[c] = run[c]
        BY <1>1, <2>1, <2>3 DEF P!Untouched, SocketsOK
      <3> QED
        BY <1>1, <2>1, <3>1, FinishingKept
    <2> QED
      BY <2>2, <2>3
  <1>5. ASSUME NEW e \in Conns, Process(e)
        PROVE  Finishing(c)'
    <2>1. P!Handle(e) /\ UNCHANGED <<run, peer, connected, sock>>
      BY <1>5, SameActions DEF Process, socketVars
    <2>2. /\ pc[e] \notin {"off", "idle", "reply"}
          /\ pc'[e] \notin {"off", "idle"}
          /\ UNCHANGED got
          /\ \A d \in Conns \ {e} : P!Untouched(d)
          /\ term'[e] =>
               \/ term[e]
               \/ /\ pc'[e] = "reply"
                  /\ \E i \in DOMAIN answer'[e] : P!Finishes(e, answer'[e][i])
      BY <1>1, <2>1, Assumptions, P!HandleMoves DEF P!handlerVars
    <2>3. CASE e = c
      <3>1. term'[c] => pc'[c] = "reply" /\ P!FinalReturned(c)'
        BY <1>1, <2>2, <2>3 DEF Finishing, P!FinalReturned, P!Finishes
      <3>2. run[c] = "process"
        BY <1>1, <2>2, <2>3 DEF Placed
      <3> QED
        BY <1>1, <1>2, <2>1, <2>2, <2>3, <3>1, <3>2 DEF Finishing
    <2>4. CASE e # c
      BY <1>1, <2>1, <2>2, <2>4, FinishingKept
    <2> QED
      BY <2>3, <2>4
  <1>6. ASSUME NEW e \in Conns, Returns(e)
        PROVE  Finishing(c)'
    <2>1. /\ UNCHANGED <<peer, connected, sock>>
          /\ \/ pick[e] # P!NoPick /\ UNCHANGED run /\ P!HandOver(e)
             \/ /\ pick[e] = P!NoPick /\ run' = [run EXCEPT ![e] = "check"]
                /\ P!Reply(e)
      BY <1>6, SameState, SameActions DEF Returns, SendReturns, socketVars
    <2>2. CASE e # c
      <3>1. P!Untouched(c) /\ run'[c] = run[c]
        BY <1>1, <2>1, <2>2
        DEF P!HandOver, P!Reply, P!Untouched, P!loopVars, SocketsOK
      <3> QED
        BY <1>1, <2>1, <3>1, FinishingKept
    <2>3. CASE e = c /\ P!HandOver(c) /\ UNCHANGED run
      <3>1. UNCHANGED <<pc, answer, term>>
        BY <2>3 DEF P!HandOver
      <3>2. P!FinalReturned(c) => P!FinalReturned(c)'
        BY <3>1, StepMaps, Assumptions, P!FinalKept DEF BrokerOK
      <3> QED
        BY <1>1, <1>2, <2>1, <2>3, <3>1, <3>2 DEF Finishing
    <2>4. CASE e = c /\ P!Reply(c) /\ run' = [run EXCEPT ![c] = "check"]
      <3>1. /\ run'[c] = "check" /\ pc'[c] = "idle" /\ pc[c] = "reply"
            /\ term' = term
        BY <1>1, <2>4 DEF P!Reply, SocketsOK
      <3>2. term[c] => Closable(c)'
        <4>1. CASE ~connected[c] \/ ~sock[c]
          BY <1>1, <1>2, <4>1 DEF Finishing
        <4>2. CASE connected[c] /\ sock[c]
          <5>1. term[c] => P!FinalReturned(c)
            BY <1>1, <3>1 DEF Finishing
          <5>2. P!FinalReturned(c) => P!FinalWritten(c)'
            BY <2>4, <4>2, StepMaps, Assumptions, P!FinalKept DEF BrokerOK
          <5> QED
            BY <5>1, <5>2 DEF Closable
        <4> QED
          BY <4>1, <4>2
      <3> QED
        BY <1>1, <1>2, <2>1, <3>1, <3>2 DEF Finishing
    <2> QED
      BY <2>1, <2>2, <2>3, <2>4
  <1>7. ASSUME NEW e \in Conns,
               \/ StartsWrite(e) \/ WriteFails(e) \/ CloseTarget(e)
               \/ StartsNotify(e)
        PROVE  Finishing(c)'
    <2>1. /\ UNCHANGED <<peer, run>>
          /\ connected' \in {connected, [connected EXCEPT ![Target(e)] = FALSE]}
          /\ sock' \in {sock, [sock EXCEPT ![Target(e)] = FALSE]}
          /\ WriteFails(e) \/ connected' = connected
          /\ CloseTarget(e) \/ sock' = sock
      BY <1>7 DEF StartsWrite, WriteFails, CloseTarget, StartsNotify, socketVars
    <2>2. MustSend(e) /\ Target(e) \in Conns
      <3>1. MustSend(e)
        BY <1>7 DEF StartsWrite, WriteFails, CloseTarget, StartsNotify,
           ThreadsOK, Placed
      <3> QED
        BY <3>1, TargetIsHere
    <2>3. WriteFails(e) \/ CloseTarget(e) => Closable(Target(e))
      <3>1. CASE WriteFails(e)
        BY <2>2, <3>1 DEF WriteFails, FinishingOK, Finishing, Closable
      <3>2. CASE CloseTarget(e)
        <4>1. ~connected[Target(e)]
          BY <3>2 DEF CloseTarget, ThreadsOK, Placed
        <4> QED
          BY <2>2, <4>1 DEF FinishingOK, Finishing
      <3> QED
        BY <3>1, <3>2
    <2>4. /\ connected'[c] = connected[c] \/ Closable(c)
          /\ sock'[c] = sock[c] \/ Closable(c)
      BY <1>1, <2>1, <2>2, <2>3 DEF SocketsOK
    <2>5. P!Untouched(c)
      <3>1. CASE StartsNotify(e)
        BY <1>1, <3>1 DEF StartsNotify, P!StartClose, P!Untouched,
           P!TypeOK, P!DisconnectTypeOK, P!workerVars, P!loopVars
      <3>2. CASE ~StartsNotify(e)
        BY <1>7, <3>2, BrokerRests
        DEF StartsWrite, WriteFails, CloseTarget, brokerVars
      <3> QED
        BY <3>1, <3>2
    <2> QED
      BY <1>1, <2>1, <2>4, <2>5, FinishingKept
  <1>8. ASSUME NEW e \in Conns, Runs(e)
        PROVE  Finishing(c)'
    <2>1. P!Untouched(c) /\ peer' = peer /\ pc' = pc /\ term' = term
      <3>1. CASE NotifyOwn(e)
        BY <1>1, <3>1, SameActions DEF NotifyOwn, P!StartClose, P!Untouched,
           P!TypeOK, P!DisconnectTypeOK, P!workerVars, P!loopVars, workerVars,
           socketVars
      <3>2. CASE ~NotifyOwn(e)
        BY <1>8, <3>2 DEF Runs, LoopCheck, ReadEnds, CloseSocket,
           ClearConnected, ThreadEnds, workerVars, socketVars, P!Untouched
      <3> QED
        BY <3>1, <3>2
    <2>2. /\ \E r : run' = [run EXCEPT ![e] = r]
          /\ connected' \in {connected, [connected EXCEPT ![e] = FALSE]}
          /\ sock' \in {sock, [sock EXCEPT ![e] = FALSE]}
      BY <1>8 DEF Runs, LoopCheck, ReadEnds, CloseSocket, ClearConnected,
         NotifyOwn, ThreadEnds, socketVars
    <2>3. CASE e # c
      <3>1. run'[c] = run[c] /\ connected'[c] = connected[c] /\ sock'[c] = sock[c]
        BY <1>1, <2>2, <2>3 DEF SocketsOK
      <3> QED
        BY <1>1, <2>1, <3>1, FinishingKept
    <2>4. CASE e = c
      <3>1. pc[c] = "idle"
        BY <1>1, <1>8, <2>4 DEF Placed, Runs, LoopCheck, ReadEnds, CloseSocket,
           ClearConnected, NotifyOwn, ThreadEnds
      <3>2. CASE LoopCheck(c)
        BY <1>1, <1>2, <2>1, <3>1, <3>2
        DEF LoopCheck, Finishing, SocketsOK, socketVars
      <3>3. CASE ReadEnds(c)
        BY <1>1, <1>2, <2>1, <3>1, <3>3
        DEF ReadEnds, Finishing, SocketsOK, socketVars, Closable
      <3>4. CASE CloseSocket(c) \/ ClearConnected(c) \/ NotifyOwn(c) \/ ThreadEnds(c)
        <4>1. /\ run[c] \in {"exit", "finally", "notify", "cleanup"}
              /\ run'[c] # "read"
          BY <1>1, <3>4 DEF CloseSocket, ClearConnected, NotifyOwn, ThreadEnds,
             SocketsOK
        <4>2. Closable(c)'
          BY <1>1, <1>2, <4>1 DEF Finishing
        <4> QED
          BY <1>1, <2>1, <3>1, <4>1, <4>2 DEF Finishing
      <3> QED
        BY <1>8, <2>4, <3>2, <3>3, <3>4 DEF Runs
    <2> QED
      BY <2>3, <2>4
  <1>9. ASSUME NEW e \in Conns, PeerMove(e)
        PROVE  Finishing(c)'
    <2>1. /\ P!Untouched(c) /\ UNCHANGED <<run, connected, sock>>
          /\ peer[e] # "none" /\ \E p : peer' = [peer EXCEPT ![e] = p]
      BY <1>9, BrokerRests DEF PeerMove, PeerStalls, PeerResumes, PeerDies,
         PeerMoves, brokerVars
    <2> QED
      BY <1>1, <2>1, FinishingKept DEF SocketsOK
  <1>10. ASSUME NEW k \in P!Calls, DisconnectStep(k)
         PROVE  Finishing(c)'
    <2>1. P!DisconnectStep(k) /\ UNCHANGED <<run, connected, sock, peer>>
      BY <1>10, SameActions DEF DisconnectStep, socketVars
    <2>2. UNCHANGED <<pc, answer, term>>
      BY <1>1, <2>1, Assumptions, P!DisconnectMoves
    <2>3. P!FinalReturned(c) => P!FinalReturned(c)'
      BY <2>2, StepMaps, Assumptions, P!FinalKept DEF BrokerOK
    <2> QED
      BY <1>1, <1>2, <2>1, <2>2, <2>3 DEF Finishing
  <1>11. CASE UNCHANGED vars
    BY <1>1, <1>11, BrokerRests, FinishingKept
    DEF vars, brokerVars, registryVars, workerVars
  <1> QED
    BY <1>3, <1>4, <1>5, <1>6, <1>7, <1>8, <1>9, <1>10, <1>11, Steps

(* The server closes a connection whose client is alive only after it has  *)
(* written it the final frame (OnlyFinalFrameCloses): no failure of        *)
(* another client takes it down, and no final frame is lost on the way.    *)
THEOREM FinalFrameCloses == Spec => []OnlyFinalFrameCloses
  <1>1. Init => FinishingOK
    BY SameState DEF Init, P!Init, FinishingOK, Finishing
  <1>2. /\ BrokerOK /\ ThreadsOK /\ P!RepliesOK /\ FinishingOK /\ [Next]_vars
        => FinishingOK'
    BY FinishingStays
  <1>3. FinishingOK => OnlyFinalFrameCloses
    BY DEF FinishingOK, Finishing, Closable, P!FinalWritten, P!Finishes,
       OnlyFinalFrameCloses, B!IsFinal
  <1>4. Spec => []P!RepliesOK
    <2>1. P!Spec => []P!EndedOK
      BY Assumptions, P!EndedHolds
    <2>2. P!EndedOK => P!RepliesOK
      BY DEF P!EndedOK
    <2> QED
      BY <2>1, <2>2, BrokerRuns, PTL
  <1> QED
    BY <1>1, <1>2, <1>3, <1>4, ThreadsHold, PTL DEF Spec

(***************************************************************************)
(* No session outlives its connection.                                     *)
(***************************************************************************)

(* The handler calls disconnect once, before its thread is over.  From     *)
(* then on the connection does not log in: either its thread has left the  *)
(* read loop or it has logged in before, and a client does so only once;   *)
(* so what disconnect has cleared stays cleared.                           *)
Ended(c) ==
  /\ ~notified[c] => disc[<<"close", c>>] = P!Returned
  /\ run[c] \in {"cleanup", "gone"} => notified[c]
  /\ notified[c] =>
       /\ P!LoggedOutBy(c, disc[<<"close", c>>])
       /\ run[c] \in {"cleanup", "gone"} \/ got[c] # <<>>
       /\ pc[c] \in {"idle", "reply"} \/ Len(got[c]) > 1

EndedOK == \A c \in Conns : Ended(c)

(* A subscriber has sent two frames at least, the first to log in.         *)
LEMMA TargetHasJoined ==
  ASSUME BrokerOK, ThreadsOK, P!LoginFirst, NEW t \in Conns, MustSend(t),
         NEW c \in Conns, c = Target(t)
  PROVE  /\ got[c] # <<>>
         /\ pc[c] \in {"idle", "reply"} \/ Len(got[c]) > 1
  <1>1. got[c] # <<>> /\ got[c] \in Seq(P!Frame)
    BY TargetIsHere DEF BrokerOK, P!TypeOK, P!WorkerTypeOK
  <1>2. CASE pick[t] # P!NoPick
    <2>1. c = pick[t].to
      BY <1>2, Sending
    <2>2. P!Subscribed(c, P!Current(t).dest, pick[t].sub)
      BY <1>2, <2>1 DEF BrokerOK, P!PendingAsked, P!Pending
    <2>3. PICK k \in 1 .. Len(got[c]) : got[c][k].cmd = "SUBSCRIBE"
      BY <2>2 DEF P!Subscribed, P!Sent
    <2>4. k # 1
      BY <2>3 DEF P!LoginFirst
    <2>5. Len(got[c]) > 1
      BY <1>1, <2>3, <2>4
    <2> QED
      BY <1>1, <2>5
  <1>3. CASE pick[t] = P!NoPick
    BY <1>1, <1>3, Sending
  <1> QED
    BY <1>2, <1>3

(* How the end of a thread, its frames and its handler's disconnect go     *)
(* together.                                                               *)
LEMMA EndSteps ==
  ASSUME BrokerOK, ThreadsOK, [Next]_vars, NEW c \in Conns
  PROVE  /\ got'[c] # got[c] => run[c] = "read"
         /\ run[c] \in {"cleanup", "gone"} => run'[c] \in {"cleanup", "gone"}
         /\ run'[c] \in {"cleanup", "gone"} =>
              run[c] \in {"cleanup", "gone"} \/ notified'[c]
         /\ notified'[c] # notified[c] =>
              /\ UNCHANGED <<got, pc>>
              /\ \/ run'[c] = "cleanup" /\ pc[c] = "idle"
                 \/ \E t \in Conns : MustSend(t) /\ c = Target(t)
  <1>1. /\ SocketsOK /\ Placed(c) /\ P!TypeOK
        /\ DOMAIN got = Conns /\ DOMAIN pc = Conns
        /\ notified \in [Conns -> BOOLEAN]
    BY DEF ThreadsOK, BrokerOK, P!TypeOK, P!WorkerTypeOK, P!HandlerTypeOK
  <1>2. ASSUME NEW e \in Conns, Accept(e)
        PROVE  /\ UNCHANGED <<got, notified>>
               /\ run[e] = "new" /\ run' = [run EXCEPT ![e] = "check"]
    BY <1>2, SameActions DEF Accept, P!Accept, P!handlerVars
  <1>3. ASSUME NEW e \in Conns, NEW f \in Inputs[e], ReadFrame(e, f)
        PROVE  /\ \A d \in Conns \ {e} : got'[d] = got[d]
               /\ notified' = notified
               /\ run[e] = "read" /\ run' = [run EXCEPT ![e] = "process"]
    BY <1>1, <1>3, SameActions DEF ReadFrame, P!Receive, P!handlerVars
  <1>4. ASSUME NEW e \in Conns, Process(e)
        PROVE  UNCHANGED <<got, notified, run>>
    BY <1>1, <1>4, SameActions, Assumptions, P!HandleMoves
    DEF Process, P!handlerVars
  <1>5. ASSUME NEW e \in Conns, Returns(e)
        PROVE  /\ UNCHANGED <<got, notified>>
               /\ \/ run' = run
                  \/ /\ run[e] = "process"
                     /\ run' = [run EXCEPT ![e] = "check"]
    <2>1. CASE pick[e] # P!NoPick
      BY <1>5, <2>1, SameState, SameActions
      DEF Returns, SendReturns, P!HandOver
    <2>2. CASE pick[e] = P!NoPick
      <3>1. run[e] = "process"
        BY <1>5, <2>2, Sending DEF Returns, ThreadsOK, Placed
      <3> QED
        BY <1>5, <2>2, <3>1, SameState, SameActions
        DEF Returns, SendReturns, P!Reply
    <2> QED
      BY <2>1, <2>2
  <1>6. ASSUME NEW e \in Conns,
               StartsWrite(e) \/ WriteFails(e) \/ CloseTarget(e) \/ PeerMove(e)
        PROVE  UNCHANGED <<got, notified, run>>
    BY <1>6 DEF StartsWrite, WriteFails, CloseTarget, PeerMove, PeerStalls,
       PeerResumes, PeerDies, PeerMoves, brokerVars, workerVars
  <1>7. ASSUME NEW t \in Conns, StartsNotify(t)
        PROVE  /\ UNCHANGED <<got, pc, run>> /\ MustSend(t)
               /\ c = Target(t) \/ notified'[c] = notified[c]
    <2>1. MustSend(t)
      BY <1>7 DEF StartsNotify, ThreadsOK, Placed
    <2> QED
      BY <1>1, <1>7, <2>1 DEF StartsNotify, P!StartClose, P!workerVars
  <1>8. ASSUME NEW e \in Conns, LoopCheck(e) \/ ReadEnds(e) \/ CloseSocket(e)
                                \/ ClearConnected(e)
        PROVE  /\ UNCHANGED <<got, notified>>
               /\ run[e] \in {"check", "read", "exit", "finally"}
               /\ \E r \in {"read", "exit", "finally", "notify"} :
                    run' = [run EXCEPT ![e] = r]
    BY <1>8 DEF LoopCheck, ReadEnds, CloseSocket, ClearConnected, workerVars
  <1>9. ASSUME NEW e \in Conns, NotifyOwn(e)
        PROVE  /\ UNCHANGED <<got, pc>> /\ run[e] = "notify"
               /\ \/ /\ run' = [run EXCEPT ![e] = "cleanup"]
                     /\ notified' = [notified EXCEPT ![e] = TRUE]
                  \/ /\ run' = [run EXCEPT ![e] = "gone"]
                     /\ notified' = notified /\ notified[e]
    BY <1>9, SameActions DEF NotifyOwn, P!StartClose, P!workerVars, workerVars
  <1>10. ASSUME NEW e \in Conns, ThreadEnds(e)
        PROVE  /\ UNCHANGED <<got, notified>> /\ run[e] = "cleanup"
               /\ run' = [run EXCEPT ![e] = "gone"]
    BY <1>10 DEF ThreadEnds, workerVars
  <1>11. ASSUME NEW k \in P!Calls, DisconnectStep(k)
         PROVE  UNCHANGED <<got, notified, run>>
    BY <1>1, <1>11, SameActions, Assumptions, P!DisconnectMoves
    DEF DisconnectStep, P!handlerVars
  <1>12. UNCHANGED vars => UNCHANGED <<got, notified, run>>
    BY DEF vars
  <1>13. run[c] = "notify" => pc[c] = "idle"
    BY <1>1 DEF Placed
  <1>14. run \in [Conns -> {"new", "check", "read", "process", "exit",
                            "finally", "notify", "cleanup", "gone"}]
    BY <1>1 DEF SocketsOK
  <1>15. CASE UNCHANGED <<got, notified, run>>
    BY <1>15
  <1>16. ASSUME NEW e \in Conns,
                \/ Accept(e) \/ (\E f \in Inputs[e] : ReadFrame(e, f))
                \/ Returns(e) \/ StartsNotify(e)
         PROVE  /\ got'[c] # got[c] => run[c] = "read"
                /\ run[c] \in {"cleanup", "gone"} => run'[c] = run[c]
                /\ run'[c] \in {"cleanup", "gone"} => run[c] = run'[c]
                /\ notified'[c] # notified[c] =>
                     UNCHANGED <<got, pc>> /\ MustSend(e) /\ c = Target(e)
    BY <1>2, <1>3, <1>5, <1>7, <1>14, <1>16
  <1>17. ASSUME NEW e \in Conns, Runs(e)
         PROVE  /\ got' = got
                /\ run[c] \in {"cleanup", "gone"} => run'[c] \in {"cleanup", "gone"}
                /\ run'[c] \in {"cleanup", "gone"} =>
                     run[c] \in {"cleanup", "gone"} \/ notified'[c]
                /\ notified'[c] # notified[c] =>
                     pc' = pc /\ run'[c] = "cleanup" /\ pc[c] = "idle"
    BY <1>1, <1>8, <1>9, <1>10, <1>13, <1>14, <1>17 DEF Runs
  <1> QED
    BY <1>4, <1>6, <1>11, <1>12, <1>15, <1>16, <1>17, Steps

LEMMA EndedStays ==
  ASSUME BrokerOK, ThreadsOK, P!LoginFirst, EndedOK, [Next]_vars
  PROVE  EndedOK'
  <1> SUFFICES ASSUME NEW c \in Conns,
                      NEW a, a = disc[<<"close", c>>],
                      NEW b, b = disc'[<<"close", c>>]
               PROVE  Ended(c)'
    BY DEF EndedOK
  <1>1. /\ P!TypeOK /\ P!LoginOK /\ [P!Next]_P!vars
        /\ Ended(c) /\ Placed(c) /\ got[c] \in Seq(P!Frame)
        /\ notified \in [Conns -> BOOLEAN]
        /\ <<"close", c>> \in P!Calls
    BY StepMaps DEF BrokerOK, P!TypeOK, P!WorkerTypeOK, P!HandlerTypeOK,
       EndedOK, ThreadsOK, P!Calls
  <1>2. \/ notified'[c] = notified[c] /\ b = a
        \/ P!StartClose(c) /\ notified'[c] /\ ~notified[c] /\ b = P!Entered
        \/ /\ P!DisconnectStep(<<"close", c>>) /\ notified' = notified
           /\ a # P!Returned
    BY <1>1, Assumptions, P!CloseStep
  <1>3. ~notified'[c] => b = P!Returned
    BY <1>1, <1>2 DEF Ended
  <1>4. run'[c] \in {"cleanup", "gone"} => notified'[c]
    BY <1>1, <1>2, EndSteps DEF Ended
  <1>5. ASSUME notified[c]
        PROVE  /\ P!LoggedOutBy(c, b)'
               /\ run'[c] \in {"cleanup", "gone"} \/ got'[c] # <<>>
               /\ pc'[c] \in {"idle", "reply"} \/ Len(got'[c]) > 1
    <2>1. /\ P!LoggedOutBy(c, a)
          /\ run[c] \in {"cleanup", "gone"} \/ got[c] # <<>>
          /\ pc[c] \in {"idle", "reply"} \/ Len(got[c]) > 1
      BY <1>1, <1>5 DEF Ended
    <2>2. \/ got'[c] = got[c]
          \/ /\ got[c] # <<>> /\ got'[c] # <<>>
             /\ Len(got'[c]) = Len(got[c]) + 1
      <3>1. \/ got'[c] = got[c]
            \/ \E f \in P!Frame : got'[c] = Append(got[c], f)
        BY <1>1, Assumptions, P!GotGrows
      <3>2. ASSUME NEW f \in P!Frame, got'[c] = Append(got[c], f)
            PROVE  got'[c] # got[c] /\ Len(got'[c]) = Len(got[c]) + 1
                   /\ got'[c] # <<>>
        <4>1. Len(got'[c]) = Len(got[c]) + 1 /\ Len(got[c]) \in Nat
          BY <1>1, <3>2, AppendProperties
        <4>2. Len(got'[c]) # Len(got[c]) /\ Len(got'[c]) # 0
          BY <4>1
        <4> QED
          BY <4>1, <4>2
      <3>3. got'[c] # got[c] => got[c] # <<>>
        BY <2>1, EndSteps
      <3> QED
        BY <3>1, <3>2, <3>3
    <2>3. run'[c] \in {"cleanup", "gone"} \/ got'[c] # <<>>
      BY <2>1, <2>2, EndSteps
    <2>4. pc'[c] \in {"idle", "reply"} \/ Len(got'[c]) > 1
      <3>1. Len(got[c]) \in Nat /\ (got[c] # <<>> => Len(got[c]) > 0)
        BY <1>1
      <3>2. CASE Len(got[c]) > 1
        BY <2>2, <3>1, <3>2
      <3>3. CASE pc[c] \in {"idle", "reply"}
        <4>1. \/ pc'[c] \in {"reply", "idle"}
              \/ \E f \in Inputs[c] : P!Receive(c, f)
          BY <1>1, <3>3, Assumptions, P!ReturnedStep
        <4>2. ASSUME NEW f \in Inputs[c], P!Receive(c, f)
              PROVE  Len(got'[c]) > 1
          <5>1. got'[c] # got[c]
            <6>1. got'[c] = Append(got[c], f) /\ f \in P!Frame
              BY <1>1, <4>2, Assumptions
              DEF P!Receive, P!TypeOK, P!WorkerTypeOK, P!BrokerAssumption
            <6> QED
              BY <1>1, <6>1
          <5> QED
            BY <2>2, <3>1, <5>1
        <4> QED
          BY <4>1, <4>2
      <3> QED
        BY <2>1, <3>2, <3>3
    <2>5. pc[c] \notin {"off", "create", "bind", "activate"}
      <3>1. CASE Len(got[c]) > 1
        <4>1. Len(got[c]) \in 1 .. Len(got[c]) /\ Len(got[c]) # 1
          <5>1. Len(got[c]) \in Nat
            BY <1>1
          <5>2. \A n \in Nat : n > 1 => n \in 1 .. n /\ n # 1
            OBVIOUS
          <5> QED
            BY <3>1, <5>1, <5>2
        <4>2. P!Current(c).cmd # "CONNECT"
          BY <4>1 DEF P!LoginFirst, P!Current
        <4>3. got[c] # <<>>
          <5>1. Len(<<>>) = 0
            OBVIOUS
          <5> QED
            BY <3>1, <5>1
        <4> QED
          BY <1>1, <4>2, <4>3 DEF Placed, P!TypeOK, P!PhaseOK
      <3>2. CASE pc[c] \in {"idle", "reply"}
        BY <3>2
      <3> QED
        BY <2>1, <3>1, <3>2
    <2>6. P!LoggedOutBy(c, b)'
      <3>1. CASE b = a
        BY <1>1, <2>1, <2>5, <3>1, Assumptions, P!LoggedOutStays
      <3>2. CASE P!DisconnectStep(<<"close", c>>)
        BY <1>1, <2>1, <3>2, Assumptions, P!DisconnectLogsOut
      <3> QED
        BY <1>2, <1>5, <3>1, <3>2
    <2> QED
      BY <2>3, <2>4, <2>6
  <1>6. ASSUME ~notified[c], notified'[c]
        PROVE  /\ P!LoggedOutBy(c, b)'
               /\ run'[c] \in {"cleanup", "gone"} \/ got'[c] # <<>>
               /\ pc'[c] \in {"idle", "reply"} \/ Len(got'[c]) > 1
    <2>1. b = P!Entered
      BY <1>2, <1>6
    <2>2. P!LoggedOutBy(c, b)'
      BY <2>1 DEF P!LoggedOutBy, P!Entered
    <2>3. /\ UNCHANGED <<got, pc>>
          /\ \/ run'[c] = "cleanup" /\ pc[c] = "idle"
             \/ \E t \in Conns : MustSend(t) /\ c = Target(t)
      BY <1>6, EndSteps
    <2> QED
      BY <2>2, <2>3, TargetHasJoined
  <1> QED
    BY <1>3, <1>4, <1>5, <1>6 DEF Ended

(* However a connection ends, with its own thread and those of publishers  *)
(* closing it at the same time, no account stays online through it and no  *)
(* handler stays registered (NoGhostSession): its user is not locked out.  *)
THEOREM GhostsHold == Spec => []NoGhostSession
  <1>1. CASE ~Disciplined
    <2>1. NoGhostSession
      BY <1>1 DEF NoGhostSession
    <2> QED
      BY <2>1, PTL
  <1>2. CASE Disciplined
    <2>1. Init => P!LoginFirst /\ EndedOK
      <3> SUFFICES ASSUME Init, NEW c \in Conns
                   PROVE  Ended(c) /\ 1 .. Len(got[c]) = {}
        BY DEF EndedOK, P!LoginFirst
      <3>1. P!Init /\ run[c] = "new"
        BY SameState DEF Init
      <3>2. <<"close", c>> \in P!Calls
        BY DEF P!Calls
      <3>3. /\ got[c] = <<>> /\ ~notified[c]
            /\ disc[<<"close", c>>] = P!Returned
        BY <3>1, <3>2 DEF P!Init
      <3>4. Len(got[c]) = 0
        BY <3>3
      <3> QED
        BY <3>1, <3>3, <3>4 DEF Ended
    <2>2. /\ BrokerOK /\ ThreadsOK /\ P!LoginFirst /\ EndedOK /\ [Next]_vars
          => P!LoginFirst' /\ EndedOK'
      BY <1>2, EndedStays, StepMaps, Assumptions, P!StepLoginFirst
      DEF BrokerOK
    <2>3. EndedOK => NoGhostSession
      <3> SUFFICES ASSUME EndedOK, NEW c \in Conns, Over(c)
                   PROVE  /\ c \notin clients
                          /\ \A u \in Usernames :
                               users[u] # NoUser /\ users[u].conn = c
                                 => ~users[u].online
        BY DEF NoGhostSession
      <3>1. Ended(c) /\ run[c] = "gone"
        BY DEF EndedOK, Over
      <3>2. disc[<<"close", c>>] = P!Returned
        BY SameState DEF Over
      <3>3. P!LoggedOutBy(c, P!Returned)
        BY <3>1, <3>2 DEF Ended
      <3>4. NoUser \notin Usernames
        BY Assumptions DEF P!BrokerAssumption
      <3> QED
        BY <3>3, <3>4 DEF P!LoggedOutBy, P!Returned
    <2> QED
      BY <2>1, <2>2, <2>3, ThreadsHold, PTL DEF Spec
  <1> QED
    BY <1>1, <1>2
============================================================================
