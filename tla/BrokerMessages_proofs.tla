----------------------- MODULE BrokerMessages_proofs -----------------------
(***************************************************************************)
(* Proofs about the MESSAGE frames of the broker: their message-ids, their *)
(* order, their addresses, and who gets them, for any number of            *)
(* connections, channels, subscription ids and frames.                     *)
(***************************************************************************)
EXTENDS BrokerDelivery, StompBroker_proofs

(* The entries the fan-out loop of c has read and not handed over yet.     *)
Pending(c) == {ahead[c], pick[c]} \ {NoPick}

(* d has been handed the SEND that c is busy with.                         *)
Handed(c, d) ==
  \E i \in DOMAIN out[d] :
    IsMessage(d, i) /\ out[d][i].body = <<c, Len(got[c])>>

(* d asked for the subscription s to ch.                                   *)
Subscribed(d, ch, s) ==
  \E k \in Sent(d, "SUBSCRIBE") : got[d][k].dest = ch /\ got[d][k].id = s

(* The MESSAGE m carries a SEND that was received; no fan-out to come will *)
(* carry it again, and it shares its id exactly with the fan-out that      *)
(* still carries it.                                                       *)
Named(m) ==
  /\ m.id \leq msgId
  /\ m.body[2] \in 1 .. Len(got[m.body[1]])
  /\ \A c \in Conns :
       /\ pc[c] = "handle" => m.body # <<c, Len(got[c])>>
       /\ pc[c] = "fanout" =>
            (m.id = sending[c] <=> m.body = <<c, Len(got[c])>>)

(* Running fan-outs have ids of their own, all of them drawn.              *)
FanoutsNamed ==
  \A c \in Conns : pc[c] = "fanout" =>
    /\ sending[c] \leq msgId
    /\ \A d \in Conns : pc[d] = "fanout" /\ d # c => sending[d] # sending[c]

MessagesNamed ==
  \A d \in Conns : \A i \in DOMAIN out[d] : IsMessage(d, i) => Named(out[d][i])

(* The loop of c has each connection before it at most once, in todo, read *)
(* ahead or picked, and then has not handed it the message yet.            *)
LoopOK ==
  \A c \in Conns :
    /\ \A p \in Pending(c) : p.to \notin todo[c] /\ ~Handed(c, p.to)
    /\ ahead[c] # NoPick /\ pick[c] # NoPick => ahead[c].to # pick[c].to
    /\ pc[c] = "fanout" => \A d \in todo[c] : ~Handed(c, d)

-----------------------------------------------------------------------------
(***************************************************************************)
(* What a step adds to the histories.                                      *)
(***************************************************************************)

(* A frame that was received keeps its place.                              *)
LEMMA GotKept ==
  ASSUME TypeOK, [Next]_vars, NEW c \in Conns, NEW n \in 1 .. Len(got[c])
  PROVE  n \in 1 .. Len(got'[c]) /\ got'[c][n] = got[c][n]
  <1>1. got[c] \in Seq(Frame)
    BY DEF TypeOK, WorkerTypeOK
  <1>2. CASE got'[c] = got[c]
    BY <1>2
  <1>3. ASSUME NEW f \in Frame, got'[c] = Append(got[c], f)
        PROVE  n \in 1 .. Len(got'[c]) /\ got'[c][n] = got[c][n]
    BY <1>1, <1>3, AppendProperties
  <1> QED
    BY <1>2, <1>3, GotGrows

(* What was written to a connection keeps its place.                       *)
LEMMA OutKept ==
  ASSUME TypeOK, [Next]_vars, NEW d \in Conns, NEW i \in DOMAIN out[d]
  PROVE  i \in DOMAIN out'[d] /\ out'[d][i] = out[d][i]
  <1> DEFINE F == ReplyFrame \cup MessageFrame
             old == out[d]
             new == answer[d]
  <1>1. old \in Seq(F) /\ new \in Seq(ReplyFrame)
    BY DEF TypeOK, WorkerTypeOK, HandlerTypeOK
  <1>2. new \in Seq(F)
    BY <1>1, SeqMonotonic
  <1>3. i \in 1 .. Len(old)
    BY <1>1
  <1>4. CASE out'[d] = old
    BY <1>4
  <1>5. ASSUME NEW m \in MessageFrame, out'[d] = Append(old, m)
        PROVE  i \in DOMAIN out'[d] /\ out'[d][i] = old[i]
    <2>1. m \in F
      OBVIOUS
    <2> HIDE DEF F, old
    <2> QED
      BY <1>1, <1>3, <1>5, <2>1, AppendProperties
  <1>6. ASSUME out'[d] = old \o new
        PROVE  i \in DOMAIN out'[d] /\ out'[d][i] = old[i]
    <2> HIDE DEF F, old, new
    <2> QED
      BY <1>1, <1>2, <1>3, <1>6, ConcatProperties
  <1> QED
    BY <1>4, <1>5, <1>6, OutGrows

(* Every message there is after a step was there before.                   *)
OldMessages ==
  \A d \in Conns : \A i \in DOMAIN out'[d] : out'[d][i].kind = "MESSAGE" =>
    i \in DOMAIN out[d] /\ out'[d][i] = out[d][i]

(* The loop of c may have handed one message to the connection it picked.  *)
OneNewMessage(c) ==
  \A d \in Conns : \A i \in DOMAIN out'[d] : out'[d][i].kind = "MESSAGE" =>
    \/ i \in DOMAIN out[d] /\ out'[d][i] = out[d][i]
    \/ /\ d = pick[c].to /\ i = Len(out[d]) + 1
       /\ out'[d][i] = FrameFor(c, pick[c].sub)

(* What HandOver writes is a MESSAGE, at the end of what d has, unless the *)
(* handler of d is closed.                                                 *)
LEMMA HandOverMessage ==
  ASSUME TypeOK, NEW c \in Conns, HandOver(c)
  PROVE  /\ pc[c] = "fanout" /\ pick[c].to \in Conns /\ pick[c].sub \in SubIds
         /\ FrameFor(c, pick[c].sub) \in MessageFrame
         /\ OneNewMessage(c)
         /\ LET d == pick[c].to
            IN  closed[d] \/ out'[d] = Append(out[d], FrameFor(c, pick[c].sub))
  <1> DEFINE m == FrameFor(c, pick[c].sub)
             F == ReplyFrame \cup MessageFrame
             e == pick[c].to
  <1>1. pc[c] = "fanout" /\ e \in Conns /\ pick[c].sub \in SubIds
    BY DEF HandOver, TypeOK, PhaseOK, WorkerTypeOK
  <1>2. Current(c) \in Frame /\ Len(got[c]) \in Nat
    BY <1>1, CurrentFrame
  <1>3. Current(c).cmd = "SEND"
    BY <1>1 DEF TypeOK, PhaseOK
  <1>4. m \in MessageFrame
    BY <1>1, <1>2, <1>3, FrameFields
    DEF FrameFor, MessageFrame, TypeOK, WorkerTypeOK
  <1>5. out' = IF closed[e] THEN out ELSE [out EXCEPT ![e] = Append(@, m)]
    BY DEF HandOver
  <1>6. out \in [Conns -> Seq(F)] /\ m \in F
    BY <1>4 DEF TypeOK, HandlerTypeOK
  <1>7. ASSUME NEW d \in Conns, NEW i \in DOMAIN out'[d]
        PROVE  \/ i \in DOMAIN out[d] /\ out'[d][i] = out[d][i]
               \/ d = e /\ i = Len(out[d]) + 1 /\ out'[d][i] = m
    <2>1. CASE out'[d] = out[d]
      BY <2>1
    <2>2. CASE d = e /\ out'[d] = Append(out[d], m)
      <3> DEFINE old == out[d]
      <3>1. old \in Seq(F)
        BY <1>6
      <3> HIDE DEF old, F, m
      <3>2. out'[d] = Append(old, m)
        BY <2>2 DEF old
      <3>3. i \in 1 .. Len(old) + 1 /\ Len(old) \in Nat
        BY <1>6, <3>1, <3>2, AppendProperties
      <3>4. CASE i = Len(old) + 1
        BY <1>6, <2>2, <3>1, <3>2, <3>4, AppendProperties DEF old
      <3>5. CASE i \in 1 .. Len(old)
        BY <1>6, <3>1, <3>2, <3>5, AppendProperties DEF old
      <3> QED
        BY <3>3, <3>4, <3>5
    <2> HIDE DEF m, e, F
    <2> QED
      BY <1>5, <1>6, <2>1, <2>2
  <1>8. closed[e] \/ out'[e] = Append(out[e], m)
    <2> HIDE DEF m, e, F
    <2> QED
      BY <1>1, <1>5, <1>6 DEF e
  <1> QED
    BY <1>1, <1>4, <1>7, <1>8 DEF OneNewMessage

(* Frames are written by fan-out loops and by workers that return.         *)
LEMMA OutSteps ==
  ASSUME [Next]_vars
  PROVE  \/ out' = out
         \/ \E e \in Conns : HandOver(e) \/ Reply(e)
  <1>1. ASSUME NEW e \in Conns,
               Accept(e) \/ Handle(e) \/ \E f \in Inputs[e] : Receive(e, f)
        PROVE  out' = out
    BY <1>1 DEF Accept, Handle, Receive, Malformed, Disconnect,
       Subscribe, Unsubscribe, Send, Visit, LookUp, FanoutDone, LoginCheck,
       LoginCreate, LoginBind, LoginActivate, handlerVars
  <1>2. ASSUME NEW e \in Conns, Close(e) \/ StartClose(e)
        PROVE  out' = out
    BY <1>2 DEF Close, StartClose
  <1>3. ASSUME NEW k \in Calls, DisconnectStep(k)
        PROVE  out' = out
    BY <1>3 DEF DisconnectStep, RemoveClient, CheckUser, ClearUser, RemoveSub,
       handlerVars
  <1>4. UNCHANGED vars \/ Quiet => out' = out
    BY DEF vars, Quiet
  <1> QED
    BY <1>1, <1>2, <1>3, <1>4 DEF Next

(* A MESSAGE frame is only ever written by a fan-out loop.                 *)
LEMMA MessageStep ==
  ASSUME TypeOK, [Next]_vars
  PROVE  OldMessages \/ \E c \in Conns : HandOver(c) /\ OneNewMessage(c)
  <1>1. CASE \E c \in Conns : HandOver(c)
    BY <1>1, HandOverMessage
  <1>2. CASE ~\E c \in Conns : HandOver(c)
    <2> SUFFICES ASSUME NEW d \in Conns, NEW i \in DOMAIN out'[d],
                        out'[d][i].kind = "MESSAGE"
                 PROVE  i \in DOMAIN out[d] /\ out'[d][i] = out[d][i]
      BY DEF OldMessages
    <2>1. out' = out \/ \E e \in Conns : Reply(e)
      BY <1>2, OutSteps
    <2>2. out'[d] = out[d] \/ out'[d] = out[d] \o answer[d]
      BY <2>1 DEF Reply, TypeOK, HandlerTypeOK
    <2>3. CASE out'[d] = out[d]
      BY <2>3
    <2>4. CASE out'[d] = out[d] \o answer[d]
      <3> DEFINE F == ReplyFrame \cup MessageFrame
                 old == out[d]
                 new == answer[d]
      <3>1. old \in Seq(F) /\ new \in Seq(ReplyFrame)
        BY DEF TypeOK, WorkerTypeOK, HandlerTypeOK
      <3>2. new \in Seq(F)
        BY <3>1, SeqMonotonic
      <3>3. i \in DOMAIN (old \o new) /\ out'[d][i] = (old \o new)[i]
        BY <2>4
      <3>4. \A j \in DOMAIN new : new[j].kind # "MESSAGE"
        <4>1. \A r \in ReplyFrame : r.kind # "MESSAGE"
          BY DEF ReplyFrame
        <4> HIDE DEF F, old, new
        <4> QED
          BY <3>1, <4>1, ElementOfSeq
      <3> HIDE DEF F, old, new
      <3>5. \/ i \in DOMAIN old /\ (old \o new)[i] = old[i]
            \/ \E j \in DOMAIN new : (old \o new)[i] = new[j]
        BY <3>1, <3>2, <3>3, NewElements
      <3>6. i \in DOMAIN old /\ out'[d][i] = old[i]
        BY <3>3, <3>4, <3>5
      <3> QED
        BY <3>6 DEF old
    <2> QED
      BY <2>2, <2>3, <2>4
  <1> QED
    BY <1>1, <1>2

-----------------------------------------------------------------------------
(***************************************************************************)
(* What a step does to the fan-out loops.                                  *)
(***************************************************************************)

(* A SEND of c is numbered and its loop begins.                            *)
Starts(c) == Send(c) /\ pc'[c] = "fanout"

(* No loop moves; one that is done may return, and a worker may decode its *)
(* next frame.                                                             *)
LoopsIdle ==
  /\ UNCHANGED <<msgId, sending, todo, ahead, pick>>
  /\ \A c \in Conns :
       /\ pc'[c] = "fanout" => pc[c] = "fanout" /\ got'[c] = got[c]
       /\ pc'[c] = "handle" =>
            \/ pc[c] = "handle" /\ got'[c] = got[c]
            \/ \E f \in Frame : got'[c] = Append(got[c], f)

(* The steps, as the fan-out loops see them.                               *)
LEMMA LoopStep ==
  ASSUME TypeOK, [Next]_vars
  PROVE  \/ \E c \in Conns : Starts(c) \/ LookUp(c) \/ HandOver(c)
         \/ \E c, d \in Conns : Visit(c, d)
         \/ LoopsIdle
  <1>1. pc \in [Conns -> PCs] /\ got \in [Conns -> Seq(Frame)]
    BY DEF TypeOK, WorkerTypeOK
  <1>2. ASSUME UNCHANGED <<msgId, sending, todo, ahead, pick>>, UNCHANGED got,
               \/ UNCHANGED pc
               \/ \E c \in Conns, p \in PCs \ {"handle", "fanout"} :
                    pc' = [pc EXCEPT ![c] = p]
        PROVE  LoopsIdle
    BY <1>1, <1>2 DEF LoopsIdle
  <1>3. ASSUME NEW c \in Conns,
               \/ Malformed(c) \/ Disconnect(c) \/ Subscribe(c)
               \/ Unsubscribe(c) \/ FanoutDone(c) \/ LoginCheck(c)
               \/ LoginCreate(c) \/ LoginBind(c) \/ LoginActivate(c)
               \/ Accept(c) \/ Reply(c)
        PROVE  LoopsIdle
    <2>1. UNCHANGED <<msgId, sending, todo, ahead, pick>> /\ UNCHANGED got
      BY <1>3 DEF Malformed, Disconnect, Subscribe, Unsubscribe, FanoutDone,
         LoginCheck, LoginCreate, LoginBind, LoginActivate, Accept, Reply,
         loopVars, registryVars
    <2>2. \E p \in {"reply", "create", "bind", "activate", "idle"} :
            pc' = [pc EXCEPT ![c] = p]
      BY <1>3 DEF Malformed, Disconnect, Subscribe, Unsubscribe, FanoutDone,
         LoginCheck, LoginCreate, LoginBind, LoginActivate, Accept, Reply,
         LoginReturns, EnterLogin, Complete, Leave
    <2> QED
      BY <1>2, <2>1, <2>2 DEF PCs
  <1>4. ASSUME NEW c \in Conns, Send(c)
        PROVE  Starts(c) \/ LoopsIdle
    <2>1. CASE subs[Current(c).dest][c] # NoSub
      BY <1>1, <1>4, <2>1 DEF Send, Starts
    <2>2. CASE subs[Current(c).dest][c] = NoSub
      BY <1>2, <1>4, <2>2 DEF Send, Leave, PCs
    <2> QED
      BY <2>1, <2>2
  <1>5. ASSUME NEW c \in Conns, NEW f \in Inputs[c], Receive(c, f)
        PROVE  LoopsIdle
    <2>1. f \in Frame
      BY BrokerAssumption
    <2>2. /\ UNCHANGED <<msgId, sending, todo, ahead, pick>>
          /\ pc' = [pc EXCEPT ![c] = "handle"]
          /\ got' = [got EXCEPT ![c] = Append(got[c], f)]
      BY <1>5 DEF Receive, loopVars, registryVars
    <2> QED
      BY <1>1, <2>1, <2>2 DEF LoopsIdle
  <1>6. ASSUME NEW c \in Conns, Close(c) \/ StartClose(c)
        PROVE  LoopsIdle
    BY <1>2, <1>6 DEF Close, StartClose, workerVars, loopVars, registryVars
  <1>7. ASSUME NEW k \in Calls, DisconnectStep(k)
        PROVE  LoopsIdle
    <2>1. UNCHANGED <<workerVars, msgId>>
      BY <1>7 DEF DisconnectStep, RemoveClient, CheckUser, ClearUser,
         RemoveSub, registryVars
    <2> QED
      BY <1>2, <2>1 DEF workerVars, loopVars
  <1>8. UNCHANGED vars \/ Quiet => LoopsIdle
    BY <1>2 DEF vars, Quiet
  <1> QED
    BY <1>3, <1>4, <1>5, <1>6, <1>7, <1>8 DEF Next, Handle

(* The steps of a loop leave the workers, the counter and the registry.    *)
LEMMA LoopFrame ==
  ASSUME NEW c \in Conns,
         LookUp(c) \/ HandOver(c) \/ \E d \in Conns : Visit(c, d)
  PROVE  UNCHANGED <<pc, got, sending, msgId, subs, term>>
  BY DEF LookUp, HandOver, Visit, registryVars

(* What starting a fan-out changes.                                        *)
LEMMA StartFrame ==
  ASSUME TypeOK, NEW c \in Conns, Starts(c)
  PROVE  /\ pc[c] = "handle" /\ pc' = [pc EXCEPT ![c] = "fanout"]
         /\ Current(c).cmd = "SEND"
         /\ msgId' = msgId + 1 /\ sending' = [sending EXCEPT ![c] = msgId + 1]
         /\ todo' = [todo EXCEPT ![c] = Conns]
         /\ UNCHANGED <<got, ahead, pick, out, answer, subs>>
  <1>1. pc[c] = "handle" /\ Current(c).cmd = "SEND"
        /\ UNCHANGED <<got, ahead, pick, out, subs>>
    BY DEF Starts, Send, Handling, handlerVars
  <1>2. CASE subs[Current(c).dest][c] = NoSub
    BY <1>2 DEF Starts, Send, Leave, TypeOK, WorkerTypeOK
  <1> QED
    BY <1>1, <1>2 DEF Starts, Send

(* A MESSAGE that was written has the fields of one.                       *)
LEMMA MessageFields ==
  ASSUME NEW m \in MessageFrame
  PROVE  /\ m.kind = "MESSAGE" /\ m.id \in Nat /\ m.sub \in SubIds
         /\ m.dest \in Channels
         /\ m.body[1] \in Conns /\ m.body[2] \in Nat
         /\ m.body = <<m.body[1], m.body[2]>>
  BY DEF MessageFrame

(* A MESSAGE in out is one of MessageFrame.                                *)
LEMMA WrittenMessage ==
  ASSUME TypeOK, NEW d \in Conns, NEW i \in DOMAIN out[d],
         out[d][i].kind = "MESSAGE"
  PROVE  out[d][i] \in MessageFrame
  <1> DEFINE F == ReplyFrame \cup MessageFrame
             old == out[d]
  <1>1. old \in Seq(F)
    BY DEF TypeOK, HandlerTypeOK
  <1>2. \A r \in ReplyFrame : r.kind # "MESSAGE"
    BY DEF ReplyFrame
  <1>3. old[i] \in F
    <2> HIDE DEF F
    <2>1. i \in 1 .. Len(old)
      BY <1>1
    <2> HIDE DEF old
    <2> QED
      BY <1>1, <2>1, ElementOfSeq
  <1> QED
    BY <1>2, <1>3

-----------------------------------------------------------------------------
(***************************************************************************)
(* Message-ids.                                                            *)
(***************************************************************************)

(* A message that was written stays named.                                 *)
LEMMA NamedKept ==
  ASSUME TypeOK, [Next]_vars, NEW m \in MessageFrame, Named(m)
  PROVE  Named(m)'
  <1> DEFINE b == m.body[1]
             n == m.body[2]
  <1>1. m.id \in Nat /\ b \in Conns /\ n \in Nat /\ m.body = <<b, n>>
    BY MessageFields
  <1>2. m.id \leq msgId /\ n \in 1 .. Len(got[b])
    BY DEF Named
  <1>3. n \in 1 .. Len(got'[b])
    BY <1>1, <1>2, GotKept
  <1>4. /\ msgId \in Nat /\ pc \in [Conns -> PCs]
        /\ sending \in [Conns -> Nat] /\ got \in [Conns -> Seq(Frame)]
    BY DEF TypeOK, RegistryTypeOK, WorkerTypeOK
  <1>5. ASSUME NEW c \in Conns
        PROVE  /\ pc[c] = "handle" => m.body # <<c, Len(got[c])>>
               /\ pc[c] = "fanout" =>
                    (m.id = sending[c] <=> m.body = <<c, Len(got[c])>>)
    BY DEF Named
  <1> DEFINE Goal ==
        /\ m.id \leq msgId'
        /\ \A c \in Conns :
             /\ pc'[c] = "handle" => m.body # <<c, Len(got'[c])>>
             /\ pc'[c] = "fanout" =>
                  (m.id = sending'[c] <=> m.body = <<c, Len(got'[c])>>)
  <1>6. ASSUME NEW c \in Conns, Starts(c)
        PROVE  Goal
    <2>1. /\ pc[c] = "handle" /\ pc' = [pc EXCEPT ![c] = "fanout"]
          /\ msgId' = msgId + 1 /\ sending' = [sending EXCEPT ![c] = msgId + 1]
          /\ got' = got
      BY <1>6, StartFrame
    <2>2. m.id # msgId + 1 /\ m.id \leq msgId'
      BY <1>1, <1>2, <1>4, <2>1
    <2> QED
      BY <1>4, <1>5, <2>1, <2>2
  <1>7. ASSUME UNCHANGED <<pc, got, sending, msgId>>
        PROVE  Goal
    BY <1>2, <1>5, <1>7
  <1>8. ASSUME LoopsIdle
        PROVE  Goal
    <2>1. UNCHANGED <<msgId, sending>>
      BY <1>8 DEF LoopsIdle
    <2>2. ASSUME NEW c \in Conns, pc'[c] = "fanout"
          PROVE  m.id = sending'[c] <=> m.body = <<c, Len(got'[c])>>
      BY <1>5, <1>8, <2>1, <2>2 DEF LoopsIdle
    <2>3. ASSUME NEW c \in Conns, pc'[c] = "handle"
          PROVE  m.body # <<c, Len(got'[c])>>
      <3>1. CASE pc[c] = "handle" /\ got'[c] = got[c]
        BY <1>5, <3>1
      <3>2. ASSUME NEW f \in Frame, got'[c] = Append(got[c], f)
            PROVE  m.body # <<c, Len(got'[c])>>
        <4>1. Len(got'[c]) = Len(got[c]) + 1 /\ Len(got[c]) \in Nat
          BY <1>4, <3>2, AppendProperties
        <4> QED
          BY <1>1, <1>2, <4>1
      <3> QED
        BY <1>8, <2>3, <3>1, <3>2 DEF LoopsIdle
    <2> QED
      BY <1>2, <2>1, <2>2, <2>3
  <1>9. Goal
    BY <1>6, <1>7, <1>8, LoopStep, LoopFrame
  <1> QED
    BY <1>3, <1>9 DEF Named

(* A message that is handed over is named, too.                            *)
LEMMA NamedNew ==
  ASSUME TypeOK, FanoutsNamed, NEW c \in Conns, HandOver(c),
         NEW m, m = FrameFor(c, pick[c].sub)
  PROVE  Named(m)'
  <1>1. UNCHANGED <<pc, got, sending, msgId>>
    BY LoopFrame
  <1>2. /\ m.id = sending[c] /\ m.body = <<c, Len(got[c])>>
        /\ pc[c] = "fanout"
    BY HandOverMessage DEF FrameFor
  <1>3. Len(got[c]) \in 1 .. Len(got[c])
    BY <1>2, CurrentFrame
  <1>4. sending[c] \leq msgId
    BY <1>2 DEF FanoutsNamed
  <1>5. \A e \in Conns : pc[e] = "fanout" =>
          (m.id = sending[e] <=> m.body = <<e, Len(got[e])>>)
    BY <1>2 DEF FanoutsNamed
  <1>6. \A e \in Conns : pc[e] = "handle" => m.body # <<e, Len(got[e])>>
    BY <1>2
  <1> QED
    BY <1>1, <1>2, <1>3, <1>4, <1>5, <1>6 DEF Named

(* Every step keeps fan-outs and messages named.                           *)
LEMMA StepNamed ==
  ASSUME TypeOK, FanoutsNamed, MessagesNamed, [Next]_vars
  PROVE  FanoutsNamed' /\ MessagesNamed'
  <1>1. /\ msgId \in Nat /\ pc \in [Conns -> PCs]
        /\ sending \in [Conns -> Nat]
    BY DEF TypeOK, RegistryTypeOK, WorkerTypeOK
  <1>2. FanoutsNamed'
    <2>1. ASSUME NEW c \in Conns, Starts(c)
          PROVE  FanoutsNamed'
      <3>1. /\ pc' = [pc EXCEPT ![c] = "fanout"]
            /\ msgId' = msgId + 1
            /\ sending' = [sending EXCEPT ![c] = msgId + 1]
        BY <2>1, StartFrame
      <3>2. \A d \in Conns \ {c} : pc[d] = "fanout" =>
              sending[d] \leq msgId' /\ sending[d] # msgId + 1
        BY <1>1, <3>1 DEF FanoutsNamed
      <3> QED
        BY <1>1, <3>1, <3>2 DEF FanoutsNamed
    <2>2. UNCHANGED <<pc, sending, msgId>> => FanoutsNamed'
      BY DEF FanoutsNamed
    <2>3. LoopsIdle => FanoutsNamed'
      BY DEF LoopsIdle, FanoutsNamed
    <2> QED
      BY <2>1, <2>2, <2>3, LoopStep, LoopFrame
  <1>3. MessagesNamed'
    <2> SUFFICES ASSUME NEW d \in Conns, NEW i \in DOMAIN out'[d],
                        out'[d][i].kind = "MESSAGE"
                 PROVE  \E m : m = out'[d][i] /\ Named(m)'
      BY DEF MessagesNamed, IsMessage
    <2>1. CASE i \in DOMAIN out[d] /\ out'[d][i] = out[d][i]
      BY <2>1, WrittenMessage, NamedKept DEF MessagesNamed, IsMessage
    <2>2. CASE \E c \in Conns :
                 HandOver(c) /\ out'[d][i] = FrameFor(c, pick[c].sub)
      BY <2>2, NamedNew
    <2> QED
      BY <2>1, <2>2, MessageStep DEF OldMessages, OneNewMessage
  <1> QED
    BY <1>2, <1>3

(* A new message shares its id with those of the same SEND only.           *)
LEMMA StepNames ==
  ASSUME TypeOK, MessagesNamed, MessageIdNamesSend, [Next]_vars
  PROVE  MessageIdNamesSend'
  <1> DEFINE Same(l, m) == l.id = m.id <=> l.body = m.body
  <1> SUFFICES ASSUME NEW c \in Conns, NEW i \in DOMAIN out'[c],
                      NEW d \in Conns, NEW j \in DOMAIN out'[d],
                      out'[c][i].kind = "MESSAGE", out'[d][j].kind = "MESSAGE"
               PROVE  Same(out'[c][i], out'[d][j])
    BY DEF MessageIdNamesSend, IsMessage
  <1> DEFINE OldC == i \in DOMAIN out[c] /\ out'[c][i] = out[c][i]
             OldD == j \in DOMAIN out[d] /\ out'[d][j] = out[d][j]
  <1>1. OldC /\ OldD => Same(out'[c][i], out'[d][j])
    BY DEF MessageIdNamesSend, IsMessage
  <1>2. CASE OldMessages
    BY <1>1, <1>2 DEF OldMessages
  <1>3. ASSUME NEW e \in Conns, HandOver(e), OneNewMessage(e)
        PROVE  Same(out'[c][i], out'[d][j])
    <2> DEFINE new == FrameFor(e, pick[e].sub)
    <2>1. /\ OldC \/ out'[c][i] = new
          /\ OldD \/ out'[d][j] = new
      BY <1>3 DEF OneNewMessage
    <2>2. /\ new.id = sending[e] /\ new.body = <<e, Len(got[e])>>
          /\ pc[e] = "fanout"
      BY <1>3, HandOverMessage DEF FrameFor
    <2>3. ASSUME NEW b \in Conns, NEW k \in DOMAIN out[b],
                 out[b][k].kind = "MESSAGE"
          PROVE  Same(out[b][k], new)
      BY <2>2, <2>3 DEF MessagesNamed, Named, IsMessage
    <2> HIDE DEF new
    <2>4. CASE OldC /\ OldD
      BY <1>1, <2>4
    <2>5. CASE OldC /\ out'[d][j] = new
      BY <2>3, <2>5
    <2>6. CASE out'[c][i] = new /\ OldD
      BY <2>3, <2>6
    <2>7. CASE out'[c][i] = new /\ out'[d][j] = new
      BY <2>7
    <2> QED
      BY <2>1, <2>4, <2>5, <2>6, <2>7
  <1> QED
    BY <1>2, <1>3, MessageStep

-----------------------------------------------------------------------------
(***************************************************************************)
(* The order of messages.                                                  *)
(***************************************************************************)

(* A SEND that was handed to d in a step is the one the step hands over.   *)
LEMMA HandedStep ==
  ASSUME TypeOK, [Next]_vars, NEW c \in Conns, NEW d \in Conns,
         got'[c] = got[c], Handed(c, d)'
  PROVE  Handed(c, d) \/ (HandOver(c) /\ d = pick[c].to)
  <1>1. PICK i \in DOMAIN out'[d] :
          out'[d][i].kind = "MESSAGE" /\ out'[d][i].body = <<c, Len(got[c])>>
    BY DEF Handed, IsMessage
  <1>2. CASE i \in DOMAIN out[d] /\ out'[d][i] = out[d][i]
    BY <1>1, <1>2 DEF Handed, IsMessage
  <1>3. ASSUME NEW e \in Conns, HandOver(e), d = pick[e].to,
               out'[d][i] = FrameFor(e, pick[e].sub)
        PROVE  HandOver(c) /\ d = pick[c].to
    <2>1. out'[d][i].body = <<e, Len(got[e])>>
      BY <1>3 DEF FrameFor
    <2>2. e = c
      BY <1>1, <2>1
    <2> QED
      BY <1>3, <2>2
  <1> QED
    BY <1>1, <1>2, <1>3, MessageStep DEF OldMessages, OneNewMessage

(* A SEND that was handed to d stays handed.                               *)
LEMMA HandedKept ==
  ASSUME TypeOK, [Next]_vars, NEW c \in Conns, NEW d \in Conns,
         got'[c] = got[c], Handed(c, d)
  PROVE  Handed(c, d)'
  <1>1. PICK i \in DOMAIN out[d] :
          out[d][i].kind = "MESSAGE" /\ out[d][i].body = <<c, Len(got[c])>>
    BY DEF Handed, IsMessage
  <1> QED
    BY <1>1, OutKept DEF Handed, IsMessage

(* Only a running loop holds entries.                                      *)
LEMMA PendingFans ==
  ASSUME TypeOK, NEW c \in Conns, pc[c] # "fanout"
  PROVE  ahead[c] = NoPick /\ pick[c] = NoPick /\ Pending(c) = {}
  BY DEF TypeOK, PhaseOK, Pending

(* What an iterator reads.                                                 *)
LEMMA VisitEntry ==
  ASSUME NEW c \in Conns, NEW x \in Conns, Visit(c, x)
  PROVE  \E s :
           /\ ahead' = [ahead EXCEPT ![c] = s]
           /\ \/ subs[Current(c).dest][x] = NoSub /\ s = NoPick
              \/ /\ subs[Current(c).dest][x] # NoSub
                 /\ s.to = x /\ s.sub = subs[Current(c).dest][x]
  <1> DEFINE id == subs[Current(c).dest][x]
             s == IF id = NoSub THEN NoPick ELSE [to |-> x, sub |-> id]
  <1>1. ahead' = [ahead EXCEPT ![c] = s]
    BY DEF Visit
  <1>2. \/ id = NoSub /\ s = NoPick
        \/ id # NoSub /\ s.to = x /\ s.sub = id
    OBVIOUS
  <1> HIDE DEF s
  <1> QED
    BY <1>1, <1>2

(* Every step keeps each connection in one place of a loop only.           *)
LEMMA StepLoop ==
  ASSUME TypeOK, TypeOK', MessagesNamed, LoopOK, [Next]_vars
  PROVE  LoopOK'
  <1> DEFINE Fine(c) ==
        /\ \A p \in Pending(c) : p.to \notin todo[c] /\ ~Handed(c, p.to)
        /\ ahead[c] # NoPick /\ pick[c] # NoPick => ahead[c].to # pick[c].to
        /\ pc[c] = "fanout" => \A d \in todo[c] : ~Handed(c, d)
  <1>1. /\ todo \in [Conns -> SUBSET Conns]
        /\ ahead \in [Conns -> [to : Conns, sub : SubIds] \cup {NoPick}]
        /\ pick \in [Conns -> [to : Conns, sub : SubIds] \cup {NoPick}]
        /\ pc \in [Conns -> PCs]
    BY DEF TypeOK, WorkerTypeOK
  <1>2. NoPick.to \notin Conns
    BY BrokerAssumption DEF NoPick
  <1>3. \A c \in Conns : \A p \in Pending(c) : p.to \in Conns
    BY <1>1 DEF Pending
  <1>4. ASSUME NEW c \in Conns, ~HandOver(c),
               UNCHANGED <<got[c], todo[c], ahead[c], pick[c]>>,
               pc'[c] = "fanout" => pc[c] = "fanout"
        PROVE  Fine(c)'
    <2>1. Pending(c)' = Pending(c)
      BY <1>4 DEF Pending
    <2>2. \A d \in Conns : Handed(c, d)' => Handed(c, d)
      BY <1>4, HandedStep
    <2>3. Fine(c)
      BY DEF LoopOK
    <2> QED
      BY <1>1, <1>3, <1>4, <2>1, <2>2, <2>3
  <1>5. ASSUME NEW c \in Conns, pc'[c] # "fanout"
        PROVE  Fine(c)'
    <2>1. (ahead[c] = NoPick /\ Pending(c) = {})'
      BY <1>5 DEF TypeOK, PhaseOK, Pending
    <2> QED
      BY <1>5, <2>1
  <1>6. ASSUME NEW c \in Conns, Starts(c)
        PROVE  \A e \in Conns : Fine(e)'
    <2>1. /\ pc[c] = "handle" /\ UNCHANGED <<got, ahead, pick, out>>
          /\ todo' = [todo EXCEPT ![c] = Conns]
          /\ pc' = [pc EXCEPT ![c] = "fanout"]
      BY <1>6, StartFrame
    <2>2. (ahead[c] = NoPick /\ Pending(c) = {})'
      BY <2>1, PendingFans DEF Pending
    <2>3. \A d \in Conns : ~Handed(c, d)'
      <3>1. \A d \in Conns : ~Handed(c, d)
        BY <2>1 DEF MessagesNamed, Named, Handed
      <3> QED
        BY <2>1, <3>1 DEF Handed, IsMessage
    <2>4. Fine(c)'
      BY <1>1, <2>1, <2>2, <2>3
    <2>5. \A e \in Conns \ {c} :
            /\ ~HandOver(e) /\ (pc'[e] = "fanout" => pc[e] = "fanout")
            /\ UNCHANGED <<got[e], todo[e], ahead[e], pick[e]>>
      <3>1. \A e \in Conns : HandOver(e) => pc'[c] = pc[c]
        BY LoopFrame
      <3> QED
        BY <1>1, <2>1, <3>1
    <2> QED
      BY <1>4, <2>4, <2>5
  <1>7. ASSUME NEW c \in Conns, NEW x \in Conns, Visit(c, x)
        PROVE  \A e \in Conns : Fine(e)'
    <2>1. /\ pc[c] = "fanout" /\ ahead[c] = NoPick /\ x \in todo[c]
          /\ UNCHANGED <<pc, got, pick>>
          /\ todo' = [todo EXCEPT ![c] = todo[c] \ {x}]
      BY <1>7 DEF Visit, Iterating
    <2>2. PICK s : ahead' = [ahead EXCEPT ![c] = s] /\
                   (s = NoPick \/ s.to = x)
      BY <1>7, VisitEntry
    <2>3. ~HandOver(c) /\ \A e \in Conns \ {c} : ~HandOver(e)
      <3>1. ASSUME NEW e \in Conns, HandOver(e)
            PROVE  pick'[e] # pick[e]
        BY <1>1, <3>1 DEF HandOver
      <3> QED
        BY <2>1, <3>1
    <2>4. Fine(c)
      BY DEF LoopOK
    <2>5. \A d \in Conns : Handed(c, d)' => Handed(c, d)
      BY <2>1, <2>3, HandedStep
    <2>6. todo'[c] = todo[c] \ {x} /\ ahead'[c] = s /\ pick'[c] = pick[c]
          /\ pc'[c] = "fanout"
      BY <1>1, <2>1, <2>2
    <2>7. ASSUME NEW p \in Pending(c)'
          PROVE  p.to \notin todo'[c] /\ ~Handed(c, p.to)'
      <3>1. CASE p = s
        <4>1. p.to = x /\ x \in Conns
          BY <1>1, <2>1, <2>2, <2>6, <2>7, <3>1 DEF Pending
        <4>2. ~Handed(c, x)
          BY <2>1, <2>4
        <4> QED
          BY <2>5, <2>6, <4>1, <4>2
      <3>2. CASE p # s
        <4>1. p \in Pending(c)
          BY <2>6, <2>7, <3>2 DEF Pending
        <4> QED
          BY <1>3, <2>4, <2>5, <2>6, <4>1
      <3> QED
        BY <3>1, <3>2
    <2>8. ahead'[c] # NoPick /\ pick'[c] # NoPick
            => ahead'[c].to # pick'[c].to
      <3>1. pick[c] # NoPick => pick[c].to \notin todo[c]
        BY <2>4 DEF Pending
      <3> QED
        BY <2>1, <2>2, <2>6, <3>1
    <2>9. \A d \in todo'[c] : ~Handed(c, d)'
      BY <1>1, <2>1, <2>4, <2>5, <2>6
    <2>10. Fine(c)'
      BY <2>7, <2>8, <2>9
    <2>11. \A e \in Conns \ {c} :
             UNCHANGED <<got[e], todo[e], ahead[e], pick[e]>>
             /\ (pc'[e] = "fanout" => pc[e] = "fanout")
      BY <1>1, <2>1, <2>2
    <2> QED
      BY <1>4, <2>3, <2>10, <2>11
  <1>8. ASSUME NEW c \in Conns, LookUp(c) \/ HandOver(c)
        PROVE  \A e \in Conns : Fine(e)'
    <2>1. pc' = pc /\ got' = got /\ todo' = todo
      BY <1>8 DEF LookUp, HandOver
    <2>2. \A e \in Conns \ {c} : ahead'[e] = ahead[e] /\ pick'[e] = pick[e]
      BY <1>1, <1>8 DEF LookUp, HandOver
    <2>3. \A e \in Conns \ {c} : ~HandOver(e)
      BY <1>1, <2>2 DEF HandOver
    <2>4. Fine(c)
      BY DEF LoopOK
    <2>5. CASE LookUp(c)
      <3>1. /\ ahead'[c] = NoPick /\ pick[c] = NoPick
            /\ pick'[c] \in {ahead[c], NoPick}
        BY <1>1, <2>5 DEF LookUp, Fanning
      <3>2. ~HandOver(c)
        BY <3>1 DEF HandOver
      <3>3. \A d \in Conns : Handed(c, d)' => Handed(c, d)
        BY <2>1, <3>2, HandedStep
      <3>4. \A p : p \in Pending(c)' => p \in Pending(c)
        BY <3>1 DEF Pending
      <3>5. Fine(c)'
        BY <1>1, <1>3, <2>1, <2>4, <3>1, <3>3, <3>4
      <3> QED
        BY <1>4, <2>1, <2>2, <2>3, <3>5
    <2>6. CASE HandOver(c)
      <3> DEFINE x == pick[c].to
      <3>1. /\ pick'[c] = NoPick /\ pick[c] # NoPick /\ ahead'[c] = ahead[c]
        BY <1>1, <2>6 DEF HandOver
      <3>2. \A d \in Conns : Handed(c, d)' => Handed(c, d) \/ d = x
        BY <2>1, HandedStep
      <3>3. x \notin todo[c] /\ (ahead[c] # NoPick => ahead[c].to # x)
        BY <2>4, <3>1 DEF Pending
      <3> HIDE DEF x
      <3>4. \A p : p \in Pending(c)' => p \in Pending(c) /\ p.to # x
        BY <3>1, <3>3 DEF Pending
      <3>5. Fine(c)'
        BY <1>1, <1>3, <2>1, <2>4, <3>1, <3>2, <3>3, <3>4
      <3> QED
        BY <1>4, <2>1, <2>2, <2>3, <3>5
    <2> QED
      BY <1>8, <2>5, <2>6
  <1>9. ASSUME LoopsIdle, NEW c \in Conns
        PROVE  Fine(c)'
    <2>1. CASE pc'[c] = "fanout"
      <3>1. /\ pc[c] = "fanout" /\ got'[c] = got[c]
            /\ UNCHANGED <<todo[c], ahead[c], pick[c]>>
        BY <1>9, <2>1 DEF LoopsIdle
      <3>2. ~HandOver(c)
        BY <1>1, <1>9 DEF LoopsIdle, HandOver
      <3> QED
        BY <1>4, <3>1, <3>2
    <2>2. CASE pc'[c] # "fanout"
      BY <1>5, <2>2
    <2> QED
      BY <2>1, <2>2
  <1>10. \A c \in Conns : Fine(c)'
    BY <1>6, <1>7, <1>8, <1>9, LoopStep
  <1> QED
    BY <1>10 DEF LoopOK

(* A new message of a publisher comes after all it sent before.            *)
LEMMA StepOrder ==
  ASSUME TypeOK, MessagesNamed, LoopOK, PublisherOrder, [Next]_vars
  PROVE  PublisherOrder'
  <1> SUFFICES ASSUME NEW d \in Conns,
                      NEW i \in DOMAIN out'[d], NEW j \in DOMAIN out'[d],
                      i < j,
                      out'[d][i].kind = "MESSAGE", out'[d][j].kind = "MESSAGE",
                      out'[d][i].body[1] = out'[d][j].body[1]
               PROVE  out'[d][i].body[2] < out'[d][j].body[2]
    BY DEF PublisherOrder, IsMessage
  <1>1. ASSUME i \in DOMAIN out[d], out'[d][i] = out[d][i],
               j \in DOMAIN out[d], out'[d][j] = out[d][j]
        PROVE  out'[d][i].body[2] < out'[d][j].body[2]
    BY <1>1 DEF PublisherOrder, IsMessage
  <1>2. CASE OldMessages
    BY <1>1, <1>2 DEF OldMessages
  <1>3. ASSUME NEW c \in Conns, HandOver(c), OneNewMessage(c)
        PROVE  out'[d][i].body[2] < out'[d][j].body[2]
    <2>1. Len(out[d]) \in Nat /\ DOMAIN out[d] = 1 .. Len(out[d])
      BY DEF TypeOK, HandlerTypeOK
    <2>2. \/ i \in DOMAIN out[d] /\ out'[d][i] = out[d][i]
          \/ i = Len(out[d]) + 1
      BY <1>3 DEF OneNewMessage
    <2>3. \/ j \in DOMAIN out[d] /\ out'[d][j] = out[d][j]
          \/ /\ d = pick[c].to /\ j = Len(out[d]) + 1
             /\ out'[d][j] = FrameFor(c, pick[c].sub)
      BY <1>3 DEF OneNewMessage
    <2>4. CASE j \in DOMAIN out[d] /\ out'[d][j] = out[d][j]
      BY <1>1, <2>1, <2>2, <2>4
    <2>5. CASE /\ d = pick[c].to /\ j = Len(out[d]) + 1
               /\ out'[d][j] = FrameFor(c, pick[c].sub)
      <3> DEFINE m == out[d][i]
      <3>1. i \in DOMAIN out[d] /\ out'[d][i] = m
        BY <2>1, <2>2, <2>5
      <3>2. out'[d][j].body = <<c, Len(got[c])>>
        BY <2>5 DEF FrameFor
      <3>3. m \in MessageFrame /\ Named(m)
        BY <3>1, WrittenMessage DEF MessagesNamed, IsMessage
      <3>4. ~Handed(c, d)
        BY <1>3, <2>5 DEF LoopOK, Pending, HandOver
      <3>5. m.kind = "MESSAGE" /\ m.body # <<c, Len(got[c])>>
        BY <3>1, <3>4 DEF Handed, IsMessage
      <3> HIDE DEF m
      <3>6. m.body[1] = c /\ m.body[2] \in Nat /\ m.body[2] # Len(got[c])
        BY <3>1, <3>2, <3>3, <3>5, MessageFields
      <3>7. m.body[2] \in 1 .. Len(got[c])
        BY <3>3, <3>6 DEF Named
      <3>8. Len(got[c]) \in Nat
        BY DEF TypeOK, WorkerTypeOK
      <3> QED
        BY <3>1, <3>2, <3>6, <3>7, <3>8
    <2> QED
      BY <2>3, <2>4, <2>5
  <1> QED
    BY <1>2, <1>3, MessageStep

(* The inductive invariant of the fan-out: loops and messages have ids of  *)
(* their own, and no loop is about to hand over a message twice.           *)
FanoutOK == FanoutsNamed /\ MessagesNamed /\ LoopOK

(* FanoutOK holds, whoever publishes.                                      *)
THEOREM FanoutHolds == Spec => [](TypeOK /\ FanoutOK)
  <1>1. Init => FanoutOK
    <2>1. DOMAIN <<>> = {}
      OBVIOUS
    <2>2. Init => \A c \in Conns :
            /\ pc[c] = "off" /\ out[c] = <<>> /\ todo[c] = {}
            /\ ahead[c] = NoPick /\ pick[c] = NoPick
      BY DEF Init
    <2> QED
      BY <2>1, <2>2 DEF FanoutOK, FanoutsNamed, MessagesNamed, LoopOK, Pending
  <1>2. TypeOK /\ TypeOK' /\ FanoutOK /\ [Next]_vars => FanoutOK'
    BY StepNamed, StepLoop DEF FanoutOK
  <1> QED
    BY <1>1, <1>2, TypesHold, PTL DEF Spec

(* message-id is unique on the server: two MESSAGE frames have the same id *)
(* exactly when they carry the same SEND (MessageIdNamesSend).             *)
THEOREM MessageIdsHold == Spec => []MessageIdNamesSend
  <1>1. Init => MessageIdNamesSend
    <2>1. DOMAIN <<>> = {}
      OBVIOUS
    <2>2. Init => \A c \in Conns : out[c] = <<>>
      BY DEF Init
    <2> QED
      BY <2>1, <2>2 DEF MessageIdNamesSend
  <1>2. TypeOK /\ FanoutOK /\ MessageIdNamesSend /\ [Next]_vars
          => MessageIdNamesSend'
    BY StepNames DEF FanoutOK
  <1> QED
    BY <1>1, <1>2, FanoutHolds, PTL DEF Spec

(* A subscriber gets the messages of one publisher in the order they were  *)
(* sent and none of them twice, whoever joins, leaves and publishes        *)
(* meanwhile (PublisherOrder).                                             *)
THEOREM OrderHolds == Spec => []PublisherOrder
  <1>1. Init => PublisherOrder
    <2>1. DOMAIN <<>> = {}
      OBVIOUS
    <2>2. Init => \A c \in Conns : out[c] = <<>>
      BY DEF Init
    <2> QED
      BY <2>1, <2>2 DEF PublisherOrder
  <1>2. TypeOK /\ FanoutOK /\ PublisherOrder /\ [Next]_vars => PublisherOrder'
    BY StepOrder DEF FanoutOK
  <1> QED
    BY <1>1, <1>2, FanoutHolds, PTL DEF Spec

-----------------------------------------------------------------------------
(***************************************************************************)
(* Subscriptions and addresses.                                            *)
(***************************************************************************)

(* Every entry of the registry, and every entry a loop holds, was asked    *)
(* for by its subscriber.                                                  *)
EntriesAsked ==
  \A ch \in Channels, d \in Conns :
    subs[ch][d] # NoSub => Subscribed(d, ch, subs[ch][d])

PendingAsked ==
  \A c \in Conns : \A p \in Pending(c) :
    Subscribed(p.to, Current(c).dest, p.sub)

(* An entry of the registry appears only by a SUBSCRIBE of its connection. *)
LEMMA SubsStep ==
  ASSUME TypeOK, [Next]_vars, NEW ch \in Channels, NEW d \in Conns
  PROVE  \/ subs'[ch][d] \in {subs[ch][d], NoSub}
         \/ /\ Subscribe(d) /\ UNCHANGED got
            /\ ch = Current(d).dest /\ subs'[ch][d] = Current(d).id
  <1>1. subs \in [Channels -> [Conns -> SubIds \cup {NoSub}]]
    BY DEF TypeOK, RegistryTypeOK
  <1>2. ASSUME NEW c \in Conns, Subscribe(c)
        PROVE  \/ subs'[ch][d] \in {subs[ch][d], NoSub}
               \/ /\ Subscribe(d) /\ UNCHANGED got
                  /\ ch = Current(d).dest /\ subs'[ch][d] = Current(d).id
    <2>1. UNCHANGED got
      BY <1>2 DEF Subscribe
    <2>2. \/ subs' = subs
          \/ subs' = [subs EXCEPT ![Current(c).dest][c] = Current(c).id]
      BY <1>2 DEF Subscribe
    <2> QED
      BY <1>1, <1>2, <2>1, <2>2
  <1>3. ASSUME NEW c \in Conns, Unsubscribe(c)
        PROVE  subs'[ch][d] \in {subs[ch][d], NoSub}
    BY <1>1, <1>3 DEF Unsubscribe
  <1>4. ASSUME NEW k \in Calls, DisconnectStep(k)
        PROVE  subs'[ch][d] \in {subs[ch][d], NoSub}
    <2>1. ASSUME NEW x \in Channels, RemoveSub(k, x)
          PROVE  subs'[ch][d] \in {subs[ch][d], NoSub}
      BY <1>1, <2>1 DEF RemoveSub
    <2> QED
      BY <1>4, <2>1 DEF DisconnectStep, RemoveClient, CheckUser, ClearUser,
         registryVars
  <1>5. ASSUME NEW c \in Conns,
               \/ Accept(c) \/ HandOver(c) \/ Reply(c) \/ Close(c)
               \/ StartClose(c) \/ (\E f \in Inputs[c] : Receive(c, f))
               \/ Malformed(c) \/ Disconnect(c) \/ Send(c) \/ LookUp(c)
               \/ (\E x \in Conns : Visit(c, x)) \/ FanoutDone(c)
               \/ LoginCheck(c) \/ LoginCreate(c) \/ LoginBind(c)
               \/ LoginActivate(c)
        PROVE  subs' = subs
    BY <1>5 DEF Accept, HandOver, Reply, Close, StartClose, Receive, Malformed,
       Disconnect, Send, LookUp, Visit, FanoutDone, LoginCheck, LoginCreate,
       LoginBind, LoginActivate, registryVars
  <1>6. UNCHANGED vars \/ Quiet => subs' = subs
    BY DEF vars, Quiet
  <1> QED
    BY <1>2, <1>3, <1>4, <1>5, <1>6 DEF Next, Handle

(* What d asked for it has asked for ever after.                           *)
LEMMA SubscribedKept ==
  ASSUME TypeOK, [Next]_vars, NEW d \in Conns, NEW ch, NEW s,
         Subscribed(d, ch, s)
  PROVE  Subscribed(d, ch, s)'
  <1>1. PICK k \in 1 .. Len(got[d]) :
          /\ got[d][k].cmd = "SUBSCRIBE"
          /\ got[d][k].dest = ch /\ got[d][k].id = s
    BY DEF Subscribed, Sent
  <1>2. k \in 1 .. Len(got'[d]) /\ got'[d][k] = got[d][k]
    BY GotKept
  <1> QED
    BY <1>1, <1>2 DEF Subscribed, Sent

(* An entry that a loop holds after a step was held before, or the step    *)
(* read it in the registry.                                                *)
LEMMA PendingStep ==
  ASSUME TypeOK, TypeOK', [Next]_vars, NEW c \in Conns, NEW p \in Pending(c)'
  PROVE  /\ got'[c] = got[c] /\ p.to \in Conns
         /\ \/ p \in Pending(c)
            \/ /\ Visit(c, p.to) /\ Current(c).dest \in Channels
               /\ p.sub = subs[Current(c).dest][p.to] /\ p.sub # NoSub
  <1>1. /\ ahead \in [Conns -> [to : Conns, sub : SubIds] \cup {NoPick}]
        /\ pick \in [Conns -> [to : Conns, sub : SubIds] \cup {NoPick}]
        /\ got \in [Conns -> Seq(Frame)] /\ pc \in [Conns -> PCs]
    BY DEF TypeOK, WorkerTypeOK
  <1>2. p.to \in Conns /\ p # NoPick /\ p \in {ahead'[c], pick'[c]}
    BY DEF Pending, TypeOK, WorkerTypeOK
  <1>3. pc'[c] = "fanout"
    BY <1>2 DEF TypeOK, PhaseOK
  <1>4. ASSUME UNCHANGED <<got, ahead[c], pick[c]>>
        PROVE  got'[c] = got[c] /\ p \in Pending(c)
    BY <1>2, <1>4 DEF Pending
  <1>5. ASSUME NEW e \in Conns, Starts(e)
        PROVE  got'[c] = got[c] /\ p \in Pending(c)
    BY <1>4, <1>5, StartFrame
  <1>6. ASSUME NEW e \in Conns, LookUp(e) \/ HandOver(e)
        PROVE  got'[c] = got[c] /\ p \in Pending(c)
    BY <1>1, <1>2, <1>6 DEF LookUp, HandOver, Pending
  <1>7. ASSUME NEW e \in Conns, NEW x \in Conns, Visit(e, x)
        PROVE  /\ got'[c] = got[c]
               /\ \/ p \in Pending(c)
                  \/ /\ Visit(c, p.to) /\ Current(c).dest \in Channels
                     /\ p.sub = subs[Current(c).dest][p.to] /\ p.sub # NoSub
    <2>1. UNCHANGED <<got, pick>> /\ pc[e] = "fanout"
      BY <1>7 DEF Visit, Iterating
    <2>2. CASE e # c
      <3>1. ahead'[c] = ahead[c]
        BY <1>1, <1>7, <2>2 DEF Visit
      <3> QED
        BY <1>4, <2>1, <3>1
    <2>3. CASE e = c /\ p = pick[c]
      BY <1>2, <2>1, <2>3 DEF Pending
    <2>4. CASE e = c /\ p # pick[c]
      <3>1. p = ahead'[c]
        BY <1>2, <2>1, <2>4
      <3>2. /\ p.to = x /\ p.sub = subs[Current(c).dest][x]
            /\ subs[Current(c).dest][x] # NoSub
        BY <1>1, <1>2, <1>7, <2>4, <3>1, VisitEntry
      <3>3. Current(c).dest \in Channels
        <4>1. Current(c) \in Frame /\ Current(c).cmd = "SEND"
          BY <2>1, <2>4, CurrentFrame DEF TypeOK, PhaseOK
        <4> QED
          BY <4>1, FrameFields
      <3> QED
        BY <1>7, <2>1, <2>4, <3>2, <3>3
    <2> QED
      BY <2>2, <2>3, <2>4
  <1>8. ASSUME LoopsIdle
        PROVE  got'[c] = got[c] /\ p \in Pending(c)
    BY <1>2, <1>3, <1>8 DEF LoopsIdle, Pending
  <1> QED
    BY <1>2, <1>5, <1>6, <1>7, <1>8, LoopStep

(* Every step keeps the entries asked for.                                 *)
LEMMA StepAsked ==
  ASSUME TypeOK, TypeOK', EntriesAsked, PendingAsked, [Next]_vars
  PROVE  EntriesAsked' /\ PendingAsked'
  <1>1. ASSUME NEW ch \in Channels, NEW d \in Conns, NEW s,
               s = subs'[ch][d], s # NoSub
        PROVE  Subscribed(d, ch, s)'
    <2>1. CASE s = subs[ch][d]
      BY <1>1, <2>1, SubscribedKept DEF EntriesAsked
    <2>2. CASE /\ Subscribe(d) /\ UNCHANGED got
               /\ ch = Current(d).dest /\ s = Current(d).id
      <3>1. Len(got[d]) \in 1 .. Len(got[d]) /\ Current(d).cmd = "SUBSCRIBE"
        BY <2>2, CurrentFrame DEF Subscribe, Handling
      <3> QED
        BY <2>2, <3>1 DEF Subscribed, Sent, Current
    <2> QED
      BY <1>1, <2>1, <2>2, SubsStep
  <1>2. ASSUME NEW c \in Conns, NEW p \in Pending(c)', NEW ch,
               ch = Current(c)'.dest
        PROVE  Subscribed(p.to, ch, p.sub)'
    <2>1. ch = Current(c).dest /\ p.to \in Conns
      BY <1>2, PendingStep DEF Current
    <2>2. Subscribed(p.to, ch, p.sub)
      BY <2>1, PendingStep DEF PendingAsked, EntriesAsked
    <2> QED
      BY <2>1, <2>2, SubscribedKept
  <1> QED
    BY <1>1, <1>2 DEF EntriesAsked, PendingAsked

(* The MESSAGE m to d has an id d chose for its destination, and carries a *)
(* SEND to that destination.                                               *)
Addressed(d, m) ==
  /\ Subscribed(d, m.dest, m.sub)
  /\ got[m.body[1]][m.body[2]].cmd = "SEND"
  /\ got[m.body[1]][m.body[2]].dest = m.dest

(* A message that was addressed right stays so.                            *)
LEMMA AddressedKept ==
  ASSUME TypeOK, [Next]_vars, NEW d \in Conns, NEW m \in MessageFrame,
         Named(m), Addressed(d, m)
  PROVE  Addressed(d, m)'
  <1>1. got'[m.body[1]][m.body[2]] = got[m.body[1]][m.body[2]]
    BY MessageFields, GotKept DEF Named
  <1>2. \A ch, s : Subscribed(d, ch, s) => Subscribed(d, ch, s)'
    BY SubscribedKept
  <1> QED
    BY <1>1, <1>2 DEF Addressed, Subscribed

(* A new message is addressed right.                                       *)
LEMMA StepAddressed ==
  ASSUME TypeOK, MessagesNamed, PendingAsked, MessageIsAddressed, [Next]_vars
  PROVE  MessageIsAddressed'
  <1> SUFFICES ASSUME NEW d \in Conns, NEW i \in DOMAIN out'[d],
                      out'[d][i].kind = "MESSAGE"
               PROVE  \E m : m = out'[d][i] /\ Addressed(d, m)'
    BY DEF MessageIsAddressed, IsMessage, Addressed, Subscribed
  <1>1. CASE i \in DOMAIN out[d] /\ out'[d][i] = out[d][i]
    <2> DEFINE m == out[d][i]
    <2>1. m \in MessageFrame /\ Named(m) /\ Addressed(d, m)
      BY <1>1, WrittenMessage
      DEF MessagesNamed, MessageIsAddressed, IsMessage, Addressed, Subscribed
    <2>2. \A l \in MessageFrame :
            Named(l) /\ Addressed(d, l) => Addressed(d, l)'
      BY AddressedKept
    <2> QED
      BY <1>1, <2>1, <2>2
  <1>2. ASSUME NEW c \in Conns, HandOver(c), d = pick[c].to,
               out'[d][i] = FrameFor(c, pick[c].sub)
        PROVE  \E m : m = out'[d][i] /\ Addressed(d, m)'
    <2>1. /\ out'[d][i].dest = Current(c).dest
          /\ out'[d][i].sub = pick[c].sub
          /\ out'[d][i].body = <<c, Len(got[c])>>
      BY <1>2 DEF FrameFor
    <2>2. Subscribed(d, Current(c).dest, pick[c].sub)
      BY <1>2 DEF PendingAsked, Pending, HandOver
    <2>3. Current(c).cmd = "SEND"
      BY <1>2, HandOverMessage DEF TypeOK, PhaseOK
    <2>4. got' = got
      BY <1>2, LoopFrame
    <2> QED
      BY <2>1, <2>2, <2>3, <2>4 DEF Addressed, Subscribed, Sent, Current
  <1> QED
    BY <1>1, <1>2, MessageStep DEF OldMessages, OneNewMessage

(* The inductive invariant of the subscriptions.                           *)
LEMMA AskedStart == Init => EntriesAsked /\ PendingAsked
  <1>1. Init => EntriesAsked
    BY DEF Init, EntriesAsked
  <1>2. Init => \A c \in Conns : ahead[c] = NoPick /\ pick[c] = NoPick
    BY DEF Init
  <1> QED
    BY <1>1, <1>2 DEF PendingAsked, Pending

THEOREM AskedHolds == Spec => [](EntriesAsked /\ PendingAsked)
  <1>1. /\ TypeOK /\ TypeOK' /\ EntriesAsked /\ PendingAsked /\ [Next]_vars
        => EntriesAsked' /\ PendingAsked'
    BY StepAsked
  <1> QED
    BY <1>1, AskedStart, TypesHold, PTL DEF Spec

(* The subscription header of a MESSAGE is an id its receiver chose for    *)
(* the destination, and the SEND it carries was to that destination        *)
(* (MessageIsAddressed).                                                   *)
THEOREM AddressesHold == Spec => []MessageIsAddressed
  <1>1. Init => MessageIsAddressed
    <2>1. DOMAIN <<>> = {}
      OBVIOUS
    <2>2. Init => \A c \in Conns : out[c] = <<>>
      BY DEF Init
    <2> QED
      BY <2>1, <2>2 DEF MessageIsAddressed
  <1>2. /\ TypeOK /\ FanoutOK /\ PendingAsked /\ MessageIsAddressed
        /\ [Next]_vars
        => MessageIsAddressed'
    BY StepAddressed DEF FanoutOK
  <1> QED
    BY <1>1, <1>2, FanoutHolds, AskedHolds, PTL DEF Spec

-----------------------------------------------------------------------------
(***************************************************************************)
(* Messages after the receipt of an UNSUBSCRIBE.                           *)
(***************************************************************************)

(* What has been written to d, or is about to be.                          *)
Given(d) ==
  {out[d][i] : i \in DOMAIN out[d]} \cup {answer[d][i] : i \in DOMAIN answer[d]}

RepliesOK == \A d \in Conns : \A r \in Given(d) : Replies(d, r)

(* A subscription that was ended is in no channel, from the step that      *)
(* removes it on, until its subscriber asks again.                         *)
EndedGone ==
  \A d \in Conns : \A r \in Given(d) : \A s \in SubIds, ch \in Channels :
    Ends(d, r, s, ch) => \A x \in Channels : subs[x][d] # s

(* When d got a stray message of c, no loop of c holds that subscription.  *)
NoStrayPending ==
  \A d \in Conns : \A j \in Strays(d) : \A p \in Pending(out[d][j].body[1]) :
    p.to = d => p.sub # out[d][j].sub

(* What is new in what a connection is given.                              *)
LEMMA GivenStep ==
  ASSUME TypeOK, [Next]_vars, NEW d \in Conns, NEW r \in Given(d)'
  PROVE  \/ r \in Given(d)
         \/ r \in MessageFrame
         \/ /\ answer'[d] # answer[d] /\ answer'[d] # <<>>
            /\ \E i \in DOMAIN answer'[d] : r = answer'[d][i]
  <1>1. ASSUME NEW i \in DOMAIN answer'[d], r = answer'[d][i]
        PROVE  \/ r \in Given(d)
               \/ answer'[d] # answer[d] /\ answer'[d] # <<>>
    BY <1>1 DEF Given
  <1>2. ASSUME NEW i \in DOMAIN out'[d], r = out'[d][i]
        PROVE  r \in Given(d) \/ r \in MessageFrame
    <2>1. CASE out'[d] = out[d]
      BY <1>2, <2>1 DEF Given
    <2>2. ASSUME NEW m \in MessageFrame, out'[d] = Append(out[d], m)
          PROVE  r \in Given(d) \/ r = m
      <3> DEFINE F == ReplyFrame \cup MessageFrame
                 old == out[d]
      <3>1. old \in Seq(F) /\ m \in F
        BY DEF TypeOK, HandlerTypeOK
      <3>2. \A k \in DOMAIN old : old[k] \in Given(d)
        BY DEF Given
      <3>3. i \in DOMAIN Append(old, m) /\ r = Append(old, m)[i]
        BY <1>2, <2>2
      <3> HIDE DEF old, F
      <3>4. /\ i \in 1 .. Len(old) + 1 /\ Len(old) \in Nat
            /\ DOMAIN old = 1 .. Len(old)
        BY <3>1, <3>3, AppendProperties
      <3>5. CASE i = Len(old) + 1
        BY <3>1, <3>3, <3>5, AppendProperties
      <3>6. CASE i \in 1 .. Len(old)
        BY <3>1, <3>2, <3>3, <3>4, <3>6, AppendProperties
      <3> QED
        BY <3>4, <3>5, <3>6
    <2>3. CASE out'[d] = out[d] \o answer[d]
      <3> DEFINE Earlier(q) == \/ \E j \in DOMAIN out[d] : q = out[d][j]
                               \/ \E j \in DOMAIN answer[d] : q = answer[d][j]
      <3>1. \A k \in DOMAIN out'[d] : \A q : q = out'[d][k] => Earlier(q)
        BY <2>3, ReplyElements
      <3>2. Earlier(r)
        BY <1>2, <3>1
      <3> QED
        BY <3>2 DEF Given
    <2> QED
      BY <2>1, <2>2, <2>3, OutGrows
  <1> QED
    BY <1>1, <1>2 DEF Given

(* Every reply answers a frame that was received.                          *)
LEMMA StepReplies ==
  ASSUME TypeOK, RepliesOK, [Next]_vars
  PROVE  RepliesOK'
  <1> SUFFICES ASSUME NEW d \in Conns, NEW r \in Given(d)'
               PROVE  Replies(d, r)'
    BY DEF RepliesOK
  <1>1. CASE r \in Given(d)
    BY <1>1, FinishesStable DEF RepliesOK
  <1>2. CASE r \in MessageFrame
    BY <1>2 DEF MessageFrame, Replies
  <1>3. CASE /\ answer'[d] # answer[d]
             /\ \E i \in DOMAIN answer'[d] : r = answer'[d][i]
    BY <1>3, ReturnedReply
  <1> QED
    BY <1>1, <1>2, <1>3, GivenStep

(* A worker that is busy again has received a frame since its last reply.  *)
AnsweredBefore ==
  \A c \in Conns : \A i \in DOMAIN out[c] :
    out[c][i].kind # "MESSAGE" =>
      pc[c] \in {"idle", "reply"} \/ out[c][i].n < Len(got[c])

LEMMA StepAnsweredBefore ==
  ASSUME TypeOK, RepliesOK, AnsweredBefore, [Next]_vars
  PROVE  AnsweredBefore'
  <1> SUFFICES ASSUME NEW c \in Conns, NEW i \in DOMAIN out'[c],
                      NEW r, r = out'[c][i], r.kind # "MESSAGE",
                      pc'[c] \notin {"idle", "reply"}
               PROVE  r.n < Len(got'[c])
    BY DEF AnsweredBefore
  <1>1. /\ out[c] \in Seq(ReplyFrame \cup MessageFrame)
        /\ got[c] \in Seq(Frame) /\ pc \in [Conns -> PCs]
    BY DEF TypeOK, WorkerTypeOK, HandlerTypeOK
  <1>2. i \in DOMAIN out[c] /\ out[c][i] = r
    <2>1. ~Reply(c)
      BY <1>1 DEF Reply
    <2>2. CASE out'[c] = out[c]
      BY <2>2
    <2>3. ASSUME NEW m \in MessageFrame, out'[c] = Append(out[c], m)
          PROVE  i \in DOMAIN out[c] /\ out[c][i] = r
      <3>1. m.kind = "MESSAGE"
        BY DEF MessageFrame
      <3>2. i \in 1 .. Len(out[c]) + 1 /\ Len(out[c]) \in Nat
            /\ out'[c][Len(out[c]) + 1] = m
            /\ \A j \in 1 .. Len(out[c]) : out'[c][j] = out[c][j]
        <4> DEFINE F == ReplyFrame \cup MessageFrame
                   old == out[c]
        <4>1. old \in Seq(F) /\ m \in F /\ out'[c] = Append(old, m)
          BY <1>1, <2>3
        <4> HIDE DEF F, old
        <4>2. /\ Len(old) \in Nat /\ DOMAIN Append(old, m) = 1 .. Len(old) + 1
              /\ Append(old, m)[Len(old) + 1] = m
              /\ \A j \in 1 .. Len(old) : Append(old, m)[j] = old[j]
          BY <4>1, AppendProperties
        <4> QED
          BY <4>1, <4>2 DEF old
      <3>3. i # Len(out[c]) + 1
        BY <3>1, <3>2
      <3> QED
        BY <1>1, <3>2, <3>3
    <2> QED
      BY <2>1, <2>2, <2>3, OutGrows
  <1>3. Replies(c, r)
    BY <1>2 DEF RepliesOK, Given
  <1>4. Len(got[c]) \in Nat /\ r.n \in 1 .. Len(got[c])
    BY <1>1, <1>3 DEF Replies
  <1>5. CASE pc[c] \in {"idle", "reply"}
    <2>1. PICK f \in Inputs[c] : Receive(c, f)
      BY <1>5, ReturnedStep
    <2>2. f \in Frame /\ got'[c] = Append(got[c], f)
      BY <2>1, BrokerAssumption DEF Receive, TypeOK, WorkerTypeOK
    <2>3. Len(got'[c]) = Len(got[c]) + 1
      BY <1>1, <2>2, AppendProperties
    <2> QED
      BY <1>4, <2>3
  <1>6. CASE pc[c] \notin {"idle", "reply"}
    <2>1. r.n < Len(got[c])
      BY <1>2, <1>6 DEF AnsweredBefore
    <2>2. Len(got'[c]) \in Nat /\ Len(got'[c]) \geq Len(got[c])
      <3>1. CASE got'[c] = got[c]
        BY <1>4, <3>1
      <3>2. ASSUME NEW f \in Frame, got'[c] = Append(got[c], f)
            PROVE  Len(got'[c]) = Len(got[c]) + 1
        BY <1>1, <3>2, AppendProperties
      <3> QED
        BY <1>4, <3>1, <3>2, GotGrows
    <2> QED
      BY <1>4, <2>1, <2>2
  <1> QED
    BY <1>5, <1>6

(* A final reply stays one.                                                *)
LEMMA FinishesKept ==
  ASSUME TypeOK, [Next]_vars, NEW c \in Conns, NEW r, Replies(c, r),
         Finishes(c, r)
  PROVE  Finishes(c, r)'
  <1>1. CASE r.kind = "ERROR"
    BY <1>1 DEF Finishes
  <1>2. CASE r.kind = "RECEIPT" /\ got[c][r.n].cmd = "DISCONNECT"
    <2>1. r.n \in 1 .. Len(got[c])
      BY <1>2 DEF Replies
    <2>2. got'[c][r.n] = got[c][r.n]
      BY <2>1, GotKept
    <2> QED
      BY <1>2, <2>2 DEF Finishes
  <1> QED
    BY <1>1, <1>2 DEF Finishes

(* c has been written its final reply, or its worker has it to return.     *)
FinalWritten(c) == \E i \in DOMAIN out[c] : Finishes(c, out[c][i])
FinalReturned(c) == \E i \in DOMAIN answer[c] : Finishes(c, answer[c][i])

LEMMA FinalKept ==
  ASSUME TypeOK, RepliesOK, [Next]_vars, NEW c \in Conns
  PROVE  /\ FinalWritten(c) => FinalWritten(c)'
         /\ FinalReturned(c) /\ answer'[c] = answer[c] => FinalReturned(c)'
         /\ FinalReturned(c) /\ Reply(c) /\ ~closed[c] => FinalWritten(c)'
  <1> DEFINE F == ReplyFrame \cup MessageFrame
  <1>1. out[c] \in Seq(F) /\ answer[c] \in Seq(F)
    <2>1. answer[c] \in Seq(ReplyFrame)
      BY DEF TypeOK, WorkerTypeOK
    <2> QED
      BY <2>1, SeqMonotonic DEF TypeOK, HandlerTypeOK
  <1>2. ASSUME NEW i \in DOMAIN out[c], Finishes(c, out[c][i])
        PROVE  FinalWritten(c)'
    <2>1. i \in DOMAIN out'[c] /\ out'[c][i] = out[c][i]
      BY OutKept
    <2>2. \A r : r = out[c][i] => Replies(c, r) /\ Finishes(c, r)
      BY <1>2 DEF RepliesOK, Given
    <2>3. \A r : r = out'[c][i] => Finishes(c, r)'
      BY <2>1, <2>2, FinishesKept
    <2> QED
      BY <2>1, <2>3 DEF FinalWritten, Finishes
  <1>3. ASSUME NEW i \in DOMAIN answer[c], Finishes(c, answer[c][i])
        PROVE  \A r : r = answer[c][i] => Finishes(c, r)'
    <2>1. \A r : r = answer[c][i] => Replies(c, r) /\ Finishes(c, r)
      BY <1>3 DEF RepliesOK, Given
    <2> QED
      BY <2>1, FinishesKept
  <1>4. ASSUME NEW i \in DOMAIN answer[c], Finishes(c, answer[c][i]),
               answer'[c] = answer[c]
        PROVE  FinalReturned(c)'
    <2>1. i \in DOMAIN answer'[c]
          /\ \A r : r = answer'[c][i] => Finishes(c, r)'
      BY <1>3, <1>4
    <2> QED
      BY <2>1 DEF FinalReturned, Finishes
  <1>5. ASSUME NEW i \in DOMAIN answer[c], Finishes(c, answer[c][i]),
               Reply(c), ~closed[c]
        PROVE  FinalWritten(c)'
    <2>1. out'[c] = out[c] \o answer[c]
      BY <1>5 DEF Reply, TypeOK, HandlerTypeOK
    <2>2. Len(out[c]) + i \in DOMAIN out'[c]
          /\ out'[c][Len(out[c]) + i] = answer[c][i]
      <3> DEFINE old == out[c]
                 new == answer[c]
      <3> HIDE DEF F, old, new
      <3>1. old \in Seq(F) /\ new \in Seq(F) /\ i \in 1 .. Len(new)
        BY <1>1 DEF old, new
      <3>2. /\ Len(old) + i \in DOMAIN (old \o new)
            /\ (old \o new)[Len(old) + i] = new[i]
        BY <3>1, ConcatProperties
      <3> QED
        BY <2>1, <3>2 DEF old, new
    <2>3. \A r : r = answer[c][i] => Finishes(c, r)'
      BY <1>3, <1>5
    <2>4. \A r : r = out'[c][Len(out[c]) + i] => Finishes(c, r)'
      BY <2>2, <2>3
    <2> QED
      BY <2>2, <2>4 DEF FinalWritten, Finishes
  <1> QED
    BY <1>2, <1>4, <1>5 DEF FinalWritten, FinalReturned

(* What ends a subscription after a step ended it before, if it was there: *)
(* later frames can only start the subscription again.                     *)
LEMMA EndsBack ==
  ASSUME TypeOK, [Next]_vars, NEW d \in Conns, NEW r, Replies(d, r),
         NEW s, NEW ch, Ends(d, r, s, ch)'
  PROVE  Ends(d, r, s, ch) /\ r.n \in 1 .. Len(got[d])
  <1>1. r.kind = "RECEIPT" /\ r.n \in 1 .. Len(got[d])
    BY DEF Ends, Replies
  <1>2. got'[d][r.n] = got[d][r.n]
    BY <1>1, GotKept
  <1>3. ASSUME NEW l \in Sent(d, "SUBSCRIBE"), got[d][l].id = s
        PROVE  l < r.n /\ got[d][l].dest = ch
    <2>1. l \in 1 .. Len(got'[d]) /\ got'[d][l] = got[d][l]
          /\ got[d][l].cmd = "SUBSCRIBE"
      BY GotKept DEF Sent
    <2> QED
      BY <1>3, <2>1 DEF Ends, Sent
  <1> QED
    BY <1>1, <1>2, <1>3 DEF Ends

(* The receipt of an UNSUBSCRIBE is returned by the step that removes the  *)
(* subscription.                                                           *)
LEMMA ReceiptOfUnsubscribe ==
  ASSUME TypeOK, [Next]_vars, NEW d \in Conns,
         answer'[d] # answer[d], NEW i \in DOMAIN answer'[d],
         NEW r, r = answer'[d][i], r.kind = "RECEIPT",
         got'[d][r.n].cmd = "UNSUBSCRIBE"
  PROVE  /\ got' = got /\ Current(d) = got[d][r.n] /\ Current(d) \in Frame
         /\ \E x \in Channels :
              /\ subs[x][d] = Current(d).id
              /\ subs' = [subs EXCEPT ![x][d] = NoSub]
  <1>1. answer \in [Conns -> Seq(ReplyFrame)] /\ answer'[d] # <<>>
    BY DEF TypeOK, WorkerTypeOK
  <1>2. pc[d] \notin {"off", "idle"} /\ UNCHANGED got
    BY <1>1, AnswerStep
  <1>3. answer'[d] \in {Receipt(d), Error(d), Connected(d)}
    BY <1>1, AnswerStep
  <1>4. r.n = Len(got[d])
    BY <1>3 DEF Receipt, Error, Connected, Answer
  <1>5. Current(d) = got[d][r.n] /\ Current(d).cmd = "UNSUBSCRIBE"
    BY <1>2, <1>4 DEF Current
  <1>6. Unsubscribe(d)
    <2>1. ASSUME NEW e \in Conns,
                 \/ Malformed(e) \/ Disconnect(e) \/ Subscribe(e)
                 \/ Unsubscribe(e) \/ FanoutDone(e) \/ Send(e) \/ LoginCheck(e)
                 \/ LoginCreate(e) \/ LoginActivate(e)
          PROVE  e = d /\ Unsubscribe(e)
      <3>1. ASSUME NEW ans, Complete(e, ans) \/ Leave(e, ans)
            PROVE  answer' = [answer EXCEPT ![e] = ans]
        BY <3>1 DEF Complete, Leave
      <3>2. UNCHANGED answer \/ \E ans : answer' = [answer EXCEPT ![e] = ans]
        BY <2>1, <3>1 DEF Malformed, Disconnect, Subscribe, Unsubscribe,
           FanoutDone, Send, LoginCheck, LoginCreate, LoginActivate,
           LoginReturns, EnterLogin
      <3>3. e = d
        BY <1>1, <3>2
      <3>4. \/ Current(e).cmd # "UNSUBSCRIBE"
            \/ Unsubscribe(e)
        BY <2>1 DEF Malformed, Disconnect, Subscribe, FanoutDone, Send,
           LoginCheck, LoginCreate, LoginActivate, Handling, Fanning, TypeOK,
           PhaseOK
      <3> QED
        BY <1>5, <3>3, <3>4
    <2>2. ASSUME NEW e \in Conns, Reply(e)
          PROVE  FALSE
      BY <1>1, <2>2 DEF Reply
    <2>3. ASSUME NEW e \in Conns,
                 \/ Accept(e) \/ LookUp(e) \/ HandOver(e) \/ LoginBind(e)
                 \/ \E x \in Conns : Visit(e, x)
                 \/ \E f \in Inputs[e] : Receive(e, f)
                 \/ Close(e) \/ StartClose(e)
          PROVE  FALSE
      <3>1. UNCHANGED answer
        BY <2>3 DEF Accept, LookUp, HandOver, LoginBind, Visit, Receive, Close,
           StartClose, workerVars
      <3> QED
        BY <3>1
    <2>4. ASSUME NEW k \in Calls, DisconnectStep(k)
          PROVE  FALSE
      <3>1. UNCHANGED answer
        BY <2>4 DEF DisconnectStep, RemoveClient, CheckUser, ClearUser,
           RemoveSub, workerVars
      <3> QED
        BY <3>1
    <2>5. ~(UNCHANGED vars \/ Quiet)
      BY DEF vars, Quiet
    <2> QED
      BY <2>1, <2>2, <2>3, <2>4, <2>5 DEF Next, Handle
  <1>7. ~Leave(d, Error(d))
    <2>1. Leave(d, Error(d)) => answer'[d] = Error(d)
      BY <1>1 DEF Leave
    <2>2. answer'[d] # Error(d)
      BY DEF Error, Answer
    <2> QED
      BY <2>1, <2>2
  <1>8. \E x \in Channels :
          subs[x][d] = Current(d).id /\ subs' = [subs EXCEPT ![x][d] = NoSub]
    BY <1>6, <1>7 DEF Unsubscribe
  <1> QED
    BY <1>2, <1>5, <1>8, CurrentFrame

(* An ended subscription comes back only with a new SUBSCRIBE.             *)
LEMMA StepEnded ==
  ASSUME TypeOK, EntriesAsked, RepliesOK, EndedGone, [Next]_vars
  PROVE  EndedGone'
  <1> SUFFICES ASSUME NEW d \in Conns, NEW r \in Given(d)',
                      NEW s \in SubIds, NEW ch \in Channels,
                      Ends(d, r, s, ch)', NEW x \in Channels
               PROVE  subs'[x][d] # s
    BY DEF EndedGone
  <1>1. subs \in [Channels -> [Conns -> SubIds \cup {NoSub}]]
        /\ NoSub \notin SubIds
    BY BrokerAssumption DEF TypeOK, RegistryTypeOK
  <1>2. CASE r \in Given(d)
    <2>1. Ends(d, r, s, ch) /\ r.n \in 1 .. Len(got[d])
      BY <1>2, EndsBack DEF RepliesOK
    <2>2. subs[x][d] # s
      BY <1>2, <2>1 DEF EndedGone
    <2>3. CASE subs'[x][d] \in {subs[x][d], NoSub}
      BY <1>1, <2>2, <2>3
    <2>4. CASE Subscribe(d) /\ subs'[x][d] = Current(d).id
      <3>1. Len(got[d]) \in 1 .. Len(got[d]) /\ Current(d).cmd = "SUBSCRIBE"
        BY <2>4, CurrentFrame DEF Subscribe, Handling
      <3>2. Current(d).id = s => Len(got[d]) < r.n
        BY <2>1, <3>1 DEF Ends, Sent, Current
      <3> QED
        BY <2>1, <2>4, <3>1, <3>2
    <2> QED
      BY <2>3, <2>4, SubsStep
  <1>3. CASE r \in MessageFrame
    BY <1>3 DEF MessageFrame, Ends
  <1>4. CASE /\ answer'[d] # answer[d]
             /\ \E i \in DOMAIN answer'[d] : r = answer'[d][i]
    <2>1. r.kind = "RECEIPT" /\ got'[d][r.n].cmd = "UNSUBSCRIBE"
      BY DEF Ends
    <2>2. got' = got /\ Current(d) = got[d][r.n]
      BY <1>4, <2>1, ReceiptOfUnsubscribe
    <2>3. Current(d).id = s
      BY <2>2 DEF Ends
    <2>4. PICK y \in Channels :
            subs[y][d] = s /\ subs' = [subs EXCEPT ![y][d] = NoSub]
      BY <1>4, <2>1, <2>3, ReceiptOfUnsubscribe
    <2>5. ASSUME NEW z \in Channels, subs[z][d] = s
          PROVE  z = ch
      <3>1. Subscribed(d, z, s)
        BY <1>1, <2>5 DEF EntriesAsked
      <3>2. Ends(d, r, s, ch)
        BY <2>2 DEF Ends, Sent
      <3> QED
        BY <3>1, <3>2 DEF Subscribed, Ends
    <2> QED
      BY <1>1, <2>4, <2>5
  <1> QED
    BY <1>2, <1>3, <1>4, GivenStep


(* A stray message after a step was one before, or the step hands it over. *)
LEMMA StrayStep ==
  ASSUME TypeOK, RepliesOK, [Next]_vars, NEW d \in Conns, NEW j \in Strays(d)',
         NEW m, m = out'[d][j]
  PROVE  /\ m.kind = "MESSAGE"
         /\ \E r \in Given(d) : Ends(d, r, m.sub, m.dest)
         /\ \/ j \in Strays(d) /\ m = out[d][j]
            \/ \E c \in Conns :
                 /\ HandOver(c) /\ d = pick[c].to /\ j = Len(out[d]) + 1
                 /\ m = FrameFor(c, pick[c].sub)
  <1>1. PICK i \in 1 .. j - 1 : Ends(d, out[d][i], m.sub, m.dest)'
    BY DEF Strays
  <1>2. j \in DOMAIN out'[d] /\ m.kind = "MESSAGE"
    BY DEF Strays, IsMessage
  <1>3. /\ DOMAIN out[d] = 1 .. Len(out[d]) /\ Len(out[d]) \in Nat
    BY DEF TypeOK, HandlerTypeOK
  <1>4. \/ j \in DOMAIN out[d] /\ m = out[d][j]
        \/ \E c \in Conns :
             /\ HandOver(c) /\ d = pick[c].to /\ j = Len(out[d]) + 1
             /\ m = FrameFor(c, pick[c].sub)
    BY <1>2, MessageStep DEF OldMessages, OneNewMessage
  <1>5. i \in DOMAIN out[d] /\ i \in 1 .. j - 1
    BY <1>1, <1>3, <1>4
  <1>6. out'[d][i] = out[d][i] /\ out[d][i] \in Given(d)
    BY <1>5, OutKept DEF Given
  <1> DEFINE r == out[d][i]
  <1>7. Ends(d, r, m.sub, m.dest)
    <2>1. Replies(d, r)
      BY <1>6 DEF RepliesOK
    <2>2. \A q, s, ch : Replies(d, q) /\ Ends(d, q, s, ch)' => Ends(d, q, s, ch)
      BY EndsBack
    <2>3. \E q : q = r /\ Ends(d, q, m.sub, m.dest)'
      BY <1>1, <1>6 DEF Ends
    <2> QED
      BY <2>1, <2>2, <2>3
  <1>8. j \in DOMAIN out[d] /\ m = out[d][j] => j \in Strays(d)
    BY <1>2, <1>5, <1>7 DEF Strays, IsMessage
  <1> QED
    BY <1>2, <1>4, <1>6, <1>7, <1>8

(* No loop reads an ended subscription again.                              *)
LEMMA StepStray ==
  ASSUME TypeOK, TypeOK', LoopOK, RepliesOK, EndedGone, NoStrayPending,
         [Next]_vars
  PROVE  NoStrayPending'
  <1> SUFFICES ASSUME NEW d \in Conns, NEW j \in Strays(d)',
                      NEW m, m = out'[d][j],
                      NEW c, c = m.body[1], NEW p \in Pending(c)',
                      p.to = d, p.sub = m.sub
               PROVE  FALSE
    BY DEF NoStrayPending
  <1>1. PICK r \in Given(d) : Ends(d, r, m.sub, m.dest)
    BY StrayStep
  <1>2. m \in MessageFrame
    <2>1. j \in Strays(d) => j \in DOMAIN out[d]
      BY DEF Strays
    <2> QED
      BY <2>1, StrayStep, WrittenMessage, HandOverMessage
  <1>3. c \in Conns /\ m.sub \in SubIds /\ m.dest \in Channels
    BY <1>2, MessageFields
  <1>4. p \in Pending(c)
    <2>1. \A x \in Channels : subs[x][d] # p.sub
      BY <1>1, <1>3 DEF EndedGone
    <2> QED
      BY <1>3, <2>1, PendingStep
  <1>5. CASE j \in Strays(d) /\ m = out[d][j]
    BY <1>4, <1>5 DEF NoStrayPending
  <1>6. ASSUME NEW e \in Conns, HandOver(e), d = pick[e].to,
               m = FrameFor(e, pick[e].sub)
        PROVE  FALSE
    <2>1. e = c
      BY <1>6 DEF FrameFor
    <2>2. pick'[c] = NoPick /\ pick[c] # NoPick /\ ahead'[c] = ahead[c]
      BY <1>3, <1>6, <2>1 DEF HandOver, TypeOK, WorkerTypeOK
    <2>3. p = ahead[c] /\ ahead[c] # NoPick
      BY <2>2 DEF Pending
    <2> QED
      BY <1>3, <1>6, <2>1, <2>2, <2>3 DEF LoopOK
  <1> QED
    BY <1>5, <1>6, StrayStep

(* A second stray message of a publisher cannot be handed over.            *)
LEMMA StepOneStray ==
  ASSUME TypeOK, RepliesOK, NoStrayPending, AtMostOneStray, [Next]_vars
  PROVE  AtMostOneStray'
  <1> SUFFICES ASSUME NEW d \in Conns,
                      NEW i \in Strays(d)', NEW j \in Strays(d)',
                      NEW l, l = out'[d][i], NEW m, m = out'[d][j],
                      l.body[1] = m.body[1], l.sub = m.sub
               PROVE  i = j
    BY DEF AtMostOneStray
  <1> DEFINE Old(k, x) == k \in Strays(d) /\ x = out[d][k]
             New(k, x) == \E c \in Conns :
                            /\ HandOver(c) /\ d = pick[c].to
                            /\ k = Len(out[d]) + 1
                            /\ x = FrameFor(c, pick[c].sub)
  <1>1. Old(i, l) \/ New(i, l)
    BY StrayStep
  <1>2. Old(j, m) \/ New(j, m)
    BY StrayStep
  <1>3. ASSUME NEW k, NEW x, NEW n, NEW y, Old(k, x), New(n, y),
               x.body[1] = y.body[1], x.sub = y.sub
        PROVE  FALSE
    <2>1. PICK c \in Conns : /\ HandOver(c) /\ d = pick[c].to
                             /\ y = FrameFor(c, pick[c].sub)
      BY <1>3
    <2>2. pick[c] \in Pending(c) /\ y.sub = pick[c].sub /\ y.body[1] = c
      BY <2>1 DEF Pending, HandOver, FrameFor
    <2> QED
      BY <1>3, <2>1, <2>2 DEF NoStrayPending
  <1>4. CASE Old(i, l) /\ Old(j, m)
    BY <1>4 DEF AtMostOneStray
  <1> HIDE DEF Old
  <1>5. CASE New(i, l) /\ New(j, m)
    BY <1>5
  <1> HIDE DEF New
  <1> QED
    BY <1>1, <1>2, <1>3, <1>4, <1>5

(* The inductive invariant of what is left of an ended subscription.       *)
EndedOK == RepliesOK /\ EndedGone /\ NoStrayPending

(* The invariant of ended subscriptions holds.                             *)
THEOREM EndedHolds == Spec => []EndedOK
  <1>1. Init => EndedOK
    <2>1. DOMAIN <<>> = {}
      OBVIOUS
    <2>2. Init => \A d \in Conns : Given(d) = {} /\ Strays(d) = {}
      BY <2>1 DEF Init, Given, Strays
    <2> QED
      BY <2>2 DEF EndedOK, RepliesOK, EndedGone, NoStrayPending
  <1>2. /\ TypeOK /\ TypeOK' /\ FanoutOK /\ EntriesAsked /\ EndedOK
        /\ [Next]_vars
        => EndedOK'
    BY StepReplies, StepEnded, StepStray DEF EndedOK, FanoutOK
  <1> QED
    BY <1>1, <1>2, FanoutHolds, AskedHolds, TypesHold, PTL DEF Spec

(* After the receipt of an UNSUBSCRIBE every publisher's loop hands over   *)
(* one MESSAGE of that subscription at the most (AtMostOneStray).          *)
THEOREM OneStrayHolds == Spec => []AtMostOneStray
  <1>1. Init => AtMostOneStray
    <2>1. DOMAIN <<>> = {}
      OBVIOUS
    <2>2. Init => \A d \in Conns : Strays(d) = {}
      BY <2>1 DEF Init, Strays
    <2> QED
      BY <2>2 DEF AtMostOneStray
  <1>2. TypeOK /\ EndedOK /\ AtMostOneStray /\ [Next]_vars => AtMostOneStray'
    BY StepOneStray DEF EndedOK
  <1> QED
    BY <1>1, <1>2, EndedHolds, TypesHold, PTL DEF Spec

-----------------------------------------------------------------------------
(***************************************************************************)
(* Who gets a message.                                                     *)
(***************************************************************************)

(* A connection that is owed a message is listening still, and before the  *)
(* loop or served by it; when the worker returns, all of them are served.  *)
OwedOK ==
  \A c \in Conns : \A d \in owed[c] :
    /\ d \in Conns
    /\ pc[c] = "fanout" =>
         /\ Listening(d, Current(c).dest)
         /\ \/ d \in todo[c] \/ Handed(c, d)
            \/ \E p \in Pending(c) : p.to = d
    /\ pc[c] = "reply" => Handed(c, d)

(* A worker decodes a frame only when it is idle.                          *)
LEMMA GotStays ==
  ASSUME TypeOK, [Next]_vars, NEW c \in Conns, pc[c] # "idle"
  PROVE  got'[c] = got[c]
  <1>1. ASSUME NEW e \in Conns, NEW f \in Inputs[e], Receive(e, f)
        PROVE  got'[c] = got[c]
    BY <1>1 DEF Receive, TypeOK, WorkerTypeOK
  <1>2. ASSUME NEW e \in Conns,
               Accept(e) \/ Handle(e) \/ HandOver(e) \/ Reply(e)
        PROVE  UNCHANGED got
    BY <1>2 DEF Accept, Handle, HandOver, Reply, Malformed, Disconnect,
       Subscribe, Unsubscribe, Send, Visit, LookUp, FanoutDone, LoginCheck,
       LoginCreate, LoginBind, LoginActivate
  <1>3. ASSUME NEW e \in Conns, Close(e) \/ StartClose(e)
        PROVE  UNCHANGED got
    BY <1>3 DEF Close, StartClose, workerVars
  <1>4. ASSUME NEW k \in Calls, DisconnectStep(k)
        PROVE  UNCHANGED got
    BY <1>4 DEF DisconnectStep, RemoveClient, CheckUser, ClearUser, RemoveSub,
       workerVars
  <1>5. UNCHANGED vars \/ Quiet => UNCHANGED got
    BY DEF vars, Quiet
  <1> QED
    BY <1>1, <1>2, <1>3, <1>4, <1>5 DEF Next

(* What a step does to a loop that is running.                             *)
LEMMA FanStep ==
  ASSUME TypeOK, [Next]_vars, NEW c \in Conns, pc[c] = "fanout"
  PROVE  \/ \E x \in Conns : Visit(c, x)
         \/ LookUp(c) \/ HandOver(c) \/ FanoutDone(c)
         \/ UNCHANGED <<pc[c], todo[c], ahead[c], pick[c]>>
  <1> DEFINE Idle == UNCHANGED <<pc[c], todo[c], ahead[c], pick[c]>>
  <1>1. /\ todo \in [Conns -> SUBSET Conns] /\ pc \in [Conns -> PCs]
        /\ ahead \in [Conns -> [to : Conns, sub : SubIds] \cup {NoPick}]
        /\ pick \in [Conns -> [to : Conns, sub : SubIds] \cup {NoPick}]
    BY DEF TypeOK, WorkerTypeOK
  <1>2. ASSUME NEW e \in Conns \ {c},
               \/ LookUp(e) \/ HandOver(e) \/ FanoutDone(e)
               \/ \E x \in Conns : Visit(e, x)
        PROVE  Idle
    BY <1>1, <1>2 DEF LookUp, HandOver, FanoutDone, Visit, Complete, loopVars
  <1>3. ASSUME NEW e \in Conns, Send(e)
        PROVE  Idle
    <2>1. e # c /\ UNCHANGED <<ahead, pick>>
      BY <1>3 DEF Send, Handling
    <2>2. \/ UNCHANGED todo \/ todo' = [todo EXCEPT ![e] = Conns]
      BY <1>3 DEF Send
    <2>3. \E p : pc' = [pc EXCEPT ![e] = p]
      BY <1>3 DEF Send, Leave
    <2> QED
      BY <1>1, <2>1, <2>2, <2>3
  <1>4. ASSUME NEW e \in Conns,
               \/ Malformed(e) \/ Disconnect(e) \/ Subscribe(e)
               \/ Unsubscribe(e) \/ LoginCheck(e) \/ LoginCreate(e)
               \/ LoginBind(e) \/ LoginActivate(e) \/ Accept(e) \/ Reply(e)
               \/ \E f \in Inputs[e] : Receive(e, f)
        PROVE  Idle
    <2>1. UNCHANGED <<todo, ahead, pick>> /\ pc[e] # "fanout"
      BY <1>4 DEF Malformed, Disconnect, Subscribe, Unsubscribe, LoginCheck,
         LoginCreate, LoginBind, LoginActivate, Accept, Reply, Receive,
         Handling, loopVars
    <2>2. \E p : pc' = [pc EXCEPT ![e] = p]
      BY <1>4 DEF Malformed, Disconnect, Subscribe, Unsubscribe, LoginCheck,
         LoginCreate, LoginBind, LoginActivate, Accept, Reply, Receive,
         LoginReturns, EnterLogin, Complete, Leave
    <2> QED
      BY <1>1, <2>1, <2>2
  <1>5. ASSUME NEW e \in Conns, Close(e) \/ StartClose(e)
        PROVE  Idle
    BY <1>5 DEF Close, StartClose, workerVars, loopVars
  <1>6. ASSUME NEW k \in Calls, DisconnectStep(k)
        PROVE  Idle
    BY <1>6 DEF DisconnectStep, RemoveClient, CheckUser, ClearUser, RemoveSub,
       workerVars, loopVars
  <1>7. UNCHANGED vars \/ Quiet => Idle
    BY DEF vars, Quiet
  <1> HIDE DEF Idle
  <1>8. \/ \E x \in Conns : Visit(c, x)
        \/ LookUp(c) \/ HandOver(c) \/ FanoutDone(c)
        \/ Idle
    BY <1>2, <1>3, <1>4, <1>5, <1>6, <1>7 DEF Next, Handle
  <1> QED
    BY <1>8 DEF Idle

(* One step of a running loop keeps who is owed before it or served.       *)
LEMMA FanServes ==
  ASSUME TypeOK, [Next]_vars, NEW c \in Conns, pc[c] = "fanout",
         NEW d \in Conns, Listening(d, Current(c).dest),
         d \in todo[c] \/ Handed(c, d) \/ \E p \in Pending(c) : p.to = d
  PROVE  /\ pc'[c] = "fanout" =>
              \/ d \in todo'[c] \/ Handed(c, d)'
              \/ \E p \in Pending(c)' : p.to = d
         /\ pc'[c] = "reply" => Handed(c, d)'
         /\ pc'[c] \in {"fanout", "reply"}
  <1> DEFINE Before == d \in todo'[c] \/ \E p \in Pending(c)' : p.to = d
  <1>1. got'[c] = got[c]
    BY GotStays
  <1>2. Handed(c, d) => Handed(c, d)'
    BY <1>1, HandedKept
  <1>3. /\ todo \in [Conns -> SUBSET Conns] /\ pc \in [Conns -> PCs]
        /\ ahead \in [Conns -> [to : Conns, sub : SubIds] \cup {NoPick}]
        /\ pick \in [Conns -> [to : Conns, sub : SubIds] \cup {NoPick}]
        /\ NoPick.to \notin Conns
    BY BrokerAssumption DEF TypeOK, WorkerTypeOK, NoPick
  <1>4. ASSUME NEW x \in Conns, Visit(c, x)
        PROVE  pc'[c] = "fanout" /\ (Handed(c, d) \/ Before)
    <2>1. /\ UNCHANGED <<pc, pick>> /\ todo'[c] = todo[c] \ {x}
          /\ ahead[c] = NoPick
      BY <1>3, <1>4 DEF Visit, Iterating
    <2>2. d = x => ahead'[c].to = d
      BY <1>3, <1>4, VisitEntry DEF Listening
    <2>3. d = x => \E p \in Pending(c)' : p.to = d
      BY <1>3, <2>2 DEF Pending
    <2>4. (\E p \in Pending(c) : p.to = d) => \E p \in Pending(c)' : p.to = d
      BY <2>1 DEF Pending
    <2> QED
      BY <2>1, <2>3, <2>4
  <1>5. ASSUME LookUp(c)
        PROVE  pc'[c] = "fanout" /\ (Handed(c, d) \/ Before)
    <2>1. /\ UNCHANGED <<pc, todo>> /\ pick[c] = NoPick
          /\ pick'[c] = IF ahead[c].to \in clients THEN ahead[c] ELSE NoPick
      BY <1>3, <1>5 DEF LookUp, Fanning
    <2>2. ASSUME NEW p \in Pending(c), p.to = d
          PROVE  p \in Pending(c)'
      BY <2>1, <2>2 DEF Pending, Listening
    <2> QED
      BY <2>1, <2>2
  <1>6. ASSUME HandOver(c)
        PROVE  pc'[c] = "fanout" /\ (Handed(c, d)' \/ Before)
    <2>1. UNCHANGED <<pc, todo>> /\ ahead'[c] = ahead[c]
      BY <1>6 DEF HandOver
    <2>2. ASSUME d = pick[c].to
          PROVE  Handed(c, d)'
      <3> DEFINE m == FrameFor(c, pick[c].sub)
                 old == out[d]
      <3>1. out'[d] = Append(old, m) /\ m \in MessageFrame
        BY <1>6, <2>2, HandOverMessage DEF Listening
      <3>2. m.kind = "MESSAGE" /\ m.body = <<c, Len(got[c])>>
        BY DEF FrameFor
      <3>3. old \in Seq(ReplyFrame \cup MessageFrame)
        BY DEF TypeOK, HandlerTypeOK
      <3> HIDE DEF m, old
      <3>4. /\ Len(old) + 1 \in DOMAIN out'[d]
            /\ out'[d][Len(old) + 1] = m
        BY <3>1, <3>3, AppendProperties
      <3> QED
        BY <1>1, <3>2, <3>4 DEF Handed, IsMessage
    <2>3. ASSUME NEW p \in Pending(c), p.to = d, d # pick[c].to
          PROVE  p \in Pending(c)'
      BY <2>1, <2>3 DEF Pending
    <2> QED
      BY <1>2, <2>1, <2>2, <2>3
  <1>7. ASSUME FanoutDone(c)
        PROVE  pc'[c] = "reply" /\ Handed(c, d)
    <2>1. todo[c] = {} /\ Pending(c) = {}
      BY <1>7 DEF FanoutDone, Fanning, Iterating, Pending
    <2>2. pc'[c] = "reply"
      BY <1>3, <1>7 DEF FanoutDone, Complete
    <2> QED
      BY <2>1, <2>2
  <1>8. ASSUME UNCHANGED <<pc[c], todo[c], ahead[c], pick[c]>>
        PROVE  pc'[c] = "fanout" /\ (Handed(c, d) \/ Before)
    <2>1. Pending(c)' = Pending(c)
      BY <1>8 DEF Pending
    <2> QED
      BY <1>8, <2>1
  <1> HIDE DEF Before
  <1>9. \/ pc'[c] = "fanout" /\ (Handed(c, d)' \/ Before)
        \/ pc'[c] = "reply" /\ Handed(c, d)'
    BY <1>2, <1>4, <1>5, <1>6, <1>7, <1>8, FanStep
  <1> QED
    BY <1>9 DEF Before

(* Every step keeps who is owed a message before the loop or served.       *)
LEMMA StepOwed ==
  ASSUME TypeOK, OwedOK, [DeliveryNext]_<<vars, owed>>
  PROVE  OwedOK'
  <1>1. CASE UNCHANGED <<vars, owed>>
    <2>1. UNCHANGED <<owed, pc, todo, got, out, ahead, pick, subs, clients,
                      closed>>
      BY <1>1 DEF vars
    <2>2. \A c, d : Handed(c, d)' <=> Handed(c, d)
      BY <2>1 DEF Handed, IsMessage
    <2>3. \A c, d :
            Listening(d, Current(c).dest)' <=> Listening(d, Current(c).dest)
      BY <2>1 DEF Listening, Current
    <2>4. \A c : Pending(c)' = Pending(c)
      BY <2>1 DEF Pending
    <2> QED
      BY <2>1, <2>2, <2>3, <2>4 DEF OwedOK
  <1>2. CASE DeliveryNext
    <2> SUFFICES ASSUME NEW c \in Conns, NEW d \in owed'[c]
                 PROVE  /\ d \in Conns
                        /\ pc'[c] = "fanout" =>
                             /\ Listening(d, Current(c).dest)'
                             /\ \/ d \in todo'[c] \/ Handed(c, d)'
                                \/ \E p \in Pending(c)' : p.to = d
                        /\ pc'[c] = "reply" => Handed(c, d)'
      BY DEF OwedOK
    <2>1. [Next]_vars /\ d \in Owe(c)
      BY <1>2 DEF DeliveryNext
    <2>2. CASE pc[c] = "handle" /\ pc'[c] = "fanout"
      <3>1. d \in Conns /\ Listening(d, Current(c).dest)
        BY <2>1, <2>2 DEF Owe
      <3>2. Starts(c)
        <4>1. LoopsIdle => ~(pc[c] # "fanout" /\ pc'[c] = "fanout")
          BY DEF LoopsIdle
        <4>2. \A e \in Conns : Starts(e) => e = c
          BY <2>2, StartFrame DEF TypeOK, WorkerTypeOK
        <4> QED
          BY <2>1, <2>2, <4>1, <4>2, LoopStep, LoopFrame
      <3>3. todo'[c] = Conns
        BY <3>2, StartFrame DEF TypeOK, WorkerTypeOK
      <3>4. UNCHANGED <<got, subs, clients, closed>>
        BY <3>2 DEF Starts, Send, handlerVars
      <3> QED
        BY <2>2, <3>1, <3>3, <3>4 DEF Listening, Current
    <2>3. CASE pc[c] = "fanout"
      <3>1. d \in owed[c] /\ Listening(d, Current(c).dest)'
        BY <2>1, <2>3 DEF Owe
      <3>2. /\ d \in Conns /\ Listening(d, Current(c).dest)
            /\ d \in todo[c] \/ Handed(c, d) \/ \E p \in Pending(c) : p.to = d
        BY <2>3, <3>1 DEF OwedOK
      <3> QED
        BY <2>1, <2>3, <3>1, <3>2, FanServes
    <2>4. CASE pc[c] = "reply" /\ pc'[c] = "reply"
      <3>1. d \in owed[c]
        BY <2>1, <2>4 DEF Owe
      <3>2. got'[c] = got[c]
        BY <2>1, <2>4, GotStays
      <3> QED
        BY <2>1, <2>4, <3>1, <3>2, HandedKept DEF OwedOK
    <2> QED
      BY <2>1, <2>2, <2>3, <2>4 DEF Owe
  <1> QED
    BY <1>1, <1>2

(* When process() returns from a SEND, its frame has been handed to every  *)
(* connection that listened on the channel throughout (ListenersGetIt).    *)
THEOREM DeliveryHolds == DeliverySpec => []ListenersGetIt
  <1>1. DeliveryInit => Init /\ OwedOK
    BY DEF DeliveryInit, OwedOK
  <1>2. [DeliveryNext]_<<vars, owed>> => [Next]_vars
    BY DEF DeliveryNext, vars
  <1>3. DeliverySpec => []TypeOK
    BY <1>1, <1>2, TypesHold, PTL DEF DeliverySpec, Spec
  <1>4. TypeOK /\ OwedOK /\ [DeliveryNext]_<<vars, owed>> => OwedOK'
    BY StepOwed
  <1>5. OwedOK => ListenersGetIt
    BY DEF OwedOK, ListenersGetIt, Handed
  <1> QED
    BY <1>1, <1>3, <1>4, <1>5, PTL DEF DeliverySpec
============================================================================
