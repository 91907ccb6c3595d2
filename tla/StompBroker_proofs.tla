------------------------ MODULE StompBroker_proofs ------------------------
(***************************************************************************)
(* Proofs about the broker, for any number of connections, users, channels *)
(* and frames.                                                             *)
(***************************************************************************)
EXTENDS StompBroker, TLAPS, SequenceTheorems

(* What keeps accounts and logins right, beyond the types.  A worker is    *)
(* inside loginUser only as owner of its monitor; what it found out there  *)
(* about the account still holds, because other workers can only take      *)
(* users offline meanwhile; and disconnect clears only accounts that exist.*)
LoginOK ==
  /\ \A c \in Conns : pc[c] \in {"create", "bind", "activate"} =>
       LET account == users[Current(c).user]
       IN  /\ monitor = c
           /\ pc[c] = "create" => account = NoUser
           /\ pc[c] # "create" =>
                account # NoUser /\ account.pass = Current(c).pass
           /\ pc[c] = "bind" => ~account.online
           /\ pc[c] = "activate" => account.conn = c
  /\ \A k \in Calls : disc[k].hit # NoUser => users[disc[k].hit] # NoUser

(* The reply r, if it is CONNECTED, answers a CONNECT of c with the        *)
(* password of the account.                                                *)
KnowsPassword(c, r) ==
  r.kind = "CONNECTED" =>
    /\ r.n \in 1 .. Len(got[c])
    /\ LET f == got[c][r.n]
       IN  /\ f.cmd = "CONNECT"
           /\ users[f.user] # NoUser /\ users[f.user].pass = f.pass

ConnectedOK ==
  \A c \in Conns :
    /\ \A i \in DOMAIN out[c] : KnowsPassword(c, out[c][i])
    /\ \A i \in DOMAIN answer[c] : KnowsPassword(c, answer[c][i])

(* r is a reply to a request of c, the one after which c is closed.        *)
Replies(c, r) == r.kind # "MESSAGE" => r.n \in 1 .. Len(got[c])

Finishes(c, r) ==
  \/ r.kind = "ERROR"
  \/ r.kind = "RECEIPT" /\ got[c][r.n].cmd = "DISCONNECT"

(* How far the activation a of disconnect(c) has come: what it has passed  *)
(* is gone from the registry, and will not come back.                      *)
LoggedOutBy(c, a) ==
  /\ a.stage # "clients" => c \notin clients
  /\ \A u \in Usernames \ a.users :
       users[u] # NoUser /\ users[u].conn = c /\ users[u].online => a.hit = u

ForgottenBy(c, a) ==
  /\ LoggedOutBy(c, a)
  /\ \A ch \in Channels \ a.chans : subs[ch][c] = NoSub

(* The worker of c calls disconnect once, when it sets shouldTerminate,    *)
(* and only then has it a final reply to return.                           *)
Leaving(c) ==
  LET a == disc[<<"process", c>>]
  IN  /\ \A i \in DOMAIN answer[c] : Replies(c, answer[c][i])
      /\ \A i \in DOMAIN out[c] : Replies(c, out[c][i])
      /\ term[c] => pc[c] \in {"reply", "idle"} /\ ForgottenBy(c, a)
      /\ ~term[c] => a = Returned
      /\ \A i \in DOMAIN answer[c] : Finishes(c, answer[c][i]) => term[c]
      /\ \A i \in DOMAIN out[c] :
           Finishes(c, out[c][i]) => term[c] /\ a = Returned

LeavingOK == \A c \in Conns : Leaving(c)

-----------------------------------------------------------------------------
(***************************************************************************)
(* Frames, replies and their types.                                        *)
(***************************************************************************)

(* The fields a handler reads are there once the command is known.         *)
LEMMA FrameFields ==
  ASSUME NEW f \in Frame
  PROVE  /\ f.rcpt \in BOOLEAN
         /\ f.cmd = "CONNECT" => f.user \in Usernames /\ f.pass \in Passwords
         /\ f.cmd = "SUBSCRIBE" => f.dest \in Channels /\ f.id \in SubIds
         /\ f.cmd = "UNSUBSCRIBE" => f.id \in SubIds
         /\ f.cmd = "SEND" => f.dest \in Channels
  BY DEF Frame

(* A busy worker has a current frame.                                      *)
LEMMA CurrentFrame ==
  ASSUME TypeOK, NEW c \in Conns, pc[c] \notin {"off", "idle"}
  PROVE  /\ Current(c) \in Frame
         /\ got[c] # <<>>
         /\ Len(got[c]) \in 1 .. Len(got[c])
         /\ Len(got[c]) \in Nat
  <1>1. got[c] \in Seq(Frame) /\ got[c] # <<>>
    BY DEF TypeOK, WorkerTypeOK, PhaseOK
  <1>2. Len(got[c]) \in Nat /\ Len(got[c]) # 0
    BY <1>1, EmptySeq
  <1>3. Len(got[c]) \in 1 .. Len(got[c])
    BY <1>2
  <1> QED
    BY <1>1, <1>2, <1>3, ElementOfSeq DEF Current

(* What a handler returns is a sequence of replies.                        *)
LEMMA AnswerType ==
  ASSUME TypeOK, NEW c \in Conns, pc[c] \notin {"off", "idle"}
  PROVE  /\ Receipt(c) \in Seq(ReplyFrame)
         /\ Error(c) \in Seq(ReplyFrame)
         /\ Connected(c) \in Seq(ReplyFrame)
  <1>1. \A kind \in {"CONNECTED", "RECEIPT", "ERROR"} :
          Answer(kind, c) \in ReplyFrame
    BY CurrentFrame DEF Answer, ReplyFrame
  <1>2. Receipt(c) \in Seq(ReplyFrame) /\ Error(c) \in Seq(ReplyFrame)
    BY <1>1 DEF Receipt, Error
  <1>3. <<Answer("CONNECTED", c)>> \in Seq(ReplyFrame)
    BY <1>1
  <1>4. Connected(c) \in Seq(ReplyFrame)
    BY <1>2, <1>3, ConcatProperties DEF Connected
  <1> QED
    BY <1>2, <1>4

-----------------------------------------------------------------------------
(***************************************************************************)
(* Types.                                                                  *)
(***************************************************************************)

(* A worker that moves to p, without decoding a frame, keeps PhaseOK if p  *)
(* suits its frame.                                                        *)
LEMMA PhaseStep ==
  ASSUME TypeOK, NEW c \in Conns, NEW p \in PCs,
         pc' = [pc EXCEPT ![c] = p], got' = got,
         \A e \in Conns \ {c} : pick'[e] = pick[e] /\ ahead'[e] = ahead[e],
         p \notin {"off", "idle"} => got[c] # <<>>,
         p \in {"create", "bind", "activate"} => Current(c).cmd = "CONNECT",
         p = "fanout" => Current(c).cmd = "SEND",
         ahead'[c] # NoPick \/ pick'[c] # NoPick => p = "fanout"
  PROVE  PhaseOK'
  <1>1. \A e \in Conns : Current(e)' = Current(e)
    BY DEF Current
  <1>2. \A e \in Conns : pc'[e] = IF e = c THEN p ELSE pc[e]
    BY DEF TypeOK, WorkerTypeOK
  <1> QED
    BY <1>1, <1>2 DEF TypeOK, PhaseOK

(* A step that leaves the workers alone keeps their types.                 *)
LEMMA WorkersIdle ==
  ASSUME TypeOK, UNCHANGED workerVars
  PROVE  WorkerTypeOK' /\ PhaseOK'
  BY DEF TypeOK, WorkerTypeOK, PhaseOK, workerVars, loopVars, Current

(* The first and the last state of an activation of disconnect.            *)
LEMMA ActivationTypes ==
  /\ Entered \in Activation /\ Returned \in Activation
  /\ \A c \in Conns : <<"process", c>> \in Calls /\ <<"close", c>> \in Calls
  BY DEF Entered, Returned, Activation, Calls

(* A call of disconnect begins with no user to clear.                      *)
LEMMA EnteredHit ==
  ASSUME TypeOK, NEW j, disc' = [disc EXCEPT ![j] = Entered]
  PROVE  \A k \in Calls : disc'[k].hit \in {NoUser, disc[k].hit}
  <1>1. Entered.hit = NoUser
    BY DEF Entered
  <1>2. \A k \in Calls : disc'[k] = IF k = j THEN Entered ELSE disc[k]
    BY DEF TypeOK, DisconnectTypeOK
  <1> QED
    BY <1>1, <1>2

(* A handler that returns: pc, answer, term and disc.                      *)
LEMMA ReturnTypes ==
  ASSUME TypeOK, NEW c \in Conns, pc[c] \notin {"off", "idle"},
         NEW ans \in Seq(ReplyFrame), Complete(c, ans) \/ Leave(c, ans),
         ahead[c] = NoPick, pick[c] = NoPick,
         UNCHANGED <<got, todo, ahead, pick>>,
         sending' \in [Conns -> Nat]
  PROVE  WorkerTypeOK' /\ PhaseOK' /\ DisconnectTypeOK'
  <1>1. got[c] # <<>>
    BY CurrentFrame
  <1>2. pc' = [pc EXCEPT ![c] = "reply"]
    BY DEF Complete, Leave
  <1>3. PhaseOK'
    BY <1>1, <1>2, PhaseStep DEF PCs
  <1>4. WorkerTypeOK'
    <2>1. answer' = [answer EXCEPT ![c] = ans]
      BY DEF Complete, Leave
    <2>2. term' = term \/ term' = [term EXCEPT ![c] = TRUE]
      BY DEF Complete, Leave
    <2>3. answer' \in [Conns -> Seq(ReplyFrame)] /\ term' \in [Conns -> BOOLEAN]
      BY <2>1, <2>2 DEF TypeOK, WorkerTypeOK
    <2> QED
      BY <1>2, <2>3 DEF TypeOK, WorkerTypeOK, PCs
  <1>5. DisconnectTypeOK'
    BY ActivationTypes DEF Complete, Leave, TypeOK, DisconnectTypeOK
  <1> QED
    BY <1>3, <1>4, <1>5

(* The handlers that return at once.                                       *)
LEMMA ShortHandlerTypes ==
  ASSUME TypeOK, NEW c \in Conns,
         Malformed(c) \/ Disconnect(c) \/ Subscribe(c) \/ Unsubscribe(c)
           \/ FanoutDone(c)
  PROVE  TypeOK'
  <1>1. /\ pc[c] \in {"handle", "fanout"}
        /\ ahead[c] = NoPick /\ pick[c] = NoPick
    BY DEF Malformed, Disconnect, Subscribe, Unsubscribe, FanoutDone,
           Handling, Fanning, Iterating, TypeOK, PhaseOK
  <1>2. Current(c) \in Frame
    BY <1>1, CurrentFrame
  <1>3. Receipt(c) \in Seq(ReplyFrame) /\ Error(c) \in Seq(ReplyFrame)
    BY <1>1, AnswerType
  <1>4. PICK ans \in Seq(ReplyFrame) : Complete(c, ans) \/ Leave(c, ans)
    BY <1>3 DEF Malformed, Disconnect, Subscribe, Unsubscribe, FanoutDone
  <1>5. UNCHANGED <<got, todo, ahead, pick, sending, closed, notified, out>>
    BY DEF Malformed, Disconnect, Subscribe, Unsubscribe, FanoutDone,
           handlerVars, loopVars
  <1>6. WorkerTypeOK' /\ PhaseOK' /\ DisconnectTypeOK'
    BY <1>1, <1>4, <1>5, ReturnTypes DEF TypeOK, WorkerTypeOK
  <1>7. HandlerTypeOK'
    BY <1>5 DEF TypeOK, HandlerTypeOK
  <1>8. RegistryTypeOK'
    <2>1. CASE Malformed(c) \/ Disconnect(c) \/ FanoutDone(c)
      BY <2>1 DEF Malformed, Disconnect, FanoutDone, TypeOK, RegistryTypeOK,
         registryVars
    <2>2. CASE Subscribe(c)
      <3>1. Current(c).dest \in Channels /\ Current(c).id \in SubIds
        BY <1>2, <2>2, FrameFields DEF Subscribe, Handling
      <3> QED
        BY <2>2, <3>1 DEF Subscribe, TypeOK, RegistryTypeOK
    <2>3. CASE Unsubscribe(c)
      BY <2>3 DEF Unsubscribe, TypeOK, RegistryTypeOK
    <2> QED
      BY <2>1, <2>2, <2>3
  <1> QED
    BY <1>6, <1>7, <1>8 DEF TypeOK

(* SEND: the start of the fan-out and its loop.                            *)
LEMMA FanoutTypes ==
  ASSUME TypeOK, NEW c \in Conns,
         \/ Send(c) \/ LookUp(c) \/ HandOver(c)
         \/ \E d \in Conns : Visit(c, d)
  PROVE  TypeOK'
  <1>1. pc[c] \in {"handle", "fanout"}
    BY DEF Send, Visit, LookUp, HandOver, Handling, Fanning, Iterating,
           TypeOK, PhaseOK
  <1>2. Current(c) \in Frame /\ got[c] # <<>> /\ Len(got[c]) \in Nat
    BY <1>1, CurrentFrame
  <1>3. Current(c).cmd = "SEND" /\ Current(c).dest \in Channels
    BY <1>1, <1>2, FrameFields
    DEF Send, Visit, LookUp, HandOver, Handling, Fanning, Iterating, TypeOK,
        PhaseOK
  <1>4. CASE Send(c)
    <2>1. /\ ahead[c] = NoPick /\ pick[c] = NoPick
          /\ UNCHANGED <<got, ahead, pick>>
      BY <1>4 DEF Send, Handling, TypeOK, PhaseOK
    <2>2. RegistryTypeOK' /\ HandlerTypeOK'
      BY <1>4 DEF Send, TypeOK, RegistryTypeOK, HandlerTypeOK, handlerVars
    <2>3. CASE subs[Current(c).dest][c] # NoSub
      <3>1. pc' = [pc EXCEPT ![c] = "fanout"]
        BY <1>4, <2>3 DEF Send
      <3>2. PhaseOK'
        BY <1>2, <1>3, <2>1, <3>1, PhaseStep DEF PCs
      <3>3. /\ sending' = [sending EXCEPT ![c] = msgId + 1]
            /\ todo' = [todo EXCEPT ![c] = Conns]
            /\ UNCHANGED <<answer, term>>
            /\ msgId + 1 \in Nat
        BY <1>4, <2>3 DEF Send, TypeOK, RegistryTypeOK
      <3>4. WorkerTypeOK'
        BY <2>1, <3>1, <3>3 DEF TypeOK, WorkerTypeOK, PCs
      <3>5. DisconnectTypeOK'
        BY <1>4, <2>3 DEF Send, TypeOK, DisconnectTypeOK
      <3> QED
        BY <2>2, <3>2, <3>4, <3>5 DEF TypeOK
    <2>4. CASE subs[Current(c).dest][c] = NoSub
      <3>1. Leave(c, Error(c)) /\ UNCHANGED <<todo, sending>>
        BY <1>4, <2>4 DEF Send
      <3>2. Error(c) \in Seq(ReplyFrame)
        BY <1>1, AnswerType
      <3>3. WorkerTypeOK' /\ PhaseOK' /\ DisconnectTypeOK'
        BY <1>1, <2>1, <3>1, <3>2, ReturnTypes DEF TypeOK, WorkerTypeOK
      <3> QED
        BY <2>2, <3>3 DEF TypeOK
    <2> QED
      BY <2>3, <2>4
  <1>5. ASSUME NEW d \in Conns, Visit(c, d)
        PROVE  TypeOK'
    <2> DEFINE id == subs[Current(c).dest][d]
               p == IF id = NoSub THEN NoPick ELSE [to |-> d, sub |-> id]
    <2>1. pc[c] = "fanout" /\ UNCHANGED <<pc, got, pick>>
      BY <1>5 DEF Visit, Iterating
    <2>2. id \in SubIds \cup {NoSub}
      BY <1>3 DEF TypeOK, RegistryTypeOK
    <2>3. p \in [to : Conns, sub : SubIds] \cup {NoPick}
      BY <2>2
    <2>4. ahead' = [ahead EXCEPT ![c] = p]
      BY <1>5 DEF Visit
    <2> HIDE DEF id, p
    <2>5. pc' = [pc EXCEPT ![c] = "fanout"]
      BY <2>1 DEF TypeOK, WorkerTypeOK
    <2>6. PhaseOK'
      BY <1>2, <1>3, <2>1, <2>4, <2>5, PhaseStep DEF PCs, TypeOK, WorkerTypeOK
    <2>7. WorkerTypeOK'
      BY <1>5, <2>1, <2>3, <2>4 DEF Visit, TypeOK, WorkerTypeOK
    <2>8. RegistryTypeOK' /\ HandlerTypeOK' /\ DisconnectTypeOK'
      BY <1>5 DEF Visit, TypeOK, RegistryTypeOK, HandlerTypeOK,
         DisconnectTypeOK, registryVars, handlerVars
    <2> QED
      BY <2>6, <2>7, <2>8 DEF TypeOK
  <1>6. CASE HandOver(c)
    <2> DEFINE d == pick[c].to
               m == FrameFor(c, pick[c].sub)
    <2>1. pc[c] = "fanout" /\ UNCHANGED <<pc, got, ahead>>
      BY <1>6 DEF HandOver, TypeOK, PhaseOK
    <2>2. d \in Conns /\ pick[c].sub \in SubIds
      BY <1>6 DEF HandOver, TypeOK, WorkerTypeOK
    <2>3. m \in MessageFrame
      BY <1>2, <1>3, <2>2 DEF FrameFor, MessageFrame, TypeOK, WorkerTypeOK
    <2>4. out' = IF closed[d] THEN out ELSE [out EXCEPT ![d] = Append(@, m)]
      BY <1>6 DEF HandOver
    <2> HIDE DEF d, m
    <2>5. Append(out[d], m) \in Seq(ReplyFrame \cup MessageFrame)
      BY <2>2, <2>3, AppendProperties DEF TypeOK, HandlerTypeOK
    <2>6. HandlerTypeOK'
      BY <1>6, <2>2, <2>4, <2>5 DEF HandOver, TypeOK, HandlerTypeOK
    <2>7. /\ pc' = [pc EXCEPT ![c] = "fanout"]
          /\ pick' = [pick EXCEPT ![c] = NoPick]
      BY <1>6, <2>1 DEF HandOver, TypeOK, WorkerTypeOK
    <2>8. PhaseOK'
      BY <1>2, <1>3, <2>1, <2>7, PhaseStep DEF PCs, TypeOK, WorkerTypeOK
    <2>9. WorkerTypeOK'
      BY <1>6, <2>1, <2>7 DEF HandOver, TypeOK, WorkerTypeOK
    <2>10. RegistryTypeOK' /\ DisconnectTypeOK'
      BY <1>6 DEF HandOver, TypeOK, RegistryTypeOK, DisconnectTypeOK,
         registryVars
    <2> QED
      BY <2>6, <2>8, <2>9, <2>10 DEF TypeOK
  <1>7. CASE LookUp(c)
    <2> DEFINE p == IF ahead[c].to \in clients THEN ahead[c] ELSE NoPick
    <2>1. pc[c] = "fanout" /\ UNCHANGED <<pc, got>>
      BY <1>7 DEF LookUp, Fanning
    <2>2. p \in [to : Conns, sub : SubIds] \cup {NoPick}
      BY DEF TypeOK, WorkerTypeOK
    <2>3. /\ pick' = [pick EXCEPT ![c] = p]
          /\ ahead' = [ahead EXCEPT ![c] = NoPick]
      BY <1>7 DEF LookUp
    <2> HIDE DEF p
    <2>4. pc' = [pc EXCEPT ![c] = "fanout"]
      BY <2>1 DEF TypeOK, WorkerTypeOK
    <2>5. PhaseOK'
      BY <1>2, <1>3, <2>1, <2>3, <2>4, PhaseStep DEF PCs, TypeOK, WorkerTypeOK
    <2>6. WorkerTypeOK'
      BY <1>7, <2>1, <2>2, <2>3 DEF LookUp, TypeOK, WorkerTypeOK
    <2>7. RegistryTypeOK' /\ HandlerTypeOK' /\ DisconnectTypeOK'
      BY <1>7 DEF LookUp, TypeOK, RegistryTypeOK, HandlerTypeOK,
         DisconnectTypeOK, registryVars, handlerVars
    <2> QED
      BY <2>5, <2>6, <2>7 DEF TypeOK
  <1> QED
    BY <1>4, <1>5, <1>6, <1>7

(* loginUser.                                                              *)
LEMMA LoginTypes ==
  ASSUME TypeOK, LoginOK, NEW c \in Conns,
         LoginCheck(c) \/ LoginCreate(c) \/ LoginBind(c) \/ LoginActivate(c)
  PROVE  TypeOK'
  <1>1. /\ pc[c] \in {"handle", "create", "bind", "activate"}
        /\ ahead[c] = NoPick /\ pick[c] = NoPick
    BY DEF LoginCheck, LoginCreate, LoginBind, LoginActivate, Handling,
           TypeOK, PhaseOK
  <1>2. Current(c) \in Frame /\ got[c] # <<>>
    BY <1>1, CurrentFrame
  <1>3. /\ Current(c).cmd = "CONNECT"
        /\ Current(c).user \in Usernames /\ Current(c).pass \in Passwords
    BY <1>1, <1>2, FrameFields
    DEF LoginCheck, LoginCreate, LoginBind, LoginActivate, Handling, TypeOK,
        PhaseOK
  <1>4. Error(c) \in Seq(ReplyFrame) /\ Connected(c) \in Seq(ReplyFrame)
    BY <1>1, AnswerType
  <1>5. /\ UNCHANGED <<got, todo, ahead, pick, sending>>
        /\ HandlerTypeOK'
    BY DEF LoginCheck, LoginCreate, LoginBind, LoginActivate, TypeOK,
           HandlerTypeOK, handlerVars, loopVars
  <1>6. users' \in [Usernames -> Account \cup {NoUser}]
    <2>1. users \in [Usernames -> Account \cup {NoUser}]
      BY DEF TypeOK, RegistryTypeOK
    <2>2. CASE LoginCheck(c)
      BY <2>1, <2>2 DEF LoginCheck
    <2>3. CASE LoginCreate(c)
      BY <1>3, <2>1, <2>3 DEF LoginCreate, Account
    <2>4. CASE LoginBind(c) \/ LoginActivate(c)
      <3>1. users[Current(c).user] \in Account
        BY <1>3, <2>1, <2>4 DEF LoginOK, LoginBind, LoginActivate
      <3>2. PICK a \in Account : users' = [users EXCEPT ![Current(c).user] = a]
        BY <2>4, <3>1 DEF LoginBind, LoginActivate, Account
      <3> QED
        BY <2>1, <3>2
    <2> QED
      BY <2>2, <2>3, <2>4
  <1>7. RegistryTypeOK'
    BY <1>6 DEF LoginCheck, LoginCreate, LoginBind, LoginActivate, EnterLogin,
       LoginReturns, TypeOK, RegistryTypeOK
  <1>8. WorkerTypeOK' /\ PhaseOK' /\ DisconnectTypeOK'
    <2>1. ASSUME NEW ans \in Seq(ReplyFrame), Complete(c, ans) \/ Leave(c, ans)
          PROVE  WorkerTypeOK' /\ PhaseOK' /\ DisconnectTypeOK'
      BY <1>1, <1>5, <2>1, ReturnTypes DEF TypeOK, WorkerTypeOK
    <2>2. ASSUME NEW p \in {"create", "bind", "activate"},
                 pc' = [pc EXCEPT ![c] = p], UNCHANGED <<answer, term, disc>>
          PROVE  WorkerTypeOK' /\ PhaseOK' /\ DisconnectTypeOK'
      <3>1. PhaseOK'
        BY <1>1, <1>2, <1>3, <1>5, <2>2, PhaseStep DEF PCs
      <3> QED
        BY <1>5, <2>2, <3>1
        DEF TypeOK, WorkerTypeOK, DisconnectTypeOK, PCs
    <2> QED
      BY <1>4, <2>1, <2>2 DEF LoginCheck, LoginCreate, LoginBind,
         LoginActivate, EnterLogin, LoginReturns
  <1> QED
    BY <1>5, <1>7, <1>8 DEF TypeOK

(* The worker outside process().                                           *)
LEMMA WorkerLoopTypes ==
  ASSUME TypeOK, NEW c \in Conns,
         \/ Accept(c) \/ Reply(c)
         \/ \E f \in Inputs[c] : Receive(c, f)
  PROVE  TypeOK'
  <1>1. CASE Accept(c)
    <2>1. ahead[c] = NoPick /\ pick[c] = NoPick
      BY <1>1 DEF Accept, TypeOK, PhaseOK
    <2>2. PhaseOK'
      BY <1>1, <2>1, PhaseStep DEF Accept, PCs, loopVars
    <2> QED
      BY <1>1, <2>2 DEF Accept, TypeOK, RegistryTypeOK, WorkerTypeOK,
         HandlerTypeOK, DisconnectTypeOK, handlerVars, loopVars, PCs
  <1>2. CASE Reply(c)
    <2>1. ahead[c] = NoPick /\ pick[c] = NoPick
      BY <1>2 DEF Reply, TypeOK, PhaseOK
    <2>2. PhaseOK'
      BY <1>2, <2>1, PhaseStep DEF Reply, PCs, loopVars
    <2>3. out[c] \o answer[c] \in Seq(ReplyFrame \cup MessageFrame)
      <3>1. /\ out[c] \in Seq(ReplyFrame \cup MessageFrame)
            /\ answer[c] \in Seq(ReplyFrame)
        BY DEF TypeOK, WorkerTypeOK, HandlerTypeOK
      <3>2. answer[c] \in Seq(ReplyFrame \cup MessageFrame)
        BY <3>1, SeqMonotonic
      <3> QED
        BY <3>1, <3>2, ConcatProperties
    <2>4. HandlerTypeOK'
      BY <1>2, <2>3 DEF Reply, TypeOK, HandlerTypeOK
    <2>5. WorkerTypeOK'
      BY <1>2 DEF Reply, TypeOK, WorkerTypeOK, PCs, loopVars
    <2> QED
      BY <1>2, <2>2, <2>4, <2>5 DEF Reply, TypeOK, RegistryTypeOK,
         DisconnectTypeOK, registryVars
  <1>3. ASSUME NEW f \in Inputs[c], Receive(c, f)
        PROVE  TypeOK'
    <2>1. f \in Frame
      BY BrokerAssumption
    <2>2. got[c] \in Seq(Frame) /\ ahead[c] = NoPick /\ pick[c] = NoPick
      BY <1>3 DEF Receive, TypeOK, WorkerTypeOK, PhaseOK
    <2>3. Append(got[c], f) \in Seq(Frame) /\ Append(got[c], f) # <<>>
      BY <2>1, <2>2, AppendProperties
    <2>4. got' = [got EXCEPT ![c] = Append(got[c], f)]
      BY <1>3 DEF Receive
    <2>5. WorkerTypeOK'
      BY <1>3, <2>3, <2>4 DEF Receive, TypeOK, WorkerTypeOK, PCs, loopVars
    <2>6. /\ pc' = [pc EXCEPT ![c] = "handle"]
          /\ UNCHANGED <<ahead, pick>>
          /\ \A e \in Conns \ {c} : Current(e)' = Current(e)
      BY <1>3, <2>4 DEF Receive, Current, TypeOK, WorkerTypeOK, loopVars
    <2>7. PhaseOK'
      BY <2>2, <2>3, <2>4, <2>6 DEF TypeOK, WorkerTypeOK, PhaseOK
    <2> QED
      BY <1>3, <2>5, <2>7 DEF Receive, TypeOK, RegistryTypeOK, HandlerTypeOK,
         DisconnectTypeOK, registryVars, handlerVars
  <1> QED
    BY <1>1, <1>2, <1>3

(* disconnect and the closing of a handler.                                *)
LEMMA DisconnectTypes ==
  ASSUME TypeOK, LoginOK,
         \/ \E k \in Calls : DisconnectStep(k)
         \/ \E c \in Conns : Close(c) \/ StartClose(c)
  PROVE  TypeOK'
  <1>1. UNCHANGED workerVars
    BY DEF DisconnectStep, RemoveClient, CheckUser, ClearUser, RemoveSub,
           Close, StartClose
  <1>2. WorkerTypeOK' /\ PhaseOK'
    BY <1>1, WorkersIdle
  <1>3. ASSUME NEW c \in Conns, Close(c) \/ StartClose(c)
        PROVE  TypeOK'
    <2>1. RegistryTypeOK'
      BY <1>3 DEF Close, StartClose, TypeOK, RegistryTypeOK, registryVars
    <2>2. HandlerTypeOK'
      BY <1>3 DEF Close, StartClose, TypeOK, HandlerTypeOK
    <2>3. DisconnectTypeOK'
      BY <1>3, ActivationTypes DEF Close, StartClose, TypeOK, DisconnectTypeOK
    <2> QED
      BY <1>2, <2>1, <2>2, <2>3 DEF TypeOK
  <1>4. ASSUME NEW k \in Calls, DisconnectStep(k)
        PROVE  TypeOK'
    <2>1. HandlerTypeOK'
      BY <1>4 DEF DisconnectStep, RemoveClient, CheckUser, ClearUser,
         RemoveSub, TypeOK, HandlerTypeOK, handlerVars
    <2>2. disc[k] \in Activation /\ k[2] \in Conns
      BY DEF TypeOK, DisconnectTypeOK, Calls
    <2>3. PICK a \in Activation : disc' = [disc EXCEPT ![k] = a]
      <3>1. CASE RemoveClient(k)
        BY <2>2, <3>1 DEF RemoveClient, Activation
      <3>2. ASSUME NEW u \in Usernames, CheckUser(k, u)
            PROVE  \E a \in Activation : disc' = [disc EXCEPT ![k] = a]
        <4> DEFINE h == IF users[u] # NoUser /\ users[u].conn = k[2]
                        THEN u ELSE NoUser
        <4>1. h \in Usernames \cup {NoUser}
          OBVIOUS
        <4>2. disc' = [disc EXCEPT ![k].users = @ \ {u}, ![k].hit = h]
          BY <3>2 DEF CheckUser
        <4> HIDE DEF h
        <4> DEFINE a == [disc[k] EXCEPT !.users = @ \ {u}, !.hit = h]
        <4>3. a \in Activation
          BY <2>2, <4>1 DEF Activation
        <4>4. disc' = [disc EXCEPT ![k] = a]
          BY <4>2 DEF TypeOK, DisconnectTypeOK
        <4> HIDE DEF a
        <4> QED
          BY <4>3, <4>4
      <3>3. CASE ClearUser(k)
        BY <2>2, <3>3 DEF ClearUser, Activation
      <3>4. ASSUME NEW ch \in Channels, RemoveSub(k, ch)
            PROVE  \E a \in Activation : disc' = [disc EXCEPT ![k] = a]
        <4> DEFINE left == disc[k].chans \ {ch}
                   a == IF left = {} THEN Returned
                        ELSE [disc[k] EXCEPT !.chans = left]
        <4>1. left \in SUBSET Channels
          BY <2>2 DEF Activation
        <4>2. disc' = [disc EXCEPT ![k] = a]
          BY <3>4 DEF RemoveSub
        <4>3. [disc[k] EXCEPT !.chans = left] \in Activation
          <5> HIDE DEF left
          <5> QED
            BY <2>2, <4>1 DEF Activation
        <4>4. a \in Activation
          BY <4>3, ActivationTypes
        <4> HIDE DEF a
        <4> QED
          BY <4>2, <4>4
      <3> QED
        BY <1>4, <3>1, <3>2, <3>3, <3>4 DEF DisconnectStep
    <2>4. DisconnectTypeOK'
      BY <2>3 DEF TypeOK, DisconnectTypeOK
    <2>5. RegistryTypeOK'
      <3>1. CASE RemoveClient(k)
        BY <3>1 DEF RemoveClient, TypeOK, RegistryTypeOK
      <3>2. ASSUME NEW u \in Usernames, CheckUser(k, u)
            PROVE  RegistryTypeOK'
        BY <3>2 DEF CheckUser, TypeOK, RegistryTypeOK, registryVars
      <3>3. CASE ClearUser(k)
        <4>1. disc[k].hit \in Usernames /\ users[disc[k].hit] \in Account
          BY <2>2, <3>3 DEF ClearUser, LoginOK, TypeOK, RegistryTypeOK,
             Activation
        <4>2. [users[disc[k].hit] EXCEPT !.online = FALSE] \in Account
          BY <4>1 DEF Account
        <4> QED
          BY <3>3, <4>1, <4>2 DEF ClearUser, TypeOK, RegistryTypeOK
      <3>4. ASSUME NEW ch \in Channels, RemoveSub(k, ch)
            PROVE  RegistryTypeOK'
        BY <2>2, <3>4 DEF RemoveSub, TypeOK, RegistryTypeOK
      <3> QED
        BY <1>4, <3>1, <3>2, <3>3, <3>4 DEF DisconnectStep
    <2> QED
      BY <1>2, <2>1, <2>4, <2>5 DEF TypeOK
  <1> QED
    BY <1>3, <1>4

(***************************************************************************)
(* Accounts.                                                               *)
(***************************************************************************)

(* A step that leaves the accounts, the monitor and the workers inside     *)
(* loginUser alone, and adds no account to clear, keeps LoginOK.           *)
LEMMA AccountsKept ==
  ASSUME TypeOK, LoginOK, UNCHANGED <<users, monitor>>,
         \A c \in Conns :
           pc'[c] \in {"create", "bind", "activate"} =>
             pc'[c] = pc[c] /\ got'[c] = got[c],
         \A k \in Calls : disc'[k].hit \in {NoUser, disc[k].hit}
  PROVE  LoginOK' /\ AccountStep
  <1>1. LoginOK'
    BY DEF LoginOK, Current
  <1>2. AccountStep
    BY DEF AccountStep
  <1> QED
    BY <1>1, <1>2

(* The steps of loginUser: each knows what the ones before it found.       *)
LEMMA LoginAccounts ==
  ASSUME TypeOK, LoginOK, NEW c \in Conns,
         LoginCheck(c) \/ LoginCreate(c) \/ LoginBind(c) \/ LoginActivate(c)
  PROVE  LoginOK' /\ AccountStep
  <1> DEFINE f == Current(c)
             u == f.user
  <1>1. pc[c] \in {"handle", "create", "bind", "activate"}
    BY DEF LoginCheck, LoginCreate, LoginBind, LoginActivate, Handling
  <1>2. f \in Frame
    BY <1>1, CurrentFrame
  <1>3. u \in Usernames /\ f.pass \in Passwords
    BY <1>1, <1>2, FrameFields
    DEF LoginCheck, LoginCreate, LoginBind, LoginActivate, Handling, TypeOK,
        PhaseOK
  <1>4. \A e \in Conns : Current(e)' = Current(e)
    BY DEF LoginCheck, LoginCreate, LoginBind, LoginActivate, Current
  <1>5. /\ users \in [Usernames -> Account \cup {NoUser}]
        /\ pc \in [Conns -> PCs]
        /\ disc \in [Calls -> Activation]
        /\ NoUser \notin Account /\ NoUser \notin Usernames
        /\ NoConn \notin Conns
    BY BrokerAssumption DEF TypeOK, RegistryTypeOK, WorkerTypeOK,
       DisconnectTypeOK, Account
  <1>6. CASE LoginCheck(c)
    <2>1. \A e \in Conns : pc[e] \notin {"create", "bind", "activate"}
      BY <1>5, <1>6 DEF LoginCheck, LoginOK
    <2>2. UNCHANGED users
      BY <1>6 DEF LoginCheck
    <2>3. \A e \in Conns \ {c} : pc'[e] = pc[e]
      BY <1>5, <1>6 DEF LoginCheck, EnterLogin, Leave
    <2>4. \A k \in Calls : disc'[k].hit \in {NoUser, disc[k].hit}
      BY <1>5, <1>6 DEF LoginCheck, EnterLogin, Leave, Entered
    <2>5. pc'[c] \in {"create", "bind", "activate"} =>
            /\ monitor' = c
            /\ \/ pc'[c] = "create" /\ users[u] = NoUser
               \/ /\ pc'[c] = "bind" /\ users[u] # NoUser
                  /\ users[u].pass = f.pass /\ ~users[u].online
      BY <1>5, <1>6 DEF LoginCheck, EnterLogin, Leave
    <2>6. LoginOK'
      BY <1>4, <2>1, <2>2, <2>3, <2>4, <2>5 DEF LoginOK
    <2> QED
      BY <2>2, <2>6 DEF AccountStep
  <1>7. ASSUME NEW p \in PCs, NEW a \in Account,
               pc[c] \in {"create", "bind", "activate"},
               pc' = [pc EXCEPT ![c] = p],
               users' = [users EXCEPT ![u] = a],
               a.pass = f.pass,
               p \in {"create", "bind", "activate"} =>
                 monitor' = c /\ p = "activate" /\ a.conn = c,
               users[u] # NoUser => a.conn = users[u].conn \/ ~users[u].online,
               UNCHANGED disc
        PROVE  LoginOK' /\ AccountStep
    <2>1. \A e \in Conns \ {c} : pc[e] \notin {"create", "bind", "activate"}
      BY <1>7 DEF LoginOK
    <2>2. \A e \in Conns : pc'[e] = IF e = c THEN p ELSE pc[e]
      BY <1>5, <1>7
    <2>3. \A v \in Usernames : users'[v] = IF v = u THEN a ELSE users[v]
      BY <1>3, <1>5, <1>7
    <2>4. \A v \in Usernames : users[v] # NoUser => users'[v] # NoUser
      BY <1>5, <1>7, <2>3
    <2>5. users[u] # NoUser => users[u].pass = f.pass
      BY <1>7 DEF LoginOK
    <2>6. \A k \in Calls :
            disc'[k].hit # NoUser => users'[disc'[k].hit] # NoUser
      BY <1>5, <1>7, <2>4 DEF LoginOK, Activation
    <2>7. LoginOK'
      BY <1>3, <1>4, <1>5, <1>7, <2>1, <2>2, <2>3, <2>6 DEF LoginOK
    <2>8. AccountStep
      BY <1>7, <2>3, <2>4, <2>5 DEF AccountStep
    <2> QED
      BY <2>7, <2>8
  <1>8. CASE LoginCreate(c)
    <2> DEFINE a == [pass |-> f.pass, conn |-> c, online |-> TRUE]
    <2>1. a \in Account /\ a.pass = f.pass
      BY <1>3 DEF Account
    <2>2. users[u] = NoUser
      BY <1>8 DEF LoginCreate, LoginOK
    <2>3. users' = [users EXCEPT ![u] = a] /\ pc[c] = "create"
          /\ pc' = [pc EXCEPT ![c] = "reply"] /\ UNCHANGED disc
      BY <1>8 DEF LoginCreate, LoginReturns, Complete
    <2> HIDE DEF a, u, f
    <2> QED
      BY <1>7, <2>1, <2>2, <2>3 DEF PCs
  <1>9. CASE LoginBind(c)
    <2> DEFINE a == [users[u] EXCEPT !.conn = c]
    <2>1. users[u] \in Account /\ users[u].pass = f.pass /\ ~users[u].online
          /\ monitor = c
      BY <1>3, <1>5, <1>9 DEF LoginBind, LoginOK
    <2>2. a \in Account /\ a.pass = f.pass /\ a.conn = c
      BY <2>1 DEF Account
    <2>3. users' = [users EXCEPT ![u] = a] /\ pc[c] = "bind"
          /\ pc' = [pc EXCEPT ![c] = "activate"] /\ UNCHANGED <<disc, monitor>>
      BY <1>9 DEF LoginBind
    <2> HIDE DEF a, u, f
    <2> QED
      BY <1>7, <2>1, <2>2, <2>3 DEF PCs
  <1>10. CASE LoginActivate(c)
    <2> DEFINE a == [users[u] EXCEPT !.online = TRUE]
    <2>1. users[u] \in Account /\ users[u].pass = f.pass
      BY <1>3, <1>5, <1>10 DEF LoginActivate, LoginOK
    <2>2. a \in Account /\ a.pass = f.pass /\ a.conn = users[u].conn
      BY <2>1 DEF Account
    <2>3. users' = [users EXCEPT ![u] = a] /\ pc[c] = "activate"
          /\ pc' = [pc EXCEPT ![c] = "reply"] /\ UNCHANGED disc
      BY <1>10 DEF LoginActivate, LoginReturns, Complete
    <2> HIDE DEF a, u, f
    <2> QED
      BY <1>7, <2>2, <2>3 DEF PCs
  <1> QED
    BY <1>6, <1>8, <1>9, <1>10

(* disconnect takes users offline and changes nothing else about them.     *)
LEMMA DisconnectAccounts ==
  ASSUME TypeOK, LoginOK, NEW k \in Calls, DisconnectStep(k)
  PROVE  LoginOK' /\ AccountStep
  <1>1. /\ UNCHANGED <<pc, got, monitor>>
        /\ \A e \in Conns : Current(e)' = Current(e)
    BY DEF DisconnectStep, RemoveClient, CheckUser, ClearUser, RemoveSub,
           workerVars, registryVars, Current
  <1>2. /\ users \in [Usernames -> Account \cup {NoUser}]
        /\ disc \in [Calls -> Activation]
        /\ NoUser \notin Account /\ NoUser \notin Usernames
    BY BrokerAssumption DEF TypeOK, RegistryTypeOK, DisconnectTypeOK, Account
  <1>3. ASSUME NEW u \in Usernames, CheckUser(k, u)
        PROVE  LoginOK' /\ AccountStep
    <2>1. UNCHANGED users
      BY <1>3 DEF CheckUser, registryVars
    <2>2. \A j \in Calls : disc'[j].hit # NoUser => users[disc'[j].hit] # NoUser
      <3> SUFFICES ASSUME NEW j \in Calls, disc'[j].hit # NoUser
                   PROVE  users[disc'[j].hit] # NoUser
        OBVIOUS
      <3>1. CASE j = k
        BY <1>2, <1>3, <3>1 DEF CheckUser, Activation
      <3>2. CASE j # k
        BY <1>2, <1>3, <3>2 DEF CheckUser, LoginOK
      <3> QED
        BY <3>1, <3>2
    <2> QED
      BY <1>1, <2>1, <2>2 DEF LoginOK, AccountStep
  <1>4. CASE ClearUser(k)
    <2> DEFINE u == disc[k].hit
    <2>1. u \in Usernames /\ users[u] \in Account
      BY <1>2, <1>4 DEF ClearUser, LoginOK, Activation
    <2>2. PICK a \in Account : /\ users' = [users EXCEPT ![u] = a]
                               /\ a.pass = users[u].pass
                               /\ a.conn = users[u].conn
                               /\ ~a.online
      <3>1. [users[u] EXCEPT !.online = FALSE] \in Account
        BY <2>1 DEF Account
      <3> QED
        BY <1>4, <2>1, <3>1 DEF ClearUser, Account
    <2>3. \A v \in Usernames : users'[v] = IF v = u THEN a ELSE users[v]
      BY <1>2, <2>1, <2>2
    <2>4. \A j \in Calls : disc'[j].hit \in {NoUser, disc[j].hit}
      BY <1>2, <1>4 DEF ClearUser, Activation
    <2>5. \A j \in Calls :
            disc'[j].hit # NoUser => users'[disc'[j].hit] # NoUser
      BY <1>2, <2>2, <2>3, <2>4 DEF LoginOK, Activation
    <2>6. \A v \in Usernames :
            /\ users[v] = NoUser <=> users'[v] = NoUser
            /\ users[v] # NoUser => /\ users'[v].pass = users[v].pass
                                    /\ users'[v].conn = users[v].conn
                                    /\ users'[v].online => users[v].online
      BY <1>2, <2>1, <2>2, <2>3
    <2>7. AccountStep
      BY <2>6 DEF AccountStep
    <2>8. \A e \in Conns : pc[e] \in {"create", "bind", "activate"} =>
            Current(e).user \in Usernames
      BY CurrentFrame, FrameFields DEF TypeOK, PhaseOK
    <2>9. LoginOK'
      <3>1. ASSUME NEW e \in Conns, pc[e] \in {"create", "bind", "activate"}
            PROVE  LET account == users'[Current(e).user]
                   IN  /\ monitor = e
                       /\ pc[e] = "create" => account = NoUser
                       /\ pc[e] # "create" =>
                            account # NoUser /\ account.pass = Current(e).pass
                       /\ pc[e] = "bind" => ~account.online
                       /\ pc[e] = "activate" => account.conn = e
        BY <2>6, <2>8, <3>1 DEF LoginOK
      <3> QED
        BY <1>1, <2>5, <3>1 DEF LoginOK
    <2> QED
      BY <2>7, <2>9
  <1>5. ASSUME RemoveClient(k) \/ \E ch \in Channels : RemoveSub(k, ch)
        PROVE  LoginOK' /\ AccountStep
    <2>1. UNCHANGED users
      BY <1>5 DEF RemoveClient, RemoveSub
    <2>2. \A j \in Calls : disc'[j].hit \in {NoUser, disc[j].hit}
      BY <1>2, <1>5 DEF RemoveClient, RemoveSub, Returned, Activation
    <2> QED
      BY <1>1, <2>1, <2>2, AccountsKept
  <1> QED
    BY <1>3, <1>4, <1>5 DEF DisconnectStep

(* Every step keeps LoginOK and satisfies AccountStep.                     *)
LEMMA StepAccounts ==
  ASSUME TypeOK, LoginOK, [Next]_vars
  PROVE  LoginOK' /\ AccountStep
  <1>1. disc \in [Calls -> Activation] /\ pc \in [Conns -> PCs]
        /\ got \in [Conns -> Seq(Frame)]
    BY DEF TypeOK, WorkerTypeOK, DisconnectTypeOK
  <1>2. ASSUME NEW c \in Conns,
               \/ Malformed(c) \/ Disconnect(c) \/ Subscribe(c)
               \/ Unsubscribe(c) \/ Send(c) \/ FanoutDone(c)
        PROVE  LoginOK' /\ AccountStep
    <2>1. UNCHANGED <<users, monitor, got>>
      BY <1>2 DEF Malformed, Disconnect, Subscribe, Unsubscribe, Send,
         FanoutDone, registryVars
    <2>2. \E p \in {"reply", "fanout"} : pc' = [pc EXCEPT ![c] = p]
      BY <1>2 DEF Malformed, Disconnect, Subscribe, Unsubscribe, Send,
         FanoutDone, Complete, Leave
    <2>3. \/ UNCHANGED disc
          \/ disc' = [disc EXCEPT ![<<"process", c>>] = Entered]
      BY <1>2 DEF Malformed, Disconnect, Subscribe, Unsubscribe, Send,
         FanoutDone, Complete, Leave
    <2>4. \A k \in Calls : disc'[k].hit \in {NoUser, disc[k].hit}
      BY <2>3, EnteredHit
    <2>5. \A e \in Conns : pc'[e] \in {"create", "bind", "activate"} =>
            pc'[e] = pc[e] /\ got'[e] = got[e]
      BY <1>1, <2>1, <2>2
    <2> QED
      BY <2>1, <2>4, <2>5, AccountsKept
  <1>3. ASSUME NEW c \in Conns,
               \/ Accept(c) \/ Reply(c) \/ LookUp(c) \/ HandOver(c)
               \/ \E d \in Conns : Visit(c, d)
               \/ \E f \in Inputs[c] : Receive(c, f)
        PROVE  LoginOK' /\ AccountStep
    <2>1. UNCHANGED <<users, monitor, disc>>
      BY <1>3 DEF Accept, Reply, LookUp, HandOver, Visit, Receive, registryVars
    <2>2. \A e \in Conns : pc'[e] \in {"create", "bind", "activate"} =>
            pc'[e] = pc[e] /\ got'[e] = got[e]
      BY <1>1, <1>3 DEF Accept, Reply, LookUp, HandOver, Visit, Receive
    <2> QED
      BY <2>1, <2>2, AccountsKept
  <1>4. ASSUME NEW c \in Conns, Close(c) \/ StartClose(c)
        PROVE  LoginOK' /\ AccountStep
    <2>1. UNCHANGED <<users, monitor, pc, got>>
      BY <1>4 DEF Close, StartClose, registryVars, workerVars
    <2>2. \A k \in Calls : disc'[k].hit \in {NoUser, disc[k].hit}
      BY <1>4, EnteredHit DEF Close, StartClose
    <2> QED
      BY <2>1, <2>2, AccountsKept
  <1>5. ASSUME UNCHANGED vars
        PROVE  LoginOK' /\ AccountStep
    BY <1>5, AccountsKept DEF vars
  <1>6. CASE Quiet
    BY <1>5, <1>6 DEF Quiet
  <1> QED
    BY <1>2, <1>3, <1>4, <1>5, <1>6, LoginAccounts, DisconnectAccounts
    DEF Next, Handle

(***************************************************************************)
(* What a step adds to the history of a connection.                        *)
(***************************************************************************)

(* Only a frame that is received is added to what a connection decoded.    *)
LEMMA GotReceived ==
  ASSUME TypeOK, [Next]_vars, NEW c \in Conns
  PROVE  \/ got'[c] = got[c]
         \/ \E f \in Inputs[c] :
              Receive(c, f) /\ f \in Frame /\ got'[c] = Append(got[c], f)
  <1>1. CASE UNCHANGED got
    BY <1>1
  <1>2. ASSUME NEW e \in Conns, NEW f \in Inputs[e], Receive(e, f)
        PROVE  \/ got'[c] = got[c]
               \/ e = c /\ f \in Frame /\ got'[c] = Append(got[c], f)
    <2>1. f \in Frame
      BY BrokerAssumption
    <2>2. got' = [got EXCEPT ![e] = Append(got[e], f)]
      BY <1>2 DEF Receive
    <2> QED
      BY <2>1, <2>2 DEF TypeOK, WorkerTypeOK
  <1>3. ASSUME NEW e \in Conns,
               Accept(e) \/ Handle(e) \/ HandOver(e) \/ Reply(e)
        PROVE  UNCHANGED got
    BY <1>3 DEF Accept, Handle, HandOver, Reply, Malformed, Disconnect,
       Subscribe, Unsubscribe, Send, Visit, LookUp, FanoutDone, LoginCheck,
       LoginCreate, LoginBind, LoginActivate
  <1>4. ASSUME NEW e \in Conns, Close(e) \/ StartClose(e)
        PROVE  UNCHANGED got
    BY <1>4 DEF Close, StartClose, workerVars
  <1>5. ASSUME NEW k \in Calls, DisconnectStep(k)
        PROVE  UNCHANGED got
    BY <1>5 DEF DisconnectStep, RemoveClient, CheckUser, ClearUser, RemoveSub,
       workerVars
  <1>6. UNCHANGED vars \/ Quiet => UNCHANGED got
    BY DEF vars, Quiet
  <1> QED
    BY <1>1, <1>2, <1>3, <1>4, <1>5, <1>6 DEF Next

LEMMA GotGrows ==
  ASSUME TypeOK, [Next]_vars, NEW c \in Conns
  PROVE  got'[c] = got[c] \/ \E f \in Frame : got'[c] = Append(got[c], f)
  BY GotReceived

(* A connection is written nothing but messages and the answers of its own *)
(* worker.                                                                 *)
LEMMA OutGrows ==
  ASSUME TypeOK, [Next]_vars, NEW c \in Conns
  PROVE  \/ out'[c] = out[c]
         \/ \E m \in MessageFrame : out'[c] = Append(out[c], m)
         \/ Reply(c) /\ out'[c] = out[c] \o answer[c]
  <1>1. CASE UNCHANGED out
    BY <1>1
  <1>2. ASSUME NEW e \in Conns, HandOver(e)
        PROVE  \/ out'[c] = out[c]
               \/ \E m \in MessageFrame : out'[c] = Append(out[c], m)
    <2> DEFINE m == FrameFor(e, pick[e].sub)
    <2>1. pc[e] = "fanout" /\ pick[e].sub \in SubIds
      BY <1>2 DEF HandOver, TypeOK, PhaseOK, WorkerTypeOK
    <2>2. Current(e) \in Frame /\ Len(got[e]) \in Nat
      BY <2>1, CurrentFrame
    <2>3. Current(e).cmd = "SEND"
      BY <2>1 DEF TypeOK, PhaseOK
    <2>4. m \in MessageFrame
      BY <2>1, <2>2, <2>3, FrameFields
      DEF FrameFor, MessageFrame, TypeOK, WorkerTypeOK
    <2>5. out' = out \/ out' = [out EXCEPT ![pick[e].to] = Append(@, m)]
      BY <1>2 DEF HandOver
    <2> HIDE DEF m
    <2> QED
      BY <2>4, <2>5 DEF TypeOK, HandlerTypeOK
  <1>3. ASSUME NEW e \in Conns, Reply(e)
        PROVE  \/ out'[c] = out[c]
               \/ Reply(c) /\ out'[c] = out[c] \o answer[c]
    BY <1>3 DEF Reply, TypeOK, HandlerTypeOK
  <1>4. ASSUME NEW e \in Conns,
               Accept(e) \/ Handle(e) \/ \E f \in Inputs[e] : Receive(e, f)
        PROVE  UNCHANGED out
    BY <1>4 DEF Accept, Handle, Receive, Malformed, Disconnect,
       Subscribe, Unsubscribe, Send, Visit, LookUp, FanoutDone, LoginCheck,
       LoginCreate, LoginBind, LoginActivate, handlerVars
  <1>5. ASSUME NEW e \in Conns, Close(e) \/ StartClose(e)
        PROVE  UNCHANGED out
    BY <1>5 DEF Close, StartClose
  <1>6. ASSUME NEW k \in Calls, DisconnectStep(k)
        PROVE  UNCHANGED out
    BY <1>6 DEF DisconnectStep, RemoveClient, CheckUser, ClearUser, RemoveSub,
       handlerVars
  <1>7. UNCHANGED vars \/ Quiet => UNCHANGED out
    BY DEF vars, Quiet
  <1> QED
    BY <1>1, <1>2, <1>3, <1>4, <1>5, <1>6, <1>7 DEF Next

(* The answer a worker holds changes when process() returns one and when   *)
(* it is handed to the handler.  The worker that returns a logout receipt  *)
(* or an ERROR is leaving.                                                 *)
LEMMA AnswerStep ==
  ASSUME TypeOK, [Next]_vars, NEW c \in Conns
  PROVE  \/ answer'[c] = answer[c] \/ answer'[c] = <<>>
         \/ /\ pc[c] \notin {"off", "idle"} /\ UNCHANGED got
            /\ \/ /\ answer'[c] \in {Receipt(c), Error(c)}
                  /\ Leave(c, answer'[c])
               \/ /\ answer'[c] = Receipt(c)
                  /\ Current(c).cmd # "DISCONNECT"
               \/ /\ LoginCreate(c) \/ LoginActivate(c)
                  /\ answer'[c] = Connected(c)
  <1>1. answer \in [Conns -> Seq(ReplyFrame)]
    BY DEF TypeOK, WorkerTypeOK
  <1>2. CASE UNCHANGED answer
    BY <1>2
  <1>3. ASSUME NEW e \in Conns, NEW ans, Complete(e, ans) \/ Leave(e, ans)
        PROVE  /\ answer' = [answer EXCEPT ![e] = ans]
               /\ answer'[e] = ans
               /\ e # c => answer'[c] = answer[c]
    BY <1>1, <1>3 DEF Complete, Leave
  <1>4. ASSUME NEW e \in Conns,
               \/ Malformed(e) \/ Disconnect(e) \/ Subscribe(e)
               \/ Unsubscribe(e) \/ FanoutDone(e) \/ Send(e) \/ LoginCheck(e)
        PROVE  \/ UNCHANGED answer
               \/ /\ pc[e] \notin {"off", "idle"} /\ UNCHANGED got
                  /\ \/ Leave(e, Receipt(e)) \/ Leave(e, Error(e))
                     \/ /\ Complete(e, Receipt(e))
                        /\ Current(e).cmd # "DISCONNECT"
    <2>1. pc[e] \notin {"off", "idle"} /\ UNCHANGED got
      BY <1>4 DEF Malformed, Disconnect, Subscribe, Unsubscribe,
         FanoutDone, Send, LoginCheck, Handling, Fanning
    <2>2. CASE Malformed(e) \/ Disconnect(e)
      BY <2>1, <2>2 DEF Malformed, Disconnect
    <2>3. CASE Subscribe(e) \/ Unsubscribe(e)
      BY <2>1, <2>3 DEF Subscribe, Unsubscribe, Handling
    <2>4. CASE FanoutDone(e)
      BY <2>1, <2>4 DEF FanoutDone, Fanning, TypeOK, PhaseOK
    <2>5. CASE Send(e) \/ LoginCheck(e)
      BY <2>1, <2>5 DEF Send, LoginCheck, EnterLogin
    <2> QED
      BY <1>4, <2>2, <2>3, <2>4, <2>5
  <1>5. ASSUME NEW e \in Conns, LoginCreate(e) \/ LoginActivate(e)
        PROVE  /\ Complete(e, Connected(e))
               /\ pc[e] \notin {"off", "idle"} /\ UNCHANGED got
    BY <1>5 DEF LoginCreate, LoginActivate, LoginReturns
  <1>6. ASSUME NEW e \in Conns, Reply(e)
        PROVE  answer'[c] = answer[c] \/ answer'[c] = <<>>
    BY <1>1, <1>6 DEF Reply
  <1>7. ASSUME NEW e \in Conns,
               \/ Accept(e) \/ LookUp(e) \/ HandOver(e) \/ LoginBind(e)
               \/ \E d \in Conns : Visit(e, d)
               \/ \E f \in Inputs[e] : Receive(e, f)
        PROVE  UNCHANGED answer
    BY <1>7 DEF Accept, LookUp, HandOver, LoginBind, Visit, Receive
  <1>8. ASSUME NEW e \in Conns, Close(e) \/ StartClose(e)
        PROVE  UNCHANGED answer
    BY <1>8 DEF Close, StartClose, workerVars
  <1>9. ASSUME NEW k \in Calls, DisconnectStep(k)
        PROVE  UNCHANGED answer
    BY <1>9 DEF DisconnectStep, RemoveClient, CheckUser, ClearUser, RemoveSub,
       workerVars
  <1>10. UNCHANGED vars \/ Quiet => UNCHANGED answer
    BY DEF vars, Quiet
  <1>11. ASSUME NEW e \in Conns,
                \/ Malformed(e) \/ Disconnect(e) \/ Subscribe(e)
                \/ Unsubscribe(e) \/ FanoutDone(e) \/ Send(e) \/ LoginCheck(e)
                \/ LoginCreate(e) \/ LoginActivate(e)
         PROVE  \/ answer'[c] = answer[c]
                \/ /\ pc[c] \notin {"off", "idle"} /\ UNCHANGED got
                   /\ \/ /\ answer'[c] \in {Receipt(c), Error(c)}
                         /\ Leave(c, answer'[c])
                      \/ /\ answer'[c] = Receipt(c)
                         /\ Current(c).cmd # "DISCONNECT"
                      \/ /\ LoginCreate(c) \/ LoginActivate(c)
                         /\ answer'[c] = Connected(c)
    <2>1. CASE e = c
      <3>1. CASE LoginCreate(c) \/ LoginActivate(c)
        BY <1>3, <1>5, <3>1
      <3>2. CASE ~(LoginCreate(c) \/ LoginActivate(c))
        BY <1>3, <1>4, <1>11, <2>1, <3>2
      <3> QED
        BY <3>1, <3>2
    <2>2. CASE e # c
      BY <1>3, <1>4, <1>5, <1>11, <2>2
    <2> QED
      BY <2>1, <2>2
  <1> QED
    BY <1>2, <1>6, <1>7, <1>8, <1>9, <1>10, <1>11 DEF Next, Handle

(***************************************************************************)
(* CONNECTED and passwords.                                                *)
(***************************************************************************)

(* What was right about a reply stays right.                               *)
LEMMA KnowsStable ==
  ASSUME TypeOK, LoginOK, [Next]_vars, NEW c \in Conns, NEW r,
         KnowsPassword(c, r)
  PROVE  KnowsPassword(c, r)'
  <1> SUFFICES ASSUME r.kind = "CONNECTED" PROVE KnowsPassword(c, r)'
    BY DEF KnowsPassword
  <1> DEFINE f == got[c][r.n]
  <1>1. got[c] \in Seq(Frame) /\ r.n \in 1 .. Len(got[c])
    BY DEF KnowsPassword, TypeOK, WorkerTypeOK
  <1>2. f \in Frame /\ f.cmd = "CONNECT"
        /\ users[f.user] # NoUser /\ users[f.user].pass = f.pass
    BY <1>1, ElementOfSeq DEF KnowsPassword
  <1>3. got'[c][r.n] = f /\ r.n \in 1 .. Len(got'[c])
    <2>1. CASE got'[c] = got[c]
      BY <1>1, <2>1
    <2>2. ASSUME NEW g \in Frame, got'[c] = Append(got[c], g)
          PROVE  got'[c][r.n] = f /\ r.n \in 1 .. Len(got'[c])
      BY <1>1, <2>2, AppendProperties
    <2> QED
      BY <2>1, <2>2, GotGrows
  <1>4. users'[f.user] # NoUser /\ users'[f.user].pass = f.pass
    BY <1>2, FrameFields, StepAccounts DEF AccountStep
  <1> HIDE DEF f
  <1> QED
    BY <1>2, <1>3, <1>4 DEF KnowsPassword

(* CONNECTED is returned only to a worker whose password is the account's. *)
LEMMA ConnectedIsEarned ==
  ASSUME TypeOK, LoginOK, NEW c \in Conns,
         LoginCreate(c) \/ LoginActivate(c),
         NEW i \in DOMAIN Connected(c), NEW r, r = Connected(c)[i]
  PROVE  KnowsPassword(c, r)'
  <1> DEFINE f == Current(c)
  <1>1. pc[c] \in {"create", "activate"} /\ UNCHANGED got
    BY DEF LoginCreate, LoginActivate
  <1>2. /\ f \in Frame /\ f.cmd = "CONNECT"
        /\ Len(got[c]) \in 1 .. Len(got[c])
        /\ f.user \in Usernames /\ f.pass \in Passwords
    BY <1>1, CurrentFrame, FrameFields DEF TypeOK, PhaseOK
  <1>3. r.n = Len(got[c])
    BY DEF Connected, Receipt, Answer
  <1>4. users'[f.user] # NoUser /\ users'[f.user].pass = f.pass
    <2>1. users \in [Usernames -> Account \cup {NoUser}]
          /\ NoUser \notin Account
      BY BrokerAssumption DEF TypeOK, RegistryTypeOK, Account
    <2>2. CASE LoginCreate(c)
      <3>1. [pass |-> f.pass, conn |-> c, online |-> TRUE] \in Account
        BY <1>2 DEF Account
      <3> QED
        BY <1>2, <2>1, <2>2, <3>1 DEF LoginCreate
    <2>3. CASE LoginActivate(c)
      <3>1. users[f.user] \in Account /\ users[f.user].pass = f.pass
        BY <1>2, <2>1, <2>3 DEF LoginActivate, LoginOK
      <3> DEFINE a == [users[f.user] EXCEPT !.online = TRUE]
      <3>2. a \in Account /\ a.pass = f.pass
        BY <3>1 DEF Account
      <3>3. users' = [users EXCEPT ![f.user] = a]
        BY <2>3 DEF LoginActivate
      <3> HIDE DEF a
      <3>4. users'[f.user] = a
        BY <1>2, <2>1, <3>3
      <3> QED
        BY <2>1, <3>2, <3>4
    <2> QED
      BY <2>2, <2>3
  <1>5. got'[c][r.n] = f /\ r.n \in 1 .. Len(got'[c])
    BY <1>1, <1>2, <1>3 DEF Current
  <1> HIDE DEF f
  <1> QED
    BY <1>2, <1>4, <1>5 DEF KnowsPassword

(* What is appended to a sequence of frames.                               *)
LEMMA NewElements ==
  ASSUME NEW S, NEW s \in Seq(S), NEW t \in Seq(S), NEW i \in DOMAIN (s \o t)
  PROVE  \/ i \in DOMAIN s /\ (s \o t)[i] = s[i]
         \/ \E j \in DOMAIN t : (s \o t)[i] = t[j]
  <1>1. i \in 1 .. Len(s) + Len(t)
    BY ConcatProperties
  <1>2. CASE i \leq Len(s)
    BY <1>1, <1>2, ConcatProperties
  <1>3. CASE i > Len(s)
    <2>1. i - Len(s) \in DOMAIN t
      BY <1>1, <1>3
    <2>2. (s \o t)[i] = t[i - Len(s)]
      BY <1>1, <1>3, ConcatProperties
    <2> QED
      BY <2>1, <2>2
  <1> QED
    BY <1>1, <1>2, <1>3

(* What c has after a reply it had before, or its worker returned it.      *)
LEMMA ReplyElements ==
  ASSUME TypeOK, NEW c \in Conns, out'[c] = out[c] \o answer[c],
         NEW i \in DOMAIN out'[c], NEW r, r = out'[c][i]
  PROVE  \/ \E j \in DOMAIN out[c] : r = out[c][j]
         \/ \E j \in DOMAIN answer[c] : r = answer[c][j]
  <1> DEFINE F == ReplyFrame \cup MessageFrame
             old == out[c]
             new == answer[c]
  <1>1. old \in Seq(F) /\ new \in Seq(ReplyFrame)
    BY DEF TypeOK, WorkerTypeOK, HandlerTypeOK
  <1>2. new \in Seq(F)
    BY <1>1, SeqMonotonic
  <1>3. i \in DOMAIN (old \o new) /\ r = (old \o new)[i]
    OBVIOUS
  <1> HIDE DEF F, old, new
  <1>4. \/ i \in DOMAIN old /\ (old \o new)[i] = old[i]
        \/ \E j \in DOMAIN new : (old \o new)[i] = new[j]
    BY <1>1, <1>2, <1>3, NewElements
  <1>5. \/ i \in DOMAIN old /\ r = old[i]
        \/ \E j \in DOMAIN new : r = new[j]
    BY <1>3, <1>4
  <1> QED
    BY <1>5 DEF old, new

(* A step adds to out and answer only what KnowsPassword allows.           *)
LEMMA StepConnected ==
  ASSUME TypeOK, LoginOK, ConnectedOK, [Next]_vars
  PROVE  ConnectedOK'
  <1>1. ASSUME NEW c \in Conns, NEW i \in DOMAIN out'[c], NEW r,
               r = out'[c][i]
        PROVE  KnowsPassword(c, r)'
    <2>1. ASSUME NEW j \in DOMAIN out[c], r = out[c][j]
          PROVE  KnowsPassword(c, r)'
      <3>1. KnowsPassword(c, r)
        BY <2>1 DEF ConnectedOK
      <3> QED
        BY <3>1, KnowsStable
    <2>2. ASSUME NEW j \in DOMAIN answer[c], r = answer[c][j]
          PROVE  KnowsPassword(c, r)'
      <3>1. KnowsPassword(c, r)
        BY <2>2 DEF ConnectedOK
      <3> QED
        BY <3>1, KnowsStable
    <2>3. /\ out[c] \in Seq(ReplyFrame \cup MessageFrame)
          /\ answer[c] \in Seq(ReplyFrame)
      BY DEF TypeOK, WorkerTypeOK, HandlerTypeOK
    <2>4. CASE out'[c] = out[c]
      BY <1>1, <2>1, <2>4
    <2>5. ASSUME NEW m \in MessageFrame, out'[c] = Append(out[c], m)
          PROVE  KnowsPassword(c, r)'
      <3>1. \/ i \in DOMAIN out[c] /\ r = out[c][i]
            \/ r = m
        BY <1>1, <2>3, <2>5
      <3>2. r = m => KnowsPassword(c, r)'
        BY DEF MessageFrame, KnowsPassword
      <3> QED
        BY <2>1, <3>1, <3>2
    <2>6. CASE out'[c] = out[c] \o answer[c]
      BY <1>1, <2>1, <2>2, <2>6, ReplyElements
    <2> QED
      BY <2>4, <2>5, <2>6, OutGrows
  <1>2. ASSUME NEW c \in Conns, NEW i \in DOMAIN answer'[c], NEW r,
               r = answer'[c][i]
        PROVE  KnowsPassword(c, r)'
    <2>1. CASE answer'[c] = answer[c]
      <3>1. KnowsPassword(c, r)
        BY <1>2, <2>1 DEF ConnectedOK
      <3> QED
        BY <3>1, KnowsStable
    <2>2. CASE answer'[c] \in {<<>>, Receipt(c), Error(c)}
      BY <1>2, <2>2 DEF Receipt, Error, Answer, KnowsPassword
    <2>3. CASE /\ LoginCreate(c) \/ LoginActivate(c)
               /\ answer'[c] = Connected(c)
      BY <1>2, <2>3, ConnectedIsEarned
    <2> QED
      BY <2>1, <2>2, <2>3, AnswerStep
  <1>3. ASSUME NEW c \in Conns, NEW i \in DOMAIN out'[c]
        PROVE  KnowsPassword(c, out[c][i])'
    <2>1. \E r : r = out'[c][i] /\ KnowsPassword(c, r)'
      BY <1>1
    <2> QED
      BY <2>1 DEF KnowsPassword
  <1>4. ASSUME NEW c \in Conns, NEW i \in DOMAIN answer'[c]
        PROVE  KnowsPassword(c, answer[c][i])'
    <2>1. \E r : r = answer'[c][i] /\ KnowsPassword(c, r)'
      BY <1>2
    <2> QED
      BY <2>1 DEF KnowsPassword
  <1> QED
    BY <1>3, <1>4 DEF ConnectedOK

(***************************************************************************)
(* The last reply of a connection.                                         *)
(***************************************************************************)

(* The worker of c leaves once; only the steps of disconnect move its      *)
(* activation after that.                                                  *)
LEMMA ProcessStep ==
  ASSUME TypeOK, [Next]_vars, NEW c \in Conns
  PROVE  \/ /\ pc[c] = "handle"
            /\ \E ans : Leave(c, ans)
            /\ UNCHANGED <<clients, subs, users>>
         \/ DisconnectStep(<<"process", c>>) /\ UNCHANGED <<pc, term>>
         \/ /\ term'[c] = term[c]
            /\ disc'[<<"process", c>>] = disc[<<"process", c>>]
  <1> DEFINE p == <<"process", c>>
  <1>1. /\ disc \in [Calls -> Activation] /\ term \in [Conns -> BOOLEAN]
        /\ p \in Calls
    BY ActivationTypes DEF TypeOK, WorkerTypeOK, DisconnectTypeOK
  <1> HIDE DEF p
  <1>2. CASE UNCHANGED <<term, disc>>
    BY <1>2 DEF p
  <1>3. ASSUME NEW e \in Conns, NEW ans, Leave(e, ans), pc[e] = "handle",
               UNCHANGED <<clients, subs, users>>
        PROVE  \/ e = c
               \/ term'[c] = term[c] /\ disc'[p] = disc[p]
    BY <1>1, <1>3 DEF Leave, p
  <1>4. ASSUME NEW e \in Conns,
               \/ Malformed(e) \/ Disconnect(e) \/ Subscribe(e)
               \/ Unsubscribe(e) \/ Send(e) \/ LoginCheck(e)
        PROVE  \/ UNCHANGED <<term, disc>>
               \/ /\ pc[e] = "handle" /\ \E ans : Leave(e, ans)
                  /\ UNCHANGED <<clients, subs, users>>
    BY <1>4 DEF Malformed, Disconnect, Subscribe, Unsubscribe, Send,
       LoginCheck, EnterLogin, Complete, Handling, registryVars
  <1>5. ASSUME NEW e \in Conns,
               \/ FanoutDone(e) \/ LookUp(e) \/ LoginCreate(e) \/ LoginBind(e)
               \/ LoginActivate(e) \/ Accept(e) \/ HandOver(e) \/ Reply(e)
               \/ (\E d \in Conns : Visit(e, d))
               \/ (\E f \in Inputs[e] : Receive(e, f))
        PROVE  UNCHANGED <<term, disc>>
    BY <1>5 DEF FanoutDone, LookUp, LoginCreate, LoginBind, LoginActivate,
       LoginReturns, Complete, Accept, HandOver, Reply, Visit, Receive
  <1>6. ASSUME NEW e \in Conns, Close(e) \/ StartClose(e)
        PROVE  term' = term /\ disc'[p] = disc[p]
    BY <1>1, <1>6 DEF Close, StartClose, workerVars, p
  <1>7. ASSUME NEW k \in Calls, DisconnectStep(k)
        PROVE  /\ UNCHANGED <<pc, term>>
               /\ k = p \/ disc'[p] = disc[p]
    BY <1>1, <1>7 DEF DisconnectStep, RemoveClient, CheckUser, ClearUser,
       RemoveSub, workerVars
  <1>8. UNCHANGED vars \/ Quiet => UNCHANGED <<term, disc>>
    BY DEF vars, Quiet
  <1> QED
    BY <1>2, <1>3, <1>4, <1>5, <1>6, <1>7, <1>8 DEF Next, Handle, p

(* A worker that has returned goes on by its reply or its next frame.      *)
LEMMA ReturnedStep ==
  ASSUME TypeOK, [Next]_vars, NEW c \in Conns, pc[c] \in {"reply", "idle"}
  PROVE  \/ pc'[c] \in {"reply", "idle"}
         \/ \E f \in Inputs[c] : Receive(c, f)
  <1>1. pc \in [Conns -> PCs]
    BY DEF TypeOK, WorkerTypeOK
  <1>2. CASE UNCHANGED pc
    BY <1>2
  <1>3. ASSUME NEW e \in Conns, Accept(e) \/ Handle(e)
        PROVE  e # c /\ \A d \in Conns \ {e} : pc'[d] = pc[d]
    BY <1>1, <1>3 DEF Accept, Handle, Malformed, Disconnect, Subscribe,
       Unsubscribe, Send, Visit, LookUp, FanoutDone, LoginCheck, LoginCreate,
       LoginBind, LoginActivate, LoginReturns, EnterLogin, Complete, Leave,
       Handling, Fanning, Iterating
  <1>4. ASSUME NEW e \in Conns, HandOver(e) \/ Reply(e)
        PROVE  pc'[c] \in {"reply", "idle"}
    BY <1>1, <1>4 DEF HandOver, Reply
  <1>5. ASSUME NEW e \in Conns, NEW f \in Inputs[e], Receive(e, f)
        PROVE  e = c \/ pc'[c] = pc[c]
    BY <1>1, <1>5 DEF Receive
  <1>6. ASSUME NEW e \in Conns, Close(e) \/ StartClose(e)
        PROVE  UNCHANGED pc
    BY <1>6 DEF Close, StartClose, workerVars
  <1>7. ASSUME NEW k \in Calls, DisconnectStep(k)
        PROVE  UNCHANGED pc
    BY <1>7 DEF DisconnectStep, RemoveClient, CheckUser, ClearUser, RemoveSub,
       workerVars
  <1>8. UNCHANGED vars \/ Quiet => UNCHANGED pc
    BY DEF vars, Quiet
  <1> QED
    BY <1>2, <1>3, <1>4, <1>5, <1>6, <1>7, <1>8 DEF Next

(* Nobody but the worker of c, as it starts or logs in, makes c a handler  *)
(* or the connection of a user that is online, and nobody but that worker, *)
(* in process(), makes c a subscriber.                                     *)
LEMMA NothingComesBack ==
  ASSUME TypeOK, LoginOK, [Next]_vars, NEW c \in Conns,
         pc[c] \notin {"off", "create", "bind", "activate"}
  PROVE  /\ c \notin clients => c \notin clients'
         /\ pc[c] \in {"reply", "idle"} =>
              \A ch \in Channels : subs[ch][c] = NoSub => subs'[ch][c] = NoSub
         /\ \A u \in Usernames :
              users'[u] # NoUser /\ users'[u].conn = c /\ users'[u].online =>
                users[u] # NoUser /\ users[u].conn = c /\ users[u].online
  <1>1. /\ subs \in [Channels -> [Conns -> SubIds \cup {NoSub}]]
        /\ users \in [Usernames -> Account \cup {NoUser}]
        /\ disc \in [Calls -> Activation]
        /\ NoUser \notin Account /\ NoUser \notin Usernames
    BY BrokerAssumption DEF TypeOK, RegistryTypeOK, DisconnectTypeOK, Account
  <1>2. CASE UNCHANGED <<clients, subs, users>>
    BY <1>2
  <1>3. ASSUME NEW e \in Conns, Accept(e)
        PROVE  e # c /\ clients' = clients \cup {e} /\ UNCHANGED <<subs, users>>
    BY <1>3 DEF Accept
  <1>4. ASSUME NEW e \in Conns, Subscribe(e)
        PROVE  /\ UNCHANGED <<clients, users>>
               /\ pc[c] \in {"reply", "idle"} =>
                    \A ch \in Channels : subs'[ch][c] = subs[ch][c]
    <2>1. pc[c] \in {"reply", "idle"} => e # c
      BY <1>4 DEF Subscribe, Handling
    <2>2. UNCHANGED <<clients, users>>
      BY <1>4 DEF Subscribe
    <2>3. UNCHANGED subs
          \/ \E h, s : subs' = [subs EXCEPT ![h][e] = s]
      BY <1>4 DEF Subscribe
    <2> QED
      BY <1>1, <2>1, <2>2, <2>3
  <1>5. ASSUME NEW e \in Conns, Unsubscribe(e)
        PROVE  /\ UNCHANGED <<clients, users>>
               /\ \A ch \in Channels : subs[ch][c] = NoSub
                                         => subs'[ch][c] = NoSub
    BY <1>1, <1>5 DEF Unsubscribe
  <1>6. ASSUME NEW e \in Conns, LoginCreate(e) \/ LoginBind(e) \/ LoginActivate(e)
        PROVE  /\ UNCHANGED <<clients, subs>>
               /\ \A u \in Usernames :
                    \/ users'[u] = users[u]
                    \/ users'[u].conn = e
    <2> DEFINE v == Current(e).user
    <2>1. pc[e] \in {"create", "bind", "activate"}
          /\ UNCHANGED <<clients, subs>>
      BY <1>6 DEF LoginCreate, LoginBind, LoginActivate
    <2>2. Current(e) \in Frame /\ Current(e).cmd = "CONNECT"
      BY <2>1, CurrentFrame DEF TypeOK, PhaseOK
    <2>3. v \in Usernames
      BY <2>2, FrameFields
    <2>4. CASE LoginCreate(e)
      BY <1>1, <2>1, <2>3, <2>4 DEF LoginCreate
    <2>5. CASE LoginBind(e) \/ LoginActivate(e)
      <3>1. users[v] \in Account /\ (LoginActivate(e) => users[v].conn = e)
        BY <1>1, <2>3, <2>5 DEF LoginBind, LoginActivate, LoginOK
      <3>2. PICK a \in Account : users' = [users EXCEPT ![v] = a] /\ a.conn = e
        <4>1. [users[v] EXCEPT !.conn = e] \in Account
              /\ [users[v] EXCEPT !.conn = e].conn = e
          BY <3>1 DEF Account
        <4>2. [users[v] EXCEPT !.online = TRUE] \in Account
              /\ [users[v] EXCEPT !.online = TRUE].conn = users[v].conn
          BY <3>1 DEF Account
        <4> QED
          BY <2>5, <3>1, <4>1, <4>2 DEF LoginBind, LoginActivate
      <3> HIDE DEF v
      <3> QED
        BY <1>1, <2>1, <2>3, <3>2
    <2> QED
      BY <1>6, <2>4, <2>5
  <1>7. ASSUME NEW e \in Conns, LoginCreate(e) \/ LoginBind(e) \/ LoginActivate(e)
        PROVE  e # c
    BY <1>7 DEF LoginCreate, LoginBind, LoginActivate
  <1>8. ASSUME NEW e \in Conns,
               \/ Malformed(e) \/ Disconnect(e) \/ Send(e) \/ LookUp(e)
               \/ FanoutDone(e) \/ LoginCheck(e) \/ HandOver(e) \/ Reply(e)
               \/ Close(e) \/ StartClose(e)
               \/ (\E d \in Conns : Visit(e, d))
               \/ (\E f \in Inputs[e] : Receive(e, f))
        PROVE  UNCHANGED <<clients, subs, users>>
    BY <1>8 DEF Malformed, Disconnect, Send, LookUp, FanoutDone, LoginCheck,
       HandOver, Reply, Close, StartClose, Visit, Receive, registryVars
  <1>9. ASSUME NEW k \in Calls, DisconnectStep(k)
        PROVE  /\ clients' \subseteq clients
               /\ \A ch \in Channels : subs[ch][c] = NoSub
                                         => subs'[ch][c] = NoSub
               /\ \A u \in Usernames :
                    \/ users'[u] = users[u]
                    \/ ~users'[u].online
    <2>1. CASE RemoveClient(k) \/ \E u \in Usernames : CheckUser(k, u)
      BY <2>1 DEF RemoveClient, CheckUser, registryVars
    <2>2. CASE ClearUser(k)
      <3> DEFINE v == disc[k].hit
                 a == [users[v] EXCEPT !.online = FALSE]
      <3>1. v \in Usernames /\ users[v] \in Account
        BY <1>1, <2>2 DEF ClearUser, LoginOK, Activation
      <3>2. ~a.online /\ users' = [users EXCEPT ![v] = a]
        BY <2>2, <3>1 DEF ClearUser, Account
      <3>3. UNCHANGED <<clients, subs>>
        BY <2>2 DEF ClearUser
      <3> HIDE DEF v, a
      <3> QED
        BY <1>1, <3>1, <3>2, <3>3
    <2>3. ASSUME NEW h \in Channels, RemoveSub(k, h)
          PROVE  /\ UNCHANGED <<clients, users>>
                 /\ \A ch \in Channels : subs[ch][c] = NoSub
                                           => subs'[ch][c] = NoSub
      BY <1>1, <2>3 DEF RemoveSub
    <2> QED
      BY <1>9, <2>1, <2>2, <2>3 DEF DisconnectStep
  <1>10. UNCHANGED vars \/ Quiet => UNCHANGED <<clients, subs, users>>
    BY DEF vars, Quiet
  <1> QED
    BY <1>2, <1>3, <1>4, <1>5, <1>6, <1>7, <1>8, <1>9, <1>10 DEF Next, Handle

(* So what an activation has passed stays gone.                            *)
LEMMA LoggedOutStays ==
  ASSUME TypeOK, LoginOK, [Next]_vars, NEW c \in Conns, NEW a,
         pc[c] \notin {"off", "create", "bind", "activate"}, LoggedOutBy(c, a)
  PROVE  LoggedOutBy(c, a)'
  BY NothingComesBack DEF LoggedOutBy

LEMMA ForgottenStays ==
  ASSUME TypeOK, LoginOK, [Next]_vars, NEW c \in Conns, NEW a,
         pc[c] \in {"reply", "idle"}, ForgottenBy(c, a)
  PROVE  ForgottenBy(c, a)'
  BY NothingComesBack, LoggedOutStays DEF ForgottenBy

(* Every step of disconnect(c) makes good what it claims.                  *)
LEMMA DisconnectLogsOut ==
  ASSUME TypeOK, LoginOK, NEW c \in Conns,
         NEW k \in Calls, k[2] = c, NEW a, a = disc[k], NEW b, b = disc'[k],
         LoggedOutBy(c, a), DisconnectStep(k)
  PROVE  LoggedOutBy(c, b)'
  <1>1. /\ subs \in [Channels -> [Conns -> SubIds \cup {NoSub}]]
        /\ users \in [Usernames -> Account \cup {NoUser}]
        /\ disc \in [Calls -> Activation] /\ a \in Activation
        /\ NoUser \notin Account /\ NoUser \notin Usernames
    BY BrokerAssumption DEF TypeOK, RegistryTypeOK, DisconnectTypeOK, Account
  <1>2. CASE RemoveClient(k)
    <2>1. /\ clients' = clients \ {c} /\ UNCHANGED <<users, subs>>
          /\ b = [a EXCEPT !.stage = "loops"]
      BY <1>1, <1>2 DEF RemoveClient
    <2>2. b.users = a.users /\ b.hit = a.hit /\ b.chans = a.chans
      BY <1>1, <2>1 DEF Activation
    <2> QED
      BY <2>1, <2>2 DEF LoggedOutBy
  <1>3. ASSUME NEW u \in Usernames, CheckUser(k, u)
        PROVE  LoggedOutBy(c, b)'
    <2> DEFINE h == IF users[u] # NoUser /\ users[u].conn = k[2]
                    THEN u ELSE NoUser
    <2>1. /\ a.hit = NoUser /\ a.stage = "loops"
          /\ UNCHANGED <<clients, subs, users>>
      BY <1>3 DEF CheckUser, registryVars
    <2>2. disc' = [disc EXCEPT ![k].users = @ \ {u}, ![k].hit = h]
      BY <1>3 DEF CheckUser
    <2>3. users[u] # NoUser /\ users[u].conn = c => h = u
      OBVIOUS
    <2> HIDE DEF h
    <2>4. b.users = a.users \ {u} /\ b.hit = h /\ b.chans = a.chans
      BY <1>1, <2>2 DEF Activation
    <2> QED
      BY <1>1, <2>1, <2>3, <2>4 DEF LoggedOutBy
  <1>4. CASE ClearUser(k)
    <2> DEFINE v == a.hit
               x == [users[v] EXCEPT !.online = FALSE]
    <2>1. v \in Usernames /\ users[v] \in Account
      BY <1>1, <1>4 DEF ClearUser, LoginOK, Activation
    <2>2. /\ ~x.online /\ users' = [users EXCEPT ![v] = x]
          /\ UNCHANGED <<clients, subs>>
      BY <1>4, <2>1 DEF ClearUser, Account
    <2>3. b = [a EXCEPT !.hit = NoUser]
      BY <1>1, <1>4 DEF ClearUser
    <2>4. b.users = a.users /\ b.stage = a.stage /\ b.chans = a.chans
      BY <1>1, <2>3 DEF Activation
    <2> HIDE DEF x
    <2>5. \A u \in Usernames : users'[u] = IF u = v THEN x ELSE users[u]
      BY <1>1, <2>1, <2>2
    <2>6. \A u \in Usernames \ b.users :
            ~(users'[u] # NoUser /\ users'[u].conn = c /\ users'[u].online)
      BY <2>2, <2>4, <2>5 DEF LoggedOutBy
    <2> QED
      BY <2>2, <2>4, <2>6 DEF LoggedOutBy
  <1>5. ASSUME NEW ch \in Channels, RemoveSub(k, ch)
        PROVE  LoggedOutBy(c, b)'
    <2>1. /\ a.stage = "loops" /\ a.hit = NoUser /\ a.users = {}
          /\ UNCHANGED <<clients, users>>
      BY <1>5 DEF RemoveSub
    <2> DEFINE left == a.chans \ {ch}
    <2>2. b = IF left = {} THEN Returned ELSE [a EXCEPT !.chans = left]
      BY <1>1, <1>5 DEF RemoveSub
    <2> HIDE DEF left
    <2>3. b.users = {} /\ b.hit = NoUser
      BY <1>1, <2>1, <2>2 DEF Activation, Returned
    <2> QED
      BY <1>1, <2>1, <2>3 DEF LoggedOutBy
  <1> QED
    BY <1>2, <1>3, <1>4, <1>5 DEF DisconnectStep

LEMMA DisconnectForgets ==
  ASSUME TypeOK, LoginOK, NEW c \in Conns,
         NEW k \in Calls, k[2] = c, NEW a, a = disc[k], NEW b, b = disc'[k],
         ForgottenBy(c, a), DisconnectStep(k)
  PROVE  ForgottenBy(c, b)'
  <1>1. /\ subs \in [Channels -> [Conns -> SubIds \cup {NoSub}]]
        /\ disc \in [Calls -> Activation] /\ a \in Activation
    BY DEF TypeOK, RegistryTypeOK, DisconnectTypeOK
  <1>2. LoggedOutBy(c, b)'
    BY DisconnectLogsOut DEF ForgottenBy
  <1>3. CASE \/ RemoveClient(k) \/ ClearUser(k)
             \/ \E u \in Usernames : CheckUser(k, u)
    <2>1. UNCHANGED subs
      BY <1>3 DEF RemoveClient, ClearUser, CheckUser, registryVars
    <2>2. \/ b = [a EXCEPT !.stage = "loops"]
          \/ b = [a EXCEPT !.hit = NoUser]
          \/ \E v, h : disc' = [disc EXCEPT ![k].users = v, ![k].hit = h]
      BY <1>1, <1>3 DEF RemoveClient, ClearUser, CheckUser
    <2>3. b.chans = a.chans
      BY <1>1, <2>2 DEF Activation
    <2> QED
      BY <1>2, <2>1, <2>3 DEF ForgottenBy
  <1>4. ASSUME NEW ch \in Channels, RemoveSub(k, ch)
        PROVE  ForgottenBy(c, b)'
    <2> DEFINE left == a.chans \ {ch}
    <2>1. subs' = [subs EXCEPT ![ch][c] = NoSub]
      BY <1>4 DEF RemoveSub
    <2>2. b = IF left = {} THEN Returned ELSE [a EXCEPT !.chans = left]
      BY <1>1, <1>4 DEF RemoveSub
    <2>3. \A h \in Channels \ left : subs'[h][c] = NoSub
      BY <1>1, <2>1 DEF ForgottenBy
    <2> HIDE DEF left
    <2>4. Channels \ b.chans \subseteq Channels \ left
      BY <1>1, <2>2 DEF Activation, Returned
    <2> QED
      BY <1>2, <2>3, <2>4 DEF ForgottenBy
  <1> QED
    BY <1>3, <1>4 DEF DisconnectStep

(* A reply keeps naming its request, and is final or not for good.         *)
LEMMA FinishesStable ==
  ASSUME TypeOK, [Next]_vars, NEW c \in Conns, NEW r, Replies(c, r)
  PROVE  Replies(c, r)' /\ (Finishes(c, r)' => Finishes(c, r))
  <1>1. CASE r.kind = "MESSAGE"
    BY <1>1 DEF Replies, Finishes
  <1>2. CASE r.kind # "MESSAGE"
    <2>1. got[c] \in Seq(Frame) /\ r.n \in 1 .. Len(got[c])
      BY <1>2 DEF Replies, TypeOK, WorkerTypeOK
    <2>2. got'[c][r.n] = got[c][r.n] /\ r.n \in 1 .. Len(got'[c])
      <3>1. CASE got'[c] = got[c]
        BY <2>1, <3>1
      <3>2. ASSUME NEW g \in Frame, got'[c] = Append(got[c], g)
            PROVE  got'[c][r.n] = got[c][r.n] /\ r.n \in 1 .. Len(got'[c])
        BY <2>1, <3>2, AppendProperties
      <3> QED
        BY <3>1, <3>2, GotGrows
    <2> QED
      BY <2>2 DEF Replies, Finishes
  <1> QED
    BY <1>1, <1>2

(* A worker returns a final reply only when it leaves.                     *)
LEMMA ReturnedReply ==
  ASSUME TypeOK, [Next]_vars, NEW c \in Conns,
         answer'[c] # answer[c], NEW i \in DOMAIN answer'[c],
         NEW r, r = answer'[c][i]
  PROVE  Replies(c, r)' /\ (Finishes(c, r)' => term'[c])
  <1>1. answer'[c] # <<>>
    OBVIOUS
  <1>2. pc[c] \notin {"off", "idle"} /\ UNCHANGED got
    BY <1>1, AnswerStep
  <1>3. Len(got[c]) \in 1 .. Len(got[c]) /\ Current(c) = got[c][Len(got[c])]
    BY <1>2, CurrentFrame DEF Current
  <1>4. answer'[c] \in {Receipt(c), Error(c), Connected(c)}
    BY <1>1, AnswerStep
  <1>5. r.n = Len(got[c])
    BY <1>4 DEF Receipt, Error, Connected, Answer
  <1>6. Replies(c, r)'
    BY <1>2, <1>3, <1>5 DEF Replies
  <1>7. CASE Leave(c, answer'[c])
    BY <1>6, <1>7 DEF Leave, TypeOK, WorkerTypeOK
  <1>8. CASE answer'[c] = Receipt(c) /\ Current(c).cmd # "DISCONNECT"
    <2>1. r.kind = "RECEIPT" /\ got'[c][r.n].cmd # "DISCONNECT"
      BY <1>2, <1>3, <1>5, <1>8 DEF Receipt, Answer
    <2> QED
      BY <1>6, <2>1 DEF Finishes
  <1>9. CASE /\ LoginCreate(c) \/ LoginActivate(c)
             /\ answer'[c] = Connected(c)
    <2>1. Current(c).cmd = "CONNECT"
      BY <1>9 DEF LoginCreate, LoginActivate, TypeOK, PhaseOK
    <2>2. r.kind # "ERROR" /\ got'[c][r.n].cmd # "DISCONNECT"
      BY <1>2, <1>3, <1>5, <1>9, <2>1 DEF Connected, Receipt, Answer
    <2> QED
      BY <1>6, <2>2 DEF Finishes
  <1> QED
    BY <1>1, <1>7, <1>8, <1>9, AnswerStep

(* What the activation claims, and that shouldTerminate is for good.       *)
LEMMA LeavingStage ==
  ASSUME TypeOK, LoginOK, StopAtTerminate, [Next]_vars, NEW c \in Conns,
         Leaving(c), NEW a, a = disc[<<"process", c>>],
         NEW b, b = disc'[<<"process", c>>]
  PROVE  /\ term'[c] => pc'[c] \in {"reply", "idle"} /\ ForgottenBy(c, b)'
         /\ ~term'[c] => b = Returned
         /\ term[c] => term'[c] /\ (a = Returned => b = Returned)
  <1> DEFINE p == <<"process", c>>
  <1>1. /\ disc \in [Calls -> Activation] /\ term \in [Conns -> BOOLEAN]
        /\ pc \in [Conns -> PCs]
        /\ p \in Calls /\ p[2] = c
    BY ActivationTypes DEF TypeOK, WorkerTypeOK, DisconnectTypeOK
  <1>2. /\ term[c] => pc[c] \in {"reply", "idle"} /\ ForgottenBy(c, a)
        /\ ~term[c] => a = Returned
    BY DEF Leaving
  <1> HIDE DEF p
  <1>3. term[c] => pc'[c] \in {"reply", "idle"}
    BY <1>2, ReturnedStep DEF Receive
  <1>4. ASSUME NEW ans, Leave(c, ans), pc[c] = "handle",
               UNCHANGED <<clients, subs, users>>
        PROVE  /\ ~term[c] /\ term'[c] /\ pc'[c] = "reply"
               /\ ForgottenBy(c, b)'
    <2>1. b = Entered
      BY <1>1, <1>4 DEF Leave, p
    <2>2. ForgottenBy(c, b)'
      BY <2>1 DEF ForgottenBy, LoggedOutBy, Entered
    <2>3. term'[c] /\ pc'[c] = "reply"
      BY <1>1, <1>4 DEF Leave
    <2>4. ~term[c]
      BY <1>2, <1>4
    <2> QED
      BY <2>2, <2>3, <2>4
  <1>5. CASE DisconnectStep(p) /\ UNCHANGED <<pc, term>>
    <2>1. a # Returned
      <3>1. disc[p].stage # "none" \/ disc[p].hit # NoUser
        BY <1>5 DEF DisconnectStep, RemoveClient, CheckUser, ClearUser,
           RemoveSub
      <3> QED
        BY <3>1 DEF Returned, p
    <2>2. term[c] /\ ForgottenBy(c, a)
      BY <1>2, <2>1
    <2>3. ForgottenBy(c, b)'
      BY <1>1, <1>5, <2>2, DisconnectForgets DEF p
    <2> QED
      BY <1>3, <1>5, <2>1, <2>2, <2>3
  <1>6. CASE term'[c] = term[c] /\ disc'[p] = disc[p]
    <2>1. b = a
      BY <1>6 DEF p
    <2>2. term[c] => ForgottenBy(c, a)'
      BY <1>2, ForgottenStays
    <2> QED
      BY <1>2, <1>3, <1>6, <2>1, <2>2
  <1> QED
    BY <1>4, <1>5, <1>6, ProcessStep DEF p

(* Every step keeps LeavingOK.                                             *)
LEMMA StepLeaving ==
  ASSUME TypeOK, LoginOK, StopAtTerminate, LeavingOK, [Next]_vars
  PROVE  LeavingOK'
  <1> SUFFICES ASSUME NEW c \in Conns,
                      NEW a, a = disc[<<"process", c>>],
                      NEW b, b = disc'[<<"process", c>>]
               PROVE  Leaving(c)'
    BY DEF LeavingOK
  <1>1. Leaving(c)
    BY DEF LeavingOK
  <1>2. /\ term'[c] => pc'[c] \in {"reply", "idle"} /\ ForgottenBy(c, b)'
        /\ ~term'[c] => b = Returned
        /\ term[c] => term'[c] /\ (a = Returned => b = Returned)
    BY <1>1, LeavingStage
  <1>3. ASSUME NEW i \in DOMAIN answer'[c], NEW r, r = answer'[c][i]
        PROVE  Replies(c, r)' /\ (Finishes(c, r)' => term'[c])
    <2>1. CASE answer'[c] = answer[c]
      <3>1. Replies(c, r) /\ (Finishes(c, r) => term[c])
        BY <1>1, <1>3, <2>1 DEF Leaving
      <3> QED
        BY <1>2, <3>1, FinishesStable
    <2>2. CASE answer'[c] # answer[c]
      BY <1>3, <2>2, ReturnedReply
    <2> QED
      BY <2>1, <2>2
  <1>4. ASSUME NEW i \in DOMAIN out'[c], NEW r, r = out'[c][i]
        PROVE  /\ Replies(c, r)'
               /\ Finishes(c, r)' => term'[c] /\ b = Returned
    <2>1. ASSUME NEW j \in DOMAIN out[c], r = out[c][j]
          PROVE  /\ Replies(c, r)'
                 /\ Finishes(c, r)' => term'[c] /\ b = Returned
      <3>1. Replies(c, r) /\ (Finishes(c, r) => term[c] /\ a = Returned)
        BY <1>1, <2>1 DEF Leaving
      <3> QED
        BY <1>2, <3>1, FinishesStable
    <2>2. ASSUME NEW j \in DOMAIN answer[c], r = answer[c][j], Reply(c)
          PROVE  /\ Replies(c, r)'
                 /\ Finishes(c, r)' => term'[c] /\ b = Returned
      <3>1. Replies(c, r) /\ (Finishes(c, r) => term[c])
        BY <1>1, <2>2 DEF Leaving
      <3>2. a = Returned
        BY <2>2 DEF Reply
      <3> QED
        BY <1>2, <3>1, <3>2, FinishesStable
    <2>3. r \in MessageFrame => Replies(c, r)' /\ ~Finishes(c, r)'
      BY DEF MessageFrame, Replies, Finishes
    <2>4. CASE out'[c] = out[c]
      BY <1>4, <2>1, <2>4
    <2>5. ASSUME NEW m \in MessageFrame, out'[c] = Append(out[c], m)
          PROVE  (\E j \in DOMAIN out[c] : r = out[c][j]) \/ r = m
      BY <1>4, <2>5 DEF TypeOK, HandlerTypeOK
    <2>6. CASE Reply(c) /\ out'[c] = out[c] \o answer[c]
      BY <1>4, <2>1, <2>2, <2>6, ReplyElements
    <2> QED
      BY <2>1, <2>3, <2>4, <2>5, <2>6, OutGrows
  <1> QED
    BY <1>2, <1>3, <1>4 DEF Leaving

(* disconnect for the handler of c: it starts once, and goes on by its own *)
(* steps.                                                                  *)
LEMMA CloseStep ==
  ASSUME TypeOK, [Next]_vars, NEW c \in Conns
  PROVE  \/ /\ notified'[c] = notified[c]
            /\ disc'[<<"close", c>>] = disc[<<"close", c>>]
         \/ /\ StartClose(c) /\ notified'[c] /\ ~notified[c]
            /\ disc'[<<"close", c>>] = Entered
         \/ /\ DisconnectStep(<<"close", c>>) /\ notified' = notified
            /\ disc[<<"close", c>>] # Returned
  <1> DEFINE q == <<"close", c>>
  <1>1. /\ disc \in [Calls -> Activation] /\ notified \in [Conns -> BOOLEAN]
        /\ q \in Calls
    BY ActivationTypes DEF TypeOK, HandlerTypeOK, DisconnectTypeOK
  <1> HIDE DEF q
  <1>2. CASE UNCHANGED <<notified, disc>>
    BY <1>2 DEF q
  <1>3. ASSUME NEW e \in Conns, NEW ans, Complete(e, ans) \/ Leave(e, ans)
        PROVE  disc'[q] = disc[q]
    BY <1>1, <1>3 DEF Complete, Leave, q
  <1>4. ASSUME NEW e \in Conns, Handle(e)
        PROVE  notified' = notified /\ disc'[q] = disc[q]
    <2>1. notified' = notified
      BY <1>4 DEF Handle, Malformed, Disconnect, Subscribe, Unsubscribe, Send,
         Visit, LookUp, FanoutDone, LoginCheck, LoginCreate, LoginBind,
         LoginActivate, handlerVars
    <2>2. UNCHANGED disc \/ \E ans : Complete(e, ans) \/ Leave(e, ans)
      BY <1>4 DEF Handle, Malformed, Disconnect, Subscribe, Unsubscribe, Send,
         Visit, LookUp, FanoutDone, LoginCheck, LoginCreate, LoginBind,
         LoginActivate, LoginReturns, EnterLogin
    <2> QED
      BY <1>3, <2>1, <2>2
  <1>5. ASSUME NEW e \in Conns,
               \/ Accept(e) \/ HandOver(e) \/ Reply(e) \/ Close(e)
               \/ (\E f \in Inputs[e] : Receive(e, f))
        PROVE  UNCHANGED <<notified, disc>>
    BY <1>5 DEF Accept, HandOver, Reply, Close, Receive, handlerVars
  <1>6. ASSUME NEW e \in Conns, StartClose(e)
        PROVE  IF e = c THEN notified'[c] /\ ~notified[c] /\ disc'[q] = Entered
               ELSE notified'[c] = notified[c] /\ disc'[q] = disc[q]
    BY <1>1, <1>6 DEF StartClose, q
  <1>7. ASSUME NEW k \in Calls, DisconnectStep(k)
        PROVE  /\ notified' = notified
               /\ IF k = q THEN disc[q] # Returned ELSE disc'[q] = disc[q]
    <2>1. disc[k].stage # "none" \/ disc[k].hit # NoUser
      BY <1>7 DEF DisconnectStep, RemoveClient, CheckUser, ClearUser, RemoveSub
    <2>2. disc[k] # Returned
      BY <2>1 DEF Returned
    <2>3. notified' = notified /\ (k = q \/ disc'[q] = disc[q])
      BY <1>1, <1>7 DEF DisconnectStep, RemoveClient, CheckUser, ClearUser,
         RemoveSub, handlerVars
    <2> QED
      BY <2>2, <2>3
  <1>8. UNCHANGED vars \/ Quiet => UNCHANGED <<notified, disc>>
    BY DEF vars, Quiet
  <1> QED
    BY <1>2, <1>4, <1>5, <1>6, <1>7, <1>8 DEF Next, q

(* A client of this repository logs in first, and once.                    *)
LoginFirst ==
  \A c \in Conns : \A i \in 1 .. Len(got[c]) :
    got[c][i].cmd = "CONNECT" <=> i = 1

LEMMA StepLoginFirst ==
  ASSUME TypeOK, Disciplined, LoginFirst, [Next]_vars
  PROVE  LoginFirst'
  <1> SUFFICES ASSUME NEW c \in Conns, NEW i \in 1 .. Len(got'[c])
               PROVE  got'[c][i].cmd = "CONNECT" <=> i = 1
    BY DEF LoginFirst
  <1>1. got[c] \in Seq(Frame)
    BY DEF TypeOK, WorkerTypeOK
  <1>2. CASE got'[c] = got[c]
    BY <1>2 DEF LoginFirst
  <1>3. ASSUME NEW f \in Frame, Receive(c, f), got'[c] = Append(got[c], f)
        PROVE  got'[c][i].cmd = "CONNECT" <=> i = 1
    <2>1. f.cmd = "CONNECT" <=> got[c] = <<>>
      BY <1>3 DEF Receive, Polite
    <2>2. Len(got'[c]) = Len(got[c]) + 1 /\ Len(got[c]) \in Nat
      BY <1>1, <1>3, AppendProperties
    <2>3. CASE i \in 1 .. Len(got[c])
      BY <1>1, <1>3, <2>3, AppendProperties DEF LoginFirst
    <2>4. CASE i = Len(got[c]) + 1
      <3>1. got'[c][i] = f
        BY <1>1, <1>3, <2>4, AppendProperties
      <3>2. got[c] = <<>> <=> Len(got[c]) = 0
        BY <1>1, EmptySeq
      <3> QED
        BY <2>1, <2>2, <2>4, <3>1, <3>2
    <2> QED
      BY <2>2, <2>3, <2>4
  <1> QED
    BY <1>2, <1>3, GotReceived

(***************************************************************************)
(* What a step means for the threads of a server.                          *)
(***************************************************************************)

(* The worker of d is where it was, with the frames and the answer it had. *)
Untouched(d) ==
  /\ pc'[d] = pc[d] /\ pick'[d] = pick[d] /\ answer'[d] = answer[d]
  /\ term'[d] = term[d] /\ got'[d] = got[d]
  /\ disc'[<<"process", d>>] = disc[<<"process", d>>]

(* The handlers of requests that end with an answer, or begin a fan-out.   *)
LEMMA RequestMoves ==
  ASSUME TypeOK, NEW c \in Conns,
         \/ Malformed(c) \/ Disconnect(c) \/ Subscribe(c) \/ Unsubscribe(c)
         \/ Send(c) \/ FanoutDone(c) \/ LoginCheck(c)
         \/ LoginCreate(c) \/ LoginActivate(c)
  PROVE  /\ pc[c] \notin {"off", "idle", "reply"} /\ pick[c] = NoPick
         /\ UNCHANGED <<got, pick, handlerVars>>
         /\ \/ /\ UNCHANGED <<answer, term, disc>>
               /\ \E p \in PCs \ {"off", "idle", "reply"} :
                    pc' = [pc EXCEPT ![c] = p]
            \/ \E ans : Complete(c, ans)
            \/ Leave(c, Receipt(c)) /\ Handling(c, "DISCONNECT")
               /\ Current(c).rcpt
            \/ Leave(c, Error(c))
  <1>1. /\ pc[c] \notin {"off", "idle", "reply"} /\ pick[c] = NoPick
        /\ UNCHANGED <<got, pick, handlerVars>>
    BY DEF Malformed, Disconnect, Subscribe, Unsubscribe, Send, FanoutDone,
       LoginCheck, LoginCreate, LoginActivate, Handling, Fanning, loopVars,
       TypeOK, PhaseOK
  <1>2. CASE Malformed(c) \/ Disconnect(c)
    BY <1>1, <1>2 DEF Malformed, Disconnect
  <1>3. CASE Subscribe(c) \/ Unsubscribe(c) \/ FanoutDone(c)
    BY <1>1, <1>3 DEF Subscribe, Unsubscribe, FanoutDone
  <1>4. CASE Send(c) \/ LoginCheck(c)
    BY <1>1, <1>4 DEF Send, LoginCheck, EnterLogin, PCs
  <1>5. CASE LoginCreate(c) \/ LoginActivate(c)
    BY <1>1, <1>5 DEF LoginCreate, LoginActivate, LoginReturns
  <1> QED
    BY <1>1, <1>2, <1>3, <1>4, <1>5

(* A step of process() for c is a matter of c alone: it stays in process() *)
(* or returns, and when it sets shouldTerminate it returns a final reply.  *)
LEMMA HandleMoves ==
  ASSUME TypeOK, NEW c \in Conns, Handle(c)
  PROVE  /\ pc[c] \notin {"off", "idle", "reply"}
         /\ pc'[c] \notin {"off", "idle"}
         /\ pick[c] # NoPick => pick'[c] = pick[c]
         /\ UNCHANGED <<got, handlerVars>>
         /\ \A d \in Conns \ {c} : Untouched(d)
         /\ \A d \in Conns : disc'[<<"close", d>>] = disc[<<"close", d>>]
         /\ term'[c] =>
              \/ term[c]
              \/ /\ pc'[c] = "reply"
                 /\ \E i \in DOMAIN answer'[c] : Finishes(c, answer'[c][i])
  <1>1. /\ pc \in [Conns -> PCs] /\ DOMAIN answer = Conns /\ DOMAIN pick = Conns
        /\ term \in [Conns -> BOOLEAN] /\ DOMAIN disc = Calls
        /\ \A d \in Conns : <<"process", d>> \in Calls /\ <<"close", d>> \in Calls
    BY ActivationTypes DEF TypeOK, WorkerTypeOK, DisconnectTypeOK
  <1>2. ASSUME NEW ans, Complete(c, ans)
        PROVE  /\ pc'[c] = "reply" /\ UNCHANGED <<term, disc>>
               /\ \A d \in Conns \ {c} : pc'[d] = pc[d] /\ answer'[d] = answer[d]
    BY <1>1, <1>2 DEF Complete
  <1>3. ASSUME NEW ans, Leave(c, ans)
        PROVE  /\ pc'[c] = "reply" /\ answer'[c] = ans
               /\ \A d \in Conns \ {c} :
                    /\ pc'[d] = pc[d] /\ answer'[d] = answer[d]
                    /\ term'[d] = term[d]
                    /\ disc'[<<"process", d>>] = disc[<<"process", d>>]
               /\ \A d \in Conns : disc'[<<"close", d>>] = disc[<<"close", d>>]
    BY <1>1, <1>3 DEF Leave
  <1>4. CASE \/ Malformed(c) \/ Disconnect(c) \/ Subscribe(c) \/ Unsubscribe(c)
             \/ Send(c) \/ FanoutDone(c) \/ LoginCheck(c)
             \/ LoginCreate(c) \/ LoginActivate(c)
    <2>1. /\ pc[c] \notin {"off", "idle", "reply"} /\ pick[c] = NoPick
          /\ UNCHANGED <<got, pick, handlerVars>>
      BY <1>4, RequestMoves
    <2>2. CASE /\ UNCHANGED <<answer, term, disc>>
               /\ \E p \in PCs \ {"off", "idle", "reply"} :
                    pc' = [pc EXCEPT ![c] = p]
      BY <1>1, <2>1, <2>2 DEF Untouched
    <2>3. ASSUME NEW ans, Complete(c, ans)
          PROVE  UNCHANGED <<term, disc>> /\ pc'[c] = "reply"
                 /\ \A d \in Conns \ {c} : Untouched(d)
      BY <1>2, <2>1, <2>3 DEF Untouched
    <2>4. ASSUME NEW ans, Leave(c, ans),
                 NEW r, ans = <<r>>, Finishes(c, r)
          PROVE  /\ pc'[c] = "reply"
                 /\ \E i \in DOMAIN answer'[c] : Finishes(c, answer'[c][i])
                 /\ \A d \in Conns \ {c} : Untouched(d)
                 /\ \A d \in Conns : disc'[<<"close", d>>] = disc[<<"close", d>>]
      <3>1. 1 \in DOMAIN <<r>> /\ <<r>>[1] = r
        OBVIOUS
      <3> QED
        BY <1>3, <2>1, <2>4, <3>1 DEF Untouched
    <2>5. Finishes(c, Answer("ERROR", c)) /\ Error(c) = <<Answer("ERROR", c)>>
      BY DEF Finishes, Answer, Error
    <2>6. Handling(c, "DISCONNECT") /\ Current(c).rcpt =>
            /\ Finishes(c, Answer("RECEIPT", c))
            /\ Receipt(c) = <<Answer("RECEIPT", c)>>
      BY DEF Finishes, Answer, Receipt, Handling, Current
    <2>7. \/ /\ UNCHANGED <<answer, term, disc>>
             /\ \E p \in PCs \ {"off", "idle", "reply"} :
                  pc' = [pc EXCEPT ![c] = p]
          \/ \E ans : Complete(c, ans)
          \/ Leave(c, Receipt(c)) /\ Handling(c, "DISCONNECT")
             /\ Current(c).rcpt
          \/ Leave(c, Error(c))
      BY <1>4, RequestMoves
    <2> QED
      BY <2>1, <2>2, <2>3, <2>4, <2>5, <2>6, <2>7
  <1>5. CASE LookUp(c) \/ LoginBind(c) \/ \E d \in Conns : Visit(c, d)
    <2>1. /\ pc[c] \in {"fanout", "bind"}
          /\ UNCHANGED <<got, answer, term, disc, handlerVars>>
          /\ \E p \in {"fanout", "activate"} : pc' = [pc EXCEPT ![c] = p]
      <3>1. LoginBind(c) \/ pc' = [pc EXCEPT ![c] = "fanout"]
        BY <1>1, <1>5 DEF LookUp, Visit, Fanning, Iterating
      <3> QED
        BY <1>1, <1>5, <3>1
        DEF LookUp, LoginBind, Visit, Fanning, Iterating
    <2>2. /\ pick[c] # NoPick => pick'[c] = pick[c]
          /\ \A d \in Conns \ {c} : pick'[d] = pick[d]
      BY <1>1, <1>5 DEF LookUp, LoginBind, Visit, Fanning, loopVars
    <2> QED
      BY <1>1, <2>1, <2>2 DEF Untouched
  <1> QED
    BY <1>4, <1>5 DEF Handle

(* disconnect moves its own activation, and takes entries out.             *)
LEMMA DisconnectMoves ==
  ASSUME TypeOK, NEW k \in Calls, DisconnectStep(k)
  PROVE  /\ disc[k] # Returned
         /\ \A j \in Calls \ {k} : disc'[j] = disc[j]
         /\ UNCHANGED <<pc, got, answer, pick, term, handlerVars>>
  <1>1. disc \in [Calls -> Activation]
    BY DEF TypeOK, DisconnectTypeOK
  <1>2. disc[k].stage # "none" \/ disc[k].hit # NoUser
    BY DEF DisconnectStep, RemoveClient, CheckUser, ClearUser, RemoveSub
  <1>3. disc[k] # Returned
    BY <1>2 DEF Returned
  <1>4. \A j \in Calls \ {k} : disc'[j] = disc[j]
    BY <1>1 DEF DisconnectStep, RemoveClient, CheckUser, ClearUser, RemoveSub
  <1> QED
    BY <1>3, <1>4 DEF DisconnectStep, RemoveClient, CheckUser, ClearUser,
       RemoveSub, workerVars, loopVars

(***************************************************************************)
(* The theorems.                                                           *)
(***************************************************************************)

(* The inductive invariant of the accounts.                                *)
LEMMA LoginsStart == Init => TypeOK /\ LoginOK
  <1>1. Init => TypeOK
    BY ActivationTypes, BrokerAssumption
    DEF Init, TypeOK, RegistryTypeOK, WorkerTypeOK, HandlerTypeOK,
        DisconnectTypeOK, PhaseOK, PCs, NoPick
  <1>2. Init => LoginOK
    BY DEF Init, LoginOK, Returned
  <1> QED
    BY <1>1, <1>2

LEMMA LoginsStay == TypeOK /\ LoginOK /\ [Next]_vars => TypeOK' /\ LoginOK'
  <1> SUFFICES ASSUME TypeOK, LoginOK, [Next]_vars PROVE TypeOK'
    BY StepAccounts
  <1>1. CASE UNCHANGED vars
    BY <1>1 DEF vars, TypeOK, RegistryTypeOK, WorkerTypeOK, HandlerTypeOK,
       DisconnectTypeOK, PhaseOK, Current
  <1>2. CASE Next
    <2>1. CASE Quiet
      BY <1>1, <2>1 DEF Quiet
    <2> QED
      BY <1>2, <2>1, ShortHandlerTypes, FanoutTypes, LoginTypes,
         WorkerLoopTypes, DisconnectTypes
      DEF Next, Handle
  <1> QED
    BY <1>1, <1>2

THEOREM LoginsHold == Spec => [](TypeOK /\ LoginOK)
  BY LoginsStart, LoginsStay, PTL DEF Spec

(* The variables of the broker keep their types (TypeOK).                  *)
THEOREM TypesHold == Spec => []TypeOK
  BY LoginsHold, PTL

(* An account is never lost, keeps its password, and passes from one       *)
(* connection to another only while it is offline, for any number of       *)
(* connections that log in, log out and disconnect at once.                *)
THEOREM AccountsHold == Spec => AccountsChangeHandsOffline
  <1>1. TypeOK /\ LoginOK /\ [Next]_vars => [AccountStep]_vars
    BY StepAccounts
  <1> QED
    BY <1>1, LoginsHold, PTL DEF Spec, AccountsChangeHandsOffline

(* Whoever is told CONNECTED gave the password of the account, also when   *)
(* two connections create it at the same time (ConnectedKnowsPassword).    *)
THEOREM ConnectedHolds == Spec => []ConnectedKnowsPassword
  <1>1. Init => ConnectedOK
    <2>1. DOMAIN <<>> = {}
      OBVIOUS
    <2>2. Init => \A c \in Conns : out[c] = <<>> /\ answer[c] = <<>>
      BY DEF Init
    <2> QED
      BY <2>1, <2>2 DEF ConnectedOK
  <1>2. TypeOK /\ LoginOK /\ ConnectedOK /\ [Next]_vars => ConnectedOK'
    BY StepConnected
  <1>3. ConnectedOK => ConnectedKnowsPassword
    BY DEF ConnectedOK, KnowsPassword, ConnectedKnowsPassword
  <1> QED
    BY <1>1, <1>2, <1>3, LoginsHold, PTL DEF Spec

(* A client that has its ERROR or its logout receipt is forgotten by the   *)
(* registry (FinalReplyMeansForgotten): it can log in again at once,       *)
(* whatever other connections and the closing handler do meanwhile.        *)
THEOREM FinalReplyHolds == Spec => []FinalReplyMeansForgotten
  <1>1. CASE ~StopAtTerminate
    <2>1. FinalReplyMeansForgotten
      BY <1>1 DEF FinalReplyMeansForgotten
    <2> QED
      BY <2>1, PTL
  <1>2. CASE StopAtTerminate
    <2>1. Init => LeavingOK
      <3>1. DOMAIN <<>> = {}
        OBVIOUS
      <3>2. Init => \A c \in Conns :
              /\ out[c] = <<>> /\ answer[c] = <<>> /\ ~term[c]
              /\ disc[<<"process", c>>] = Returned
        BY ActivationTypes DEF Init
      <3> QED
        BY <3>1, <3>2 DEF LeavingOK, Leaving
    <2>2. TypeOK /\ LoginOK /\ LeavingOK /\ [Next]_vars => LeavingOK'
      BY <1>2, StepLeaving
    <2>3. TypeOK /\ LeavingOK => FinalReplyMeansForgotten
      <3> SUFFICES ASSUME TypeOK, LeavingOK, NEW c \in Conns,
                          NEW i \in DOMAIN out[c], IsFinal(c, i)
                   PROVE  Forgotten(c)
        BY DEF FinalReplyMeansForgotten
      <3>1. Leaving(c) /\ Finishes(c, out[c][i])
        BY DEF LeavingOK, IsFinal, Finishes
      <3>2. ForgottenBy(c, Returned)
        BY <3>1 DEF Leaving
      <3>3. NoUser \notin Usernames
        BY BrokerAssumption
      <3> QED
        BY <3>2, <3>3 DEF ForgottenBy, LoggedOutBy, Forgotten, Returned
    <2> QED
      BY <2>1, <2>2, <2>3, LoginsHold, PTL DEF Spec
  <1> QED
    BY <1>1, <1>2
============================================================================
