----------------------- MODULE ReactorServer_proofs -----------------------
(***************************************************************************)
(* Proofs about the reactor, for any number of connections, users,         *)
(* channels and frames: it implements the broker and so keeps the broker's *)
(* promises; no frame in the write queue of an open channel is forgotten;  *)
(* and an answered login does not outlive its connection.                  *)
(***************************************************************************)
EXTENDS ReactorServer, TLAPS

IsASeq(s) == \E S : s \in Seq(S)

(* The functions on connections that the invariants read.                  *)
ConnFunctionsOK ==
  /\ pc \in [Conns -> B!PCs]
  /\ open \in [Conns -> BOOLEAN]
  /\ opWrite \in [Conns -> BOOLEAN]
  /\ peer \in [Conns -> {"none", "reading", "stalled", "resumed", "closed"}]
  /\ DOMAIN out = Conns /\ DOMAIN sent = Conns
  /\ DOMAIN answer = Conns /\ DOMAIN waking = Conns
  /\ \A c \in Conns : IsASeq(out[c]) /\ IsASeq(answer[c])

Live(c) == open[c] /\ pc[c] # "off"

(* A key that is still to be handled, and the one the selector thread is   *)
(* handling, belong to a channel that is open; and a channel whose turn it *)
(* is has no key left, so that it is not closed a second time.             *)
KeysOK ==
  \A c \in Conns :
    /\ peer[c] # "none" => pc[c] # "off"
    /\ KeysOf(c) \cap ready # {} => Live(c)
    /\ sel.conn = c => KeysOf(c) \cap ready = {}
    /\ sel \in {At("write", c), At("decide", c), At("close", c)} => Live(c)

SelectorOK == ConnFunctionsOK /\ KeysOK

LEMMA NoConnOutside == NoConn \notin Conns
BY ReactorAssumption DEF B!BrokerAssumption

LEMMA PlacesDiffer ==
  ASSUME NEW p, NEW q, NEW c, NEW d
  PROVE  (At(p, c) = At(q, d) <=> p = q /\ c = d)
         /\ At(p, c).at = p /\ At(p, c).conn = c
BY DEF At

LEMMA KeysDiffer ==
  ASSUME NEW c \in Conns, NEW d \in Conns, c # d
  PROVE  /\ KeysOf(c) \cap KeysOf(d) = {}
         /\ AcceptKey \notin KeysOf(c)
BY NoConnOutside DEF KeysOf, AcceptKey

LEMMA Appended ==
  ASSUME NEW s, IsASeq(s), NEW e PROVE IsASeq(Append(s, e))
<1>1. PICK S : s \in Seq(S)
  BY DEF IsASeq
<1>2. s \in Seq(S \cup {e})
  BY <1>1
<1>3. Append(s, e) \in Seq(S \cup {e})
  BY <1>2
<1> QED BY <1>3 DEF IsASeq

LEMMA Joined ==
  ASSUME NEW s, IsASeq(s), NEW t, IsASeq(t)
  PROVE  IsASeq(s \o t) /\ s \o <<>> = s
<1>1. PICK S : s \in Seq(S)
  BY DEF IsASeq
<1>2. PICK T : t \in Seq(T)
  BY DEF IsASeq
<1>3. s \in Seq(S \cup T) /\ t \in Seq(S \cup T)
  BY <1>1, <1>2
<1>4. s \o t \in Seq(S \cup T)
  BY <1>3
<1>5. s \o <<>> = s
  BY <1>1
<1> QED BY <1>4, <1>5 DEF IsASeq

(* What a handler returns is a sequence of frames.                         *)
LEMMA Answers ==
  ASSUME NEW c
  PROVE  /\ IsASeq(<<>>) /\ IsASeq(B!Error(c)) /\ IsASeq(B!Receipt(c))
         /\ IsASeq(B!Connected(c))
<1>1. IsASeq(<<>>)
  <2>1. <<>> \in Seq({})
    OBVIOUS
  <2> QED BY <2>1 DEF IsASeq
<1>2. ASSUME NEW e PROVE IsASeq(<<e>>)
  <2>1. <<e>> \in Seq({e})
    OBVIOUS
  <2> QED BY <2>1 DEF IsASeq
<1>3. IsASeq(B!Error(c))
  BY <1>2 DEF B!Error
<1>4. IsASeq(B!Receipt(c))
  BY <1>1, <1>2 DEF B!Receipt
<1>5. IsASeq(<<B!Answer("CONNECTED", c)>>)
  BY <1>2
<1>6. IsASeq(B!Connected(c))
  BY <1>4, <1>5, Joined DEF B!Connected
<1> QED BY <1>1, <1>3, <1>4, <1>6

(***************************************************************************)
(* What the broker's steps do to what the reactor reads.                   *)
(***************************************************************************)
(* The worker of c goes on, and its handler may have returned an answer.   *)
Moves(c) ==
  /\ \E p \in B!PCs \ {"off"} : pc' = [pc EXCEPT ![c] = p]
  /\ \/ answer' = answer
     \/ \E a : IsASeq(a) /\ answer' = [answer EXCEPT ![c] = a]
  /\ out' = out

LEMMA HandleMoves ==
  ASSUME NEW c \in Conns, B!Handle(c), pc \in [Conns -> B!PCs]
  PROVE  Moves(c)
<1> USE DEF B!handlerVars, B!PCs, Moves
<1> DEFINE Done(ans) == /\ pc' = [pc EXCEPT ![c] = "reply"]
                        /\ answer' = [answer EXCEPT ![c] = ans]
<1>1. CASE B!Malformed(c)
  BY <1>1, Answers DEF B!Malformed, B!Leave
<1>2. CASE B!Disconnect(c)
  BY <1>2, Answers DEF B!Disconnect, B!Leave
<1>3. CASE B!Subscribe(c)
  <2>1. out' = out /\ (Done(B!Receipt(c)) \/ Done(B!Error(c)))
    BY <1>3 DEF B!Subscribe, B!Complete, B!Leave
  <2> QED BY <2>1, Answers
<1>4. CASE B!Unsubscribe(c)
  <2>1. out' = out /\ (Done(B!Receipt(c)) \/ Done(B!Error(c)))
    BY <1>4 DEF B!Unsubscribe, B!Complete, B!Leave
  <2> QED BY <2>1, Answers
<1>5. CASE B!Send(c)
  BY <1>5, Answers DEF B!Send, B!Leave
<1>6. ASSUME NEW d \in Conns, B!Visit(c, d) PROVE Moves(c)
  <2>1. pc' = [pc EXCEPT ![c] = "fanout"]
    BY <1>6 DEF B!Visit, B!Iterating
  <2> QED BY <1>6, <2>1 DEF B!Visit
<1>7. CASE B!LookUp(c)
  <2>1. pc' = [pc EXCEPT ![c] = "fanout"]
    BY <1>7 DEF B!LookUp, B!Fanning
  <2> QED BY <1>7, <2>1 DEF B!LookUp
<1>8. CASE B!FanoutDone(c)
  BY <1>8, Answers DEF B!FanoutDone, B!Complete
<1>9. CASE B!LoginCheck(c)
  BY <1>9, Answers DEF B!LoginCheck, B!EnterLogin, B!Leave
<1>10. CASE B!LoginCreate(c)
  BY <1>10, Answers DEF B!LoginCreate, B!LoginReturns, B!Complete
<1>11. CASE B!LoginBind(c)
  BY <1>11 DEF B!LoginBind
<1>12. CASE B!LoginActivate(c)
  BY <1>12, Answers DEF B!LoginActivate, B!LoginReturns, B!Complete
<1> QED
  BY <1>1, <1>2, <1>3, <1>4, <1>5, <1>6, <1>7, <1>8, <1>9, <1>10, <1>11,
     <1>12 DEF B!Handle

LEMMA DisconnectMoves ==
  ASSUME NEW k \in B!Calls, B!DisconnectStep(k)
  PROVE  pc' = pc /\ out' = out /\ answer' = answer
BY DEF B!DisconnectStep, B!RemoveClient, B!ClearUser, B!CheckUser, B!RemoveSub,
       B!workerVars, B!handlerVars

LEMMA ReceiveMoves ==
  ASSUME NEW c \in Conns, NEW f, B!Receive(c, f)
  PROVE  pc' = [pc EXCEPT ![c] = "handle"] /\ out' = out /\ answer' = answer
BY DEF B!Receive, B!handlerVars

LEMMA HandOverMoves ==
  ASSUME NEW c \in Conns, B!HandOver(c), ConnFunctionsOK
  PROVE  /\ pc' = pc /\ answer' = answer /\ DOMAIN out' = Conns
         /\ \A d \in Conns : IsASeq(out'[d])
         /\ \A d \in Conns : d # pick[c].to => out'[d] = out[d]
<1> DEFINE to == pick[c].to
           e == B!FrameFor(c, pick[c].sub)
<1>1. out' = out \/ out' = [out EXCEPT ![to] = Append(@, e)]
  BY DEF B!HandOver
<1>2. ASSUME NEW d \in Conns
      PROVE  IsASeq(out[d]) /\ IsASeq(Append(out[d], e))
  BY Appended DEF ConnFunctionsOK
<1>3. DOMAIN out' = Conns
  BY <1>1 DEF ConnFunctionsOK
<1>4. ASSUME NEW d \in Conns
      PROVE  /\ out'[d] = out[d] \/ out'[d] = Append(out[d], e)
             /\ d # to => out'[d] = out[d]
  BY <1>1 DEF ConnFunctionsOK
<1>5. \A d \in Conns : IsASeq(out'[d])
  BY <1>2, <1>4
<1>6. \A d \in Conns : d # pick[c].to => out'[d] = out[d]
  BY <1>4
<1>7. pc' = pc /\ answer' = answer
  BY DEF B!HandOver
<1> HIDE DEF to, e
<1> QED BY <1>3, <1>5, <1>6, <1>7

LEMMA ReplyMoves ==
  ASSUME NEW c \in Conns, B!Reply(c), ConnFunctionsOK
  PROVE  /\ pc' = [pc EXCEPT ![c] = "idle"]
         /\ answer' = [answer EXCEPT ![c] = <<>>]
         /\ DOMAIN out' = Conns
         /\ \A d \in Conns : IsASeq(out'[d])
         /\ \A d \in Conns : d # c \/ answer[c] = <<>> => out'[d] = out[d]
<1>1. out' = out \/ out' = [out EXCEPT ![c] = @ \o answer[c]]
  BY DEF B!Reply
<1>2. IsASeq(out[c] \o answer[c]) /\ out[c] \o <<>> = out[c]
  BY Joined DEF ConnFunctionsOK
<1>3. pc' = [pc EXCEPT ![c] = "idle"] /\ answer' = [answer EXCEPT ![c] = <<>>]
  BY DEF B!Reply
<1>4. DOMAIN out' = Conns /\ \A d \in Conns : IsASeq(out'[d])
  BY <1>1, <1>2 DEF ConnFunctionsOK
<1>5. \A d \in Conns : d # c \/ answer[c] = <<>> => out'[d] = out[d]
  BY <1>1, <1>2 DEF ConnFunctionsOK
<1> QED BY <1>3, <1>4, <1>5

(***************************************************************************)
(* The selector thread's invariant.                                        *)
(***************************************************************************)
LEMMA SelectorStart == Init => SelectorOK
<1> SUFFICES ASSUME Init PROVE SelectorOK
  OBVIOUS
<1>1. ConnFunctionsOK
  BY Answers DEF Init, B!Init, ConnFunctionsOK, B!PCs
<1>2. KeysOK
  BY NoConnOutside DEF Init, KeysOK, Keys, At
<1> QED BY <1>1, <1>2 DEF SelectorOK

(* A step of a worker, or of a disconnect, or of a client.                 *)
LEMMA KeysKept ==
  ASSUME ConnFunctionsOK, KeysOK, open' = open, sel' = sel,
         \A c \in Conns : KeysOf(c) \cap ready' \subseteq KeysOf(c) \cap ready,
         \A c \in Conns : pc[c] # "off" => pc'[c] # "off",
         \A c \in Conns : peer'[c] # "none" => pc'[c] # "off"
  PROVE  KeysOK'
BY DEF KeysOK, Live

(* A step of the selector thread on a channel that has no key left, or is  *)
(* given up before its next one.                                           *)
LEMMA SelectorMoves ==
  ASSUME KeysOK, open' = open, pc' = pc, peer' = peer,
         \A c \in Conns : KeysOf(c) \cap ready' \subseteq KeysOf(c) \cap ready,
         \/ sel' = Keys
         \/ \E c \in Conns : \E p \in {"write", "decide", "close", "wait"} :
              /\ sel' = At(p, c)
              /\ KeysOf(c) \cap ready' = {}
              /\ p # "wait" => Live(c)
  PROVE  KeysOK'
<1>1. ASSUME NEW c \in Conns
      PROVE  /\ peer'[c] # "none" => pc'[c] # "off"
             /\ KeysOf(c) \cap ready' # {} => Live(c)'
  BY DEF KeysOK, Live
<1>2. CASE sel' = Keys
  BY <1>1, <1>2, NoConnOutside DEF KeysOK, Keys, At
<1>3. ASSUME NEW d \in Conns, NEW p \in {"write", "decide", "close", "wait"},
             sel' = At(p, d), KeysOf(d) \cap ready' = {}, p # "wait" => Live(d)
      PROVE  KeysOK'
  BY <1>1, <1>3 DEF KeysOK, At, Live
<1> QED BY <1>2, <1>3

LEMMA SelectorStays == SelectorOK /\ [Next]_vars => SelectorOK'
<1> SUFFICES ASSUME ConnFunctionsOK, KeysOK, [Next]_vars
             PROVE  ConnFunctionsOK' /\ KeysOK'
  BY DEF SelectorOK
<1> USE DEF brokerVars, channelVars, selectorVars
<1>1. CASE Select
  <2>1. /\ UNCHANGED <<pc, answer, out, open, peer, sent, waking, sel>>
        /\ sel = Keys /\ opWrite' \in [Conns -> BOOLEAN]
        /\ \E new \in SUBSET Arrivals : ready' = Due \cup new
    BY <1>1 DEF Select, ConnFunctionsOK
  <2>2. ConnFunctionsOK'
    BY <2>1 DEF ConnFunctionsOK
  <2>3. ASSUME NEW c \in Conns, KeysOf(c) \cap ready' # {}
        PROVE  peer[c] # "none" /\ open[c]
    <3>1. PICK key \in KeysOf(c) : key \in Due \cup Arrivals
      BY <2>1, <2>3
    <3>2. key # AcceptKey /\ key[1] = c
      BY NoConnOutside DEF KeysOf, AcceptKey
    <3> QED BY <3>1, <3>2 DEF Due, Arrivals, Registered
  <2>4. KeysOK'
    BY <2>1, <2>3, NoConnOutside DEF KeysOK, Live, Keys, At
  <2> QED BY <2>2, <2>4
<1>2. ASSUME NEW c \in Conns, Accept(c) PROVE ConnFunctionsOK' /\ KeysOK'
  <2>1. /\ pc' = [pc EXCEPT ![c] = "idle"] /\ ready' = ready \ {AcceptKey}
        /\ peer' = [peer EXCEPT ![c] = "reading"]
        /\ UNCHANGED <<answer, out, open, opWrite, sent, waking, sel>>
    BY <1>2 DEF Accept, B!Accept, B!handlerVars
  <2>2. ConnFunctionsOK'
    BY <2>1 DEF ConnFunctionsOK, B!PCs
  <2>3. KeysOK'
    BY <2>1, KeysKept DEF ConnFunctionsOK, KeysOK
  <2> QED BY <2>2, <2>3
<1>3. ASSUME NEW c \in Conns, ReadFrames(c) PROVE ConnFunctionsOK' /\ KeysOK'
  <2>1. /\ ready' = ready \ {<<c, "read">>}
        /\ UNCHANGED <<pc, answer, out, open, peer, opWrite, sent, waking, sel>>
    BY <1>3 DEF ReadFrames
  <2>2. ConnFunctionsOK'
    BY <2>1 DEF ConnFunctionsOK
  <2>3. KeysOK'
    BY <2>1, KeysKept DEF KeysOK
  <2> QED BY <2>2, <2>3
<1>4. ASSUME NEW c \in Conns, ReadEnds(c) PROVE ConnFunctionsOK' /\ KeysOK'
  <2>1. /\ ready' = ready \ KeysOf(c) /\ sel' = At("close", c)
        /\ <<c, "read">> \in ready
        /\ UNCHANGED <<pc, answer, out, open, peer, opWrite, sent, waking>>
    BY <1>4 DEF ReadEnds
  <2>2. ConnFunctionsOK'
    BY <2>1 DEF ConnFunctionsOK
  <2>3. Live(c)
    BY <2>1 DEF KeysOK, KeysOf
  <2>4. KeysOf(c) \cap ready' = {}
    BY <2>1
  <2>5. KeysOK'
    BY <2>1, <2>3, <2>4, SelectorMoves
  <2> QED BY <2>2, <2>5
<1>5. ASSUME NEW c \in Conns, WriteStarts(c) PROVE ConnFunctionsOK' /\ KeysOK'
  <2>1. /\ ready' = ready \ {<<c, "write">>} /\ sel' = At("write", c)
        /\ <<c, "write">> \in ready /\ <<c, "read">> \notin ready
        /\ UNCHANGED <<pc, answer, out, open, peer, opWrite, sent, waking>>
    BY <1>5 DEF WriteStarts
  <2>2. ConnFunctionsOK'
    BY <2>1 DEF ConnFunctionsOK
  <2>3. Live(c)
    BY <2>1 DEF KeysOK, KeysOf
  <2>4. KeysOf(c) \cap ready' = {}
    BY <2>1 DEF KeysOf
  <2>5. KeysOK'
    BY <2>1, <2>3, <2>4, SelectorMoves
  <2> QED BY <2>2, <2>5
<1>6. ASSUME NEW c \in Conns, WriteHead(c) PROVE ConnFunctionsOK' /\ KeysOK'
  <2>1. /\ sel = At("write", c)
        /\ sel' = sel \/ sel' = Keys \/ sel' = At("close", c)
        /\ sent' = sent \/ sent' = [sent EXCEPT ![c] = @ + 1]
        /\ UNCHANGED <<pc, answer, out, open, peer, opWrite, ready, waking>>
    BY <1>6 DEF WriteHead
  <2>2. ConnFunctionsOK'
    BY <2>1 DEF ConnFunctionsOK
  <2>3. Live(c) /\ KeysOf(c) \cap ready' = {}
    BY <2>1 DEF KeysOK, At
  <2>4. KeysOK'
    BY <2>1, <2>3, SelectorMoves
  <2> QED BY <2>2, <2>4
<1>7. ASSUME NEW c \in Conns, QueueEmpty(c) PROVE ConnFunctionsOK' /\ KeysOK'
  <2>1. /\ sel = At("write", c) /\ sel' = At("decide", c)
        /\ UNCHANGED <<pc, answer, out, open, peer, opWrite, ready, sent, waking>>
    BY <1>7 DEF QueueEmpty
  <2>2. ConnFunctionsOK'
    BY <2>1 DEF ConnFunctionsOK
  <2>3. Live(c) /\ KeysOf(c) \cap ready' = {}
    BY <2>1 DEF KeysOK, At
  <2>4. KeysOK'
    BY <2>1, <2>3, SelectorMoves
  <2> QED BY <2>2, <2>4
<1>8. ASSUME NEW c \in Conns, Decide(c) PROVE ConnFunctionsOK' /\ KeysOK'
  <2>1. /\ sel = At("decide", c) /\ (sel' = Keys \/ sel' = At("close", c))
        /\ opWrite' = opWrite \/ opWrite' = [opWrite EXCEPT ![c] = FALSE]
        /\ UNCHANGED <<pc, answer, out, open, peer, ready, sent, waking>>
    BY <1>8 DEF Decide
  <2>2. ConnFunctionsOK'
    BY <2>1 DEF ConnFunctionsOK
  <2>3. Live(c) /\ KeysOf(c) \cap ready' = {}
    BY <2>1 DEF KeysOK, At
  <2>4. KeysOK'
    BY <2>1, <2>3, SelectorMoves
  <2> QED BY <2>2, <2>4
<1>9. ASSUME NEW c \in Conns, CloseChannel(c) PROVE ConnFunctionsOK' /\ KeysOK'
  <2>1. /\ sel = At("close", c) /\ sel' = At("notify", c)
        /\ open' = [open EXCEPT ![c] = FALSE]
        /\ opWrite' = [opWrite EXCEPT ![c] = FALSE]
        /\ UNCHANGED <<pc, answer, out, peer, ready, sent, waking>>
    BY <1>9 DEF CloseChannel
  <2>2. ConnFunctionsOK'
    BY <2>1 DEF ConnFunctionsOK
  <2>3. KeysOf(c) \cap ready = {}
    BY <2>1 DEF KeysOK, At
  <2>4. ASSUME NEW d \in Conns
        PROVE  /\ peer'[d] # "none" => pc'[d] # "off"
               /\ KeysOf(d) \cap ready' # {} => Live(d)'
               /\ sel'.conn = d => d = c
    BY <2>1, <2>3 DEF KeysOK, Live, ConnFunctionsOK, At
  <2>5. \A d \in Conns :
          sel' \notin {At("write", d), At("decide", d), At("close", d)}
    BY <2>1 DEF At
  <2>6. KeysOK'
    BY <2>1, <2>3, <2>4, <2>5 DEF KeysOK, At
  <2> QED BY <2>2, <2>6
<1>10. ASSUME NEW c \in Conns, Notify(c) PROVE ConnFunctionsOK' /\ KeysOK'
  <2>1. /\ sel = At("notify", c) /\ sel' = At("wait", c)
        /\ UNCHANGED <<pc, answer, out, open, peer, opWrite, ready, sent, waking>>
    BY <1>10 DEF Notify, B!StartClose, B!workerVars
  <2>2. ConnFunctionsOK'
    BY <2>1 DEF ConnFunctionsOK
  <2>3. KeysOf(c) \cap ready' = {}
    BY <2>1 DEF KeysOK, At
  <2>4. KeysOK'
    BY <2>1, <2>3, SelectorMoves
  <2> QED BY <2>2, <2>4
<1>11. ASSUME NEW c \in Conns, Closed(c) PROVE ConnFunctionsOK' /\ KeysOK'
  <2>1. /\ sel' = Keys
        /\ UNCHANGED <<pc, answer, out, open, peer, opWrite, ready, sent, waking>>
    BY <1>11 DEF Closed
  <2>2. ConnFunctionsOK'
    BY <2>1 DEF ConnFunctionsOK
  <2>3. KeysOK'
    BY <2>1, SelectorMoves
  <2> QED BY <2>2, <2>3
<1>12. ASSUME NEW c \in Conns, NEW f \in Inputs[c], Decode(c, f)
       PROVE  ConnFunctionsOK' /\ KeysOK'
  <2>1. /\ pc' = [pc EXCEPT ![c] = "handle"]
        /\ UNCHANGED <<answer, out, open, peer, opWrite, sent, waking, sel, ready>>
    BY <1>12, ReceiveMoves DEF Decode
  <2>2. ConnFunctionsOK'
    BY <2>1 DEF ConnFunctionsOK, B!PCs
  <2>3. KeysOK'
    BY <2>1, KeysKept DEF ConnFunctionsOK, KeysOK
  <2> QED BY <2>2, <2>3
<1>13. ASSUME NEW c \in Conns, Process(c) PROVE ConnFunctionsOK' /\ KeysOK'
  <2>1. UNCHANGED <<open, peer, opWrite, sent, waking, sel, ready>>
    BY <1>13 DEF Process
  <2>2. Moves(c)
    BY <1>13, HandleMoves DEF Process, ConnFunctionsOK
  <2>3. PICK p \in B!PCs \ {"off"} : pc' = [pc EXCEPT ![c] = p]
    BY <2>2 DEF Moves
  <2>4. ConnFunctionsOK'
    BY <2>1, <2>2, <2>3 DEF ConnFunctionsOK, Moves
  <2>5. KeysOK'
    BY <2>1, <2>3, KeysKept DEF ConnFunctionsOK, KeysOK
  <2> QED BY <2>4, <2>5
<1>14. ASSUME NEW c \in Conns, QueueMessage(c)
       PROVE  ConnFunctionsOK' /\ KeysOK'
  <2>1. /\ UNCHANGED <<open, peer, opWrite, sent, sel, ready>>
        /\ waking' = [waking EXCEPT ![c] = pick[c].to]
    BY <1>14 DEF QueueMessage
  <2>2. /\ pc' = pc /\ answer' = answer /\ DOMAIN out' = Conns
        /\ \A d \in Conns : IsASeq(out'[d])
    BY <1>14, HandOverMoves DEF QueueMessage
  <2>3. ConnFunctionsOK'
    BY <2>1, <2>2 DEF ConnFunctionsOK
  <2>4. KeysOK'
    BY <2>1, <2>2, KeysKept DEF KeysOK
  <2> QED BY <2>3, <2>4
<1>15. ASSUME NEW c \in Conns, QueueReply(c) PROVE ConnFunctionsOK' /\ KeysOK'
  <2>1. /\ UNCHANGED <<open, peer, opWrite, sent, sel, ready>>
        /\ waking' = [waking EXCEPT ![c] = IF answer[c] = <<>> THEN NoConn ELSE c]
    BY <1>15 DEF QueueReply
  <2>2. /\ pc' = [pc EXCEPT ![c] = "idle"]
        /\ answer' = [answer EXCEPT ![c] = <<>>]
        /\ DOMAIN out' = Conns
        /\ \A d \in Conns : IsASeq(out'[d])
    BY <1>15, ReplyMoves DEF QueueReply
  <2>3. ConnFunctionsOK'
    BY <2>1, <2>2, Answers DEF ConnFunctionsOK, B!PCs
  <2>4. KeysOK'
    BY <2>1, <2>2, KeysKept DEF ConnFunctionsOK, KeysOK
  <2> QED BY <2>3, <2>4
<1>16. ASSUME NEW c \in Conns, AskToWrite(c) PROVE ConnFunctionsOK' /\ KeysOK'
  <2>1. /\ waking' = [waking EXCEPT ![c] = NoConn]
        /\ UNCHANGED <<pc, answer, out, open, peer, opWrite, sent, sel, ready>>
    BY <1>16 DEF AskToWrite
  <2>2. ConnFunctionsOK'
    BY <2>1 DEF ConnFunctionsOK
  <2>3. KeysOK'
    BY <2>1, KeysKept DEF KeysOK
  <2> QED BY <2>2, <2>3
<1>17. ASSUME NEW k \in B!Calls, DisconnectStep(k)
       PROVE  ConnFunctionsOK' /\ KeysOK'
  <2>1. UNCHANGED <<pc, answer, out, open, peer, opWrite, sent, waking, sel, ready>>
    BY <1>17, DisconnectMoves DEF DisconnectStep
  <2>2. ConnFunctionsOK'
    BY <2>1 DEF ConnFunctionsOK
  <2>3. KeysOK'
    BY <2>1, KeysKept DEF KeysOK
  <2> QED BY <2>2, <2>3
<1>18. ASSUME NEW c \in Conns, PeerStalls(c) \/ PeerResumes(c) \/ PeerDies(c)
       PROVE  ConnFunctionsOK' /\ KeysOK'
  <2>1. /\ \E to \in {"stalled", "resumed", "closed"} :
             peer' = [peer EXCEPT ![c] = to]
        /\ peer[c] # "none"
        /\ UNCHANGED <<pc, answer, out, open, opWrite, sent, waking, sel, ready>>
    BY <1>18 DEF PeerStalls, PeerResumes, PeerDies, PeerMoves
  <2>2. ConnFunctionsOK'
    BY <2>1 DEF ConnFunctionsOK
  <2>3. KeysOK'
    BY <2>1, KeysKept DEF ConnFunctionsOK, KeysOK
  <2> QED BY <2>2, <2>3
<1>19. CASE UNCHANGED vars
  <2>1. UNCHANGED <<pc, answer, out, open, peer, opWrite, sent, waking, sel, ready>>
    BY <1>19 DEF vars
  <2>2. ConnFunctionsOK'
    BY <2>1 DEF ConnFunctionsOK
  <2>3. KeysOK'
    BY <2>1, KeysKept DEF KeysOK
  <2> QED BY <2>2, <2>3
<1> QED
  BY <1>1, <1>2, <1>3, <1>4, <1>5, <1>6, <1>7, <1>8, <1>9, <1>10, <1>11,
     <1>12, <1>13, <1>14, <1>15, <1>16, <1>17, <1>18, <1>19
  DEF Next, HandleKey, Worker, AllQuiet

LEMMA SelectorHolds == Spec => []SelectorOK
<1> QED BY SelectorStart, SelectorStays, PTL DEF Spec

(***************************************************************************)
(* The reactor implements the broker.                                      *)
(***************************************************************************)
LEMMA StartMaps == Init => B!Init
BY DEF Init, B!Init

LEMMA StepMaps == SelectorOK /\ [Next]_vars => [B!Next]_B!vars
<1> SUFFICES ASSUME ConnFunctionsOK, KeysOK, [Next]_vars
             PROVE  B!Next \/ UNCHANGED B!vars
  BY DEF SelectorOK
<1>1. ASSUME UNCHANGED <<brokerVars, open>> PROVE UNCHANGED B!vars
  BY <1>1 DEF brokerVars, B!vars
<1>2. ASSUME NEW c \in Conns, Accept(c) PROVE B!Next
  BY <1>2 DEF Accept, B!Next
<1>3. ASSUME NEW c \in Conns, CloseChannel(c) PROVE B!Next
  <2>1. /\ sel = At("close", c) /\ open' = [open EXCEPT ![c] = FALSE]
        /\ UNCHANGED brokerVars
    BY <1>3 DEF CloseChannel
  <2>2. pc[c] # "off" /\ open[c]
    BY <2>1 DEF KeysOK, Live
  <2>3. [d \in Conns |-> ~open'[d]]
          = [[d \in Conns |-> ~open[d]] EXCEPT ![c] = TRUE]
    BY <2>1 DEF ConnFunctionsOK
  <2>4. B!Close(c)
    BY <2>1, <2>2, <2>3
    DEF B!Close, brokerVars, B!registryVars, B!workerVars, B!loopVars
  <2> QED BY <2>4 DEF B!Next
<1>4. ASSUME NEW c \in Conns, Notify(c) PROVE B!Next
  BY <1>4 DEF Notify, B!Next
<1>5. ASSUME NEW c \in Conns, NEW f \in Inputs[c], Decode(c, f) PROVE B!Next
  BY <1>5 DEF Decode, B!Next
<1>6. ASSUME NEW c \in Conns, Process(c) PROVE B!Next
  BY <1>6 DEF Process, B!Next
<1>7. ASSUME NEW c \in Conns, QueueMessage(c) PROVE B!Next
  BY <1>7 DEF QueueMessage, B!Next
<1>8. ASSUME NEW c \in Conns, QueueReply(c) PROVE B!Next
  BY <1>8 DEF QueueReply, B!Next
<1>9. ASSUME NEW k \in B!Calls, DisconnectStep(k) PROVE B!Next
  BY <1>9 DEF DisconnectStep, B!Next
<1>10. CASE Select
  BY <1>1, <1>10 DEF Select, channelVars
<1>11. ASSUME NEW c \in Conns,
              \/ ReadFrames(c) \/ ReadEnds(c) \/ WriteStarts(c) \/ WriteHead(c)
              \/ QueueEmpty(c) \/ Decide(c) \/ Closed(c) \/ AskToWrite(c)
       PROVE  UNCHANGED B!vars
  BY <1>1, <1>11
  DEF ReadFrames, ReadEnds, WriteStarts, WriteHead, QueueEmpty, Decide, Closed,
      AskToWrite, channelVars
<1>12. ASSUME NEW c \in Conns, PeerStalls(c) \/ PeerResumes(c) \/ PeerDies(c)
       PROVE  UNCHANGED B!vars
  BY <1>1, <1>12 DEF PeerStalls, PeerResumes, PeerDies, PeerMoves
<1>13. CASE UNCHANGED vars
  BY <1>1, <1>13 DEF vars, brokerVars
<1> QED
  BY <1>2, <1>3, <1>4, <1>5, <1>6, <1>7, <1>8, <1>9, <1>10, <1>11, <1>12, <1>13
  DEF Next, HandleKey, Worker, AllQuiet

(* Whatever the broker promises for a server that goes on processing after *)
(* shouldTerminate, the reactor keeps.                                     *)
THEOREM ReactorImplementsBroker == Spec => ImplementsBroker
<1> QED BY SelectorHolds, StartMaps, StepMaps, PTL
    DEF Spec, ImplementsBroker, B!Spec

(***************************************************************************)
(* No queued frame is forgotten.                                           *)
(***************************************************************************)
(* What can disturb it is a frame that is added, a request that is taken   *)
(* out of tasks or interest that is dropped; all else leaves it alone.     *)
LEMMA Unforgotten ==
  ASSUME QueuedIsAnnounced,
         UNCHANGED <<open, sent, out, waking>>, tasks \subseteq tasks',
         \A c \in Conns : WillLook(c) => WillLook(c)'
  PROVE  QueuedIsAnnounced'
BY DEF QueuedIsAnnounced, Announced

LEMMA Announcing ==
  SelectorOK /\ QueuedIsAnnounced /\ [Next]_vars => QueuedIsAnnounced'
<1> SUFFICES ASSUME ConnFunctionsOK, KeysOK, QueuedIsAnnounced, [Next]_vars
             PROVE  QueuedIsAnnounced'
  BY DEF SelectorOK
<1> USE DEF brokerVars, channelVars, selectorVars
<1>1. CASE Select
  <2>1. /\ sel = Keys /\ sel' = Keys /\ UNCHANGED <<open, sent, out, waking>>
        /\ opWrite' = [c \in Conns |-> opWrite[c] \/ (c \in tasks /\ open[c])]
    BY <1>1 DEF Select
  <2>2. ASSUME NEW c \in Conns, open[c], sent[c] < Len(out[c])
        PROVE  WillLook(c)' \/ \E t \in Conns : waking[t] = c
    <3>1. opWrite[c] \/ c \in tasks \/ \E t \in Conns : waking[t] = c
      BY <2>2 DEF QueuedIsAnnounced, WillLook, Announced
    <3>2. sel' # At("decide", c)
      BY <2>1 DEF Keys, At
    <3>3. opWrite[c] \/ c \in tasks => opWrite'[c]
      BY <2>1, <2>2
    <3> QED BY <3>1, <3>2, <3>3 DEF WillLook
  <2> QED BY <2>1, <2>2 DEF QueuedIsAnnounced, Announced
<1>2. ASSUME NEW c \in Conns,
             \/ ReadFrames(c) \/ ReadEnds(c) \/ WriteStarts(c) \/ Notify(c)
             \/ Closed(c) \/ Accept(c)
      PROVE  QueuedIsAnnounced'
  <2>1. UNCHANGED <<open, sent, out, waking, tasks, opWrite>>
    BY <1>2 DEF ReadFrames, ReadEnds, WriteStarts, Notify, Closed, Accept,
                B!StartClose, B!Accept, B!handlerVars
  <2>2. sel' \in {sel, Keys, At("close", c), At("write", c), At("wait", c)}
    BY <1>2 DEF ReadFrames, ReadEnds, WriteStarts, Notify, Closed, Accept
  <2>3. \A d \in Conns : WillLook(d) => WillLook(d)'
    BY <2>1, <2>2 DEF WillLook, Keys, At
  <2> QED BY <2>1, <2>3, Unforgotten
<1>3. ASSUME NEW c \in Conns, WriteHead(c) PROVE QueuedIsAnnounced'
  <2>1. /\ UNCHANGED <<open, out, waking, tasks, opWrite>>
        /\ sel = At("write", c)
        /\ sel' \in {sel, Keys, At("close", c)}
        /\ sent' = sent \/ sent' = [sent EXCEPT ![c] = @ + 1]
        /\ sent[c] < Len(out[c])
    BY <1>3 DEF WriteHead
  <2>2. \A d \in Conns : WillLook(d) => WillLook(d)'
    BY <2>1 DEF WillLook, Keys, At
  <2>3. \A d \in Conns : sent'[d] < Len(out[d]) => sent[d] < Len(out[d])
    BY <2>1 DEF ConnFunctionsOK
  <2> QED BY <2>1, <2>2, <2>3 DEF QueuedIsAnnounced, Announced
<1>4. ASSUME NEW c \in Conns, QueueEmpty(c) PROVE QueuedIsAnnounced'
  <2>1. /\ UNCHANGED <<open, sent, out, waking, tasks, opWrite>>
        /\ sel = At("write", c) /\ sel' = At("decide", c)
        /\ sent[c] = Len(out[c])
    BY <1>4 DEF QueueEmpty
  <2>2. ~(sent[c] < Len(out[c]))
    <3>1. Len(out[c]) \in Nat
      BY DEF ConnFunctionsOK, IsASeq
    <3> QED BY <2>1, <3>1
  <2>3. \A d \in Conns \ {c} : WillLook(d) => WillLook(d)'
    BY <2>1 DEF WillLook, At
  <2> QED BY <2>1, <2>2, <2>3 DEF QueuedIsAnnounced, Announced
<1>5. ASSUME NEW c \in Conns, Decide(c) PROVE QueuedIsAnnounced'
  <2>1. /\ UNCHANGED <<open, sent, out, waking, tasks>>
        /\ sel = At("decide", c) /\ (sel' = Keys \/ sel' = At("close", c))
        /\ opWrite' = opWrite \/ opWrite' = [opWrite EXCEPT ![c] = FALSE]
    BY <1>5 DEF Decide
  <2>2. \A d \in Conns : WillLook(d) => WillLook(d)'
    BY <2>1 DEF WillLook, Keys, At, ConnFunctionsOK
  <2> QED BY <2>1, <2>2, Unforgotten
<1>6. ASSUME NEW c \in Conns, CloseChannel(c) PROVE QueuedIsAnnounced'
  <2>1. /\ UNCHANGED <<sent, out, waking, tasks>>
        /\ open' = [open EXCEPT ![c] = FALSE]
        /\ opWrite' = [opWrite EXCEPT ![c] = FALSE]
        /\ sel' = At("notify", c)
    BY <1>6 DEF CloseChannel
  <2>2. ~open'[c] /\ \A d \in Conns \ {c} : open'[d] = open[d]
    BY <2>1 DEF ConnFunctionsOK
  <2>3. \A d \in Conns \ {c} : WillLook(d) => WillLook(d)'
    BY <2>1 DEF WillLook, At, ConnFunctionsOK
  <2> QED BY <2>1, <2>2, <2>3 DEF QueuedIsAnnounced, Announced
<1>7. ASSUME NEW c \in Conns, NEW f \in Inputs[c], Decode(c, f)
      PROVE  QueuedIsAnnounced'
  <2>1. UNCHANGED <<open, sent, out, waking, tasks, opWrite, sel>>
    BY <1>7, ReceiveMoves DEF Decode
  <2> QED BY <2>1, Unforgotten DEF WillLook
<1>8. ASSUME NEW c \in Conns, Process(c) PROVE QueuedIsAnnounced'
  <2>1. UNCHANGED <<open, sent, waking, tasks, opWrite, sel>>
    BY <1>8 DEF Process
  <2>2. out' = out
    BY <1>8, HandleMoves DEF Process, Moves, ConnFunctionsOK
  <2> QED BY <2>1, <2>2, Unforgotten DEF WillLook
<1>9. ASSUME NEW c \in Conns, QueueMessage(c) PROVE QueuedIsAnnounced'
  <2>1. /\ UNCHANGED <<open, sent, tasks, opWrite, sel>>
        /\ waking[c] = NoConn /\ waking' = [waking EXCEPT ![c] = pick[c].to]
    BY <1>9 DEF QueueMessage
  <2>2. \A d \in Conns : d # pick[c].to => out'[d] = out[d]
    BY <1>9, HandOverMoves DEF QueueMessage
  <2>3. ASSUME NEW d \in Conns, d # pick[c].to, Announced(d)
        PROVE  Announced(d)'
    BY <2>1, <2>3, NoConnOutside DEF Announced, ConnFunctionsOK
  <2>4. ASSUME NEW d \in Conns, d = pick[c].to PROVE Announced(d)'
    BY <2>1, <2>4 DEF Announced, ConnFunctionsOK
  <2> QED BY <2>1, <2>2, <2>3, <2>4 DEF QueuedIsAnnounced, WillLook
<1>10. ASSUME NEW c \in Conns, QueueReply(c) PROVE QueuedIsAnnounced'
  <2>1. /\ UNCHANGED <<open, sent, tasks, opWrite, sel>>
        /\ waking[c] = NoConn
        /\ waking' = [waking EXCEPT ![c] = IF answer[c] = <<>> THEN NoConn ELSE c]
    BY <1>10 DEF QueueReply
  <2>2. \A d \in Conns : d # c \/ answer[c] = <<>> => out'[d] = out[d]
    BY <1>10, ReplyMoves DEF QueueReply
  <2>3. ASSUME NEW d \in Conns, d # c \/ answer[c] = <<>>, Announced(d)
        PROVE  Announced(d)'
    BY <2>1, <2>3, NoConnOutside DEF Announced, ConnFunctionsOK
  <2>4. ASSUME answer[c] # <<>> PROVE Announced(c)'
    BY <2>1, <2>4 DEF Announced, ConnFunctionsOK
  <2> QED BY <2>1, <2>2, <2>3, <2>4 DEF QueuedIsAnnounced, WillLook
<1>11. ASSUME NEW c \in Conns, AskToWrite(c) PROVE QueuedIsAnnounced'
  <2>1. /\ UNCHANGED <<open, sent, out, opWrite, sel>>
        /\ waking' = [waking EXCEPT ![c] = NoConn]
        /\ tasks' = IF open[waking[c]] THEN tasks \cup {waking[c]} ELSE tasks
    BY <1>11 DEF AskToWrite
  <2>2. ASSUME NEW d \in Conns, open[d], Announced(d) PROVE Announced(d)'
    <3>1. CASE d \in tasks \/ waking[c] = d
      BY <2>1, <2>2, <3>1 DEF Announced
    <3>2. ASSUME NEW t \in Conns \ {c}, waking[t] = d PROVE Announced(d)'
      BY <2>1, <3>2 DEF Announced, ConnFunctionsOK
    <3> QED BY <2>2, <3>1, <3>2 DEF Announced
  <2> QED BY <2>1, <2>2 DEF QueuedIsAnnounced, WillLook
<1>12. ASSUME NEW k \in B!Calls, DisconnectStep(k) PROVE QueuedIsAnnounced'
  <2>1. UNCHANGED <<open, sent, out, waking, tasks, opWrite, sel>>
    BY <1>12, DisconnectMoves DEF DisconnectStep
  <2> QED BY <2>1, Unforgotten DEF WillLook
<1>13. ASSUME NEW c \in Conns, PeerStalls(c) \/ PeerResumes(c) \/ PeerDies(c)
       PROVE  QueuedIsAnnounced'
  <2>1. UNCHANGED <<open, sent, out, waking, tasks, opWrite, sel>>
    BY <1>13 DEF PeerStalls, PeerResumes, PeerDies, PeerMoves
  <2> QED BY <2>1, Unforgotten DEF WillLook
<1>14. CASE UNCHANGED vars
  <2>1. UNCHANGED <<open, sent, out, waking, tasks, opWrite, sel>>
    BY <1>14 DEF vars
  <2> QED BY <2>1, Unforgotten DEF WillLook
<1> QED
  BY <1>1, <1>2, <1>3, <1>4, <1>5, <1>6, <1>7, <1>8, <1>9, <1>10, <1>11,
     <1>12, <1>13, <1>14
  DEF Next, HandleKey, Worker, AllQuiet

LEMMA NothingQueued == Init => QueuedIsAnnounced
BY DEF Init, B!Init, QueuedIsAnnounced

(* A frame in the write queue of an open channel is never forgotten.       *)
THEOREM QueuedHolds == Spec => []QueuedIsAnnounced
<1> QED BY SelectorHolds, NothingQueued, Announcing, PTL DEF Spec
(***************************************************************************)
(* The broker's theorems, for the reactor.                                 *)
(***************************************************************************)
(* The broker with the proofs about it, for the state of this server.      *)
P == INSTANCE BrokerMessages_proofs
       WITH closed <- [c \in Conns |-> ~open[c]], StopAtTerminate <- FALSE,
            owed <- [c \in Conns |-> {}]

LEMMA Assumptions == P!BrokerAssumption
BY ReactorAssumption DEF B!BrokerAssumption, B!Frame, P!BrokerAssumption, P!Frame

(* B is that broker too: the same definitions, for the same state.         *)
LEMMA SameState ==
  /\ B!NoPick = P!NoPick /\ B!Returned = P!Returned
  /\ B!Calls = P!Calls /\ B!vars = P!vars
  /\ B!Init <=> P!Init
BY DEF B!registryVars, P!registryVars, B!loopVars, P!loopVars, B!workerVars,
       P!workerVars, B!handlerVars, P!handlerVars, B!vars, P!vars, B!Calls,
       P!Calls, B!Returned, P!Returned, B!NoPick, P!NoPick, B!Init, P!Init

LEMMA SameActions ==
  /\ \A c \in Conns :
       /\ B!Reply(c) <=> P!Reply(c)
       /\ B!HandOver(c) <=> P!HandOver(c)
       /\ B!StartClose(c) <=> P!StartClose(c)
       /\ \A f \in Inputs[c] : B!Receive(c, f) <=> P!Receive(c, f)
  /\ \A k \in P!Calls : B!DisconnectStep(k) <=> P!DisconnectStep(k)
  /\ B!Next <=> P!Next
<1> USE DEF B!registryVars, P!registryVars, B!loopVars, P!loopVars,
      B!workerVars, P!workerVars, B!handlerVars, P!handlerVars, B!vars,
      P!vars, B!Calls, P!Calls, B!Returned, P!Returned, B!Entered, P!Entered,
      B!NoPick, P!NoPick, B!Init, P!Init, B!Current, P!Current, B!Answer,
      P!Answer, B!Receipt, P!Receipt, B!Error, P!Error, B!Connected,
      P!Connected, B!Complete, P!Complete, B!Leave, P!Leave, B!Accept,
      P!Accept, B!Sent, P!Sent, B!Polite, P!Polite, B!Receive, P!Receive,
      B!Handling, P!Handling, B!Malformed, P!Malformed, B!Disconnect,
      P!Disconnect, B!Subscribe, P!Subscribe, B!Unsubscribe, P!Unsubscribe,
      B!Send, P!Send, B!Iterating, P!Iterating, B!Fanning, P!Fanning, B!Visit,
      P!Visit, B!LookUp, P!LookUp, B!FrameFor, P!FrameFor, B!HandOver,
      P!HandOver, B!FanoutDone, P!FanoutDone, B!EnterLogin, P!EnterLogin,
      B!LoginCheck, P!LoginCheck, B!LoginReturns, P!LoginReturns,
      B!LoginCreate, P!LoginCreate, B!LoginBind, P!LoginBind, B!LoginActivate,
      P!LoginActivate, B!Reply, P!Reply, B!RemoveClient, P!RemoveClient,
      B!CheckUser, P!CheckUser, B!ClearUser, P!ClearUser, B!RemoveSub,
      P!RemoveSub, B!Close, P!Close, B!StartClose, P!StartClose, B!Quiet,
      P!Quiet, B!Handle, P!Handle, B!DisconnectStep, P!DisconnectStep, B!Next,
      P!Next
<1> QED
  OBVIOUS

(* The broker in the vocabulary of its proofs.                             *)
LEMMA BrokerSteps == SelectorOK /\ [Next]_vars => [P!Next]_P!vars
<1>1. [B!Next]_B!vars => [P!Next]_P!vars
  BY SameActions DEF B!vars, P!vars
<1> QED BY <1>1, StepMaps

LEMMA BrokerRuns == Spec => P!Spec
<1>1. Init => P!Init
  BY StartMaps, SameState
<1> QED BY <1>1, BrokerSteps, SelectorHolds, PTL DEF Spec, P!Spec

(* What the broker promises of accounts and messages, the reactor keeps:   *)
(* B!ConnectedKnowsPassword, B!MessageIdNamesSend, B!PublisherOrder,       *)
(* B!MessageIsAddressed, B!AtMostOneStray, with write queues, interest     *)
(* changes and late closes where the broker has a single step.             *)
THEOREM ReactorKeepsPromises ==
  Spec => [](/\ B!ConnectedKnowsPassword
             /\ B!MessageIdNamesSend /\ B!PublisherOrder
             /\ B!MessageIsAddressed /\ B!AtMostOneStray)
<1>1. P!ConnectedKnowsPassword => B!ConnectedKnowsPassword
  BY DEF P!ConnectedKnowsPassword, B!ConnectedKnowsPassword
<1>2. /\ P!MessageIdNamesSend => B!MessageIdNamesSend
      /\ P!PublisherOrder => B!PublisherOrder
  BY DEF P!MessageIdNamesSend, B!MessageIdNamesSend, P!PublisherOrder,
         B!PublisherOrder, P!IsMessage, B!IsMessage
<1>3. P!MessageIsAddressed => B!MessageIsAddressed
  BY DEF P!MessageIsAddressed, B!MessageIsAddressed, P!IsMessage, B!IsMessage,
         P!Sent, B!Sent
<1>4. P!AtMostOneStray => B!AtMostOneStray
  BY DEF P!AtMostOneStray, B!AtMostOneStray, P!Strays, B!Strays, P!Ends,
         B!Ends, P!IsMessage, B!IsMessage, P!Sent, B!Sent
<1>5. P!Spec => /\ []P!ConnectedKnowsPassword
                /\ []P!MessageIdNamesSend /\ []P!PublisherOrder
                /\ []P!MessageIsAddressed /\ []P!AtMostOneStray
  BY Assumptions, P!ConnectedHolds, P!MessageIdsHold, P!OrderHolds,
     P!AddressesHold, P!OneStrayHolds
<1> QED BY <1>1, <1>2, <1>3, <1>4, <1>5, BrokerRuns, PTL
(***************************************************************************)
(* The types of the reactor's own variables.                               *)
(***************************************************************************)
Where == {Keys} \cup {At(p, c) : p \in Places, c \in Conns}

ReactorTypeOK ==
  /\ open \in [Conns -> BOOLEAN]
  /\ peer \in [Conns -> {"none", "reading", "stalled", "resumed", "closed"}]
  /\ opWrite \in [Conns -> BOOLEAN]
  /\ tasks \in SUBSET Conns
  /\ woken \in BOOLEAN
  /\ ready \in SUBSET ({AcceptKey} \cup UNION {KeysOf(c) : c \in Conns})
  /\ sel \in Where
  /\ inbox \in [Conns -> Nat]
  /\ sent \in [Conns -> Nat]
  /\ waking \in [Conns -> Conns \cup {NoConn}]

WrittenWasQueued == \A c \in Conns : sent[c] \leq Len(out[c])

LEMMA TypesStay ==
  ASSUME P!TypeOK, ReactorTypeOK, [Next]_vars
  PROVE  ReactorTypeOK'
<1> USE DEF ReactorTypeOK, channelVars, selectorVars
<1>1. CASE Select
  <2>1. Arrivals \subseteq {AcceptKey} \cup UNION {KeysOf(c) : c \in Conns}
    BY DEF Arrivals, KeysOf
  <2>2. Due \subseteq UNION {KeysOf(c) : c \in Conns}
    BY DEF Due, KeysOf
  <2>3. ready' \in SUBSET ({AcceptKey} \cup UNION {KeysOf(c) : c \in Conns})
    BY <1>1, <2>1, <2>2 DEF Select
  <2>4. /\ opWrite' \in [Conns -> BOOLEAN] /\ tasks' = {} /\ woken' = FALSE
        /\ UNCHANGED <<open, peer, sel, inbox, sent, waking>>
    BY <1>1 DEF Select
  <2> QED BY <2>3, <2>4
<1>2. ASSUME NEW c \in Conns, HandleKey(c) PROVE ReactorTypeOK'
  <2>1. /\ At("close", c) \in Where /\ At("write", c) \in Where
        /\ At("decide", c) \in Where /\ At("notify", c) \in Where
        /\ At("wait", c) \in Where /\ Keys \in Where
    BY DEF Places, Where
  <2> HIDE DEF ReactorTypeOK
  <2>3. CASE Accept(c)
    BY <2>3 DEF Accept, ReactorTypeOK
  <2>4. CASE ReadFrames(c)
    <3>1. PICK n \in 1 .. MaxFrames[c] : inbox' = [inbox EXCEPT ![c] = @ + n]
      BY <2>4 DEF ReadFrames
    <3>2. MaxFrames[c] \in Nat
      BY Assumptions DEF P!BrokerAssumption
    <3>3. n \in Nat
      BY <3>1, <3>2
    <3> QED BY <2>4, <3>1, <3>3 DEF ReadFrames, ReactorTypeOK
  <2>5. CASE ReadEnds(c)
    BY <2>1, <2>5 DEF ReadEnds, ReactorTypeOK
  <2>6. CASE WriteStarts(c)
    BY <2>1, <2>6 DEF WriteStarts, ReactorTypeOK
  <2>7. CASE WriteHead(c)
    <3>1. sent' \in [Conns -> Nat] /\ sel' \in Where
      BY <2>1, <2>7 DEF WriteHead, ReactorTypeOK
    <3> QED BY <2>7, <3>1 DEF WriteHead, ReactorTypeOK
  <2>8. CASE QueueEmpty(c)
    BY <2>1, <2>8 DEF QueueEmpty, ReactorTypeOK
  <2>9. CASE Decide(c)
    <3>1. opWrite' \in [Conns -> BOOLEAN] /\ sel' \in Where
      BY <2>1, <2>9 DEF Decide, ReactorTypeOK
    <3> QED BY <2>9, <3>1 DEF Decide, ReactorTypeOK
  <2>10. CASE CloseChannel(c)
    BY <2>1, <2>10 DEF CloseChannel, ReactorTypeOK
  <2>11. CASE Notify(c)
    BY <2>1, <2>11 DEF Notify, ReactorTypeOK
  <2>12. CASE Closed(c)
    BY <2>1, <2>12 DEF Closed, ReactorTypeOK
  <2> QED
    BY <1>2, <2>3, <2>4, <2>5, <2>6, <2>7, <2>8, <2>9, <2>10, <2>11, <2>12
    DEF HandleKey
<1>3. ASSUME NEW c \in Conns, Worker(c) PROVE ReactorTypeOK'
  <2> HIDE DEF ReactorTypeOK
  <2>1. ASSUME NEW f \in Inputs[c], Decode(c, f) PROVE ReactorTypeOK'
    BY <2>1 DEF Decode, ReactorTypeOK
  <2>2. CASE Process(c)
    BY <2>2 DEF Process, ReactorTypeOK
  <2>3. CASE QueueMessage(c)
    <3>1. pick[c] # P!NoPick
      BY <2>3, SameActions DEF QueueMessage, P!HandOver
    <3>2. pick[c].to \in Conns
      BY <3>1 DEF P!TypeOK, P!WorkerTypeOK
    <3> QED BY <2>3, <3>2 DEF QueueMessage, ReactorTypeOK
  <2>4. CASE QueueReply(c)
    BY <2>4 DEF QueueReply, ReactorTypeOK
  <2>5. CASE AskToWrite(c)
    BY <2>5 DEF AskToWrite, ReactorTypeOK
  <2> QED BY <1>3, <2>1, <2>2, <2>3, <2>4, <2>5 DEF Worker
<1>4. ASSUME NEW k \in B!Calls, DisconnectStep(k) PROVE ReactorTypeOK'
  BY <1>4 DEF DisconnectStep
<1>5. ASSUME NEW c \in Conns, PeerStalls(c) \/ PeerResumes(c) \/ PeerDies(c)
      PROVE  ReactorTypeOK'
  BY <1>5 DEF PeerStalls, PeerResumes, PeerDies, PeerMoves
<1>6. CASE UNCHANGED vars
  BY <1>6 DEF vars
<1> QED BY <1>1, <1>2, <1>3, <1>4, <1>5, <1>6 DEF Next, AllQuiet

(* A write queue only grows, and only what is in it is written.            *)
LEMMA WritesStay ==
  ASSUME P!TypeOK, SelectorOK, ReactorTypeOK, WrittenWasQueued, [Next]_vars
  PROVE  WrittenWasQueued'
<1> SUFFICES ASSUME NEW c \in Conns PROVE sent'[c] \leq Len(out'[c])
  BY DEF WrittenWasQueued
<1>1. /\ out[c] \in Seq(P!ReplyFrame \cup P!MessageFrame)
      /\ sent[c] \in Nat /\ sent \in [Conns -> Nat] /\ sent[c] \leq Len(out[c])
  BY DEF P!TypeOK, P!HandlerTypeOK, ReactorTypeOK, WrittenWasQueued
<1>2. Len(out[c]) \in Nat /\ DOMAIN out[c] = 1 .. Len(out[c])
  BY <1>1
<1>3. CASE sent'[c] = sent[c]
  <2>1. [P!Next]_P!vars
    BY BrokerSteps
  <2>2. IsASeq(out'[c])
    BY SelectorStays DEF SelectorOK, ConnFunctionsOK
  <2>3. Len(out'[c]) \in Nat /\ DOMAIN out'[c] = 1 .. Len(out'[c])
    BY <2>2 DEF IsASeq
  <2>4. CASE Len(out[c]) = 0
    BY <1>1, <1>2, <1>3, <2>3, <2>4
  <2>5. CASE Len(out[c]) # 0
    <3>1. Len(out[c]) \in DOMAIN out[c]
      BY <1>2, <2>5
    <3>2. Len(out[c]) \in DOMAIN out'[c]
      BY <2>1, <3>1, Assumptions, P!OutKept
    <3> QED BY <1>1, <1>2, <1>3, <2>3, <3>2
  <2> QED BY <2>4, <2>5
<1>4. ASSUME NEW d \in Conns, WriteHead(d) PROVE sent'[c] \leq Len(out'[c])
  <2>1. /\ out' = out /\ sent[d] < Len(out[d])
        /\ sent' = sent \/ sent' = [sent EXCEPT ![d] = @ + 1]
    BY <1>4 DEF WriteHead, brokerVars
  <2> QED BY <1>1, <1>2, <2>1
<1>5. (\A d \in Conns : ~WriteHead(d)) => sent' = sent
  BY DEF Next, Select, HandleKey, Accept, ReadFrames, ReadEnds, WriteStarts,
     QueueEmpty, Decide, CloseChannel, Notify, Closed, Worker, Decode, Process,
     QueueMessage, QueueReply, AskToWrite, DisconnectStep, PeerStalls,
     PeerResumes, PeerDies, PeerMoves, AllQuiet, channelVars, vars
<1> QED BY <1>3, <1>4, <1>5

LEMMA StateHolds ==
  Spec => [](P!TypeOK /\ P!LoginOK /\ ReactorTypeOK /\ WrittenWasQueued)
<1>1. Init => ReactorTypeOK /\ WrittenWasQueued
  <2>1. Len(<<>>) = 0
    OBVIOUS
  <2> SUFFICES ASSUME Init PROVE ReactorTypeOK /\ WrittenWasQueued
    OBVIOUS
  <2>2. \A c \in Conns : sent[c] = 0 /\ out[c] = <<>>
    BY DEF Init, B!Init
  <2>3. WrittenWasQueued
    <3>1. ASSUME NEW c \in Conns PROVE sent[c] \leq Len(out[c])
      <4>1. sent[c] = 0 /\ Len(out[c]) = 0
        BY <2>1, <2>2
      <4> QED BY <4>1
    <3> QED BY <3>1 DEF WrittenWasQueued
  <2>4. sel \in Where
    BY DEF Init, Where
  <2> QED BY <2>3, <2>4 DEF Init, ReactorTypeOK
<1>2. P!TypeOK /\ SelectorOK /\ ReactorTypeOK /\ WrittenWasQueued /\ [Next]_vars
      => ReactorTypeOK' /\ WrittenWasQueued'
  BY TypesStay, WritesStay
<1>3. P!Spec => [](P!TypeOK /\ P!LoginOK)
  BY Assumptions, P!LoginsHold
<1> QED BY <1>1, <1>2, <1>3, BrokerRuns, SelectorHolds, PTL DEF Spec

(* The reactor's variables keep their types, the broker's included, and no *)
(* more of a write queue is written than was put into it (TypeOK).         *)
THEOREM ReactorTypesHold == Spec => []TypeOK
<1>1. P!TypeOK => B!TypeOK
  BY SameState
  DEF P!TypeOK, B!TypeOK, P!RegistryTypeOK, B!RegistryTypeOK,
      P!WorkerTypeOK, B!WorkerTypeOK, P!HandlerTypeOK, B!HandlerTypeOK,
      P!DisconnectTypeOK, B!DisconnectTypeOK, P!PhaseOK, B!PhaseOK,
      P!Account, B!Account, P!PCs, B!PCs, P!Frame, B!Frame, P!ReplyFrame,
      B!ReplyFrame, P!MessageFrame, B!MessageFrame, P!Activation,
      B!Activation, P!Current, B!Current
<1>2. P!TypeOK /\ ReactorTypeOK /\ WrittenWasQueued => TypeOK
  BY <1>1 DEF ReactorTypeOK, WrittenWasQueued, TypeOK, Where
<1> QED BY <1>2, StateHolds, PTL
(***************************************************************************)
(* No answered login outlives its connection.                              *)
(***************************************************************************)
(* The only CONNECT of c has been answered.                                *)
LoginAnswered(c) ==
  \E i \in DOMAIN out[c] : /\ out[c][i].kind = "CONNECTED"
                           /\ P!Sent(c, "CONNECT") = {out[c][i].n}

(* Between close() and disconnect the selector thread does nothing else,   *)
(* and it waits for disconnect to return; what that call has passed stays  *)
(* as it left it, for a connection that has no login to come.              *)
Ending(c) ==
  LET a == disc[<<"close", c>>]
  IN  /\ notified[c] => ~open[c]
      /\ ~open[c] => pc[c] # "off"
      /\ ~open[c] => notified[c] \/ sel = At("notify", c)
      /\ sel # At("wait", c) => a = P!Returned
      /\ notified[c] /\ LoginAnswered(c) => P!LoggedOutBy(c, a)

EndingOK == \A c \in Conns : Ending(c)

BrokerOK == P!TypeOK /\ P!LoginOK /\ P!RepliesOK /\ P!AnsweredBefore

(* Who changes what the end of a connection consists of.                   *)
LEMMA EndSteps ==
  ASSUME P!TypeOK, ReactorTypeOK, [Next]_vars, NEW c \in Conns
  PROVE  /\ notified'[c] = notified[c] \/ Notify(c)
         /\ open'[c] = open[c] \/ CloseChannel(c)
         /\ sel = At("notify", c) => sel' = sel \/ Notify(c)
         /\ sel = At("wait", c) => sel' = sel \/ Closed(c)
<1>1. /\ DOMAIN notified = Conns /\ DOMAIN open = Conns
  BY DEF P!TypeOK, P!HandlerTypeOK, ReactorTypeOK
<1> USE DEF channelVars, selectorVars, brokerVars
<1>2. ASSUME NEW d \in Conns,
             \/ Accept(d) \/ ReadFrames(d) \/ ReadEnds(d) \/ WriteStarts(d)
      PROVE  /\ UNCHANGED <<notified, open>> /\ sel = Keys
  BY <1>2 DEF Accept, ReadFrames, ReadEnds, WriteStarts, B!Accept,
     B!handlerVars
<1>3. ASSUME NEW d \in Conns, WriteHead(d) \/ QueueEmpty(d) \/ Decide(d)
      PROVE  /\ UNCHANGED <<notified, open>>
             /\ sel = At("write", d) \/ sel = At("decide", d)
  BY <1>3 DEF WriteHead, QueueEmpty, Decide
<1>4. ASSUME NEW d \in Conns, CloseChannel(d)
      PROVE  /\ UNCHANGED notified /\ sel = At("close", d)
             /\ d # c => open'[c] = open[c]
  BY <1>1, <1>4 DEF CloseChannel
<1>5. ASSUME NEW d \in Conns, Notify(d)
      PROVE  /\ UNCHANGED open /\ sel = At("notify", d)
             /\ d # c => notified'[c] = notified[c]
  BY <1>1, <1>5 DEF Notify, B!StartClose
<1>6. ASSUME NEW d \in Conns, Closed(d)
      PROVE  UNCHANGED <<notified, open>> /\ sel = At("wait", d)
  BY <1>6 DEF Closed
<1>7. ASSUME NEW d \in Conns, Worker(d)
      PROVE  UNCHANGED <<notified, open, sel>>
  <2>1. ASSUME NEW f \in Inputs[d], Decode(d, f)
        PROVE  UNCHANGED <<notified, open, sel>>
    BY <2>1 DEF Decode, B!Receive, B!handlerVars
  <2>2. CASE Process(d)
    BY <2>2 DEF Process, B!Handle, B!Malformed, B!Disconnect, B!Subscribe,
       B!Unsubscribe, B!Send, B!Visit, B!LookUp, B!FanoutDone, B!LoginCheck,
       B!LoginCreate, B!LoginBind, B!LoginActivate, B!handlerVars
  <2>3. CASE QueueMessage(d) \/ QueueReply(d)
    BY <2>3 DEF QueueMessage, QueueReply, B!HandOver, B!Reply
  <2>4. CASE AskToWrite(d)
    BY <2>4 DEF AskToWrite
  <2> QED BY <1>7, <2>1, <2>2, <2>3, <2>4 DEF Worker
<1>8. ASSUME NEW k \in B!Calls, DisconnectStep(k)
      PROVE  UNCHANGED <<notified, open, sel>>
  BY <1>8 DEF DisconnectStep, B!DisconnectStep, B!RemoveClient, B!CheckUser,
     B!ClearUser, B!RemoveSub, B!handlerVars
<1>9. ASSUME NEW d \in Conns, PeerStalls(d) \/ PeerResumes(d) \/ PeerDies(d)
      PROVE  UNCHANGED <<notified, open, sel>>
  BY <1>9 DEF PeerStalls, PeerResumes, PeerDies, PeerMoves
<1>10. Select \/ UNCHANGED vars => UNCHANGED <<notified, open, sel>>
  BY DEF Select, vars
<1>11. ASSUME NEW d \in Conns, HandleKey(d)
       PROVE  /\ notified'[c] = notified[c] \/ Notify(c)
              /\ open'[c] = open[c] \/ CloseChannel(c)
              /\ sel = At("notify", c) => sel' = sel \/ Notify(c)
              /\ sel = At("wait", c) => sel' = sel \/ Closed(c)
  BY <1>2, <1>3, <1>4, <1>5, <1>6, <1>11 DEF HandleKey, At, Keys
<1> QED BY <1>7, <1>8, <1>9, <1>10, <1>11 DEF Next, AllQuiet
(* A connection that is over has no frame written to it, and once accepted *)
(* it stays so.                                                            *)
LEMMA OverSteps ==
  ASSUME P!TypeOK, [P!Next]_P!vars, NEW c \in Conns
  PROVE  /\ ~open[c] => out'[c] = out[c]
         /\ pc[c] # "off" => pc'[c] # "off"
<1>1. /\ pc \in [Conns -> P!PCs] /\ DOMAIN out = Conns
  BY DEF P!TypeOK, P!WorkerTypeOK, P!HandlerTypeOK
<1>2. ~open[c] => out'[c] = out[c]
  <2>1. ASSUME NEW e \in Conns, P!HandOver(e) \/ P!Reply(e), ~open[c]
        PROVE  out'[c] = out[c]
    BY <1>1, <2>1 DEF P!HandOver, P!Reply
  <2> QED BY <2>1, Assumptions, P!OutSteps
<1>3. ASSUME pc[c] # "off" PROVE pc'[c] # "off"
  <2>1. CASE pc[c] \in {"idle", "reply"}
    BY <2>1, <1>1, Assumptions, P!ReturnedStep DEF P!Receive
  <2>2. CASE pc[c] \notin {"off", "idle", "reply"}
    <3>1. ASSUME NEW e \in Conns, P!Handle(e)
          PROVE  e # c => pc'[c] = pc[c]
      <4>1. \A d \in Conns \ {e} : P!Untouched(d)
        BY <3>1, Assumptions, P!HandleMoves
      <4> QED BY <4>1 DEF P!Untouched
    <3>2. ASSUME P!Handle(c) PROVE pc'[c] # "off"
      BY <1>1, <3>2, Assumptions, P!HandleMoves
    <3>3. ASSUME NEW e \in Conns,
                 \/ P!Accept(e) \/ P!HandOver(e) \/ P!Reply(e)
                 \/ \E f \in Inputs[e] : P!Receive(e, f)
          PROVE  pc'[c] # "off"
      BY <1>1, <1>3, <3>3 DEF P!Accept, P!HandOver, P!Reply, P!Receive
    <3>4. ASSUME NEW k \in P!Calls, P!DisconnectStep(k)
          PROVE  pc' = pc
      BY <3>4, Assumptions, P!DisconnectMoves
    <3>5. ASSUME NEW e \in Conns, P!Close(e) \/ P!StartClose(e)
          PROVE  pc' = pc
      BY <3>5 DEF P!Close, P!StartClose, P!workerVars
    <3>6. P!Quiet \/ UNCHANGED P!vars => pc' = pc
      BY DEF P!Quiet, P!vars
    <3> QED
      BY <1>3, <3>1, <3>2, <3>3, <3>4, <3>5, <3>6 DEF P!Next
  <2> QED BY <1>3, <2>1, <2>2
<1> QED BY <1>2, <1>3

(* Who has an answered login after the connection is over had it before,   *)
(* and its worker is not inside loginUser.                                 *)
LEMMA AnsweredStays ==
  ASSUME BrokerOK, [P!Next]_P!vars, NEW c \in Conns, out'[c] = out[c],
         LoginAnswered(c)', pc[c] # "off"
  PROVE  /\ LoginAnswered(c)
         /\ pc[c] \notin {"off", "create", "bind", "activate"}
<1>1. PICK i \in DOMAIN out[c] :
        out[c][i].kind = "CONNECTED" /\ P!Sent(c, "CONNECT")' = {out[c][i].n}
  BY DEF LoginAnswered
<1> DEFINE n == out[c][i].n
<1>2. n \in 1 .. Len(got[c])
  BY <1>1 DEF BrokerOK, P!RepliesOK, P!Given, P!Replies
<1>3. \A k \in 1 .. Len(got[c]) :
        k \in 1 .. Len(got'[c]) /\ got'[c][k] = got[c][k]
  BY Assumptions, P!GotKept DEF BrokerOK
<1>4. P!Sent(c, "CONNECT") = {n}
  BY <1>1, <1>2, <1>3 DEF P!Sent
<1>5. LoginAnswered(c)
  BY <1>1, <1>4 DEF LoginAnswered
<1>6. pc[c] \in {"idle", "reply"} \/ n < Len(got[c])
  BY <1>1 DEF BrokerOK, P!AnsweredBefore
<1>7. ASSUME pc[c] \in {"create", "bind", "activate"} PROVE FALSE
  <2>1. n < Len(got[c]) /\ Len(got[c]) \in 1 .. Len(got[c])
    BY <1>6, <1>7, Assumptions, P!CurrentFrame DEF BrokerOK
  <2>2. got[c][Len(got[c])].cmd = "CONNECT"
    BY <1>7 DEF BrokerOK, P!TypeOK, P!PhaseOK, P!Current
  <2>3. Len(got[c]) \in P!Sent(c, "CONNECT")
    BY <2>1, <2>2 DEF P!Sent
  <2>4. Len(got[c]) = n
    BY <2>3, <1>4
  <2> QED BY <1>2, <2>1, <2>4
<1> QED BY <1>5, <1>7

LEMMA EndingStays ==
  ASSUME BrokerOK, SelectorOK, ReactorTypeOK, EndingOK, [Next]_vars
  PROVE  EndingOK'
<1> SUFFICES ASSUME NEW c \in Conns,
                    NEW a, a = disc[<<"close", c>>],
                    NEW b, b = disc'[<<"close", c>>]
             PROVE  Ending(c)'
  BY DEF EndingOK
<1>1. /\ P!TypeOK /\ P!LoginOK /\ [P!Next]_P!vars /\ Ending(c)
      /\ notified \in [Conns -> BOOLEAN] /\ open \in [Conns -> BOOLEAN]
      /\ <<"close", c>> \in P!Calls
  BY BrokerSteps
  DEF BrokerOK, EndingOK, P!TypeOK, P!HandlerTypeOK, ReactorTypeOK, P!Calls
<1>2. \/ notified'[c] = notified[c] /\ b = a
      \/ P!StartClose(c) /\ notified'[c] /\ ~notified[c] /\ b = P!Entered
      \/ /\ P!DisconnectStep(<<"close", c>>) /\ notified' = notified
         /\ a # P!Returned
  BY <1>1, Assumptions, P!CloseStep
<1>3. /\ notified'[c] = notified[c] \/ Notify(c)
      /\ open'[c] = open[c] \/ CloseChannel(c)
      /\ sel = At("notify", c) => sel' = sel \/ Notify(c)
      /\ sel = At("wait", c) => sel' = sel \/ Closed(c)
  BY <1>1, EndSteps
<1>4. Notify(c) => sel' = At("wait", c) /\ notified'[c] /\ ~open[c]
  BY <1>1 DEF Notify, B!StartClose
<1>5. CloseChannel(c) => /\ sel' = At("notify", c) /\ ~open'[c] /\ open[c]
                         /\ pc' = pc /\ pc[c] # "off"
  BY <1>1 DEF CloseChannel, brokerVars, SelectorOK, KeysOK, Live
<1>6. notified'[c] => ~open'[c]
  BY <1>1, <1>3, <1>4, <1>5 DEF Ending
<1>7. ~open'[c] => pc'[c] # "off"
  BY <1>1, <1>3, <1>5, OverSteps DEF Ending
<1>8. ~open'[c] => notified'[c] \/ sel' = At("notify", c)
  BY <1>1, <1>2, <1>3, <1>4, <1>5 DEF Ending
<1>9. sel' # At("wait", c) => b = P!Returned
  <2>1. Closed(c) => a = P!Returned
    BY SameState DEF Closed
  <2> QED BY <1>1, <1>2, <1>3, <1>4, <2>1 DEF Ending
<1>10. ASSUME notified'[c], LoginAnswered(c)' PROVE P!LoggedOutBy(c, b)'
  <2>1. CASE ~notified[c]
    <3>1. b = P!Entered
      BY <1>2, <1>10, <2>1
    <3> QED BY <3>1 DEF P!LoggedOutBy, P!Entered
  <2>2. CASE notified[c]
    <3>1. ~open[c] /\ pc[c] # "off" /\ out'[c] = out[c]
      BY <1>1, <2>2, OverSteps DEF Ending
    <3>2. /\ LoginAnswered(c)
          /\ pc[c] \notin {"off", "create", "bind", "activate"}
      BY <1>1, <1>10, <3>1, AnsweredStays
    <3>3. P!LoggedOutBy(c, a)
      BY <1>1, <2>2, <3>2 DEF Ending
    <3>4. CASE b = a
      BY <1>1, <3>2, <3>3, <3>4, Assumptions, P!LoggedOutStays
    <3>5. CASE P!DisconnectStep(<<"close", c>>)
      BY <1>1, <3>3, <3>5, Assumptions, P!DisconnectLogsOut
    <3> QED BY <1>2, <2>2, <3>4, <3>5
  <2> QED BY <2>1, <2>2
<1> QED BY <1>6, <1>7, <1>8, <1>9, <1>10 DEF Ending

(* An account does not stay online through a connection that ended, if its *)
(* login was answered before the channel closed (AnsweredLoginEnds).       *)
THEOREM AnsweredLoginsEnd == Spec => []AnsweredLoginEnds
<1>1. Init => EndingOK /\ P!AnsweredBefore /\ P!RepliesOK
  <2> SUFFICES ASSUME Init, NEW c \in Conns
               PROVE  Ending(c) /\ DOMAIN out[c] = {} /\ P!Given(c) = {}
    BY DEF EndingOK, P!AnsweredBefore, P!RepliesOK
  <2>1. /\ open[c] /\ ~notified[c] /\ out[c] = <<>> /\ answer[c] = <<>>
        /\ disc[<<"close", c>>] = P!Returned
    <3>1. <<"close", c>> \in P!Calls
      BY DEF P!Calls
    <3> QED BY <3>1, StartMaps, SameState DEF Init, P!Init
  <2>2. DOMAIN <<>> = {}
    OBVIOUS
  <2> QED BY <2>1, <2>2 DEF Ending, P!Given
<1>2. BrokerOK /\ SelectorOK /\ ReactorTypeOK /\ EndingOK /\ [Next]_vars
      => EndingOK' /\ P!AnsweredBefore' /\ P!RepliesOK'
  <2> SUFFICES ASSUME BrokerOK, SelectorOK, ReactorTypeOK, EndingOK, [Next]_vars
               PROVE  EndingOK' /\ P!AnsweredBefore' /\ P!RepliesOK'
    OBVIOUS
  <2>1. [P!Next]_P!vars
    BY BrokerSteps
  <2> QED
    BY <2>1, EndingStays, Assumptions, P!StepAnsweredBefore, P!StepReplies
    DEF BrokerOK
<1>3. BrokerOK /\ EndingOK => AnsweredLoginEnds
  <2> SUFFICES ASSUME BrokerOK, EndingOK, NEW c \in Conns, Over(c),
                      NEW i \in DOMAIN out[c], out[c][i].kind = "CONNECTED",
                      B!Sent(c, "CONNECT") = {out[c][i].n},
                      NEW u \in Usernames,
                      users[u] # NoUser, users[u].conn = c, users[u].online
               PROVE  FALSE
    BY DEF AnsweredLoginEnds
  <2>1. LoginAnswered(c)
    BY DEF LoginAnswered, P!Sent, B!Sent
  <2>2. sel # At("notify", c) /\ sel # At("wait", c) /\ ~open[c]
    BY DEF Over, At
  <2>3. P!LoggedOutBy(c, P!Returned)
    BY <2>1, <2>2 DEF EndingOK, Ending
  <2>4. NoUser \notin Usernames
    BY Assumptions DEF P!BrokerAssumption
  <2> QED BY <2>3, <2>4 DEF P!LoggedOutBy, P!Returned
<1>4. Spec => [](SelectorOK /\ P!TypeOK /\ P!LoginOK /\ ReactorTypeOK)
  BY SelectorHolds, StateHolds, PTL
<1> QED
  <2>1. SelectorOK /\ P!TypeOK /\ P!LoginOK /\ ReactorTypeOK /\ EndingOK
        /\ P!AnsweredBefore /\ P!RepliesOK /\ [Next]_vars
        => EndingOK' /\ P!AnsweredBefore' /\ P!RepliesOK'
    BY <1>2 DEF BrokerOK
  <2>2. P!TypeOK /\ P!LoginOK /\ EndingOK /\ P!AnsweredBefore /\ P!RepliesOK
        => AnsweredLoginEnds
    BY <1>3 DEF BrokerOK
  <2> QED BY <1>1, <1>4, <2>1, <2>2, PTL DEF Spec
=============================================================================
