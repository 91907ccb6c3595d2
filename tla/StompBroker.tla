---------------------------- MODULE StompBroker ----------------------------
(***************************************************************************)
(* The message broker of the server: the registry every connection shares  *)
(* (ConnectionsImpl, User) and the protocol object each connection has     *)
(* (StompMessagingProtocol).  It is the part both server patterns, thread  *)
(* per client and reactor, run unchanged.                                  *)
(*                                                                         *)
(* At most one thread at a time runs process() for a connection, so the    *)
(* worker of connection c is named c.  Workers of different connections    *)
(* interleave at every access to shared state: ConnectionsImpl is built    *)
(* from ConcurrentHashMaps, whose single operations are atomic, while its  *)
(* methods (disconnect, send to a channel) are loops of such operations    *)
(* and only loginUser is synchronized.                                     *)
(*                                                                         *)
(* The connection handler is abstract here: it hands complete frames to    *)
(* process(), accepts frames to write until it is closed, and calls        *)
(* disconnect() once after it was closed.                                  *)
(***************************************************************************)
EXTENDS Naturals, Sequences

CONSTANTS Conns,           \* connection ids
          Usernames,
          Passwords,
          Channels,        \* destinations
          SubIds,          \* subscription ids, picked by the clients
          NoUser, NoSub, NoConn,
          Inputs,          \* [Conns -> SUBSET Frame]: what each client sends
          MaxFrames,       \* bound: frames each client sends
          StopAtTerminate, \* TRUE: no frame is processed after shouldTerminate
          Disciplined      \* TRUE: the clients are this repository's client

(* A request frame.  MALFORMED stands for a frame StompMessage rejects, an *)
(* unknown command, or a frame without a header its handler requires.  The *)
(* id in a receipt header is the position of the frame in its connection,  *)
(* so a frame only says whether it has one.                                *)
Frame ==
  [cmd : {"CONNECT"}, user : Usernames, pass : Passwords, rcpt : BOOLEAN]
    \cup [cmd : {"SUBSCRIBE"}, dest : Channels, id : SubIds, rcpt : BOOLEAN]
    \cup [cmd : {"UNSUBSCRIBE"}, id : SubIds, rcpt : BOOLEAN]
    \cup [cmd : {"SEND"}, dest : Channels, rcpt : BOOLEAN]
    \cup [cmd : {"DISCONNECT", "MALFORMED"}, rcpt : BOOLEAN]

(* A frame written to a client.  A reply names the request it answers; a   *)
(* MESSAGE names the SEND it carries (connection, position) as its body.   *)
ReplyFrame == [kind : {"CONNECTED", "RECEIPT", "ERROR"}, n : Nat]
MessageFrame == [kind : {"MESSAGE"}, id : Nat, dest : Channels, sub : SubIds,
            body : Conns \X Nat]

ASSUME BrokerAssumption ==
  /\ Channels # {} /\ Usernames # {}
  /\ NoUser \notin Usernames /\ NoSub \notin SubIds /\ NoConn \notin Conns
  /\ NoUser \notin [pass : Passwords, conn : Conns, online : BOOLEAN]
  /\ Inputs \in [Conns -> SUBSET Frame]
  /\ MaxFrames \in [Conns -> Nat]
  /\ StopAtTerminate \in BOOLEAN /\ Disciplined \in BOOLEAN

VARIABLES
  clients,   \* ConnectionsImpl.clients: the ids with a handler
  subs,      \* ConnectionsImpl.channels: subscription id per channel and id
  users,     \* ConnectionsImpl.users: the accounts
  monitor,   \* who is inside the synchronized loginUser
  msgId,     \* MESSAGE_ID_COUNTER
  pc,        \* where the worker of each connection is
  got,       \* frames each connection decoded so far, the last one current
  answer,    \* what process() will return, as the frames it consists of
  todo,      \* ids the loop of send(channel) has still to visit
  ahead,     \* the entry the iterator of that loop has read ahead
  pick,      \* the entry of that loop whose handler.send is pending
  sending,   \* message-id of the frame being fanned out
  term,      \* StompMessagingProtocol.shouldTerminate
  closed,    \* the handler accepts no more frames to write
  notified,  \* disconnectedNotified: the handler called disconnect
  disc,      \* the running activations of disconnect
  out        \* frames written to each connection so far

registryVars == <<clients, subs, users, monitor, msgId>>
loopVars == <<todo, ahead, pick>>
workerVars == <<pc, got, answer, loopVars, sending, term>>
handlerVars == <<closed, notified, out>>
vars == <<clients, subs, users, monitor, msgId, pc, got, answer, todo, ahead,
          pick, sending, term, closed, notified, disc, out>>

(* disconnect(c) is called by process() and by the connection handler.     *)
Calls == {"process", "close"} \X Conns
Returned == [stage |-> "none", users |-> {}, hit |-> NoUser, chans |-> {}]
Entered == [stage |-> "clients", users |-> Usernames, hit |-> NoUser,
            chans |-> Channels]

NoPick == [to |-> NoConn, sub |-> NoSub]

Init ==
  /\ clients = {}
  /\ subs = [ch \in Channels |-> [c \in Conns |-> NoSub]]
  /\ users = [u \in Usernames |-> NoUser]
  /\ monitor = NoConn
  /\ msgId = 0
  /\ pc = [c \in Conns |-> "off"]
  /\ got = [c \in Conns |-> <<>>]
  /\ answer = [c \in Conns |-> <<>>]
  /\ todo = [c \in Conns |-> {}]
  /\ ahead = [c \in Conns |-> NoPick]
  /\ pick = [c \in Conns |-> NoPick]
  /\ sending = [c \in Conns |-> 0]
  /\ term = [c \in Conns |-> FALSE]
  /\ closed = [c \in Conns |-> FALSE]
  /\ notified = [c \in Conns |-> FALSE]
  /\ disc = [k \in Calls |-> Returned]
  /\ out = [c \in Conns |-> <<>>]

(***************************************************************************)
(* What a handler of process() leaves behind.                              *)
(***************************************************************************)
Current(c) == got[c][Len(got[c])]

Answer(kind, c) == [kind |-> kind, n |-> Len(got[c])]
Receipt(c) == IF Current(c).rcpt THEN <<Answer("RECEIPT", c)>> ELSE <<>>
Error(c) == <<Answer("ERROR", c)>>
Connected(c) == <<Answer("CONNECTED", c)>> \o Receipt(c)

(* The handler returns ans and the connection stays open.                  *)
Complete(c, ans) ==
  /\ pc' = [pc EXCEPT ![c] = "reply"]
  /\ answer' = [answer EXCEPT ![c] = ans]
  /\ UNCHANGED <<term, disc>>

(* shouldTerminate, then disconnect(connectionId), then return ans.        *)
Leave(c, ans) ==
  /\ pc' = [pc EXCEPT ![c] = "reply"]
  /\ answer' = [answer EXCEPT ![c] = ans]
  /\ term' = [term EXCEPT ![c] = TRUE]
  /\ disc' = [disc EXCEPT ![<<"process", c>>] = Entered]

(***************************************************************************)
(* A connection starts, and its worker decodes a frame.                    *)
(***************************************************************************)
Accept(c) ==
  /\ pc[c] = "off"
  /\ pc' = [pc EXCEPT ![c] = "idle"]
  /\ clients' = clients \cup {c}
  /\ UNCHANGED <<subs, users, monitor, msgId, got, answer, loopVars,
                 sending, term, handlerVars, disc>>

Sent(c, cmd) == {i \in 1 .. Len(got[c]) : got[c][i].cmd = cmd}

(* What StompClient sends: CONNECT first and once, nothing after           *)
(* DISCONNECT, a new id for every SUBSCRIBE, UNSUBSCRIBE only for an id it *)
(* holds, and a receipt header on SUBSCRIBE, UNSUBSCRIBE and DISCONNECT.   *)
Polite(c, f) ==
  /\ f.cmd # "MALFORMED"
  /\ (f.cmd = "CONNECT") <=> (got[c] = <<>>)
  /\ Sent(c, "DISCONNECT") = {}
  /\ f.cmd = "SUBSCRIBE" =>
       \A i \in Sent(c, "SUBSCRIBE") : got[c][i].id # f.id
  /\ f.cmd = "UNSUBSCRIBE" =>
       /\ \E i \in Sent(c, "SUBSCRIBE") : got[c][i].id = f.id
       /\ \A i \in Sent(c, "UNSUBSCRIBE") : got[c][i].id # f.id
  /\ f.rcpt <=> f.cmd \in {"SUBSCRIBE", "UNSUBSCRIBE", "DISCONNECT"}

Receive(c, f) ==
  /\ pc[c] = "idle"
  /\ StopAtTerminate => ~term[c]
  /\ Len(got[c]) < MaxFrames[c]
  /\ Disciplined => Polite(c, f)
  /\ pc' = [pc EXCEPT ![c] = "handle"]
  /\ got' = [got EXCEPT ![c] = Append(@, f)]
  /\ UNCHANGED <<registryVars, answer, loopVars, sending, term,
                 handlerVars, disc>>

(***************************************************************************)
(* process(): one handler per command.                                     *)
(***************************************************************************)
Handling(c, cmd) == pc[c] = "handle" /\ Current(c).cmd = cmd

Malformed(c) ==
  /\ Handling(c, "MALFORMED")
  /\ Leave(c, Error(c))
  /\ UNCHANGED <<registryVars, got, loopVars, sending, handlerVars>>

(* Fault: the registry is left to the handler's own disconnect.            *)
DisconnectLater(c) ==
  /\ Handling(c, "DISCONNECT")
  /\ pc' = [pc EXCEPT ![c] = "reply"]
  /\ answer' = [answer EXCEPT ![c] = IF Current(c).rcpt THEN Receipt(c)
                                     ELSE Error(c)]
  /\ term' = [term EXCEPT ![c] = TRUE]
  /\ UNCHANGED <<registryVars, got, loopVars, sending, handlerVars, disc>>

Disconnect(c) ==
  /\ Handling(c, "DISCONNECT")
  /\ Leave(c, IF Current(c).rcpt THEN Receipt(c) ELSE Error(c))
  /\ UNCHANGED <<registryVars, got, loopVars, sending, handlerVars>>

Subscribe(c) ==
  /\ Handling(c, "SUBSCRIBE")
  /\ LET f == Current(c)
     IN  \/ /\ subs[f.dest][c] = NoSub
            /\ subs' = [subs EXCEPT ![f.dest][c] = f.id]
            /\ Complete(c, Receipt(c))
         \/ /\ subs[f.dest][c] # NoSub
            /\ Leave(c, Error(c))
            /\ UNCHANGED subs
  /\ UNCHANGED <<clients, users, monitor, msgId, got, loopVars, sending,
                 handlerVars>>

(* Fault: the entry of an unsubscribed client stays in the channel.        *)
UnsubscribeKeeping(c) ==
  /\ Handling(c, "UNSUBSCRIBE")
  /\ \/ /\ \E ch \in Channels : subs[ch][c] = Current(c).id
        /\ Complete(c, Receipt(c))
     \/ /\ \A ch \in Channels : subs[ch][c] # Current(c).id
        /\ Leave(c, Error(c))
  /\ UNCHANGED <<clients, subs, users, monitor, msgId, got, loopVars, sending,
                 handlerVars>>

Unsubscribe(c) ==
  /\ Handling(c, "UNSUBSCRIBE")
  /\ LET held == {ch \in Channels : subs[ch][c] = Current(c).id}
     IN  \/ \E ch \in held :
              /\ subs' = [subs EXCEPT ![ch][c] = NoSub]
              /\ Complete(c, Receipt(c))
         \/ /\ held = {}
            /\ Leave(c, Error(c))
            /\ UNCHANGED subs
  /\ UNCHANGED <<clients, users, monitor, msgId, got, loopVars, sending,
                 handlerVars>>

(* Fault: the counter is a field of the protocol object, not static.       *)
SendCountingAlone(c) ==
  /\ Handling(c, "SEND")
  /\ \/ /\ subs[Current(c).dest][c] # NoSub
        /\ sending' = [sending EXCEPT ![c] = @ + 1]
        /\ todo' = [todo EXCEPT ![c] = Conns]
        /\ pc' = [pc EXCEPT ![c] = "fanout"]
        /\ UNCHANGED <<answer, term, disc>>
     \/ /\ subs[Current(c).dest][c] = NoSub
        /\ Leave(c, Error(c))
        /\ UNCHANGED <<sending, todo>>
  /\ UNCHANGED <<clients, subs, users, monitor, msgId, got, ahead, pick,
                 handlerVars>>

(* isSubscribed, the next message id, and the start of the loop over the   *)
(* subscribers of the channel.                                             *)
Send(c) ==
  /\ Handling(c, "SEND")
  /\ \/ /\ subs[Current(c).dest][c] # NoSub
        /\ msgId' = msgId + 1
        /\ sending' = [sending EXCEPT ![c] = msgId + 1]
        /\ todo' = [todo EXCEPT ![c] = Conns]
        /\ pc' = [pc EXCEPT ![c] = "fanout"]
        /\ UNCHANGED <<answer, term, disc>>
     \/ /\ subs[Current(c).dest][c] = NoSub
        /\ Leave(c, Error(c))
        /\ UNCHANGED <<msgId, sending, todo>>
  /\ UNCHANGED <<clients, subs, users, monitor, got, ahead, pick,
                 handlerVars>>

(***************************************************************************)
(* The loop of send(channel).  Its iterator is weakly consistent: it reads *)
(* each entry once, at some moment of its own, and while it yields one it  *)
(* has already read the next.  A subscriber whose handler is gone by the   *)
(* time of its turn is skipped; otherwise the handler is called with the   *)
(* frame that carries this subscriber's id.                                *)
(***************************************************************************)
Iterating(c) == pc[c] = "fanout" /\ ahead[c] = NoPick
Fanning(c) == pc[c] = "fanout" /\ pick[c] = NoPick

(* Fault: %%SUB_ID%% is replaced once, for the sender's own subscription.  *)
VisitWithSenderId(c, d) ==
  /\ Iterating(c)
  /\ d \in todo[c]
  /\ todo' = [todo EXCEPT ![c] = @ \ {d}]
  /\ LET chan == subs[Current(c).dest]
     IN  ahead' = [ahead EXCEPT ![c] = IF chan[d] = NoSub THEN NoPick
                                       ELSE [to |-> d, sub |-> chan[c]]]
  /\ UNCHANGED <<registryVars, pc, got, answer, pick, sending, term,
                 handlerVars, disc>>

(* Fault: a visited entry can be visited again.                            *)
VisitAgain(c, d) ==
  /\ Iterating(c)
  /\ d \in todo[c]
  /\ LET id == subs[Current(c).dest][d]
     IN  /\ ahead' = [ahead EXCEPT ![c] = IF id = NoSub THEN NoPick
                                          ELSE [to |-> d, sub |-> id]]
         /\ todo' = [todo EXCEPT ![c] = IF id # NoSub /\ Len(out[d]) < 4 THEN @
                                        ELSE @ \ {d}]
  /\ UNCHANGED <<registryVars, pc, got, answer, pick, sending, term,
                 handlerVars, disc>>

(* Fault: an entry without a subscription id is not skipped.               *)
VisitUnchecked(c, d) ==
  /\ Iterating(c)
  /\ d \in todo[c]
  /\ todo' = [todo EXCEPT ![c] = @ \ {d}]
  /\ ahead' = [ahead EXCEPT ![c] = [to |-> d, sub |-> subs[Current(c).dest][d]]]
  /\ UNCHANGED <<registryVars, pc, got, answer, pick, sending, term,
                 handlerVars, disc>>

Visit(c, d) ==
  /\ Iterating(c)
  /\ d \in todo[c]
  /\ todo' = [todo EXCEPT ![c] = @ \ {d}]
  /\ LET id == subs[Current(c).dest][d]
     IN  ahead' = [ahead EXCEPT ![c] = IF id = NoSub THEN NoPick
                                       ELSE [to |-> d, sub |-> id]]
  /\ UNCHANGED <<registryVars, pc, got, answer, pick, sending, term,
                 handlerVars, disc>>

(* Fault: the loop ends at the first subscriber without a handler.         *)
LookUpUntilGone(c) ==
  /\ Fanning(c)
  /\ ahead[c] # NoPick
  /\ LET gone == ahead[c].to \notin clients
     IN  /\ pick' = [pick EXCEPT ![c] = IF gone THEN NoPick ELSE ahead[c]]
         /\ todo' = [todo EXCEPT ![c] = IF gone THEN {} ELSE @]
  /\ ahead' = [ahead EXCEPT ![c] = NoPick]
  /\ UNCHANGED <<registryVars, pc, got, answer, sending, term, handlerVars,
                 disc>>

LookUp(c) ==
  /\ Fanning(c)
  /\ ahead[c] # NoPick
  /\ pick' = [pick EXCEPT ![c] = IF ahead[c].to \in clients THEN ahead[c]
                                 ELSE NoPick]
  /\ ahead' = [ahead EXCEPT ![c] = NoPick]
  /\ UNCHANGED <<registryVars, pc, got, answer, todo, sending, term,
                 handlerVars, disc>>

FrameFor(c, sub) ==
  [kind |-> "MESSAGE", id |-> sending[c], dest |-> Current(c).dest,
   sub |-> sub, body |-> <<c, Len(got[c])>>]

HandOver(c) ==
  /\ pick[c] # NoPick
  /\ LET d == pick[c].to
     IN  out' = IF closed[d] THEN out
                ELSE [out EXCEPT ![d] = Append(@, FrameFor(c, pick[c].sub))]
  /\ pick' = [pick EXCEPT ![c] = NoPick]
  /\ UNCHANGED <<registryVars, pc, got, answer, todo, ahead, sending, term,
                 closed, notified, disc>>

FanoutDone(c) ==
  /\ Fanning(c) /\ Iterating(c)
  /\ todo[c] = {}
  /\ Complete(c, Receipt(c))
  /\ UNCHANGED <<registryVars, got, loopVars, sending, handlerVars>>

(***************************************************************************)
(* loginUser.  The monitor excludes other logins, not disconnect.          *)
(***************************************************************************)
EnterLogin(c, step) ==
  /\ monitor' = c
  /\ pc' = [pc EXCEPT ![c] = step]
  /\ UNCHANGED <<answer, term, disc>>

(* Fault: loginUser without synchronized.                                  *)
LoginCheckUnsynchronized(c) ==
  /\ Handling(c, "CONNECT")
  /\ LET f == Current(c)
         account == users[f.user]
     IN  \/ account = NoUser /\ EnterLogin(c, "create")
         \/ /\ account # NoUser
            /\ account.pass = f.pass /\ ~account.online
            /\ EnterLogin(c, "bind")
         \/ /\ account # NoUser
            /\ account.pass # f.pass \/ account.online
            /\ Leave(c, Error(c))
            /\ UNCHANGED monitor
  /\ UNCHANGED <<clients, subs, users, msgId, got, loopVars, sending,
                 handlerVars>>

(* Fault: any password will do for an account that exists.                 *)
LoginCheckAnyPassword(c) ==
  /\ Handling(c, "CONNECT")
  /\ monitor = NoConn
  /\ LET account == users[Current(c).user]
     IN  \/ account = NoUser /\ EnterLogin(c, "create")
         \/ /\ account # NoUser /\ ~account.online
            /\ EnterLogin(c, "bind")
         \/ /\ account # NoUser /\ account.online
            /\ Leave(c, Error(c))
            /\ UNCHANGED monitor
  /\ UNCHANGED <<clients, subs, users, msgId, got, loopVars, sending,
                 handlerVars>>

LoginCheck(c) ==
  /\ Handling(c, "CONNECT")
  /\ monitor = NoConn
  /\ LET f == Current(c)
         account == users[f.user]
     IN  \/ account = NoUser /\ EnterLogin(c, "create")
         \/ /\ account # NoUser
            /\ account.pass = f.pass /\ ~account.online
            /\ EnterLogin(c, "bind")
         \/ /\ account # NoUser
            /\ account.pass # f.pass \/ account.online
            /\ Leave(c, Error(c))
            /\ UNCHANGED monitor
  /\ UNCHANGED <<clients, subs, users, msgId, got, loopVars, sending,
                 handlerVars>>

LoginReturns(c) == monitor' = NoConn /\ Complete(c, Connected(c))

LoginCreate(c) ==
  /\ pc[c] = "create"
  /\ LET f == Current(c)
     IN  users' = [users EXCEPT ![f.user] =
                     [pass |-> f.pass, conn |-> c, online |-> TRUE]]
  /\ LoginReturns(c)
  /\ UNCHANGED <<clients, subs, msgId, got, loopVars, sending, handlerVars>>

LoginBind(c) ==
  /\ pc[c] = "bind"
  /\ users' = [users EXCEPT ![Current(c).user].conn = c]
  /\ pc' = [pc EXCEPT ![c] = "activate"]
  /\ UNCHANGED <<clients, subs, monitor, msgId, got, answer, loopVars,
                 sending, term, handlerVars, disc>>

LoginActivate(c) ==
  /\ pc[c] = "activate"
  /\ users' = [users EXCEPT ![Current(c).user].online = TRUE]
  /\ LoginReturns(c)
  /\ UNCHANGED <<clients, subs, msgId, got, loopVars, sending, handlerVars>>

(* process() returned; its result goes to the connection's own handler.    *)
Reply(c) ==
  /\ pc[c] = "reply"
  /\ disc[<<"process", c>>] = Returned
  /\ out' = IF closed[c] THEN out ELSE [out EXCEPT ![c] = @ \o answer[c]]
  /\ pc' = [pc EXCEPT ![c] = "idle"]
  /\ answer' = [answer EXCEPT ![c] = <<>>]
  /\ UNCHANGED <<registryVars, got, loopVars, sending, term, closed,
                 notified, disc>>

(***************************************************************************)
(* disconnect(c): remove the handler; for every user test the connection   *)
(* id and then clear the flag; remove the subscription of every channel.   *)
(***************************************************************************)
RemoveClient(k) ==
  /\ disc[k].stage = "clients"
  /\ clients' = clients \ {k[2]}
  /\ disc' = [disc EXCEPT ![k].stage = "loops"]
  /\ UNCHANGED <<subs, users, monitor, msgId, workerVars, handlerVars>>

(* Fault: the user is tested again after its flag was cleared.             *)
CheckUserAgain(k, u) ==
  /\ disc[k].stage = "loops" /\ disc[k].hit = NoUser
  /\ u \in disc[k].users
  /\ LET bound == users[u] # NoUser /\ users[u].conn = k[2]
     IN  disc' = [disc EXCEPT ![k].users = IF bound THEN @ ELSE @ \ {u},
                              ![k].hit = IF bound THEN u ELSE NoUser]
  /\ UNCHANGED <<registryVars, workerVars, handlerVars>>

CheckUser(k, u) ==
  /\ disc[k].stage = "loops" /\ disc[k].hit = NoUser
  /\ u \in disc[k].users
  /\ LET bound == users[u] # NoUser /\ users[u].conn = k[2]
     IN  disc' = [disc EXCEPT ![k].users = @ \ {u},
                              ![k].hit = IF bound THEN u ELSE NoUser]
  /\ UNCHANGED <<registryVars, workerVars, handlerVars>>

ClearUser(k) ==
  /\ disc[k].hit # NoUser
  /\ users' = [users EXCEPT ![disc[k].hit].online = FALSE]
  /\ disc' = [disc EXCEPT ![k].hit = NoUser]
  /\ UNCHANGED <<clients, subs, monitor, msgId, workerVars, handlerVars>>

RemoveSub(k, ch) ==
  /\ disc[k].stage = "loops" /\ disc[k].hit = NoUser /\ disc[k].users = {}
  /\ ch \in disc[k].chans
  /\ subs' = [subs EXCEPT ![ch][k[2]] = NoSub]
  /\ LET left == disc[k].chans \ {ch}
     IN  disc' = [disc EXCEPT ![k] = IF left = {} THEN Returned
                                     ELSE [disc[k] EXCEPT !.chans = left]]
  /\ UNCHANGED <<clients, users, monitor, msgId, workerVars, handlerVars>>

(***************************************************************************)
(* The handler: it stops writing, for whatever reason, and then calls      *)
(* disconnect, once.                                                       *)
(***************************************************************************)
Close(c) ==
  /\ pc[c] # "off" /\ ~closed[c]
  /\ closed' = [closed EXCEPT ![c] = TRUE]
  /\ UNCHANGED <<registryVars, workerVars, notified, disc, out>>

StartClose(c) ==
  /\ closed[c] /\ ~notified[c]
  /\ notified' = [notified EXCEPT ![c] = TRUE]
  /\ disc' = [disc EXCEPT ![<<"close", c>>] = Entered]
  /\ UNCHANGED <<registryVars, workerVars, closed, out>>

(* Nothing is running and nothing has to: a server may stay so for ever.   *)
Quiet ==
  /\ \A c \in Conns : pc[c] \in {"off", "idle"}
  /\ \A k \in Calls : disc[k] = Returned
  /\ UNCHANGED vars

Handle(c) ==
  \/ Malformed(c) \/ Disconnect(c) \/ Subscribe(c) \/ Unsubscribe(c)
  \/ Send(c) \/ (\E d \in Conns : Visit(c, d)) \/ LookUp(c) \/ FanoutDone(c)
  \/ LoginCheck(c) \/ LoginCreate(c) \/ LoginBind(c) \/ LoginActivate(c)

DisconnectStep(k) ==
  \/ RemoveClient(k) \/ ClearUser(k)
  \/ \E u \in Usernames : CheckUser(k, u)
  \/ \E ch \in Channels : RemoveSub(k, ch)

Next ==
  \/ \E c \in Conns : Accept(c) \/ Handle(c) \/ HandOver(c) \/ Reply(c)
  \/ \E c \in Conns : Close(c) \/ StartClose(c)
  \/ \E c \in Conns : \E f \in Inputs[c] : Receive(c, f)
  \/ \E k \in Calls : DisconnectStep(k)
  \/ Quiet

Spec == Init /\ [][Next]_vars

-----------------------------------------------------------------------------
(* What every variable of the broker may hold.                             *)
Account == [pass : Passwords, conn : Conns, online : BOOLEAN]

RegistryTypeOK ==
  /\ clients \in SUBSET Conns
  /\ subs \in [Channels -> [Conns -> SubIds \cup {NoSub}]]
  /\ users \in [Usernames -> Account \cup {NoUser}]
  /\ monitor \in Conns \cup {NoConn}
  /\ msgId \in Nat

PCs == {"off", "idle", "handle", "create", "bind", "activate", "fanout",
        "reply"}

WorkerTypeOK ==
  /\ pc \in [Conns -> PCs]
  /\ got \in [Conns -> Seq(Frame)]
  /\ answer \in [Conns -> Seq(ReplyFrame)]
  /\ todo \in [Conns -> SUBSET Conns]
  /\ ahead \in [Conns -> [to : Conns, sub : SubIds] \cup {NoPick}]
  /\ pick \in [Conns -> [to : Conns, sub : SubIds] \cup {NoPick}]
  /\ sending \in [Conns -> Nat]
  /\ term \in [Conns -> BOOLEAN]

HandlerTypeOK ==
  /\ closed \in [Conns -> BOOLEAN]
  /\ notified \in [Conns -> BOOLEAN]
  /\ out \in [Conns -> Seq(ReplyFrame \cup MessageFrame)]

Activation == [stage : {"none", "clients", "loops"},
               users : SUBSET Usernames, hit : Usernames \cup {NoUser},
               chans : SUBSET Channels]

DisconnectTypeOK == disc \in [Calls -> Activation]

(* The frame a worker is busy with is the one its place in the code is for. *)
PhaseOK ==
  \A c \in Conns :
    /\ pc[c] \notin {"off", "idle"} => got[c] # <<>>
    /\ pc[c] \in {"create", "bind", "activate"} => Current(c).cmd = "CONNECT"
    /\ pc[c] = "fanout" => Current(c).cmd = "SEND"
    /\ ahead[c] # NoPick \/ pick[c] # NoPick => pc[c] = "fanout"

TypeOK ==
  /\ RegistryTypeOK /\ WorkerTypeOK /\ HandlerTypeOK /\ DisconnectTypeOK
  /\ PhaseOK

(* The reply after which the server closes the connection is i-th in out.  *)
IsFinal(c, i) ==
  \/ out[c][i].kind = "ERROR"
  \/ /\ out[c][i].kind = "RECEIPT"
     /\ got[c][out[c][i].n].cmd = "DISCONNECT"

(* The registry knows nothing of c: no handler, no subscription, and no    *)
(* account that is online through it.                                      *)
Forgotten(c) ==
  /\ c \notin clients
  /\ \A ch \in Channels : subs[ch][c] = NoSub
  /\ \A u \in Usernames :
       users[u] # NoUser /\ users[u].conn = c => ~users[u].online

(* A client that has read its ERROR or its logout receipt can log in again *)
(* at once: the registry has forgotten the connection, whatever other      *)
(* connections and the closing handler do meanwhile.  Every handler calls  *)
(* disconnect before it returns such a frame.                              *)
FinalReplyMeansForgotten ==
  StopAtTerminate =>
    \A c \in Conns : (\E i \in DOMAIN out[c] : IsFinal(c, i)) => Forgotten(c)

(* CONNECTED is only ever written to a client that gave the password the   *)
(* account has, also when two clients create the account at the same time  *)
(* with different passwords (loginUser is synchronized).                   *)
ConnectedKnowsPassword ==
  \A c \in Conns : \A i \in DOMAIN out[c] :
    out[c][i].kind = "CONNECTED" =>
      LET f == got[c][out[c][i].n]
      IN  users[f.user] # NoUser /\ users[f.user].pass = f.pass

(* An account is never lost, never changes its password, and passes from   *)
(* one connection to another only while it is offline.                     *)
AccountStep ==
  \A u \in Usernames : users[u] # NoUser =>
    /\ users'[u] # NoUser
    /\ users'[u].pass = users[u].pass
    /\ users'[u].conn # users[u].conn => ~users[u].online

AccountsChangeHandsOffline == [][AccountStep]_vars

IsMessage(d, i) == out[d][i].kind = "MESSAGE"

(* message-id is unique on the server: two MESSAGE frames have the same id *)
(* exactly when they carry the same SEND.                                  *)
MessageIdNamesSend ==
  \A c, d \in Conns : \A i \in DOMAIN out[c], j \in DOMAIN out[d] :
    IsMessage(c, i) /\ IsMessage(d, j) =>
      (out[c][i].id = out[d][j].id) <=> (out[c][i].body = out[d][j].body)

(* A subscriber gets the messages of one publisher in the order they were  *)
(* sent and none of them twice, while both join, leave and publish.        *)
PublisherOrder ==
  \A d \in Conns : \A i, j \in DOMAIN out[d] :
    /\ i < j
    /\ IsMessage(d, i) /\ IsMessage(d, j)
    /\ out[d][i].body[1] = out[d][j].body[1]
    => out[d][i].body[2] < out[d][j].body[2]

(* The subscription header of a MESSAGE is an id its receiver itself chose *)
(* for that destination (%%SUB_ID%% is replaced for every subscriber), and *)
(* the SEND it carries is addressed to that destination.                   *)
MessageIsAddressed ==
  \A d \in Conns : \A i \in DOMAIN out[d] : IsMessage(d, i) =>
    LET m == out[d][i]
    IN  /\ \E k \in Sent(d, "SUBSCRIBE") :
             got[d][k].dest = m.dest /\ got[d][k].id = m.sub
        /\ got[m.body[1]][m.body[2]].cmd = "SEND"
        /\ got[m.body[1]][m.body[2]].dest = m.dest

(* c is a live session of u: it was told so and nothing has ended it.      *)
Session(c, u) ==
  /\ \E i \in DOMAIN out[c] : out[c][i].kind = "CONNECTED"
                              /\ got[c][out[c][i].n].user = u
  /\ ~term[c] /\ ~closed[c]

(* A user has one active connection at a time.                             *)
OneSessionPerUser ==
  \A u \in Usernames : \A c, d \in Conns :
    Session(c, u) /\ Session(d, u) => c = d

(* The reply r of d is the receipt of an UNSUBSCRIBE that ended, for good,  *)
(* the subscription s of d to ch: d chose the id s for nothing but ch, and *)
(* not again afterwards.                                                   *)
Ends(d, r, s, ch) ==
  /\ r.kind = "RECEIPT"
  /\ got[d][r.n].cmd = "UNSUBSCRIBE" /\ got[d][r.n].id = s
  /\ \A l \in Sent(d, "SUBSCRIBE") :
       got[d][l].id = s => l < r.n /\ got[d][l].dest = ch

(* The MESSAGEs to d that are written after such a receipt.                *)
Strays(d) ==
  {j \in DOMAIN out[d] :
     /\ IsMessage(d, j)
     /\ \E i \in 1 .. j - 1 : Ends(d, out[d][i], out[d][j].sub, out[d][j].dest)}

(* After the receipt of an UNSUBSCRIBE a publisher's loop that had already *)
(* read the entry may still hand over its MESSAGE, but one for each        *)
(* subscription at the most: the messages that publisher sends next do not *)
(* reach the former subscriber.                                            *)
AtMostOneStray ==
  \A d \in Conns : \A i, j \in Strays(d) :
    /\ out[d][i].body[1] = out[d][j].body[1]
    /\ out[d][i].sub = out[d][j].sub
    => i = j
=============================================================================
