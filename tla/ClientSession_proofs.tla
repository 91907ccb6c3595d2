----------------------- MODULE ClientSession_proofs -----------------------
(***************************************************************************)
(* Proofs about the client program, for any channels, commands and sizes   *)
(* of files, whether or not the server may go away: what it says it joined *)
(* it has asked for, it agrees with the server on the subscriptions, and   *)
(* only a session the server broke can keep a user from logging in again.  *)
(***************************************************************************)
EXTENDS ClientSession, TLAPS, SequenceTheorems

Ids == 1 .. MaxCommands
Reports == 1 .. MaxCommands * EventsPerFile

Requests ==
  [cmd : {"CONNECT"}]
    \cup [cmd : {"SUBSCRIBE"}, dest : Channels, id : Ids, rcpt : Ids]
    \cup [cmd : {"UNSUBSCRIBE"}, id : Ids, rcpt : Ids]
    \cup [cmd : {"SEND"}, dest : Channels, body : Reports]
    \cup [cmd : {"DISCONNECT"}, rcpt : Ids]

WithReceipt == {"SUBSCRIBE", "UNSUBSCRIBE", "DISCONNECT"}

Replies ==
  {f \in [kind : {"CONNECTED", "MESSAGE", "ERROR"}, req : Requests] :
     f.kind = "MESSAGE" => f.req.cmd = "SEND"}
    \cup {f \in [kind : {"RECEIPT"}, rcpt : Ids, req : Requests] :
            f.req.cmd \in WithReceipt /\ f.rcpt = f.req.rcpt}

Actions == {NoAction} \cup [what : {"join", "exit"}, ch : Channels]
             \cup [what : {"logout"}]

TypedCommands == [cmd : {"join", "exit", "report", "logout"},
                  ch : Channels, left : 1 .. EventsPerFile]

(* What the main thread is busy with fits the place where it is.           *)
TaskOK ==
  /\ main \in {"obey", "report"} => task \in TypedCommands
  /\ main = "send" =>
       task \in Requests /\ task.cmd \in {"SUBSCRIBE", "UNSUBSCRIBE"}
  /\ main \in {"announce", "logout"} =>
       task \in Requests /\ task.cmd = "DISCONNECT"

(* The counters are no more than the commands typed can account for.       *)
CountsOK ==
  /\ nextSub \in Nat \ {0} /\ nextRcpt \in Nat \ {0} /\ reported \in Nat
  /\ typed \in 0 .. MaxCommands
  /\ nextSub <= typed + 1 /\ nextRcpt <= typed + 1
  /\ main \in {"obey", "report"} => nextSub <= typed /\ nextRcpt <= typed
  /\ CASE main = "obey" -> reported + task.left <= typed * EventsPerFile
       [] main = "report" -> reported + task.left <= typed * EventsPerFile + 1
       [] OTHER -> reported <= typed * EventsPerFile

(* A session that is on has an open connection.                            *)
PlacesOK ==
  /\ main \in {"prompt", "connect", "obey", "send", "report", "announce",
               "logout", "wait", "join", "lastjoin", "exited", "aborted"}
  /\ reader \in {"none", "loop", "recv", "handle", "error", "tail", "tail2",
                 "ended"}
  /\ connection \in {"none", "open", "closed"}
  /\ \A f \in {loggedIn, stopReader, awaiting} : f = TRUE \/ f = FALSE
  /\ loggedIn => connection = "open"

MapsOK ==
  /\ subIds \in [Channels -> Nat] /\ \A ch \in Channels : subIds[ch] < nextSub
  /\ actions \in [Ids -> Actions]
  /\ stored \in [Reports -> Nat]

FramesOK ==
  /\ toServer \in Seq(Requests) /\ toClient \in Seq(Replies)
  /\ IF reader = "handle" THEN incoming \in Replies ELSE incoming = NoFrame
  /\ server \in [open : BOOLEAN, died : BOOLEAN, subs : [Channels -> Nat]]

StateTypeOK == PlacesOK /\ MapsOK /\ FramesOK /\ TaskOK /\ CountsOK

(* A receipt that is awaited is noted under the number of its request, and *)
(* no other request has that number.                                       *)
Means(action, r) ==
  \/ action = NoAction
  \/ r.cmd = "SUBSCRIBE" /\ action = [what |-> "join", ch |-> r.dest]
  \/ r.cmd = "UNSUBSCRIBE" /\ action.what = "exit"
  \/ r.cmd = "DISCONNECT" /\ action.what = "logout"

Noted(r) == r.cmd \in WithReceipt =>
              r.rcpt < nextRcpt /\ Means(actions[r.rcpt], r)

NotesOK ==
  /\ main \in {"send", "announce", "logout"} => Noted(task)
  /\ \A i \in DOMAIN toServer : Noted(toServer[i])
  /\ \A i \in DOMAIN toClient : Noted(toClient[i].req)
  /\ reader = "handle" => Noted(incoming.req)

(* Reports travel in the order in which they were stored, and each once.   *)
IsReport(r) == r.cmd = "SEND"
Echoes(f) == f.kind = "MESSAGE"

OrderOK ==
  /\ \A i, j \in DOMAIN toServer :
       i < j /\ IsReport(toServer[i]) /\ IsReport(toServer[j]) =>
         toServer[i].body < toServer[j].body
  /\ \A i \in DOMAIN toClient, j \in DOMAIN toServer :
       Echoes(toClient[i]) /\ IsReport(toServer[j]) =>
         toClient[i].req.body < toServer[j].body
  /\ \A i, j \in DOMAIN toClient :
       i < j /\ Echoes(toClient[i]) /\ Echoes(toClient[j]) =>
         toClient[i].req.body < toClient[j].req.body
  /\ reader = "handle" /\ Echoes(incoming) =>
       /\ \A j \in DOMAIN toServer : IsReport(toServer[j]) =>
            incoming.req.body < toServer[j].body
       /\ \A j \in DOMAIN toClient : Echoes(toClient[j]) =>
            incoming.req.body < toClient[j].req.body

(* A report on its way is stored once, and again when it comes back.       *)
InFlight(b) ==
  \/ \E i \in DOMAIN toServer : IsReport(toServer[i]) /\ toServer[i].body = b
  \/ \E i \in DOMAIN toClient : Echoes(toClient[i]) /\ toClient[i].req.body = b
  \/ reader = "handle" /\ Echoes(incoming) /\ incoming.req.body = b

StoresOK ==
  /\ main = "report" => reported \in Reports /\ stored[reported] = 1
  /\ \A b \in Reports :
       /\ stored[b] <= 2
       /\ b > reported => stored[b] = 0
       /\ InFlight(b) => /\ stored[b] = 1 /\ b <= reported
                         /\ main = "report" => b < reported

(* What the client has asked the server for and the server has not seen.   *)
Asked == IF main = "send" THEN Append(toServer, task) ELSE toServer

Joins(r) == r.cmd = "SUBSCRIBE"
Leaves(r) == r.cmd = "UNSUBSCRIBE"

(* With q for the requests on their way, and what the client (mine) and    *)
(* the server (theirs) take the subscription of each channel to be:        *)
(* subscription ids are not used twice.                                    *)
FreshIds(q, mine, theirs, next) ==
  /\ \A c, d \in Channels : c # d =>
       /\ mine[c] # 0 => mine[c] # mine[d]
       /\ theirs[c] # 0 => theirs[c] # theirs[d]
  /\ \A c \in Channels : theirs[c] < next
  /\ \A i \in DOMAIN q : Joins(q[i]) =>
       /\ q[i].id < next
       /\ \A c \in Channels : theirs[c] # q[i].id
       /\ \A j \in DOMAIN q : j # i /\ Joins(q[j]) => q[j].id # q[i].id
  /\ \A i \in DOMAIN q : Leaves(q[i]) =>
       /\ q[i].id < next
       /\ \A c \in Channels : mine[c] # q[i].id

(* The end of a subscription to a channel is on its way after place k: its *)
(* UNSUBSCRIBE, or another SUBSCRIBE, which the server will refuse.        *)
Ends(q, k, c, id) ==
  \E j \in DOMAIN q : j > k /\ (\/ Leaves(q[j]) /\ q[j].id = id
                                \/ Joins(q[j]) /\ q[j].dest = c)

(* Where client and server differ, a request that settles it is coming.    *)
WillAgree(q, mine, theirs) ==
  /\ \A c \in Channels : mine[c] # 0 /\ theirs[c] # mine[c] =>
       \E i \in DOMAIN q : Joins(q[i]) /\ q[i].dest = c /\ q[i].id = mine[c]
  /\ \A c \in Channels : theirs[c] # 0 /\ theirs[c] # mine[c] =>
       Ends(q, 0, c, theirs[c])
  /\ \A i \in DOMAIN q : Joins(q[i]) /\ q[i].id # mine[q[i].dest] =>
       Ends(q, i, q[i].dest, q[i].id)

Consistent(q, mine, theirs, next) ==
  FreshIds(q, mine, theirs, next) /\ WillAgree(q, mine, theirs)

AgreeOK == connection = "open" /\ server.open =>
             Consistent(Asked, subIds, server.subs, nextSub)

(* The server broke a session.                                             *)
Hurt == server.died \/ \E line \in screen : line.said[1] = "error"

NoLogout ==
  /\ \A i \in DOMAIN toServer : toServer[i].cmd # "DISCONNECT"
  /\ \A i \in DOMAIN toClient : toClient[i].req.cmd # "DISCONNECT"
  /\ reader = "handle" => incoming.req.cmd # "DISCONNECT"

ErrorComes ==
  \/ \E i \in DOMAIN toClient : toClient[i].kind = "ERROR"
  \/ reader = "handle" /\ incoming.kind = "ERROR"

(* A session that nothing has ended yet.                                   *)
SessionOn ==
  /\ loggedIn /\ ~stopReader /\ connection = "open"
  /\ reader \in {"loop", "recv", "handle"}
  /\ server.open \/ ErrorComes
  /\ NoLogout

SessionOff == ~loggedIn /\ reader = "none"

SessionOK ==
  \/ Hurt
  \/ /\ main # "aborted"
     /\ main = "prompt" => SessionOn \/ SessionOff
     /\ main \in {"connect", "obey", "send", "report", "announce", "logout"}
          => SessionOn
     /\ main = "logout" => awaiting
     /\ main = "wait" => awaiting \/ ~loggedIn
     /\ main = "join" => ~loggedIn
     /\ reader = "tail2" => ~loggedIn
-----------------------------------------------------------------------------
(* Sequences, by their entries.                                            *)
LEMMA Longer ==
  ASSUME NEW S, NEW s \in Seq(S), NEW e \in S
  PROVE  /\ Append(s, e) \in Seq(S)
         /\ DOMAIN s = 1 .. Len(s) /\ Len(s) \in Nat
         /\ DOMAIN Append(s, e) = 1 .. Len(s) + 1
         /\ \A i \in DOMAIN s : s[i] \in S /\ Append(s, e)[i] = s[i]
         /\ Append(s, e)[Len(s) + 1] = e
BY AppendProperties, LenProperties, ElementOfSeq

LEMMA Shorter ==
  ASSUME NEW S, NEW s \in Seq(S), s # <<>>
  PROVE  /\ Tail(s) \in Seq(S)
         /\ DOMAIN s = 1 .. Len(s) /\ Len(s) \in Nat \ {0}
         /\ 1 \in DOMAIN s /\ Head(s) = s[1] /\ s[1] \in S
         /\ DOMAIN Tail(s) = 1 .. Len(s) - 1
         /\ \A i \in DOMAIN Tail(s) : i + 1 \in DOMAIN s /\ Tail(s)[i] = s[i + 1]
<1>1. Len(s) \in Nat \ {0} /\ DOMAIN s = 1 .. Len(s)
  BY EmptySeq, LenProperties
<1>2. Head(s) = s[1]
  OBVIOUS
<1> QED BY <1>1, <1>2, HeadTailProperties, LenProperties, ElementOfSeq

LEMMA Entries ==
  ASSUME NEW S, NEW s \in Seq(S)
  PROVE  /\ DOMAIN s = 1 .. Len(s) /\ Len(s) \in Nat
         /\ \A i \in DOMAIN s : s[i] \in S
BY LenProperties, ElementOfSeq

LEMMA NoEntries == DOMAIN <<>> = {}
OBVIOUS

(* The reports that the commands typed so far can make.                    *)
LEMMA Room ==
  ASSUME NEW n \in Nat, n <= MaxCommands
  PROVE  /\ n * EventsPerFile \in Nat
         /\ (n + 1) * EventsPerFile = n * EventsPerFile + EventsPerFile
         /\ n * EventsPerFile <= MaxCommands * EventsPerFile
<1>1. n \in Int /\ EventsPerFile \in Nat /\ MaxCommands \in Nat
  BY ClientAssumption
<1>2. n * EventsPerFile \in Nat
  BY <1>1
<1>3. (n + 1) * EventsPerFile = n * EventsPerFile + EventsPerFile
  BY <1>1
<1>4. n * EventsPerFile <= MaxCommands * EventsPerFile
  BY <1>1
<1> QED BY <1>2, <1>3, <1>4

-----------------------------------------------------------------------------
(* What a step does to the frames in flight.                               *)
LEMMA Passed ==
  ASSUME FramesOK, NEW r \in Requests, Delivered(r) \/ NotDelivered
  PROVE  /\ toClient' = toClient /\ server' = server
         /\ toServer' = toServer \/ toServer' = Append(toServer, r)
         /\ connection = "open" /\ server.open => toServer' = Append(toServer, r)
BY DEF Delivered, NotDelivered, network, FramesOK

(* How the server may take a request.                                      *)
Taken(r) ==
  \/ server'.open /\ r.cmd \in {"CONNECT", "SEND"} /\ server'.subs = server.subs
  \/ /\ server'.open /\ Joins(r) /\ server.subs[r.dest] = 0
     /\ server'.subs = [server.subs EXCEPT ![r.dest] = r.id]
  \/ /\ server'.open /\ Leaves(r)
     /\ \E ch \in Channels :
          /\ server.subs[ch] = r.id
          /\ server'.subs = [server.subs EXCEPT ![ch] = 0]

LEMMA Served ==
  ASSUME FramesOK, ServerStep
  PROVE  /\ server.open /\ toServer # <<>> /\ toServer' = Tail(toServer)
         /\ toServer[1] \in Requests
         /\ server' \in [open : BOOLEAN, died : BOOLEAN,
                         subs : [Channels -> Nat]]
         /\ server'.died = server.died
         /\ \E f \in Replies :
              /\ toClient' = Append(toClient, f) /\ f.req = toServer[1]
              /\ \/ f.kind = "ERROR" /\ ~server'.open
                 \/ toServer[1].cmd = "DISCONNECT" /\ ~server'.open
                 \/ Taken(toServer[1])
<1> DEFINE r == toServer[1]
<1>1. server.open /\ toServer # <<>> /\ toServer' = Tail(toServer)
  BY DEF ServerStep
<1>2. r \in Requests /\ r = Head(toServer) /\ Serve(r)
  BY <1>1, Shorter DEF FramesOK, ServerStep
<1>3. ASSUME NEW f, NEW subs \in [Channels -> Nat], NEW o \in BOOLEAN,
             Answers(<<f>>, subs, o), f \in Replies, f.req = r,
             \/ f.kind = "ERROR" /\ ~o
             \/ r.cmd = "DISCONNECT" /\ ~o
             \/ o /\ r.cmd \in {"CONNECT", "SEND"} /\ subs = server.subs
             \/ /\ o /\ Joins(r) /\ server.subs[r.dest] = 0
                /\ subs = [server.subs EXCEPT ![r.dest] = r.id]
             \/ /\ o /\ Leaves(r)
                /\ \E ch \in Channels :
                     /\ server.subs[ch] = r.id
                     /\ subs = [server.subs EXCEPT ![ch] = 0]
      PROVE  /\ server' \in [open : BOOLEAN, died : BOOLEAN,
                             subs : [Channels -> Nat]]
             /\ server'.died = server.died
             /\ \E g \in Replies :
                  /\ toClient' = Append(toClient, g) /\ g.req = r
                  /\ \/ g.kind = "ERROR" /\ ~server'.open
                     \/ r.cmd = "DISCONNECT" /\ ~server'.open
                     \/ Taken(r)
  <2>1. toClient' = Append(toClient, f)
    BY <1>3, AppendIsConcat DEF Answers, FramesOK
  <2>2. /\ server' \in [open : BOOLEAN, died : BOOLEAN,
                        subs : [Channels -> Nat]]
        /\ server'.died = server.died /\ server'.open = o
        /\ server'.subs = subs
    BY <1>3 DEF Answers, FramesOK
  <2> QED BY <1>3, <2>1, <2>2 DEF Taken
<1>4. server.subs \in [Channels -> Nat]
  BY DEF FramesOK
<1>5. ASSUME NEW k \in {"CONNECTED", "ERROR"}
      PROVE  /\ [kind |-> k, req |-> r] \in Replies
             /\ [kind |-> k, req |-> r].req = r
             /\ [kind |-> k, req |-> r].kind = k
  BY <1>2 DEF Replies
<1>6. ASSUME Refuses(r)
      PROVE  Answers(<<[kind |-> "ERROR", req |-> r]>>, server.subs, FALSE)
  BY <1>6 DEF Refuses
<1>7. ASSUME r.cmd \in WithReceipt
      PROVE  /\ [kind |-> "RECEIPT", rcpt |-> r.rcpt, req |-> r] \in Replies
             /\ [kind |-> "RECEIPT", rcpt |-> r.rcpt, req |-> r].req = r
  BY <1>2, <1>7 DEF Replies, WithReceipt, Requests
<1>8. CASE Refuses(r)
  BY <1>1, <1>2, <1>3, <1>4, <1>5, <1>6, <1>8
<1>9. CASE r.cmd = "CONNECT" /\ ~Refuses(r)
  <2>1. Answers(<<[kind |-> "CONNECTED", req |-> r]>>, server.subs, TRUE)
    BY <1>2, <1>9 DEF Serve
  <2> QED BY <1>1, <1>2, <1>3, <1>4, <1>5, <1>9, <2>1
<1>10. CASE r.cmd = "SUBSCRIBE" /\ ~Refuses(r)
  <2>1. /\ server.subs[r.dest] = 0
        /\ Answers(Receipt(r), [server.subs EXCEPT ![r.dest] = r.id], TRUE)
    BY <1>2, <1>10 DEF Serve
  <2>2. r.dest \in Channels /\ r.id \in Nat
    BY <1>2, <1>10 DEF Requests, Ids
  <2>3. [server.subs EXCEPT ![r.dest] = r.id] \in [Channels -> Nat]
    BY <1>4, <2>2
  <2> QED
    BY <1>1, <1>2, <1>3, <1>7, <1>10, <2>1, <2>3 DEF Receipt, WithReceipt, Joins
<1>11. CASE r.cmd = "UNSUBSCRIBE" /\ ~Refuses(r)
  <2>1. PICK ch \in Channels :
          /\ server.subs[ch] = r.id
          /\ Answers(Receipt(r), [server.subs EXCEPT ![ch] = 0], TRUE)
    BY <1>2, <1>11 DEF Serve
  <2>2. [server.subs EXCEPT ![ch] = 0] \in [Channels -> Nat]
    BY <1>4
  <2> QED
    BY <1>1, <1>2, <1>3, <1>7, <1>11, <2>1, <2>2 DEF Receipt, WithReceipt, Leaves
<1>12. CASE r.cmd = "SEND" /\ ~Refuses(r)
  <2>1. Answers(<<[kind |-> "MESSAGE", req |-> r]>>, server.subs, TRUE)
    BY <1>2, <1>12 DEF Serve
  <2>2. [kind |-> "MESSAGE", req |-> r] \in Replies
    BY <1>2, <1>12 DEF Replies
  <2> QED BY <1>1, <1>2, <1>3, <1>4, <1>12, <2>1, <2>2
<1>13. CASE r.cmd = "DISCONNECT" /\ ~Refuses(r)
  <2>1. Answers(Receipt(r), [ch \in Channels |-> 0], FALSE)
    BY <1>2, <1>13 DEF Serve
  <2> QED BY <1>1, <1>2, <1>3, <1>7, <1>13, <2>1 DEF Receipt, WithReceipt
<1> QED BY <1>2, <1>8, <1>9, <1>10, <1>11, <1>12, <1>13 DEF Serve
-----------------------------------------------------------------------------
(* Every step keeps the types.                                             *)
LEMMA PlacesStay ==
  ASSUME StateTypeOK, [Next]_vars
  PROVE  PlacesOK'
<1> USE DEF StateTypeOK, PlacesOK, vars, flags, Typed
<1>1. CASE LoginStarts \/ LoginCannotConnect \/ EndOfInput \/ LoginSends
  BY <1>1 DEF LoginStarts, LoginCannotConnect, EndOfInput, LoginSends
<1>2. ASSUME NEW c, NEW ch, Accepts(c, ch) PROVE PlacesOK'
  BY <1>2 DEF Accepts
<1>3. CASE Join \/ Exit \/ SendTask \/ ReportStores \/ ReportSends
  BY <1>3 DEF Join, Exit, SendTask, ReportStores, ReportSends
<1>4. CASE LogoutNotes \/ LogoutAnnounces \/ LogoutSends \/ LogoutEnds
             \/ LogoutTimesOut \/ JoinReader
  BY <1>4 DEF LogoutNotes, LogoutAnnounces, LogoutSends, LogoutEnds,
              LogoutTimesOut, JoinReader
<1>5. CASE ReaderStep
  BY <1>5 DEF ReaderStep, ReaderLoops, ReaderGets, ReaderFails,
              HandleConnected, HandleReceipt, HandleMessage, HandleError,
              ErrorEndsSession, ReaderTail, ReaderEnds
<1>6. CASE ServerStep \/ ServerDies \/ UNCHANGED vars
  BY <1>6 DEF ServerStep, ServerDies
<1> QED BY <1>1, <1>2, <1>3, <1>4, <1>5, <1>6 DEF Next, MainStep

LEMMA TaskStays ==
  ASSUME StateTypeOK, [Next]_vars
  PROVE  TaskOK'
<1> USE DEF StateTypeOK, TaskOK, vars, flags, maps, Typed, Obeying
<1>1. CASE LoginStarts \/ LoginCannotConnect \/ EndOfInput \/ LoginSends
  BY <1>1 DEF LoginStarts, LoginCannotConnect, EndOfInput, LoginSends
<1>2. ASSUME NEW c \in {"join", "exit", "report", "logout"},
             NEW ch \in Channels, Accepts(c, ch)
      PROVE  TaskOK'
  BY <1>2, ClientAssumption DEF Accepts, TypedCommands
<1>3. CASE Join
  <2>1. /\ main' = "send" /\ task.ch \in Channels
        /\ nextSub \in Ids /\ nextRcpt \in Ids
    BY <1>3, ClientAssumption DEF Join, TypedCommands, CountsOK, Ids
  <2> QED BY <1>3, <2>1 DEF Join, Requests
<1>4. CASE Exit
  <2>1. task.ch \in Channels /\ nextRcpt \in Ids /\ nextSub - 1 <= MaxCommands
    BY <1>4, ClientAssumption DEF Exit, TypedCommands, CountsOK, Ids
  <2>2. subIds[task.ch] # 0 => subIds[task.ch] \in Ids
    BY <2>1, ClientAssumption DEF MapsOK, CountsOK, Ids
  <2> QED BY <1>4, <2>1, <2>2 DEF Exit, Requests
<1>5. CASE SendTask \/ ReportStores \/ JoinReader
  BY <1>5 DEF SendTask, ReportStores, JoinReader
<1>6. CASE ReportSends
  BY <1>6, ClientAssumption DEF ReportSends, TypedCommands
<1>7. CASE LogoutNotes
  <2>1. main' = "announce" /\ nextRcpt \in Ids
    BY <1>7, ClientAssumption DEF LogoutNotes, CountsOK, Ids
  <2> QED BY <1>7, <2>1 DEF LogoutNotes, Requests
<1>8. CASE LogoutAnnounces \/ LogoutSends \/ LogoutEnds \/ LogoutTimesOut
  BY <1>8 DEF LogoutAnnounces, LogoutSends, LogoutEnds, LogoutTimesOut
<1>9. CASE ReaderStep
  BY <1>9 DEF ReaderStep, ReaderLoops, ReaderGets, ReaderFails,
              HandleConnected, HandleReceipt, HandleMessage, HandleError,
              ErrorEndsSession, ReaderTail, ReaderEnds
<1>10. CASE ServerStep \/ ServerDies \/ UNCHANGED vars
  BY <1>10 DEF ServerStep, ServerDies
<1> QED
  BY <1>1, <1>2, <1>3, <1>4, <1>5, <1>6, <1>7, <1>8, <1>9, <1>10
  DEF Next, MainStep

LEMMA CountsStay ==
  ASSUME StateTypeOK, [Next]_vars
  PROVE  CountsOK'
<1> USE DEF StateTypeOK, CountsOK, vars, flags, maps, Typed, Obeying
<1> DEFINE room == typed * EventsPerFile
<1>1. room \in Nat /\ EventsPerFile \in Nat \ {0} /\ MaxCommands \in Nat
  BY Room, ClientAssumption
<1>2. typed' = typed + 1 => typed' * EventsPerFile = room + EventsPerFile
  BY Room
<1>3. typed' = typed => typed' * EventsPerFile = room
  OBVIOUS
<1>4. main \in {"obey", "report"} => task.left \in 1 .. EventsPerFile
  BY DEF TaskOK, TypedCommands
<1> HIDE DEF room
<1>5. CASE LoginStarts \/ LoginCannotConnect \/ EndOfInput
  <2>1. main = "prompt" /\ typed < MaxCommands /\ typed' = typed + 1
        /\ main' \notin {"obey", "report"}
        /\ nextSub' = nextSub /\ nextRcpt' = nextRcpt /\ reported' = reported
    BY <1>5 DEF LoginStarts, LoginCannotConnect, EndOfInput
  <2> QED BY <1>1, <1>2, <2>1 DEF room
<1>6. ASSUME NEW c, NEW ch, Accepts(c, ch) PROVE CountsOK'
  <2>1. main = "prompt" /\ typed < MaxCommands /\ typed' = typed + 1
        /\ main' = "obey" /\ task'.left = EventsPerFile
        /\ nextSub' = nextSub /\ nextRcpt' = nextRcpt /\ reported' = reported
    BY <1>6 DEF Accepts
  <2> QED BY <1>1, <1>2, <2>1 DEF room
<1>7. CASE Join \/ Exit \/ LogoutNotes
  <2>1. main = "obey" /\ main' \in {"prompt", "send", "announce"}
        /\ typed' = typed /\ reported' = reported
        /\ nextSub' \in {nextSub, nextSub + 1}
        /\ nextRcpt' \in {nextRcpt, nextRcpt + 1}
    BY <1>7 DEF Join, Exit, LogoutNotes
  <2> QED BY <1>1, <1>3, <1>4, <2>1 DEF room
<1>8. CASE ReportStores
  <2>1. main = "obey" /\ main' = "report" /\ typed' = typed /\ task' = task
        /\ reported' = reported + 1
        /\ nextSub' = nextSub /\ nextRcpt' = nextRcpt
    BY <1>8 DEF ReportStores
  <2> QED BY <1>1, <1>3, <1>4, <2>1 DEF room
<1>9. CASE ReportSends
  <2>1. /\ main = "report" /\ typed' = typed /\ reported' = reported
        /\ nextSub' = nextSub /\ nextRcpt' = nextRcpt
        /\ \/ main' = "obey" /\ task'.left = task.left - 1
           \/ main' = "prompt" /\ task.left = 1
    BY <1>9 DEF ReportSends, TaskOK, TypedCommands
  <2> QED BY <1>1, <1>3, <1>4, <2>1 DEF room
<1>10. ASSUME main' \notin {"obey", "report"}, main \notin {"obey", "report"},
              UNCHANGED <<typed, reported, nextSub, nextRcpt>>
       PROVE  CountsOK'
  BY <1>10
<1>11. CASE LoginSends \/ SendTask \/ LogoutAnnounces \/ LogoutSends
              \/ LogoutEnds \/ LogoutTimesOut \/ JoinReader
  BY <1>10, <1>11 DEF LoginSends, SendTask, LogoutAnnounces, LogoutSends,
                      LogoutEnds, LogoutTimesOut, JoinReader
<1>12. ASSUME UNCHANGED <<main, task, typed, reported, nextSub, nextRcpt>>
       PROVE  CountsOK'
  BY <1>12
<1>13. CASE ReaderStep
  BY <1>12, <1>13
  DEF ReaderStep, ReaderLoops, ReaderGets, ReaderFails, HandleConnected,
      HandleReceipt, HandleMessage, HandleError, ErrorEndsSession, ReaderTail,
      ReaderEnds
<1>14. CASE ServerStep \/ ServerDies \/ UNCHANGED vars
  BY <1>12, <1>14 DEF ServerStep, ServerDies
<1> QED
  BY <1>5, <1>6, <1>7, <1>8, <1>9, <1>11, <1>13, <1>14 DEF Next, MainStep
LEMMA MapsStay ==
  ASSUME StateTypeOK, [Next]_vars
  PROVE  MapsOK'
<1> USE DEF StateTypeOK, vars, flags, maps, Typed, Obeying
<1>1. CASE UNCHANGED <<subIds, nextSub, actions, stored>>
  BY <1>1 DEF MapsOK
<1>2. CASE LoginStarts
  <2>1. \A ch \in Channels : 0 < nextSub
    BY DEF CountsOK
  <2>2. actions' \in [Ids -> Actions] /\ subIds' \in [Channels -> Nat]
    BY <1>2 DEF LoginStarts, MapsOK, Actions
  <2> QED BY <1>2, <2>1, <2>2 DEF LoginStarts, MapsOK
<1>3. CASE Join
  <2>1. /\ task.ch \in Channels /\ nextSub \in Nat /\ nextSub' = nextSub + 1
        /\ [what |-> "join", ch |-> task.ch] \in Actions
    BY <1>3 DEF Join, TaskOK, TypedCommands, CountsOK, Actions
  <2>2. subIds' \in [Channels -> Nat] /\ stored' = stored
    BY <1>3, <2>1 DEF Join, MapsOK
  <2>3. actions' \in [Ids -> Actions]
    BY <1>3, <2>1 DEF Join, MapsOK
  <2>4. \A ch \in Channels : subIds'[ch] < nextSub'
    BY <1>3, <2>1 DEF Join, MapsOK
  <2> QED BY <2>2, <2>3, <2>4 DEF MapsOK
<1>4. CASE Exit
  <2>1. /\ task.ch \in Channels /\ nextSub' = nextSub /\ 0 < nextSub
        /\ [what |-> "exit", ch |-> task.ch] \in Actions
    BY <1>4 DEF Exit, TaskOK, TypedCommands, CountsOK, Actions
  <2> QED BY <1>4, <2>1 DEF Exit, MapsOK, CountsOK
<1>5. CASE ReportStores
  <2>1. \A b \in Reports : stored[b] + 1 \in Nat
    BY DEF MapsOK
  <2>2. stored' \in [Reports -> Nat]
    BY <1>5, <2>1 DEF ReportStores, MapsOK
  <2> QED BY <1>5, <2>2 DEF ReportStores, MapsOK
<1>6. CASE LogoutNotes
  <2>1. [what |-> "logout"] \in Actions
    BY DEF Actions
  <2> QED BY <1>6, <2>1 DEF LogoutNotes, MapsOK
<1>7. CASE HandleReceipt
  <2>1. NoAction \in Actions
    BY DEF Actions
  <2> QED BY <1>7, <2>1 DEF HandleReceipt, MapsOK
<1>8. CASE HandleMessage
  <2>1. \A b \in Reports : stored[b] + 1 \in Nat
    BY DEF MapsOK
  <2>2. stored' \in [Reports -> Nat]
    BY <1>8, <2>1 DEF HandleMessage, MapsOK
  <2> QED BY <1>8, <2>2 DEF HandleMessage, MapsOK
<1>9. CASE LoginCannotConnect \/ EndOfInput \/ LoginSends \/ SendTask
             \/ ReportSends \/ LogoutAnnounces \/ LogoutSends \/ LogoutEnds
             \/ LogoutTimesOut \/ JoinReader
  BY <1>1, <1>9 DEF LoginCannotConnect, EndOfInput, LoginSends, SendTask,
                    ReportSends, LogoutAnnounces, LogoutSends, LogoutEnds,
                    LogoutTimesOut, JoinReader
<1>10. ASSUME NEW c, NEW ch, Accepts(c, ch) PROVE MapsOK'
  BY <1>1, <1>10 DEF Accepts
<1>11. CASE ReaderLoops \/ ReaderGets \/ ReaderFails \/ HandleConnected
              \/ HandleError \/ ErrorEndsSession \/ ReaderTail \/ ReaderEnds
  BY <1>1, <1>11 DEF ReaderLoops, ReaderGets, ReaderFails, HandleConnected,
                     HandleError, ErrorEndsSession, ReaderTail, ReaderEnds
<1>12. CASE ServerStep \/ ServerDies \/ UNCHANGED vars
  BY <1>1, <1>12 DEF ServerStep, ServerDies
<1> QED
  BY <1>2, <1>3, <1>4, <1>5, <1>6, <1>7, <1>8, <1>9, <1>10, <1>11, <1>12
  DEF Next, MainStep, ReaderStep

(* The requests that the main thread sends.                                *)
Sends(r) ==
  \/ LoginSends /\ r = [cmd |-> "CONNECT"]
  \/ SendTask /\ r = task
  \/ ReportSends /\ r = [cmd |-> "SEND", dest |-> task.ch, body |-> reported]
  \/ LogoutSends /\ r = task

LEMMA Sent ==
  ASSUME StateTypeOK, LoginSends \/ SendTask \/ ReportSends \/ LogoutSends,
         main = "report" => reported \in Reports
  PROVE  \E r \in Requests : Sends(r) /\ (Delivered(r) \/ NotDelivered)
<1>1. CASE LoginSends
  <2>1. [cmd |-> "CONNECT"] \in Requests
    BY DEF Requests
  <2> QED BY <1>1, <2>1 DEF LoginSends, Sends
<1>2. CASE SendTask
  BY <1>2 DEF SendTask, Sends, StateTypeOK, TaskOK
<1>3. CASE ReportSends
  <2>1. [cmd |-> "SEND", dest |-> task.ch, body |-> reported] \in Requests
    BY <1>3 DEF ReportSends, StateTypeOK, TaskOK, TypedCommands, Requests
  <2> QED BY <1>3, <2>1 DEF ReportSends, Sends
<1>4. CASE LogoutSends
  BY <1>4 DEF LogoutSends, Sends, StateTypeOK, TaskOK
<1> QED BY <1>1, <1>2, <1>3, <1>4

(* The steps that leave the frames in flight alone.                        *)
NetworkIdle ==
  /\ UNCHANGED <<toServer, toClient>>
  /\ server' = server \/ server' = [server EXCEPT !.open = FALSE, !.died = TRUE]

LEMMA Traffic ==
  ASSUME StateTypeOK, [Next]_vars
  PROVE  \/ NetworkIdle /\ (server' # server => ServerDies)
         \/ LoginStarts \/ ReaderGets \/ ServerStep
         \/ LoginSends \/ SendTask \/ ReportSends \/ LogoutSends
<1> USE DEF NetworkIdle, network, vars
<1>1. CASE LoginCannotConnect \/ EndOfInput \/ Join \/ Exit
             \/ ReportStores \/ LogoutNotes \/ LogoutAnnounces \/ LogoutEnds
             \/ LogoutTimesOut \/ JoinReader
  BY <1>1 DEF LoginCannotConnect, EndOfInput, Join, Exit, ReportStores,
              LogoutNotes, LogoutAnnounces, LogoutEnds, LogoutTimesOut,
              JoinReader
<1>2. ASSUME NEW c, NEW ch, Accepts(c, ch) PROVE NetworkIdle /\ server' = server
  BY <1>2 DEF Accepts
<1>3. CASE ReaderLoops \/ ReaderFails \/ HandleConnected \/ HandleReceipt
             \/ HandleMessage \/ HandleError \/ ErrorEndsSession \/ ReaderTail
             \/ ReaderEnds
  BY <1>3 DEF ReaderLoops, ReaderFails, HandleConnected, HandleReceipt,
              HandleMessage, HandleError, ErrorEndsSession, ReaderTail,
              ReaderEnds
<1>4. CASE ServerDies \/ UNCHANGED vars
  BY <1>4 DEF ServerDies
<1> QED BY <1>1, <1>2, <1>3, <1>4 DEF Next, MainStep, ReaderStep

(* Who reads a frame, and when it is done with.                            *)
LEMMA Reading ==
  ASSUME PlacesOK, FramesOK, [Next]_vars
  PROVE  \/ incoming' = incoming /\ (reader' = "handle" <=> reader = "handle")
         \/ ReaderGets
         \/ /\ HandleConnected \/ HandleReceipt \/ HandleMessage \/ HandleError
            /\ reader = "handle" /\ reader' # "handle" /\ incoming' = NoFrame
<1> USE DEF vars, Typed, Handling
<1>1. CASE LoginStarts \/ LoginCannotConnect \/ EndOfInput \/ MainStep
  BY <1>1 DEF LoginStarts, LoginCannotConnect, EndOfInput, MainStep,
      LoginSends, Join, Exit, SendTask, ReportStores, ReportSends, LogoutNotes,
      LogoutAnnounces, LogoutSends, LogoutEnds, LogoutTimesOut, JoinReader
<1>2. ASSUME NEW c, NEW ch, Accepts(c, ch)
      PROVE  incoming' = incoming /\ reader' = reader
  BY <1>2 DEF Accepts
<1>3. CASE ReaderStep
  BY <1>3 DEF ReaderStep, ReaderLoops, ReaderFails, HandleConnected,
      HandleReceipt, HandleMessage, HandleError, ErrorEndsSession, ReaderTail,
      ReaderEnds
<1>4. CASE ServerStep \/ ServerDies \/ UNCHANGED vars
  BY <1>4 DEF ServerStep, ServerDies
<1> QED BY <1>1, <1>2, <1>3, <1>4 DEF Next

LEMMA FramesStay ==
  ASSUME StateTypeOK, [Next]_vars, main = "report" => reported \in Reports
  PROVE  FramesOK'
<1>1. FramesOK /\ PlacesOK
  BY DEF StateTypeOK
<1>2. CASE ReaderGets
  <2>1. toClient # <<>> /\ incoming' = Head(toClient) /\ reader' = "handle"
        /\ toClient' = Tail(toClient) /\ UNCHANGED <<toServer, server>>
    BY <1>2 DEF ReaderGets
  <2> QED BY <1>1, <2>1, Shorter DEF FramesOK
<1>3. ASSUME ~ReaderGets
      PROVE  IF reader' = "handle" THEN incoming' \in Replies
                                   ELSE incoming' = NoFrame
  BY <1>1, <1>3, Reading DEF FramesOK
<1>4. CASE NetworkIdle /\ ~ReaderGets
  BY <1>1, <1>3, <1>4 DEF NetworkIdle, FramesOK
<1>5. CASE LoginStarts
  <2>1. ~ReaderGets
    BY <1>5 DEF LoginStarts, ReaderGets, Typed
  <2>2. toServer' = <<>> /\ toClient' = <<>>
        /\ server' = [NewServer EXCEPT !.died = server.died]
    BY <1>5 DEF LoginStarts
  <2>3. server' \in [open : BOOLEAN, died : BOOLEAN, subs : [Channels -> Nat]]
    BY <1>1, <2>2 DEF NewServer, FramesOK
  <2> QED BY <1>3, <2>1, <2>2, <2>3, EmptySeq DEF FramesOK
<1>6. CASE ServerStep
  <2>1. ~ReaderGets
    BY <1>1, <1>6, Shorter DEF ServerStep, ReaderGets, FramesOK
  <2>2. /\ toServer # <<>> /\ toServer' = Tail(toServer)
        /\ server' \in [open : BOOLEAN, died : BOOLEAN,
                        subs : [Channels -> Nat]]
        /\ \E f \in Replies : toClient' = Append(toClient, f)
    BY <1>1, <1>6, Served
  <2>3. toServer' \in Seq(Requests) /\ toClient' \in Seq(Replies)
    BY <1>1, <2>2, Shorter, Longer DEF FramesOK
  <2> QED BY <1>3, <2>1, <2>2, <2>3 DEF FramesOK
<1>7. CASE LoginSends \/ SendTask \/ ReportSends \/ LogoutSends
  <2>1. ~ReaderGets
    BY <1>7 DEF LoginSends, SendTask, ReportSends, LogoutSends, ReaderGets
  <2>2. PICK r \in Requests : Sends(r) /\ (Delivered(r) \/ NotDelivered)
    BY <1>7, Sent
  <2>3. toClient' = toClient /\ server' = server
        /\ (toServer' = toServer \/ toServer' = Append(toServer, r))
    BY <1>1, <2>2, Passed
  <2>4. toServer' \in Seq(Requests)
    <3>1. toServer \in Seq(Requests)
      BY <1>1 DEF FramesOK
    <3>2. Append(toServer, r) \in Seq(Requests)
      BY <3>1, AppendProperties
    <3> QED BY <2>3, <3>1, <3>2
  <2> QED BY <1>1, <1>3, <2>1, <2>3, <2>4 DEF FramesOK
<1> QED BY <1>2, <1>4, <1>5, <1>6, <1>7, Traffic
LEMMA StateTypeStays ==
  ASSUME StateTypeOK, [Next]_vars, main = "report" => reported \in Reports
  PROVE  StateTypeOK'
BY PlacesStay, TaskStays, CountsStay, MapsStay, FramesStay DEF StateTypeOK

(* Every frame in flight was there before, or has just been sent.          *)
LEMMA Flow ==
  ASSUME StateTypeOK, [Next]_vars, main = "report" => reported \in Reports
  PROVE  /\ \A i \in DOMAIN toServer' :
              \/ \E j \in DOMAIN toServer : toServer'[i] = toServer[j]
              \/ toServer'[i] \in Requests /\ Sends(toServer'[i])
         /\ \A i \in DOMAIN toClient' :
              \/ \E j \in DOMAIN toClient : toClient'[i] = toClient[j]
              \/ /\ ServerStep /\ 1 \in DOMAIN toServer
                 /\ toClient'[i].req = toServer[1]
         /\ reader' = "handle" =>
              \/ reader = "handle" /\ incoming' = incoming
              \/ \E j \in DOMAIN toClient : incoming' = toClient[j]
<1> DEFINE S == \A i \in DOMAIN toServer' :
                  \/ \E j \in DOMAIN toServer : toServer'[i] = toServer[j]
                  \/ toServer'[i] \in Requests /\ Sends(toServer'[i])
           C == \A i \in DOMAIN toClient' :
                  \/ \E j \in DOMAIN toClient : toClient'[i] = toClient[j]
                  \/ /\ ServerStep /\ 1 \in DOMAIN toServer
                     /\ toClient'[i].req = toServer[1]
<1>1. FramesOK /\ PlacesOK /\ toServer \in Seq(Requests)
      /\ toClient \in Seq(Replies)
  BY DEF StateTypeOK, FramesOK
<1>0. ASSUME reader' = "handle"
      PROVE  \/ reader = "handle" /\ incoming' = incoming
             \/ \E j \in DOMAIN toClient : incoming' = toClient[j]
  <2>1. CASE ReaderGets
    <3>1. toClient # <<>> /\ incoming' = Head(toClient)
      BY <2>1 DEF ReaderGets
    <3> QED BY <1>1, <3>1, Shorter
  <2> QED BY <1>0, <1>1, <2>1, Reading
<1> SUFFICES S /\ C
  BY <1>0
<1>2. toServer' = toServer => S
  OBVIOUS
<1>3. toClient' = toClient => C
  OBVIOUS
<1>4. CASE NetworkIdle
  BY <1>2, <1>3, <1>4 DEF NetworkIdle
<1>5. CASE LoginStarts
  BY <1>5, NoEntries DEF LoginStarts
<1>6. CASE ReaderGets
  <2>1. toClient # <<>> /\ toClient' = Tail(toClient) /\ toServer' = toServer
    BY <1>6 DEF ReaderGets
  <2> QED BY <1>1, <1>2, <2>1, Shorter
<1>7. CASE ServerStep
  <2>1. /\ toServer # <<>> /\ toServer' = Tail(toServer)
        /\ \E f \in Replies : /\ toClient' = Append(toClient, f)
                              /\ f.req = toServer[1]
    BY <1>1, <1>7, Served
  <2>2. S /\ 1 \in DOMAIN toServer
    BY <1>1, <2>1, Shorter
  <2>3. PICK f \in Replies : /\ toClient' = Append(toClient, f)
                             /\ f.req = toServer[1]
    BY <2>1
  <2>4. /\ DOMAIN toClient = 1 .. Len(toClient) /\ Len(toClient) \in Nat
        /\ DOMAIN toClient' = 1 .. Len(toClient) + 1
        /\ \A i \in DOMAIN toClient : toClient'[i] = toClient[i]
        /\ toClient'[Len(toClient) + 1] = f
    BY <1>1, <2>3, Longer
  <2> QED BY <1>7, <2>2, <2>3, <2>4
<1>8. CASE LoginSends \/ SendTask \/ ReportSends \/ LogoutSends
  <2>1. PICK r \in Requests : Sends(r) /\ (Delivered(r) \/ NotDelivered)
    BY <1>8, Sent
  <2>2. toClient' = toClient
        /\ (toServer' = toServer \/ toServer' = Append(toServer, r))
    BY <1>1, <2>1, Passed
  <2>3. CASE toServer' = Append(toServer, r)
    <3>1. /\ DOMAIN toServer = 1 .. Len(toServer) /\ Len(toServer) \in Nat
          /\ DOMAIN toServer' = 1 .. Len(toServer) + 1
          /\ \A i \in DOMAIN toServer : toServer'[i] = toServer[i]
          /\ toServer'[Len(toServer) + 1] = r
      BY <1>1, <2>3, Longer
    <3> QED BY <1>3, <2>1, <2>2, <3>1
  <2> QED BY <1>2, <1>3, <2>2, <2>3
<1> QED BY <1>4, <1>5, <1>6, <1>7, <1>8, Traffic

-----------------------------------------------------------------------------
(* A note is kept under its number until its receipt comes.                *)
LEMMA MapsStep ==
  ASSUME StateTypeOK, [Next]_vars
  PROVE  \/ UNCHANGED <<actions, nextRcpt>>
         \/ /\ nextRcpt' = nextRcpt
            /\ \A k \in Ids : actions'[k] \in {actions[k], NoAction}
         \/ /\ Join \/ Exit \/ LogoutNotes
            /\ nextRcpt' = nextRcpt + 1
            /\ \A k \in Ids : k # nextRcpt => actions'[k] = actions[k]
<1>1. actions \in [Ids -> Actions]
  BY DEF StateTypeOK, MapsOK
<1> USE DEF vars, maps
<1>2. CASE LoginStarts
  BY <1>1, <1>2 DEF LoginStarts
<1>3. CASE Join
  BY <1>1, <1>3 DEF Join
<1>4. CASE Exit
  BY <1>1, <1>4 DEF Exit
<1>5. CASE LogoutNotes
  BY <1>1, <1>5 DEF LogoutNotes
<1>6. CASE HandleReceipt
  BY <1>1, <1>6 DEF HandleReceipt
<1>7. ASSUME NEW c, NEW ch, Accepts(c, ch)
      PROVE  UNCHANGED <<actions, nextRcpt>>
  BY <1>7 DEF Accepts
<1>8. CASE LoginCannotConnect \/ EndOfInput \/ LoginSends \/ SendTask
             \/ ReportStores \/ ReportSends \/ LogoutAnnounces \/ LogoutSends
             \/ LogoutEnds \/ LogoutTimesOut \/ JoinReader
  BY <1>8 DEF LoginCannotConnect, EndOfInput, LoginSends, SendTask,
      ReportStores, ReportSends, LogoutAnnounces, LogoutSends, LogoutEnds,
      LogoutTimesOut, JoinReader
<1>9. CASE ReaderLoops \/ ReaderGets \/ ReaderFails \/ HandleConnected
             \/ HandleMessage \/ HandleError \/ ErrorEndsSession \/ ReaderTail
             \/ ReaderEnds
  BY <1>9 DEF ReaderLoops, ReaderGets, ReaderFails, HandleConnected,
      HandleMessage, HandleError, ErrorEndsSession, ReaderTail, ReaderEnds
<1>10. CASE ServerStep \/ ServerDies \/ UNCHANGED vars
  BY <1>10 DEF ServerStep, ServerDies
<1> QED
  BY <1>2, <1>3, <1>4, <1>5, <1>6, <1>7, <1>8, <1>9, <1>10
  DEF Next, MainStep, ReaderStep

StillNoted(r) == r.cmd \in WithReceipt =>
                   r.rcpt < nextRcpt' /\ Means(actions'[r.rcpt], r)

LEMMA NotedStays ==
  ASSUME StateTypeOK, [Next]_vars, NEW r \in Requests, Noted(r)
  PROVE  StillNoted(r)
<1> SUFFICES ASSUME r.cmd \in WithReceipt
             PROVE  r.rcpt < nextRcpt' /\ Means(actions'[r.rcpt], r)
  BY DEF StillNoted
<1>1. r.rcpt \in Ids /\ r.rcpt < nextRcpt /\ Means(actions[r.rcpt], r)
  BY DEF Noted, Requests, WithReceipt
<1>2. nextRcpt \in Nat /\ Ids \subseteq Nat
  BY ClientAssumption DEF StateTypeOK, CountsOK, Ids
<1>3. Means(NoAction, r)
  BY DEF Means
<1>4. r.rcpt # nextRcpt /\ r.rcpt < nextRcpt + 1
  <2>1. r.rcpt \in Nat /\ r.rcpt < nextRcpt
    BY <1>1, <1>2
  <2> QED BY <1>2, <2>1
<1> QED BY <1>1, <1>3, <1>4, MapsStep

LEMMA NotesStay ==
  ASSUME StateTypeOK, NotesOK, [Next]_vars,
         main = "report" => reported \in Reports
  PROVE  NotesOK'
<1>1. toServer \in Seq(Requests) /\ toClient \in Seq(Replies)
      /\ (reader = "handle" => incoming \in Replies)
  BY DEF StateTypeOK, FramesOK
<1>2. /\ \A i \in DOMAIN toServer :
           toServer[i] \in Requests /\ Noted(toServer[i])
      /\ \A i \in DOMAIN toClient :
           toClient[i].req \in Requests /\ Noted(toClient[i].req)
      /\ reader = "handle" => incoming.req \in Requests /\ Noted(incoming.req)
  BY <1>1, Entries DEF NotesOK, Replies
<1>3. main \in {"send", "announce", "logout"} =>
        task \in Requests /\ Noted(task)
  BY DEF NotesOK, StateTypeOK, TaskOK
<1>4. \A r \in Requests : Noted(r) => StillNoted(r)
  BY NotedStays
<1>5. \A r \in Requests : Sends(r) => StillNoted(r)
  <2>1. SUFFICES ASSUME NEW r \in Requests, Sends(r), r.cmd \in WithReceipt
                 PROVE  StillNoted(r)
    BY DEF StillNoted
  <2>2. r = task /\ main \in {"send", "logout"}
    BY <2>1 DEF Sends, SendTask, LogoutSends, WithReceipt
  <2> QED BY <1>3, <1>4, <2>2
<1>6. \A i \in DOMAIN toServer' : StillNoted(toServer'[i])
  BY <1>2, <1>4, <1>5, Flow
<1>7. \A i \in DOMAIN toClient' : StillNoted(toClient'[i].req)
  BY <1>2, <1>4, Flow
<1>8. reader' = "handle" => StillNoted(incoming'.req)
  BY <1>2, <1>4, Flow
<1>9. main' \in {"send", "announce", "logout"} => StillNoted(task')
  <2>1. CASE task' = task /\ main \in {"send", "announce", "logout"}
    BY <1>3, <1>4, <2>1
  <2>2. main = "obey" => nextRcpt \in Ids /\ nextRcpt < nextRcpt + 1
    BY ClientAssumption DEF StateTypeOK, CountsOK, Ids
  <2>3. CASE Join
    <3>1. /\ task'.cmd = "SUBSCRIBE" /\ task'.dest = task.ch
          /\ task'.rcpt = nextRcpt /\ nextRcpt' = nextRcpt + 1
          /\ actions'[nextRcpt] = [what |-> "join", ch |-> task.ch]
      BY <2>2, <2>3 DEF Join, Obeying, StateTypeOK, MapsOK
    <3> QED BY <2>2, <2>3, <3>1 DEF StillNoted, Means, Join, Obeying
  <2>4. CASE Exit
    <3>1. CASE subIds[task.ch] # 0
      <4>1. /\ task'.cmd = "UNSUBSCRIBE" /\ task'.rcpt = nextRcpt
            /\ nextRcpt' = nextRcpt + 1
            /\ actions'[nextRcpt] = [what |-> "exit", ch |-> task.ch]
        BY <2>2, <2>4, <3>1 DEF Exit, Obeying, StateTypeOK, MapsOK
      <4> QED BY <2>2, <2>4, <4>1 DEF StillNoted, Means, Exit, Obeying
    <3> QED BY <2>4, <3>1 DEF Exit
  <2>5. CASE LogoutNotes
    <3>1. /\ task'.cmd = "DISCONNECT" /\ task'.rcpt = nextRcpt
          /\ nextRcpt' = nextRcpt + 1
          /\ actions'[nextRcpt] = [what |-> "logout"]
      BY <2>2, <2>5 DEF LogoutNotes, Obeying, StateTypeOK, MapsOK
    <3> QED BY <2>2, <2>5, <3>1 DEF StillNoted, Means, LogoutNotes, Obeying
  <2>6. \/ main' \notin {"send", "announce", "logout"}
        \/ task' = task /\ main \in {"send", "announce", "logout"}
        \/ Join \/ Exit \/ LogoutNotes
    <3> USE DEF vars
    <3>1. ASSUME NEW c, NEW ch, Accepts(c, ch) PROVE main' = "obey"
      BY <3>1 DEF Accepts
    <3>2. LoginStarts \/ LoginCannotConnect \/ EndOfInput =>
            main' \in {"connect", "aborted", "prompt", "lastjoin"}
      BY DEF LoginStarts, LoginCannotConnect, EndOfInput, Typed
    <3>3. MainStep => \/ main' \notin {"send", "announce", "logout"}
                      \/ /\ task' = task
                         /\ main \in {"send", "announce", "logout"}
                      \/ Join \/ Exit \/ LogoutNotes
      BY DEF MainStep, LoginSends, SendTask, ReportStores, ReportSends,
             LogoutAnnounces, LogoutSends, LogoutEnds, LogoutTimesOut,
             JoinReader
    <3>4. ReaderStep \/ ServerStep \/ ServerDies \/ UNCHANGED vars =>
            main' = main /\ task' = task
      BY DEF ReaderStep, ReaderLoops, ReaderGets, ReaderFails,
             HandleConnected, HandleReceipt, HandleMessage, HandleError,
             ErrorEndsSession, ReaderTail, ReaderEnds, ServerStep, ServerDies
    <3> QED BY <3>1, <3>2, <3>3, <3>4 DEF Next
  <2> QED BY <2>1, <2>3, <2>4, <2>5, <2>6
<1> QED BY <1>6, <1>7, <1>8, <1>9 DEF NotesOK, StillNoted, Noted
-----------------------------------------------------------------------------
(* What is printed, and for what.                                          *)
LEMMA Printed ==
  ASSUME [Next]_vars
  PROVE  \/ screen' = screen
         \/ HandleConnected /\ Prints(<<"login">>)
         \/ HandleError /\ Prints(<<"error">>)
         \/ /\ HandleReceipt /\ actions[incoming.rcpt].what # "logout"
            /\ actions[incoming.rcpt] # NoAction
            /\ Prints(<<actions[incoming.rcpt].what, actions[incoming.rcpt].ch>>)
<1> USE DEF vars
<1>1. CASE LoginStarts \/ LoginCannotConnect \/ EndOfInput \/ MainStep
  BY <1>1 DEF LoginStarts, LoginCannotConnect, EndOfInput, MainStep,
      LoginSends, Join, Exit, SendTask, ReportStores, ReportSends, LogoutNotes,
      LogoutAnnounces, LogoutSends, LogoutEnds, LogoutTimesOut, JoinReader
<1>2. ASSUME NEW c, NEW ch, Accepts(c, ch)
      PROVE  screen' = screen
  BY <1>2 DEF Accepts
<1>3. CASE ReaderStep /\ ~HandleReceipt
  BY <1>3 DEF ReaderStep, ReaderLoops, ReaderGets, ReaderFails,
      HandleConnected, HandleMessage, HandleError, ErrorEndsSession,
      ReaderTail, ReaderEnds
<1>4. CASE HandleReceipt
  BY <1>4 DEF HandleReceipt
<1>5. CASE ServerStep \/ ServerDies \/ UNCHANGED vars
  BY <1>5 DEF ServerStep, ServerDies
<1> QED BY <1>1, <1>2, <1>3, <1>4, <1>5 DEF Next

(* The frame in the reader's hands.                                        *)
LEMMA InHand ==
  ASSUME StateTypeOK, NotesOK, reader = "handle", incoming.kind = "RECEIPT"
  PROVE  /\ incoming.req \in Requests /\ incoming.req.cmd \in WithReceipt
         /\ incoming.rcpt \in Ids /\ actions[incoming.rcpt] \in Actions
         /\ Means(actions[incoming.rcpt], incoming.req)
<1>1. incoming \in Replies /\ Noted(incoming.req)
  BY DEF StateTypeOK, FramesOK, NotesOK
<1>2. /\ incoming.req \in Requests /\ incoming.req.cmd \in WithReceipt
      /\ incoming.rcpt \in Ids /\ incoming.rcpt = incoming.req.rcpt
  BY <1>1 DEF Replies
<1> QED BY <1>1, <1>2 DEF Noted, StateTypeOK, MapsOK

LEMMA JoinedStays ==
  ASSUME StateTypeOK, NotesOK, JoinedMeansSubscribed, [Next]_vars
  PROVE  JoinedMeansSubscribed'
<1> USE DEF JoinedMeansSubscribed
<1>1. CASE screen' = screen
  BY <1>1
<1>2. CASE Prints(<<"login">>) \/ Prints(<<"error">>)
  BY <1>2 DEF Prints
<1>3. CASE /\ HandleReceipt
           /\ actions[incoming.rcpt] # NoAction
           /\ Prints(<<actions[incoming.rcpt].what,
                       actions[incoming.rcpt].ch>>)
  <2> DEFINE act == actions[incoming.rcpt]
  <2>1. Means(act, incoming.req)
    BY <1>3, InHand DEF HandleReceipt, Handling
  <2>2. /\ act.what = "join" => /\ incoming.req.cmd = "SUBSCRIBE"
                                /\ incoming.req.dest = act.ch
        /\ act.what = "exit" => incoming.req.cmd = "UNSUBSCRIBE"
    BY <1>3, <2>1 DEF Means
  <2>3. screen' = screen \cup
          {[said |-> <<act.what, act.ch>>, req |-> incoming.req]}
    BY <1>3 DEF Prints
  <2> QED BY <2>2, <2>3
<1> QED BY <1>1, <1>2, <1>3, Printed

-----------------------------------------------------------------------------
(* A session goes on until the user, or the server, ends it.               *)
LEMMA HurtStays ==
  ASSUME StateTypeOK, [Next]_vars, Hurt
  PROVE  Hurt'
<1>1. screen \subseteq screen'
  BY Printed DEF Prints
<1>2. server.died => server'.died
  <2>1. FramesOK
    BY DEF StateTypeOK
  <2>2. CASE LoginStarts
    BY <2>2 DEF LoginStarts, NewServer
  <2>3. CASE ServerStep
    BY <2>1, <2>3, Served
  <2>4. CASE NetworkIdle
    BY <2>1, <2>4 DEF NetworkIdle, FramesOK
  <2>5. CASE ReaderGets
    BY <2>5 DEF ReaderGets
  <2>6. CASE LoginSends \/ SendTask \/ ReportSends \/ LogoutSends
    BY <2>6 DEF LoginSends, SendTask, ReportSends, LogoutSends, Delivered,
                NotDelivered, network
  <2> QED BY <2>2, <2>3, <2>4, <2>5, <2>6, Traffic
<1> QED BY <1>1, <1>2 DEF Hurt

LEMMA ErrorHurts ==
  ASSUME HandleError
  PROVE  Hurt'
<1>1. [said |-> <<"error">>, req |-> incoming.req] \in screen'
  BY DEF HandleError, Prints
<1> QED BY <1>1 DEF Hurt

LEMMA NoLogoutStays ==
  ASSUME StateTypeOK, [Next]_vars, main = "report" => reported \in Reports,
         NoLogout, ~LogoutSends
  PROVE  NoLogout'
<1>1. \A r : Sends(r) => r.cmd # "DISCONNECT"
  BY DEF Sends, SendTask, StateTypeOK, TaskOK
<1> QED BY <1>1, Flow DEF NoLogout

LEMMA AliveStays ==
  ASSUME StateTypeOK, [Next]_vars, main = "report" => reported \in Reports,
         NoLogout, server.open \/ ErrorComes, ~Hurt'
  PROVE  server'.open \/ ErrorComes'
<1>1. FramesOK /\ PlacesOK /\ toServer \in Seq(Requests)
      /\ toClient \in Seq(Replies)
  BY DEF StateTypeOK, FramesOK
<1>2. ~HandleError
  BY ErrorHurts
<1>3. ASSUME reader = "handle", incoming.kind = "ERROR", ~ReaderGets
      PROVE  reader' = "handle" /\ incoming' = incoming
  BY <1>1, <1>2, <1>3, Reading
  DEF HandleConnected, HandleReceipt, HandleMessage, Handling
<1>4. CASE LoginStarts
  BY <1>4 DEF LoginStarts, NewServer
<1>5. CASE ServerStep
  <2>1. PICK f \in Replies :
          /\ toClient' = Append(toClient, f) /\ f.req = toServer[1]
          /\ f.kind = "ERROR" \/ toServer[1].cmd = "DISCONNECT" \/ server'.open
    BY <1>1, <1>5, Served DEF Taken
  <2>2. toServer[1].cmd # "DISCONNECT"
    BY <1>1, <1>5, Served, Shorter DEF NoLogout
  <2>3. Len(toClient) + 1 \in DOMAIN toClient'
        /\ toClient'[Len(toClient) + 1] = f
    BY <1>1, <2>1, Longer
  <2> QED BY <2>1, <2>2, <2>3 DEF ErrorComes
<1>6. CASE NetworkIdle /\ (server' # server => ServerDies)
  <2>1. server' = server
    <3>1. ServerDies => server'.died
      BY <1>1 DEF ServerDies, FramesOK
    <3> QED BY <1>6, <3>1 DEF Hurt
  <2>2. ~ReaderGets
    BY <1>1, <1>6, Shorter DEF NetworkIdle, ReaderGets
  <2> QED BY <1>3, <1>6, <2>1, <2>2 DEF ErrorComes, NetworkIdle
<1>7. CASE ReaderGets
  <2>1. toClient # <<>> /\ incoming' = Head(toClient) /\ reader' = "handle"
        /\ toClient' = Tail(toClient) /\ server' = server /\ reader = "recv"
    BY <1>7 DEF ReaderGets
  <2>2. ASSUME NEW i \in DOMAIN toClient, toClient[i].kind = "ERROR"
        PROVE  ErrorComes'
    <3>1. CASE i = 1
      BY <1>1, <2>1, <2>2, <3>1, Shorter DEF ErrorComes
    <3>2. CASE i # 1
      <4>1. i - 1 \in DOMAIN toClient' /\ toClient'[i - 1] = toClient[i]
        BY <1>1, <2>1, <2>2, <3>2, Shorter
      <4> QED BY <2>2, <4>1 DEF ErrorComes
    <3> QED BY <3>1, <3>2
  <2> QED BY <2>1, <2>2 DEF ErrorComes
<1>8. CASE LoginSends \/ SendTask \/ ReportSends \/ LogoutSends
  <2>1. UNCHANGED <<toClient, server, reader, incoming>>
    BY <1>8 DEF LoginSends, SendTask, ReportSends, LogoutSends, Delivered,
                NotDelivered, network
  <2> QED BY <2>1 DEF ErrorComes
<1> QED BY <1>4, <1>5, <1>6, <1>7, <1>8, Traffic
(* What ends a session from this side.                                     *)
LEMMA SessionStaysOn ==
  ASSUME StateTypeOK, NotesOK, [Next]_vars,
         main = "report" => reported \in Reports,
         SessionOn, ~Hurt', ~LogoutTimesOut, ~LogoutSends, ~EndOfInput,
         LoginSends => main' # "join"
  PROVE  SessionOn'
<1>1. NoLogout' /\ (server'.open \/ ErrorComes')
  BY NoLogoutStays, AliveStays DEF SessionOn
<1>2. ~HandleError
  BY ErrorHurts
<1>3. loggedIn = TRUE /\ stopReader = FALSE /\ connection = "open"
      /\ reader \in {"loop", "recv", "handle"}
  BY DEF SessionOn, StateTypeOK, PlacesOK
<1> DEFINE On == /\ loggedIn' = TRUE /\ stopReader' = FALSE
                 /\ connection' = "open"
                 /\ reader' \in {"loop", "recv", "handle"}
<1> SUFFICES On
  BY <1>1 DEF SessionOn
<1> USE <1>3 DEF vars, flags, Typed
<1>4. CASE LoginStarts \/ LoginCannotConnect
  BY <1>4 DEF LoginStarts, LoginCannotConnect
<1>5. ASSUME NEW c, NEW ch, Accepts(c, ch) PROVE On
  BY <1>5 DEF Accepts
<1>6. CASE LoginSends
  BY <1>6 DEF LoginSends
<1>7. CASE Join \/ Exit \/ SendTask \/ ReportStores \/ ReportSends
             \/ LogoutNotes \/ LogoutAnnounces \/ LogoutEnds \/ JoinReader
  BY <1>7 DEF Join, Exit, SendTask, ReportStores, ReportSends, LogoutNotes,
              LogoutAnnounces, LogoutEnds, JoinReader
<1>8. CASE ReaderFails
  <2>1. toClient = <<>> /\ ~server.open /\ reader = "recv"
    BY <1>8 DEF ReaderFails
  <2>2. ~ErrorComes
    BY <2>1, NoEntries DEF ErrorComes
  <2> QED BY <2>1, <2>2 DEF SessionOn
<1>9. CASE HandleReceipt
  <2>1. /\ Means(actions[incoming.rcpt], incoming.req)
        /\ incoming.req.cmd # "DISCONNECT"
    BY <1>9, InHand DEF HandleReceipt, Handling, NoLogout, SessionOn
  <2>2. actions[incoming.rcpt].what # "logout"
    BY <2>1 DEF Means, NoAction
  <2> QED BY <1>9, <2>2 DEF HandleReceipt
<1>10. CASE ReaderLoops \/ ReaderGets \/ HandleConnected \/ HandleMessage
              \/ ErrorEndsSession \/ ReaderTail \/ ReaderEnds
  BY <1>10 DEF ReaderLoops, ReaderGets, HandleConnected, HandleMessage,
               ErrorEndsSession, ReaderTail, ReaderEnds
<1>11. CASE ServerStep \/ ServerDies \/ UNCHANGED vars
  BY <1>11 DEF ServerStep, ServerDies
<1> QED
  BY <1>2, <1>4, <1>5, <1>6, <1>7, <1>8, <1>9, <1>10, <1>11
  DEF Next, MainStep, ReaderStep

(* A login starts a session of its own.                                    *)
LEMMA SessionStarts ==
  ASSUME StateTypeOK, LoginStarts, reader = "none"
  PROVE  SessionOn' /\ main' = "connect"
<1>1. /\ main' = "connect" /\ reader' = "loop"
      /\ loggedIn' /\ ~stopReader' /\ connection' = "open"
      /\ toServer' = <<>> /\ toClient' = <<>>
  BY DEF LoginStarts
<1>2. server'.open
  BY DEF LoginStarts, NewServer
<1> QED BY <1>1, <1>2, NoEntries DEF SessionOn, NoLogout

LEMMA SessionStays ==
  ASSUME StateTypeOK, NotesOK, SessionOK, [Next]_vars,
         main = "report" => reported \in Reports
  PROVE  SessionOK'
<1> SUFFICES ASSUME ~Hurt' PROVE SessionOK'
  BY DEF SessionOK
<1>1. ~Hurt /\ ~HandleError
  BY HurtStays, ErrorHurts
<1>2. ASSUME SessionOn, ~LogoutTimesOut, ~LogoutSends, ~EndOfInput,
             LoginSends => main' # "join"
      PROVE  SessionOn'
  BY <1>2, SessionStaysOn
<1> USE <1>1 DEF SessionOK
<1>3. CASE LoginStarts
  <2>1. reader = "none"
    BY <1>3 DEF LoginStarts, Typed, SessionOn, SessionOff
  <2> QED BY <1>3, <2>1, SessionStarts DEF SessionOn
<1>4. CASE LoginCannotConnect
  <2>1. UNCHANGED <<main, loggedIn, reader>> /\ main = "prompt"
    BY <1>4 DEF LoginCannotConnect, Typed, flags
  <2>2. ~LogoutTimesOut /\ ~LogoutSends /\ ~LoginSends /\ ~EndOfInput
    BY <1>4, <2>1 DEF EndOfInput, LogoutTimesOut, LogoutSends, LoginSends
  <2> QED BY <1>2, <2>1, <2>2 DEF SessionOff
<1>5. CASE EndOfInput
  <2>1. main' = "lastjoin" /\ reader' = reader /\ ~loggedIn'
    BY <1>5 DEF EndOfInput
  <2> QED BY <2>1
<1>6. ASSUME NEW c, NEW ch, Accepts(c, ch) PROVE SessionOK'
  <2>1. main = "prompt" /\ main' = "obey" /\ loggedIn /\ reader' = reader
        /\ loggedIn' = loggedIn
    BY <1>6 DEF Accepts, Typed, flags
  <2>2. ~LogoutTimesOut /\ ~LogoutSends /\ ~LoginSends /\ ~EndOfInput
    BY <2>1 DEF EndOfInput, LogoutTimesOut, LogoutSends, LoginSends
  <2>3. SessionOn'
    BY <1>2, <2>1, <2>2 DEF SessionOff
  <2> QED BY <2>1, <2>3 DEF SessionOn
<1>7. CASE Join \/ Exit \/ SendTask \/ ReportStores \/ ReportSends
             \/ LogoutNotes
  <2>1. /\ main \in {"obey", "send", "report"} /\ reader' = reader
        /\ main' \in {"prompt", "obey", "send", "report", "announce"}
    BY <1>7 DEF Join, Exit, SendTask, ReportStores, ReportSends, LogoutNotes,
                Obeying
  <2>2. ~LogoutTimesOut /\ ~LogoutSends /\ ~LoginSends /\ ~EndOfInput
    BY <2>1 DEF EndOfInput, LogoutTimesOut, LogoutSends, LoginSends, Typed
  <2>3. SessionOn'
    BY <1>2, <2>1, <2>2
  <2> QED BY <2>1, <2>3 DEF SessionOn
<1>8. CASE LoginSends
  <2>1. /\ main = "connect" /\ reader' = reader
        /\ \/ main' = "prompt"
           \/ main' = "join" /\ ~loggedIn'
    BY <1>8 DEF LoginSends
  <2>2. ~LogoutTimesOut /\ ~LogoutSends /\ ~EndOfInput
    BY <2>1 DEF EndOfInput, LogoutTimesOut, LogoutSends, Typed
  <2>3. main' = "prompt" => SessionOn'
    BY <1>2, <2>1, <2>2
  <2> QED BY <2>1, <2>3 DEF SessionOn
<1>9. CASE LogoutAnnounces
  <2>1. main = "announce" /\ main' = "logout" /\ reader' = reader /\ awaiting'
    BY <1>9 DEF LogoutAnnounces
  <2>2. ~LogoutTimesOut /\ ~LogoutSends /\ ~LoginSends /\ ~EndOfInput
    BY <2>1 DEF EndOfInput, LogoutTimesOut, LogoutSends, LoginSends, Typed
  <2>3. SessionOn'
    BY <1>2, <2>1, <2>2
  <2> QED BY <2>1, <2>3 DEF SessionOn
<1>10. CASE LogoutSends
  <2>1. /\ main = "logout" /\ main' = "wait" /\ reader' = reader
        /\ awaiting' = awaiting /\ loggedIn' = loggedIn
    BY <1>10 DEF LogoutSends, flags
  <2> QED BY <2>1
<1>11. CASE LogoutEnds \/ LogoutTimesOut
  <2>1. /\ main = "wait" /\ main' = "join" /\ reader' = reader
        /\ loggedIn' => loggedIn /\ ~awaiting
    BY <1>11 DEF LogoutEnds, LogoutTimesOut, flags
  <2> QED BY <2>1
<1>12. CASE JoinReader
  <2>1. /\ main \in {"join", "lastjoin"} /\ reader' = "none"
        /\ main' = IF main = "join" THEN "prompt" ELSE "exited"
        /\ loggedIn' = loggedIn
    BY <1>12 DEF JoinReader, flags
  <2> QED BY <2>1 DEF SessionOff
<1>13. ASSUME main' = main, ~LogoutTimesOut, ~LogoutSends, ~LoginSends,
              ~EndOfInput,
              loggedIn' => loggedIn, reader = "none" => reader' = "none",
              reader' = "tail2" => reader = "tail2" \/ ~loggedIn',
              awaiting' = awaiting \/ ~loggedIn'
       PROVE  SessionOK'
  BY <1>2, <1>13 DEF SessionOn, SessionOff
<1>14. CASE ReaderStep
  <2>1. /\ main' = main /\ reader # "none"
        /\ reader' = "tail2" => reader = "tail2" \/ ~loggedIn'
        /\ loggedIn' => loggedIn
    BY <1>14 DEF ReaderStep, ReaderLoops, ReaderGets, ReaderFails,
       HandleConnected, HandleReceipt, HandleMessage, HandleError,
       ErrorEndsSession, ReaderTail, ReaderEnds, Handling, flags
  <2>2. awaiting' = awaiting \/ ~loggedIn'
    BY <1>14 DEF ReaderStep, ReaderLoops, ReaderGets, ReaderFails,
       HandleConnected, HandleReceipt, HandleMessage, HandleError,
       ErrorEndsSession, ReaderTail, ReaderEnds, Handling, flags
  <2>3. ~LogoutTimesOut /\ ~LogoutSends /\ ~LoginSends /\ ~EndOfInput
    BY <2>1 DEF EndOfInput, LogoutTimesOut, LogoutSends, LoginSends, Typed
  <2> QED BY <1>13, <2>1, <2>2, <2>3
<1>15. CASE ServerStep \/ ServerDies \/ UNCHANGED vars
  <2>1. UNCHANGED <<main, reader, loggedIn, awaiting, typed>>
    BY <1>15 DEF ServerStep, ServerDies, vars, flags
  <2>2. ~LogoutTimesOut /\ ~LogoutSends /\ ~LoginSends /\ ~EndOfInput
    BY <2>1, ClientAssumption
    DEF EndOfInput, LogoutTimesOut, LogoutSends, LoginSends, Typed
  <2> QED BY <1>13, <2>1, <2>2
<1> QED
  BY <1>3, <1>4, <1>5, <1>6, <1>7, <1>8, <1>9, <1>10, <1>11, <1>12, <1>14,
     <1>15
  DEF Next, MainStep
-----------------------------------------------------------------------------
(* Reports are stored, sent and echoed in one order.                       *)
LEMMA OrderStays ==
  ASSUME StateTypeOK, OrderOK, StoresOK, [Next]_vars
  PROVE  OrderOK'
<1>1. FramesOK /\ PlacesOK /\ toServer \in Seq(Requests)
      /\ toClient \in Seq(Replies)
  BY DEF StateTypeOK, FramesOK
<1>2. \/ UNCHANGED incoming /\ (reader' = "handle" <=> reader = "handle")
      \/ ReaderGets
      \/ reader' # "handle"
  BY <1>1, Reading
<1> USE DEF OrderOK
<1>3. CASE NetworkIdle /\ ~ReaderGets
  BY <1>2, <1>3 DEF NetworkIdle
<1>4. CASE LoginStarts
  BY <1>4, NoEntries DEF LoginStarts
<1>5. CASE ReaderGets
  <2>1. toClient # <<>> /\ toClient' = Tail(toClient) /\ toServer' = toServer
        /\ incoming' = Head(toClient)
    BY <1>5 DEF ReaderGets
  <2>2. /\ DOMAIN toClient = 1 .. Len(toClient) /\ Len(toClient) \in Nat
        /\ 1 \in DOMAIN toClient /\ incoming' = toClient[1]
        /\ DOMAIN toClient' = 1 .. Len(toClient) - 1
        /\ \A i \in DOMAIN toClient' :
             i + 1 \in DOMAIN toClient /\ toClient'[i] = toClient[i + 1]
    BY <1>1, <2>1, Shorter
  <2>3. \A i, j \in DOMAIN toClient' :
          i < j /\ Echoes(toClient'[i]) /\ Echoes(toClient'[j]) =>
            toClient'[i].req.body < toClient'[j].req.body
    BY <2>2
  <2>4. \A j \in DOMAIN toClient' : Echoes(incoming') /\ Echoes(toClient'[j])
          => incoming'.req.body < toClient'[j].req.body
    BY <2>2
  <2>5. \A j \in DOMAIN toServer : Echoes(incoming') /\ IsReport(toServer[j])
          => incoming'.req.body < toServer[j].body
    BY <2>2
  <2>6. \A i \in DOMAIN toClient', j \in DOMAIN toServer :
          Echoes(toClient'[i]) /\ IsReport(toServer[j]) =>
            toClient'[i].req.body < toServer[j].body
    BY <2>2
  <2> QED BY <2>1, <2>3, <2>4, <2>5, <2>6
<1>6. CASE ServerStep
  <2>1. /\ toServer # <<>> /\ toServer' = Tail(toServer)
        /\ \E f \in Replies : /\ toClient' = Append(toClient, f)
                              /\ f.req = toServer[1]
    BY <1>1, <1>6, Served
  <2>2. PICK f \in Replies : /\ toClient' = Append(toClient, f)
                             /\ f.req = toServer[1]
    BY <2>1
  <2>3. Echoes(f) => IsReport(toServer[1])
    BY <2>2 DEF Replies, Echoes, IsReport
  <2>4. /\ DOMAIN toServer = 1 .. Len(toServer) /\ Len(toServer) \in Nat
        /\ 1 \in DOMAIN toServer
        /\ DOMAIN toServer' = 1 .. Len(toServer) - 1
        /\ \A i \in DOMAIN toServer' :
             i + 1 \in DOMAIN toServer /\ toServer'[i] = toServer[i + 1]
    BY <1>1, <2>1, Shorter
  <2>5. /\ DOMAIN toClient = 1 .. Len(toClient) /\ Len(toClient) \in Nat
        /\ DOMAIN toClient' = 1 .. Len(toClient) + 1
        /\ \A i \in DOMAIN toClient : toClient'[i] = toClient[i]
        /\ toClient'[Len(toClient) + 1] = f
    BY <1>1, <2>2, Longer
  <2>6. UNCHANGED <<reader, incoming>>
    BY <1>6 DEF ServerStep
  <2>7. \A i, j \in DOMAIN toServer' :
          i < j /\ IsReport(toServer'[i]) /\ IsReport(toServer'[j]) =>
            toServer'[i].body < toServer'[j].body
    BY <2>4
  <2>8. \A i \in DOMAIN toClient', j \in DOMAIN toServer' :
          Echoes(toClient'[i]) /\ IsReport(toServer'[j]) =>
            toClient'[i].req.body < toServer'[j].body
    <3> SUFFICES ASSUME NEW i \in DOMAIN toClient', NEW j \in DOMAIN toServer',
                        Echoes(toClient'[i]), IsReport(toServer'[j])
                 PROVE  toClient'[i].req.body < toServer'[j].body
      OBVIOUS
    <3>1. j + 1 \in DOMAIN toServer /\ toServer'[j] = toServer[j + 1] /\ 1 < j + 1
      BY <2>4
    <3>2. CASE i \in DOMAIN toClient
      BY <2>5, <3>1, <3>2
    <3>3. CASE i = Len(toClient) + 1
      BY <2>2, <2>3, <2>4, <2>5, <3>1, <3>3
    <3> QED BY <2>5, <3>2, <3>3
  <2>9. \A i, j \in DOMAIN toClient' :
          i < j /\ Echoes(toClient'[i]) /\ Echoes(toClient'[j]) =>
            toClient'[i].req.body < toClient'[j].req.body
    <3> SUFFICES ASSUME NEW i \in DOMAIN toClient', NEW j \in DOMAIN toClient',
                        i < j, Echoes(toClient'[i]), Echoes(toClient'[j])
                 PROVE  toClient'[i].req.body < toClient'[j].req.body
      OBVIOUS
    <3>1. i \in DOMAIN toClient /\ toClient'[i] = toClient[i]
      BY <2>5
    <3>2. CASE j \in DOMAIN toClient
      BY <2>5, <3>1, <3>2
    <3>3. CASE j = Len(toClient) + 1
      BY <2>2, <2>3, <2>4, <2>5, <3>1, <3>3
    <3> QED BY <2>5, <3>2, <3>3
  <2>10. reader = "handle" /\ Echoes(incoming) =>
           /\ \A j \in DOMAIN toServer' : IsReport(toServer'[j]) =>
                incoming.req.body < toServer'[j].body
           /\ \A j \in DOMAIN toClient' : Echoes(toClient'[j]) =>
                incoming.req.body < toClient'[j].req.body
    BY <2>2, <2>3, <2>4, <2>5
  <2> QED BY <2>6, <2>7, <2>8, <2>9, <2>10
<1>7. CASE LoginSends \/ SendTask \/ ReportSends \/ LogoutSends
  <2>1. main = "report" => reported \in Reports
    BY DEF StoresOK
  <2>2. PICK r \in Requests : Sends(r) /\ (Delivered(r) \/ NotDelivered)
    BY <1>7, <2>1, Sent
  <2>3. toClient' = toClient /\ UNCHANGED <<reader, incoming>>
        /\ (toServer' = toServer \/ toServer' = Append(toServer, r))
    <3>1. UNCHANGED <<reader, incoming>>
      BY <1>7 DEF LoginSends, SendTask, ReportSends, LogoutSends
    <3> QED BY <1>1, <2>2, <3>1, Passed
  <2>4. IsReport(r) => main = "report" /\ r.body = reported
    BY <2>2 DEF Sends, SendTask, LogoutSends, ReportSends, IsReport,
                StateTypeOK, TaskOK
  <2>5. CASE toServer' = toServer
    BY <2>3, <2>5
  <2>6. CASE toServer' = Append(toServer, r)
    <3>1. /\ DOMAIN toServer = 1 .. Len(toServer) /\ Len(toServer) \in Nat
          /\ DOMAIN toServer' = 1 .. Len(toServer) + 1
          /\ \A i \in DOMAIN toServer :
               toServer[i] \in Requests /\ toServer'[i] = toServer[i]
          /\ toServer'[Len(toServer) + 1] = r
      BY <1>1, <2>6, Longer
    <3>2. ASSUME NEW b \in Reports, InFlight(b), IsReport(r)
          PROVE  b < r.body
      BY <2>4, <3>2 DEF StoresOK
    <3>3. \A f \in Replies : Echoes(f) => f.req.body \in Reports
      BY DEF Replies, Echoes, Requests
    <3>4. \A q \in Requests : IsReport(q) => q.body \in Reports
      BY DEF IsReport, Requests
    <3>5. \A i \in DOMAIN toServer : IsReport(toServer[i]) /\ IsReport(r) =>
            toServer[i].body < r.body
      BY <3>1, <3>2, <3>4 DEF InFlight
    <3>6. \A i \in DOMAIN toClient : Echoes(toClient[i]) /\ IsReport(r) =>
            toClient[i].req.body < r.body
      <4>1. \A i \in DOMAIN toClient : toClient[i] \in Replies
        BY <1>1, Entries
      <4> QED BY <3>2, <3>3, <4>1 DEF InFlight
    <3>7. reader = "handle" /\ Echoes(incoming) /\ IsReport(r) =>
            incoming.req.body < r.body
      BY <1>1, <3>2, <3>3 DEF InFlight, FramesOK
    <3>8. \A i, j \in DOMAIN toServer' :
            i < j /\ IsReport(toServer'[i]) /\ IsReport(toServer'[j]) =>
              toServer'[i].body < toServer'[j].body
      BY <3>1, <3>5
    <3>9. \A i \in DOMAIN toClient, j \in DOMAIN toServer' :
            Echoes(toClient[i]) /\ IsReport(toServer'[j]) =>
              toClient[i].req.body < toServer'[j].body
      BY <3>1, <3>6
    <3>10. reader = "handle" /\ Echoes(incoming) =>
             \A j \in DOMAIN toServer' : IsReport(toServer'[j]) =>
               incoming.req.body < toServer'[j].body
      BY <3>1, <3>7
    <3> QED BY <2>3, <3>8, <3>9, <3>10
  <2> QED BY <2>3, <2>5, <2>6
<1> QED BY <1>1, <1>3, <1>4, <1>5, <1>6, <1>7, Traffic
LEMMA FlightStays ==
  ASSUME StateTypeOK, [Next]_vars, main = "report" => reported \in Reports,
         NEW b, InFlight(b)'
  PROVE  InFlight(b) \/ (ReportSends /\ b = reported)
<1>1. FramesOK' /\ toClient' \in Seq(Replies)
  BY FramesStay DEF FramesOK
<1>2. \A r : Sends(r) /\ IsReport(r) => ReportSends /\ r.body = reported
  BY DEF Sends, SendTask, LogoutSends, IsReport, StateTypeOK, TaskOK
<1>3. \A i \in DOMAIN toClient' :
        Echoes(toClient'[i]) => IsReport(toClient'[i].req)
  BY <1>1, Entries DEF Replies, Echoes, IsReport
<1>4. CASE \E i \in DOMAIN toServer' :
             IsReport(toServer'[i]) /\ toServer'[i].body = b
  BY <1>2, <1>4, Flow DEF InFlight
<1>5. CASE \E i \in DOMAIN toClient' :
             Echoes(toClient'[i]) /\ toClient'[i].req.body = b
  BY <1>3, <1>5, Flow DEF InFlight
<1>6. CASE reader' = "handle" /\ Echoes(incoming') /\ incoming'.req.body = b
  BY <1>6, Flow DEF InFlight
<1> QED BY <1>4, <1>5, <1>6 DEF InFlight

(* A report that has come back is on its way no more.                      *)
LEMMA EchoIsLast ==
  ASSUME StateTypeOK, OrderOK, HandleMessage, NEW b, b = incoming.req.body
  PROVE  ~InFlight(b)'
<1>1. /\ reader = "handle" /\ Echoes(incoming) /\ incoming \in Replies
      /\ UNCHANGED <<toServer, toClient>> /\ reader' # "handle"
  BY DEF HandleMessage, Handling, Echoes, StateTypeOK, FramesOK, network
<1>2. b \in Reports /\ Reports \subseteq Int
  BY <1>1, Room, ClientAssumption DEF Replies, Echoes, Requests, Reports
<1>3. /\ \A j \in DOMAIN toServer :
           IsReport(toServer[j]) => b < toServer[j].body
      /\ \A j \in DOMAIN toClient :
           Echoes(toClient[j]) => b < toClient[j].req.body
  BY <1>1 DEF OrderOK
<1>4. ~(b < b)
  BY <1>2
<1> QED BY <1>1, <1>3, <1>4 DEF InFlight

LEMMA StoresStay ==
  ASSUME StateTypeOK, OrderOK, StoresOK, [Next]_vars
  PROVE  StoresOK'
<1>1. main = "report" => reported \in Reports
  BY DEF StoresOK
<1>2. \A b \in Reports : InFlight(b)' =>
        InFlight(b) \/ (ReportSends /\ b = reported)
  BY <1>1, FlightStays
<1>3. stored \in [Reports -> Nat] /\ reported \in Nat /\ Reports \subseteq Nat
  BY ClientAssumption, Room
  DEF StateTypeOK, MapsOK, CountsOK, Reports
<1>4. CASE ReportStores
  <2>1. /\ main' = "report" /\ reported' = reported + 1 /\ main = "obey"
        /\ stored' = [stored EXCEPT ![reported + 1] = @ + 1]
    BY <1>4 DEF ReportStores, Obeying
  <2>2. reported + 1 \in Reports
    <3>1. task.left \in 1 .. EventsPerFile
          /\ reported + task.left <= typed * EventsPerFile
          /\ typed \in Nat /\ typed <= MaxCommands
      BY <2>1, ClientAssumption DEF StateTypeOK, TaskOK, TypedCommands, CountsOK
    <3>2. typed * EventsPerFile \in Nat
          /\ typed * EventsPerFile <= MaxCommands * EventsPerFile
          /\ MaxCommands * EventsPerFile \in Nat
      BY <3>1, Room, ClientAssumption
    <3> DEFINE room == typed * EventsPerFile
               most == MaxCommands * EventsPerFile
    <3>3. /\ room \in Nat /\ most \in Nat /\ room <= most
          /\ task.left \in Nat \ {0} /\ reported + task.left <= room
      BY <3>1, <3>2, ClientAssumption
    <3>4. Reports = 1 .. most
      BY DEF Reports
    <3> HIDE DEF room, most
    <3> QED BY <1>3, <3>3, <3>4
  <2>3. stored[reported + 1] = 0 /\ ~InFlight(reported + 1)
    BY <1>3, <2>2 DEF StoresOK
  <2>4. /\ stored'[reported + 1] = 1
        /\ \A b \in Reports : b # reported + 1 => stored'[b] = stored[b]
    BY <1>3, <2>1, <2>2, <2>3
  <2>5. ~ReportSends
    BY <2>1 DEF ReportSends
  <2>6. ASSUME NEW b \in Reports
        PROVE  /\ stored'[b] <= 2
               /\ b > reported' => stored'[b] = 0
               /\ InFlight(b)' => /\ stored'[b] = 1 /\ b < reported'
    <3>1. CASE b = reported + 1
      BY <1>2, <1>3, <2>1, <2>2, <2>3, <2>4, <2>5, <3>1
    <3>2. CASE b # reported + 1
      <4>1. /\ stored[b] <= 2
            /\ b > reported => stored[b] = 0
            /\ InFlight(b) => stored[b] = 1 /\ b <= reported
        BY DEF StoresOK
      <4> QED BY <1>2, <1>3, <2>1, <2>4, <2>5, <3>2, <4>1
    <3> QED BY <3>1, <3>2
  <2> QED BY <1>3, <2>1, <2>2, <2>4, <2>6 DEF StoresOK
<1>5. CASE HandleMessage
  <2>1. PICK e \in Reports :
          /\ e = incoming.req.body /\ InFlight(e)
          /\ main' = main /\ reported' = reported
          /\ stored' = [stored EXCEPT ![e] = @ + 1]
    BY <1>5 DEF HandleMessage, Handling, InFlight, Echoes, StateTypeOK,
                FramesOK, Replies, Requests
  <2>2. stored[e] = 1 /\ e <= reported /\ (main = "report" => e < reported)
    BY <2>1 DEF StoresOK
  <2>3. /\ stored'[e] = 2
        /\ \A b \in Reports : b # e => stored'[b] = stored[b]
    BY <1>3, <2>1, <2>2
  <2>4. ~InFlight(e)' /\ ~ReportSends
    BY <1>5, EchoIsLast, <2>1 DEF ReportSends, HandleMessage
  <2>5. ASSUME NEW b \in Reports
        PROVE  /\ stored'[b] <= 2
               /\ b > reported' => stored'[b] = 0
               /\ InFlight(b)' => /\ stored'[b] = 1 /\ b <= reported'
                                  /\ main' = "report" => b < reported'
    <3>1. CASE b = e
      BY <1>3, <2>1, <2>2, <2>3, <2>4, <3>1
    <3>2. CASE b # e
      BY <1>2, <2>1, <2>3, <2>4, <3>2 DEF StoresOK
    <3> QED BY <3>1, <3>2
  <2>6. main' = "report" => reported' \in Reports /\ stored'[reported'] = 1
    BY <1>3, <2>1, <2>2, <2>3 DEF StoresOK
  <2> QED BY <2>5, <2>6 DEF StoresOK
<1>6. CASE ReportSends
  <2>1. /\ main = "report" /\ main' # "report"
        /\ UNCHANGED <<stored, reported>>
    BY <1>6 DEF ReportSends
  <2>2. stored[reported] = 1
    BY <2>1 DEF StoresOK
  <2> QED BY <1>2, <1>3, <2>1, <2>2 DEF StoresOK
<1>7. ASSUME UNCHANGED <<stored, reported>>, main' = "report" <=> main = "report",
             ~ReportSends
      PROVE  StoresOK'
  BY <1>2, <1>7 DEF StoresOK
<1>8. \/ ReportStores \/ ReportSends \/ HandleMessage
      \/ /\ UNCHANGED <<stored, reported>>
         /\ main' = "report" <=> main = "report"
  <2> USE DEF vars
  <2>1. ASSUME NEW c, NEW ch, Accepts(c, ch)
        PROVE  UNCHANGED <<stored, reported>> /\ main' = "obey"
               /\ main = "prompt"
    BY <2>1 DEF Accepts, Typed
  <2>2. LoginStarts \/ LoginCannotConnect \/ EndOfInput =>
          /\ UNCHANGED <<stored, reported>> /\ main = "prompt"
          /\ main' # "report"
    BY DEF LoginStarts, LoginCannotConnect, EndOfInput, Typed
  <2>3. MainStep => \/ ReportStores \/ ReportSends
                    \/ /\ UNCHANGED <<stored, reported>>
                       /\ main # "report" /\ main' # "report"
    BY DEF MainStep, LoginSends, Join, Exit, SendTask, LogoutNotes,
           LogoutAnnounces, LogoutSends, LogoutEnds, LogoutTimesOut,
           JoinReader, Obeying
  <2>4. ReaderStep => HandleMessage \/ UNCHANGED <<stored, reported, main>>
    BY DEF ReaderStep, ReaderLoops, ReaderGets, ReaderFails,
           HandleConnected, HandleReceipt, HandleError,
           ErrorEndsSession, ReaderTail, ReaderEnds
  <2>5. ServerStep \/ ServerDies \/ UNCHANGED vars =>
          UNCHANGED <<stored, reported, main>>
    BY DEF ServerStep, ServerDies
  <2> QED BY <2>1, <2>2, <2>3, <2>4, <2>5 DEF Next
<1> QED BY <1>4, <1>5, <1>6, <1>7, <1>8
-----------------------------------------------------------------------------
(* Requests that come and go keep client and server consistent.            *)
LEMMA NumbersPositive ==
  \A r \in Requests : Joins(r) \/ Leaves(r) => r.id \in Nat /\ r.id # 0
BY ClientAssumption DEF Requests, Joins, Leaves, Ids

LEMMA EndsLater ==
  ASSUME NEW q \in Seq(Requests), NEW r \in Requests, NEW k, NEW c, NEW id,
         Ends(q, k, c, id)
  PROVE  Ends(Append(q, r), k, c, id)
BY Longer DEF Ends

LEMMA EndsSooner ==
  ASSUME NEW q \in Seq(Requests), q # <<>>, NEW k \in Nat, NEW c, NEW id,
         Ends(q, k + 1, c, id)
  PROVE  Ends(Tail(q), k, c, id)
<1>1. PICK j \in DOMAIN q :
        j > k + 1 /\ (\/ Leaves(q[j]) /\ q[j].id = id
                      \/ Joins(q[j]) /\ q[j].dest = c)
  BY DEF Ends
<1>2. j - 1 \in DOMAIN Tail(q) /\ Tail(q)[j - 1] = q[j] /\ j - 1 > k
  BY <1>1, Shorter
<1> QED BY <1>1, <1>2 DEF Ends

(* What a client asks for that is not a subscription.                      *)
LEMMA OtherAsked ==
  ASSUME NEW q \in Seq(Requests), NEW r \in Requests, ~Joins(r), ~Leaves(r),
         NEW mine, NEW theirs, NEW next, Consistent(q, mine, theirs, next)
  PROVE  Consistent(Append(q, r), mine, theirs, next)
<1> DEFINE s == Append(q, r)
<1>1. /\ DOMAIN q = 1 .. Len(q) /\ Len(q) \in Nat
      /\ DOMAIN s = 1 .. Len(q) + 1
      /\ \A i \in DOMAIN q : s[i] = q[i]
      /\ s[Len(q) + 1] = r
  BY Longer
<1>2. \A i \in DOMAIN s : Joins(s[i]) \/ Leaves(s[i]) =>
        i \in DOMAIN q /\ s[i] = q[i]
  BY <1>1
<1>3. \A i \in DOMAIN q : i \in DOMAIN s /\ s[i] = q[i]
  BY <1>1
<1>4. \A k, c, id : Ends(q, k, c, id) => Ends(s, k, c, id)
  BY EndsLater
<1> HIDE DEF s
<1>5. FreshIds(s, mine, theirs, next)
  BY <1>2 DEF Consistent, FreshIds
<1>6. WillAgree(s, mine, theirs)
  BY <1>2, <1>3, <1>4 DEF Consistent, WillAgree
<1> QED BY <1>5, <1>6 DEF Consistent, s

LEMMA JoinAsked ==
  ASSUME NEW q \in Seq(Requests), NEW mine \in [Channels -> Nat],
         NEW theirs \in [Channels -> Nat], NEW next \in Nat \ {0},
         \A c \in Channels : mine[c] < next,
         Consistent(q, mine, theirs, next),
         NEW r \in Requests, Joins(r), r.id = next, r.dest \in Channels
  PROVE  Consistent(Append(q, r), [mine EXCEPT ![r.dest] = next], theirs,
                    next + 1)
<1> DEFINE s == Append(q, r)
           now == [mine EXCEPT ![r.dest] = next]
           last == Len(q) + 1
<1>1. /\ DOMAIN q = 1 .. Len(q) /\ Len(q) \in Nat
      /\ DOMAIN s = 1 .. Len(q) + 1
      /\ \A i \in DOMAIN q : q[i] \in Requests /\ s[i] = q[i]
      /\ s[Len(q) + 1] = r
  BY Longer
<1>2. /\ last \in DOMAIN s /\ s[last] = r
      /\ \A i \in DOMAIN s : i # last => i \in DOMAIN q /\ s[i] = q[i]
      /\ \A i \in DOMAIN q : /\ i \in DOMAIN s /\ s[i] = q[i]
                             /\ last > i /\ i # last /\ q[i] \in Requests
      /\ last > 0
  BY <1>1
<1>3. \A k, c, id : Ends(q, k, c, id) => Ends(s, k, c, id)
  BY EndsLater
<1>4. /\ now[r.dest] = next
      /\ \A c \in Channels : c # r.dest => now[c] = mine[c]
  OBVIOUS
<1>5. \A i \in DOMAIN q : Joins(q[i]) \/ Leaves(q[i]) =>
        q[i].id \in Nat /\ q[i].id < next
  BY <1>2, NumbersPositive DEF Consistent, FreshIds
<1>6. ~Leaves(r)
  BY DEF Joins, Leaves
<1>7. \A i \in DOMAIN q : Ends(s, i, r.dest, q[i].id)
  BY <1>2 DEF Ends
<1>8. \A id : Ends(s, 0, r.dest, id)
  BY <1>2 DEF Ends
<1> HIDE DEF s, last, now
<1>9. FreshIds(s, now, theirs, next + 1)
  <2>1. ASSUME NEW c \in Channels, NEW d \in Channels, c # d
        PROVE  /\ now[c] # 0 => now[c] # now[d]
               /\ theirs[c] # 0 => theirs[c] # theirs[d]
    BY <1>4, <2>1 DEF Consistent, FreshIds
  <2>2. \A c \in Channels : theirs[c] < next /\ theirs[c] < next + 1
    <3>1. \A c \in Channels : theirs[c] \in Nat /\ theirs[c] < next
      BY DEF Consistent, FreshIds
    <3>2. \A n \in Nat : n < next => n < next + 1
      OBVIOUS
    <3> QED BY <3>1, <3>2
  <2>3. ASSUME NEW i \in DOMAIN s, Joins(s[i])
        PROVE  /\ s[i].id < next + 1
               /\ \A c \in Channels : theirs[c] # s[i].id
               /\ \A j \in DOMAIN s : j # i /\ Joins(s[j]) => s[j].id # s[i].id
    <3>1. CASE i = last
      BY <1>2, <1>5, <2>2, <3>1
    <3>2. CASE i # last
      <4>1. i \in DOMAIN q /\ s[i] = q[i] /\ q[i].id \in Nat /\ q[i].id < next
        BY <1>2, <1>5, <2>3, <3>2
      <4> QED BY <1>2, <2>3, <4>1 DEF Consistent, FreshIds
    <3> QED BY <3>1, <3>2
  <2>4. ASSUME NEW i \in DOMAIN s, Leaves(s[i])
        PROVE  /\ s[i].id < next + 1
               /\ \A c \in Channels : now[c] # s[i].id
    <3>1. i \in DOMAIN q /\ s[i] = q[i] /\ q[i].id \in Nat /\ q[i].id < next
      BY <1>2, <1>5, <1>6, <2>4
    <3> QED BY <1>4, <2>4, <3>1 DEF Consistent, FreshIds
  <2> QED BY <2>1, <2>2, <2>3, <2>4 DEF FreshIds
<1>10. WillAgree(s, now, theirs)
  <2>1. ASSUME NEW c \in Channels, now[c] # 0, theirs[c] # now[c]
        PROVE  \E i \in DOMAIN s :
                 Joins(s[i]) /\ s[i].dest = c /\ s[i].id = now[c]
    <3>1. CASE c = r.dest
      BY <1>2, <1>4, <3>1
    <3>2. CASE c # r.dest
      BY <1>2, <1>4, <2>1, <3>2 DEF Consistent, WillAgree
    <3> QED BY <3>1, <3>2
  <2>2. ASSUME NEW c \in Channels, theirs[c] # 0, theirs[c] # now[c]
        PROVE  Ends(s, 0, c, theirs[c])
    BY <1>3, <1>4, <1>8, <2>2 DEF Consistent, WillAgree
  <2>3. ASSUME NEW i \in DOMAIN s, Joins(s[i]), s[i].id # now[s[i].dest]
        PROVE  Ends(s, i, s[i].dest, s[i].id)
    <3>1. i # last
      BY <1>2, <1>4, <2>3
    <3>2. i \in DOMAIN q /\ s[i] = q[i] /\ q[i].dest \in Channels
      BY <1>2, <2>3, <3>1 DEF Requests, Joins
    <3> QED BY <1>3, <1>4, <1>7, <2>3, <3>2 DEF Consistent, WillAgree
  <2> QED BY <2>1, <2>2, <2>3 DEF WillAgree
<1> QED BY <1>9, <1>10 DEF Consistent, s, now

LEMMA LeaveAsked ==
  ASSUME NEW q \in Seq(Requests), NEW mine \in [Channels -> Nat],
         NEW theirs \in [Channels -> Nat], NEW next \in Nat \ {0},
         \A c \in Channels : mine[c] < next,
         Consistent(q, mine, theirs, next),
         NEW ch \in Channels, mine[ch] # 0,
         NEW r \in Requests, Leaves(r), r.id = mine[ch]
  PROVE  Consistent(Append(q, r), [mine EXCEPT ![ch] = 0], theirs, next)
<1> DEFINE s == Append(q, r)
           now == [mine EXCEPT ![ch] = 0]
           last == Len(q) + 1
<1>1. /\ DOMAIN q = 1 .. Len(q) /\ Len(q) \in Nat
      /\ DOMAIN s = 1 .. Len(q) + 1
      /\ \A i \in DOMAIN q : q[i] \in Requests /\ s[i] = q[i]
      /\ s[Len(q) + 1] = r
  BY Longer
<1>2. /\ last \in DOMAIN s /\ s[last] = r
      /\ \A i \in DOMAIN s : i # last => i \in DOMAIN q /\ s[i] = q[i]
      /\ \A i \in DOMAIN q : /\ i \in DOMAIN s /\ s[i] = q[i]
                             /\ last > i /\ i # last /\ q[i] \in Requests
      /\ last > 0
  BY <1>1
<1>3. \A k, c, id : Ends(q, k, c, id) => Ends(s, k, c, id)
  BY EndsLater
<1>4. /\ now[ch] = 0
      /\ \A c \in Channels : c # ch => now[c] = mine[c]
  OBVIOUS
<1>5. \A i \in DOMAIN q : Joins(q[i]) \/ Leaves(q[i]) => q[i].id # 0
  BY <1>2, NumbersPositive
<1>6. ~Joins(r)
  BY DEF Joins, Leaves
<1>7. \A i \in DOMAIN q, c \in Channels : Ends(s, i, c, mine[ch])
  BY <1>2 DEF Ends
<1>8. \A c \in Channels : Ends(s, 0, c, mine[ch])
  BY <1>2 DEF Ends
<1> HIDE DEF s, last, now
<1>9. FreshIds(s, now, theirs, next)
  <2>1. ASSUME NEW c \in Channels, NEW d \in Channels, c # d
        PROVE  /\ now[c] # 0 => now[c] # now[d]
               /\ theirs[c] # 0 => theirs[c] # theirs[d]
    BY <1>4, <2>1 DEF Consistent, FreshIds
  <2>2. \A c \in Channels : theirs[c] < next
    BY DEF Consistent, FreshIds
  <2>3. ASSUME NEW i \in DOMAIN s, Joins(s[i])
        PROVE  /\ s[i].id < next
               /\ \A c \in Channels : theirs[c] # s[i].id
               /\ \A j \in DOMAIN s : j # i /\ Joins(s[j]) => s[j].id # s[i].id
    <3>1. i \in DOMAIN q /\ s[i] = q[i]
      BY <1>2, <1>6, <2>3
    <3>2. \A j \in DOMAIN s : Joins(s[j]) => j \in DOMAIN q /\ s[j] = q[j]
      BY <1>2, <1>6
    <3> QED BY <2>3, <3>1, <3>2 DEF Consistent, FreshIds
  <2>4. ASSUME NEW i \in DOMAIN s, Leaves(s[i])
        PROVE  /\ s[i].id < next
               /\ \A c \in Channels : now[c] # s[i].id
    <3>1. CASE i = last
      <4>1. s[i].id = mine[ch] /\ mine[ch] < next
        BY <1>2, <3>1
      <4>2. \A c \in Channels : c # ch => mine[c] # mine[ch]
        BY DEF Consistent, FreshIds
      <4> QED BY <1>4, <4>1, <4>2
    <3>2. CASE i # last
      <4>1. i \in DOMAIN q /\ s[i] = q[i] /\ q[i].id # 0
        BY <1>2, <1>5, <2>4, <3>2
      <4> QED BY <1>4, <2>4, <4>1 DEF Consistent, FreshIds
    <3> QED BY <3>1, <3>2
  <2> QED BY <2>1, <2>2, <2>3, <2>4 DEF FreshIds
<1>10. WillAgree(s, now, theirs)
  <2>1. ASSUME NEW c \in Channels, now[c] # 0, theirs[c] # now[c]
        PROVE  \E i \in DOMAIN s :
                 Joins(s[i]) /\ s[i].dest = c /\ s[i].id = now[c]
    BY <1>2, <1>4, <2>1 DEF Consistent, WillAgree
  <2>2. ASSUME NEW c \in Channels, theirs[c] # 0, theirs[c] # now[c]
        PROVE  Ends(s, 0, c, theirs[c])
    BY <1>3, <1>4, <1>8, <2>2 DEF Consistent, WillAgree
  <2>3. ASSUME NEW i \in DOMAIN s, Joins(s[i]), s[i].id # now[s[i].dest]
        PROVE  Ends(s, i, s[i].dest, s[i].id)
    <3>1. i \in DOMAIN q /\ s[i] = q[i] /\ q[i].dest \in Channels
      BY <1>2, <1>6, <2>3 DEF Requests, Joins
    <3> QED BY <1>3, <1>4, <1>7, <2>3, <3>1 DEF Consistent, WillAgree
  <2> QED BY <2>1, <2>2, <2>3 DEF WillAgree
<1> QED BY <1>9, <1>10 DEF Consistent, s, now
(* The server takes the request that is first.                             *)
LEMMA OtherTaken ==
  ASSUME NEW q \in Seq(Requests), q # <<>>, ~Joins(q[1]), ~Leaves(q[1]),
         NEW mine, NEW theirs, NEW next, Consistent(q, mine, theirs, next)
  PROVE  Consistent(Tail(q), mine, theirs, next)
<1> DEFINE t == Tail(q)
<1>1. /\ DOMAIN q = 1 .. Len(q) /\ Len(q) \in Nat /\ 1 \in DOMAIN q
      /\ DOMAIN t = 1 .. Len(q) - 1
      /\ \A i \in DOMAIN t : i + 1 \in DOMAIN q /\ t[i] = q[i + 1]
  BY Shorter
<1>2. /\ \A i \in DOMAIN t : i \in Nat /\ i + 1 \in DOMAIN q /\ t[i] = q[i + 1]
      /\ \A i, j \in DOMAIN t : i # j => i + 1 # j + 1
      /\ \A i \in DOMAIN q : i # 1 => i - 1 \in DOMAIN t /\ t[i - 1] = q[i]
  BY <1>1
<1>3. \A k \in Nat : \A c, id : Ends(q, k + 1, c, id) => Ends(t, k, c, id)
  BY EndsSooner
<1>4. \A c, id : Ends(q, 0, c, id) => Ends(t, 0, c, id)
  <2> SUFFICES ASSUME NEW c, NEW id, Ends(q, 0, c, id)
               PROVE  Ends(t, 0, c, id)
    OBVIOUS
  <2>1. PICK j \in DOMAIN q :
          j > 0 /\ (\/ Leaves(q[j]) /\ q[j].id = id
                    \/ Joins(q[j]) /\ q[j].dest = c)
    BY DEF Ends
  <2>2. j # 1
    BY <2>1
  <2>3. j - 1 \in DOMAIN t /\ t[j - 1] = q[j] /\ j - 1 > 0
    BY <1>1, <1>2, <2>2
  <2> QED BY <2>1, <2>3 DEF Ends
<1> HIDE DEF t
<1>5. FreshIds(t, mine, theirs, next)
  BY <1>2 DEF Consistent, FreshIds
<1>6. WillAgree(t, mine, theirs)
  <2>1. ASSUME NEW c \in Channels, mine[c] # 0, theirs[c] # mine[c]
        PROVE  \E i \in DOMAIN t :
                 Joins(t[i]) /\ t[i].dest = c /\ t[i].id = mine[c]
    <3>1. PICK i \in DOMAIN q :
            Joins(q[i]) /\ q[i].dest = c /\ q[i].id = mine[c]
      BY <2>1 DEF Consistent, WillAgree
    <3> QED BY <1>2, <3>1
  <2>2. \A c \in Channels : theirs[c] # 0 /\ theirs[c] # mine[c] =>
          Ends(t, 0, c, theirs[c])
    BY <1>4 DEF Consistent, WillAgree
  <2>3. ASSUME NEW i \in DOMAIN t, Joins(t[i]), t[i].id # mine[t[i].dest]
        PROVE  Ends(t, i, t[i].dest, t[i].id)
    <3>1. /\ i \in Nat /\ i + 1 \in DOMAIN q /\ t[i] = q[i + 1]
      BY <1>2
    <3>2. Ends(q, i + 1, t[i].dest, t[i].id)
      BY <2>3, <3>1 DEF Consistent, WillAgree
    <3> QED BY <1>3, <3>1, <3>2
  <2> QED BY <2>1, <2>2, <2>3 DEF WillAgree
<1> QED BY <1>5, <1>6 DEF Consistent, t

LEMMA JoinTaken ==
  ASSUME NEW q \in Seq(Requests), q # <<>>, Joins(q[1]),
         NEW mine \in [Channels -> Nat], NEW theirs \in [Channels -> Nat],
         NEW next, Consistent(q, mine, theirs, next),
         theirs[q[1].dest] = 0
  PROVE  Consistent(Tail(q), mine,
                    [theirs EXCEPT ![q[1].dest] = q[1].id], next)
<1> DEFINE t == Tail(q)
           c0 == q[1].dest
           n0 == q[1].id
           now == [theirs EXCEPT ![c0] = n0]
<1>1. /\ DOMAIN q = 1 .. Len(q) /\ Len(q) \in Nat /\ 1 \in DOMAIN q
      /\ q[1] \in Requests
      /\ DOMAIN t = 1 .. Len(q) - 1
      /\ \A i \in DOMAIN t : i + 1 \in DOMAIN q /\ t[i] = q[i + 1]
  BY Shorter
<1>2. /\ \A i \in DOMAIN t : /\ i \in Nat /\ i + 1 \in DOMAIN q
                             /\ i + 1 # 1 /\ t[i] = q[i + 1]
      /\ \A i, j \in DOMAIN t : i # j => i + 1 # j + 1
      /\ \A i \in DOMAIN q : i # 1 => i - 1 \in DOMAIN t /\ t[i - 1] = q[i]
  BY <1>1
<1>3. \A k \in Nat : \A c, id : Ends(q, k + 1, c, id) => Ends(t, k, c, id)
  BY EndsSooner
<1>4. /\ c0 \in Channels /\ n0 \in Nat /\ n0 # 0 /\ theirs[c0] = 0
      /\ 1 \in DOMAIN q /\ ~Leaves(q[1])
  BY <1>1, NumbersPositive DEF Requests, Joins, Leaves
<1>5. /\ now[c0] = n0
      /\ \A c \in Channels : c # c0 => now[c] = theirs[c]
  BY <1>4
<1>6. \A c \in Channels : \A id : c # c0 /\ Ends(q, 0, c, id) => Ends(t, 0, c, id)
  <2> SUFFICES ASSUME NEW c \in Channels, NEW id, c # c0, Ends(q, 0, c, id)
               PROVE  Ends(t, 0, c, id)
    OBVIOUS
  <2>1. PICK j \in DOMAIN q :
          j > 0 /\ (\/ Leaves(q[j]) /\ q[j].id = id
                    \/ Joins(q[j]) /\ q[j].dest = c)
    BY DEF Ends
  <2>2. j # 1
    BY <1>4, <2>1
  <2>3. j - 1 \in DOMAIN t /\ t[j - 1] = q[j] /\ j - 1 > 0
    BY <1>1, <1>2, <2>2
  <2> QED BY <2>1, <2>3 DEF Ends
<1>7. Ends(q, 0 + 1, c0, n0) => Ends(t, 0, c0, n0)
  BY <1>3
<1>8. /\ \A c \in Channels : theirs[c] # n0
      /\ n0 < next
      /\ \A j \in DOMAIN q : j # 1 /\ Joins(q[j]) => q[j].id # n0
  BY <1>4 DEF Consistent, FreshIds
<1> HIDE DEF t, c0, n0, now
<1>9. FreshIds(t, mine, now, next)
  <2>1. ASSUME NEW c \in Channels, NEW d \in Channels, c # d
        PROVE  /\ mine[c] # 0 => mine[c] # mine[d]
               /\ now[c] # 0 => now[c] # now[d]
    <3>1. CASE c = c0
      BY <1>4, <1>5, <1>8, <2>1, <3>1 DEF Consistent, FreshIds
    <3>2. CASE d = c0
      BY <1>4, <1>5, <1>8, <2>1, <3>2 DEF Consistent, FreshIds
    <3>3. CASE c # c0 /\ d # c0
      BY <1>5, <2>1, <3>3 DEF Consistent, FreshIds
    <3> QED BY <3>1, <3>2, <3>3
  <2>2. \A c \in Channels : now[c] < next
    BY <1>5, <1>8 DEF Consistent, FreshIds
  <2>3. ASSUME NEW i \in DOMAIN t, Joins(t[i])
        PROVE  /\ t[i].id < next
               /\ \A c \in Channels : now[c] # t[i].id
               /\ \A j \in DOMAIN t : j # i /\ Joins(t[j]) => t[j].id # t[i].id
    <3>1. i + 1 \in DOMAIN q /\ i + 1 # 1 /\ t[i] = q[i + 1]
      BY <1>2
    <3>2. /\ q[i + 1].id < next /\ q[i + 1].id # n0
          /\ \A c \in Channels : theirs[c] # q[i + 1].id
          /\ \A j \in DOMAIN q :
               j # i + 1 /\ Joins(q[j]) => q[j].id # q[i + 1].id
      BY <1>8, <2>3, <3>1 DEF Consistent, FreshIds
    <3>3. \A c \in Channels : now[c] # t[i].id
      BY <1>5, <3>1, <3>2
    <3> QED BY <1>2, <3>1, <3>2, <3>3
  <2>4. ASSUME NEW i \in DOMAIN t, Leaves(t[i])
        PROVE  t[i].id < next /\ \A c \in Channels : mine[c] # t[i].id
    BY <1>2, <2>4 DEF Consistent, FreshIds
  <2> QED BY <2>1, <2>2, <2>3, <2>4 DEF FreshIds
<1>10. WillAgree(t, mine, now)
  <2>1. ASSUME NEW c \in Channels, mine[c] # 0, now[c] # mine[c]
        PROVE  \E i \in DOMAIN t :
                 Joins(t[i]) /\ t[i].dest = c /\ t[i].id = mine[c]
    <3>1. theirs[c] # mine[c]
      BY <1>4, <1>5, <2>1
    <3>2. PICK i \in DOMAIN q :
            Joins(q[i]) /\ q[i].dest = c /\ q[i].id = mine[c]
      BY <2>1, <3>1 DEF Consistent, WillAgree
    <3>3. i # 1
      BY <1>5, <2>1, <3>2 DEF c0, n0
    <3> QED BY <1>2, <3>2, <3>3
  <2>2. ASSUME NEW c \in Channels, now[c] # 0, now[c] # mine[c]
        PROVE  Ends(t, 0, c, now[c])
    <3>1. CASE c = c0
      <4>1. n0 # mine[c0] /\ Joins(q[1])
        BY <1>5, <2>2, <3>1
      <4>2. Ends(q, 1, c0, n0)
        BY <1>4, <4>1 DEF Consistent, WillAgree, c0, n0
      <4> QED BY <1>5, <1>7, <3>1, <4>2
    <3>2. CASE c # c0
      BY <1>5, <1>6, <2>2, <3>2 DEF Consistent, WillAgree
    <3> QED BY <3>1, <3>2
  <2>3. ASSUME NEW i \in DOMAIN t, Joins(t[i]), t[i].id # mine[t[i].dest]
        PROVE  Ends(t, i, t[i].dest, t[i].id)
    <3>1. /\ i \in Nat /\ i + 1 \in DOMAIN q /\ t[i] = q[i + 1]
      BY <1>2
    <3>2. Ends(q, i + 1, t[i].dest, t[i].id)
      BY <2>3, <3>1 DEF Consistent, WillAgree
    <3> QED BY <1>3, <3>1, <3>2
  <2> QED BY <2>1, <2>2, <2>3 DEF WillAgree
<1> QED BY <1>9, <1>10 DEF Consistent, t, now, c0, n0

LEMMA LeaveTaken ==
  ASSUME NEW q \in Seq(Requests), q # <<>>, Leaves(q[1]),
         NEW mine \in [Channels -> Nat], NEW theirs \in [Channels -> Nat],
         NEW next \in Nat, Consistent(q, mine, theirs, next),
         NEW ch \in Channels, theirs[ch] = q[1].id
  PROVE  Consistent(Tail(q), mine, [theirs EXCEPT ![ch] = 0], next)
<1> DEFINE t == Tail(q)
           n0 == q[1].id
           now == [theirs EXCEPT ![ch] = 0]
<1>1. /\ DOMAIN q = 1 .. Len(q) /\ Len(q) \in Nat /\ 1 \in DOMAIN q
      /\ q[1] \in Requests
      /\ DOMAIN t = 1 .. Len(q) - 1
      /\ \A i \in DOMAIN t : i + 1 \in DOMAIN q /\ t[i] = q[i + 1]
  BY Shorter
<1>2. /\ \A i \in DOMAIN t : /\ i \in Nat /\ i + 1 \in DOMAIN q
                             /\ i + 1 # 1 /\ t[i] = q[i + 1]
      /\ \A i, j \in DOMAIN t : i # j => i + 1 # j + 1
      /\ \A i \in DOMAIN q : i # 1 => i - 1 \in DOMAIN t /\ t[i - 1] = q[i]
  BY <1>1
<1>3. \A k \in Nat : \A c, id : Ends(q, k + 1, c, id) => Ends(t, k, c, id)
  BY EndsSooner
<1>4. /\ n0 \in Nat /\ n0 # 0 /\ theirs[ch] = n0 /\ 1 \in DOMAIN q
      /\ ~Joins(q[1])
  BY <1>1, NumbersPositive DEF Joins, Leaves
<1>5. /\ now[ch] = 0
      /\ \A c \in Channels : c # ch => now[c] = theirs[c]
  OBVIOUS
<1>6. \A c \in Channels : \A id : id # n0 /\ Ends(q, 0, c, id) => Ends(t, 0, c, id)
  <2> SUFFICES ASSUME NEW c \in Channels, NEW id, id # n0, Ends(q, 0, c, id)
               PROVE  Ends(t, 0, c, id)
    OBVIOUS
  <2>1. PICK j \in DOMAIN q :
          j > 0 /\ (\/ Leaves(q[j]) /\ q[j].id = id
                    \/ Joins(q[j]) /\ q[j].dest = c)
    BY DEF Ends
  <2>2. j # 1
    BY <1>4, <2>1
  <2>3. j - 1 \in DOMAIN t /\ t[j - 1] = q[j] /\ j - 1 > 0
    BY <1>1, <1>2, <2>2
  <2> QED BY <2>1, <2>3 DEF Ends
<1>7. /\ \A c \in Channels : mine[c] # n0
      /\ \A c \in Channels : c # ch => theirs[c] # n0
  BY <1>4 DEF Consistent, FreshIds
<1> HIDE DEF t, n0, now
<1>8. FreshIds(t, mine, now, next)
  <2>1. ASSUME NEW c \in Channels, NEW d \in Channels, c # d
        PROVE  /\ mine[c] # 0 => mine[c] # mine[d]
               /\ now[c] # 0 => now[c] # now[d]
    BY <1>5, <2>1 DEF Consistent, FreshIds
  <2>2. \A c \in Channels : now[c] < next
    <3>1. /\ n0 < next /\ next > 0
      BY <1>4 DEF Consistent, FreshIds, n0
    <3> QED BY <1>5, <3>1 DEF Consistent, FreshIds
  <2>3. ASSUME NEW i \in DOMAIN t, Joins(t[i])
        PROVE  /\ t[i].id < next
               /\ \A c \in Channels : now[c] # t[i].id
               /\ \A j \in DOMAIN t : j # i /\ Joins(t[j]) => t[j].id # t[i].id
    <3>1. i + 1 \in DOMAIN q /\ i + 1 # 1 /\ t[i] = q[i + 1]
      BY <1>2
    <3>2. /\ q[i + 1].id < next /\ q[i + 1].id # 0
          /\ \A c \in Channels : theirs[c] # q[i + 1].id
          /\ \A j \in DOMAIN q :
               j # i + 1 /\ Joins(q[j]) => q[j].id # q[i + 1].id
      BY <2>3, <3>1, Entries, NumbersPositive DEF Consistent, FreshIds
    <3>3. \A c \in Channels : now[c] # t[i].id
      BY <1>5, <3>1, <3>2
    <3> QED BY <1>2, <3>1, <3>2, <3>3
  <2>4. ASSUME NEW i \in DOMAIN t, Leaves(t[i])
        PROVE  t[i].id < next /\ \A c \in Channels : mine[c] # t[i].id
    BY <1>2, <2>4 DEF Consistent, FreshIds
  <2> QED BY <2>1, <2>2, <2>3, <2>4 DEF FreshIds
<1>9. WillAgree(t, mine, now)
  <2>1. ASSUME NEW c \in Channels, mine[c] # 0, now[c] # mine[c]
        PROVE  \E i \in DOMAIN t :
                 Joins(t[i]) /\ t[i].dest = c /\ t[i].id = mine[c]
    <3>1. theirs[c] # mine[c]
      BY <1>4, <1>5, <1>7, <2>1
    <3>2. PICK i \in DOMAIN q :
            Joins(q[i]) /\ q[i].dest = c /\ q[i].id = mine[c]
      BY <2>1, <3>1 DEF Consistent, WillAgree
    <3>3. i # 1
      BY <1>4, <3>2
    <3> QED BY <1>2, <3>2, <3>3
  <2>2. ASSUME NEW c \in Channels, now[c] # 0, now[c] # mine[c]
        PROVE  Ends(t, 0, c, now[c])
    BY <1>5, <1>6, <1>7, <2>2 DEF Consistent, WillAgree
  <2>3. ASSUME NEW i \in DOMAIN t, Joins(t[i]), t[i].id # mine[t[i].dest]
        PROVE  Ends(t, i, t[i].dest, t[i].id)
    <3>1. /\ i \in Nat /\ i + 1 \in DOMAIN q /\ t[i] = q[i + 1]
      BY <1>2
    <3>2. Ends(q, i + 1, t[i].dest, t[i].id)
      BY <2>3, <3>1 DEF Consistent, WillAgree
    <3> QED BY <1>3, <3>1, <3>2
  <2> QED BY <2>1, <2>2, <2>3 DEF WillAgree
<1> QED BY <1>8, <1>9 DEF Consistent, t, now, n0
-----------------------------------------------------------------------------
(* Client and server stay consistent.                                      *)
LEMMA NothingAsked ==
  ASSUME NEW next \in Nat \ {0}
  PROVE  Consistent(<<>>, [ch \in Channels |-> 0], [ch \in Channels |-> 0],
                    next)
BY NoEntries DEF Consistent, FreshIds, WillAgree

LEMMA AskedTypes ==
  ASSUME StateTypeOK
  PROVE  Asked \in Seq(Requests)
<1>1. toServer \in Seq(Requests) /\ (main = "send" => task \in Requests)
  BY DEF StateTypeOK, FramesOK, TaskOK
<1> QED BY <1>1, AppendProperties DEF Asked

LEMMA AskedFirst ==
  ASSUME StateTypeOK, toServer # <<>>
  PROVE  /\ Asked # <<>> /\ Asked[1] = toServer[1]
         /\ Tail(Asked) = IF main = "send" THEN Append(Tail(toServer), task)
                                           ELSE Tail(toServer)
<1>1. toServer \in Seq(Requests) /\ (main = "send" => task \in Requests)
  BY DEF StateTypeOK, FramesOK, TaskOK
<1>2. CASE main = "send"
  <2>1. Asked = Append(toServer, task)
    BY <1>2 DEF Asked
  <2>2. Tail(Asked) = Append(Tail(toServer), task)
    BY <1>1, <2>1, HeadTailAppend
  <2>3. Asked # <<>> /\ Asked[1] = toServer[1]
    BY <1>1, <1>2, <2>1, AppendProperties, Shorter
  <2> QED BY <1>2, <2>2, <2>3
<1>3. CASE main # "send"
  BY <1>3 DEF Asked
<1> QED BY <1>2, <1>3

(* A step that leaves what has been asked for, and what is held, alone.    *)
LEMMA NothingNew ==
  ASSUME StateTypeOK, [Next]_vars,
         ~LoginStarts, ~LoginSends, ~Join, ~Exit, ~SendTask, ~ReportSends,
         ~LogoutSends, ~ServerStep
  PROVE  /\ UNCHANGED <<toServer, subIds, nextSub>>
         /\ server'.subs = server.subs /\ (server'.open => server.open)
         /\ main' = "send" <=> main = "send"
         /\ main = "send" => task' = task
         /\ connection' = "open" => connection = "open"
<1> USE DEF vars, maps, network, Typed, Obeying
<1>1. CASE LoginCannotConnect \/ EndOfInput
  BY <1>1 DEF LoginCannotConnect, EndOfInput
<1>2. ASSUME NEW c, NEW ch, Accepts(c, ch)
      PROVE  /\ UNCHANGED <<toServer, subIds, nextSub, server, connection>>
             /\ main = "prompt" /\ main' = "obey"
  BY <1>2 DEF Accepts
<1>3. CASE MainStep
  BY <1>3 DEF MainStep, ReportStores, LogoutNotes, LogoutAnnounces,
              LogoutEnds, LogoutTimesOut, JoinReader
<1>4. CASE ReaderStep
  BY <1>4 DEF ReaderStep, ReaderLoops, ReaderGets, ReaderFails,
              HandleConnected, HandleReceipt, HandleMessage, HandleError,
              ErrorEndsSession, ReaderTail, ReaderEnds
<1>5. CASE ServerDies
  BY <1>5 DEF ServerDies, StateTypeOK, FramesOK
<1>6. CASE UNCHANGED vars
  BY <1>6
<1> QED BY <1>1, <1>2, <1>3, <1>4, <1>5, <1>6 DEF Next

LEMMA AgreeStays ==
  ASSUME StateTypeOK, AgreeOK, [Next]_vars,
         main = "report" => reported \in Reports
  PROVE  AgreeOK'
<1> SUFFICES ASSUME connection' = "open", server'.open
             PROVE  Consistent(Asked', subIds', server'.subs, nextSub')
  BY DEF AgreeOK
<1>1. /\ toServer \in Seq(Requests) /\ Asked \in Seq(Requests)
      /\ FramesOK /\ nextSub \in Nat \ {0}
      /\ subIds \in [Channels -> Nat] /\ server.subs \in [Channels -> Nat]
      /\ \A c \in Channels : subIds[c] < nextSub
  BY AskedTypes DEF StateTypeOK, FramesOK, CountsOK, MapsOK
<1>2. StateTypeOK'
  BY StateTypeStays
<1> DEFINE Before == Consistent(Asked, subIds, server.subs, nextSub)
<1>3. connection = "open" /\ server.open => Before
  BY DEF AgreeOK
<1>4. CASE LoginStarts
  <2>1. /\ Asked' = <<>> /\ nextSub' = nextSub
        /\ subIds' = [ch \in Channels |-> 0]
        /\ server'.subs = [ch \in Channels |-> 0]
    BY <1>4 DEF LoginStarts, Asked, NewServer
  <2> QED BY <1>1, <2>1, NothingAsked
<1>5. CASE Join
  <2>1. /\ main = "obey" /\ main' = "send"
        /\ UNCHANGED <<toServer, server, connection>>
        /\ subIds' = [subIds EXCEPT ![task.ch] = nextSub]
        /\ nextSub' = nextSub + 1
        /\ Joins(task') /\ task'.id = nextSub /\ task'.dest = task.ch
    BY <1>5 DEF Join, Obeying, network, Joins
  <2>2. task' \in Requests /\ task'.dest \in Channels
    BY <1>2, <2>1 DEF StateTypeOK, TaskOK, Requests, Joins
  <2>3. Asked = toServer /\ Asked' = Append(toServer, task')
    BY <2>1 DEF Asked
  <2> QED BY <1>1, <1>3, <2>1, <2>2, <2>3, JoinAsked
<1>6. CASE Exit
  <2>1. /\ main = "obey" /\ task.ch \in Channels
        /\ UNCHANGED <<toServer, server, connection, nextSub>>
    BY <1>6 DEF Exit, Obeying, network, maps, StateTypeOK, TaskOK, TypedCommands
  <2>2. CASE subIds[task.ch] = 0
    <3>1. main' = "prompt" /\ subIds' = subIds
      BY <1>6, <2>2 DEF Exit, maps
    <3>2. Asked' = Asked
      BY <2>1, <3>1 DEF Asked
    <3> QED BY <1>3, <2>1, <3>1, <3>2
  <2>3. CASE subIds[task.ch] # 0
    <3>1. /\ main' = "send"
          /\ subIds' = [subIds EXCEPT ![task.ch] = 0]
          /\ Leaves(task') /\ task'.id = subIds[task.ch]
      BY <1>6, <2>3 DEF Exit, Leaves
    <3>2. task' \in Requests
      BY <1>2, <3>1 DEF StateTypeOK, TaskOK
    <3>3. Asked = toServer /\ Asked' = Append(toServer, task')
      BY <2>1, <3>1 DEF Asked
    <3> QED BY <1>1, <1>3, <2>1, <2>3, <3>1, <3>2, <3>3, LeaveAsked
  <2> QED BY <2>2, <2>3
<1>7. CASE SendTask
  <2>1. /\ main = "send" /\ main' = "prompt" /\ task \in Requests
        /\ UNCHANGED <<subIds, nextSub, connection>>
        /\ Delivered(task) \/ NotDelivered
    BY <1>7 DEF SendTask, maps, StateTypeOK, TaskOK
  <2>2. server' = server
        /\ (connection = "open" /\ server.open =>
              toServer' = Append(toServer, task))
    BY <1>1, <2>1, Passed
  <2>3. Asked' = Asked
    BY <2>1, <2>2 DEF Asked
  <2> QED BY <1>3, <2>1, <2>2, <2>3
<1>8. CASE LoginSends \/ ReportSends \/ LogoutSends
  <2>1. PICK r \in Requests : Sends(r) /\ (Delivered(r) \/ NotDelivered)
    BY <1>8, Sent
  <2>2. /\ main # "send" /\ main' # "send" /\ connection = "open"
        /\ UNCHANGED <<subIds, nextSub>>
    BY <1>8 DEF LoginSends, ReportSends, LogoutSends, maps
  <2>3. ~Joins(r) /\ ~Leaves(r)
    BY <2>1, <2>2 DEF Sends, SendTask, LogoutSends, ReportSends,
       StateTypeOK, TaskOK, Joins, Leaves
  <2>4. server' = server
        /\ (connection = "open" /\ server.open =>
              toServer' = Append(toServer, r))
    BY <1>1, <2>1, Passed
  <2>5. Asked = toServer /\ Asked' = Append(toServer, r)
    BY <2>2, <2>4 DEF Asked
  <2> QED BY <1>1, <1>3, <2>2, <2>3, <2>4, <2>5, OtherAsked
<1>9. CASE ServerStep
  <2>1. /\ server.open /\ toServer # <<>> /\ toServer' = Tail(toServer)
        /\ Taken(toServer[1]) \/ toServer[1].cmd = "DISCONNECT" \/ ~server'.open
    BY <1>1, <1>9, Served
  <2>2. UNCHANGED <<main, task, connection, subIds, nextSub>>
    BY <1>9 DEF ServerStep, maps
  <2>3. Taken(toServer[1])
    BY <1>1, <1>9, Served
  <2>4. Asked # <<>> /\ Asked[1] = toServer[1] /\ Asked' = Tail(Asked)
    BY <2>1, <2>2, AskedFirst DEF Asked
  <2>5. Before
    BY <1>3, <2>1, <2>2
  <2>6. CASE /\ Asked[1].cmd \in {"CONNECT", "SEND"}
             /\ server'.subs = server.subs
    <3>1. ~Joins(Asked[1]) /\ ~Leaves(Asked[1])
      BY <2>6 DEF Joins, Leaves
    <3> QED BY <1>1, <2>2, <2>4, <2>5, <2>6, <3>1, OtherTaken
  <2>7. CASE /\ Joins(Asked[1]) /\ server.subs[Asked[1].dest] = 0
             /\ server'.subs = [server.subs EXCEPT ![Asked[1].dest] =
                                  Asked[1].id]
    <3>1. Consistent(Tail(Asked), subIds,
                     [server.subs EXCEPT ![Asked[1].dest] = Asked[1].id],
                     nextSub)
      BY <1>1, <2>4, <2>5, <2>7, JoinTaken
    <3> QED BY <2>2, <2>4, <2>7, <3>1
  <2>8. ASSUME NEW ch \in Channels, Leaves(Asked[1]),
               server.subs[ch] = Asked[1].id,
               server'.subs = [server.subs EXCEPT ![ch] = 0]
        PROVE  Consistent(Asked', subIds', server'.subs, nextSub')
    <3>1. Consistent(Tail(Asked), subIds, [server.subs EXCEPT ![ch] = 0],
                     nextSub)
      BY <1>1, <2>4, <2>5, <2>8, LeaveTaken
    <3> QED BY <2>2, <2>4, <2>8, <3>1
  <2> QED BY <2>3, <2>4, <2>6, <2>7, <2>8 DEF Taken
<1>10. CASE ~(LoginStarts \/ LoginSends \/ Join \/ Exit \/ SendTask
              \/ ReportSends \/ LogoutSends \/ ServerStep)
  <2>1. Asked' = Asked
    BY <1>10, NothingNew DEF Asked
  <2> QED BY <1>3, <1>10, <2>1, NothingNew
<1> QED BY <1>4, <1>5, <1>6, <1>7, <1>8, <1>9, <1>10

-----------------------------------------------------------------------------
ClientOK == StateTypeOK /\ NotesOK /\ OrderOK /\ StoresOK /\ AgreeOK
              /\ SessionOK /\ JoinedMeansSubscribed

LEMMA ClientStarts == Init => ClientOK
<1> SUFFICES ASSUME Init PROVE ClientOK
  OBVIOUS
<1> USE NoEntries DEF Init
<1>1. PlacesOK /\ TaskOK
  BY DEF PlacesOK, TaskOK
<1>2. MapsOK
  BY DEF MapsOK, Ids, Reports, Actions
<1>3. FramesOK
  BY EmptySeq DEF FramesOK, NewServer
<1>4. CountsOK
  BY ClientAssumption DEF CountsOK
<1>5. NotesOK /\ OrderOK
  BY DEF NotesOK, OrderOK
<1>6. StoresOK
  BY DEF StoresOK, InFlight, Reports
<1>7. AgreeOK /\ SessionOK /\ JoinedMeansSubscribed
  BY DEF AgreeOK, SessionOK, SessionOff, JoinedMeansSubscribed
<1> QED BY <1>1, <1>2, <1>3, <1>4, <1>5, <1>6, <1>7 DEF ClientOK, StateTypeOK

LEMMA ClientStays ==
  ASSUME ClientOK, [Next]_vars
  PROVE  ClientOK'
<1>1. main = "report" => reported \in Reports
  BY DEF ClientOK, StoresOK
<1> QED
  BY <1>1, StateTypeStays, NotesStay, OrderStays, StoresStay, AgreeStays,
     SessionStays, JoinedStays DEF ClientOK

(* The inductive invariant.                                                *)
THEOREM ClientHolds == Spec => []ClientOK
BY ClientStarts, ClientStays, PTL DEF Spec

(* The client's variables keep their types: the maps' numbers are within   *)
(* the commands typed, and no report is stored more than twice (TypeOK).   *)
THEOREM TypesHold == Spec => []TypeOK
<1>1. ClientOK => TypeOK
  <2> SUFFICES ASSUME ClientOK PROVE TypeOK
    OBVIOUS
  <2>1. PlacesOK /\ MapsOK /\ FramesOK /\ TaskOK /\ CountsOK /\ NotesOK
        /\ StoresOK
    BY DEF ClientOK, StateTypeOK
  <2>2. {loggedIn, stopReader, awaiting} \subseteq BOOLEAN
    <3>1. \A f \in {loggedIn, stopReader, awaiting} : f = TRUE \/ f = FALSE
      BY <2>1 DEF PlacesOK
    <3> QED BY <3>1, Zenon
  <2>3. nextSub \in 1 .. MaxCommands + 1 /\ nextRcpt \in 1 .. MaxCommands + 1
    BY <2>1, ClientAssumption DEF CountsOK
  <2>4. subIds \in [Channels -> 0 .. MaxCommands]
    <3>1. ASSUME NEW ch \in Channels PROVE subIds[ch] \in 0 .. MaxCommands
      <4>1. subIds[ch] \in Nat /\ subIds[ch] < nextSub
        BY <2>1 DEF MapsOK
      <4> QED BY <2>3, <4>1, ClientAssumption
    <3> QED BY <2>1, <3>1 DEF MapsOK
  <2>5. \A r \in 1 .. MaxCommands :
          actions[r].what \in {"none", "join", "exit", "logout"}
    BY <2>1 DEF MapsOK, Ids, Actions, NoAction
  <2>6. \A r \in 1 .. MaxCommands * EventsPerFile : stored[r] \in 0 .. 2
    BY <2>1 DEF StoresOK, MapsOK, Reports
  <2>7. reported \in 0 .. MaxCommands * EventsPerFile
    <3> DEFINE room == typed * EventsPerFile
               most == MaxCommands * EventsPerFile
    <3>1. room \in Nat /\ most \in Nat /\ room <= most
      BY <2>1, Room, ClientAssumption DEF CountsOK
    <3>2. main \in {"obey", "report"} => task.left \in Nat \ {0}
      BY <2>1, ClientAssumption DEF TaskOK, TypedCommands
    <3>3. reported <= room /\ reported \in Nat
      <4>1. /\ main = "obey" => reported + task.left <= room
            /\ main = "report" => reported + task.left <= room + 1
            /\ main \notin {"obey", "report"} => reported <= room
            /\ reported \in Nat
        BY <2>1 DEF CountsOK
      <4> HIDE DEF room
      <4> QED BY <3>1, <3>2, <4>1
    <3> HIDE DEF room, most
    <3> QED BY <3>1, <3>3 DEF most
  <2>8. main \in {"obey", "report"} => task.left \in 1 .. EventsPerFile
    BY <2>1 DEF TaskOK, TypedCommands
  <2>9. main \in {"send", "logout"} => task.rcpt \in 1 .. nextRcpt - 1
    <3> SUFFICES ASSUME main \in {"send", "logout"}
                 PROVE  task.rcpt \in 1 .. nextRcpt - 1
      OBVIOUS
    <3>1. task.rcpt \in Ids /\ task.cmd \in WithReceipt
      BY <2>1 DEF TaskOK, Requests, WithReceipt
    <3>2. task.rcpt < nextRcpt
      BY <2>1, <3>1 DEF NotesOK, Noted
    <3> QED BY <2>1, <3>1, <3>2, ClientAssumption DEF Ids, CountsOK
  <2>10. reader = "handle" => incoming # NoFrame
    BY <2>1 DEF FramesOK, Replies, NoFrame
  <2> QED BY <2>1, <2>2, <2>3, <2>4, <2>5, <2>6, <2>7, <2>8, <2>9, <2>10
          DEF TypeOK, PlacesOK
<1> QED BY <1>1, ClientHolds, PTL

(* What the client says it joined or left, it has asked for, and that      *)
(* request was answered (JoinedMeansSubscribed).                           *)
THEOREM JoinedHolds == Spec => []JoinedMeansSubscribed
<1>1. ClientOK => JoinedMeansSubscribed
  BY DEF ClientOK
<1> QED BY <1>1, ClientHolds, PTL

(* When all is answered and the session is on, client and server agree on  *)
(* the subscriptions (SubscriptionsAgree).                                 *)
THEOREM AgreementHolds == Spec => []SubscriptionsAgree
<1>1. ClientOK => SubscriptionsAgree
  <2> SUFFICES ASSUME ClientOK, Settled PROVE subIds = server.subs
    BY DEF SubscriptionsAgree
  <2>1. connection = "open" /\ server.open /\ Asked = <<>>
    BY DEF Settled, ClientOK, StateTypeOK, PlacesOK, Asked
  <2>2. WillAgree(<<>>, subIds, server.subs)
    BY <2>1 DEF ClientOK, AgreeOK, Consistent
  <2>3. subIds \in [Channels -> Nat] /\ server.subs \in [Channels -> Nat]
    BY DEF ClientOK, StateTypeOK, MapsOK, FramesOK
  <2>4. \A c \in Channels : subIds[c] = server.subs[c]
    BY <2>2, <2>3, NoEntries DEF WillAgree, Ends
  <2> QED BY <2>3, <2>4
<1> QED BY <1>1, ClientHolds, PTL

(* Only a session that the server broke can make a login take the program  *)
(* down (LogoutThenLogin).                                                 *)
THEOREM LogoutsHold == Spec => []LogoutThenLogin
<1>1. ClientOK => LogoutThenLogin
  BY DEF ClientOK, SessionOK, Hurt, LogoutThenLogin
<1> QED BY <1>1, ClientHolds, PTL
=============================================================================
