--------------------------- MODULE ClientSession ---------------------------
(***************************************************************************)
(* The client program: the main thread, which obeys the commands typed at  *)
(* the keyboard, and the reader thread, which handles the frames of the    *)
(* server, with the flags, the maps and the connection they share.  One    *)
(* server connection at a time is at the other end: a login replaces it.   *)
(*                                                                         *)
(* The server is the one of this repository seen from one client: it       *)
(* answers the frames in order, echoes a report to its sender if it is     *)
(* subscribed, and closes after an ERROR or a logout receipt.              *)
(***************************************************************************)
EXTENDS Naturals, Sequences

CONSTANTS Channels,
          Commands,      \* bound: the commands the user types
          MaxCommands,   \* bound: how many of them
          EventsPerFile, \* bound: events in a file to report
          ServerMayDie   \* TRUE: the server may go away at any moment

ASSUME ClientAssumption ==
  /\ Commands \subseteq {"login", "join", "exit", "report", "logout", "eof"}
  /\ MaxCommands \in Nat /\ EventsPerFile \in Nat \ {0}
  /\ ServerMayDie \in BOOLEAN

VARIABLES
  main,       \* where the main thread is
  task,       \* the command, or the frame, it is busy with
  reader,     \* where the reader thread is; "none": not joinable
  incoming,   \* the frame the reader handles
  connection, \* the client's socket
  loggedIn, stopReader, awaiting,         \* the atomic flags
  subIds,     \* channelToSubId; 0: no entry
  actions,    \* receiptAction
  nextSub, nextRcpt,
  stored,     \* how often each report is in eventsByChannelAndUser
  reported,   \* reports sent so far
  screen,     \* what was printed, each line with the request it is about
  typed,      \* commands typed so far
  toServer, toClient,                     \* frames in flight
  server      \* the server's side of the connection

flags == <<loggedIn, stopReader, awaiting>>
maps == <<subIds, actions, nextSub, nextRcpt>>
network == <<toServer, toClient, server>>
vars == <<main, task, reader, incoming, connection, loggedIn, stopReader,
          awaiting, subIds, actions, nextSub, nextRcpt, stored, reported,
          screen, typed, toServer, toClient, server>>

NoTask == [cmd |-> "none"]
NoFrame == [kind |-> "none"]
NoAction == [what |-> "none"]
NewServer == [open |-> TRUE, died |-> FALSE, subs |-> [ch \in Channels |-> 0]]

Init ==
  /\ main = "prompt" /\ task = NoTask
  /\ reader = "none" /\ incoming = NoFrame
  /\ connection = "none"
  /\ loggedIn = FALSE /\ stopReader = FALSE /\ awaiting = FALSE
  /\ subIds = [ch \in Channels |-> 0]
  /\ actions = [r \in 1 .. MaxCommands |-> NoAction]
  /\ nextSub = 1 /\ nextRcpt = 1
  /\ stored = [r \in 1 .. MaxCommands * EventsPerFile |-> 0]
  /\ reported = 0
  /\ screen = {}
  /\ typed = 0
  /\ toServer = <<>> /\ toClient = <<>>
  /\ server = [NewServer EXCEPT !.open = FALSE]

(***************************************************************************)
(* sendFrame: it fails on a closed socket; a server that is gone may take  *)
(* a frame or refuse it.                                                   *)
(***************************************************************************)
Delivered(f) ==
  /\ connection = "open"
  /\ toServer' = IF server.open THEN Append(toServer, f) ELSE toServer
  /\ UNCHANGED <<toClient, server>>

NotDelivered ==
  /\ connection # "open" \/ ~server.open
  /\ UNCHANGED network

(* The main thread reads a line and tests loggedIn.                        *)
Typed(c) ==
  /\ main = "prompt" /\ typed < MaxCommands /\ c \in Commands
  /\ typed' = typed + 1

(* login, first part: a new connection replaces the old one, the maps are  *)
(* cleared and the reader is started; a std::thread that is assigned over  *)
(* a joinable one terminates the program.                                  *)
LoginStarts ==
  /\ Typed("login") /\ ~loggedIn
  /\ \/ /\ reader = "none"
        /\ main' = "connect" /\ reader' = "loop"
     \/ /\ reader # "none"
        /\ main' = "aborted" /\ UNCHANGED reader
  /\ connection' = "open"
  /\ loggedIn' = TRUE /\ stopReader' = FALSE
  /\ subIds' = [ch \in Channels |-> 0]
  /\ actions' = [r \in DOMAIN actions |-> NoAction]
  /\ toServer' = <<>> /\ toClient' = <<>>
  /\ server' = [NewServer EXCEPT !.died = server.died]
  /\ UNCHANGED <<task, incoming, awaiting, nextSub, nextRcpt, stored,
                 reported, screen>>

(* login, no connection: nothing changes, whatever is left of the last one.*)
LoginCannotConnect ==
  /\ Typed("login") /\ ~loggedIn
  /\ UNCHANGED <<main, task, reader, incoming, connection, flags, maps, stored,
                 reported, screen, network>>

(* login, second part: send CONNECT.                                       *)
LoginSends ==
  /\ main = "connect"
  /\ \/ /\ Delivered([cmd |-> "CONNECT"])
        /\ main' = "prompt"
        /\ UNCHANGED <<loggedIn, stopReader, connection>>
     \/ /\ NotDelivered
        /\ main' = "join"
        /\ loggedIn' = FALSE /\ stopReader' = TRUE /\ connection' = "closed"
  /\ UNCHANGED <<task, reader, incoming, awaiting, maps, stored, reported,
                 screen, typed>>

(* Any other command needs loggedIn; the test is a step of its own.        *)
Accepts(c, ch) ==
  /\ Typed(c) /\ loggedIn
  /\ main' = "obey" /\ task' = [cmd |-> c, ch |-> ch, left |-> EventsPerFile]
  /\ UNCHANGED <<reader, incoming, connection, flags, maps, stored, reported,
                 screen, network>>

Obeying(c) == main = "obey" /\ task.cmd = c

Join ==
  /\ Obeying("join")
  /\ subIds' = [subIds EXCEPT ![task.ch] = nextSub]
  /\ actions' = [actions EXCEPT ![nextRcpt] = [what |-> "join", ch |-> task.ch]]
  /\ nextSub' = nextSub + 1 /\ nextRcpt' = nextRcpt + 1
  /\ main' = "send"
  /\ task' = [cmd |-> "SUBSCRIBE", dest |-> task.ch, id |-> nextSub,
              rcpt |-> nextRcpt]
  /\ UNCHANGED <<reader, incoming, connection, flags, stored, reported, screen,
                 typed, network>>

(* Fault: the entry of the channel is kept.                                *)
ExitKeepingEntry ==
  /\ Obeying("exit")
  /\ \/ /\ subIds[task.ch] = 0
        /\ main' = "prompt" /\ task' = NoTask
        /\ UNCHANGED maps
     \/ /\ subIds[task.ch] # 0
        /\ actions' = [actions EXCEPT ![nextRcpt] =
                         [what |-> "exit", ch |-> task.ch]]
        /\ nextRcpt' = nextRcpt + 1
        /\ main' = "send"
        /\ task' = [cmd |-> "UNSUBSCRIBE", id |-> subIds[task.ch],
                    rcpt |-> nextRcpt]
        /\ UNCHANGED <<subIds, nextSub>>
  /\ UNCHANGED <<reader, incoming, connection, flags, stored, reported, screen,
                 typed, network>>

(* Fault: rid = nextReceiptId without the increment.                       *)
ExitReusingReceipt ==
  /\ Obeying("exit")
  /\ \/ /\ subIds[task.ch] = 0
        /\ main' = "prompt" /\ task' = NoTask
        /\ UNCHANGED maps
     \/ /\ subIds[task.ch] # 0
        /\ subIds' = [subIds EXCEPT ![task.ch] = 0]
        /\ actions' = [actions EXCEPT ![nextRcpt] =
                         [what |-> "exit", ch |-> task.ch]]
        /\ main' = "send"
        /\ task' = [cmd |-> "UNSUBSCRIBE", id |-> subIds[task.ch],
                    rcpt |-> nextRcpt]
        /\ UNCHANGED <<nextSub, nextRcpt>>
  /\ UNCHANGED <<reader, incoming, connection, flags, stored, reported, screen,
                 typed, network>>

Exit ==
  /\ Obeying("exit")
  /\ \/ /\ subIds[task.ch] = 0
        /\ main' = "prompt" /\ task' = NoTask
        /\ UNCHANGED maps
     \/ /\ subIds[task.ch] # 0
        /\ subIds' = [subIds EXCEPT ![task.ch] = 0]
        /\ actions' = [actions EXCEPT ![nextRcpt] =
                         [what |-> "exit", ch |-> task.ch]]
        /\ nextRcpt' = nextRcpt + 1
        /\ main' = "send"
        /\ task' = [cmd |-> "UNSUBSCRIBE", id |-> subIds[task.ch],
                    rcpt |-> nextRcpt]
        /\ UNCHANGED nextSub
  /\ UNCHANGED <<reader, incoming, connection, flags, stored, reported, screen,
                 typed, network>>

(* The result of sendFrame is ignored.                                     *)
SendTask ==
  /\ main = "send"
  /\ Delivered(task) \/ NotDelivered
  /\ main' = "prompt" /\ task' = NoTask
  /\ UNCHANGED <<reader, incoming, connection, flags, maps, stored, reported,
                 screen, typed>>

(* report, for every event of the file: store it, then send it.            *)
ReportStores ==
  /\ Obeying("report")
  /\ stored' = [stored EXCEPT ![reported + 1] = @ + 1]
  /\ reported' = reported + 1
  /\ main' = "report"
  /\ UNCHANGED <<task, reader, incoming, connection, flags, maps, screen,
                 typed, network>>

(* Fault: the loop runs once more than the file has events.                *)
ReportSendsOneMore ==
  /\ main = "report"
  /\ Delivered([cmd |-> "SEND", dest |-> task.ch, body |-> reported])
       \/ NotDelivered
  /\ \/ /\ task.left >= 1
        /\ main' = "obey" /\ task' = [task EXCEPT !.left = @ - 1]
     \/ /\ task.left = 0
        /\ main' = "prompt" /\ task' = NoTask
  /\ UNCHANGED <<reader, incoming, connection, flags, maps, stored, reported,
                 screen, typed>>

ReportSends ==
  /\ main = "report"
  /\ Delivered([cmd |-> "SEND", dest |-> task.ch, body |-> reported])
       \/ NotDelivered
  /\ \/ /\ task.left > 1
        /\ main' = "obey" /\ task' = [task EXCEPT !.left = @ - 1]
     \/ /\ task.left = 1
        /\ main' = "prompt" /\ task' = NoTask
  /\ UNCHANGED <<reader, incoming, connection, flags, maps, stored, reported,
                 screen, typed>>

(* logout: note the receipt; announce that it is awaited; send; wait.      *)
LogoutNotes ==
  /\ Obeying("logout")
  /\ actions' = [actions EXCEPT ![nextRcpt] = [what |-> "logout"]]
  /\ nextRcpt' = nextRcpt + 1
  /\ main' = "announce"
  /\ task' = [cmd |-> "DISCONNECT", rcpt |-> nextRcpt]
  /\ UNCHANGED <<reader, incoming, connection, flags, subIds, nextSub, stored,
                 reported, screen, typed, network>>

LogoutAnnounces ==
  /\ main = "announce"
  /\ main' = "logout" /\ awaiting' = TRUE
  /\ UNCHANGED <<task, reader, incoming, connection, loggedIn, stopReader,
                 maps, stored, reported, screen, typed, network>>

LogoutSends ==
  /\ main = "logout"
  /\ Delivered(task) \/ NotDelivered
  /\ main' = "wait" /\ task' = NoTask
  /\ UNCHANGED <<reader, incoming, connection, flags, maps, stored, reported,
                 screen, typed>>

(* Fault: the reader is not joined after its receipt came.                 *)
LogoutEndsUnjoined ==
  /\ main = "wait" /\ ~awaiting
  /\ main' = "prompt"
  /\ UNCHANGED <<task, reader, incoming, connection, flags, maps, stored,
                 reported, screen, typed, network>>

LogoutEnds ==
  /\ main = "wait" /\ ~awaiting
  /\ main' = "join"
  /\ UNCHANGED <<task, reader, incoming, connection, flags, maps, stored,
                 reported, screen, typed, network>>

(* Fault: wait instead of wait_for.                                        *)
LogoutNeverTimesOut == FALSE /\ UNCHANGED vars

(* Five seconds have passed; a notification may have been lost meanwhile,  *)
(* since the reader does not take the mutex the wait uses.                 *)
LogoutTimesOut ==
  /\ main = "wait" /\ awaiting
  /\ main' = "join"
  /\ awaiting' = FALSE /\ loggedIn' = FALSE /\ stopReader' = TRUE
  /\ connection' = "closed"
  /\ UNCHANGED <<task, reader, incoming, maps, stored, reported, screen, typed,
                 network>>

(* readerThread.join()                                                     *)
JoinReader ==
  /\ main \in {"join", "lastjoin"} /\ reader \in {"none", "ended"}
  /\ reader' = "none"
  /\ main' = IF main = "join" THEN "prompt" ELSE "exited"
  /\ UNCHANGED <<task, incoming, connection, flags, maps, stored, reported,
                 screen, typed, network>>

(* The end of the input.                                                   *)
EndOfInput ==
  /\ Typed("eof")
  /\ main' = "lastjoin"
  /\ loggedIn' = FALSE /\ stopReader' = TRUE
  /\ connection' = IF connection = "none" THEN "none" ELSE "closed"
  /\ UNCHANGED <<task, reader, incoming, awaiting, maps, stored, reported,
                 screen, network>>

(***************************************************************************)
(* The reader thread.                                                      *)
(***************************************************************************)
(* The loop test, and the entry of getFrameAscii on a closed socket.       *)
ReaderLoops ==
  /\ reader = "loop"
  /\ reader' = IF stopReader \/ connection = "closed" THEN "tail" ELSE "recv"
  /\ UNCHANGED <<main, task, incoming, connection, flags, maps, stored,
                 reported, screen, typed, network>>

(* A frame arrives, even if this end was closed while recv was blocked.    *)
ReaderGets ==
  /\ reader = "recv" /\ toClient # <<>>
  /\ reader' = "handle" /\ incoming' = Head(toClient)
  /\ toClient' = Tail(toClient)
  /\ UNCHANGED <<main, task, connection, flags, maps, stored, reported, screen,
                 typed, toServer, server>>

(* The server's end is closed; or this end was, and recv noticed, which it *)
(* need not when another thread closes the descriptor.                     *)
ReaderFails ==
  /\ reader = "recv"
  /\ (toClient = <<>> /\ ~server.open) \/ connection = "closed"
  /\ reader' = "tail"
  /\ UNCHANGED <<main, task, incoming, connection, flags, maps, stored,
                 reported, screen, typed, network>>

Handling(kind) == reader = "handle" /\ incoming.kind = kind

Prints(said) == screen' = screen \cup {[said |-> said, req |-> incoming.req]}

HandleConnected ==
  /\ Handling("CONNECTED")
  /\ Prints(<<"login">>)
  /\ reader' = "loop" /\ incoming' = NoFrame
  /\ UNCHANGED <<main, task, connection, flags, maps, stored, reported, typed,
                 network>>

(* Look the action up and erase it under the mutex, then act.              *)
HandleReceipt ==
  /\ Handling("RECEIPT")
  /\ actions' = [actions EXCEPT ![incoming.rcpt] = NoAction]
  /\ LET action == actions[incoming.rcpt]
     IN  \/ /\ action.what # "logout"
            /\ IF action = NoAction THEN UNCHANGED screen
               ELSE Prints(<<action.what, action.ch>>)
            /\ UNCHANGED <<connection, flags>>
         \/ /\ action.what = "logout"
            /\ awaiting' = FALSE /\ loggedIn' = FALSE /\ stopReader' = TRUE
            /\ connection' = "closed"
            /\ UNCHANGED screen
  /\ reader' = "loop" /\ incoming' = NoFrame
  /\ UNCHANGED <<main, task, subIds, nextSub, nextRcpt, stored, reported,
                 typed, network>>

HandleMessage ==
  /\ Handling("MESSAGE")
  /\ stored' = [stored EXCEPT ![incoming.req.body] = @ + 1]
  /\ reader' = "loop" /\ incoming' = NoFrame
  /\ UNCHANGED <<main, task, connection, flags, maps, reported, screen, typed,
                 network>>

(* awaiting is cleared first: a logout typed now sets it again.            *)
HandleError ==
  /\ Handling("ERROR")
  /\ Prints(<<"error">>)
  /\ awaiting' = FALSE
  /\ reader' = "error" /\ incoming' = NoFrame
  /\ UNCHANGED <<main, task, connection, loggedIn, stopReader, maps, stored,
                 reported, typed, network>>

ErrorEndsSession ==
  /\ reader = "error"
  /\ loggedIn' = FALSE /\ stopReader' = TRUE /\ connection' = "closed"
  /\ reader' = "loop"
  /\ UNCHANGED <<main, task, incoming, awaiting, maps, stored, reported,
                 screen, typed, network>>

(* After the loop: if the session was still on, it is over now.            *)
ReaderTail ==
  /\ reader = "tail"
  /\ \/ /\ loggedIn
        /\ loggedIn' = FALSE /\ reader' = "tail2"
     \/ /\ ~loggedIn
        /\ reader' = "ended" /\ UNCHANGED loggedIn
  /\ UNCHANGED <<main, task, incoming, connection, stopReader, awaiting, maps,
                 stored, reported, screen, typed, network>>

ReaderEnds ==
  /\ reader = "tail2"
  /\ awaiting' = FALSE /\ reader' = "ended"
  /\ UNCHANGED <<main, task, incoming, connection, loggedIn, stopReader, maps,
                 stored, reported, screen, typed, network>>

(***************************************************************************)
(* The server: process() for the frame that is next.                       *)
(***************************************************************************)
Answers(frames, subs, open) ==
  /\ toClient' = toClient \o frames
  /\ server' = [server EXCEPT !.subs = subs, !.open = open]

Refuses(f) == Answers(<<[kind |-> "ERROR", req |-> f]>>, server.subs, FALSE)
Receipt(f) == <<[kind |-> "RECEIPT", rcpt |-> f.rcpt, req |-> f]>>

(* A login may be refused whatever the client does; the rest follows from  *)
(* the subscriptions of the connection.                                    *)
Serve(f) ==
  \/ /\ f.cmd = "CONNECT"
     /\ \/ Answers(<<[kind |-> "CONNECTED", req |-> f]>>, server.subs, TRUE)
        \/ Refuses(f)
  \/ /\ f.cmd = "SUBSCRIBE"
     /\ IF server.subs[f.dest] = 0
        THEN Answers(Receipt(f), [server.subs EXCEPT ![f.dest] = f.id], TRUE)
        ELSE Refuses(f)
  \/ /\ f.cmd = "UNSUBSCRIBE"
     /\ LET held == {ch \in Channels : server.subs[ch] = f.id}
        IN  IF held = {} THEN Refuses(f)
            ELSE \E ch \in held :
                   Answers(Receipt(f), [server.subs EXCEPT ![ch] = 0], TRUE)
  \/ /\ f.cmd = "SEND"
     /\ IF server.subs[f.dest] # 0
        THEN Answers(<<[kind |-> "MESSAGE", req |-> f]>>, server.subs, TRUE)
        ELSE Refuses(f)
  \/ /\ f.cmd = "DISCONNECT"
     /\ Answers(Receipt(f), [ch \in Channels |-> 0], FALSE)

ServerStep ==
  /\ server.open /\ toServer # <<>>
  /\ Serve(Head(toServer))
  /\ toServer' = Tail(toServer)
  /\ UNCHANGED <<main, task, reader, incoming, connection, flags, maps, stored,
                 reported, screen, typed>>

ServerDies ==
  /\ ServerMayDie /\ server.open
  /\ server' = [server EXCEPT !.open = FALSE, !.died = TRUE]
  /\ UNCHANGED <<main, task, reader, incoming, connection, flags, maps, stored,
                 reported, screen, typed, toServer, toClient>>

MainStep ==
  \/ LoginSends \/ Join \/ Exit \/ SendTask \/ ReportStores \/ ReportSends
  \/ LogoutNotes \/ LogoutAnnounces \/ LogoutSends \/ LogoutEnds
  \/ LogoutTimesOut \/ JoinReader

ReaderStep ==
  \/ ReaderLoops \/ ReaderGets \/ ReaderFails \/ HandleConnected
  \/ HandleReceipt \/ HandleMessage \/ HandleError \/ ErrorEndsSession
  \/ ReaderTail \/ ReaderEnds

Next ==
  \/ LoginStarts \/ LoginCannotConnect \/ EndOfInput
  \/ \E c \in {"join", "exit", "report"}, ch \in Channels : Accepts(c, ch)
  \/ \E ch \in Channels : Accepts("logout", ch)
  \/ MainStep \/ ReaderStep \/ ServerStep \/ ServerDies

(* Threads run, the network delivers and a server that is up answers; recv *)
(* is not assumed to notice that another thread closed its socket.         *)
Fairness ==
  /\ WF_vars(MainStep)
  /\ WF_vars(ReaderStep /\ (reader = "recv" => toClient # <<>> \/ ~server.open))
  /\ WF_vars(ServerStep)

Spec == Init /\ [][Next]_vars /\ Fairness

-----------------------------------------------------------------------------
(* What the variables may hold.                                            *)
TypeOK ==
  /\ main \in {"prompt", "connect", "obey", "send", "report", "announce",
               "logout", "wait", "join", "lastjoin", "exited", "aborted"}
  /\ reader \in {"none", "loop", "recv", "handle", "error", "tail", "tail2",
                 "ended"}
  /\ connection \in {"none", "open", "closed"}
  /\ {loggedIn, stopReader, awaiting} \subseteq BOOLEAN
  /\ subIds \in [Channels -> 0 .. MaxCommands]
  /\ nextSub \in 1 .. MaxCommands + 1 /\ nextRcpt \in 1 .. MaxCommands + 1
  /\ \A r \in 1 .. MaxCommands : actions[r].what \in
       {"none", "join", "exit", "logout"}
  /\ \A r \in 1 .. MaxCommands * EventsPerFile : stored[r] \in 0 .. 2
  /\ reported \in 0 .. MaxCommands * EventsPerFile
  /\ main \in {"obey", "report"} => task.left \in 1 .. EventsPerFile
  /\ main \in {"send", "logout"} => task.rcpt \in 1 .. nextRcpt - 1
  /\ reader = "handle" => incoming # NoFrame

(* The client says it joined or left a channel only for a receipt that     *)
(* answers its SUBSCRIBE or UNSUBSCRIBE of that channel, over several      *)
(* commands in flight and several sessions (receipt ids are never reused). *)
JoinedMeansSubscribed ==
  \A line \in screen :
    /\ line.said[1] = "join" =>
         line.req.cmd = "SUBSCRIBE" /\ line.req.dest = line.said[2]
    /\ line.said[1] = "exit" => line.req.cmd = "UNSUBSCRIBE"

(* When everything typed has been answered and the session is still on,    *)
(* client and server agree on the subscriptions.                           *)
Settled ==
  /\ main = "prompt" /\ loggedIn /\ reader = "recv" /\ server.open
  /\ toServer = <<>> /\ toClient = <<>>

SubscriptionsAgree == Settled => subIds = server.subs

(* After a logout the user can log in again: the reader has been joined    *)
(* before the prompt returns.  Only a session the server broke is not.     *)
LogoutThenLogin ==
  main = "aborted" =>
    server.died \/ \E line \in screen : line.said[1] = "error"

(* A login command never takes the program down.                           *)
LoginNeverAborts == main # "aborted"

(* The client keeps every report once, so that a summary's total is the    *)
(* number of reports.                                                      *)
ReportsCountOnce == \A r \in DOMAIN stored : stored[r] <= 1

(* Every command returns to the prompt: no wait is missed and no join      *)
(* hangs, as long as the server answers or goes away.  The end of the      *)
(* input may hang, in the join of a reader that waits for a server that is *)
(* up and silent.                                                          *)
CommandsReturn ==
  main \notin {"prompt", "lastjoin", "exited", "aborted"} ~>
    main \in {"prompt", "exited"}
============================================================================
