---------------------------- MODULE EventReports ----------------------------
(***************************************************************************)
(* The way of an event: from the JSON file a client reports, through the   *)
(* body of a SEND, the server's StompMessage and the MESSAGE of every      *)
(* subscriber, into the stores of all clients and from there into the file *)
(* a summary writes.                                                       *)
(*                                                                         *)
(* A text is a sequence of lines, and a line is what its first colon makes *)
(* of it: a key and a value, or a value alone.  The connections are those  *)
(* StompBroker promises: a subscriber gets the messages of one publisher   *)
(* in order and once.  All clients are logged in and have joined all       *)
(* channels throughout.                                                    *)
(***************************************************************************)
EXTENDS Integers, Sequences, FiniteSets, TLC, SequencesExt

CONSTANTS
  Clients, Users, Channels,
  UserOf,    \* the user each client is logged in as
  SubIdOf,   \* the id under which it has joined the channels
  Files,     \* the event files each client may report, one of them
  Padded,    \* texts with space around them, and what trim makes of them
  NameRank,  \* the lexical order of the texts
  IntMax     \* the greatest int

(* The numbers an int holds, and std::to_string.                           *)
Ints == -IntMax - 1 .. IntMax
Decimal(n) == ToString(n)

(* What has no colon has no key: this stands for it.                       *)
NoColon == "no colon"
Fields == {"user", "city", "event name", "date time"}
Words == Fields \cup {"general information", "description", "subscription",
                    "destination"}
SubIdMark == "%%SUB_ID%%"
Trim(t) == IF t \in DOMAIN Padded THEN Padded[t] ELSE t
Texts == DOMAIN NameRank
Lines == [key : Texts \cup {NoColon}, val : Texts]

(* An event file is a list of events.  A date stands for a number of       *)
(* seconds, a description is a list of lines, and the general information  *)
(* a finite map whose keys are keys.                                       *)
ASSUME EventAssumption ==
  /\ IntMax \in Nat
  /\ \A c \in Clients : \A f \in Files[c] :
       /\ f.events \in Seq(ToSet(f.events))
       /\ \A ev \in ToSet(f.events) :
            /\ ev.date.secs \in Int
            /\ ev.description \in Seq(ToSet(ev.description))
            /\ IsFiniteSet(DOMAIN ev.info) /\ NoColon \notin DOMAIN ev.info

(* Nothing is left to trim of a trimmed text, of a name the client gives,  *)
(* of a word of a command, or of a number, which is one the text stands    *)
(* for and no mark.  The id of a subscription is the text of a number.     *)
ASSUME TextAssumption ==
  /\ \A t \in DOMAIN Padded : Trim(Trim(t)) = Trim(t)
  /\ \A t \in Fields \cup {"destination"} : Trim(t) = t
  /\ \A n \in Ints : /\ Trim(Decimal(n)) = Decimal(n)
                    /\ Decimal(n) # SubIdMark
                    /\ \A m \in Ints : Decimal(m) = Decimal(n) => m = n
  /\ \A c \in Clients : Trim(UserOf[c]) = UserOf[c] /\ SubIdOf[c] # ""

(* Nobody logs in without a name, and the files are for channels that the  *)
(* clients have joined.                                                    *)
ASSUME NamesAssumption ==
  \A c \in Clients : /\ UserOf[c] \in Users \ {""}
                     /\ \A f \in Files[c] : Trim(f.channel) \in Channels

(* Whatever comes of the texts of a file has its place among the texts.    *)
ASSUME RankAssumption ==
  /\ Words \subseteq Texts /\ "" \in Texts
  /\ \A t \in Texts : Trim(t) \in Texts
  /\ \A n \in Ints : Decimal(n) \in Texts
  /\ \A c \in Clients :
       /\ UserOf[c] \in Texts /\ SubIdOf[c] \in Texts
       /\ \A f \in Files[c] :
            /\ Trim(f.channel) \in Texts
            /\ \A ev \in ToSet(f.events) :
                 /\ ev.city \in Texts /\ ev.name \in Texts
                 /\ ToSet(ev.description) \subseteq Lines
                 /\ \A k \in DOMAIN ev.info :
                      k \in Texts /\ ev.info[k] \in Texts

VARIABLES
  job,       \* events the report command of each client has still to send
  reported,  \* the records it has sent so far
  wire,      \* MESSAGE frames on their way, by publisher and subscriber
  store,     \* eventsByChannelAndUser of each client
  written    \* the file the last summary of each client wrote

vars == <<job, reported, wire, store, written>>

(***************************************************************************)
(* Lines.                                                                  *)
(***************************************************************************)
Line(key, val) == [key |-> key, val |-> val]
Text(val) == Line(NoColon, val)
Blank == Text("")
Heading(name) == Line(name, "")

NotBlank(l) == l # Blank
KeepLine(lines, l) == IF NotBlank(l) THEN Append(lines, l) ELSE lines
WithoutBlanks(lines) == FoldLeft(KeepLine, <<>>, lines)

(***************************************************************************)
(* parseEventsFile.  A date is the form it has in the file and the seconds *)
(* it stands for: a JSON number is cut to an int, a string of digits must  *)
(* fit, a calendar date is what mktime and a cast to int make of it, and   *)
(* any other value is refused.                                             *)
(***************************************************************************)
Wrap(n) == ((n + IntMax + 1) % (2 * IntMax + 2)) - IntMax - 1

Readable(date) ==
  \/ date.form = "number"
  \/ date.form = "digits" /\ date.secs <= IntMax
  \/ date.form = "calendar" /\ date.secs # -1

(* Fault: the date is kept in a wider type.                                *)
WideDateOf(date) == date.secs

DateOf(date) == Wrap(date.secs)

Record(c, channel, ev) ==
  [channel |-> Trim(channel), user |-> UserOf[c], city |-> ev.city,
   eventName |-> ev.name, dateTime |-> DateOf(ev.date),
   description |-> ev.description, info |-> ev.info]

(***************************************************************************)
(* The body of a report, and the frames around it.  The keys of a std::map *)
(* come in order; since no two of them are equal their order is immaterial.*)
(***************************************************************************)
InfoLines(info) ==
  LET keys == SetToSeq(DOMAIN info)
  IN  [i \in DOMAIN keys |-> Line(keys[i], info[keys[i]])]

Body(r) ==
  <<Line("user", r.user), Line("city", r.city),
    Line("event name", r.eventName), Line("date time", Decimal(r.dateTime)),
    Heading("general information")>>
  \o InfoLines(r.info) \o <<Heading("description")>> \o r.description

SendFrame(r) == <<Line("destination", r.channel), Blank>> \o Body(r)

(* The map f with val under key.                                           *)
With(f, key, val) ==
  [k \in DOMAIN f \cup {key} |-> IF k = key THEN val ELSE f[k]]

(* A header given twice counts as given last.  The client trims the texts, *)
(* the server takes them as they are.                                      *)
AddHeader(headers, l) == With(headers, l.key, l.val)
Headers(lines) == FoldLeft(AddHeader, <<>>, lines)

Trimmed(lines) ==
  [i \in DOMAIN lines |-> Line(Trim(lines[i].key), Trim(lines[i].val))]

FirstBlank(frame) ==
  CHOOSE i \in DOMAIN frame :
    frame[i] = Blank /\ \A j \in 1 .. i - 1 : NotBlank(frame[j])

(* Fault: a second blank line ends the body.                               *)
StompMessageToBlank(frame) ==
  LET k == FirstBlank(frame)
      rest == SubSeq(frame, k + 1, Len(frame)) \o <<Blank>>
  IN  [headers |-> Headers(SubSeq(frame, 1, k - 1)),
       body |-> SubSeq(rest, 1, FirstBlank(rest) - 1)]

(* The server's parser: the first blank line ends the headers, every later *)
(* one is dropped.                                                         *)
StompMessage(frame) ==
  LET k == FirstBlank(frame)
  IN  [headers |-> Headers(SubSeq(frame, 1, k - 1)),
       body |-> WithoutBlanks(SubSeq(frame, k + 1, Len(frame)))]

(* handleSend, and send(channel) for one subscriber: the mark is replaced  *)
(* wherever it stands in the frame.                                        *)
Marked(l, d) == IF l.val = SubIdMark THEN Line(l.key, SubIdOf[d]) ELSE l

MessageFrame(m, d) ==
  LET frame == <<Line("subscription", SubIdMark),
                 Line("destination", m.headers["destination"]), Blank>>
                 \o m.body
  IN  [i \in DOMAIN frame |-> Marked(frame[i], d)]

(* What a subscriber is sent of a report.                                  *)
Delivered(r, d) == MessageFrame(StompMessage(SendFrame(r)), d)

(***************************************************************************)
(* parseFrame and parseEventFromMessageBody.                               *)
(***************************************************************************)
ParseFrame(frame) ==
  LET k == FirstBlank(frame)
  IN  [headers |-> Headers(Trimmed(SubSeq(frame, 1, k - 1))),
       body |-> SubSeq(frame, k + 1, Len(frame))]

(* std::stoi, or zero if the text is no int.                               *)
Stoi(t) ==
  IF \E n \in Ints : Decimal(n) = t THEN CHOOSE n \in Ints : Decimal(n) = t
  ELSE 0

Field(st, key, val) ==
  CASE key = "user" -> [st EXCEPT !.rec.user = val]
    [] key = "city" -> [st EXCEPT !.rec.city = val]
    [] key = "event name" -> [st EXCEPT !.rec.eventName = val]
    [] key = "date time" -> [st EXCEPT !.rec.dateTime = Stoi(val)]
    [] OTHER -> IF st.part = "general"
                THEN [st EXCEPT !.rec.info = With(@, key, val)] ELSE st

(* Fault: fields are looked for in the description, too.                   *)
ParseLineEverywhere(st, l) ==
  CASE l = Blank -> st
    [] l = Heading("general information") -> [st EXCEPT !.part = "general"]
    [] l = Heading("description") -> [st EXCEPT !.part = "description"]
    [] OTHER ->
         IF l.key # NoColon THEN Field(st, Trim(l.key), Trim(l.val))
         ELSE IF st.part = "description"
              THEN [st EXCEPT !.rec.description = Append(@, l)] ELSE st

ParseLine(st, l) ==
  CASE l = Blank -> st
    [] l = Heading("general information") -> [st EXCEPT !.part = "general"]
    [] l = Heading("description") -> [st EXCEPT !.part = "description"]
    [] OTHER ->
         IF st.part = "description"
         THEN [st EXCEPT !.rec.description = Append(@, l)]
         ELSE IF l.key # NoColon
              THEN Field(st, Trim(l.key), Trim(l.val)) ELSE st

ParseEvent(frame) ==
  LET pf == ParseFrame(frame)
      start == [part |-> "fields",
                rec |-> [channel |-> pf.headers["destination"], user |-> "",
                         city |-> "", eventName |-> "", dateTime |-> 0,
                         description |-> <<>>, info |-> <<>>]]
  IN  FoldLeft(ParseLine, start, pf.body).rec

(* Fault: a user's earlier records are overwritten.                        *)
StoredOver(events, r) ==
  [events EXCEPT ![r.channel][r.user] = <<r>>]

(* storeEvent.                                                             *)
Stored(events, r) ==
  [events EXCEPT ![r.channel][r.user] = Append(@, r)]

(***************************************************************************)
(* The clients.                                                            *)
(***************************************************************************)
NoSummary == [channel |-> "", user |-> "", active |-> 0, forces |-> 0,
              reports |-> <<>>]

Init ==
  /\ job = [c \in Clients |-> <<>>]
  /\ reported = [c \in Clients |-> <<>>]
  /\ wire = [c \in Clients |-> [d \in Clients |-> <<>>]]
  /\ store = [c \in Clients |-> [ch \in Channels |-> [u \in Users |-> <<>>]]]
  /\ written = [c \in Clients |-> NoSummary]

RecordsOf(c, f) ==
  [i \in DOMAIN f.events |-> Record(c, f.channel, f.events[i])]

(* Fault: events are sent up to the first that cannot be read.             *)
ReportStartsPartly(c) ==
  /\ job[c] = <<>> /\ reported[c] = <<>>
  /\ \E f \in Files[c] :
       LET good == {i \in DOMAIN f.events :
                      \A j \in 1 .. i : Readable(f.events[j].date)}
       IN  job' = [job EXCEPT ![c] =
                     SubSeq(RecordsOf(c, f), 1, Cardinality(good))]
  /\ UNCHANGED <<reported, wire, store, written>>

(* report: the whole file is parsed before anything is sent.               *)
ReportStarts(c) ==
  /\ job[c] = <<>> /\ reported[c] = <<>>
  /\ \E f \in Files[c] :
       /\ \A i \in DOMAIN f.events : Readable(f.events[i].date)
       /\ job' = [job EXCEPT ![c] = RecordsOf(c, f)]
  /\ UNCHANGED <<reported, wire, store, written>>

(* One event is stored and sent; the server passes it on to every          *)
(* subscriber, its sender included.                                        *)
ReportNext(c) ==
  /\ job[c] # <<>>
  /\ job' = [job EXCEPT ![c] = Tail(@)]
  /\ LET r == Head(job[c])
     IN  /\ reported' = [reported EXCEPT ![c] = Append(@, r)]
         /\ store' = [store EXCEPT ![c] = Stored(@, r)]
         /\ wire' = [wire EXCEPT ![c] = [d \in Clients |->
              Append(@[d], Delivered(r, d))]]
  /\ UNCHANGED written

(* The reader of d, MESSAGE: an event without a user is ignored.           *)
ReceiveMessage(c, d) ==
  /\ wire[c][d] # <<>>
  /\ wire' = [wire EXCEPT ![c][d] = Tail(@)]
  /\ LET r == ParseEvent(Head(wire[c][d]))
     IN  store' = IF r.user = "" THEN store
                  ELSE [store EXCEPT ![d] = Stored(@, r)]
  /\ UNCHANGED <<job, reported, written>>

(* Fault: only names are compared.                                         *)
BeforeByName(a, b) == NameRank[a.eventName] < NameRank[b.eventName]

Before(a, b) ==
  \/ a.dateTime < b.dateTime
  \/ a.dateTime = b.dateTime /\ NameRank[a.eventName] < NameRank[b.eventName]

(* std::sort may leave equal elements in any order.                        *)
SortedAlike(s) ==
  {t \in {[i \in DOMAIN s |-> s[p[i]]] : p \in Bijection(DOMAIN s, DOMAIN s)} :
     \A i, j \in DOMAIN t : i < j => ~Before(t[j], t[i])}

CountTrue(s, key) ==
  Cardinality({i \in DOMAIN s : key \in DOMAIN s[i].info
                                  /\ s[i].info[key] = "true"})

(* summary: of the records it has of one user on one channel.  The main    *)
(* thread runs it between two commands.                                    *)
Summary(c, ch, u) ==
  /\ job[c] = <<>>
  /\ \E t \in SortedAlike(store[c][ch][u]) :
       written' = [written EXCEPT ![c] =
         [channel |-> ch, user |-> u, reports |-> t,
          active |-> CountTrue(t, "active"),
          forces |-> CountTrue(t, "forces_arrival_at_scene")]]
  /\ UNCHANGED <<job, reported, wire, store>>

Next ==
  \/ \E c \in Clients : ReportStarts(c) \/ ReportNext(c)
  \/ \E c, d \in Clients : ReceiveMessage(c, d)
  \/ \E c \in Clients, ch \in Channels, u \in Users : Summary(c, ch, u)

Spec == Init /\ [][Next]_vars

-----------------------------------------------------------------------------
IsRecord(r) ==
  /\ r.channel \in Channels /\ r.user \in Users
  /\ r.city \in Texts /\ r.eventName \in Texts
  /\ r.dateTime \in Ints
  /\ \A i \in DOMAIN r.description : r.description[i] \in Lines
  /\ \A k \in DOMAIN r.info : r.info[k] \in Texts

(* Every record, sent or stored, is well-formed and lies where its channel *)
(* and user say, and its date fits in an int.                              *)
TypeOK ==
  \A c \in Clients :
    /\ \A i \in DOMAIN job[c] : IsRecord(job[c][i])
    /\ \A i \in DOMAIN reported[c] : IsRecord(reported[c][i])
    /\ \A ch \in Channels, u \in Users : \A i \in DOMAIN store[c][ch][u] :
         LET r == store[c][ch][u][i]
         IN  IsRecord(r) /\ r.channel = ch /\ r.user = u
    /\ \A d \in Clients : \A i \in DOMAIN wire[c][d] :
         \A j \in DOMAIN wire[c][d][i] : wire[c][d][i][j] \in Lines

(* A report whose texts the body's own syntax does not collide with: no    *)
(* general information named like a field or with space around its name,   *)
(* no line that looks like a section heading, and no text that holds the   *)
(* mark of the subscription id.                                            *)
Headings == {Heading("general information"), Heading("description")}
Plain(r) ==
  /\ SubIdMark \notin {r.channel, r.user, r.city, r.eventName}
  /\ \A k \in DOMAIN r.info : k \notin Fields /\ Trim(k) = k
  /\ \A i \in DOMAIN r.description :
       r.description[i] \notin Headings /\ r.description[i].val # SubIdMark
  /\ \A k \in DOMAIN r.info :
       Line(k, r.info[k]) \notin Headings /\ r.info[k] # SubIdMark

(* What is left of it on the way: blank lines and outer spaces are not.    *)
Clean(r) ==
  [r EXCEPT !.city = Trim(@), !.eventName = Trim(@),
            !.description = WithoutBlanks(@),
            !.info = [k \in DOMAIN @ |-> Trim(@[k])]]

Occurs(s, r) == Cardinality({i \in DOMAIN s : s[i] = r})
Arrived(c, d) == Len(reported[c]) - Len(wire[c][d])

(* No other report equals a plain one or comes out like it, neither as it  *)
(* is sent nor as it is read.                                              *)
ReportsDiffer ==
  \A b, c, d \in Clients : \A f \in Files[b], g \in Files[c] :
    \A i \in DOMAIN f.events, j \in DOMAIN g.events :
      LET r == RecordsOf(b, f)[i]
          q == RecordsOf(c, g)[j]
      IN  Plain(r) /\ (b # c \/ (f = g /\ i # j)) =>
            {q, ParseEvent(Delivered(q, d))} \cap {r, Clean(r)} = {}

(* A plain report reaches the store of every client under its reporter's   *)
(* name, complete, once for every time it arrives and, at the reporter,    *)
(* once more as it was sent, whatever the texts of the reports around it   *)
(* do to the parsers.                                                      *)
EachReportIsKept ==
  \A c, d \in Clients : \A i \in DOMAIN reported[c] :
    LET r == reported[c][i]
        held == store[d][r.channel][r.user]
        echoed == IF i <= Arrived(c, d) THEN 1 ELSE 0
        own == IF c = d THEN 1 ELSE 0
    IN  Plain(r) =>
          IF Clean(r) = r THEN Occurs(held, r) = echoed + own
          ELSE Occurs(held, Clean(r)) = echoed /\ Occurs(held, r) = own

(* The lines of a report that can tell a parser whose it is: that of the   *)
(* user, general information of this name and, in a description that has   *)
(* the heading of the general information, what follows it.                *)
UserLines(r) ==
  {Line("user", r.user)}
    \cup {Line(k, r.info[k]) : k \in {k \in DOMAIN r.info : Trim(k) = "user"}}
    \cup {r.description[i] : i \in {i \in DOMAIN r.description :
            /\ Trim(r.description[i].key) = "user"
            /\ \E j \in 1 .. i - 1 :
                 r.description[j] = Heading("general information")}}

(* What a client holds under a user's name was reported by that user, or   *)
(* names the user in such a line: no other line of a description does.     *)
AttributedToReporter ==
  \A d \in Clients, ch \in Channels, u \in Users :
    store[d][ch][u] # <<>> =>
      \E c \in Clients : \E i \in DOMAIN reported[c] :
        LET r == reported[c][i]
        IN  u = r.user \/ \E l \in UserLines(r) : u = Trim(Marked(l, d).val)

(* A file is reported as a whole or not at all: one date that cannot be    *)
(* read keeps back the events before it, too.                              *)
WholeFilesOnly ==
  \A c \in Clients : job[c] = <<>> /\ reported[c] # <<>> =>
    \E f \in Files[c] : reported[c] = RecordsOf(c, f)

(* The true date of a report, from the file it was in.                     *)
SecsOf(r) ==
  LET evs == UNION {ToSet(f.events) : f \in UNION {Files[c] : c \in Clients}}
  IN  (CHOOSE ev \in evs : Trim(ev.name) = Trim(r.eventName)).date.secs

(* A summary lists the reports in the order of the dates they have in      *)
(* their files, as far as these fit in an int.                             *)
Chronological ==
  \A c \in Clients :
    LET s == written[c].reports
        sound == {i \in DOMAIN s : Plain(s[i]) /\ s[i].dateTime = SecsOf(s[i])}
    IN  \A i, j \in sound : i < j => SecsOf(s[i]) <= SecsOf(s[j])

(* A later summary of the same user has everything an earlier one had, and *)
(* its counts have not gone down.                                          *)
SummaryGrows(c) ==
  LET old == written[c]
      new == written'[c]
  IN  old.channel = new.channel /\ old.user = new.user =>
        /\ old.active <= new.active /\ old.forces <= new.forces
        /\ \A i \in DOMAIN old.reports :
             LET r == old.reports[i]
             IN  Occurs(old.reports, r) <= Occurs(new.reports, r)

SummariesGrow == [][\A c \in Clients : SummaryGrows(c)]_vars
=============================================================================
