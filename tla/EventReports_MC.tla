-------------------------- MODULE EventReports_MC --------------------------
(* Values for the model checker: the event files of two clients.           *)
EXTENDS EventReports

CONSTANTS c0, c1

Date(form, secs) == [form |-> form, secs |-> secs]
Event(name, date, info, description) ==
  [name |-> name, city |-> "Liberty City", date |-> date, info |-> info,
   description |-> description]

Burning == Text("it is burning")

(* A later event before an earlier one, with blank lines and a padded      *)
(* value; the second looks as if its description named another user.       *)
Fire == Event("fire", Date("number", 3), "active" :> " true",
              <<Burning, Blank, Burning>>)
Flood == Event(" flood", Date("calendar", 1),
               "active" :> "true" @@ "forces_arrival_at_scene" :> "false",
               <<Line("user", "carol")>>)

(* Texts that collide with the syntax of a body, and a date past the int.  *)
Fraud == Event("fraud", Date("number", 4), "user" :> "bob",
               <<Heading("general information"), Line("city", "none"),
                 Line("user", "carol")>>)
Noise == Event("noise", Date("digits", 2), "active" :> "true",
               <<Text(SubIdMark)>>)
Ghost == Event("ghost", Date("number", -2), "user" :> "", <<>>)
Storm == Event("storm", Date("calendar", -1), "active" :> "true", <<>>)
Riot == Event("riot", Date("digits", 4), "active" :> "true", <<>>)

File(events) == [channel |-> " police", events |-> events]

EventFiles ==
  c0 :> {File(<<Fire, Flood>>), File(<<Fraud, Flood>>), File(<<Flood, Storm>>)}
    @@ c1 :> {File(<<Noise>>), File(<<Ghost, Noise>>), File(<<Noise, Riot>>)}
Spaces == " true" :> "true" @@ " flood" :> "flood" @@ " police" :> "police"
Lexical ==
  <<"", " flood", " police", " true", "%%SUB_ID%%", "-1", "-2", "-3", "-4",
    "0", "1", "2", "3", "7", "8", "Liberty City", "active", "alice", "bob",
    "carol", "city", "date time", "description", "destination", "event name",
    "false", "fire", "flood", "forces_arrival_at_scene", "fraud",
    "general information", "ghost", "it is burning", "noise", "none", "police",
    "riot", "storm", "subscription", "true", "user">>
Ranks == [t \in ToSet(Lexical) |-> CHOOSE i \in DOMAIN Lexical : Lexical[i] = t]
Names == c0 :> "alice" @@ c1 :> "bob"
Ids == c0 :> "7" @@ c1 :> "8"

(* The files tell their reports apart.                                     *)
ASSUME FilesDiffer == ReportsDiffer
============================================================================
