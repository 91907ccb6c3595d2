--------------------------- MODULE TpcServer_MC ---------------------------
(* Values for the model checker: what each client of the server sends.     *)
EXTENDS TpcServer, TLC

CONSTANTS c0, c1, c2, alice, bob, pw1, news, alerts, s1, s2

Login(u) == [cmd |-> "CONNECT", user |-> u, pass |-> pw1, rcpt |-> FALSE]
Join(ch, s) == [cmd |-> "SUBSCRIBE", dest |-> ch, id |-> s, rcpt |-> TRUE]
Report(ch) == [cmd |-> "SEND", dest |-> ch, rcpt |-> FALSE]
Logout == [cmd |-> "DISCONNECT", rcpt |-> TRUE]

(* A publisher, and a client of the same user or another that joins,       *)
(* publishes and logs out.                                                 *)
ServerInputs ==
  c0 :> {Login(alice), Join(news, s1), Report(news)}
    @@ c1 :> {Login(alice), Login(bob), Join(news, s2), Report(news), Logout}
ServerFrames == c0 :> 3 @@ c1 :> 3

(* c0 logs out while c1 and c2 log in to the same account.                 *)
RaceInputs ==
  c0 :> {Login(alice), Logout} @@ c1 :> {Login(alice)} @@ c2 :> {Login(alice)}
RaceFrames == c0 :> 2 @@ c1 :> 1 @@ c2 :> 1

(* c1 joins a second channel while c0 publishes on the first.              *)
JoiningInputs ==
  c0 :> {Login(bob), Join(news, s1), Report(news)}
    @@ c1 :> {Login(alice), Join(news, s1), Join(alerts, s2)}
============================================================================
