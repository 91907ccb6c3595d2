-------------------------- MODULE StompBroker_MC --------------------------
(* Values for the model checker: small sets of frames for each client.     *)
EXTENDS StompBroker, TLC

CONSTANTS c0, c1, alice, pw1, pw2, news, s1

Login(u, p) == [cmd |-> "CONNECT", user |-> u, pass |-> p, rcpt |-> FALSE]
Join(s) == [cmd |-> "SUBSCRIBE", dest |-> news, id |-> s, rcpt |-> FALSE]
Exit(s) == [cmd |-> "UNSUBSCRIBE", id |-> s, rcpt |-> TRUE]
Report == [cmd |-> "SEND", dest |-> news, rcpt |-> FALSE]
Logout == [cmd |-> "DISCONNECT", rcpt |-> TRUE]
Silent(f) == [f EXCEPT !.rcpt = ~@]
Bad == [cmd |-> "MALFORMED", rcpt |-> FALSE]

(* Two clients and one account: one that may also join a channel, report   *)
(* to it and leave it, and one that may use the wrong password, log in     *)
(* twice or leave without a receipt.                                       *)
SessionInputs ==
  c0 :> {Login(alice, pw1), Logout, Join(s1), Report, Exit(s1)}
    @@ c1 :> {Login(alice, pw1), Login(alice, pw2), Silent(Logout), Bad}
SessionFrames == c0 :> 2 @@ c1 :> 3
============================================================================
