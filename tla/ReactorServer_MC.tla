-------------------------- MODULE ReactorServer_MC --------------------------
(* Values for the model checker: what each client of the reactor sends.    *)
EXTENDS ReactorServer, TLC

CONSTANTS c0, c1, alice, bob, pw1, news, s1, s2

Login(u) == [cmd |-> "CONNECT", user |-> u, pass |-> pw1, rcpt |-> FALSE]
Join(s, r) == [cmd |-> "SUBSCRIBE", dest |-> news, id |-> s, rcpt |-> r]
Report == [cmd |-> "SEND", dest |-> news, rcpt |-> FALSE]

(* A publisher, refused if it has not joined, and a client that logs in or *)
(* subscribes; neither need keep to the order the server expects.          *)
PairInputs == c0 :> {Join(s1, FALSE), Report} @@ c1 :> {Login(alice), Join(s2, TRUE)}
PairFrames == c0 :> 2 @@ c1 :> 1

(* One client, which reports to a channel it has not joined.               *)
RefusedInputs == c0 :> {Login(alice), Report}
RefusedFrames == c0 :> 2
=============================================================================
