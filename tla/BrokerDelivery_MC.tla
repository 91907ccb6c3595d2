------------------------ MODULE BrokerDelivery_MC -------------------------
(* Values for the model checker: two clients that publish on one channel,  *)
(* and may go down at any moment.                                          *)
EXTENDS BrokerDelivery, TLC

CONSTANTS c0, c1, alice, pw1, news, s1, s2

Join(s) == [cmd |-> "SUBSCRIBE", dest |-> news, id |-> s, rcpt |-> FALSE]
Exit(s) == [cmd |-> "UNSUBSCRIBE", id |-> s, rcpt |-> TRUE]
Report == [cmd |-> "SEND", dest |-> news, rcpt |-> FALSE]

(* c0 joins and publishes twice, c1 joins, leaves or publishes.            *)
PubSubInputs ==
  c0 :> {Join(s1), Report} @@ c1 :> {Join(s2), Exit(s2), Report}
PubSubFrames == c0 :> 3 @@ c1 :> 2
============================================================================
