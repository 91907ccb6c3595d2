-------------------------- MODULE BrokerDelivery --------------------------
(***************************************************************************)
(* The broker with a history variable: for every SEND being fanned out,    *)
(* the connections that have been subscribed to its destination, with an   *)
(* open handler, ever since the fan-out began.  The broker's promise is    *)
(* about them only: the loop of send(channel) may or may not see an entry  *)
(* that is added or removed while it runs.                                 *)
(***************************************************************************)
EXTENDS StompBroker

VARIABLE owed

Listening(d, ch) == subs[ch][d] # NoSub /\ d \in clients /\ ~closed[d]

(* Written over the step as a whole, so that it follows every action.      *)
Owe(c) ==
  LET ch == Current(c).dest
  IN  CASE pc[c] = "handle" /\ pc'[c] = "fanout" ->
             {d \in Conns : Listening(d, ch)}
        [] pc[c] = "fanout" ->
             {d \in owed[c] : Listening(d, ch)'}
        [] pc[c] = "reply" /\ pc'[c] = "reply" -> owed[c]
        [] OTHER -> {}

DeliveryInit == Init /\ owed = [c \in Conns |-> {}]
DeliveryNext == Next /\ owed' = [c \in Conns |-> Owe(c)]
DeliverySpec == DeliveryInit /\ [][DeliveryNext]_<<vars, owed>>

(* When process() returns from a SEND, and so before its RECEIPT, the      *)
(* frame has been handed to every connection that listened on the channel  *)
(* throughout, whoever else joined, left or went down during the loop.     *)
ListenersGetIt ==
  \A c \in Conns : pc[c] = "reply" =>
    \A d \in owed[c] : \E i \in DOMAIN out[d] :
      IsMessage(d, i) /\ out[d][i].body = <<c, Len(got[c])>>
============================================================================
