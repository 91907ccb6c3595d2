--------------------------- MODULE SerialExecutor ---------------------------
(***************************************************************************)
(* What ActorThreadPool promises the reactor: the tasks of one actor run   *)
(* one at a time, in the order they were submitted, and all of them run    *)
(* unless the pool is shut down.  Tasks are numbered by their submission.  *)
(***************************************************************************)
EXTENDS Naturals, Sequences

CONSTANT Actors

VARIABLES
  submitted,  \* how many tasks of each actor were submitted
  begun,      \* the tasks of each actor that began, in that order
  running,    \* the actors a task of which is running
  down        \* the pool was shut down

vars == <<submitted, begun, running, down>>

Init ==
  /\ submitted = [a \in Actors |-> 0]
  /\ begun = [a \in Actors |-> <<>>]
  /\ running = {}
  /\ down = FALSE

Submit(a) ==
  /\ ~down
  /\ submitted' = [submitted EXCEPT ![a] = @ + 1]
  /\ UNCHANGED <<begun, running, down>>

Begin(a) ==
  /\ ~down
  /\ a \notin running /\ Len(begun[a]) < submitted[a]
  /\ begun' = [begun EXCEPT ![a] = Append(@, Len(@) + 1)]
  /\ running' = running \cup {a}
  /\ UNCHANGED <<submitted, down>>

End(a) ==
  /\ a \in running
  /\ running' = running \ {a}
  /\ UNCHANGED <<submitted, begun, down>>

Shutdown ==
  /\ ~down /\ down' = TRUE
  /\ UNCHANGED <<submitted, begun, running>>

Next == Shutdown \/ \E a \in Actors : Submit(a) \/ Begin(a) \/ End(a)

Spec == Init /\ [][Next]_vars
=============================================================================
