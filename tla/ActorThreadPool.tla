-------------------------- MODULE ActorThreadPool --------------------------
(***************************************************************************)
(* The pool the reactor runs protocol code on.  One thread, the selector's,*)
(* submits tasks and shuts the pool down; the actors are the connection    *)
(* handlers.  submit and complete hold the monitor of the actor, and what  *)
(* they do under it is split where the other one could interfere without.  *)
(*                                                                         *)
(* The fixed thread pool below it is a queue that any idle worker takes    *)
(* the next job from; a worker that a task's exception ends is replaced.   *)
(***************************************************************************)
EXTENDS Naturals, Sequences

CONSTANTS Actors, Workers,
          Selector, NoThread, NoActor,
          MaxTasks   \* bound: tasks submitted for each actor

ASSUME PoolAssumption ==
  /\ Selector \notin Workers /\ NoThread \notin Workers \cup {Selector}
  /\ NoActor \notin Actors
  /\ MaxTasks \in Nat

VARIABLES
  owner,      \* the thread that holds the monitor of each actor
  playing,    \* playingNow
  pending,    \* acts: the waiting tasks of each actor
  jobs,       \* the queue of the fixed thread pool
  down,       \* the fixed thread pool was shut down
  at, busy,   \* where each worker is, and with which actor
  sel, act,   \* where the selector thread is in submit, and for which actor
  submitted,  \* how many tasks of each actor were submitted
  begun       \* the tasks of each actor that began, in that order

vars == <<owner, playing, pending, jobs, down, at, busy, sel, act, submitted,
          begun>>

Init ==
  /\ owner = [a \in Actors |-> NoThread]
  /\ playing = {}
  /\ pending = [a \in Actors |-> <<>>]
  /\ jobs = <<>>
  /\ down = FALSE
  /\ at = [w \in Workers |-> "idle"]
  /\ busy = [w \in Workers |-> NoActor]
  /\ sel = "select" /\ act = NoActor
  /\ submitted = [a \in Actors |-> 0]
  /\ begun = [a \in Actors |-> <<>>]

(***************************************************************************)
(* submit(a, r), in the selector thread.                                   *)
(***************************************************************************)
SubmitTests(a) ==
  /\ sel = "select" /\ ~down /\ submitted[a] < MaxTasks
  /\ owner[a] = NoThread
  /\ owner' = [owner EXCEPT ![a] = Selector]
  /\ sel' = IF a \in playing THEN "queue" ELSE "play"
  /\ act' = a
  /\ submitted' = [submitted EXCEPT ![a] = @ + 1]
  /\ UNCHANGED <<playing, pending, jobs, down, at, busy, begun>>

(* Fault: the actor is not marked as playing.                              *)
SubmitPlaysUnmarked ==
  /\ sel = "play"
  /\ jobs' = Append(jobs, [act |-> act, task |-> submitted[act]])
  /\ owner' = [owner EXCEPT ![act] = NoThread]
  /\ sel' = "select" /\ act' = NoActor
  /\ UNCHANGED <<playing, pending, down, at, busy, submitted, begun>>

(* Only this thread shuts the pool down, so execute does not reject.       *)
SubmitPlays ==
  /\ sel = "play"
  /\ playing' = playing \cup {act}
  /\ jobs' = Append(jobs, [act |-> act, task |-> submitted[act]])
  /\ owner' = [owner EXCEPT ![act] = NoThread]
  /\ sel' = "select" /\ act' = NoActor
  /\ UNCHANGED <<pending, down, at, busy, submitted, begun>>

SubmitQueues ==
  /\ sel = "queue"
  /\ pending' = [pending EXCEPT ![act] = Append(@, submitted[act])]
  /\ owner' = [owner EXCEPT ![act] = NoThread]
  /\ sel' = "select" /\ act' = NoActor
  /\ UNCHANGED <<playing, jobs, down, at, busy, submitted, begun>>

(* After the selector loop: shutdownNow drops the jobs nobody has taken.   *)
Shutdown ==
  /\ sel = "select" /\ ~down
  /\ down' = TRUE /\ jobs' = <<>>
  /\ UNCHANGED <<owner, playing, pending, at, busy, sel, act, submitted, begun>>

(***************************************************************************)
(* A worker: run a task, then complete(act) in the finally.                *)
(***************************************************************************)
Take(w) ==
  /\ at[w] = "idle" /\ jobs # <<>>
  /\ LET job == Head(jobs)
     IN  /\ busy' = [busy EXCEPT ![w] = job.act]
         /\ begun' = [begun EXCEPT ![job.act] = Append(@, job.task)]
  /\ at' = [at EXCEPT ![w] = "run"]
  /\ jobs' = Tail(jobs)
  /\ UNCHANGED <<owner, playing, pending, down, sel, act, submitted>>

(* The task returns or throws.                                             *)
TaskEnds(w) ==
  /\ at[w] = "run"
  /\ at' = [at EXCEPT ![w] = "complete"]
  /\ UNCHANGED <<owner, playing, pending, jobs, down, busy, sel, act, submitted,
                 begun>>

(* Fault: complete is not synchronized.                                    *)
CompleteTestsUnsynchronized(w) ==
  /\ at[w] = "complete"
  /\ at' = [at EXCEPT ![w] = IF pending[busy[w]] = <<>> THEN "stop" ELSE "next"]
  /\ UNCHANGED <<owner, playing, pending, jobs, down, busy, sel, act, submitted,
                 begun>>

CompleteTests(w) ==
  /\ at[w] = "complete"
  /\ owner[busy[w]] = NoThread
  /\ owner' = [owner EXCEPT ![busy[w]] = w]
  /\ at' = [at EXCEPT ![w] = IF pending[busy[w]] = <<>> THEN "stop" ELSE "next"]
  /\ UNCHANGED <<playing, pending, jobs, down, busy, sel, act, submitted, begun>>

(* complete returns, with the monitor.                                     *)
Leaves(w) ==
  /\ owner' = [owner EXCEPT ![busy[w]] = NoThread]
  /\ at' = [at EXCEPT ![w] = "idle"]
  /\ busy' = [busy EXCEPT ![w] = NoActor]
  /\ UNCHANGED <<down, sel, act, submitted, begun>>

CompleteStops(w) ==
  /\ at[w] = "stop"
  /\ playing' = playing \ {busy[w]}
  /\ Leaves(w)
  /\ UNCHANGED <<pending, jobs>>

(* execute throws when the pool is down, and the task is lost.             *)
CompleteContinues(w) ==
  /\ at[w] = "next"
  /\ LET a == busy[w]
     IN  /\ pending' = [pending EXCEPT ![a] = Tail(@)]
         /\ jobs' = IF down THEN jobs
                    ELSE Append(jobs, [act |-> a, task |-> Head(pending[a])])
  /\ Leaves(w)
  /\ UNCHANGED playing

(* Nothing is left to run once the pool is down.                           *)
Ended ==
  /\ down /\ \A w \in Workers : at[w] = "idle"
  /\ UNCHANGED vars

Worker(w) ==
  \/ Take(w) \/ TaskEnds(w)
  \/ CompleteTests(w) \/ CompleteStops(w) \/ CompleteContinues(w)

Next ==
  \/ \E a \in Actors : SubmitTests(a)
  \/ SubmitPlays \/ SubmitQueues \/ Shutdown
  \/ \E w \in Workers : Worker(w)
  \/ Ended

Spec == Init /\ [][Next]_vars

-----------------------------------------------------------------------------
(* The scheduler runs every thread, and every task returns or throws.      *)
Fairness ==
  /\ WF_vars(SubmitPlays) /\ WF_vars(SubmitQueues)
  /\ \A w \in Workers : WF_vars(Worker(w))

FairSpec == Spec /\ Fairness

Job == [act : Actors, task : Nat]

(* Threads inside the monitor of an actor are there for that actor.        *)
InMonitor(w) == at[w] \in {"stop", "next"}

(* What the variables may hold, and who holds which monitor.               *)
TypeOK ==
  /\ owner \in [Actors -> Workers \cup {Selector, NoThread}]
  /\ playing \in SUBSET Actors
  /\ pending \in [Actors -> Seq(Nat)]
  /\ jobs \in Seq(Job)
  /\ down \in BOOLEAN
  /\ at \in [Workers -> {"idle", "run", "complete", "stop", "next"}]
  /\ busy \in [Workers -> Actors \cup {NoActor}]
  /\ \A w \in Workers : at[w] # "idle" => busy[w] \in Actors
  /\ sel \in {"select", "play", "queue"}
  /\ sel # "select" => act \in Actors /\ ~down
  /\ submitted \in [Actors -> Nat]
  /\ begun \in [Actors -> Seq(Nat)]
  /\ \A a \in Actors : owner[a] = Selector <=> sel # "select" /\ act = a
  /\ \A a \in Actors, w \in Workers :
       owner[a] = w <=> InMonitor(w) /\ busy[w] = a

(* The pool with its monitors and queues is a serial executor: the tasks   *)
(* of an actor never overlap, begin in the order they were submitted, and  *)
(* none is skipped, however submit and complete race.                      *)
Executor ==
  INSTANCE SerialExecutor
    WITH running <- {a \in Actors :
                       \E w \in Workers : at[w] = "run" /\ busy[w] = a}

ImplementsExecutor == Executor!Spec

(* Every task that was submitted begins in the end, unless the pool is     *)
(* shut down: submit never leaves a task with an actor that has just       *)
(* stopped playing.                                                        *)
EveryTaskRuns ==
  \A a \in Actors : \A n \in 1 .. MaxTasks :
    submitted[a] = n ~> (down \/ Len(begun[a]) >= n)
=============================================================================
