----------------------- MODULE ActorThreadPool_proofs -----------------------
(***************************************************************************)
(* The pool implements the serial executor, for any number of actors,      *)
(* workers and tasks.  The inductive invariant has three parts: an actor   *)
(* has its turn in at most one place (a job or a worker), what a thread    *)
(* found out under the monitor stays true while it holds it, and the       *)
(* numbers of the tasks that began, have a job or wait are consecutive.    *)
(***************************************************************************)
EXTENDS ActorThreadPool, Integers, TLAPS

TurnOK ==
  /\ \A i, j \in 1 .. Len(jobs) : jobs[i].act = jobs[j].act => i = j
  /\ \A i \in 1 .. Len(jobs) : jobs[i].act \in playing
  /\ \A v, w \in Workers :
       at[v] # "idle" /\ at[w] # "idle" /\ busy[v] = busy[w] => v = w
  /\ \A w \in Workers : at[w] # "idle" =>
       busy[w] \in playing /\ \A i \in 1 .. Len(jobs) : jobs[i].act # busy[w]

MonitorOK ==
  /\ \A a \in Actors : pending[a] # <<>> => a \in playing
  /\ sel = "play" => act \notin playing
  /\ sel = "queue" => act \in playing
  /\ \A w \in Workers :
       /\ at[w] = "stop" => pending[busy[w]] = <<>>
       /\ at[w] = "next" => pending[busy[w]] # <<>>

(* The tasks of a that submit has put somewhere, and those that waited no  *)
(* longer when the last of them did.                                       *)
Stored(a) == IF sel # "select" /\ act = a THEN submitted[a] - 1
             ELSE submitted[a]
HasJob(a) == \E i \in 1 .. Len(jobs) : jobs[i].act = a
Passed(a) == IF HasJob(a) THEN Len(begun[a]) + 1 ELSE Len(begun[a])

NumbersOK(a) ==
  /\ Stored(a) = Passed(a) + Len(pending[a])
  /\ \A k \in 1 .. Len(pending[a]) : pending[a][k] = Passed(a) + k
  /\ \A i \in 1 .. Len(jobs) : jobs[i].act = a => jobs[i].task = Len(begun[a]) + 1

OrderOK == ~down => \A a \in Actors : NumbersOK(a)

DownOK == down => jobs = <<>>

PoolOK == TypeOK /\ TurnOK /\ MonitorOK /\ OrderOK /\ DownOK

-----------------------------------------------------------------------------
(* Facts about sequences.                                                  *)
LEMMA AppendFacts ==
  ASSUME NEW S, NEW s \in Seq(S), NEW e \in S
  PROVE  /\ Append(s, e) \in Seq(S)
         /\ Len(Append(s, e)) = Len(s) + 1 /\ Len(s) \in Nat
         /\ \A i \in 1 .. Len(s) : Append(s, e)[i] = s[i]
         /\ Append(s, e)[Len(s) + 1] = e
         /\ Append(s, e) # <<>>
  OBVIOUS

LEMMA TailFacts ==
  ASSUME NEW S, NEW s \in Seq(S), s # <<>>
  PROVE  /\ Head(s) \in S /\ Head(s) = s[1] /\ Tail(s) \in Seq(S)
         /\ Len(s) \in Nat \ {0} /\ Len(Tail(s)) = Len(s) - 1
         /\ \A i \in 1 .. Len(s) - 1 : Tail(s)[i] = s[i + 1]
  OBVIOUS

(* What a step does to the queue of jobs.                                  *)
Added(job) ==
  /\ Len(jobs') = Len(jobs) + 1
  /\ \A i \in 1 .. Len(jobs) : jobs'[i] = jobs[i]
  /\ jobs'[Len(jobs) + 1] = job

LEMMA JobAdded ==
  ASSUME TypeOK, NEW job \in Job, jobs' = Append(jobs, job)
  PROVE  Added(job) /\ Len(jobs) \in Nat
  BY AppendFacts DEF TypeOK, Added

Removed ==
  /\ Len(jobs) \in Nat \ {0} /\ Len(jobs') = Len(jobs) - 1
  /\ \A i \in 1 .. Len(jobs') : jobs'[i] = jobs[i + 1]

LEMMA JobRemoved ==
  ASSUME TypeOK, jobs # <<>>, jobs' = Tail(jobs)
  PROVE  Removed /\ Head(jobs) = jobs[1] /\ Head(jobs) \in Job
  BY TailFacts DEF TypeOK, Removed

LEMMA NoJobs == <<>> = <<>> /\ Len(<<>>) = 0
  OBVIOUS

-----------------------------------------------------------------------------
(* The variables keep their types, and the monitors their owners.          *)
LEMMA Typing == TypeOK /\ TurnOK /\ MonitorOK /\ [Next]_vars => TypeOK'
<1> SUFFICES ASSUME TypeOK, TurnOK, MonitorOK, [Next]_vars PROVE TypeOK'
  OBVIOUS
<1> USE PoolAssumption
<1>1. ASSUME NEW a \in Actors, SubmitTests(a) PROVE TypeOK'
  BY <1>1 DEF TypeOK, SubmitTests, InMonitor
<1>2. CASE SubmitPlays
  <2>1. [act |-> act, task |-> submitted[act]] \in Job
    BY <1>2 DEF TypeOK, SubmitPlays, Job
  <2>2. jobs' \in Seq(Job)
    BY <1>2, <2>1, AppendFacts DEF TypeOK, SubmitPlays
  <2> QED BY <1>2, <2>2 DEF TypeOK, SubmitPlays, InMonitor
<1>3. CASE SubmitQueues
  <2>1. pending' \in [Actors -> Seq(Nat)]
    BY <1>3 DEF TypeOK, SubmitQueues
  <2> QED BY <1>3, <2>1 DEF TypeOK, SubmitQueues, InMonitor
<1>4. CASE Shutdown
  BY <1>4 DEF TypeOK, Shutdown, InMonitor
<1>5. ASSUME NEW w \in Workers, Take(w) PROVE TypeOK'
  <2>1. Head(jobs) \in Job /\ jobs' \in Seq(Job)
    BY <1>5, TailFacts DEF TypeOK, Take
  <2>2. Head(jobs).act \in Actors /\ Head(jobs).task \in Nat
    BY <2>1 DEF Job
  <2>3. begun' \in [Actors -> Seq(Nat)]
    BY <1>5, <2>2 DEF TypeOK, Take
  <2>4. \A b \in Actors, v \in Workers :
          owner'[b] = v <=> InMonitor(v)' /\ busy'[v] = b
    BY <1>5, <2>2 DEF TypeOK, Take, InMonitor
  <2> QED BY <1>5, <2>1, <2>2, <2>3, <2>4 DEF TypeOK, Take, InMonitor
<1>6. ASSUME NEW w \in Workers, TaskEnds(w) PROVE TypeOK'
  BY <1>6 DEF TypeOK, TaskEnds, InMonitor
<1>7. ASSUME NEW w \in Workers, CompleteTests(w) PROVE TypeOK'
  BY <1>7 DEF TypeOK, CompleteTests, InMonitor
<1>8. ASSUME NEW w \in Workers, CompleteStops(w) PROVE TypeOK'
  <2>1. busy[w] \in Actors BY <1>8 DEF TypeOK, CompleteStops
  <2>2. \A b \in Actors, v \in Workers :
          owner'[b] = v <=> InMonitor(v)' /\ busy'[v] = b
    BY <1>8, <2>1 DEF TypeOK, CompleteStops, Leaves, InMonitor
  <2> QED BY <1>8, <2>1, <2>2 DEF TypeOK, CompleteStops, Leaves, InMonitor
<1>9. ASSUME NEW w \in Workers, CompleteContinues(w) PROVE TypeOK'
  <2>1. busy[w] \in Actors /\ pending[busy[w]] # <<>>
    BY <1>9 DEF TypeOK, MonitorOK, CompleteContinues
  <2>2. pending' \in [Actors -> Seq(Nat)] /\ Head(pending[busy[w]]) \in Nat
    BY <1>9, <2>1, TailFacts DEF TypeOK, CompleteContinues
  <2>3. jobs' \in Seq(Job)
    <3>1. [act |-> busy[w], task |-> Head(pending[busy[w]])] \in Job
      BY <2>1, <2>2 DEF Job
    <3> QED BY <1>9, <3>1, AppendFacts DEF TypeOK, CompleteContinues
  <2>4. \A b \in Actors, v \in Workers :
          owner'[b] = v <=> InMonitor(v)' /\ busy'[v] = b
    BY <1>9, <2>1 DEF TypeOK, CompleteContinues, Leaves, InMonitor
  <2> QED
    BY <1>9, <2>1, <2>2, <2>3, <2>4
    DEF TypeOK, CompleteContinues, Leaves, InMonitor
<1>10. CASE UNCHANGED vars
  BY <1>10 DEF TypeOK, vars, InMonitor
<1> QED
  BY <1>1, <1>2, <1>3, <1>4, <1>5, <1>6, <1>7, <1>8, <1>9, <1>10
  DEF Next, Worker, Ended

-----------------------------------------------------------------------------
(* An actor has its turn in at most one place, and is marked as playing    *)
(* for as long as it has it.                                               *)
LEMMA Turns == TypeOK /\ TurnOK /\ MonitorOK /\ [Next]_vars => TurnOK'
<1> SUFFICES ASSUME TypeOK, TurnOK, MonitorOK, [Next]_vars PROVE TurnOK'
  OBVIOUS
<1> USE PoolAssumption
<1>1. ASSUME NEW a \in Actors, SubmitTests(a) PROVE TurnOK'
  BY <1>1 DEF TurnOK, SubmitTests
<1>2. CASE SubmitPlays
  <2>1. /\ act \in Actors /\ act \notin playing
        /\ [act |-> act, task |-> submitted[act]] \in Job
    BY <1>2 DEF TypeOK, MonitorOK, SubmitPlays, Job
  <2>2. /\ Added([act |-> act, task |-> submitted[act]])
        /\ Len(jobs) \in Nat
    BY <1>2, <2>1, JobAdded DEF SubmitPlays
  <2>3. playing' = playing \cup {act} /\ UNCHANGED <<at, busy>>
    BY <1>2 DEF SubmitPlays
  <2> QED BY <2>1, <2>2, <2>3 DEF TurnOK, Added
<1>3. CASE SubmitQueues
  BY <1>3 DEF TurnOK, SubmitQueues
<1>4. CASE Shutdown
  <2>1. Len(jobs') = 0 /\ UNCHANGED <<playing, at, busy>>
    BY <1>4, NoJobs DEF Shutdown
  <2> QED BY <2>1 DEF TurnOK
<1>5. ASSUME NEW w \in Workers, Take(w) PROVE TurnOK'
  <2>1. Removed /\ Head(jobs) = jobs[1]
    BY <1>5, JobRemoved DEF Take
  <2>2. /\ at[w] = "idle" /\ at' = [at EXCEPT ![w] = "run"]
        /\ busy' = [busy EXCEPT ![w] = jobs[1].act]
        /\ playing' = playing
    BY <1>5, <2>1 DEF Take
  <2>3. \A i \in 1 .. Len(jobs') :
          /\ i + 1 \in 1 .. Len(jobs) /\ i + 1 # 1
          /\ jobs'[i] = jobs[i + 1]
    BY <2>1 DEF Removed
  <2>4. 1 \in 1 .. Len(jobs)
    BY <2>1 DEF Removed
  <2>5. \A v \in Workers :
          \/ v = w /\ at'[v] # "idle" /\ busy'[v] = jobs[1].act
          \/ v # w /\ at'[v] = at[v] /\ busy'[v] = busy[v]
    BY <2>2 DEF TypeOK
  <2>6. \A i \in 1 .. Len(jobs') : jobs'[i].act # jobs[1].act
    BY <2>3, <2>4 DEF TurnOK
  <2>7. \A i, j \in 1 .. Len(jobs') : jobs'[i].act = jobs'[j].act => i = j
    <3> TAKE i, j \in 1 .. Len(jobs')
    <3>1. jobs[i + 1].act = jobs[j + 1].act => i + 1 = j + 1
      BY <2>3 DEF TurnOK
    <3> QED BY <2>1, <2>3, <3>1 DEF Removed
  <2>8. \A i \in 1 .. Len(jobs') : jobs'[i].act \in playing'
    BY <2>2, <2>3 DEF TurnOK
  <2>9. \A v \in Workers : at'[v] # "idle" =>
          /\ busy'[v] \in playing'
          /\ \A i \in 1 .. Len(jobs') : jobs'[i].act # busy'[v]
    BY <2>2, <2>3, <2>4, <2>5, <2>6 DEF TurnOK
  <2>10. \A u, v \in Workers :
           at'[u] # "idle" /\ at'[v] # "idle" /\ busy'[u] = busy'[v] => u = v
    BY <2>4, <2>5 DEF TurnOK
  <2> QED BY <2>7, <2>8, <2>9, <2>10 DEF TurnOK
<1>6. ASSUME NEW w \in Workers, TaskEnds(w) PROVE TurnOK'
  BY <1>6 DEF TypeOK, TurnOK, TaskEnds
<1>7. ASSUME NEW w \in Workers, CompleteTests(w) PROVE TurnOK'
  BY <1>7 DEF TypeOK, TurnOK, CompleteTests
<1>8. ASSUME NEW w \in Workers, CompleteStops(w) PROVE TurnOK'
  BY <1>8 DEF TypeOK, TurnOK, CompleteStops, Leaves
<1>9. ASSUME NEW w \in Workers, CompleteContinues(w) PROVE TurnOK'
  <2>1. /\ busy[w] \in Actors /\ at[w] # "idle"
        /\ pending[busy[w]] # <<>>
    BY <1>9 DEF TypeOK, MonitorOK, CompleteContinues
  <2>2. /\ at' = [at EXCEPT ![w] = "idle"]
        /\ busy' = [busy EXCEPT ![w] = NoActor] /\ playing' = playing
    BY <1>9 DEF CompleteContinues, Leaves
  <2>3. \A v \in Workers :
          at'[v] # "idle" => v # w /\ at[v] # "idle" /\ busy'[v] = busy[v]
    BY <2>2 DEF TypeOK
  <2>4. /\ busy[w] \in playing
        /\ \A i \in 1 .. Len(jobs) : jobs[i].act # busy[w]
        /\ \A v \in Workers : at'[v] # "idle" => busy'[v] # busy[w]
    BY <2>1, <2>3 DEF TurnOK
  <2>5. CASE down
    <3>1. jobs' = jobs BY <1>9, <2>5 DEF CompleteContinues
    <3> QED BY <2>2, <2>3, <3>1 DEF TurnOK
  <2>6. CASE ~down
    <3> DEFINE job == [act |-> busy[w], task |-> Head(pending[busy[w]])]
    <3>1. job \in Job
      BY <2>1, TailFacts DEF Job, TypeOK
    <3>2. Added(job) /\ Len(jobs) \in Nat
      BY <1>9, <2>6, <3>1, JobAdded DEF CompleteContinues
    <3>3. job.act = busy[w] OBVIOUS
    <3> HIDE DEF job
    <3>4. \A i \in 1 .. Len(jobs') :
            \/ i \in 1 .. Len(jobs) /\ jobs'[i] = jobs[i]
            \/ i = Len(jobs) + 1 /\ jobs'[i].act = busy[w]
      BY <3>2, <3>3 DEF Added
    <3>5. \A i, j \in 1 .. Len(jobs') : jobs'[i].act = jobs'[j].act => i = j
      BY <2>4, <3>4 DEF TurnOK
    <3>6. \A i \in 1 .. Len(jobs') : jobs'[i].act \in playing'
      BY <2>2, <2>4, <3>4 DEF TurnOK
    <3>7. \A v \in Workers : at'[v] # "idle" =>
            /\ busy'[v] \in playing'
            /\ \A i \in 1 .. Len(jobs') : jobs'[i].act # busy'[v]
      BY <2>2, <2>3, <2>4, <3>4 DEF TurnOK
    <3>8. \A u, v \in Workers :
            at'[u] # "idle" /\ at'[v] # "idle" /\ busy'[u] = busy'[v] => u = v
      BY <2>3 DEF TurnOK
    <3> QED BY <3>5, <3>6, <3>7, <3>8 DEF TurnOK
  <2> QED BY <2>5, <2>6
<1>10. CASE UNCHANGED vars
  BY <1>10 DEF TurnOK, vars
<1> QED
  BY <1>1, <1>2, <1>3, <1>4, <1>5, <1>6, <1>7, <1>8, <1>9, <1>10
  DEF Next, Worker, Ended

-----------------------------------------------------------------------------
(* What submit and complete found out about the actor under its monitor    *)
(* holds until they leave it.                                              *)
LEMMA Monitors == TypeOK /\ TurnOK /\ MonitorOK /\ [Next]_vars => MonitorOK'
<1> SUFFICES ASSUME TypeOK, TurnOK, MonitorOK, [Next]_vars PROVE MonitorOK'
  OBVIOUS
<1> USE PoolAssumption
<1>1. ASSUME NEW a \in Actors, SubmitTests(a) PROVE MonitorOK'
  BY <1>1 DEF TypeOK, MonitorOK, SubmitTests
<1>2. CASE SubmitPlays
  BY <1>2 DEF TypeOK, MonitorOK, SubmitPlays
<1>3. CASE SubmitQueues
  <2>1. /\ act \in Actors /\ act \in playing /\ owner[act] = Selector
        /\ submitted[act] \in Nat /\ pending[act] \in Seq(Nat)
    BY <1>3 DEF TypeOK, MonitorOK, SubmitQueues
  <2>2. Append(pending[act], submitted[act]) # <<>>
    BY <2>1, AppendFacts
  <2>3. \A w \in Workers : InMonitor(w) => busy[w] # act
    BY <2>1 DEF TypeOK
  <2> QED BY <1>3, <2>1, <2>2, <2>3
      DEF TypeOK, MonitorOK, SubmitQueues, InMonitor
<1>4. CASE Shutdown
  BY <1>4 DEF MonitorOK, Shutdown
<1>5. ASSUME NEW w \in Workers, Take(w) PROVE MonitorOK'
  BY <1>5 DEF TypeOK, MonitorOK, Take
<1>6. ASSUME NEW w \in Workers, TaskEnds(w) PROVE MonitorOK'
  BY <1>6 DEF TypeOK, MonitorOK, TaskEnds
<1>7. ASSUME NEW w \in Workers, CompleteTests(w) PROVE MonitorOK'
  BY <1>7 DEF TypeOK, MonitorOK, CompleteTests
<1>8. ASSUME NEW w \in Workers, CompleteStops(w) PROVE MonitorOK'
  <2>1. owner[busy[w]] = w /\ busy[w] \in Actors
    BY <1>8 DEF TypeOK, CompleteStops, InMonitor
  <2> QED BY <1>8, <2>1 DEF TypeOK, MonitorOK, CompleteStops, Leaves
<1>9. ASSUME NEW w \in Workers, CompleteContinues(w) PROVE MonitorOK'
  <2>1. /\ busy[w] \in Actors /\ busy[w] \in playing
        /\ \A v \in Workers \ {w} : at[v] # "idle" => busy[v] # busy[w]
    BY <1>9 DEF TypeOK, TurnOK, CompleteContinues
  <2> QED BY <1>9, <2>1 DEF TypeOK, MonitorOK, CompleteContinues, Leaves
<1>10. CASE UNCHANGED vars
  BY <1>10 DEF MonitorOK, vars
<1> QED
  BY <1>1, <1>2, <1>3, <1>4, <1>5, <1>6, <1>7, <1>8, <1>9, <1>10
  DEF Next, Worker, Ended

-----------------------------------------------------------------------------
(* The numbers of the tasks of an actor, in the order begun, job, waiting, *)
(* are consecutive, up to the last one submit has put somewhere.           *)
LEMMA NumberTypes ==
  ASSUME TypeOK, NEW a \in Actors
  PROVE  /\ submitted[a] \in Nat /\ pending[a] \in Seq(Nat)
         /\ Len(pending[a]) \in Nat /\ Len(begun[a]) \in Nat
         /\ Stored(a) \in Int /\ Passed(a) \in Nat
  BY DEF TypeOK, Stored, Passed

(* Nothing about a changes: what is stored, begun, waiting or a job.       *)
LEMMA SameNumbers ==
  ASSUME TypeOK, NEW a \in Actors, NumbersOK(a),
         Stored(a)' = Stored(a), begun'[a] = begun[a], pending'[a] = pending[a],
         HasJob(a)' <=> HasJob(a),
         \A i \in 1 .. Len(jobs') : jobs'[i].act = a =>
           \E j \in 1 .. Len(jobs) : jobs[j] = jobs'[i]
  PROVE  NumbersOK(a)'
<1>1. Passed(a)' = Passed(a)
  BY DEF Passed
<1> QED BY <1>1 DEF NumbersOK

LEMMA SameJobs ==
  ASSUME NEW a, jobs' = jobs
  PROVE  /\ HasJob(a)' <=> HasJob(a)
         /\ \A i \in 1 .. Len(jobs') : jobs'[i].act = a =>
              \E j \in 1 .. Len(jobs) : jobs[j] = jobs'[i]
  BY DEF HasJob

(* A job for another actor is added.                                       *)
LEMMA OtherJobAdded ==
  ASSUME NEW a, NEW job, job.act # a, Added(job), Len(jobs) \in Nat
  PROVE  /\ HasJob(a)' <=> HasJob(a)
         /\ \A i \in 1 .. Len(jobs') : jobs'[i].act = a =>
              \E j \in 1 .. Len(jobs) : jobs[j] = jobs'[i]
<1>1. \A i \in 1 .. Len(jobs') :
        \/ i \in 1 .. Len(jobs) /\ jobs'[i] = jobs[i]
        \/ jobs'[i] = job
  BY DEF Added
<1>2. \A i \in 1 .. Len(jobs) : i \in 1 .. Len(jobs') /\ jobs'[i] = jobs[i]
  BY DEF Added
<1> QED BY <1>1, <1>2 DEF HasJob

(* The first job, of another actor, is removed.                            *)
LEMMA OtherJobRemoved ==
  ASSUME NEW a, Removed, jobs[1].act # a
  PROVE  /\ HasJob(a)' <=> HasJob(a)
         /\ \A i \in 1 .. Len(jobs') : jobs'[i].act = a =>
              \E j \in 1 .. Len(jobs) : jobs[j] = jobs'[i]
<1>1. \A i \in 1 .. Len(jobs') :
        i + 1 \in 1 .. Len(jobs) /\ jobs'[i] = jobs[i + 1]
  BY DEF Removed
<1>2. \A j \in 1 .. Len(jobs) : j # 1 =>
        j - 1 \in 1 .. Len(jobs') /\ jobs'[j - 1] = jobs[j]
  BY DEF Removed
<1> QED BY <1>1, <1>2 DEF HasJob

(* The only job of a is added: that of the task after the last begun one.  *)
LEMMA OwnJobAdded ==
  ASSUME NEW a, NEW job, job.act = a, job.task = Len(begun[a]) + 1,
         Added(job), Len(jobs) \in Nat, ~HasJob(a), begun'[a] = begun[a],
         Len(begun[a]) \in Nat
  PROVE  /\ HasJob(a)' /\ Passed(a) = Len(begun[a])
         /\ Passed(a)' = Passed(a) + 1
         /\ \A i \in 1 .. Len(jobs') :
              jobs'[i].act = a => jobs'[i].task = Len(begun'[a]) + 1
<1>1. \A i \in 1 .. Len(jobs') :
        \/ i \in 1 .. Len(jobs) /\ jobs'[i] = jobs[i]
        \/ jobs'[i] = job
  BY DEF Added
<1>2. Len(jobs) + 1 \in 1 .. Len(jobs') /\ jobs'[Len(jobs) + 1] = job
  BY DEF Added
<1>3. HasJob(a)'
  BY <1>2 DEF HasJob
<1> QED BY <1>1, <1>3 DEF HasJob, Passed

LEMMA Numbers == PoolOK /\ [Next]_vars => OrderOK'
<1> SUFFICES ASSUME PoolOK, [Next]_vars, ~down', NEW a \in Actors
             PROVE  NumbersOK(a)'
  BY DEF OrderOK
<1> USE PoolAssumption
<1> TypeOK /\ TurnOK /\ MonitorOK
  BY DEF PoolOK
<1>0. ~down /\ NumbersOK(a)
  <2>1. down' = down \/ down'
    BY DEF Next, Worker, Ended, vars, SubmitTests, SubmitPlays, SubmitQueues,
           Shutdown, Take, TaskEnds, CompleteTests, CompleteStops,
           CompleteContinues, Leaves
  <2> QED BY <2>1 DEF PoolOK, OrderOK
<1>1. ASSUME NEW b \in Actors, SubmitTests(b) PROVE NumbersOK(a)'
  <2>1. Stored(a)' = Stored(a)
    BY <1>1 DEF SubmitTests, Stored, TypeOK
  <2> QED BY <1>0, <1>1, <2>1, SameNumbers, SameJobs DEF SubmitTests
<1>2. CASE SubmitPlays
  <2> DEFINE job == [act |-> act, task |-> submitted[act]]
  <2>1. act \in Actors /\ act \notin playing /\ job \in Job
    BY <1>2 DEF TypeOK, MonitorOK, SubmitPlays, Job
  <2>2. Added(job) /\ Len(jobs) \in Nat
    BY <1>2, <2>1, JobAdded DEF SubmitPlays
  <2>3. job.act = act /\ job.task = submitted[act]
    OBVIOUS
  <2>4. /\ sel = "play" /\ sel' = "select"
        /\ UNCHANGED <<pending, begun, submitted>>
    BY <1>2 DEF SubmitPlays
  <2> HIDE DEF job
  <2>5. CASE a # act
    <3>1. Stored(a)' = Stored(a)
      BY <2>4, <2>5 DEF Stored
    <3> QED BY <1>0, <2>2, <2>3, <2>4, <2>5, <3>1, SameNumbers, OtherJobAdded
  <2>6. CASE a = act
    <3>1. pending[a] = <<>> /\ ~HasJob(a)
      BY <2>1, <2>6 DEF MonitorOK, TurnOK, HasJob
    <3>2. Len(pending[a]) = 0
      BY <3>1, NoJobs
    <3>3. Stored(a) = submitted[a] - 1 /\ Stored(a)' = submitted[a]
      BY <2>4, <2>6 DEF Stored
    <3>4. submitted[a] = Len(begun[a]) + 1
      BY <1>0, <3>1, <3>2, <3>3, NumberTypes DEF NumbersOK, Passed
    <3>5. /\ Passed(a)' = Len(begun[a]) + 1
          /\ \A i \in 1 .. Len(jobs') :
               jobs'[i].act = a => jobs'[i].task = Len(begun'[a]) + 1
      BY <2>2, <2>3, <2>4, <2>6, <3>1, <3>4, OwnJobAdded, NumberTypes
    <3> QED BY <2>4, <3>2, <3>3, <3>4, <3>5, NumberTypes DEF NumbersOK
  <2> QED BY <2>5, <2>6
<1>3. CASE SubmitQueues
  <2>1. /\ sel = "queue" /\ sel' = "select" /\ act \in Actors
        /\ UNCHANGED <<jobs, begun, submitted>>
        /\ pending' = [pending EXCEPT ![act] = Append(@, submitted[act])]
    BY <1>3 DEF TypeOK, SubmitQueues
  <2>2. CASE a # act
    <3>1. Stored(a)' = Stored(a) /\ pending'[a] = pending[a]
      BY <2>1, <2>2 DEF Stored, TypeOK
    <3> QED BY <1>0, <2>1, <3>1, SameNumbers, SameJobs
  <2>3. CASE a = act
    <3>1. Stored(a) = submitted[a] - 1 /\ Stored(a)' = submitted[a]
      BY <2>1, <2>3 DEF Stored
    <3>2. /\ Len(pending'[a]) = Len(pending[a]) + 1
          /\ \A k \in 1 .. Len(pending[a]) : pending'[a][k] = pending[a][k]
          /\ pending'[a][Len(pending[a]) + 1] = submitted[a]
      BY <2>1, <2>3, NumberTypes, AppendFacts DEF TypeOK
    <3>3. Passed(a)' = Passed(a)
      BY <2>1 DEF Passed, HasJob
    <3>4. submitted[a] = Passed(a) + Len(pending[a]) + 1
      BY <1>0, <3>1, NumberTypes DEF NumbersOK
    <3>5. \A k \in 1 .. Len(pending'[a]) : pending'[a][k] = Passed(a) + k
      <4> TAKE k \in 1 .. Len(pending'[a])
      <4>1. CASE k = Len(pending[a]) + 1
        BY <3>2, <3>4, <4>1, NumberTypes
      <4>2. CASE k # Len(pending[a]) + 1
        <5>1. k \in 1 .. Len(pending[a])
          BY <3>2, <4>2, NumberTypes
        <5> QED BY <1>0, <3>2, <5>1 DEF NumbersOK
      <4> QED BY <4>1, <4>2
    <3> QED BY <1>0, <2>1, <3>1, <3>2, <3>3, <3>4, <3>5, NumberTypes
        DEF NumbersOK
  <2> QED BY <2>2, <2>3
<1>4. CASE Shutdown
  BY <1>4 DEF Shutdown
<1>5. ASSUME NEW w \in Workers, Take(w) PROVE NumbersOK(a)'
  <2>1. Removed /\ Head(jobs) = jobs[1] /\ jobs[1] \in Job
    BY <1>5, JobRemoved DEF Take
  <2>2. jobs[1].act \in Actors /\ jobs[1].task \in Nat
    BY <2>1 DEF Job
  <2>3. /\ begun' = [begun EXCEPT ![jobs[1].act] = Append(@, jobs[1].task)]
        /\ UNCHANGED <<pending, submitted, sel, act>>
    BY <1>5, <2>1 DEF Take
  <2>4. Stored(a)' = Stored(a)
    BY <2>3 DEF Stored
  <2>5. CASE a # jobs[1].act
    <3>1. begun'[a] = begun[a]
      BY <2>2, <2>3, <2>5 DEF TypeOK
    <3> QED BY <1>0, <2>1, <2>3, <2>4, <2>5, <3>1, SameNumbers, OtherJobRemoved
  <2>6. CASE a = jobs[1].act
    <3>1. 1 \in 1 .. Len(jobs) /\ HasJob(a)
      BY <2>1, <2>6 DEF Removed, HasJob
    <3>2. \A i \in 1 .. Len(jobs') : jobs'[i].act # a
      <4> SUFFICES ASSUME NEW i \in 1 .. Len(jobs') PROVE jobs'[i].act # a
        OBVIOUS
      <4>1. i + 1 \in 1 .. Len(jobs) /\ i + 1 # 1 /\ jobs'[i] = jobs[i + 1]
        BY <2>1 DEF Removed
      <4> QED BY <2>6, <3>1, <4>1 DEF TurnOK
    <3>3. Len(begun'[a]) = Len(begun[a]) + 1
      BY <2>2, <2>3, <2>6, AppendFacts DEF TypeOK
    <3>4. Passed(a)' = Passed(a)
      BY <3>1, <3>2, <3>3 DEF Passed, HasJob
    <3> QED BY <1>0, <2>3, <2>4, <3>2, <3>4 DEF NumbersOK
  <2> QED BY <2>5, <2>6
<1>6. ASSUME NEW w \in Workers, TaskEnds(w) PROVE NumbersOK(a)'
  BY <1>0, <1>6, SameNumbers, SameJobs DEF TaskEnds, Stored
<1>7. ASSUME NEW w \in Workers, CompleteTests(w) PROVE NumbersOK(a)'
  BY <1>0, <1>7, SameNumbers, SameJobs DEF CompleteTests, Stored
<1>8. ASSUME NEW w \in Workers, CompleteStops(w) PROVE NumbersOK(a)'
  BY <1>0, <1>8, SameNumbers, SameJobs DEF CompleteStops, Leaves, Stored
<1>9. ASSUME NEW w \in Workers, CompleteContinues(w) PROVE NumbersOK(a)'
  <2> DEFINE b == busy[w]
             job == [act |-> b, task |-> Head(pending[b])]
  <2>1. /\ b \in Actors /\ pending[b] \in Seq(Nat) /\ pending[b] # <<>>
        /\ ~HasJob(b)
    <3>1. at[w] = "next"
      BY <1>9 DEF CompleteContinues
    <3>2. b \in Actors
      BY <3>1 DEF TypeOK
    <3>3. pending[b] # <<>>
      BY <3>1 DEF MonitorOK
    <3>4. ~HasJob(b)
      BY <3>1 DEF TurnOK, HasJob
    <3> QED BY <3>2, <3>3, <3>4 DEF TypeOK
  <2>2. job \in Job /\ job.act = b /\ job.task = pending[b][1]
    BY <2>1, TailFacts DEF Job
  <2>3. Added(job) /\ Len(jobs) \in Nat
    BY <1>0, <1>9, <2>2, JobAdded DEF CompleteContinues
  <2>4. /\ pending' = [pending EXCEPT ![b] = Tail(@)]
        /\ UNCHANGED <<begun, submitted, sel, act>>
    BY <1>9 DEF CompleteContinues, Leaves
  <2>5. Stored(a)' = Stored(a)
    BY <2>4 DEF Stored
  <2> HIDE DEF b, job
  <2>6. CASE a # b
    <3>1. pending'[a] = pending[a]
      BY <2>1, <2>4, <2>6 DEF TypeOK
    <3> QED BY <1>0, <2>2, <2>3, <2>4, <2>5, <2>6, <3>1, SameNumbers,
               OtherJobAdded
  <2>7. CASE a = b
    <3>1. /\ Len(pending[a]) \in Nat \ {0}
          /\ Len(pending'[a]) = Len(pending[a]) - 1
          /\ \A k \in 1 .. Len(pending[a]) - 1 :
               pending'[a][k] = pending[a][k + 1]
      BY <2>1, <2>4, <2>7, TailFacts DEF TypeOK
    <3>2. Passed(a) = Len(begun[a])
      BY <2>1, <2>7 DEF Passed
    <3>3. job.task = Len(begun[a]) + 1
      BY <1>0, <2>2, <2>7, <3>1, <3>2 DEF NumbersOK
    <3>4. /\ Passed(a)' = Passed(a) + 1
          /\ \A i \in 1 .. Len(jobs') :
               jobs'[i].act = a => jobs'[i].task = Len(begun'[a]) + 1
      BY <2>1, <2>2, <2>3, <2>4, <2>7, <3>3, OwnJobAdded, NumberTypes
    <3>5. \A k \in 1 .. Len(pending'[a]) :
            pending'[a][k] = Passed(a) + 1 + k
      <4> TAKE k \in 1 .. Len(pending'[a])
      <4>1. k + 1 \in 1 .. Len(pending[a]) /\ pending'[a][k] = pending[a][k + 1]
        BY <3>1
      <4>2. pending[a][k + 1] = Passed(a) + (k + 1)
        BY <1>0, <4>1 DEF NumbersOK
      <4> QED BY <3>1, <4>1, <4>2, NumberTypes
    <3> QED BY <1>0, <2>5, <3>1, <3>4, <3>5, NumberTypes DEF NumbersOK
  <2> QED BY <2>6, <2>7
<1>10. CASE UNCHANGED vars
  BY <1>0, <1>10, SameNumbers, SameJobs DEF vars, Stored
<1> QED
  BY <1>1, <1>2, <1>3, <1>4, <1>5, <1>6, <1>7, <1>8, <1>9, <1>10
  DEF Next, Worker, Ended

(* A pool that is down has no jobs.                                        *)
LEMMA Downs == PoolOK /\ [Next]_vars => DownOK'
  BY DEF PoolOK, TypeOK, DownOK, Next, Worker, Ended, vars, SubmitTests,
         SubmitPlays, SubmitQueues, Shutdown, Take, TaskEnds, CompleteTests,
         CompleteStops, CompleteContinues, Leaves

LEMMA Start == Init => PoolOK
<1> SUFFICES ASSUME Init PROVE PoolOK
  OBVIOUS
<1> USE PoolAssumption
<1>1. Len(jobs) = 0 /\ \A a \in Actors : Len(begun[a]) = 0 /\ Len(pending[a]) = 0
  BY NoJobs DEF Init
<1>2. TypeOK
  <2>1. /\ <<>> \in Seq(Job)
        /\ [a \in Actors |-> <<>>] \in [Actors -> Seq(Nat)]
        /\ [a \in Actors |-> 0] \in [Actors -> Nat]
    OBVIOUS
  <2>2. /\ \A a \in Actors : owner[a] = NoThread
        /\ \A w \in Workers : at[w] = "idle"
    BY DEF Init
  <2>3. owner \in [Actors -> Workers \cup {Selector, NoThread}]
    BY DEF Init
  <2>4. \A a \in Actors : owner[a] = Selector <=> sel # "select" /\ act = a
    BY <2>2 DEF Init
  <2>5. \A a \in Actors, w \in Workers :
          owner[a] = w <=> InMonitor(w) /\ busy[w] = a
    BY <2>2 DEF InMonitor
  <2> QED BY <2>1, <2>2, <2>3, <2>4, <2>5 DEF Init, TypeOK
<1>3. TurnOK
  BY <1>1 DEF Init, TurnOK
<1>4. MonitorOK
  BY DEF Init, MonitorOK
<1>5. OrderOK
  <2> SUFFICES ASSUME NEW a \in Actors PROVE NumbersOK(a)
    BY DEF OrderOK
  <2>1. Stored(a) = 0
    BY DEF Init, Stored
  <2>2. ~HasJob(a) /\ Passed(a) = 0
    BY <1>1 DEF HasJob, Passed
  <2> QED BY <1>1, <2>1, <2>2 DEF NumbersOK
<1> QED BY <1>2, <1>3, <1>4, <1>5 DEF PoolOK, DownOK, Init

LEMMA PoolHolds == Spec => []PoolOK
<1>1. PoolOK /\ [Next]_vars => PoolOK'
  BY Typing, Turns, Monitors, Numbers, Downs DEF PoolOK
<1> QED BY Start, <1>1, PTL DEF Spec

(* The pool's variables keep their types, and a thread that is inside the  *)
(* monitor of an actor is its owner.                                       *)
THEOREM TypesHold == Spec => []TypeOK
<1>1. PoolOK => TypeOK
  BY DEF PoolOK
<1> QED BY PoolHolds, <1>1, PTL

(* Arithmetic the step of Take rests on.                                   *)
LEMMA StrictlyBelow ==
  \A b, p, s \in Nat : \A t \in Int : t <= s /\ t = b + 1 + p => b < s
  OBVIOUS

-----------------------------------------------------------------------------
(* The pool implements the serial executor: the tasks of an actor run one  *)
(* at a time and in the order in which they were submitted.                *)
LEMMA StartMaps == Init => Executor!Init
  BY DEF Init, Executor!Init

LEMMA StepMaps ==
  PoolOK /\ [Next]_vars => [Executor!Next]_Executor!vars
<1> SUFFICES ASSUME PoolOK, [Next]_vars PROVE [Executor!Next]_Executor!vars
  OBVIOUS
<1> DEFINE running == {a \in Actors :
                        \E w \in Workers : at[w] = "run" /\ busy[w] = a}
<1> USE PoolAssumption
<1> TypeOK /\ TurnOK /\ MonitorOK
  BY DEF PoolOK
<1>1. ASSUME NEW a \in Actors, SubmitTests(a) PROVE Executor!Next
  <2>1. Executor!Submit(a)
    BY <1>1 DEF SubmitTests, Executor!Submit
  <2> QED BY <2>1 DEF Executor!Next
<1>2. CASE SubmitPlays
  BY <1>2 DEF SubmitPlays, Executor!vars
<1>3. CASE SubmitQueues
  BY <1>3 DEF SubmitQueues, Executor!vars
<1>4. CASE Shutdown
  BY <1>4 DEF Shutdown, Executor!Next, Executor!Shutdown
<1>5. ASSUME NEW w \in Workers, Take(w) PROVE Executor!Next
  <2>1. Removed /\ Head(jobs) = jobs[1] /\ jobs[1] \in Job
    BY <1>5, JobRemoved DEF Take
  <2>2. PICK a \in Actors : a = jobs[1].act
    BY <2>1 DEF Job
  <2>3. a = jobs[1].act /\ 1 \in 1 .. Len(jobs) /\ ~down
    BY <1>5, <2>2, <2>1 DEF Removed, Take, PoolOK, DownOK
  <2>4. NumbersOK(a)
    BY <2>3 DEF PoolOK, OrderOK
  <2>5. jobs[1].task = Len(begun[a]) + 1
    BY <2>3, <2>4 DEF NumbersOK
  <2>6. Len(begun[a]) < submitted[a]
    <3>1. Passed(a) = Len(begun[a]) + 1
      BY <2>3 DEF Passed, HasJob
    <3>2. Stored(a) <= submitted[a]
      BY NumberTypes DEF Stored
    <3>3. Stored(a) = Len(begun[a]) + 1 + Len(pending[a])
      BY <2>4, <3>1 DEF NumbersOK
    <3>4. /\ Len(pending[a]) \in Nat /\ Len(begun[a]) \in Nat
          /\ submitted[a] \in Nat /\ Stored(a) \in Int
      BY NumberTypes
    <3> QED BY <3>2, <3>3, <3>4, StrictlyBelow
  <2>7. a \notin running
    BY <2>3 DEF TurnOK
  <2>8. running' = running \cup {a}
    <3>1. /\ at[w] = "idle" /\ at' = [at EXCEPT ![w] = "run"]
          /\ busy' = [busy EXCEPT ![w] = a]
      BY <1>5, <2>1, <2>3 DEF Take
    <3> QED BY <2>3, <3>1 DEF TypeOK
  <2>9. /\ begun' = [begun EXCEPT ![a] = Append(@, Len(@) + 1)]
        /\ UNCHANGED <<submitted, down>>
    BY <1>5, <2>1, <2>3, <2>5 DEF Take
  <2>10. Executor!Begin(a)
    BY <2>3, <2>6, <2>7, <2>8, <2>9 DEF Executor!Begin
  <2> QED BY <2>10 DEF Executor!Next
<1>6. ASSUME NEW w \in Workers, TaskEnds(w) PROVE Executor!Next
  <2>1. PICK a \in Actors : a = busy[w]
    BY <1>6 DEF TaskEnds, TypeOK
  <2>2. /\ at[w] = "run" /\ at' = [at EXCEPT ![w] = "complete"]
        /\ UNCHANGED <<busy, submitted, begun, down>>
    BY <1>6 DEF TaskEnds
  <2>3. a \in running
    BY <2>1, <2>2
  <2>4. \A v \in Workers : at[v] = "run" /\ busy[v] = a => v = w
    BY <2>1, <2>2 DEF TurnOK
  <2>5. running' = running \ {a}
    BY <2>1, <2>2, <2>4 DEF TypeOK
  <2>6. Executor!End(a)
    BY <2>2, <2>3, <2>5 DEF Executor!End
  <2> QED BY <2>6 DEF Executor!Next
<1>7. ASSUME NEW w \in Workers, CompleteTests(w) PROVE UNCHANGED Executor!vars
  <2>1. running' = running
    BY <1>7 DEF CompleteTests, TypeOK
  <2> QED BY <1>7, <2>1 DEF CompleteTests, Executor!vars
<1>8. ASSUME NEW w \in Workers, Leaves(w), at[w] # "run"
      PROVE  UNCHANGED Executor!vars
  <2>1. running' = running
    BY <1>8 DEF Leaves, TypeOK
  <2> QED BY <1>8, <2>1 DEF Leaves, Executor!vars
<1>9. CASE UNCHANGED vars
  BY <1>9 DEF vars, Executor!vars
<1> QED
  BY <1>1, <1>2, <1>3, <1>4, <1>5, <1>6, <1>7, <1>8, <1>9
  DEF Next, Worker, Ended, CompleteStops, CompleteContinues

THEOREM PoolImplementsExecutor == Spec => ImplementsExecutor
<1> QED BY PoolHolds, StartMaps, StepMaps, PTL
    DEF Spec, ImplementsExecutor, Executor!Spec
=============================================================================
