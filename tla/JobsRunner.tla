----------------------------- MODULE JobsRunner -----------------------------
(***************************************************************************)
(* mln::jobs_runner (threads/jobs_runner.cpp): one worker thread, a queue  *)
(* under a mutex (queue_lock), a condition variable (cv), two flags under  *)
(* a second mutex (state_lock) and two atomic counters.                    *)
(*                                                                         *)
(* Three kinds of threads take part:                                       *)
(*   - the controller, the main thread, which calls start and stop (the    *)
(*     program has one: bot_delta::start, bot_delta::close);               *)
(*   - one producer per job, an event handler thread that calls add_job;   *)
(*   - the worker, which executes run_jobs.                                *)
(* A step of the model is one access to state that other threads share.    *)
(* The critical section of add_job touches nothing but the queue, so lock, *)
(* push and unlock are one step, enabled while the worker does not hold    *)
(* the mutex.  The waits of the worker on cv may end spuriously.           *)
(***************************************************************************)
EXTENDS Naturals, Sequences, FiniteSets

CONSTANTS
  Jobs,              \* the jobs, each handed to add_job once by its producer
  CounterModulus,    \* the counters are unsigned: 2^64 in the code
  MaxStarts          \* bound: how often the controller calls start

ASSUME RunnerAssumption ==
  /\ IsFiniteSet(Jobs)
  /\ CounterModulus \in Nat \ {0}
  /\ MaxStarts \in Nat

VARIABLES
  jobs,              \* the queue of jobs_runner
  stop_thread,       \* the flag of the same name
  is_running,        \* the flag of the same name
  jobs_added,        \* the atomic counters
  jobs_completed,
  pcW,               \* where the worker is in run_jobs; "none": no thread
  hand,              \* <<j>> while the worker's local variable job holds j
  pcC,               \* where the controller is in start or stop
  pcP,               \* where each producer is in add_job
  starts,            \* number of calls of start, bounded by MaxStarts
  pushed,            \* history: the jobs in the order they were pushed
  executed,          \* history: the jobs in the order they were executed
  late               \* history: jobs taken since the last request to stop

control == <<stop_thread, is_running, pcC, starts>>
history == <<pushed, executed, late>>
vars == <<jobs, stop_thread, is_running, jobs_added, jobs_completed, pcW, hand,
          pcC, pcP, starts, pushed, executed, late>>

WorkerPlaces == {"none", "loop", "lock", "pred_stop", "block", "waiting",
                 "recheck", "pop", "run", "count", "exited"}

\* The places at which the worker holds queue_lock.
QueueLocked == pcW \in {"pred_stop", "block", "recheck", "pop"}

Init ==
  /\ jobs = <<>>
  /\ stop_thread = FALSE
  /\ is_running = FALSE
  /\ jobs_added = 0
  /\ jobs_completed = 0
  /\ pcW = "none"
  /\ hand = <<>>
  /\ pcC = "idle"
  /\ pcP = [j \in Jobs |-> "new"]
  /\ starts = 0
  /\ pushed = <<>>
  /\ executed = <<>>
  /\ late = 0

-----------------------------------------------------------------------------
(* start and stop.  A call that finds the runner already in the requested  *)
(* state returns false and changes nothing, so it is not a step here.      *)

Start ==
  /\ pcC = "idle"
  /\ ~ is_running
  /\ starts < MaxStarts
  /\ is_running' = TRUE
  /\ stop_thread' = FALSE
  /\ starts' = starts + 1
  /\ pcC' = "spawn"
  /\ UNCHANGED <<jobs, jobs_added, jobs_completed, pcW, hand, pcP, history>>

Spawn ==
  /\ pcC = "spawn"
  /\ pcW' = "loop"
  /\ pcC' = "idle"
  /\ UNCHANGED <<jobs, stop_thread, is_running, jobs_added, jobs_completed,
                 hand, pcP, starts, history>>

StopRequest ==
  /\ pcC = "idle"
  /\ is_running
  /\ stop_thread' = TRUE
  /\ late' = 0
  /\ pcC' = "notify"
  /\ UNCHANGED <<jobs, is_running, jobs_added, jobs_completed, pcW, hand, pcP,
                 starts, pushed, executed>>

\* notify_one and notify_all do the same: one thread at most waits on cv.
WakeWorker == pcW' = IF pcW = "waiting" THEN "lock" ELSE pcW

StopNotify ==
  /\ pcC = "notify"
  /\ WakeWorker
  /\ pcC' = "join"
  /\ UNCHANGED <<jobs, stop_thread, is_running, jobs_added, jobs_completed,
                 hand, pcP, starts, history>>

\* Mutant: the thread is detached instead of joined.
StopDetach ==
  /\ pcC = "join"
  /\ pcW' = "none"
  /\ pcC' = "clear"
  /\ UNCHANGED <<jobs, stop_thread, is_running, jobs_added, jobs_completed,
                 hand, pcP, starts, history>>

StopJoin ==
  /\ pcC = "join"
  /\ pcW = "exited"
  /\ pcW' = "none"
  /\ pcC' = "clear"
  /\ UNCHANGED <<jobs, stop_thread, is_running, jobs_added, jobs_completed,
                 hand, pcP, starts, history>>

StopClear ==
  /\ pcC = "clear"
  /\ is_running' = FALSE
  /\ pcC' = "idle"
  /\ UNCHANGED <<jobs, stop_thread, jobs_added, jobs_completed, pcW, hand, pcP,
                 starts, history>>

-----------------------------------------------------------------------------
(* add_job: push under the lock, notify, and only then count.              *)

Push(j) ==
  /\ pcP[j] = "new"
  /\ ~ QueueLocked
  /\ jobs' = Append(jobs, j)
  /\ pushed' = Append(pushed, j)
  /\ pcP' = [pcP EXCEPT ![j] = "notify"]
  /\ UNCHANGED <<jobs_added, jobs_completed, pcW, hand, control, executed, late>>

\* Mutant: add_job notifies nobody.
NotifyNobody(j) ==
  /\ pcP[j] = "notify"
  /\ pcP' = [pcP EXCEPT ![j] = "count"]
  /\ UNCHANGED <<jobs, jobs_added, jobs_completed, pcW, hand, control, history>>

NotifyOne(j) ==
  /\ pcP[j] = "notify"
  /\ WakeWorker
  /\ pcP' = [pcP EXCEPT ![j] = "count"]
  /\ UNCHANGED <<jobs, jobs_added, jobs_completed, hand, control, history>>

\* Mutant: the counter is taken for an unbounded integer.
CountAddedUnbounded(j) ==
  /\ pcP[j] = "count"
  /\ jobs_added' = jobs_added + 1
  /\ pcP' = [pcP EXCEPT ![j] = "done"]
  /\ UNCHANGED <<jobs, jobs_completed, pcW, hand, control, history>>

CountAdded(j) ==
  /\ pcP[j] = "count"
  /\ jobs_added' = (jobs_added + 1) % CounterModulus
  /\ pcP' = [pcP EXCEPT ![j] = "done"]
  /\ UNCHANGED <<jobs, jobs_completed, pcW, hand, control, history>>

-----------------------------------------------------------------------------
(* run_jobs.                                                               *)

LoopTest ==
  /\ pcW = "loop"
  /\ pcW' = IF stop_thread THEN "exited" ELSE "lock"
  /\ UNCHANGED <<jobs, jobs_added, jobs_completed, hand, pcP, control, history>>

\* Take queue_lock (on entry, or when cv.wait returns it) and evaluate the
\* first half of the predicate of the wait, !jobs.empty().
LockAndTestJobs ==
  /\ pcW = "lock"
  /\ pcW' = IF jobs # <<>> THEN "recheck" ELSE "pred_stop"
  /\ UNCHANGED <<jobs, jobs_added, jobs_completed, hand, pcP, control, history>>

\* The second half of the predicate reads stop_thread, which stop() writes
\* without holding queue_lock.
TestStop ==
  /\ pcW = "pred_stop"
  /\ pcW' = IF stop_thread THEN "recheck" ELSE "block"
  /\ UNCHANGED <<jobs, jobs_added, jobs_completed, hand, pcP, control, history>>

\* cv.wait releases queue_lock and starts waiting in one step.
Block ==
  /\ pcW = "block"
  /\ pcW' = "waiting"
  /\ UNCHANGED <<jobs, jobs_added, jobs_completed, hand, pcP, control, history>>

SpuriousWake ==
  /\ pcW = "waiting"
  /\ pcW' = "lock"
  /\ UNCHANGED <<jobs, jobs_added, jobs_completed, hand, pcP, control, history>>

Recheck ==
  /\ pcW = "recheck"
  /\ pcW' = IF stop_thread THEN "exited" ELSE "pop"
  /\ UNCHANGED <<jobs, jobs_added, jobs_completed, hand, pcP, control, history>>

\* Mutant: front() without pop().
PopKeepingFront ==
  /\ pcW = "pop"
  /\ hand' = <<Head(jobs)>>
  /\ late' = IF stop_thread THEN late + 1 ELSE late
  /\ pcW' = "run"
  /\ UNCHANGED <<jobs, jobs_added, jobs_completed, pcP, control, pushed, executed>>

Pop ==
  /\ pcW = "pop"
  /\ hand' = <<Head(jobs)>>
  /\ jobs' = Tail(jobs)
  /\ late' = IF stop_thread THEN late + 1 ELSE late
  /\ pcW' = "run"
  /\ UNCHANGED <<jobs_added, jobs_completed, pcP, control, pushed, executed>>

RunJob ==
  /\ pcW = "run"
  /\ executed' = Append(executed, Head(hand))
  /\ hand' = <<>>
  /\ pcW' = "count"
  /\ UNCHANGED <<jobs, jobs_added, jobs_completed, pcP, control, pushed, late>>

\* Mutant: the queue is drained before stop_thread is read again.
CountCompletedDraining ==
  /\ pcW = "count"
  /\ jobs_completed' = (jobs_completed + 1) % CounterModulus
  /\ pcW' = IF jobs # <<>> THEN "pop" ELSE "loop"
  /\ UNCHANGED <<jobs, jobs_added, hand, pcP, control, history>>

\* Mutant: a finished job is not counted.
CountCompletedForgotten ==
  /\ pcW = "count"
  /\ pcW' = "loop"
  /\ UNCHANGED <<jobs, jobs_added, jobs_completed, hand, pcP, control, history>>

CountCompleted ==
  /\ pcW = "count"
  /\ jobs_completed' = (jobs_completed + 1) % CounterModulus
  /\ pcW' = "loop"
  /\ UNCHANGED <<jobs, jobs_added, hand, pcP, control, history>>

-----------------------------------------------------------------------------
Controller == Start \/ Spawn \/ StopRequest \/ StopNotify \/ StopJoin \/ StopClear

Producer(j) == Push(j) \/ NotifyOne(j) \/ CountAdded(j)

Worker == \/ LoopTest \/ LockAndTestJobs \/ TestStop \/ Block
          \/ Recheck \/ Pop \/ RunJob \/ CountCompleted

Next == Controller \/ Worker \/ SpuriousWake \/ \E j \in Jobs : Producer(j)

Spec == Init /\ [][Next]_vars

(* Fairness: a thread that can go on does.  Nobody owes a call of start,   *)
(* of stop or of add_job, and the library owes no spurious wake-up.        *)
Fairness ==
  /\ WF_vars(Worker)
  /\ WF_vars(Spawn \/ StopNotify \/ StopJoin \/ StopClear)
  /\ \A j \in Jobs : WF_vars(NotifyOne(j) \/ CountAdded(j))

FairSpec == Spec /\ Fairness

-----------------------------------------------------------------------------
\* get_jobs_in_queue: the difference of two unsigned counters.
JobsInQueue ==
  (jobs_added + CounterModulus - jobs_completed) % CounterModulus

\* Every variable of jobs_runner, and every program counter, has its type.
TypeOK ==
  /\ jobs \in Seq(Jobs)
  /\ stop_thread \in BOOLEAN
  /\ is_running \in BOOLEAN
  /\ jobs_added \in 0 .. CounterModulus - 1
  /\ jobs_completed \in 0 .. CounterModulus - 1
  /\ pcW \in WorkerPlaces
  /\ hand \in {<<>>} \cup {<<j>> : j \in Jobs}
  /\ pcC \in {"idle", "spawn", "notify", "join", "clear"}
  /\ pcP \in [Jobs -> {"new", "notify", "count", "done"}]
  /\ starts \in 0 .. MaxStarts
  /\ pushed \in Seq(Jobs)
  /\ executed \in Seq(Jobs)
  /\ late \in Nat

\* No job is lost, repeated or overtaken, across any number of stops and
\* restarts: what was executed, what the worker holds and what waits, put
\* end to end, is what add_job pushed.
FifoOnce == executed \o hand \o jobs = pushed

\* The worker takes a job only from a queue that has one: between the test of
\* the predicate and the pop nobody else removes a job (front() and pop() of
\* an empty std::queue are undefined).
PopHasJob == pcW = "pop" => jobs # <<>>

\* stop() lets at most one more job begin after it set stop_thread: the worker
\* reads the flag before every pop, once.
AtMostOneLateJob == late <= 1

\* When no call of start or stop is in progress and is_running is false, the
\* worker thread is gone and holds no job: stop() joins before it clears the
\* flag, so start() never creates a second worker beside the first.
StoppedMeansQuiet ==
  ~ is_running => pcW = "none" /\ hand = <<>>

\* get_jobs_in_queue, printed by print_thread_data, is exact once every call
\* of add_job has returned and the worker is not between a job and its count,
\* even when the totals have wrapped around.
QueueCountExact ==
  (/\ \A j \in Jobs : pcP[j] \notin {"notify", "count"}
   /\ pcW # "count")
  => JobsInQueue = (Len(hand) + Len(jobs)) % CounterModulus

\* A job in the queue is executed, unless somebody asks the runner to stop:
\* the notification of add_job cannot be lost by the worker.
JobEventuallyRuns ==
  \A j \in Jobs :
    (is_running /\ pcP[j] # "new")
      ~> (j \in {executed[i] : i \in DOMAIN executed} \/ stop_thread)

\* The detailed runner implements the queue of JobQueue.
Queue == INSTANCE JobQueue WITH queue <- jobs, active <- hand, done <- executed
ImplementsQueue == Queue!Spec

-----------------------------------------------------------------------------
(* Statements of the repository that the code does not keep.               *)

\* stop(), which close() calls after "Closing the bot...", comes back.
StopReturns == pcC = "notify" ~> pcC = "idle"
=============================================================================
