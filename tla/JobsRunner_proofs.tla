------------------------- MODULE JobsRunner_proofs -------------------------
(***************************************************************************)
(* Proofs about JobsRunner, for every set of jobs, every width of the      *)
(* counters and every number of starts.                                    *)
(*                                                                         *)
(* The inductive invariant adds to the properties what the threads know of *)
(* each other: the controller clears is_running only when no worker is     *)
(* left, so the flag stop_thread is never reset under a running worker;    *)
(* the worker that leaves the wait found a job or was told to stop; and    *)
(* the job of a producer that has not pushed yet is nowhere in the runner. *)
(***************************************************************************)
EXTENDS JobsRunner, Integers, SequenceTheorems, FiniteSetTheorems, TLAPS

\* What each place of the controller says about the worker and the flags.
ControllerInv ==
  /\ ~ is_running => pcC = "idle" /\ pcW = "none"
  /\ pcC = "spawn" => pcW = "none" /\ ~ stop_thread
  /\ pcC \in {"notify", "join", "clear"} => stop_thread
  /\ pcC = "clear" => pcW = "none"
  /\ (pcC = "idle" /\ is_running) => pcW # "none" /\ ~ stop_thread

\* What each place of the worker says about the queue and the job in hand.
WorkerInv ==
  /\ pcW = "run" <=> hand # <<>>
  /\ pcW = "pop" => jobs # <<>>
  /\ pcW = "recheck" => jobs # <<>> \/ stop_thread
  /\ late <= 1
  /\ (pcW = "pop" /\ stop_thread) => late = 0

Inv == TypeOK /\ ControllerInv /\ WorkerInv

\* Most steps leave the jobs where they are.
MovesNoJob == UNCHANGED <<jobs, hand, pushed, executed>>

LEMMA InitInv == Init => Inv
<1> SUFFICES ASSUME Init PROVE Inv
  OBVIOUS
<1>1. TypeOK
  <2>1. <<>> \in Seq(Jobs) /\ 0 \in 0 .. CounterModulus - 1 /\ 0 \in 0 .. MaxStarts
    BY RunnerAssumption
  <2> QED BY <2>1 DEF Init, TypeOK, WorkerPlaces
<1>2. ControllerInv /\ WorkerInv
  BY DEF Init, ControllerInv, WorkerInv
<1> QED BY <1>1, <1>2 DEF Inv

\* Counting stays within the width of the counter.
LEMMA CountInRange ==
  ASSUME NEW c \in 0 .. CounterModulus - 1
  PROVE  (c + 1) % CounterModulus \in 0 .. CounterModulus - 1
<1>1. CounterModulus \in Nat \ {0} /\ c + 1 \in Nat
  BY RunnerAssumption
<1> QED BY <1>1

LEMMA TypeOKStep == Inv /\ [Next]_vars => TypeOK'
<1> SUFFICES ASSUME Inv, [Next]_vars PROVE TypeOK'
  OBVIOUS
<1> USE DEF Inv, TypeOK
<1>1. CASE Controller
  <2>1. CASE Start
    <3>1. starts' \in 0 .. MaxStarts
      BY <2>1, RunnerAssumption DEF Start
    <3> QED BY <2>1, <3>1 DEF Start, history
  <2>2. CASE Spawn
    BY <2>2 DEF Spawn, history, WorkerPlaces
  <2>3. CASE StopRequest
    BY <2>3 DEF StopRequest
  <2>4. CASE StopNotify
    BY <2>4 DEF StopNotify, WakeWorker, history, WorkerPlaces
  <2>5. CASE StopJoin
    BY <2>5 DEF StopJoin, history, WorkerPlaces
  <2>6. CASE StopClear
    BY <2>6 DEF StopClear, history
  <2> QED BY <1>1, <2>1, <2>2, <2>3, <2>4, <2>5, <2>6 DEF Controller
<1>2. CASE Worker
  <2>1. CASE LoopTest \/ LockAndTestJobs \/ TestStop \/ Block \/ Recheck
    BY <2>1 DEF LoopTest, LockAndTestJobs, TestStop, Block, Recheck, control, history,
       WorkerPlaces
  <2>2. CASE Pop
    <3>1. Head(jobs) \in Jobs /\ Tail(jobs) \in Seq(Jobs)
      BY <2>2, HeadTailProperties DEF Pop, WorkerInv
    <3>2. late' \in Nat /\ hand' \in {<<j>> : j \in Jobs}
      BY <2>2, <3>1 DEF Pop
    <3> QED BY <2>2, <3>1, <3>2 DEF Pop, control, WorkerPlaces
  <2>3. CASE RunJob
    <3>1. hand # <<>>
      BY <2>3 DEF RunJob, WorkerInv
    <3>2. PICK j \in Jobs : hand = <<j>>
      BY <3>1
    <3>3. executed' \in Seq(Jobs)
      BY <2>3, <3>2, AppendProperties DEF RunJob
    <3> QED BY <2>3, <3>3 DEF RunJob, control, WorkerPlaces
  <2>4. CASE CountCompleted
    BY <2>4, CountInRange DEF CountCompleted, control, history, WorkerPlaces
  <2> QED BY <1>2, <2>1, <2>2, <2>3, <2>4 DEF Worker
<1>3. CASE SpuriousWake
  BY <1>3 DEF SpuriousWake, control, history, WorkerPlaces
<1>4. ASSUME NEW j \in Jobs, Producer(j) PROVE TypeOK'
  <2>1. CASE Push(j)
    <3>1. jobs' \in Seq(Jobs) /\ pushed' \in Seq(Jobs)
      BY <2>1, AppendProperties DEF Push
    <3> QED BY <2>1, <3>1 DEF Push, control
  <2>2. CASE NotifyOne(j)
    BY <2>2 DEF NotifyOne, WakeWorker, control, history, WorkerPlaces
  <2>3. CASE CountAdded(j)
    BY <2>3, CountInRange DEF CountAdded, control, history
  <2> QED BY <1>4, <2>1, <2>2, <2>3 DEF Producer
<1>5. CASE UNCHANGED vars
  BY <1>5 DEF vars
<1> QED BY <1>1, <1>2, <1>3, <1>4, <1>5 DEF Next

\* Where the controller is: only it starts and joins the worker, and it does
\* so between setting the one flag and the other.
LEMMA ControllerInvStep == Inv /\ [Next]_vars => ControllerInv'
<1> SUFFICES ASSUME Inv, [Next]_vars PROVE ControllerInv'
  OBVIOUS
<1> USE DEF Inv, TypeOK, ControllerInv
<1>1. CASE Controller
  BY <1>1 DEF Controller, Start, Spawn, StopRequest, StopNotify, StopJoin, StopClear,
     WakeWorker, history
<1>2. CASE Worker \/ SpuriousWake
  <2>1. UNCHANGED control /\ pcW # "none" /\ pcW' # "none"
    BY <1>2 DEF Worker, LoopTest, LockAndTestJobs, TestStop, Block, Recheck, Pop, RunJob,
       CountCompleted, SpuriousWake
  <2> QED BY <2>1 DEF control
<1>3. ASSUME NEW j \in Jobs, Producer(j) PROVE ControllerInv'
  <2>1. UNCHANGED control /\ (pcW' = "none" <=> pcW = "none")
    BY <1>3 DEF Producer, Push, NotifyOne, CountAdded, WakeWorker
  <2> QED BY <2>1 DEF control
<1>4. CASE UNCHANGED vars
  BY <1>4 DEF vars
<1> QED BY <1>1, <1>2, <1>3, <1>4 DEF Next

\* Where the worker is.  stop_thread becomes false only in Start, when there
\* is no worker, so a worker that left the wait because of the flag still
\* finds it set; and nobody but the worker makes the queue shorter.
LEMMA WorkerInvStep == Inv /\ [Next]_vars => WorkerInv'
<1> SUFFICES ASSUME Inv, [Next]_vars PROVE WorkerInv'
  OBVIOUS
<1> USE DEF Inv, TypeOK, WorkerInv
<1>1. CASE Controller
  <2>1. CASE Start
    BY <2>1 DEF Start, ControllerInv, history
  <2>2. CASE Spawn
    BY <2>2 DEF Spawn, ControllerInv, history
  <2>3. CASE StopRequest
    BY <2>3 DEF StopRequest
  <2>4. CASE StopNotify
    BY <2>4 DEF StopNotify, WakeWorker, history
  <2>5. CASE StopJoin
    BY <2>5 DEF StopJoin, history
  <2>6. CASE StopClear
    BY <2>6 DEF StopClear, history
  <2> QED BY <1>1, <2>1, <2>2, <2>3, <2>4, <2>5, <2>6 DEF Controller
<1>2. CASE Worker
  <2>1. CASE LoopTest \/ LockAndTestJobs \/ TestStop \/ Block
    BY <2>1 DEF LoopTest, LockAndTestJobs, TestStop, Block, control, history
  <2>2. CASE Recheck
    BY <2>2 DEF Recheck, control, history
  <2>3. CASE Pop
    BY <2>3 DEF Pop, control
  <2>4. CASE RunJob \/ CountCompleted
    BY <2>4 DEF RunJob, CountCompleted, control, history
  <2> QED BY <1>2, <2>1, <2>2, <2>3, <2>4 DEF Worker
<1>3. CASE SpuriousWake
  BY <1>3 DEF SpuriousWake, control, history
<1>4. ASSUME NEW j \in Jobs, Producer(j) PROVE WorkerInv'
  <2>1. CASE Push(j)
    <3>1. jobs' # <<>>
      BY <2>1, AppendProperties DEF Push
    <3> QED BY <2>1, <3>1 DEF Push, control
  <2>2. CASE NotifyOne(j) \/ CountAdded(j)
    BY <2>2 DEF NotifyOne, CountAdded, WakeWorker, control, history
  <2> QED BY <1>4, <2>1, <2>2 DEF Producer
<1>5. CASE UNCHANGED vars
  BY <1>5 DEF vars
<1> QED BY <1>1, <1>2, <1>3, <1>4, <1>5 DEF Next

LEMMA InvInductive == Spec => []Inv
<1>1. Inv /\ [Next]_vars => Inv'
  BY TypeOKStep, ControllerInvStep, WorkerInvStep DEF Inv
<1> QED BY InitInv, <1>1, PTL DEF Spec

\* Every variable of the runner keeps its type; the counters keep their width.
THEOREM TypeCorrect == Spec => []TypeOK
<1>1. Inv => TypeOK
  BY DEF Inv
<1> QED BY InvInductive, <1>1, PTL

\* run_jobs never calls front() or pop() on an empty queue.
THEOREM PopIsSafe == Spec => []PopHasJob
<1>1. Inv => PopHasJob
  BY DEF Inv, WorkerInv, PopHasJob
<1> QED BY InvInductive, <1>1, PTL

\* stop() is followed by the start of one more job at most.
THEOREM OneLateJob == Spec => []AtMostOneLateJob
<1>1. Inv => AtMostOneLateJob
  BY DEF Inv, WorkerInv, AtMostOneLateJob
<1> QED BY InvInductive, <1>1, PTL

\* A stopped runner has no worker and no job in hand, so that start() never
\* creates a second worker.
THEOREM StoppedIsQuiet == Spec => []StoppedMeansQuiet
<1>1. Inv => StoppedMeansQuiet
  BY DEF Inv, ControllerInv, WorkerInv, StoppedMeansQuiet
<1> QED BY InvInductive, <1>1, PTL

-----------------------------------------------------------------------------
(* Order: the executed jobs, the job in hand and the queue, end to end.    *)

LEMMA Associativity ==
  \A s, t, u \in Seq(Jobs) : (s \o t) \o u = s \o (t \o u)
BY ConcatAssociative

LEMMA FifoStep ==
  ASSUME Inv, FifoOnce, [Next]_vars
  PROVE  FifoOnce'
<1> USE DEF Inv, TypeOK
<1>0. hand \in Seq(Jobs)
  <2>1. CASE hand = <<>>
    BY <2>1
  <2>2. ASSUME NEW j \in Jobs, hand = <<j>> PROVE hand \in Seq(Jobs)
    BY <2>2
  <2> QED BY <2>1, <2>2
<1>1. CASE MovesNoJob
  BY <1>1 DEF MovesNoJob, FifoOnce
<1>2. ASSUME NEW j \in Jobs, Push(j) PROVE FifoOnce'
  <2>1. /\ jobs' = jobs \o <<j>> /\ pushed' = pushed \o <<j>>
        /\ hand' = hand /\ executed' = executed
    BY <1>2, AppendIsConcat DEF Push, control
  <2>2. executed \o hand \in Seq(Jobs) /\ jobs \in Seq(Jobs) /\ <<j>> \in Seq(Jobs)
    BY <1>0, ConcatProperties
  <2>3. ((executed \o hand) \o jobs) \o <<j>> = (executed \o hand) \o (jobs \o <<j>>)
    BY <2>2, Associativity, Zenon
  <2> QED BY <2>1, <2>3 DEF FifoOnce
<1>3. CASE Pop
  <2>1. jobs # <<>> /\ hand = <<>>
    BY <1>3 DEF Pop, WorkerInv
  <2>2. /\ hand' = <<Head(jobs)>> /\ jobs' = Tail(jobs)
        /\ executed' = executed /\ pushed' = pushed
    BY <1>3 DEF Pop
  <2>3. /\ <<Head(jobs)>> \in Seq(Jobs) /\ Tail(jobs) \in Seq(Jobs)
        /\ executed \in Seq(Jobs)
    BY <2>1, HeadTailProperties
  <2>4. <<Head(jobs)>> \o Tail(jobs) = jobs
    BY <2>1
  <2>5. (executed \o <<Head(jobs)>>) \o Tail(jobs) = executed \o jobs
    <3>1. (executed \o <<Head(jobs)>>) \o Tail(jobs) = executed \o (<<Head(jobs)>> \o Tail(jobs))
      BY <2>3, Associativity, Zenon
    <3> QED BY <2>4, <3>1, Zenon
  <2>6. executed \o <<>> = executed
    BY ConcatEmptySeq
  <2> QED BY <2>1, <2>2, <2>5, <2>6 DEF FifoOnce
<1>4. CASE RunJob
  <2>1. PICK j \in Jobs : hand = <<j>>
    BY <1>4 DEF RunJob, WorkerInv
  <2>2. /\ executed' = executed \o <<j>> /\ hand' = <<>>
        /\ jobs' = jobs /\ pushed' = pushed
    BY <1>4, <2>1, AppendIsConcat DEF RunJob
  <2>3. executed \o <<j>> \in Seq(Jobs)
    BY <1>0, <2>1, ConcatProperties
  <2>4. (executed \o <<j>>) \o <<>> = executed \o <<j>>
    BY <2>3, ConcatEmptySeq
  <2> QED BY <2>1, <2>2, <2>4 DEF FifoOnce
<1>5. MovesNoJob \/ Pop \/ RunJob \/ \E j \in Jobs : Push(j)
  BY DEF MovesNoJob, vars, Next, Controller, Worker, Producer, Start, Spawn, StopRequest,
     StopNotify, StopJoin, StopClear, NotifyOne, CountAdded, LoopTest, LockAndTestJobs,
     TestStop, Block, SpuriousWake, Recheck, CountCompleted, history
<1> QED BY <1>1, <1>2, <1>3, <1>4, <1>5

\* The jobs are executed in the order in which add_job pushed them, each once
\* and none left out, for any number of producers, stops and restarts.
THEOREM JobsInOrder == Spec => []FifoOnce
<1>1. Init => FifoOnce
  BY DEF Init, FifoOnce
<1>2. Inv /\ FifoOnce /\ [Next]_vars => FifoOnce'
  BY FifoStep
<1> QED BY InvInductive, <1>1, <1>2, PTL DEF Spec

-----------------------------------------------------------------------------
(* The queue of JobQueue.                                                  *)

Elements(s) == {s[i] : i \in DOMAIN s}

\* The job of a producer that has not pushed yet is nowhere.
NotYetPushed ==
  \A j \in Jobs : pcP[j] = "new" =>
    j \notin Elements(jobs) \cup Elements(hand) \cup Elements(executed)

LEMMA ElementsAppend ==
  ASSUME NEW s \in Seq(Jobs), NEW j \in Jobs
  PROVE  Elements(Append(s, j)) = Elements(s) \cup {j}
<1>1. /\ DOMAIN s = 1 .. Len(s) /\ Len(s) \in Nat
      /\ DOMAIN Append(s, j) = 1 .. Len(s) + 1
      /\ \A i \in 1 .. Len(s) : Append(s, j)[i] = s[i]
      /\ Append(s, j)[Len(s) + 1] = j
  OBVIOUS
<1> QED BY <1>1 DEF Elements

LEMMA ElementsHeadTail ==
  ASSUME NEW s \in Seq(Jobs), s # <<>>
  PROVE  /\ Elements(Tail(s)) \subseteq Elements(s)
         /\ Head(s) \in Elements(s)
<1>1. /\ DOMAIN s = 1 .. Len(s) /\ Len(s) \in Nat \ {0}
      /\ DOMAIN Tail(s) = 1 .. Len(s) - 1
      /\ \A i \in 1 .. Len(s) - 1 : Tail(s)[i] = s[i + 1]
      /\ Head(s) = s[1]
  OBVIOUS
<1> QED BY <1>1 DEF Elements

LEMMA ElementsSmall ==
  Elements(<<>>) = {} /\ \A j \in Jobs : Elements(<<j>>) = {j}
BY DEF Elements

\* What a step is to the queue: one of its actions, or none.
LEMMA QueueStep ==
  ASSUME Inv, NotYetPushed, [Next]_vars
  PROVE  [Queue!Next]_(Queue!vars) /\ NotYetPushed'
<1> USE DEF Inv, TypeOK
<1>1. CASE MovesNoJob
  <2>1. \A j \in Jobs : pcP'[j] = "new" => pcP[j] = "new"
    BY <1>1 DEF Next, Controller, Worker, Producer, Start, Spawn, StopRequest, StopNotify,
       StopJoin, StopClear, Push, NotifyOne, CountAdded, LoopTest, LockAndTestJobs, TestStop,
       Block, SpuriousWake, Recheck, Pop, RunJob, CountCompleted, vars
  <2> QED BY <1>1, <2>1 DEF MovesNoJob, NotYetPushed, Queue!vars
<1>2. ASSUME NEW j \in Jobs, Push(j) PROVE Queue!Submit(j) /\ NotYetPushed'
  <2>1. jobs' = Append(jobs, j) /\ hand' = hand /\ executed' = executed /\ pcP[j] = "new"
          /\ pcP' = [pcP EXCEPT ![j] = "notify"]
    BY <1>2 DEF Push, control
  <2>2. Elements(jobs') = Elements(jobs) \cup {j}
    BY <2>1, ElementsAppend
  <2>3. j \notin Elements(jobs) \cup Elements(hand) \cup Elements(executed)
    BY <2>1 DEF NotYetPushed
  <2>4. NotYetPushed'
    BY <2>1, <2>2 DEF NotYetPushed
  <2> QED BY <2>1, <2>3, <2>4 DEF Queue!Submit, Queue!Known, Queue!Held, Elements
<1>3. CASE Pop
  <2>1. jobs # <<>> /\ hand = <<>>
    BY <1>3 DEF Pop, WorkerInv
  <2>2. hand' = <<Head(jobs)>> /\ jobs' = Tail(jobs) /\ executed' = executed /\ pcP' = pcP
    BY <1>3 DEF Pop
  <2>3. Head(jobs) \in Jobs
    BY <2>1
  <2>4. Elements(jobs') \subseteq Elements(jobs) /\ Elements(hand') \subseteq Elements(jobs)
    BY <2>1, <2>2, <2>3, ElementsHeadTail, ElementsSmall
  <2>5. NotYetPushed'
    BY <2>2, <2>4 DEF NotYetPushed
  <2> QED BY <2>1, <2>2, <2>5 DEF Queue!Next, Queue!Take
<1>4. CASE RunJob
  <2>1. PICK j \in Jobs : hand = <<j>>
    BY <1>4 DEF RunJob, WorkerInv
  <2>2. executed' = Append(executed, j) /\ hand' = <<>> /\ jobs' = jobs /\ pcP' = pcP
    BY <1>4, <2>1 DEF RunJob
  <2>3. Elements(executed') = Elements(executed) \cup Elements(hand)
          /\ Elements(hand') = {}
    BY <2>1, <2>2, ElementsAppend, ElementsSmall
  <2>4. NotYetPushed'
    BY <2>2, <2>3 DEF NotYetPushed
  <2> QED BY <2>1, <2>2, <2>4 DEF Queue!Next, Queue!Finish
<1>5. MovesNoJob \/ Pop \/ RunJob \/ \E j \in Jobs : Push(j)
  BY DEF MovesNoJob, vars, Next, Controller, Worker, Producer, Start, Spawn, StopRequest,
     StopNotify, StopJoin, StopClear, NotifyOne, CountAdded, LoopTest, LockAndTestJobs,
     TestStop, Block, SpuriousWake, Recheck, CountCompleted, history
<1> QED BY <1>1, <1>2, <1>3, <1>4, <1>5 DEF Queue!Next

\* With its threads, its lock, its condition variable, its stops and restarts, the
\* runner is to those who add jobs the queue of JobQueue.
THEOREM IsJobQueue == Spec => ImplementsQueue
<1>1. Init => Queue!Init /\ NotYetPushed
  BY ElementsSmall DEF Init, Queue!Init, NotYetPushed
<1>2. Inv /\ NotYetPushed /\ [Next]_vars => [Queue!Next]_(Queue!vars) /\ NotYetPushed'
  BY QueueStep
<1> QED BY InvInductive, <1>1, <1>2, PTL DEF Spec, ImplementsQueue, Queue!Spec

-----------------------------------------------------------------------------
(* The counters.  Arithmetic modulo their width first.                     *)

\* A multiple of d that is closer to 0 than d is 0.
LEMMA Small ==
  ASSUME NEW d \in Nat \ {0}, NEW k \in Int, -d < k * d, k * d < d
  PROVE  k = 0
<1>1. CASE k >= 1
  <2>1. (k - 1) * d >= 0
    BY <1>1
  <2>2. (k - 1) * d = k * d - d
    OBVIOUS
  <2> QED BY <2>1, <2>2
<1>2. CASE k <= -1
  <2>1. (-1 - k) * d >= 0
    BY <1>2
  <2>2. (-1 - k) * d = -d - k * d
    OBVIOUS
  <2> QED BY <2>1, <2>2
<1> QED BY <1>1, <1>2

LEMMA Division ==
  ASSUME NEW d \in Nat \ {0}, NEW x \in Int
  PROVE  /\ x % d \in 0 .. d - 1 /\ x \div d \in Int
         /\ x = (x \div d) * d + (x % d)
OBVIOUS

LEMMA Remainder ==
  ASSUME NEW d \in Nat \ {0}, NEW x \in Int, NEW q \in Int, NEW r \in 0 .. d - 1,
         x = q * d + r
  PROVE  x % d = r
<1>1. PICK p \in Int, s \in 0 .. d - 1 : p = x \div d /\ s = x % d /\ x = p * d + s
  BY Division
<1>2. (q - p) * d = s - r
  <2>1. (q - p) * d = q * d - p * d
    OBVIOUS
  <2>2. q * d \in Int /\ p * d \in Int
    OBVIOUS
  <2> QED BY <1>1, <2>1, <2>2
<1>3. -d < (q - p) * d /\ (q - p) * d < d
  BY <1>1, <1>2
<1>4. q - p = 0
  BY <1>3, Small
<1>5. q * d = p * d
  BY <1>4
<1>6. q * d \in Int
  OBVIOUS
<1> QED BY <1>1, <1>5, <1>6

\* Adding multiples of d does not change the remainder.
LEMMA Shift ==
  ASSUME NEW d \in Nat \ {0}, NEW x \in Int, NEW k \in Int
  PROVE  (x + k * d) % d = x % d
<1>1. PICK p \in Int, s \in 0 .. d - 1 : p = x \div d /\ s = x % d /\ x = p * d + s
  BY Division
<1>2. x + k * d = (p + k) * d + s
  <2>1. (p + k) * d = p * d + k * d
    OBVIOUS
  <2>2. p * d \in Int /\ k * d \in Int
    OBVIOUS
  <2> QED BY <1>1, <2>1, <2>2
<1>3. x + k * d \in Int /\ p + k \in Int
  OBVIOUS
<1> QED BY <1>1, <1>2, <1>3, Remainder

\* The producers between their push and their count.
Pending == {j \in Jobs : pcP[j] \in {"notify", "count"}}

\* The totals that the counters stand for: one is behind the pushed jobs by the
\* producers that have still to count, the other behind the executed jobs by the
\* worker that has still to count.
CountsOf(added, completed) ==
  /\ jobs_added = added % CounterModulus
  /\ jobs_completed = completed % CounterModulus
  /\ added + Cardinality(Pending) = Len(pushed)
  /\ completed + (IF pcW = "count" THEN 1 ELSE 0) = Len(executed)

CountersInv == \E added, completed \in Nat : CountsOf(added, completed)

LEMMA PendingFinite == IsFiniteSet(Pending) /\ Cardinality(Pending) \in Nat
<1>1. IsFiniteSet(Pending)
  BY RunnerAssumption, FS_Subset DEF Pending
<1> QED BY <1>1, FS_CardinalityType

\* Counting one more is counting one more of the total.
LEMMA NextCount ==
  ASSUME NEW n \in Nat
  PROVE  ((n % CounterModulus) + 1) % CounterModulus = (n + 1) % CounterModulus
<1> DEFINE d == CounterModulus
           p == n \div d
           s == n % d
<1>0. d \in Nat \ {0}
  BY RunnerAssumption
<1> HIDE DEF d
<1>1. p \in Int /\ s \in Int /\ n = p * d + s
  BY <1>0, Division
<1> HIDE DEF p, s
<1>2. p * d \in Int
  BY <1>0, <1>1
<1>3. n + 1 = (s + 1) + p * d /\ s + 1 \in Int
  BY <1>1, <1>2
<1>4. (n + 1) % d = (s + 1) % d
  BY <1>0, <1>1, <1>3, Shift
<1> QED BY <1>4 DEF s, d

LEMMA CountersInit == Init => CountersInv
<1> SUFFICES ASSUME Init PROVE CountsOf(0, 0)
  BY DEF CountersInv
<1>1. Pending = {} /\ Len(pushed) = 0 /\ Len(executed) = 0
  BY DEF Init, Pending
<1>2. 0 % CounterModulus = 0
  BY RunnerAssumption
<1> QED BY <1>1, <1>2, FS_EmptySet DEF Init, CountsOf

LEMMA CountersStep ==
  ASSUME Inv, CountersInv, [Next]_vars
  PROVE  CountersInv'
<1> USE DEF Inv, TypeOK
<1>0. PICK a \in Nat, c \in Nat : CountsOf(a, c)
  BY DEF CountersInv
<1>1. CASE /\ UNCHANGED <<jobs_added, jobs_completed, pushed, executed>>
           /\ Pending' = Pending /\ (pcW' = "count" <=> pcW = "count")
  <2>1. CountsOf(a, c)'
    BY <1>0, <1>1 DEF CountsOf
  <2> QED BY <2>1 DEF CountersInv
<1>2. ASSUME NEW j \in Jobs, Push(j) PROVE CountersInv'
  <2>1. /\ Len(pushed') = Len(pushed) + 1 /\ Pending' = Pending \cup {j} /\ j \notin Pending
    BY <1>2 DEF Push, Pending
  <2>2. UNCHANGED <<jobs_added, jobs_completed, executed, pcW>>
    BY <1>2 DEF Push
  <2>3. Cardinality(Pending') = Cardinality(Pending) + 1
    BY <2>1, PendingFinite, FS_AddElement
  <2>4. Cardinality(Pending) \in Nat /\ Len(pushed) \in Nat
    BY PendingFinite
  <2>5. CountsOf(a, c)'
    BY <1>0, <2>1, <2>2, <2>3, <2>4 DEF CountsOf
  <2> QED BY <2>5 DEF CountersInv
<1>3. ASSUME NEW j \in Jobs, CountAdded(j) PROVE CountersInv'
  <2>1. j \in Pending /\ Pending' = Pending \ {j}
    BY <1>3 DEF CountAdded, Pending
  <2>2. /\ UNCHANGED <<jobs_completed, pushed, executed, pcW>>
        /\ jobs_added' = (jobs_added + 1) % CounterModulus
    BY <1>3 DEF CountAdded, history
  <2>3. Cardinality(Pending') = Cardinality(Pending) - 1
    BY <2>1, PendingFinite, FS_RemoveElement
  <2>4. Cardinality(Pending) \in Nat /\ Len(pushed) \in Nat
    BY PendingFinite
  <2>5. jobs_added' = (a + 1) % CounterModulus
    BY <1>0, <2>2, NextCount DEF CountsOf
  <2>6. CountsOf(a + 1, c)'
    BY <1>0, <2>2, <2>3, <2>4, <2>5 DEF CountsOf
  <2> QED BY <2>6 DEF CountersInv
<1>4. CASE RunJob
  <2>1. PICK j \in Jobs : executed' = Append(executed, j)
    BY <1>4 DEF RunJob, WorkerInv
  <2>2. /\ UNCHANGED <<jobs_added, jobs_completed, pushed, pcP>>
        /\ pcW = "run" /\ pcW' = "count" /\ Len(executed') = Len(executed) + 1
    BY <1>4, <2>1 DEF RunJob
  <2>3. Pending' = Pending
    BY <2>2 DEF Pending
  <2>4. CountsOf(a, c)'
    BY <1>0, <2>2, <2>3 DEF CountsOf
  <2> QED BY <2>4 DEF CountersInv
<1>5. CASE CountCompleted
  <2>1. /\ UNCHANGED <<jobs_added, pushed, executed, pcP>>
        /\ pcW = "count" /\ pcW' = "loop"
        /\ jobs_completed' = (jobs_completed + 1) % CounterModulus
    BY <1>5 DEF CountCompleted, history
  <2>2. Pending' = Pending
    BY <2>1 DEF Pending
  <2>3. jobs_completed' = (c + 1) % CounterModulus
    BY <1>0, <2>1, NextCount DEF CountsOf
  <2>4. CountsOf(a, c + 1)'
    BY <1>0, <2>1, <2>2, <2>3 DEF CountsOf
  <2> QED BY <2>4 DEF CountersInv
<1>6. CASE Controller
  <2>1. UNCHANGED <<jobs_added, jobs_completed, pushed, executed, pcP>>
          /\ (pcW' = "count" <=> pcW = "count")
    BY <1>6 DEF Controller, Start, Spawn, StopRequest, StopNotify, StopJoin, StopClear,
       WakeWorker, ControllerInv, history
  <2> QED BY <1>1, <2>1 DEF Pending
<1>7. CASE LoopTest \/ LockAndTestJobs \/ TestStop \/ Block \/ Recheck \/ Pop \/ SpuriousWake
  <2>1. UNCHANGED <<jobs_added, jobs_completed, pushed, executed, pcP>>
          /\ (pcW' = "count" <=> pcW = "count")
    BY <1>7 DEF LoopTest, LockAndTestJobs, TestStop, Block, Recheck, Pop, SpuriousWake, history
  <2> QED BY <1>1, <2>1 DEF Pending
<1>8. ASSUME NEW j \in Jobs, NotifyOne(j) PROVE CountersInv'
  <2>1. UNCHANGED <<jobs_added, jobs_completed, pushed, executed>>
          /\ (pcW' = "count" <=> pcW = "count")
    BY <1>8 DEF NotifyOne, WakeWorker, history
  <2>2. Pending' = Pending
    BY <1>8 DEF NotifyOne, Pending
  <2> QED BY <1>1, <2>1, <2>2
<1>9. CASE UNCHANGED vars
  BY <1>1, <1>9 DEF vars, Pending
<1> QED BY <1>2, <1>3, <1>4, <1>5, <1>6, <1>7, <1>8, <1>9 DEF Next, Worker, Producer

\* The difference of the two unsigned counters is the number of jobs in the queue
\* and in hand when everybody has counted, for every width of the counters, also
\* when one has wrapped around and the other has not.
THEOREM CountIsExact == Spec => []QueueCountExact
<1>1. ASSUME Inv, FifoOnce, CountersInv,
             \A j \in Jobs : pcP[j] \notin {"notify", "count"}, pcW # "count"
      PROVE  JobsInQueue = (Len(hand) + Len(jobs)) % CounterModulus
  <2> DEFINE d == CounterModulus
             n == Len(hand) + Len(jobs)
  <2>1. PICK a \in Nat, c \in Nat : CountsOf(a, c)
    BY <1>1 DEF CountersInv
  <2>2. Pending = {}
    BY <1>1 DEF Pending
  <2>3. a = Len(pushed) /\ c = Len(executed)
    <3>1. Cardinality(Pending) = 0
      BY <2>2, FS_EmptySet
    <3> QED BY <1>1, <2>1, <3>1 DEF CountsOf
  <2>4. Len(pushed) = Len(executed) + n /\ n \in Nat
    <3>1. executed \in Seq(Jobs) /\ hand \in Seq(Jobs) /\ jobs \in Seq(Jobs)
      <4>1. CASE hand = <<>>
        BY <1>1, <4>1 DEF Inv, TypeOK
      <4>2. ASSUME NEW j \in Jobs, hand = <<j>>
            PROVE  executed \in Seq(Jobs) /\ hand \in Seq(Jobs) /\ jobs \in Seq(Jobs)
        BY <1>1, <4>2 DEF Inv, TypeOK
      <4> QED BY <1>1, <4>1, <4>2 DEF Inv, TypeOK
    <3>2. executed \o hand \in Seq(Jobs)
            /\ Len(executed \o hand) = Len(executed) + Len(hand)
      BY <3>1, ConcatProperties
    <3>3. Len((executed \o hand) \o jobs) = Len(executed \o hand) + Len(jobs)
      BY <3>1, <3>2, ConcatProperties
    <3> QED BY <1>1, <3>1, <3>2, <3>3 DEF FifoOnce
  <2>5. a = c + n
    BY <2>3, <2>4
  <2>6. d \in Nat \ {0}
    BY RunnerAssumption
  <2> HIDE DEF d, n
  <2> DEFINE p == a \div d
             q == c \div d
             r == a % d
             s == c % d
  <2>7. /\ p \in Int /\ r \in Int /\ a = p * d + r
        /\ q \in Int /\ s \in Int /\ c = q * d + s
    BY <2>6, Division
  <2> HIDE DEF p, q, r, s
  <2>8. r + d - s = n + (1 + q - p) * d /\ 1 + q - p \in Int
    <3>1. (1 + q - p) * d = d + q * d - p * d
      BY <2>6, <2>7
    <3>2. p * d \in Int /\ q * d \in Int
      BY <2>6, <2>7
    <3> QED BY <2>4, <2>5, <2>6, <2>7, <3>1, <3>2
  <2>9. (r + d - s) % d = n % d
    <3>1. PICK k \in Int : r + d - s = n + k * d
      BY <2>8
    <3>2. n \in Int
      BY <2>4
    <3>3. (n + k * d) % d = n % d
      BY <2>6, <3>2, Shift, Zenon
    <3> QED BY <3>1, <3>3
  <2>10. jobs_added = r /\ jobs_completed = s
    BY <2>1 DEF CountsOf, r, s, d
  <2> QED BY <2>9, <2>10 DEF JobsInQueue, d, n
<1>2. Inv /\ FifoOnce /\ CountersInv => QueueCountExact
  BY <1>1 DEF QueueCountExact
<1>3. Inv /\ CountersInv /\ [Next]_vars => CountersInv'
  BY CountersStep
<1> QED BY InvInductive, JobsInOrder, CountersInit, <1>2, <1>3, PTL DEF Spec
=============================================================================
