------------------------------ MODULE JobQueue ------------------------------
(***************************************************************************)
(* What the jobs runner promises to the code that hands it jobs            *)
(* (threads/jobs_runner.h: add_job and the worker thread): the jobs form   *)
(* one queue, they are executed one at a time, in the order in which they  *)
(* were added, and each of them at most once.  Threads, locks, the         *)
(* condition variable and stopping are absent here: JobsRunner adds them   *)
(* and is shown to implement this specification.                           *)
(***************************************************************************)
EXTENDS Sequences

CONSTANT Jobs        \* the jobs that may be added, each one once

VARIABLES
  queue,             \* the jobs that wait, oldest first
  active,            \* <<j>> while j is with the worker, <<>> otherwise
  done               \* the executed jobs, in order of execution

vars == <<queue, active, done>>

Held(s) == {s[i] : i \in DOMAIN s}

Known == Held(queue) \cup Held(active) \cup Held(done)

TypeOK ==
  /\ queue \in Seq(Jobs)
  /\ active \in {<<>>} \cup {<<j>> : j \in Jobs}
  /\ done \in Seq(Jobs)

Init ==
  /\ queue = <<>>
  /\ active = <<>>
  /\ done = <<>>

Submit(j) ==
  /\ j \notin Known
  /\ queue' = Append(queue, j)
  /\ UNCHANGED <<active, done>>

Take ==
  /\ active = <<>>
  /\ queue # <<>>
  /\ active' = <<Head(queue)>>
  /\ queue' = Tail(queue)
  /\ UNCHANGED done

Finish ==
  /\ active # <<>>
  /\ done' = Append(done, Head(active))
  /\ active' = <<>>
  /\ UNCHANGED queue

Next == Take \/ Finish \/ \E j \in Jobs : Submit(j)

Spec == Init /\ [][Next]_vars
=============================================================================
