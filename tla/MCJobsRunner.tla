---------------------------- MODULE MCJobsRunner ----------------------------
(* Small instances of JobsRunner for TLC.                                  *)
EXTENDS JobsRunner, TLC

CONSTANTS j1, j2, j3

ThreeJobs == {j1, j2, j3}
TwoJobs == {j1, j2}

\* The safety properties treat all jobs alike.
JobSymmetry == Permutations(Jobs)
=============================================================================
