----------------------------- MODULE MCJobQueue -----------------------------
(***************************************************************************)
(* Small instances of JobQueue: two workers, jobs that two workers compete *)
(* for, one job without a processor, and at least two attempts, so that    *)
(* both outcomes of fail occur.  Everything goes wrong, or workers are     *)
(* only told to stop.                                                      *)
(***************************************************************************)
EXTENDS JobQueue, TLC

CONSTANTS j1, j2, u1, w1, w2

MCAllJobs == {j1, j2, u1}
MCRoutable == {j1, j2}
MCWorkers == {w1, w2}
MCSettings == {FaultKinds, {"stop"}}
MCCrash == {{"crash"}}
=============================================================================
