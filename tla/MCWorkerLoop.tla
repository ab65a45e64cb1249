---------------------------- MODULE MCWorkerLoop ----------------------------
(* Instances of WorkerLoop for TLC.                                         *)
EXTENDS WorkerLoop, TLC

\* The runs differ in nothing but their place in time.
RunSymmetry == Permutations(Runs)

=============================================================================
