----------------------------- MODULE MCScheduler ----------------------------
(* Instances of Scheduler for TLC.                                          *)
EXTENDS Scheduler, TLC

\* Every task belongs to the one profile.
OneProfile == [t \in Tasks |-> CHOOSE p \in Profiles : TRUE]

\* Tasks "t1", "t2", ... of the profiles "p1", "p2".
TaskProfile == [t \in Tasks |-> IF t = "t1" THEN "p1" ELSE "p2"]

\* Worker slots are interchangeable, and so are handler slots.
SlotSymmetry == Permutations(Workers) \cup Permutations(Calls)

=============================================================================
