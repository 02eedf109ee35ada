---------------------------- MODULE MCModelCache ----------------------------
(* An instance of ModelCache for TLC. *)
EXTENDS ModelCache, TLC

CONSTANTS t1, t2, t3

TwoTasks == {t1, t2}
ThreeTasks == {t1, t2, t3}
Symmetry == Permutations(Task)
=============================================================================
