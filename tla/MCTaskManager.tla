--------------------------- MODULE MCTaskManager ---------------------------
(* Instances of TaskManager for TLC: the constants are given in the .cfg   *)
(* files, the tasks and callers as model values.                           *)
EXTENDS TaskManager, TLC

\* Tasks and callers of one kind are interchangeable.
TaskSymmetry == Permutations(Task \ (Critical \cup Async)) \cup Permutations(Caller)
=============================================================================
