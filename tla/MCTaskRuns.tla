----------------------------- MODULE MCTaskRuns -----------------------------
(***************************************************************************)
(* Instances of TaskRuns for TLC: one or two tasks, two threads at a time. *)
(***************************************************************************)
EXTENDS TaskRuns, TLC

CONSTANTS t1, t2, r1, r2

(* Task ids of which none is a prefix of another, as 1 and 2.              *)
OwnMarker == {<<t, t>> : t \in Tasks}

(* Tasks that keep all records, and tasks that keep those of failures.     *)
AllOrFailures == {ScriptStatuses, {"failed"}}

AllKept == {ScriptStatuses}

Symmetry == Permutations(Runners)
=============================================================================
