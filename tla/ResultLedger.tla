--------------------------- MODULE ResultLedger ---------------------------
(***************************************************************************)
(* What the table task_results of fn-scheduler promises its readers, with  *)
(* no word on threads, requests or restarts: ids are handed out in order   *)
(* and once, an entry is open until it gets one verdict, a verdict is      *)
(* never revised, and an entry that is gone does not come back.  A step    *)
(* opens one entry, gives one verdict to a set of open ones, or forgets a  *)
(* set of entries.                                                         *)
(***************************************************************************)
EXTENDS Naturals

CONSTANTS Ids, Verdicts

VARIABLES next, entry

Open ==
  /\ next \in Ids
  /\ entry[next] = "free"
  /\ entry' = [entry EXCEPT ![next] = "running"]
  /\ next' = next + 1

Close(S, v) ==
  /\ \A i \in S : entry[i] = "running"
  /\ entry' = [i \in Ids |-> IF i \in S THEN v ELSE entry[i]]
  /\ UNCHANGED next

Forget(S) ==
  /\ \A i \in S : entry[i] # "free"
  /\ entry' = [i \in Ids |-> IF i \in S THEN "gone" ELSE entry[i]]
  /\ UNCHANGED next

Init ==
  /\ next = 1
  /\ entry = [i \in Ids |-> "free"]

Next ==
  \/ Open
  \/ \E S \in SUBSET Ids : Forget(S) \/ \E v \in Verdicts : Close(S, v)

Spec == Init /\ [][Next]_<<next, entry>>
=============================================================================
