--------------------------- MODULE TaskRunsProofs ---------------------------
(***************************************************************************)
(* Proofs about TaskRuns for any number of tasks, threads, records, ticks  *)
(* and crashes, and for any set of requests and faults: the tables stay    *)
(* sound, and without failures of the database every row that says         *)
(* "running" is attended and no snapshot contradicts its record.           *)
(*                                                                         *)
(* Then pruning keeps the newest records, and no more than the retention   *)
(* allows but for those whose prune has yet to come or was lost: the       *)
(* proofs of PruneTakesOldest and RetentionKept.                           *)
(***************************************************************************)
EXTENDS TaskRuns, FiniteSetTheorems, TLAPS

(* A step of the table in which rows are only closed or dropped.           *)
Closing ==
  \A i \in Ids :
    \/ results'[i] = results[i]
    \/ results'[i] = NoRow
    \/ /\ results[i].status = "running"
       /\ results'[i].status \in Final
       /\ results'[i].task = results[i].task
-----------------------------------------------------------------------------
(* The helpers of the table.                                               *)

(* Dropping rows leaves a table, with the other rows as they were.         *)
LEMMA WithoutRows ==
  ASSUME TypeOK, NEW S
  PROVE  /\ Without(S) \in [Ids -> Rows]
         /\ \A i \in Ids : Without(S)[i] = IF i \in S THEN NoRow ELSE results[i]
  BY DEF Without, TypeOK, Rows, NoRow

(* Pruning drops finished rows of its task only.                           *)
LEMMA SurplusIsFinished ==
  ASSUME NEW t, NEW n, NEW i \in Surplus(t, n)
  PROVE  i \in Ids /\ results[i].status \in Final /\ results[i].task = t
  BY DEF Surplus, FinishedOf, RowsOf

(* Closing running rows of a task gives each that status or drops it.      *)
ClosedAs(table, S, t, status) ==
  /\ table \in [Ids -> Rows]
  /\ \A i \in Ids :
       IF i \in S THEN \/ table[i] = NoRow
                       \/ table[i].status = status /\ table[i].task = t
                  ELSE table[i] = results[i]

LEMMA ClosedRows ==
  ASSUME TypeOK, NEW t \in Tasks, NEW S, S \subseteq RunningOf(t),
         NEW status \in Final, NEW now \in Nat
  PROVE  ClosedAs(Closed(S, t, status, now), S, t, status)
<1> DEFINE table == Closed(S, t, status, now)
<1>1. ASSUME NEW i \in Ids
      PROVE  /\ table[i] \in Rows
             /\ IF i \in S THEN \/ table[i] = NoRow
                                \/ table[i].status = status /\ table[i].task = t
                           ELSE table[i] = results[i]
  <2>1. results[i] \in Rows
    BY DEF TypeOK
  <2>2. CASE i \notin S
    BY <2>1, <2>2 DEF Closed
  <2>3. CASE i \in S /\ ~Keeps(t, status)
    BY <2>3 DEF Closed, Rows, NoRow
  <2>4. CASE i \in S /\ Keeps(t, status)
    <3>1. results[i].task = t
      BY <2>4 DEF RunningOf, RowsOf
    <3>2. table[i] = [results[i] EXCEPT !.status = status, !.finished = now]
      BY <2>4 DEF Closed
    <3> QED BY <2>1, <2>4, <3>1, <3>2 DEF Rows
  <2> QED BY <2>2, <2>3, <2>4
<1>2. table = [i \in Ids |-> table[i]]
  BY DEF Closed
<1> QED BY <1>1, <1>2 DEF ClosedAs

(* Every time a thread may write is a time.                                *)
LEMMA StampsAreTimes == TypeOK => Stamps \subseteq Nat
  BY ConstantsAssumption DEF TypeOK, Stamps

(* finalize_stale_running_instances closes every running row of its task,  *)
(* touches no other row, and lets the snapshot say so of one of them.      *)
LEMMA CloseStaleSound ==
  ASSUME TypeOK, NEW t \in Tasks, CloseStale(t)
  PROVE  /\ results' \in [Ids -> Rows]
         /\ latest' \in [Tasks -> Latests]
         /\ Closing
         /\ \A i \in Ids : results'[i] = results[i] \/ i \in RunningOf(t)
         /\ \A i \in RunningOf(t) :
              results'[i] = NoRow \/ results'[i].status = "failed"
         /\ \A u \in Tasks : \/ latest'[u] = latest[u]
                             \/ /\ u = t /\ latest'[u].status = "failed"
                                /\ latest'[u].run \in RunningOf(t)
<1>1. CASE ~HasRunning(t) /\ UNCHANGED <<results, latest>>
  BY <1>1 DEF TypeOK, HasRunning, Closing
<1>2. ASSUME NEW i \in RunningOf(t), NEW now \in Stamps,
             results' = Closed(RunningOf(t), t, "failed", now),
             latest' = [latest EXCEPT ![t] = [status |-> "failed", run |-> i]]
      PROVE  /\ results' \in [Ids -> Rows]
             /\ latest' \in [Tasks -> Latests]
             /\ Closing
             /\ \A j \in Ids : results'[j] = results[j] \/ j \in RunningOf(t)
             /\ \A j \in RunningOf(t) :
                  results'[j] = NoRow \/ results'[j].status = "failed"
             /\ \A u \in Tasks : \/ latest'[u] = latest[u]
                                 \/ /\ u = t /\ latest'[u].status = "failed"
                                    /\ latest'[u].run \in RunningOf(t)
  <2>1. now \in Nat
    BY StampsAreTimes
  <2>2. "failed" \in Final
    BY DEF Final, ScriptStatuses
  <2>3. /\ results' \in [Ids -> Rows]
        /\ \A j \in Ids : j \notin RunningOf(t) => results'[j] = results[j]
        /\ \A j \in RunningOf(t) : \/ results'[j] = NoRow
                                   \/ results'[j].status = "failed" /\ results'[j].task = t
    <3>1. ClosedAs(Closed(RunningOf(t), t, "failed", now), RunningOf(t), t, "failed")
      <4>1. RunningOf(t) \subseteq RunningOf(t)
        OBVIOUS
      <4> QED BY <2>1, <2>2, <4>1, ClosedRows
    <3>2. RunningOf(t) \subseteq Ids
      BY DEF RunningOf, RowsOf
    <3> QED BY <1>2, <3>1, <3>2 DEF ClosedAs
  <2>4. \A j \in RunningOf(t) : j \in Ids /\ results[j].status = "running" /\ results[j].task = t
    BY DEF RunningOf, RowsOf
  <2>5. Closing
    BY <2>2, <2>3, <2>4 DEF Closing
  <2>6. latest' \in [Tasks -> Latests]
    BY <1>2, <2>2, <2>4 DEF TypeOK, Latests
  <2>7. \A u \in Tasks : \/ latest'[u] = latest[u]
                         \/ /\ u = t /\ latest'[u].status = "failed"
                            /\ latest'[u].run \in RunningOf(t)
    BY <1>2 DEF TypeOK
  <2> QED BY <2>3, <2>5, <2>6, <2>7
<1> QED BY <1>1, <1>2 DEF CloseStale
-----------------------------------------------------------------------------
(* Steps that leave the tables and the threads alone need only keep the    *)
(* types, the handlers' victims and the phase.                             *)
LEMMA QuietStep ==
  ASSUME IndInv, TypeOK', HandlerInv',
         UNCHANGED <<present, results, latest, nextId, pc, job, row, outcome, phase, todo>>
  PROVE  IndInv'
  BY DEF IndInv, TableInv, ThreadInv, OneThreadPerRow, SnapshotInv, RunningIsAttended,
         Serving, Attending, LatestAgrees

(* Steps that close or drop rows while every thread stands still keep what *)
(* relates rows, threads and snapshots, if no row outlives its task.       *)
LEMMA ClosingStep ==
  ASSUME IndInv, TypeOK', Closing,
         UNCHANGED <<nextId, pc, job, row, outcome>>,
         \A i \in Ids : results'[i].status # "absent" => results'[i].task \in present',
         Serving => Serving'
  PROVE  TableInv' /\ ThreadInv' /\ OneThreadPerRow'
<1>1. TableInv /\ ThreadInv /\ OneThreadPerRow /\ TypeOK
  BY DEF IndInv
<1>2. TableInv'
  BY <1>1 DEF Closing, TableInv, Final, ScriptStatuses, NoRow
<1>3. ThreadInv'
  <2>1. ASSUME NEW r \in Runners, row[r] # 0, results'[row[r]].status # "absent"
        PROVE  results'[row[r]].task = job[r]
    <3>1. row[r] \in Ids
      BY <1>1, <2>1 DEF TypeOK
    <3>2. results[row[r]].status # "absent" => results[row[r]].task = job[r]
      BY <1>1, <2>1 DEF ThreadInv
    <3> QED BY <2>1, <3>1, <3>2 DEF Closing, NoRow
  <2> QED BY <1>1, <2>1 DEF ThreadInv
<1>4. OneThreadPerRow'
  BY <1>1 DEF OneThreadPerRow
<1> QED BY <1>2, <1>3, <1>4

(* If the snapshots stand still too, they stay sound.                      *)
LEMMA ClosingSnapshots ==
  ASSUME IndInv, TypeOK', Closing, UNCHANGED <<nextId, latest>>,
         \A i \in Ids : results'[i] = results[i] \/ results'[i] = NoRow
  PROVE  SnapshotInv' /\ ("dbfault" \notin Ops => LatestAgrees')
<1> USE DEF IndInv
<1>1. SnapshotInv'
  BY DEF SnapshotInv, TypeOK, NoRow, Latests
<1>2. "dbfault" \notin Ops => LatestAgrees'
  BY DEF LatestAgrees, TypeOK, NoRow, Latests
<1> QED BY <1>1, <1>2

(* A row that runs after a closing step ran before it.                     *)
LEMMA ClosingAttended ==
  ASSUME IndInv, Closing, UNCHANGED <<pc, row, phase, todo>>
  PROVE  "dbfault" \notin Ops => RunningIsAttended'
  BY DEF IndInv, Closing, RunningIsAttended, Serving, Attending, NoRow, Final, ScriptStatuses

(* Steps that leave the snapshots and the rows alone keep what relates them.*)
LEMMA TablesStay ==
  ASSUME IndInv, UNCHANGED <<present, results, latest, nextId>>
  PROVE  TableInv' /\ SnapshotInv' /\ ("dbfault" \notin Ops => LatestAgrees')
  BY DEF IndInv, TableInv, SnapshotInv, LatestAgrees

(* Scripts that end leave a table of scripts.                              *)
LEMMA EndedScripts ==
  ASSUME TypeOK, NEW S, NEW codes \in [S -> ScriptStatuses]
  PROVE  Ended(S, codes) \in [Ids -> Procs]
<1>1. ASSUME NEW i \in Ids PROVE Ended(S, codes)[i] \in Procs
  BY DEF Ended, TypeOK, Procs, NoProc
<1> QED BY <1>1 DEF Ended

(* A thread that leaves is idle and without a row; the others go on.       *)
LEMMA LeaveSound ==
  ASSUME TypeOK, NEW r \in Runners, Leave(r)
  PROVE  /\ pc' \in [Runners -> PcStates]
         /\ job' \in [Runners -> Tasks \cup {NoTask}]
         /\ row' \in [Runners -> Ids \cup {0}]
         /\ outcome' \in [Runners -> Final \cup {"none"}]
         /\ pc'[r] = "idle" /\ row'[r] = 0
         /\ \A q \in Runners \ {r} : /\ pc'[q] = pc[q] /\ job'[q] = job[q]
                                     /\ row'[q] = row[q] /\ outcome'[q] = outcome[q]
  BY DEF TypeOK, Leave, PcStates

(* With it go neither the rows of other threads nor its own, once closed.  *)
LEMMA LeavingStep ==
  ASSUME IndInv, NEW r \in Runners, Leave(r), Closing, UNCHANGED <<nextId, phase, todo>>
  PROVE  /\ ThreadInv' /\ OneThreadPerRow'
         /\ "dbfault" \notin Ops /\ (row[r] \in Ids => results[row[r]].status # "running"
                                     \/ pc[r] \in {"launched", "prune", "delete"})
              => RunningIsAttended'
<1>0. /\ TypeOK /\ ThreadInv /\ OneThreadPerRow
      /\ "dbfault" \notin Ops => RunningIsAttended
  BY DEF IndInv
<1>1. /\ pc'[r] = "idle" /\ row'[r] = 0
      /\ \A q \in Runners \ {r} : /\ pc'[q] = pc[q] /\ job'[q] = job[q]
                                  /\ row'[q] = row[q] /\ outcome'[q] = outcome[q]
  BY <1>0, LeaveSound
<1>2. ThreadInv'
  <2>1. ASSUME NEW q \in Runners, q # r, row'[q] # 0, results'[row'[q]].status # "absent"
        PROVE  results'[row'[q]].task = job'[q]
    <3>1. row[q] \in Ids /\ row[q] # 0 /\ results'[row[q]].status # "absent"
      BY <1>0, <1>1, <2>1 DEF TypeOK
    <3>2. results[row[q]].status # "absent" => results[row[q]].task = job[q]
      BY <1>0, <3>1 DEF ThreadInv
    <3> QED BY <1>1, <2>1, <3>1, <3>2 DEF Closing, NoRow
  <2>2. 0 < nextId
    BY <1>0 DEF TypeOK
  <2> QED BY <1>0, <1>1, <2>1, <2>2 DEF ThreadInv, Serving
<1>3. OneThreadPerRow'
  BY <1>0, <1>1 DEF OneThreadPerRow
<1>4. ASSUME "dbfault" \notin Ops,
             row[r] \in Ids => results[row[r]].status # "running"
                               \/ pc[r] \in {"launched", "prune", "delete"}
      PROVE  RunningIsAttended'
  <2>1. ASSUME NEW i \in Ids, results'[i].status = "running"
        PROVE  results'[i] = results[i]
    BY <2>1 DEF Closing, NoRow, Final, ScriptStatuses
  <2>2. ASSUME NEW i \in Ids, results[i].status = "running", NEW q \in Runners, Attending(q, i)
        PROVE  q # r
    BY <1>4, <2>2 DEF Attending
  <2> QED BY <1>0, <1>1, <1>4, <2>1, <2>2 DEF RunningIsAttended, Serving, Attending
<1> QED BY <1>2, <1>3, <1>4

(* A row stays attended while its thread goes from one attending step to   *)
(* another, and when a thread that attends to none goes on or leaves.      *)
LEMMA AttendingGoesOn ==
  ASSUME IndInv, NEW r \in Runners, "dbfault" \notin Ops,
         UNCHANGED <<results, phase, todo>>,
         \A q \in Runners \ {r} : pc'[q] = pc[q] /\ row'[q] = row[q],
         \A i \in Ids : Attending(r, i) => Attending(r, i)'
  PROVE  RunningIsAttended'
  BY DEF IndInv, RunningIsAttended, Serving, Attending

(* A step of a row from running to its thread's status: record and         *)
(* snapshot change together.                                               *)
LEMMA FinalizeKeeps == ASSUME IndInv, NEW r \in Runners, Finalize(r) PROVE IndInv'
<1> DEFINE i == row[r]
           t == results[i].task
<1>0. /\ TypeOK /\ TableInv /\ ThreadInv /\ OneThreadPerRow /\ SnapshotInv /\ HandlerInv
      /\ "dbfault" \notin Ops => RunningIsAttended /\ LatestAgrees
  BY DEF IndInv
<1>1. i \in Ids /\ pc[r] = "finalize" /\ outcome[r] \in Final
  BY <1>0 DEF Finalize, ThreadInv, TypeOK
<1>2. HandlerInv'
  BY <1>0 DEF Finalize, handlers, HandlerInv
<1>3. CASE results[i].status = "running"
  <2>1. t \in Tasks /\ t \in present /\ t # NoTask
    BY <1>0, <1>1, <1>3, ConstantsAssumption DEF TableInv, TypeOK
  <2>2. {i} \subseteq RunningOf(t)
    BY <1>1, <1>3 DEF RunningOf, RowsOf
  <2>3. PICK now \in Stamps : results' = Closed({i}, t, outcome[r], now)
    BY <1>3 DEF Finalize
  <2>4. now \in Nat
    BY <1>0, StampsAreTimes
  <2>5. ClosedAs(results', {i}, t, outcome[r])
    BY <1>0, <1>1, <2>1, <2>2, <2>3, <2>4, ClosedRows
  <2>6. /\ results' \in [Ids -> Rows]
        /\ \A j \in Ids \ {i} : results'[j] = results[j]
        /\ results'[i] = NoRow \/ (results'[i].status = outcome[r] /\ results'[i].task = t)
    <3>1. ASSUME NEW j \in Ids \ {i} PROVE results'[j] = results[j]
      BY <2>5 DEF ClosedAs
    <3> QED BY <1>1, <2>5, <3>1 DEF ClosedAs
  <2>7. /\ latest' = [latest EXCEPT ![t] = [status |-> outcome[r], run |-> i]]
        /\ pc' = [pc EXCEPT ![r] = "prune"]
        /\ UNCHANGED <<job, row, outcome>>
    BY <1>3 DEF Finalize
  <2>8. UNCHANGED <<present, keep, nextId, retention, clock, proc, at, victim, aim,
                    phase, todo, admin, crashes, unpruned>>
    BY DEF Finalize, handlers, server
  <2>9. TypeOK'
    BY <1>0, <1>1, <2>1, <2>6, <2>7, <2>8 DEF TypeOK, Latests, PcStates
  <2>10. TableInv'
    BY <1>0, <1>1, <1>3, <2>1, <2>6, <2>8 DEF TableInv, NoRow, Final, ScriptStatuses
  <2>11. ThreadInv'
    <3>1. ASSUME NEW q \in Runners, row[q] # 0, results'[row[q]].status # "absent"
          PROVE  results'[row[q]].task = job[q]
      BY <1>0, <1>3, <2>6, <3>1 DEF ThreadInv, TypeOK, NoRow
    <3> QED BY <1>0, <1>1, <2>7, <2>8, <3>1 DEF ThreadInv, TypeOK, Serving
  <2>12. OneThreadPerRow'
    BY <1>0, <2>7 DEF OneThreadPerRow
  <2>13. SnapshotInv'
    <3>1. ASSUME NEW u \in Tasks
          PROVE  LET k == latest'[u].run IN
                 k < nextId /\ (k # 0 /\ results'[k].status # "absent" => results'[k].task = u)
      <4>1. CASE u = t
        BY <1>0, <1>1, <1>3, <2>1, <2>6, <2>7, <4>1 DEF TypeOK, TableInv, NoRow
      <4>2. CASE u # t
        <5>1. latest'[u] = latest[u] /\ latest[u].run \in Ids \cup {0}
          BY <1>0, <2>1, <2>7, <4>2 DEF TypeOK, Latests
        <5> QED BY <1>0, <1>3, <2>6, <4>2, <5>1 DEF SnapshotInv, NoRow
      <4> QED BY <4>1, <4>2
    <3> QED BY <2>8, <3>1 DEF SnapshotInv
  <2>14. "dbfault" \notin Ops => RunningIsAttended'
    <3>1. ASSUME NEW j \in Ids, results'[j].status = "running"
          PROVE  j # i /\ results'[j] = results[j]
      BY <1>1, <2>6, <3>1 DEF NoRow, Final, ScriptStatuses
    <3> QED BY <1>0, <2>7, <2>8, <3>1 DEF RunningIsAttended, Serving, Attending, TypeOK
  <2>15. "dbfault" \notin Ops => LatestAgrees'
    <3>1. ASSUME "dbfault" \notin Ops, NEW u \in Tasks, latest'[u].run # 0
          PROVE  results'[latest'[u].run].status \in {"absent", latest'[u].status}
      <4>1. CASE u = t
        BY <1>0, <2>1, <2>6, <2>7, <4>1 DEF TypeOK, NoRow
      <4>2. CASE u # t
        <5>1. latest'[u] = latest[u] /\ latest[u].run \in Ids
          BY <1>0, <2>1, <2>7, <3>1, <4>2 DEF TypeOK, Latests
        <5>2. latest[u].run # i
          BY <1>0, <1>3, <4>2, <5>1, <3>1 DEF SnapshotInv
        <5> QED BY <1>0, <2>6, <3>1, <5>1, <5>2 DEF LatestAgrees
      <4> QED BY <4>1, <4>2
    <3> QED BY <3>1 DEF LatestAgrees
  <2> QED BY <1>2, <2>9, <2>10, <2>11, <2>12, <2>13, <2>14, <2>15 DEF IndInv
<1>4. CASE results[i].status # "running"
  <2>1. /\ Leave(r)
        /\ UNCHANGED <<present, keep, results, latest, nextId, retention, clock, proc, at,
                       victim, aim, phase, todo, admin, crashes, unpruned>>
    BY <1>4 DEF Finalize, handlers, server
  <2>2. TypeOK'
    BY <1>0, <2>1, LeaveSound DEF TypeOK
  <2>3. Closing
    BY <2>1 DEF Closing
  <2> QED BY <1>0, <1>2, <1>4, <2>1, <2>2, <2>3, LeavingStep, TablesStay DEF IndInv
<1> QED BY <1>3, <1>4

(* With a failure of the database the thread leaves, whatever it has done. *)
LEMMA FinalizeFailsKeeps == ASSUME IndInv, NEW r \in Runners, FinalizeFails(r) PROVE IndInv'
<1> DEFINE i == row[r]
           t == results[i].task
<1>0. TypeOK /\ TableInv /\ ThreadInv /\ SnapshotInv /\ HandlerInv
  BY DEF IndInv
<1>1. /\ Leave(r) /\ "dbfault" \in Ops
      /\ UNCHANGED <<present, keep, nextId, retention, clock, proc, at, victim, aim, phase,
                     todo, admin, crashes>>
  BY DEF FinalizeFails, handlers
<1>2. i \in Ids /\ i < nextId /\ outcome[r] \in Final
  BY <1>0 DEF FinalizeFails, ThreadInv, TypeOK
<1>3. /\ results' \in [Ids -> Rows] /\ unpruned' \subseteq Ids
      /\ \A j \in Ids : \/ results'[j] = results[j]
                        \/ /\ j = i /\ results[i].status = "running"
                           /\ \/ results'[j] = NoRow
                              \/ results'[j].status = outcome[r] /\ results'[j].task = t
  <2>1. CASE UNCHANGED <<results, unpruned>>
    BY <1>0, <2>1 DEF TypeOK
  <2>2. ASSUME NEW now \in Stamps, results[i].status = "running",
               results' = Closed({i}, t, outcome[r], now), unpruned' = unpruned \cup {i}
        PROVE  <1>3
    <3>1. t \in Tasks /\ {i} \subseteq RunningOf(t) /\ now \in Nat
      BY <1>0, <1>2, <2>2, StampsAreTimes DEF RunningOf, RowsOf, TableInv, TypeOK
    <3>2. ClosedAs(results', {i}, t, outcome[r])
      BY <1>0, <1>2, <2>2, <3>1, ClosedRows
    <3>3. ASSUME NEW j \in Ids \ {i} PROVE results'[j] = results[j]
      BY <3>2 DEF ClosedAs
    <3>4. results'[i] = NoRow \/ (results'[i].status = outcome[r] /\ results'[i].task = t)
      BY <1>2, <3>2 DEF ClosedAs
    <3> QED BY <1>0, <1>2, <2>2, <3>2, <3>3, <3>4 DEF ClosedAs, TypeOK
  <2> QED BY <2>1, <2>2 DEF FinalizeFails
<1>4. \/ UNCHANGED latest
      \/ /\ t \in Tasks /\ results[i].status = "running"
         /\ latest' = [latest EXCEPT ![t] = [status |-> outcome[r], run |-> i]]
  BY <1>0, <1>2 DEF FinalizeFails, TableInv, TypeOK
<1>5. TypeOK'
  <2>1. latest' \in [Tasks -> Latests]
    BY <1>0, <1>2, <1>4 DEF TypeOK, Latests
  <2> QED BY <1>0, <1>1, <1>3, <2>1, LeaveSound DEF TypeOK
<1>6. Closing
  BY <1>2, <1>3 DEF Closing
<1>7. TableInv' /\ HandlerInv'
  <2>1. HandlerInv'
    BY <1>0, <1>1 DEF HandlerInv
  <2>2. results[i].status = "running" => t \in present
    BY <1>0, <1>2 DEF TableInv
  <2>3. ASSUME NEW j \in Ids
        PROVE  /\ results'[j].status = "absent" \/ (results'[j].task \in present /\ j < nextId)
               /\ results'[j].status = "absent" => results'[j].task = NoTask
    <3>1. /\ results[j].status = "absent" \/ (results[j].task \in present /\ j < nextId)
          /\ results[j].status = "absent" => results[j].task = NoTask
      BY <1>0 DEF TableInv
    <3>2. outcome[r] # "absent"
      BY <1>2 DEF Final, ScriptStatuses
    <3> QED BY <1>2, <1>3, <2>2, <3>1, <3>2 DEF NoRow
  <2> QED BY <1>1, <2>1, <2>3 DEF TableInv
<1>8. SnapshotInv'
  <2>1. ASSUME NEW u \in Tasks
        PROVE  LET k == latest'[u].run IN
               k < nextId /\ (k # 0 /\ results'[k].status # "absent" => results'[k].task = u)
    <3>1. latest'[u] = latest[u] \/ (u = t /\ latest'[u].run = i)
      BY <1>0, <1>4 DEF TypeOK
    <3>2. latest'[u].run \in Ids \cup {0}
      BY <1>5 DEF TypeOK, Latests
    <3> QED BY <1>0, <1>2, <1>3, <3>1, <3>2 DEF SnapshotInv, NoRow
  <2> QED BY <1>1, <2>1 DEF SnapshotInv
<1> QED BY <1>1, <1>5, <1>6, <1>7, <1>8, LeavingStep DEF IndInv

(* A new row and the snapshot that describes it.                           *)
LEMMA RecordStartKeeps == ASSUME IndInv, NEW r \in Runners, RecordStart(r) PROVE IndInv'
<1> DEFINE i == nextId
           t == job[r]
<1> USE ConstantsAssumption
<1>0. /\ TypeOK /\ TableInv /\ ThreadInv /\ OneThreadPerRow /\ SnapshotInv /\ HandlerInv
      /\ "dbfault" \notin Ops => RunningIsAttended /\ LatestAgrees
  BY DEF IndInv
<1>1. i \in Ids /\ i # 0 /\ pc[r] = "launched" /\ row[r] = 0
  BY <1>0 DEF RecordStart, ThreadInv, TypeOK, Ids
<1>2. HandlerInv'
  BY <1>0 DEF RecordStart, handlers, HandlerInv
<1>3. CASE t \in present
  <2>1. t \in Tasks /\ t # NoTask
    BY <1>0, <1>3 DEF TypeOK
  <2>2. PICK now \in Stamps :
          results' = [results EXCEPT ![i] =
            [task |-> t, status |-> "running", started |-> now, finished |-> 0]]
    BY <1>3 DEF RecordStart
  <2>3. now \in Nat
    BY <1>0, StampsAreTimes
  <2>4. /\ results' \in [Ids -> Rows]
        /\ \A j \in Ids \ {i} : results'[j] = results[j]
        /\ results'[i].status = "running" /\ results'[i].task = t
    BY <1>0, <1>1, <2>1, <2>2, <2>3 DEF TypeOK, Rows
  <2>5. /\ latest' = [latest EXCEPT ![t] = [status |-> "running", run |-> i]]
        /\ nextId' = i + 1
        /\ row' = [row EXCEPT ![r] = i]
        /\ pc' = [pc EXCEPT ![r] = IF outcome[r] = "none" THEN "spawn" ELSE "finalize"]
        /\ UNCHANGED <<job, outcome>>
    BY <1>3 DEF RecordStart
  <2>6. UNCHANGED <<present, keep, retention, clock, proc, at, victim, aim, phase, todo,
                    admin, crashes, unpruned>>
    BY DEF RecordStart, handlers, server
  <2>7. TypeOK'
    <3>1. nextId' \in 1..(MaxResult + 1)
      BY <1>0, <1>1, <2>5 DEF TypeOK, Ids
    <3> QED BY <1>0, <1>1, <2>1, <2>4, <2>5, <2>6, <3>1 DEF TypeOK, Latests, PcStates
  <2>8. TableInv'
    <3>1. \A j \in Ids : j < nextId => j < nextId'
      BY <1>0, <2>5 DEF TypeOK, Ids
    <3>2. i < nextId'
      BY <1>0, <2>5 DEF TypeOK
    <3> QED BY <1>0, <1>3, <2>4, <2>5, <2>6, <3>1, <3>2 DEF TableInv
  <2>9. \A q \in Runners \ {r} : row[q] # i /\ row'[q] = row[q] /\ pc'[q] = pc[q]
    BY <1>0, <2>5 DEF ThreadInv, TypeOK, Ids
  <2>10. row'[r] = i /\ pc'[r] \in {"spawn", "finalize"}
         /\ (pc'[r] = "finalize" => outcome[r] # "none")
    BY <1>0, <2>5 DEF TypeOK
  <2>11. ThreadInv'
    <3>1. \A q \in Runners : row'[q] < nextId'
      BY <1>0, <1>1, <2>5, <2>9, <2>10 DEF ThreadInv, TypeOK, Ids
    <3>2. \A q \in Runners : row'[q] = 0 <=> pc'[q] \in {"idle", "launched"}
      BY <1>0, <1>1, <2>9, <2>10 DEF ThreadInv
    <3>3. \A q \in Runners : /\ pc'[q] # "idle" => job[q] \in Tasks /\ Serving'
                             /\ pc'[q] = "finalize" => outcome[q] \in Final
      BY <1>0, <1>1, <2>1, <2>6, <2>9, <2>10 DEF ThreadInv, TypeOK, Serving
    <3>4. ASSUME NEW q \in Runners, row'[q] # 0, results'[row'[q]].status # "absent"
          PROVE  results'[row'[q]].task = job[q]
      <4>1. CASE q = r
        BY <2>4, <2>10, <4>1
      <4>2. CASE q # r
        <5>1. row[q] \in Ids \ {i}
          BY <1>0, <2>9, <3>4, <4>2 DEF TypeOK
        <5> QED BY <1>0, <2>4, <2>9, <3>4, <4>2, <5>1 DEF ThreadInv
      <4> QED BY <4>1, <4>2
    <3> QED BY <2>5, <3>1, <3>2, <3>3, <3>4 DEF ThreadInv
  <2>12. OneThreadPerRow'
    BY <1>0, <1>1, <2>9, <2>10 DEF OneThreadPerRow
  <2>13. ASSUME NEW u \in Tasks
         PROVE  LET k == latest'[u].run IN
                /\ k < nextId'
                /\ k # 0 /\ results'[k].status # "absent" => results'[k].task = u
                /\ "dbfault" \notin Ops /\ k # 0
                     => results'[k].status \in {"absent", latest'[u].status}
    <3>1. CASE u = t
      <4>1. latest'[u] = [status |-> "running", run |-> i]
        BY <1>0, <2>1, <2>5, <3>1 DEF TypeOK
      <4>2. i < nextId'
        BY <1>0, <2>5 DEF TypeOK
      <4> QED BY <2>4, <3>1, <4>1, <4>2
    <3>2. CASE u # t
      <4>1. latest'[u] = latest[u] /\ latest[u].run \in Ids \cup {0} /\ latest[u].run < i
        BY <1>0, <2>5, <3>2 DEF TypeOK, Latests, SnapshotInv
      <4>2. latest[u].run < nextId' /\ latest[u].run # i
        BY <1>0, <2>5, <4>1 DEF TypeOK, Ids
      <4> QED BY <1>0, <2>4, <4>1, <4>2 DEF SnapshotInv, LatestAgrees
    <3> QED BY <3>1, <3>2
  <2>14. "dbfault" \notin Ops => RunningIsAttended'
    <3>1. ASSUME "dbfault" \notin Ops, NEW j \in Ids, results'[j].status = "running"
          PROVE  /\ Serving' => \E q \in Runners : Attending(q, j)'
                 /\ phase' = "recovering" => results'[j].task \in todo'
      <4>1. CASE j = i
        <5>1. phase' # "recovering"
          BY <1>0, <1>1, <2>6 DEF ThreadInv, Serving
        <5> QED BY <2>10, <4>1, <5>1 DEF Attending
      <4>2. CASE j # i
        BY <1>0, <1>1, <2>4, <2>6, <2>9, <3>1, <4>2
           DEF RunningIsAttended, Serving, Attending
      <4> QED BY <4>1, <4>2
    <3> QED BY <3>1 DEF RunningIsAttended
  <2> QED BY <1>2, <2>7, <2>8, <2>11, <2>12, <2>13, <2>14 DEF IndInv, SnapshotInv, LatestAgrees
<1>4. CASE t \notin present
  <2>1. /\ Leave(r)
        /\ UNCHANGED <<present, keep, results, latest, nextId, retention, clock, proc, at,
                       victim, aim, phase, todo, admin, crashes, unpruned>>
    BY <1>4 DEF RecordStart, handlers, server
  <2>2. TypeOK'
    BY <1>0, <2>1, LeaveSound DEF TypeOK
  <2>3. Closing
    BY <2>1 DEF Closing
  <2> QED BY <1>0, <1>1, <1>2, <2>1, <2>2, <2>3, LeavingStep, TablesStay DEF IndInv
<1> QED BY <1>3, <1>4

(* A stale close keeps the snapshots sound: the one it writes describes a  *)
(* row it has closed or dropped.                                           *)
LEMMA StaleSnapshots ==
  ASSUME IndInv, NEW t \in Tasks, CloseStale(t), UNCHANGED nextId
  PROVE  SnapshotInv' /\ ("dbfault" \notin Ops => LatestAgrees')
<1>0. /\ TypeOK /\ TableInv /\ SnapshotInv
      /\ "dbfault" \notin Ops => LatestAgrees
  BY DEF IndInv
<1>1. /\ Closing
      /\ \A i \in Ids : results'[i] = results[i] \/ i \in RunningOf(t)
      /\ \A i \in RunningOf(t) : results'[i] = NoRow \/ results'[i].status = "failed"
      /\ \A u \in Tasks : \/ latest'[u] = latest[u]
                          \/ /\ u = t /\ latest'[u].status = "failed"
                             /\ latest'[u].run \in RunningOf(t)
  BY <1>0, CloseStaleSound
<1>2. CASE UNCHANGED <<results, latest>>
  BY <1>0, <1>2 DEF SnapshotInv, LatestAgrees
<1>3. ASSUME NEW i \in RunningOf(t), results' # results \/ latest' # latest
      PROVE  latest'[t].status = "failed" /\ latest'[t].run \in RunningOf(t)
  BY <1>0, <1>3 DEF CloseStale, HasRunning, TypeOK
<1>4. CASE HasRunning(t) /\ ~UNCHANGED <<results, latest>>
  <2>1. latest'[t].status = "failed" /\ latest'[t].run \in RunningOf(t)
    BY <1>3, <1>4 DEF HasRunning
  <2>2. \A i \in RunningOf(t) : i \in Ids /\ results[i].status = "running" /\ results[i].task = t
    BY DEF RunningOf, RowsOf
  <2>3. ASSUME NEW u \in Tasks
        PROVE  LET k == latest'[u].run IN
               /\ k < nextId
               /\ k # 0 /\ results'[k].status # "absent" => results'[k].task = u
               /\ "dbfault" \notin Ops /\ k # 0
                    => results'[k].status \in {"absent", latest'[u].status}
    <3>1. CASE u = t
      <4>1. latest'[u].run \in Ids /\ latest'[u].run < nextId
        BY <1>0, <2>1, <2>2, <3>1 DEF TableInv
      <4> QED BY <1>1, <2>1, <2>2, <3>1, <4>1 DEF Closing, NoRow
    <3>2. CASE u # t
      <4>1. latest'[u] = latest[u] /\ latest[u].run \in Ids \cup {0} /\ latest[u].run < nextId
        BY <1>0, <1>1, <3>2 DEF TypeOK, Latests, SnapshotInv
      <4>2. latest[u].run \in RunningOf(t) => latest[u].run = 0
        BY <1>0, <2>2, <3>2 DEF SnapshotInv
      <4> QED BY <1>0, <1>1, <4>1, <4>2 DEF SnapshotInv, LatestAgrees
    <3> QED BY <3>1, <3>2
  <2> QED BY <2>3 DEF SnapshotInv, LatestAgrees
<1>5. CASE ~HasRunning(t)
  <2>1. UNCHANGED <<results, latest>>
    BY <1>5 DEF CloseStale, HasRunning
  <2> QED BY <1>2, <2>1
<1> QED BY <1>2, <1>4, <1>5
-----------------------------------------------------------------------------
(* A thread that is about to prune has a row.                              *)
LEMMA PrunedNextHasRows == TypeOK /\ ThreadInv => PrunedNext \subseteq Ids
  BY DEF TypeOK, ThreadInv, PrunedNext

(* A new database, without rows and without threads, satisfies it.         *)
LEMMA InitInv == Init => IndInv
<1> SUFFICES ASSUME Init PROVE IndInv
  OBVIOUS
<1>1. TypeOK
  BY ConstantsAssumption
     DEF Init, TypeOK, Rows, Latests, Procs, NoRow, NoLatest, NoProc, PcStates, Ids
<1>2. TableInv /\ ThreadInv /\ OneThreadPerRow /\ SnapshotInv /\ HandlerInv
  BY <1>1 DEF Init, TableInv, ThreadInv, OneThreadPerRow, SnapshotInv, HandlerInv, NoRow,
              NoLatest
<1>3. RunningIsAttended /\ LatestAgrees
  BY DEF Init, RunningIsAttended, LatestAgrees, NoRow, NoLatest
<1> QED BY <1>1, <1>2, <1>3 DEF IndInv

(* Every step keeps the invariant.                                         *)
LEMMA StepInv == IndInv /\ [Next]_vars => IndInv'
<1> SUFFICES ASSUME IndInv, [Next]_vars PROVE IndInv'
  OBVIOUS
<1> USE ConstantsAssumption
<1>0. /\ TypeOK /\ TableInv /\ ThreadInv /\ OneThreadPerRow /\ SnapshotInv /\ HandlerInv
      /\ "dbfault" \notin Ops => RunningIsAttended /\ LatestAgrees
  BY DEF IndInv
<1>1. ASSUME NEW i \in Ids, ScriptEnds(i) PROVE IndInv'
  <2>0. proc' \in [Ids -> Procs]
    <3>1. PICK codes \in [{i} -> ScriptStatuses] : proc' = Ended({i}, codes)
      BY <1>1 DEF ScriptEnds
    <3> QED BY <1>0, <3>1, EndedScripts
  <2>1. TypeOK'
    BY <1>0, <1>1, <2>0 DEF database, threads, handlers, server, ScriptEnds, TypeOK
  <2>2. HandlerInv'
    BY <1>0, <1>1 DEF database, threads, handlers, server, ScriptEnds, TypeOK, HandlerInv
  <2> QED BY <2>1, <2>2, <1>1, QuietStep DEF database, threads, handlers, server, ScriptEnds
<1>2. ASSUME Tick PROVE IndInv'
  <2>1. TypeOK'
    BY <1>0, <1>2 DEF database, threads, handlers, server, Tick, TypeOK
  <2>2. HandlerInv'
    BY <1>0, <1>2 DEF database, threads, handlers, server, Tick, TypeOK, HandlerInv
  <2> QED BY <2>1, <2>2, <1>2, QuietStep DEF database, threads, handlers, server, Tick
<1>3. ASSUME NEW t \in Tasks, EditTask(t) PROVE IndInv'
  <2>1. TypeOK'
    BY <1>0, <1>3 DEF database, threads, handlers, server, EditTask, TypeOK
  <2>2. HandlerInv'
    BY <1>0, <1>3 DEF database, threads, handlers, server, EditTask, TypeOK, HandlerInv
  <2> QED BY <2>1, <2>2, <1>3, QuietStep DEF database, threads, handlers, server, EditTask
<1>4. ASSUME NEW t \in Tasks, StopRequest(t) PROVE IndInv'
  <2>1. TypeOK'
    BY <1>0, <1>4 DEF database, threads, handlers, server, StopRequest, Collect, MarkedLive,
       TypeOK
  <2>2. HandlerInv'
    BY <1>0, <1>4 DEF database, threads, handlers, server, StopRequest, Collect, MarkedLive,
       TypeOK, HandlerInv
  <2> QED BY <2>1, <2>2, <1>4, QuietStep DEF database, threads, handlers, server, StopRequest,
         Collect
<1>5. ASSUME NEW t \in Tasks, Enforce(t) PROVE IndInv'
  <2>1. TypeOK'
    BY <1>0, <1>5 DEF database, threads, handlers, server, Enforce, Collect, MarkedLive, TypeOK
  <2>2. HandlerInv'
    BY <1>0, <1>5 DEF database, threads, handlers, server, Enforce, Collect, MarkedLive,
       TypeOK, HandlerInv
  <2> QED BY <2>1, <2>2, <1>5, QuietStep DEF database, threads, handlers, server, Enforce,
         Collect
<1>6. ASSUME NEW t \in Tasks, ShutdownNext(t) PROVE IndInv'
  <2>1. TypeOK'
    BY <1>0, <1>6 DEF database, threads, handlers, server, ShutdownNext, Collect, MarkedLive,
       TypeOK
  <2>2. HandlerInv'
    BY <1>0, <1>6 DEF database, threads, handlers, server, ShutdownNext, Collect, MarkedLive,
       TypeOK, HandlerInv
  <2> QED BY <2>1, <2>2, <1>6, QuietStep DEF database, threads, handlers, server,
         ShutdownNext, Collect
<1>7. ASSUME NEW h \in Handlers, Kill(h) PROVE IndInv'
  <2>0. proc' \in [Ids -> Procs]
    <3>1. PICK codes \in [aim[h] -> ScriptStatuses] : proc' = Ended(aim[h], codes)
      BY <1>7 DEF Kill
    <3> QED BY <1>0, <3>1, EndedScripts
  <2>1. TypeOK'
    BY <1>0, <1>7, <2>0 DEF database, threads, handlers, server, Kill, HandlerDone, TypeOK
  <2>2. HandlerInv'
    BY <1>0, <1>7 DEF database, threads, handlers, server, Kill, HandlerDone, TypeOK, HandlerInv
  <2> QED BY <2>1, <2>2, <1>7, QuietStep DEF database, threads, handlers, server, Kill
<1>8. ASSUME NEW n \in Retentions, SetRetention(n) PROVE IndInv'
  <2>1. TypeOK'
    BY <1>0, <1>8 DEF database, threads, handlers, server, SetRetention, TypeOK
  <2>2. HandlerInv'
    BY <1>0, <1>8 DEF database, threads, handlers, server, SetRetention, TypeOK, HandlerInv
  <2> QED BY <2>1, <2>2, <1>8, QuietStep DEF database, threads, handlers, server, SetRetention
<1>9. ASSUME ListTasks PROVE IndInv'
  <2>1. TypeOK'
    BY <1>0, <1>9 DEF database, threads, handlers, server, ListTasks, AdminGoesOn, TypeOK
  <2>2. HandlerInv'
    BY <1>0, <1>9 DEF database, threads, handlers, server, ListTasks, AdminGoesOn, TypeOK,
       HandlerInv
  <2> QED BY <2>1, <2>2, <1>9, QuietStep DEF database, threads, handlers, server, ListTasks
<1>10. ASSUME NEW t \in Tasks, AdminPruneCheck(t) PROVE IndInv'
  <2>1. TypeOK'
    BY <1>0, <1>10 DEF database, threads, handlers, server, AdminPruneCheck, AdminGoesOn, TypeOK
  <2>2. HandlerInv'
    BY <1>0, <1>10 DEF database, threads, handlers, server, AdminPruneCheck, AdminGoesOn,
       TypeOK, HandlerInv
  <2> QED BY <2>1, <2>2, <1>10, QuietStep DEF database, threads, handlers, server,
         AdminPruneCheck
<1>11. ASSUME NEW r \in Runners, NEW t \in Tasks,
            NEW status \in {"none"} \cup NoteStatuses, Launch(r, t, status) PROVE IndInv'
  <2>1. TypeOK'
    BY <1>0, <1>11 DEF database, threads, handlers, server, Launch, TypeOK, Final, PcStates
  <2>2. ThreadInv'
    BY <1>0, <1>11 DEF database, threads, handlers, server, Launch, TypeOK, ThreadInv,
       Serving, Final, ScriptStatuses
  <2>3. OneThreadPerRow'
    BY <1>0, <1>11 DEF database, threads, handlers, server, Launch, TypeOK, OneThreadPerRow
  <2>4. "dbfault" \notin Ops => RunningIsAttended'
    BY <1>0, <1>11 DEF database, threads, handlers, server, Launch, TypeOK, ThreadInv,
       RunningIsAttended, Serving, Attending, Ids
  <2>5. HandlerInv'
    BY <1>0, <1>11 DEF database, threads, handlers, server, Launch, HandlerInv
  <2> QED BY <2>1, <2>2, <2>3, <2>4, <2>5, <1>11, TablesStay DEF database, threads, handlers,
         server, Launch, IndInv
<1>12. ASSUME NEW r \in Runners, Spawn(r) PROVE IndInv'
  <2>0. row[r] \in Ids /\ job[r] \in Tasks
    BY <1>0, <1>12 DEF Spawn, ThreadInv, TypeOK
  <2>1. TypeOK'
    <3>1. /\ pc' \in [Runners -> PcStates]
          /\ proc' \in [Ids -> Procs]
          /\ outcome' \in [Runners -> Final \cup {"none"}]
          /\ UNCHANGED <<job, row>>
      <4>1. CASE /\ proc' = [proc EXCEPT ![row[r]] = [task |-> job[r], state |-> "live"]]
                 /\ pc' = [pc EXCEPT ![r] = "exec"]
                 /\ UNCHANGED <<job, row, outcome>>
        BY <1>0, <2>0, <4>1 DEF TypeOK, Procs, PcStates
      <4>2. CASE Report(r, "failed")
        BY <1>0, <2>0, <4>2
           DEF Report, TypeOK, Procs, NoProc, Final, ScriptStatuses, PcStates
      <4> QED BY <1>12, <4>1, <4>2 DEF Spawn
    <3> QED BY <1>0, <1>12, <3>1 DEF database, handlers, server, Spawn, TypeOK
  <2>2. ThreadInv'
    BY <1>0, <1>12 DEF database, threads, handlers, server, Spawn, Report, TypeOK, ThreadInv,
       Serving, Final, ScriptStatuses
  <2>3. OneThreadPerRow'
    BY <1>0, <1>12 DEF database, threads, handlers, server, Spawn, Report, TypeOK,
       OneThreadPerRow
  <2>4. "dbfault" \notin Ops => RunningIsAttended'
    <3>1. /\ row' = row /\ pc'[r] \in {"exec", "finalize"}
          /\ \A q \in Runners \ {r} : pc'[q] = pc[q]
          /\ UNCHANGED <<results, phase, todo>>
      BY <1>0, <1>12 DEF database, server, Spawn, Report, TypeOK
    <3>2. \A i \in Ids : Attending(r, i) => Attending(r, i)'
      BY <3>1 DEF Attending
    <3> QED BY <3>1, <3>2, AttendingGoesOn
  <2>5. HandlerInv'
    BY <1>0, <1>12 DEF database, threads, handlers, server, Spawn, HandlerInv
  <2> QED BY <2>1, <2>2, <2>3, <2>4, <2>5, <1>12, TablesStay DEF database, threads, handlers,
         server, Spawn, IndInv
<1>13. ASSUME NEW r \in Runners, Reap(r) PROVE IndInv'
  <2>1. TypeOK'
    BY <1>0, <1>13 DEF database, threads, handlers, server, Reap, Report, TypeOK, Procs,
       NoProc, Final, ScriptStatuses, PcStates
  <2>2. ThreadInv'
    BY <1>0, <1>13 DEF database, threads, handlers, server, Reap, Report, TypeOK, ThreadInv,
       Serving, Final, ScriptStatuses
  <2>3. OneThreadPerRow'
    BY <1>0, <1>13 DEF database, threads, handlers, server, Reap, Report, TypeOK,
       OneThreadPerRow
  <2>4. "dbfault" \notin Ops => RunningIsAttended'
    BY <1>0, <1>13 DEF database, threads, handlers, server, Reap, Report, TypeOK, ThreadInv,
       RunningIsAttended, Serving, Attending, Ids
  <2>5. HandlerInv'
    BY <1>0, <1>13 DEF database, threads, handlers, server, Reap, HandlerInv
  <2> QED BY <2>1, <2>2, <2>3, <2>4, <2>5, <1>13, TablesStay DEF database, threads, handlers,
         server, Reap, IndInv
<1>14. ASSUME NEW r \in Runners, Timeout(r) PROVE IndInv'
  <2>1. TypeOK'
    BY <1>0, <1>14 DEF database, threads, handlers, server, Timeout, MarkedLive, TypeOK,
       PcStates
  <2>2. ThreadInv'
    BY <1>0, <1>14 DEF database, threads, handlers, server, Timeout, MarkedLive, TypeOK,
       ThreadInv, Serving, Final, ScriptStatuses
  <2>3. OneThreadPerRow'
    BY <1>0, <1>14 DEF database, threads, handlers, server, Timeout, MarkedLive, TypeOK,
       OneThreadPerRow
  <2>4. "dbfault" \notin Ops => RunningIsAttended'
    BY <1>0, <1>14 DEF database, threads, handlers, server, Timeout, MarkedLive, TypeOK,
       ThreadInv, RunningIsAttended, Serving, Attending, Ids
  <2>5. HandlerInv'
    BY <1>0, <1>14 DEF database, threads, handlers, server, Timeout, HandlerInv
  <2> QED BY <2>1, <2>2, <2>3, <2>4, <2>5, <1>14, TablesStay DEF database, threads, handlers,
         server, Timeout, IndInv
<1>15. ASSUME NEW r \in Runners, TimeoutKill(r) PROVE IndInv'
  <2>0. proc' \in [Ids -> Procs]
    <3>1. PICK codes \in [aim[r] -> ScriptStatuses] :
            proc' = [Ended(aim[r], codes) EXCEPT ![row[r]] = NoProc]
      BY <1>15 DEF TimeoutKill
    <3>2. Ended(aim[r], codes) \in [Ids -> Procs]
      BY <1>0, EndedScripts
    <3>3. NoProc \in Procs
      BY DEF NoProc, Procs
    <3> QED BY <3>1, <3>2, <3>3
  <2>1. TypeOK'
    BY <1>0, <1>15, <2>0 DEF database, threads, handlers, server, TimeoutKill, TypeOK, Procs,
       NoProc, Final, ScriptStatuses, PcStates
  <2>2. ThreadInv'
    BY <1>0, <1>15 DEF database, threads, handlers, server, TimeoutKill, TypeOK, ThreadInv,
       Serving, Final, ScriptStatuses
  <2>3. OneThreadPerRow'
    BY <1>0, <1>15 DEF database, threads, handlers, server, TimeoutKill, TypeOK, OneThreadPerRow
  <2>4. "dbfault" \notin Ops => RunningIsAttended'
    BY <1>0, <1>15 DEF database, threads, handlers, server, TimeoutKill, TypeOK, ThreadInv,
       RunningIsAttended, Serving, Attending, Ids
  <2>5. HandlerInv'
    BY <1>0, <1>15 DEF database, threads, handlers, server, TimeoutKill, HandlerInv
  <2> QED BY <2>1, <2>2, <2>3, <2>4, <2>5, <1>15, TablesStay DEF database, threads, handlers,
         server, TimeoutKill, IndInv
<1>16. ASSUME NEW r \in Runners, PruneCheck(r) PROVE IndInv'
  <2>1. TypeOK'
    BY <1>0, <1>16 DEF database, threads, handlers, server, PruneCheck, Leave, TypeOK, PcStates
  <2>2. ThreadInv'
    BY <1>0, <1>16 DEF database, threads, handlers, server, PruneCheck, Leave, TypeOK,
       ThreadInv, Serving, Final, ScriptStatuses
  <2>3. OneThreadPerRow'
    BY <1>0, <1>16 DEF database, threads, handlers, server, PruneCheck, Leave, TypeOK,
       OneThreadPerRow
  <2>4. "dbfault" \notin Ops => RunningIsAttended'
    <3>1. /\ pc[r] = "prune"
          /\ \A q \in Runners \ {r} : pc'[q] = pc[q] /\ row'[q] = row[q]
          /\ UNCHANGED <<results, phase, todo>>
      BY <1>0, <1>16 DEF database, server, PruneCheck, Leave, TypeOK
    <3>2. \A i \in Ids : ~Attending(r, i)
      BY <3>1 DEF Attending
    <3> QED BY <3>1, <3>2, AttendingGoesOn
  <2>5. HandlerInv'
    BY <1>0, <1>16 DEF database, threads, handlers, server, PruneCheck, HandlerInv
  <2> QED BY <2>1, <2>2, <2>3, <2>4, <2>5, <1>16, TablesStay DEF database, threads, handlers,
         server, PruneCheck, IndInv
<1>17. ASSUME NEW r \in Runners, RecordStart(r) PROVE IndInv'
  BY <1>17, RecordStartKeeps
<1>18. ASSUME NEW r \in Runners, Finalize(r) PROVE IndInv'
  BY <1>18, FinalizeKeeps
<1>19. ASSUME NEW r \in Runners, FinalizeFails(r) PROVE IndInv'
  BY <1>19, FinalizeFailsKeeps
<1>20. ASSUME NEW r \in Runners, PruneDelete(r) PROVE IndInv'
  <2>1. /\ Leave(r) /\ pc[r] = "delete"
        /\ results' = Without(Surplus(job[r], retention))
        /\ unpruned' = unpruned \ RowsOf(job[r])
        /\ UNCHANGED <<present, keep, latest, nextId, retention, clock, proc, at, victim,
                       aim, phase, todo, admin, crashes>>
    BY <1>20 DEF PruneDelete, handlers
  <2>2. /\ Closing
        /\ results' \in [Ids -> Rows]
        /\ \A i \in Ids : results'[i] = results[i] \/ results'[i] = NoRow
    BY <1>0, <2>1, WithoutRows DEF Closing
  <2>3. TypeOK'
    BY <1>0, <2>1, <2>2, LeaveSound DEF TypeOK
  <2>4. TableInv'
    BY <1>0, <2>1, <2>2 DEF TableInv, NoRow
  <2>5. HandlerInv'
    BY <1>0, <2>1 DEF HandlerInv
  <2>6. SnapshotInv' /\ ("dbfault" \notin Ops => LatestAgrees')
    BY <2>1, <2>2, <2>3, ClosingSnapshots
  <2>7. ThreadInv' /\ OneThreadPerRow' /\ ("dbfault" \notin Ops => RunningIsAttended')
    BY <2>1, <2>2, LeavingStep
  <2> QED BY <2>3, <2>4, <2>5, <2>6, <2>7 DEF IndInv
<1>21. ASSUME NEW t \in Tasks, ClearResults(t) PROVE IndInv'
  <2>1. /\ Closing
        /\ results' \in [Ids -> Rows]
        /\ \A i \in Ids : results'[i] = results[i] \/ results'[i] = NoRow
    BY <1>0, <1>21, WithoutRows, SurplusIsFinished DEF ClearResults, Closing, TypeOK, RowsOf
  <2>2. TypeOK'
    BY <1>0, <1>21, <2>1 DEF database, threads, handlers, server, ClearResults, TypeOK
  <2>3. \A i \in Ids : results'[i].status # "absent" => results'[i].task \in present'
    BY <1>0, <1>21, <2>1 DEF database, threads, handlers, server, ClearResults, TypeOK,
       TableInv, Closing, NoRow, Final, ScriptStatuses
  <2>4. TableInv' /\ ThreadInv' /\ OneThreadPerRow'
    BY <1>21, <2>1, <2>2, <2>3, ClosingStep DEF database, threads, handlers, server,
       ClearResults, Serving
  <2>5. HandlerInv'
    BY <1>0, <1>21 DEF database, threads, handlers, server, ClearResults, TypeOK, HandlerInv
  <2>6. SnapshotInv' /\ ("dbfault" \notin Ops => LatestAgrees')
    BY <1>21, <2>1, <2>2, ClosingSnapshots DEF database, threads, handlers, server, ClearResults
  <2>7. "dbfault" \notin Ops => RunningIsAttended'
    BY <1>21, <2>1, ClosingAttended DEF database, threads, handlers, server, ClearResults
  <2> QED BY <2>2, <2>4, <2>5, <2>6, <2>7 DEF IndInv
<1>22. ASSUME NEW t \in Tasks, DeleteTask(t) PROVE IndInv'
  <2>1. /\ Closing
        /\ results' \in [Ids -> Rows]
        /\ \A i \in Ids : results'[i] = results[i] \/ results'[i] = NoRow
        /\ \A i \in Ids : results[i].task = t => results'[i] = NoRow
    BY <1>0, <1>22, WithoutRows, SurplusIsFinished DEF DeleteTask, Closing, TypeOK, RowsOf
  <2>2. TypeOK'
    BY <1>0, <1>22, <2>1 DEF database, threads, handlers, server, DeleteTask, TypeOK, Latests,
       NoLatest
  <2>3. \A i \in Ids : results'[i].status # "absent" => results'[i].task \in present'
    BY <1>0, <1>22, <2>1 DEF database, threads, handlers, server, DeleteTask, TypeOK,
       TableInv, Closing, NoRow, Final, ScriptStatuses
  <2>4. TableInv' /\ ThreadInv' /\ OneThreadPerRow'
    BY <1>22, <2>1, <2>2, <2>3, ClosingStep DEF database, threads, handlers, server,
       DeleteTask, Serving
  <2>5. HandlerInv'
    BY <1>0, <1>22 DEF database, threads, handlers, server, DeleteTask, TypeOK, HandlerInv
  <2>6. SnapshotInv' /\ ("dbfault" \notin Ops => LatestAgrees')
    BY <1>0, <1>22, <2>1 DEF DeleteTask, TypeOK, SnapshotInv, LatestAgrees, Latests, NoRow,
       NoLatest
  <2>7. "dbfault" \notin Ops => RunningIsAttended'
    BY <1>22, <2>1, ClosingAttended DEF database, threads, handlers, server, DeleteTask
  <2> QED BY <2>2, <2>4, <2>5, <2>6, <2>7 DEF IndInv
<1>23. ASSUME AdminPruneDelete PROVE IndInv'
  <2>1. /\ Closing
        /\ results' \in [Ids -> Rows]
        /\ \A i \in Ids : results'[i] = results[i] \/ results'[i] = NoRow
    BY <1>0, <1>23, WithoutRows, SurplusIsFinished DEF AdminPruneDelete, Closing, TypeOK, RowsOf
  <2>2. TypeOK'
    BY <1>0, <1>23, <2>1 DEF database, threads, handlers, server, AdminPruneDelete,
       AdminGoesOn, TypeOK
  <2>3. \A i \in Ids : results'[i].status # "absent" => results'[i].task \in present'
    BY <1>0, <1>23, <2>1 DEF database, threads, handlers, server, AdminPruneDelete,
       AdminGoesOn, TypeOK, TableInv, Closing, NoRow, Final, ScriptStatuses
  <2>4. TableInv' /\ ThreadInv' /\ OneThreadPerRow'
    BY <1>23, <2>1, <2>2, <2>3, ClosingStep DEF database, threads, handlers, server,
       AdminPruneDelete, AdminGoesOn, Serving
  <2>5. HandlerInv'
    BY <1>0, <1>23 DEF database, threads, handlers, server, AdminPruneDelete, AdminGoesOn,
       TypeOK, HandlerInv
  <2>6. SnapshotInv' /\ ("dbfault" \notin Ops => LatestAgrees')
    BY <1>23, <2>1, <2>2, ClosingSnapshots DEF database, threads, handlers, server,
       AdminPruneDelete, AdminGoesOn
  <2>7. "dbfault" \notin Ops => RunningIsAttended'
    BY <1>23, <2>1, ClosingAttended DEF database, threads, handlers, server, AdminPruneDelete,
       AdminGoesOn
  <2> QED BY <2>2, <2>4, <2>5, <2>6, <2>7 DEF IndInv
<1>24. ASSUME Boot PROVE IndInv'
  <2>1. /\ Closing
        /\ results' \in [Ids -> Rows]
        /\ \A i \in Ids : results'[i] = results[i] \/ results'[i] = NoRow
    BY <1>0, <1>24, WithoutRows, SurplusIsFinished DEF Boot, Closing, TypeOK, RowsOf
  <2>2. TypeOK'
    BY <1>0, <1>24, <2>1 DEF database, threads, handlers, server, Boot, TypeOK, TasksRunning
  <2>3. \A i \in Ids : results'[i].status # "absent" => results'[i].task \in present'
    BY <1>0, <1>24, <2>1 DEF database, threads, handlers, server, Boot, TypeOK, TableInv,
       Closing, NoRow, Final, ScriptStatuses
  <2>4. TableInv' /\ ThreadInv' /\ OneThreadPerRow'
    BY <1>24, <2>1, <2>2, <2>3, ClosingStep DEF database, threads, handlers, server, Boot,
       Serving
  <2>5. HandlerInv'
    BY <1>0, <1>24 DEF database, threads, handlers, server, Boot, TypeOK, HandlerInv
  <2>6. SnapshotInv' /\ ("dbfault" \notin Ops => LatestAgrees')
    BY <1>24, <2>1, <2>2, ClosingSnapshots DEF database, threads, handlers, server, Boot
  <2>7. "dbfault" \notin Ops => RunningIsAttended'
    <3>1. ~Serving' /\ todo' = TasksRunning
      BY <1>24 DEF Boot, Serving
    <3>2. ASSUME NEW i \in Ids, results'[i].status = "running"
          PROVE  results'[i].task \in TasksRunning
      <4>1. results'[i] = results[i] /\ results[i].status = "running"
        BY <2>1, <3>2 DEF NoRow
      <4>2. results[i].task \in Tasks
        BY <1>0, <4>1 DEF TableInv, TypeOK
      <4> QED BY <4>1, <4>2 DEF TasksRunning, HasRunning, RunningOf, RowsOf
    <3> QED BY <3>1, <3>2 DEF RunningIsAttended
  <2> QED BY <2>2, <2>4, <2>5, <2>6, <2>7 DEF IndInv
<1>25. ASSUME NEW h \in Handlers, CloseStaleRows(h) PROVE IndInv'
  <2>1. /\ Closing
        /\ results' \in [Ids -> Rows]
        /\ latest' \in [Tasks -> Latests]
        /\ \A i \in Ids : results'[i] = results[i] \/ i \in RunningOf(victim[h])
        /\ \A i \in RunningOf(victim[h]) : results'[i] = NoRow \/ results'[i].status = "failed"
        /\ \A u \in Tasks : \/ latest'[u] = latest[u]
                            \/ /\ u = victim[h] /\ latest'[u].status = "failed"
                               /\ latest'[u].run \in RunningOf(victim[h])
    BY <1>0, <1>25, CloseStaleSound DEF CloseStaleRows, HandlerInv
  <2>2. TypeOK'
    <3>1. unpruned' \subseteq Ids
      BY <1>0, <1>25 DEF CloseStaleRows, RunningOf, RowsOf, TypeOK
    <3> QED BY <1>0, <1>25, <2>1, <3>1 DEF database, threads, handlers, CloseStaleRows,
       HandlerDone, TypeOK
  <2>3. \A i \in Ids : results'[i].status # "absent" => results'[i].task \in present'
    BY <1>0, <1>25, <2>1 DEF database, threads, handlers, server, CloseStaleRows, HandlerDone,
       TypeOK, TableInv, Closing, NoRow, Final, ScriptStatuses
  <2>4. TableInv' /\ ThreadInv' /\ OneThreadPerRow'
    BY <1>25, <2>1, <2>2, <2>3, ClosingStep DEF database, threads, handlers, server,
       CloseStaleRows, HandlerDone, Serving
  <2>5. HandlerInv'
    BY <1>0, <1>25 DEF database, threads, handlers, server, CloseStaleRows, HandlerDone,
       TypeOK, HandlerInv
  <2>6. SnapshotInv' /\ ("dbfault" \notin Ops => LatestAgrees')
    BY <1>0, <1>25, <2>1, StaleSnapshots DEF database, threads, handlers, server,
       CloseStaleRows, HandlerDone, HandlerInv
  <2>7. "dbfault" \notin Ops => RunningIsAttended'
    BY <1>0, <1>25, <2>1 DEF database, threads, handlers, server, CloseStaleRows, HandlerDone,
       TypeOK, TableInv, RunningIsAttended, Serving, Attending, Closing, NoRow, Final,
       ScriptStatuses, TasksRunning, HasRunning, RunningOf, RowsOf
  <2> QED BY <2>2, <2>4, <2>5, <2>6, <2>7 DEF IndInv
<1>26. ASSUME NEW t \in Tasks, Recover(t) PROVE IndInv'
  <2>1. /\ Closing
        /\ results' \in [Ids -> Rows]
        /\ latest' \in [Tasks -> Latests]
        /\ \A i \in Ids : results'[i] = results[i] \/ i \in RunningOf(t)
        /\ \A i \in RunningOf(t) : results'[i] = NoRow \/ results'[i].status = "failed"
        /\ \A u \in Tasks : \/ latest'[u] = latest[u]
                            \/ /\ u = t /\ latest'[u].status = "failed"
                               /\ latest'[u].run \in RunningOf(t)
    BY <1>0, <1>26, CloseStaleSound DEF Recover
  <2>2. TypeOK'
    <3>1. unpruned' \subseteq Ids
      BY <1>0, <1>26 DEF Recover, RunningOf, RowsOf, TypeOK
    <3> QED BY <1>0, <1>26, <2>1, <3>1 DEF database, threads, handlers, Recover, TypeOK
  <2>3. \A i \in Ids : results'[i].status # "absent" => results'[i].task \in present'
    BY <1>0, <1>26, <2>1 DEF database, threads, handlers, server, Recover, TypeOK, TableInv,
       Closing, NoRow, Final, ScriptStatuses
  <2>4. TableInv' /\ ThreadInv' /\ OneThreadPerRow'
    BY <1>26, <2>1, <2>2, <2>3, ClosingStep DEF database, threads, handlers, server, Recover,
       Serving
  <2>5. HandlerInv'
    BY <1>0, <1>26 DEF database, threads, handlers, server, Recover, TypeOK, HandlerInv
  <2>6. SnapshotInv' /\ ("dbfault" \notin Ops => LatestAgrees')
    BY <1>0, <1>26, <2>1, StaleSnapshots DEF database, threads, handlers, server, Recover,
       HandlerInv
  <2>7. "dbfault" \notin Ops => RunningIsAttended'
    BY <1>0, <1>26, <2>1 DEF database, threads, handlers, server, Recover, TypeOK, TableInv,
       RunningIsAttended, Serving, Attending, Closing, NoRow, Final, ScriptStatuses,
       TasksRunning, HasRunning, RunningOf, RowsOf
  <2> QED BY <2>2, <2>4, <2>5, <2>6, <2>7 DEF IndInv
<1>27. ASSUME BeginStop PROVE IndInv'
  <2>1. TypeOK'
    BY <1>0, <1>27 DEF database, threads, handlers, server, BeginStop, TypeOK, TasksRunning
  <2>2. ThreadInv' /\ OneThreadPerRow' /\ HandlerInv'
    BY <1>0, <1>27 DEF database, threads, handlers, server, BeginStop, TypeOK, ThreadInv,
       Serving, OneThreadPerRow, HandlerInv
  <2>3. "dbfault" \notin Ops => RunningIsAttended'
    BY <1>0, <1>27 DEF database, threads, handlers, server, BeginStop, TypeOK, TableInv,
       RunningIsAttended, Serving, Attending
  <2> QED BY <2>1, <2>2, <2>3, <1>27, TablesStay DEF database, threads, handlers, server,
         BeginStop, IndInv
<1>28. ASSUME Exit PROVE IndInv'
  <2>1. TypeOK'
    <3>1. unpruned' \subseteq Ids
      BY <1>0, <1>28, PrunedNextHasRows DEF Exit, ProcessGone, TypeOK
    <3> QED BY <1>0, <1>28, <3>1 DEF database, threads, handlers, Exit, ProcessGone, TypeOK,
       Procs, NoProc, PcStates
  <2>2. ThreadInv' /\ OneThreadPerRow' /\ HandlerInv'
    BY <1>0, <1>28 DEF database, threads, handlers, server, Exit, ProcessGone, TypeOK,
       ThreadInv, Serving, OneThreadPerRow, HandlerInv
  <2>3. "dbfault" \notin Ops => RunningIsAttended'
    BY <1>0, <1>28 DEF database, threads, handlers, server, Exit, ProcessGone, TypeOK,
       TableInv, RunningIsAttended, Serving, Attending
  <2> QED BY <2>1, <2>2, <2>3, <1>28, TablesStay DEF database, threads, handlers, server,
         Exit, ProcessGone, IndInv
<1>29. ASSUME Crash PROVE IndInv'
  <2>1. TypeOK'
    <3>1. unpruned' \subseteq Ids
      BY <1>0, <1>29, PrunedNextHasRows DEF Crash, ProcessGone, TypeOK
    <3> QED BY <1>0, <1>29, <3>1 DEF database, threads, handlers, Crash, ProcessGone, TypeOK,
       Procs, NoProc, PcStates
  <2>2. ThreadInv' /\ OneThreadPerRow' /\ HandlerInv'
    BY <1>0, <1>29 DEF database, threads, handlers, server, Crash, ProcessGone, TypeOK,
       ThreadInv, Serving, OneThreadPerRow, HandlerInv
  <2>3. "dbfault" \notin Ops => RunningIsAttended'
    BY <1>0, <1>29 DEF database, threads, handlers, server, Crash, ProcessGone, TypeOK,
       TableInv, RunningIsAttended, Serving, Attending
  <2> QED BY <2>1, <2>2, <2>3, <1>29, TablesStay DEF database, threads, handlers, server,
         Crash, ProcessGone, IndInv
<1>30. ASSUME Serve PROVE IndInv'
  <2>1. TypeOK'
    BY <1>0, <1>30 DEF database, threads, handlers, server, Serve, TypeOK
  <2>2. ThreadInv' /\ OneThreadPerRow' /\ HandlerInv'
    BY <1>0, <1>30 DEF database, threads, handlers, server, Serve, TypeOK, ThreadInv, Serving,
       OneThreadPerRow, HandlerInv
  <2>3. "dbfault" \notin Ops => RunningIsAttended'
    BY <1>0, <1>30 DEF database, threads, handlers, server, Serve, TypeOK, TableInv,
       RunningIsAttended, Serving, Attending
  <2> QED BY <2>1, <2>2, <2>3, <1>30, TablesStay DEF database, threads, handlers, server,
         Serve, IndInv
<1>31. ASSUME NEW r \in Runners, PruneFails(r) PROVE IndInv'
  <2>1. /\ Leave(r) /\ "dbfault" \in Ops
        /\ unpruned' = unpruned \cup {row[r]} /\ row[r] \in Ids
        /\ UNCHANGED <<present, keep, results, latest, nextId, retention, clock, proc, at,
                       victim, aim, phase, todo, admin, crashes>>
    BY <1>0, <1>31 DEF PruneFails, ThreadInv, TypeOK, database, handlers
  <2>2. TypeOK'
    BY <1>0, <2>1, LeaveSound DEF TypeOK
  <2>3. Closing /\ HandlerInv'
    BY <1>0, <2>1 DEF Closing, HandlerInv
  <2> QED BY <2>1, <2>2, <2>3, LeavingStep, TablesStay DEF IndInv
<1>32. ASSUME AdminFails PROVE IndInv'
  <2>1. TypeOK'
    BY <1>0, <1>32 DEF database, threads, handlers, AdminFails, AdminGoesOn, TypeOK
  <2>2. HandlerInv'
    BY <1>0, <1>32 DEF handlers, AdminFails, HandlerInv
  <2> QED BY <2>1, <2>2, <1>32, QuietStep DEF database, threads, handlers, AdminFails
<1>33. CASE UNCHANGED vars
  BY <1>0, <1>33, TablesStay DEF vars, database, threads, handlers, server, IndInv, TypeOK,
     ThreadInv, OneThreadPerRow, HandlerInv, RunningIsAttended, Serving, Attending
<1> QED
  BY <1>1, <1>2, <1>3, <1>4, <1>5, <1>6, <1>7, <1>8, <1>9, <1>10, <1>11, <1>12, <1>13, <1>14,
     <1>15, <1>16, <1>17, <1>18, <1>19, <1>20, <1>21, <1>22, <1>23, <1>24, <1>25, <1>26,
     <1>27, <1>28, <1>29, <1>30, <1>31, <1>32, <1>33
  DEF Next, RunnerStep, HandlerStep, AdminStep, LifeStep
-----------------------------------------------------------------------------
(* The invariant holds in every state that the server reaches, whatever is *)
(* requested, killed or failing.                                           *)
THEOREM Invariance == Spec => []IndInv
  BY InitInv, StepInv, PTL DEF Spec

(* Every variable keeps its type.                                          *)
THEOREM TypeCorrect == Spec => []TypeOK
<1>1. IndInv => TypeOK
  BY DEF IndInv
<1> QED BY <1>1, Invariance, PTL

(* No record outlives its task (record_result_start relies on the foreign  *)
(* key, delete_task on its cascade).                                       *)
THEOREM RecordsHaveTasks == Spec => []NoRowsWithoutTask
<1>1. IndInv => NoRowsWithoutTask
  BY DEF IndInv, TableInv, NoRowsWithoutTask
<1> QED BY <1>1, Invariance, PTL

(* A TaskRunner never shares its result id with another one.               *)
THEOREM RowsAreNotShared == Spec => []OneThreadPerRow
<1>1. IndInv => OneThreadPerRow
  BY DEF IndInv
<1> QED BY <1>1, Invariance, PTL

(* As long as no call of finalize_result fails, a row that says "running"  *)
(* has a thread that will close it or is about to be closed by the start   *)
(* of the server: has_running_instance never bars a task for good.         *)
THEOREM RunningRowsAreAttended ==
  ASSUME "dbfault" \notin Ops
  PROVE  Spec => []RunningIsAttended
<1>1. IndInv => RunningIsAttended
  BY DEF IndInv
<1> QED BY <1>1, Invariance, PTL

(* As long as no call of finalize_result fails, tasks.latest_status never  *)
(* contradicts the record of the run it describes.                         *)
THEOREM SnapshotsAgree ==
  ASSUME "dbfault" \notin Ops
  PROVE  Spec => []LatestAgrees
<1>1. IndInv => LatestAgrees
  BY DEF IndInv
<1> QED BY <1>1, Invariance, PTL
-----------------------------------------------------------------------------
(* What a step does to the table: it inserts a running row, drops rows, or *)
(* gives running rows one final status.                                    *)
Inserts ==
  /\ nextId \in Ids /\ results[nextId].status = "absent"
  /\ nextId' = nextId + 1
  /\ results'[nextId].status = "running"
  /\ \A i \in Ids \ {nextId} : results'[i] = results[i]

Drops(S) ==
  /\ nextId' = nextId
  /\ \A i \in S : results[i].status # "absent" /\ results'[i] = NoRow
  /\ \A i \in Ids \ S : results'[i] = results[i]

Closes(S, v) ==
  /\ nextId' = nextId
  /\ \A i \in S : results[i].status = "running" /\ results'[i].status = v
  /\ \A i \in Ids \ S : results'[i] = results[i]

RowStep ==
  \/ Inserts
  \/ \E S \in SUBSET Ids : Drops(S) \/ \E v \in Final : Closes(S, v)

(* Deleting rows that are there is such a step.                            *)
LEMMA WithoutStep ==
  ASSUME TypeOK, NEW S \in SUBSET Ids, \A i \in S : results[i].status # "absent",
         results' = Without(S), nextId' = nextId
  PROVE  RowStep
<1>1. Drops(S)
  BY WithoutRows DEF Drops
<1> QED BY <1>1 DEF RowStep

(* Closing running rows is: either all of them are kept, or none.          *)
LEMMA ClosedStep ==
  ASSUME TypeOK, NEW t \in Tasks, NEW S, S \subseteq RunningOf(t), NEW status \in Final,
         NEW now \in Nat, results' = Closed(S, t, status, now), nextId' = nextId
  PROVE  RowStep
<1>1. \A i \in S : i \in Ids /\ results[i].status = "running"
  BY DEF RunningOf, RowsOf
<1>2. CASE ~Keeps(t, status)
  <2>1. Drops(S)
    BY <1>1, <1>2 DEF Closed, Drops
  <2> QED BY <1>1, <2>1 DEF RowStep
<1>3. CASE Keeps(t, status)
  <2>1. \A i \in S : results'[i] = [results[i] EXCEPT !.status = status, !.finished = now]
    BY <1>1, <1>3 DEF Closed
  <2>2. ASSUME NEW i \in S PROVE results'[i].status = status
    <3>1. results[i] \in Rows
      BY <1>1 DEF TypeOK
    <3> QED BY <2>1, <3>1 DEF Rows
  <2>3. Closes(S, status)
    BY <1>1, <2>2 DEF Closed, Closes
  <2> QED BY <1>1, <2>3 DEF RowStep
<1> QED BY <1>2, <1>3

(* A stale close is.                                                       *)
LEMMA CloseStaleStep ==
  ASSUME TypeOK, NEW t \in Tasks, CloseStale(t), nextId' = nextId
  PROVE  RowStep
<1>1. CASE UNCHANGED results
  <2>1. Drops({})
    BY <1>1 DEF Drops
  <2> QED BY <2>1 DEF RowStep
<1>2. ASSUME NEW now \in Stamps, results' = Closed(RunningOf(t), t, "failed", now)
      PROVE  RowStep
  <2>1. now \in Nat /\ "failed" \in Final
    BY StampsAreTimes DEF Final, ScriptStatuses
  <2>2. RunningOf(t) \subseteq RunningOf(t)
    OBVIOUS
  <2> QED BY <1>2, <2>1, <2>2, ClosedStep
<1> QED BY <1>1, <1>2 DEF CloseStale

(* Every step is.                                                          *)
LEMMA RowSteps == IndInv /\ [Next]_vars => RowStep
<1> SUFFICES ASSUME IndInv, [Next]_vars PROVE RowStep
  OBVIOUS
<1>0. TypeOK /\ TableInv /\ ThreadInv /\ HandlerInv
  BY DEF IndInv
<1>1. CASE UNCHANGED <<results, nextId>>
  <2>1. Drops({})
    BY <1>1 DEF Drops
  <2> QED BY <2>1 DEF RowStep
<1>2. ASSUME NEW r \in Runners, RecordStart(r), ~UNCHANGED <<results, nextId>> PROVE RowStep
  <2>1. nextId \in Ids /\ results[nextId].status = "absent"
    BY <1>0, <1>2, ConstantsAssumption DEF RecordStart, TypeOK, TableInv, Ids
  <2>2. PICK new :
          /\ results' = [results EXCEPT ![nextId] = new] /\ new.status = "running"
          /\ nextId' = nextId + 1
    BY <1>2 DEF RecordStart
  <2>3. Inserts
    BY <1>0, <2>1, <2>2 DEF Inserts, TypeOK
  <2> QED BY <2>3 DEF RowStep
<1>3. ASSUME NEW r \in Runners, Finalize(r) \/ FinalizeFails(r),
             ~UNCHANGED <<results, nextId>>
      PROVE  RowStep
  <2> DEFINE i == row[r]
             t == results[i].task
  <2>1. PICK now \in Stamps :
          /\ results' = Closed({i}, t, outcome[r], now) /\ nextId' = nextId
          /\ results[i].status = "running" /\ pc[r] = "finalize"
    BY <1>3 DEF Finalize, FinalizeFails
  <2>2. i \in Ids /\ outcome[r] \in Final /\ now \in Nat
    BY <1>0, <2>1, StampsAreTimes DEF ThreadInv, TypeOK
  <2>3. t \in Tasks
    BY <1>0, <2>1, <2>2 DEF TableInv, TypeOK
  <2>4. {i} \subseteq RunningOf(t)
    BY <2>1, <2>2 DEF RunningOf, RowsOf
  <2> QED BY <1>0, <2>1, <2>2, <2>3, <2>4, ClosedStep
<1>4. ASSUME NEW r \in Runners, PruneDelete(r) PROVE RowStep
  <2> DEFINE S == Surplus(job[r], retention)
  <2>1. S \in SUBSET Ids /\ \A i \in S : results[i].status # "absent"
    BY SurplusIsFinished DEF Final, ScriptStatuses
  <2>2. results' = Without(S) /\ nextId' = nextId
    BY <1>4 DEF PruneDelete
  <2> QED BY <1>0, <2>1, <2>2, WithoutStep
<1>5. ASSUME AdminPruneDelete PROVE RowStep
  <2> DEFINE S == Surplus(admin.task, retention)
  <2>1. S \in SUBSET Ids /\ \A i \in S : results[i].status # "absent"
    BY SurplusIsFinished DEF Final, ScriptStatuses
  <2>2. results' = Without(S) /\ nextId' = nextId
    BY <1>5 DEF AdminPruneDelete
  <2> QED BY <1>0, <2>1, <2>2, WithoutStep
<1>6. ASSUME Boot, ~UNCHANGED results PROVE RowStep
  <2> DEFINE S == UNION {Surplus(t, retention) : t \in Tasks}
  <2>1. S \in SUBSET Ids /\ \A i \in S : results[i].status # "absent"
    BY SurplusIsFinished DEF Final, ScriptStatuses
  <2>2. results' = Without(S) /\ nextId' = nextId
    BY <1>6 DEF Boot
  <2> QED BY <1>0, <2>1, <2>2, WithoutStep
<1>7. ASSUME NEW t \in Tasks, ClearResults(t) PROVE RowStep
  <2>1. ASSUME NEW i \in RowsOf(t) PROVE i \in Ids /\ results[i].status # "absent"
    BY <1>0, <2>1, ConstantsAssumption DEF RowsOf, TableInv
  <2>2. PICK S \in {RowsOf(t)} \cup {{i} : i \in RowsOf(t)} :
          results' = Without(S) /\ nextId' = nextId
    BY <1>7 DEF ClearResults
  <2>3. S \in SUBSET Ids /\ \A i \in S : results[i].status # "absent"
    BY <2>1, <2>2
  <2> QED BY <1>0, <2>2, <2>3, WithoutStep
<1>8. ASSUME NEW t \in Tasks, DeleteTask(t) PROVE RowStep
  <2>1. RowsOf(t) \in SUBSET Ids /\ \A i \in RowsOf(t) : results[i].status # "absent"
    BY <1>0, ConstantsAssumption DEF RowsOf, TableInv
  <2>2. results' = Without(RowsOf(t)) /\ nextId' = nextId
    BY <1>8 DEF DeleteTask
  <2> QED BY <1>0, <2>1, <2>2, WithoutStep
<1>9. ASSUME NEW h \in Handlers, CloseStaleRows(h) PROVE RowStep
  <2>1. CloseStale(victim[h]) /\ victim[h] \in Tasks /\ nextId' = nextId
    BY <1>0, <1>9 DEF CloseStaleRows, HandlerInv
  <2> QED BY <1>0, <2>1, CloseStaleStep
<1>10. ASSUME NEW t \in Tasks, Recover(t) PROVE RowStep
  <2>1. CloseStale(t) /\ nextId' = nextId
    BY <1>10 DEF Recover
  <2> QED BY <1>0, <2>1, CloseStaleStep
<1>11. ASSUME NEW r \in Runners,
              \/ \E t \in Tasks, status \in {"none"} \cup NoteStatuses : Launch(r, t, status)
              \/ RunnerStep(r) \/ Timeout(r) \/ FinalizeFails(r) \/ PruneFails(r)
       PROVE  RowStep
  <2>1. ASSUME \/ \E t \in Tasks, status \in {"none"} \cup NoteStatuses : Launch(r, t, status)
               \/ Spawn(r) \/ Reap(r) \/ Timeout(r) \/ TimeoutKill(r) \/ PruneFails(r)
               \/ PruneCheck(r)
        PROVE  UNCHANGED <<results, nextId>>
    BY <2>1 DEF Launch, Spawn, Reap, Timeout, TimeoutKill, PruneFails, PruneCheck, database
  <2> QED BY <1>1, <1>2, <1>3, <1>4, <1>11, <2>1 DEF RunnerStep
<1>12. ASSUME NEW h \in Handlers, HandlerStep(h) PROVE RowStep
  <2>1. Kill(h) => UNCHANGED <<results, nextId>>
    BY DEF Kill, database
  <2> QED BY <1>1, <1>9, <1>12, <2>1 DEF HandlerStep
<1>13. ASSUME NEW t \in Tasks,
              \/ StopRequest(t) \/ Enforce(t) \/ ClearResults(t) \/ DeleteTask(t)
              \/ EditTask(t) \/ AdminPruneCheck(t) \/ Recover(t) \/ ShutdownNext(t)
       PROVE  RowStep
  <2>1. StopRequest(t) \/ Enforce(t) \/ EditTask(t) \/ AdminPruneCheck(t) \/ ShutdownNext(t)
          => UNCHANGED <<results, nextId>>
    BY DEF StopRequest, Enforce, EditTask, AdminPruneCheck, ShutdownNext, Collect, database
  <2> QED BY <1>1, <1>7, <1>8, <1>10, <1>13, <2>1
<1>14. ASSUME \/ \E n \in Retentions : SetRetention(n)
              \/ \E i \in Ids : ScriptEnds(i)
              \/ ListTasks \/ AdminFails \/ BeginStop \/ Serve \/ Exit \/ Crash \/ Tick
              \/ UNCHANGED vars
       PROVE  RowStep
  <2>1. UNCHANGED <<results, nextId>>
    BY <1>14 DEF SetRetention, ScriptEnds, ListTasks, AdminFails, BeginStop, Serve, Exit, Crash,
                 ProcessGone, Tick, vars, database
  <2> QED BY <1>1, <2>1
<1>15. ASSUME Boot PROVE RowStep
  <2>1. nextId' = nextId
    BY <1>15 DEF Boot
  <2> QED BY <1>1, <1>6, <1>15, <2>1
<1> QED BY <1>5, <1>11, <1>12, <1>13, <1>14, <1>15 DEF Next, AdminStep, LifeStep

(* A record keeps its final status and its time until it is deleted: no    *)
(* late thread, stop, shutdown or restart revises it.                      *)
THEOREM VerdictsStay == Spec => FinalIsFinal
<1>1. ASSUME IndInv, [Next]_vars, NEW i \in Ids, results[i].status \in Final
      PROVE  results'[i] = results[i] \/ results'[i].status = "absent"
  <2>1. RowStep
    BY <1>1, RowSteps
  <2> QED BY <1>1, <2>1
          DEF RowStep, Inserts, Drops, Closes, NoRow, Final, ScriptStatuses
<1>2. IndInv /\ [Next]_vars
        => [\A i \in Ids : results[i].status \in Final =>
              results'[i] = results[i] \/ results'[i].status = "absent"]_vars
  BY <1>1
<1> QED BY <1>2, Invariance, PTL DEF Spec, FinalIsFinal

(* The table of results implements the abstract ledger: the initial table  *)
(* is an empty ledger, and every step opens one entry, gives one verdict   *)
(* to open entries, forgets entries, or leaves the ledger alone.           *)
THEOREM Refinement == Spec => LedgerSpec
<1>1. Init => Ledger!Init
  BY DEF Init, Ledger!Init, Entry, NoRow, Ids
<1>2. IndInv /\ [Next]_vars => [Ledger!Next]_<<nextId, Entry>>
  <2> SUFFICES ASSUME IndInv, [Next]_vars PROVE Ledger!Next
    OBVIOUS
  <2>0. TypeOK /\ TableInv
    BY DEF IndInv
  <2>1. nextId \in Nat /\ \A i \in Ids : i \in Nat
    BY <2>0, ConstantsAssumption DEF TypeOK, Ids
  <2>2. CASE Inserts
    <3>1. Entry' = [Entry EXCEPT ![nextId] = "running"]
      <4>1. \A i \in Ids \ {nextId} : (i < nextId' <=> i < nextId) /\ results'[i] = results[i]
        BY <2>1, <2>2 DEF Inserts
      <4> QED BY <2>2, <4>1 DEF Entry, Inserts
    <3>2. Entry[nextId] = "free"
      BY <2>1, <2>2 DEF Entry, Inserts
    <3>3. Ledger!Open
      BY <2>2, <3>1, <3>2 DEF Ledger!Open, Inserts
    <3> QED BY <3>3 DEF Ledger!Next
  <2>3. ASSUME NEW S \in SUBSET Ids, Drops(S) PROVE Ledger!Forget(S)
    <3>1. \A i \in S : results[i].status # "absent" /\ i < nextId
      BY <2>0, <2>3 DEF Drops, TableInv
    <3>2. \A i \in S : Entry[i] # "free"
      BY <2>0, <3>1 DEF Entry, TypeOK, Rows, Final, ScriptStatuses
    <3>3. Entry' = [i \in Ids |-> IF i \in S THEN "gone" ELSE Entry[i]]
      BY <2>3, <3>1 DEF Entry, Drops, NoRow
    <3> QED BY <2>3, <3>2, <3>3 DEF Ledger!Forget, Drops
  <2>4. ASSUME NEW S \in SUBSET Ids, NEW v \in Final, Closes(S, v) PROVE Ledger!Close(S, v)
    <3>1. \A i \in S : Entry[i] = "running"
      BY <2>4 DEF Entry, Closes
    <3>2. Entry' = [i \in Ids |-> IF i \in S THEN v ELSE Entry[i]]
      BY <2>4 DEF Entry, Closes, Final, ScriptStatuses
    <3> QED BY <2>4, <3>1, <3>2 DEF Ledger!Close, Closes
  <2>5. RowStep
    BY RowSteps
  <2> QED BY <2>2, <2>3, <2>4, <2>5 DEF RowStep, Ledger!Next
<1> QED BY <1>1, <1>2, Invariance, PTL DEF Spec, LedgerSpec, Ledger!Spec
-----------------------------------------------------------------------------
(* Snapshots that say "running".                                           *)
LiveInv ==
  \A t \in Tasks : latest[t].status = "running" =>
    latest[t].run \in Ids /\ results[latest[t].run].status = "running"

(* Steps that write no such snapshot and leave their rows alone.           *)
LEMMA LiveStays ==
  ASSUME LiveInv,
         \A t \in Tasks : latest'[t].status = "running" =>
           /\ latest'[t] = latest[t]
           /\ latest[t].run \in Ids /\ results[latest[t].run].status = "running"
                => results'[latest[t].run] = results[latest[t].run]
  PROVE  LiveInv'
  BY DEF LiveInv

(* Pruning drops no running row.                                           *)
LEMMA LivePruned ==
  ASSUME TypeOK, LiveInv, UNCHANGED latest, NEW S, results' = Without(S),
         \A i \in S : results[i].status \in Final
  PROVE  LiveInv'
<1>1. \A i \in Ids : results[i].status = "running" => results'[i] = results[i]
  BY WithoutRows DEF Final, ScriptStatuses
<1> QED BY <1>1, LiveStays

LEMMA LiveStarted ==
  ASSUME IndInv, LiveInv, NEW r \in Runners, RecordStart(r) PROVE LiveInv'
<1>0. TypeOK /\ SnapshotInv
  BY DEF IndInv
<1>1. CASE UNCHANGED <<results, latest>>
  BY <1>1 DEF LiveInv
<1>2. CASE ~ UNCHANGED <<results, latest>>
  <2>1. /\ nextId \in Ids
        /\ latest' = [latest EXCEPT ![job[r]] = [status |-> "running", run |-> nextId]]
    BY <1>0, <1>2, ConstantsAssumption DEF RecordStart, TypeOK, Ids
  <2>2. PICK new : new.status = "running" /\ results' = [results EXCEPT ![nextId] = new]
    BY <1>2 DEF RecordStart
  <2>3. results'[nextId].status = "running" /\ \A i \in Ids \ {nextId} : results'[i] = results[i]
    BY <1>0, <2>1, <2>2 DEF TypeOK
  <2>4. ASSUME NEW t \in Tasks, latest'[t].status = "running"
        PROVE  latest'[t].run \in Ids /\ results'[latest'[t].run].status = "running"
    <3>1. CASE t = job[r]
      BY <1>0, <2>1, <2>3, <3>1 DEF TypeOK
    <3>2. CASE t # job[r]
      <4>1. latest'[t] = latest[t]
        BY <1>0, <2>1, <3>2 DEF TypeOK
      <4>2. latest[t].run < nextId /\ nextId \in Nat
        BY <1>0, <2>1 DEF SnapshotInv, Ids
      <4> QED BY <2>3, <2>4, <4>1, <4>2 DEF LiveInv, Ids
    <3> QED BY <3>1, <3>2
  <2> QED BY <2>4 DEF LiveInv
<1> QED BY <1>1, <1>2

(* Whoever closes a row that a snapshot describes writes that snapshot, in *)
(* the same lock section: the row is of the snapshot's own task.           *)
LEMMA LiveFinalized ==
  ASSUME IndInv, LiveInv, NEW r \in Runners, Finalize(r) \/ FinalizeFails(r) PROVE LiveInv'
<1> DEFINE i == row[r]
           t == results[i].task
<1>0. TypeOK /\ TableInv /\ ThreadInv /\ SnapshotInv
  BY DEF IndInv
<1>1. i \in Ids /\ outcome[r] \in Final
  BY <1>0 DEF Finalize, FinalizeFails, ThreadInv, TypeOK
<1>2. CASE UNCHANGED <<results, latest>>
  BY <1>2 DEF LiveInv
<1>3. CASE ~ UNCHANGED <<results, latest>>
  <2>1. results[i].status = "running"
    BY <1>3 DEF Finalize, FinalizeFails
  <2>2. latest' = [latest EXCEPT ![t] = [status |-> outcome[r], run |-> i]]
    BY <1>3 DEF Finalize, FinalizeFails
  <2>3. UNCHANGED results \/ \E now : results' = Closed({i}, t, outcome[r], now)
    BY <2>1 DEF Finalize, FinalizeFails
  <2>4. \A j \in Ids \ {i} : results'[j] = results[j]
    BY <2>3 DEF Closed
  <2>5. ASSUME NEW u \in Tasks, latest'[u].status = "running"
        PROVE  latest'[u] = latest[u] /\ latest[u].run # i
    <3>1. u # t
      BY <1>0, <1>1, <2>2, <2>5 DEF TypeOK, Final, ScriptStatuses
    <3>2. latest'[u] = latest[u]
      BY <1>0, <2>2, <3>1 DEF TypeOK
    <3>3. i # 0
      BY <1>1 DEF Ids
    <3> QED BY <1>0, <2>1, <3>1, <3>2, <3>3 DEF SnapshotInv
  <2> QED BY <2>4, <2>5, LiveStays
<1> QED BY <1>2, <1>3

LEMMA LiveClosed ==
  ASSUME IndInv, LiveInv, NEW v \in Tasks, CloseStale(v) PROVE LiveInv'
<1>0. TypeOK /\ SnapshotInv
  BY DEF IndInv
<1>1. CASE UNCHANGED <<results, latest>>
  BY <1>1 DEF LiveInv
<1>2. CASE ~ UNCHANGED <<results, latest>>
  <2>1. latest'[v].status = "failed"
    BY <1>0, <1>2 DEF CloseStale, TypeOK
  <2>2. /\ \A i \in Ids : results'[i] = results[i] \/ i \in RunningOf(v)
        /\ \A u \in Tasks \ {v} : latest'[u] = latest[u]
    BY <1>0, CloseStaleSound
  <2>3. ASSUME NEW u \in Tasks, latest'[u].status = "running", latest[u].run \in Ids
        PROVE  results'[latest[u].run] = results[latest[u].run]
    <3>1. u # v
      BY <2>1, <2>3
    <3>2. latest[u].run \notin RunningOf(v)
      BY <1>0, <2>3, <3>1 DEF SnapshotInv, RunningOf, RowsOf, Ids
    <3> QED BY <2>2, <2>3, <3>2
  <2> QED BY <2>1, <2>2, <2>3, LiveStays
<1> QED BY <1>1, <1>2

LEMMA LiveDeleted ==
  ASSUME IndInv, LiveInv, NEW v \in Tasks, DeleteTask(v) PROVE LiveInv'
<1>0. TypeOK /\ SnapshotInv
  BY DEF IndInv
<1>1. results' = Without(RowsOf(v)) /\ latest' = [latest EXCEPT ![v] = NoLatest]
  BY DEF DeleteTask
<1>2. latest'[v].status = "none" /\ \A u \in Tasks \ {v} : latest'[u] = latest[u]
  BY <1>0, <1>1 DEF TypeOK, NoLatest
<1>3. ASSUME NEW u \in Tasks, u # v, latest[u].run \in Ids,
             results[latest[u].run].status = "running"
      PROVE  results'[latest[u].run] = results[latest[u].run]
  <2>1. latest[u].run \notin RowsOf(v)
    BY <1>0, <1>3 DEF SnapshotInv, RowsOf, Ids
  <2> QED BY <1>0, <1>1, <1>3, <2>1, WithoutRows
<1> QED BY <1>2, <1>3, LiveStays

LEMMA LiveStep ==
  ASSUME "clear" \notin Ops, IndInv, LiveInv, [Next]_vars PROVE LiveInv'
<1>0. TypeOK /\ HandlerInv
  BY DEF IndInv
<1>1. CASE UNCHANGED <<results, latest>>
  BY <1>1 DEF LiveInv
<1>2. ASSUME NEW r \in Runners, PruneDelete(r) PROVE LiveInv'
  BY <1>0, <1>2, LivePruned, SurplusIsFinished DEF PruneDelete
<1>3. ASSUME AdminPruneDelete PROVE LiveInv'
  BY <1>0, <1>3, LivePruned, SurplusIsFinished DEF AdminPruneDelete
<1>4. ASSUME Boot PROVE LiveInv'
  <2> DEFINE S == UNION {Surplus(t, retention) : t \in Tasks}
  <2>1. UNCHANGED latest /\ (UNCHANGED results \/ results' = Without(S))
    BY <1>4 DEF Boot
  <2>2. \A i \in S : results[i].status \in Final
    BY SurplusIsFinished
  <2> HIDE DEF S
  <2> QED BY <1>0, <1>1, <2>1, <2>2, LivePruned
<1>5. ASSUME NEW h \in Handlers, CloseStaleRows(h) PROVE LiveInv'
  BY <1>0, <1>5, LiveClosed DEF CloseStaleRows, HandlerInv
<1>6. ASSUME NEW t \in Tasks, Recover(t) PROVE LiveInv'
  BY <1>6, LiveClosed DEF Recover
<1>7. ASSUME NEW r \in Runners,
             \/ \E t \in Tasks, status \in {"none"} \cup NoteStatuses : Launch(r, t, status)
             \/ RunnerStep(r) \/ Timeout(r) \/ FinalizeFails(r) \/ PruneFails(r)
      PROVE  LiveInv'
  <2>1. ASSUME \/ \E t \in Tasks, status \in {"none"} \cup NoteStatuses : Launch(r, t, status)
               \/ Spawn(r) \/ Reap(r) \/ Timeout(r) \/ TimeoutKill(r) \/ PruneCheck(r)
               \/ PruneFails(r)
        PROVE  UNCHANGED <<results, latest>>
    BY <2>1 DEF Launch, Spawn, Reap, Timeout, TimeoutKill, PruneCheck, PruneFails, database
  <2> QED BY <1>1, <1>2, <1>7, <2>1, LiveStarted, LiveFinalized DEF RunnerStep
<1>8. ASSUME NEW h \in Handlers, HandlerStep(h) PROVE LiveInv'
  <2>1. Kill(h) => UNCHANGED <<results, latest>>
    BY DEF Kill, database
  <2> QED BY <1>1, <1>5, <1>8, <2>1 DEF HandlerStep
<1>9. ASSUME NEW t \in Tasks,
             \/ StopRequest(t) \/ Enforce(t) \/ ClearResults(t) \/ DeleteTask(t)
             \/ EditTask(t) \/ AdminPruneCheck(t) \/ Recover(t) \/ ShutdownNext(t)
      PROVE  LiveInv'
  <2>1. StopRequest(t) \/ Enforce(t) \/ EditTask(t) \/ AdminPruneCheck(t) \/ ShutdownNext(t)
          => UNCHANGED <<results, latest>>
    BY DEF StopRequest, Enforce, EditTask, AdminPruneCheck, ShutdownNext, Collect, database
  <2>2. ~ ClearResults(t)
    BY DEF ClearResults
  <2> QED BY <1>1, <1>6, <1>9, <2>1, <2>2, LiveDeleted
<1>10. ASSUME \/ \E n \in Retentions : SetRetention(n)
              \/ \E i \in Ids : ScriptEnds(i)
              \/ ListTasks \/ AdminFails \/ BeginStop \/ Serve \/ Exit \/ Crash \/ Tick
              \/ UNCHANGED vars
       PROVE  LiveInv'
  <2>1. UNCHANGED <<results, latest>>
    BY <1>10 DEF SetRetention, ScriptEnds, ListTasks, AdminFails, BeginStop, Serve, Exit, Crash,
                 ProcessGone, Tick, vars, database
  <2> QED BY <1>1, <2>1
<1> QED BY <1>3, <1>4, <1>7, <1>8, <1>9, <1>10 DEF Next, AdminStep, LifeStep

(* As long as no records are cleared, a snapshot that says "running"       *)
(* describes a record that says so too, through stops, kills and restarts  *)
(* and failures of the database: it changes when that run is closed.       *)
THEOREM RunningSnapshotsAreLive ==
  ASSUME "clear" \notin Ops
  PROVE  Spec => []LatestRunningIsLive
<1>1. Init => LiveInv
  BY DEF Init, LiveInv, NoLatest
<1>2. IndInv /\ LiveInv /\ [Next]_vars => LiveInv'
  BY LiveStep
<1>3. LiveInv => LatestRunningIsLive
  BY DEF LiveInv, LatestRunningIsLive
<1> QED BY <1>1, <1>2, <1>3, Invariance, PTL DEF Spec
-----------------------------------------------------------------------------
(* The order in which records are pruned is a strict total order.          *)
LEMMA NewerIsTotal ==
  ASSUME TypeOK
  PROVE  \A i, j, k \in Ids :
           /\ ~ FinishedAfter(i, i)
           /\ i = j \/ FinishedAfter(i, j) \/ FinishedAfter(j, i)
           /\ FinishedAfter(i, j) /\ FinishedAfter(j, k) => FinishedAfter(i, k)
<1>1. \A i \in Ids : i \in Nat /\ results[i].finished \in Nat
  BY DEF TypeOK, Rows, Ids
<1> QED BY <1>1 DEF FinishedAfter

LEMMA RowsAreFinite ==
  ASSUME NEW t
  PROVE  FinishedOf(t) \in SUBSET Ids /\ IsFiniteSet(FinishedOf(t))
<1>1. IsFiniteSet(Ids)
  BY ConstantsAssumption, FS_Interval DEF Ids
<1> QED BY <1>1, FS_Subset DEF FinishedOf, RowsOf

Newer(t, i) == {j \in FinishedOf(t) : FinishedAfter(j, i)}

LEMMA NewerIsFinite ==
  ASSUME NEW t, NEW i
  PROVE  IsFiniteSet(Newer(t, i)) /\ Cardinality(Newer(t, i)) \in Nat
<1>1. Newer(t, i) \in SUBSET FinishedOf(t)
  BY DEF Newer
<1> QED BY <1>1, RowsAreFinite, FS_Subset, FS_CardinalityType

(* A set of records that is not empty has an oldest: of the sets of those  *)
(* that are older than one of them, take a smallest.                       *)
LEMMA OldestExists ==
  ASSUME TypeOK, NEW t, NEW K \in SUBSET FinishedOf(t), K # {}
  PROVE  \E m \in K : \A k \in K : k = m \/ FinishedAfter(k, m)
<1> DEFINE Older(i) == {j \in K : FinishedAfter(i, j)}
           tails == {Older(i) : i \in K}
<1>0. IsFiniteSet(K) /\ \A i \in K : i \in Ids
  BY RowsAreFinite, FS_Subset
<1>1. tails \subseteq FiniteSubsetsOf(K)
  <2>1. ASSUME NEW i \in K PROVE Older(i) \in SUBSET K /\ IsFiniteSet(Older(i))
    BY <1>0, FS_Subset
  <2> QED BY <2>1 DEF FiniteSubsetsOf
<1>2. tails # {}
  OBVIOUS
<1>3. PICK T \in tails : \A U \in tails : <<U, T>> \notin StrictSubsetOrdering(K)
  BY <1>1, <1>2, FS_StrictSubsetOrderingWellFounded, WFMin
<1>4. PICK m \in K : T = Older(m)
  OBVIOUS
<1>5. ASSUME NEW k \in K, k # m, ~ FinishedAfter(k, m) PROVE FALSE
  <2>1. FinishedAfter(m, k)
    BY <1>0, <1>5, NewerIsTotal
  <2>2. Older(k) \subseteq Older(m)
    BY <1>0, <2>1, NewerIsTotal
  <2>3. k \in Older(m) /\ k \notin Older(k)
    BY <1>0, <2>1, NewerIsTotal
  <2>4. <<Older(k), Older(m)>> \in StrictSubsetOrdering(K)
    BY <2>2, <2>3 DEF StrictSubsetOrdering
  <2> QED BY <1>3, <1>4, <2>4
<1> QED BY <1>5

(* prune_finished_results leaves at most as many records as its LIMIT.     *)
LEMMA KeptAreFew ==
  ASSUME TypeOK, NEW t, NEW n \in Nat
  PROVE  Cardinality(FinishedOf(t) \ Surplus(t, n)) <= n
<1> DEFINE K == FinishedOf(t) \ Surplus(t, n)
<1>1. K \in SUBSET FinishedOf(t) /\ IsFiniteSet(K)
  <2>1. K \in SUBSET FinishedOf(t)
    OBVIOUS
  <2> QED BY <2>1, RowsAreFinite, FS_Subset
<1>2. \A i \in K : Cardinality(Newer(t, i)) < n
  BY NewerIsFinite DEF Surplus, Newer
<1> HIDE DEF K
<1>3. CASE K = {}
  BY <1>3, FS_EmptySet DEF K
<1>4. CASE K # {}
  <2>1. PICK m \in K : \A k \in K : k = m \/ FinishedAfter(k, m)
    BY <1>1, <1>4, OldestExists
  <2>2. K \ {m} \in SUBSET Newer(t, m)
    BY <1>1, <2>1 DEF Newer
  <2>3. Cardinality(K \ {m}) <= Cardinality(Newer(t, m))
    BY <2>2, NewerIsFinite, FS_Subset
  <2>4. Cardinality(K \ {m}) = Cardinality(K) - 1 /\ Cardinality(K) \in Nat
    BY <1>1, <2>1, FS_RemoveElement, FS_CardinalityType
  <2>5. Cardinality(Newer(t, m)) < n /\ Cardinality(Newer(t, m)) \in Nat
    BY <1>2, <2>1, NewerIsFinite
  <2>6. Cardinality(K) <= n
    BY <2>3, <2>4, <2>5
  <2> QED BY <2>6 DEF K
<1> QED BY <1>3, <1>4

-----------------------------------------------------------------------------
(* Of two records of a task, a prune that takes one and keeps the other    *)
(* keeps the newer, whatever threads prune, and in what order finish times *)
(* were read and written.                                                  *)
THEOREM OldestGoFirst == Spec => PruneTakesOldest
<1>1. ASSUME TypeOK, [Next]_vars, NEW i \in Ids, NEW j \in Ids,
             results[i].status \in Final, results'[i].status = "absent",
             results[j].status \in Final, results'[j] = results[j],
             results[i].task = results[j].task,
             NEW r \in Runners, PruneDelete(r)
      PROVE  FinishedAfter(j, i)
  <2> DEFINE S == Surplus(job[r], retention)
  <2>1. results' = Without(S)
    BY <1>1 DEF PruneDelete
  <2>2. i \in S /\ j \notin S
    BY <1>1, <2>1, WithoutRows DEF NoRow, Final, ScriptStatuses
  <2>3. results[i].task = job[r]
    BY <2>2, SurplusIsFinished
  <2>4. j \in FinishedOf(job[r]) /\ i \in FinishedOf(job[r])
    BY <1>1, <2>3 DEF FinishedOf, RowsOf
  <2>5. /\ Cardinality(Newer(job[r], i)) >= retention
        /\ Cardinality(Newer(job[r], j)) < retention
    <3>1. retention \in Nat
      BY <1>1 DEF TypeOK
    <3>2. Cardinality(Newer(job[r], i)) >= retention
      BY <2>2 DEF Surplus, Newer
    <3>3. ~ Cardinality(Newer(job[r], j)) >= retention
      BY <2>2, <2>4 DEF Surplus, Newer
    <3> QED BY <3>1, <3>2, <3>3, NewerIsFinite
  <2>6. ASSUME ~ FinishedAfter(j, i) PROVE FALSE
    <3>1. i = j \/ FinishedAfter(i, j)
      BY <1>1, <2>6, NewerIsTotal
    <3>2. Newer(job[r], i) \in SUBSET Newer(job[r], j)
      BY <1>1, <3>1, NewerIsTotal DEF Newer, FinishedOf, RowsOf
    <3>3. Cardinality(Newer(job[r], i)) <= Cardinality(Newer(job[r], j))
      BY <3>2, NewerIsFinite, FS_Subset
    <3>4. retention \in Nat
      BY <1>1 DEF TypeOK
    <3> QED BY <2>5, <3>3, <3>4, NewerIsFinite
  <2> QED BY <2>6
<1>2. TypeOK /\ [Next]_vars
        => [\A i, j \in Ids :
              /\ results[i].status \in Final /\ results'[i].status = "absent"
              /\ results[j].status \in Final /\ results'[j] = results[j]
              /\ results[i].task = results[j].task
              /\ \E r \in Runners : PruneDelete(r)
              => FinishedAfter(j, i)]_vars
  BY <1>1
<1> QED BY <1>2, TypeCorrect, PTL DEF Spec, PruneTakesOldest

-----------------------------------------------------------------------------
(* The bound on the settled records of one task, and the steps that keep   *)
(* it: those that settle no record, and those that prune.                  *)
Bounded(t) == retention > 0 => Cardinality(Settled(t)) <= retention

LEMMA SettledAreFinite ==
  ASSUME NEW t
  PROVE  /\ IsFiniteSet(Settled(t)) /\ Cardinality(Settled(t)) \in Nat
         /\ IsFiniteSet(Settled(t)') /\ Cardinality(Settled(t)') \in Nat
<1>1. IsFiniteSet(Ids) /\ Settled(t) \in SUBSET Ids /\ Settled(t)' \in SUBSET Ids
  BY ConstantsAssumption, FS_Interval DEF Ids, Settled, FinishedOf, RowsOf
<1> QED BY <1>1, FS_Subset, FS_CardinalityType

LEMMA BoundStays ==
  ASSUME TypeOK, NEW t, Bounded(t), Settled(t)' \subseteq Settled(t), UNCHANGED retention
  PROVE  Bounded(t)'
<1>1. Cardinality(Settled(t)') <= Cardinality(Settled(t))
  BY SettledAreFinite, FS_Subset
<1> QED BY <1>1, SettledAreFinite DEF Bounded, TypeOK

LEMMA BoundPruned ==
  ASSUME TypeOK, NEW t, UNCHANGED retention,
         Settled(t)' \subseteq FinishedOf(t) \ Surplus(t, retention)
  PROVE  Bounded(t)'
<1> DEFINE K == FinishedOf(t) \ Surplus(t, retention)
<1>1. K \in SUBSET FinishedOf(t)
  OBVIOUS
<1>2. IsFiniteSet(K) /\ Cardinality(K) \in Nat
  BY <1>1, RowsAreFinite, FS_Subset, FS_CardinalityType
<1>3. Cardinality(Settled(t)') <= Cardinality(K)
  BY <1>2, FS_Subset
<1>4. retention \in Nat
  BY DEF TypeOK
<1>5. Cardinality(K) <= retention
  BY <1>4, KeptAreFew
<1> HIDE DEF K
<1> QED BY <1>2, <1>3, <1>4, <1>5, SettledAreFinite DEF Bounded

(* Steps that close no row settle none, as long as what no prune has       *)
(* followed yet stays among what is about to be pruned or never was.       *)
LEMMA NothingSettles ==
  ASSUME NEW t, \A i \in Ids : results'[i] = results[i] \/ results'[i].status \notin Final,
         \A i \in unpruned \cup PrunedNext :
           i \in unpruned' \cup PrunedNext' \/ (i \in Ids /\ results'[i].status \notin Final)
  PROVE  Settled(t)' \subseteq Settled(t)
BY DEF Settled, FinishedOf, RowsOf

(* A prune of the records of v takes what is too much there, and settles   *)
(* nothing of other tasks.                                                 *)
LEMMA PruneSettles ==
  ASSUME TypeOK, NEW v, results' = Without(Surplus(v, retention)),
         unpruned' = unpruned \ RowsOf(v), UNCHANGED retention,
         \A i \in PrunedNext : i \in PrunedNext' \/ i \in RowsOf(v) \/ i \notin Ids
                                \/ results[i].status \notin Final,
         NEW t \in Tasks, Bounded(t)
  PROVE  Bounded(t)'
<1>1. \A i \in Ids : results'[i] = IF i \in Surplus(v, retention) THEN NoRow ELSE results[i]
  BY WithoutRows
<1>2. CASE t = v
  <2>1. Settled(t)' \subseteq FinishedOf(t) \ Surplus(t, retention)
    BY <1>1, <1>2 DEF Settled, FinishedOf, RowsOf, NoRow, Final, ScriptStatuses
  <2> QED BY <2>1, BoundPruned
<1>3. CASE t # v
  <2>1. ASSUME NEW i \in Settled(t)' PROVE i \in Settled(t)
    <3>1. i \in Ids /\ results'[i] = results[i] /\ i \in FinishedOf(t) /\ i \notin RowsOf(v)
      BY <1>1, <1>3, <2>1 DEF Settled, FinishedOf, RowsOf, NoRow, Final, ScriptStatuses
    <3>2. i \notin unpruned' /\ i \notin PrunedNext'
      BY <2>1 DEF Settled
    <3> QED BY <3>1, <3>2 DEF Settled, FinishedOf
  <2> QED BY <2>1, BoundStays
<1> QED BY <1>2, <1>3

-----------------------------------------------------------------------------
(* Steps of threads.                                                       *)

(* What is about to be pruned changes with the thread that moves only.     *)
LEMMA OthersPrune ==
  ASSUME NEW r \in Runners,
         \A q \in Runners \ {r} : pc'[q] = pc[q] /\ row'[q] = row[q]
  PROVE  \A i \in PrunedNext :
           i \in PrunedNext' \/ (i = row[r] /\ pc[r] \in {"prune", "delete"})
BY DEF PrunedNext

(* A thread that has closed no record yet.                                 *)
LEMMA EarlyThreads ==
  ASSUME IndInv, NEW r \in Runners,
         \/ \E t \in Tasks, status \in {"none"} \cup NoteStatuses : Launch(r, t, status)
         \/ RecordStart(r) \/ Spawn(r) \/ Reap(r) \/ Timeout(r) \/ TimeoutKill(r),
         NEW t \in Tasks
  PROVE  Settled(t)' \subseteq Settled(t) /\ UNCHANGED retention
<1>0. TypeOK
  BY DEF IndInv
<1>1. /\ pc[r] \notin {"prune", "delete"} /\ UNCHANGED <<retention, unpruned>>
      /\ \A q \in Runners \ {r} : pc'[q] = pc[q] /\ row'[q] = row[q]
  BY <1>0 DEF Launch, RecordStart, Spawn, Reap, Report, Timeout, TimeoutKill, Leave, TypeOK,
              database, server
<1>2. \A i \in Ids : results'[i] = results[i] \/ results'[i].status \notin Final
  <2>1. CASE RecordStart(r)
    <3>1. \/ UNCHANGED results
          \/ \E new : new.status = "running" /\ results' = [results EXCEPT ![nextId] = new]
      BY <2>1 DEF RecordStart
    <3> QED BY <1>0, <3>1 DEF TypeOK, Final, ScriptStatuses
  <2>2. CASE ~ RecordStart(r)
    BY <2>2 DEF Launch, Spawn, Reap, Timeout, TimeoutKill, database
  <2> QED BY <2>1, <2>2
<1> QED BY <1>1, <1>2, OthersPrune, NothingSettles

(* A thread that closes its record is about to prune, or has failed.       *)
LEMMA FinalizeBounds ==
  ASSUME IndInv, NEW r \in Runners, Finalize(r) \/ FinalizeFails(r), NEW t \in Tasks
  PROVE  Settled(t)' \subseteq Settled(t) /\ UNCHANGED retention
<1> DEFINE i == row[r]
<1>0. TypeOK /\ ThreadInv
  BY DEF IndInv
<1>1. i \in Ids /\ pc[r] = "finalize" /\ UNCHANGED retention
  BY <1>0 DEF Finalize, FinalizeFails, ThreadInv, TypeOK
<1>2. \A q \in Runners \ {r} : pc'[q] = pc[q] /\ row'[q] = row[q]
  BY <1>0 DEF Finalize, FinalizeFails, Leave, TypeOK
<1>3. unpruned \subseteq unpruned'
  BY DEF Finalize, FinalizeFails, server
<1>4. CASE UNCHANGED results
  BY <1>1, <1>2, <1>3, <1>4, OthersPrune, NothingSettles
<1>5. CASE ~ UNCHANGED results
  <2>1. \A j \in Ids \ {i} : results'[j] = results[j]
    <3>1. \E now : results' = Closed({i}, results[i].task, outcome[r], now)
      BY <1>5 DEF Finalize, FinalizeFails
    <3> QED BY <3>1 DEF Closed
  <2>2. i \in unpruned' \/ (pc'[r] = "prune" /\ row'[r] = i)
    BY <1>0, <1>5 DEF Finalize, FinalizeFails, TypeOK
  <2>3. i \in unpruned' \cup PrunedNext'
    BY <2>2 DEF PrunedNext
  <2>4. \A j \in PrunedNext : j \in PrunedNext'
    BY <1>1, <1>2, OthersPrune
  <2>5. ASSUME NEW j \in Settled(t)' PROVE j \in Settled(t)
    <3>1. j # i /\ j \in Ids
      BY <2>3, <2>5 DEF Settled, FinishedOf, RowsOf
    <3> QED BY <1>3, <2>1, <2>4, <2>5, <3>1 DEF Settled, FinishedOf, RowsOf
  <2> QED BY <1>1, <2>5
<1> QED BY <1>4, <1>5

(* A thread that prunes, or finds that there is nothing to prune, or fails.*)
LEMMA PruneBounds ==
  ASSUME IndInv, NEW r \in Runners, PruneCheck(r) \/ PruneDelete(r) \/ PruneFails(r),
         NEW t \in Tasks, Bounded(t)
  PROVE  Bounded(t)'
<1>0. TypeOK /\ ThreadInv
  BY DEF IndInv
<1>1. /\ pc[r] \in {"prune", "delete"} /\ row[r] \in Ids
      /\ \A q \in Runners \ {r} : pc'[q] = pc[q] /\ row'[q] = row[q]
  BY <1>0 DEF PruneCheck, PruneDelete, PruneFails, Leave, TypeOK, ThreadInv
<1>2. CASE PruneCheck(r)
  <2>1. UNCHANGED <<results, retention, unpruned>>
    BY <1>2 DEF PruneCheck, database, server
  <2>2. CASE retention > 0
    <3>1. pc'[r] = "delete" /\ row' = row
      BY <1>0, <1>2, <2>2 DEF PruneCheck, TypeOK
    <3>2. \A i \in PrunedNext : i \in PrunedNext'
      BY <1>1, <3>1, OthersPrune DEF PrunedNext
    <3>3. Settled(t)' \subseteq Settled(t)
      BY <2>1, <3>2, NothingSettles
    <3> QED BY <1>0, <2>1, <3>3, BoundStays
  <2>3. CASE ~ retention > 0
    BY <2>1, <2>3 DEF Bounded
  <2> QED BY <2>2, <2>3
<1>3. CASE PruneDelete(r)
  <2>1. /\ results' = Without(Surplus(job[r], retention)) /\ UNCHANGED retention
        /\ unpruned' = unpruned \ RowsOf(job[r])
    BY <1>3 DEF PruneDelete
  <2>2. row[r] \in RowsOf(job[r]) \/ results[row[r]].status \notin Final
    BY <1>0, <1>1 DEF ThreadInv, RowsOf, Ids, Final, ScriptStatuses
  <2>3. \A i \in PrunedNext : i \in PrunedNext' \/ i \in RowsOf(job[r]) \/ i \notin Ids
                              \/ results[i].status \notin Final
    BY <1>1, <2>2, OthersPrune
  <2> QED BY <1>0, <2>1, <2>3, PruneSettles
<1>4. CASE PruneFails(r)
  <2>1. unpruned' = unpruned \cup {row[r]} /\ UNCHANGED <<results, retention>>
    BY <1>4 DEF PruneFails, database
  <2>2. Settled(t)' \subseteq Settled(t)
    BY <1>1, <2>1, OthersPrune, NothingSettles
  <2> QED BY <1>0, <2>1, <2>2, BoundStays
<1> QED BY <1>2, <1>3, <1>4

-----------------------------------------------------------------------------
(* Requests, and the life of the server.                                   *)
LEMMA RequestBounds ==
  ASSUME TypeOK, NEW t \in Tasks, NEW u \in Tasks, Bounded(u),
         \/ StopRequest(t) \/ Enforce(t) \/ ClearResults(t) \/ DeleteTask(t) \/ EditTask(t)
         \/ ShutdownNext(t)
  PROVE  Bounded(u)'
<1>1. UNCHANGED <<retention, unpruned, pc, row>>
  BY DEF StopRequest, Enforce, ClearResults, DeleteTask, EditTask, ShutdownNext, Collect,
         database, threads, server
<1>2. UNCHANGED results \/ \E S : results' = Without(S)
  BY DEF StopRequest, Enforce, ClearResults, DeleteTask, EditTask, ShutdownNext, Collect,
         database
<1>3. \A i \in Ids : results'[i] = results[i] \/ results'[i].status \notin Final
  BY <1>2, WithoutRows DEF NoRow, Final, ScriptStatuses
<1>4. PrunedNext' = PrunedNext
  BY <1>1 DEF PrunedNext
<1>5. Settled(u)' \subseteq Settled(u)
  BY <1>1, <1>3, <1>4, NothingSettles
<1> QED BY <1>1, <1>5, BoundStays

LEMMA AdminBounds ==
  ASSUME TypeOK, NEW t \in Tasks, Bounded(t),
         AdminStep \/ AdminFails \/ \E n \in Retentions : SetRetention(n)
  PROVE  Bounded(t)'
<1>1. UNCHANGED <<pc, row>> /\ PrunedNext' = PrunedNext
  BY DEF AdminStep, ListTasks, AdminPruneCheck, AdminPruneDelete, AdminFails, SetRetention,
         threads, PrunedNext
<1>2. CASE \E n \in Retentions : SetRetention(n)
  <2>1. retention' \in Nat /\ UNCHANGED results
        /\ unpruned' = unpruned \cup {i \in Ids : results[i].status \in Final}
    BY <1>2, ConstantsAssumption DEF SetRetention
  <2>2. Settled(t)' = {}
    BY <2>1 DEF Settled, FinishedOf, RowsOf
  <2>3. Cardinality(Settled(t)') = 0
    BY <2>2, FS_EmptySet
  <2> QED BY <2>1, <2>3 DEF Bounded
<1>3. CASE AdminPruneDelete
  <2>1. /\ results' = Without(Surplus(admin.task, retention)) /\ UNCHANGED retention
        /\ unpruned' = unpruned \ RowsOf(admin.task)
    BY <1>3 DEF AdminPruneDelete
  <2> QED BY <1>1, <2>1, PruneSettles
<1>4. CASE ListTasks \/ AdminFails \/ \E u \in Tasks : AdminPruneCheck(u)
  <2>1. UNCHANGED <<results, retention, unpruned>>
    BY <1>4 DEF ListTasks, AdminFails, AdminPruneCheck, database
  <2>2. Settled(t)' \subseteq Settled(t)
    BY <1>1, <2>1, NothingSettles
  <2> QED BY <2>1, <2>2, BoundStays
<1> QED BY <1>2, <1>3, <1>4 DEF AdminStep

(* Records closed as stale are not settled until the next prune.           *)
LEMMA StaleBounds ==
  ASSUME TypeOK, NEW v \in Tasks, CloseStale(v), UNCHANGED <<retention, pc, row>>,
         unpruned' = unpruned \cup RunningOf(v), NEW t \in Tasks, Bounded(t)
  PROVE  Bounded(t)'
<1>1. \A i \in Ids : results'[i] = results[i] \/ i \in RunningOf(v)
  BY CloseStaleSound
<1>2. PrunedNext' = PrunedNext
  BY DEF PrunedNext
<1>3. Settled(t)' \subseteq Settled(t)
  BY <1>1, <1>2 DEF Settled, FinishedOf, RowsOf
<1> QED BY <1>3, BoundStays

LEMMA BootBounds ==
  ASSUME TypeOK, Boot, NEW t \in Tasks, Bounded(t)
  PROVE  Bounded(t)'
<1>1. UNCHANGED <<retention, pc, row>> /\ PrunedNext' = PrunedNext
  BY DEF Boot, threads, PrunedNext
<1>2. CASE retention > 0
  <2> DEFINE S == UNION {Surplus(u, retention) : u \in Tasks}
  <2>1. \A i \in Ids : results'[i] = IF i \in S THEN NoRow ELSE results[i]
    BY <1>2, WithoutRows DEF Boot
  <2>2. Surplus(t, retention) \subseteq S
    OBVIOUS
  <2>3. Settled(t)' \subseteq FinishedOf(t) \ Surplus(t, retention)
    BY <2>1, <2>2 DEF Settled, FinishedOf, RowsOf, NoRow, Final, ScriptStatuses
  <2> QED BY <1>1, <2>3, BoundPruned
<1>3. CASE ~ retention > 0
  BY <1>1, <1>3 DEF Bounded
<1> QED BY <1>2, <1>3

LEMMA ProcessGoneBounds ==
  ASSUME TypeOK, ProcessGone, NEW t \in Tasks, Bounded(t)
  PROVE  Bounded(t)'
<1>1. UNCHANGED <<results, retention>> /\ unpruned' = unpruned \cup PrunedNext
  BY DEF ProcessGone, database
<1>2. Settled(t)' \subseteq Settled(t)
  BY <1>1, NothingSettles
<1> QED BY <1>1, <1>2, BoundStays

-----------------------------------------------------------------------------
LEMMA RetentionStep ==
  ASSUME IndInv, [Next]_vars, NEW t \in Tasks, Bounded(t)
  PROVE  Bounded(t)'
<1>0. TypeOK /\ HandlerInv
  BY DEF IndInv
<1>1. ASSUME NEW r \in Runners,
             \/ \E u \in Tasks, status \in {"none"} \cup NoteStatuses : Launch(r, u, status)
             \/ RunnerStep(r) \/ Timeout(r) \/ FinalizeFails(r) \/ PruneFails(r)
      PROVE  Bounded(t)'
  <2>1. CASE PruneCheck(r) \/ PruneDelete(r) \/ PruneFails(r)
    BY <2>1, PruneBounds
  <2>2. CASE ~ (PruneCheck(r) \/ PruneDelete(r) \/ PruneFails(r))
    <3>1. Settled(t)' \subseteq Settled(t) /\ UNCHANGED retention
      BY <1>1, <2>2, EarlyThreads, FinalizeBounds DEF RunnerStep
    <3> QED BY <1>0, <3>1, BoundStays
  <2> QED BY <2>1, <2>2
<1>2. ASSUME \/ \E h \in Handlers : Kill(h)
             \/ \E i \in Ids : ScriptEnds(i)
             \/ BeginStop \/ Serve \/ Tick \/ UNCHANGED vars
      PROVE  Bounded(t)'
  <2>1. UNCHANGED <<results, retention, unpruned, pc, row>>
    BY <1>2 DEF Kill, ScriptEnds, BeginStop, Serve, Tick, vars, database, threads, server
  <2>2. PrunedNext' = PrunedNext
    BY <2>1 DEF PrunedNext
  <2>3. Settled(t)' \subseteq Settled(t)
    BY <2>1, <2>2, NothingSettles
  <2> QED BY <1>0, <2>1, <2>3, BoundStays
<1>3. ASSUME NEW h \in Handlers, CloseStaleRows(h) PROVE Bounded(t)'
  <2>1. /\ victim[h] \in Tasks /\ CloseStale(victim[h])
        /\ unpruned' = unpruned \cup RunningOf(victim[h])
        /\ UNCHANGED <<retention, pc, row>>
    BY <1>0, <1>3 DEF CloseStaleRows, HandlerInv, threads
  <2> QED BY <1>0, <2>1, StaleBounds
<1>4. ASSUME NEW v \in Tasks, Recover(v) PROVE Bounded(t)'
  <2>1. CloseStale(v) /\ unpruned' = unpruned \cup RunningOf(v)
        /\ UNCHANGED <<retention, pc, row>>
    BY <1>4 DEF Recover, threads
  <2> QED BY <1>0, <2>1, StaleBounds
<1>5. CASE Boot
  BY <1>0, <1>5, BootBounds
<1>6. CASE Exit \/ Crash
  BY <1>0, <1>6, ProcessGoneBounds DEF Exit, Crash
<1>7. ASSUME NEW v \in Tasks,
             \/ StopRequest(v) \/ Enforce(v) \/ ClearResults(v) \/ DeleteTask(v) \/ EditTask(v)
             \/ ShutdownNext(v)
      PROVE  Bounded(t)'
  BY <1>0, <1>7, RequestBounds
<1>8. CASE AdminStep \/ AdminFails \/ \E n \in Retentions : SetRetention(n)
  BY <1>0, <1>8, AdminBounds
<1> QED BY <1>1, <1>2, <1>3, <1>4, <1>5, <1>6, <1>7, <1>8 DEF Next, HandlerStep, LifeStep

(* A task has no more settled records than the retention allows: all that  *)
(* are beyond it were closed by a thread that is about to prune, or have   *)
(* lost their prune, to a failure of the database, a kill, a stale close or*)
(* a change of the setting, since the last prune of the task.  This is for *)
(* any number of threads, tasks and records, any order of finish times, and*)
(* any requests, kills and faults.                                         *)
THEOREM RetentionIsKept == Spec => []RetentionKept
<1> DEFINE RetentionInv == \A t \in Tasks : Bounded(t)
<1>1. Init => RetentionInv
  <2> SUFFICES ASSUME Init, NEW t \in Tasks PROVE Bounded(t)
    OBVIOUS
  <2>1. Settled(t) = {}
    BY DEF Init, Settled, FinishedOf, RowsOf, NoRow, Final, ScriptStatuses
  <2>2. Cardinality(Settled(t)) = 0 /\ retention \in Nat
    BY <2>1, InitInv, FS_EmptySet DEF IndInv, TypeOK
  <2> QED BY <2>2 DEF Bounded
<1>2. IndInv /\ RetentionInv /\ [Next]_vars => RetentionInv'
  BY RetentionStep
<1>3. RetentionInv => RetentionKept
  BY DEF Bounded, RetentionKept
<1> QED BY <1>1, <1>2, <1>3, Invariance, PTL DEF Spec
=============================================================================
