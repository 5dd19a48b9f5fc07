------------------------------ MODULE TaskRuns ------------------------------
(***************************************************************************)
(* The runs of fn-scheduler's tasks and the records they leave, from       *)
(* app/server/scheduler.py: the task_results table and the snapshot of the *)
(* latest result that class Database keeps, the TaskRunner threads, the    *)
(* scripts they start, the requests that stop a task, clear its records,   *)
(* delete it or change the settings, and how SchedulerEngine.start and     *)
(* .stop deal with the runs a dead or dying server leaves behind.          *)
(*                                                                         *)
(* Every method of Database takes one lock for one SQL transaction, so a   *)
(* lock section is one action; what a caller does between two sections is  *)
(* where the threads interleave.  What makes the server start a run (the   *)
(* cron loop, the condition loop, a request) is left open: Launch may      *)
(* happen at any time, so what holds here holds for every such policy.     *)
(*                                                                         *)
(* Abstracted: the log text of a record, trigger reasons (a result id      *)
(* stands for them and for started_at in the snapshot), the last_run_at    *)
(* column, which no decision of the server reads, and process ids (a       *)
(* script is named by the result id of the run that started it).           *)
(***************************************************************************)
EXTENDS Naturals, FiniteSets

CONSTANTS
  Tasks,         \* ids of the tasks that exist at first; an id is never reused
  NoTask,        \* no task
  Runners,       \* slots for TaskRunner threads; a slot is reused
  MaxResult,     \* bound: rows ever inserted in task_results
  MaxClock,      \* bound: how often the second of time_now() changes
  StampLag,      \* bound: ticks between time_now() and the lock section using it
  MaxCrashes,    \* bound: kills of the server process
  Retentions,    \* values of result_retention_per_task; 0 is unlimited
  KeepChoices,   \* the combinations of keep_success_log and keep_failure_log tried
  NoteStatuses,  \* statuses recorded without running the task's script
  Marked,        \* <<t, u>>: the marker of t is found in the environment of u
  Ops            \* the requests, limits and faults this instance explores

AllOps == {"timeout", "enforce", "stop", "shutdown", "clear", "delete", "edit",
           "settings", "dbfault"}

ScriptStatuses == {"success", "failed"}
Final == ScriptStatuses \cup {"condition_failed", "pretask_failed"}

ASSUME ConstantsAssumption ==
  /\ NoTask \notin Tasks
  /\ IsFiniteSet(Tasks) /\ IsFiniteSet(Runners)
  /\ MaxResult \in Nat /\ MaxClock \in Nat /\ StampLag \in Nat /\ MaxCrashes \in Nat
  /\ Retentions \subseteq Nat
  /\ KeepChoices \subseteq SUBSET ScriptStatuses
  /\ NoteStatuses \subseteq {"condition_failed", "pretask_failed"}
  /\ Ops \subseteq AllOps

(* Marked holds for a task and itself: its own scripts carry its marker.   *)
ASSUME MarkedAssumption == \A t \in Tasks : <<t, t>> \in Marked

VARIABLES
  present,    \* ids in table tasks
  keep,       \* keep_success_log, keep_failure_log of each task
  results,    \* table task_results
  latest,     \* tasks.latest_status and the run it describes
  nextId,     \* AUTOINCREMENT of task_results
  retention,  \* Database.result_retention_per_task
  clock,      \* the second that time_now() is in
  pc,         \* what each TaskRunner thread does next
  job,        \* its task
  row,        \* its result_id, 0 before record_result_start returns
  outcome,    \* its (log_text, status), "none" before the script has ended
  proc,       \* the script of each run: its marker and its state
  at,         \* what each handler that ends processes does next
  victim,     \* the task whose processes it ends
  aim,        \* the scripts whose pids a thread has collected to end them
  phase,      \* life of the server process
  todo,       \* tasks that SchedulerEngine.start or .stop still has to close
  admin,      \* a request to change the settings
  crashes,    \* kills of the server so far
  unpruned    \* history: records that no prune of their task is bound to follow

database == <<present, keep, results, latest, nextId, retention>>
threads == <<pc, job, row, outcome>>
handlers == <<at, victim>>
server == <<phase, todo, admin, crashes, unpruned>>
vars == <<database, clock, threads, proc, handlers, aim, server>>

Ids == 1..MaxResult
Handlers == {"stop", "enforce", "shutdown"}
-----------------------------------------------------------------------------
(* Rows, snapshots and scripts that are not there.                         *)
NoRow == [task |-> NoTask, status |-> "absent", started |-> 0, finished |-> 0]
NoLatest == [status |-> "none", run |-> 0]
NoProc == [task |-> NoTask, state |-> "none"]

Rows == [task : Tasks \cup {NoTask}, status : {"absent", "running"} \cup Final,
         started : Nat, finished : Nat]
Latests == [status : {"none", "running"} \cup Final, run : Ids \cup {0}]
Procs == [task : Tasks \cup {NoTask}, state : {"none", "live"} \cup ScriptStatuses]

PcStates == {"idle", "launched", "spawn", "exec", "timeout", "finalize",
             "prune", "delete"}

TypeOK ==
  /\ present \subseteq Tasks
  /\ keep \in [Tasks -> KeepChoices]
  /\ results \in [Ids -> Rows]
  /\ latest \in [Tasks -> Latests]
  /\ nextId \in 1..(MaxResult + 1)
  /\ retention \in Nat
  /\ clock \in 0..MaxClock
  /\ pc \in [Runners -> PcStates]
  /\ job \in [Runners -> Tasks \cup {NoTask}]
  /\ row \in [Runners -> Ids \cup {0}]
  /\ outcome \in [Runners -> Final \cup {"none"}]
  /\ proc \in [Ids -> Procs]
  /\ at \in [Handlers -> {"idle", "kill", "stale"}]
  /\ victim \in [Handlers -> Tasks \cup {NoTask}]
  /\ aim \in [Runners \cup Handlers -> SUBSET Ids]
  /\ phase \in {"down", "recovering", "up", "stopping"}
  /\ todo \subseteq Tasks
  /\ admin \in [at : {"idle", "list", "prune", "delete"},
                todo : SUBSET Tasks, task : Tasks \cup {NoTask}]
  /\ crashes \in 0..MaxCrashes
  /\ unpruned \subseteq Ids

Init ==
  /\ present = Tasks
  /\ keep \in [Tasks -> KeepChoices]
  /\ results = [i \in Ids |-> NoRow]
  /\ latest = [t \in Tasks |-> NoLatest]
  /\ nextId = 1
  /\ retention \in Retentions
  /\ clock = 0
  /\ pc = [r \in Runners |-> "idle"]
  /\ job = [r \in Runners |-> NoTask]
  /\ row = [r \in Runners |-> 0]
  /\ outcome = [r \in Runners |-> "none"]
  /\ proc = [i \in Ids |-> NoProc]
  /\ at = [h \in Handlers |-> "idle"]
  /\ victim = [h \in Handlers |-> NoTask]
  /\ aim = [a \in Runners \cup Handlers |-> {}]
  /\ phase = "up"
  /\ todo = {}
  /\ admin = [at |-> "idle", todo |-> {}, task |-> NoTask]
  /\ crashes = 0
  /\ unpruned = {}
-----------------------------------------------------------------------------
(* What the methods of Database read and write in one lock section.        *)

(* time_now() is read before the lock is taken.                            *)
Stamps == {s \in 0..clock : clock <= s + StampLag}

RowsOf(t) == {i \in Ids : results[i].task = t}
RunningOf(t) == {i \in RowsOf(t) : results[i].status = "running"}
FinishedOf(t) == {i \in RowsOf(t) : results[i].status \in Final}
HasRunning(t) == RunningOf(t) # {}
TasksRunning == {t \in Tasks : HasRunning(t)}

Keeps(t, status) ==
  t \in present => (IF status = "success" THEN "success" ELSE "failed") \in keep[t]

(* ORDER BY COALESCE(finished_at, started_at) DESC, id DESC                *)
FinishedAfter(i, j) ==
  \/ results[i].finished > results[j].finished
  \/ results[i].finished = results[j].finished /\ i > j

(* The records that threads have just closed and are about to prune after. *)
PrunedNext == {row[r] : r \in {q \in Runners : pc[q] \in {"prune", "delete"}}}

(* Slips of pruning: one record too many is kept; the order is that of ids.*)
SurplusPlusOne(t, n) ==
  {i \in FinishedOf(t) :
     Cardinality({j \in FinishedOf(t) : FinishedAfter(j, i)}) > n}

SurplusById(t, n) ==
  {i \in FinishedOf(t) : Cardinality({j \in FinishedOf(t) : j > i}) >= n}

(* What prune_finished_results deletes when its LIMIT is n.                *)
Surplus(t, n) ==
  {i \in FinishedOf(t) :
     Cardinality({j \in FinishedOf(t) : FinishedAfter(j, i)}) >= n}

Without(S) == [i \in Ids |-> IF i \in S THEN NoRow ELSE results[i]]

(* The rows of S closed with a status, or dropped when the task's flags    *)
(* say that such a record is not kept.                                     *)
Closed(S, t, status, now) ==
  [i \in Ids |->
     IF i \notin S THEN results[i]
     ELSE IF Keeps(t, status)
          THEN [results[i] EXCEPT !.status = status, !.finished = now]
          ELSE NoRow]

(* ORDER BY started_at DESC, id DESC LIMIT 1 over the running rows.        *)
IsNewest(i, S) ==
  /\ i \in S
  /\ \A j \in S : \/ results[i].started > results[j].started
                  \/ results[i].started = results[j].started /\ i >= j

(* Slips of a stale close: only the newest row is closed; the snapshot is  *)
(* forgotten; finished rows are closed again.                              *)
CloseStaleNewest(t) ==
  \/ ~HasRunning(t) /\ UNCHANGED <<results, latest>>
  \/ \E i \in RunningOf(t), now \in Stamps :
       /\ IsNewest(i, RunningOf(t))
       /\ results' = Closed({i}, t, "failed", now)
       /\ latest' = [latest EXCEPT ![t] = [status |-> "failed", run |-> i]]

CloseStaleRowsOnly(t) ==
  /\ \E now \in Stamps : results' = Closed(RunningOf(t), t, "failed", now)
  /\ UNCHANGED latest

CloseStaleFinished(t) ==
  \/ ~HasRunning(t) /\ UNCHANGED <<results, latest>>
  \/ \E i \in RunningOf(t), now \in Stamps :
       /\ results' = Closed(RowsOf(t), t, "failed", now)
       /\ latest' = [latest EXCEPT ![t] = [status |-> "failed", run |-> i]]

(* finalize_stale_running_instances: every running row of t fails at once. *)
CloseStale(t) ==
  \/ /\ ~HasRunning(t)
     /\ UNCHANGED <<results, latest>>
  \/ \E i \in RunningOf(t), now \in Stamps :
       /\ IsNewest(i, RunningOf(t))
       /\ results' = Closed(RunningOf(t), t, "failed", now)
       /\ latest' = [latest EXCEPT ![t] = [status |-> "failed", run |-> i]]
-----------------------------------------------------------------------------
(* Scripts and how they are ended.                                         *)

(* The live scripts that _find_task_pids and the tracked Popen objects     *)
(* yield for t.                                                            *)
MarkedLive(t) ==
  {i \in Ids : proc[i].state = "live" /\ <<t, proc[i].task>> \in Marked}

(* A TaskRunner is in communicate() or wait() for the script.              *)
Waiting(i) == \E r \in Runners : row[r] = i /\ pc[r] \in {"exec", "timeout"}

(* The live scripts of S end: one that traps SIGTERM picks its exit code,  *)
(* one that outlives the grace period is killed.  The code is kept for the *)
(* thread that waits; an orphan leaves nothing.                            *)
Ended(S, codes) ==
  [i \in Ids |-> IF i \in S /\ proc[i].state = "live"
                 THEN IF Waiting(i) THEN [proc[i] EXCEPT !.state = codes[i]]
                                    ELSE NoProc
                 ELSE proc[i]]

ScriptEnds(i) ==
  /\ proc[i].state = "live"
  /\ \E codes \in [{i} -> ScriptStatuses] : proc' = Ended({i}, codes)
  /\ UNCHANGED <<database, clock, threads, handlers, aim, server>>

Tick ==
  /\ clock < MaxClock
  /\ clock' = clock + 1
  /\ UNCHANGED <<database, threads, proc, handlers, aim, server>>
-----------------------------------------------------------------------------
(* TaskRunner threads, and the threads that record a status at once with   *)
(* record_finished_result: they run the same two methods of Database.      *)
Serving == phase \in {"up", "stopping"}

Launched == {r \in Runners : pc[r] = "launched"}

(* A thread starts for a task some thread has just read from the database: *)
(* a TaskRunner (status "none") or a note that the script was not run.     *)
Launch(r, t, status) ==
  /\ Serving
  /\ pc[r] = "idle"
  /\ t \in present
  /\ nextId + Cardinality(Launched) <= MaxResult
  /\ pc' = [pc EXCEPT ![r] = "launched"]
  /\ job' = [job EXCEPT ![r] = t]
  /\ outcome' = [outcome EXCEPT ![r] = status]
  /\ UNCHANGED <<database, clock, row, proc, handlers, aim, server>>

(* The thread is done, or dies of an exception.                            *)
Leave(r) ==
  /\ pc' = [pc EXCEPT ![r] = "idle"]
  /\ job' = [job EXCEPT ![r] = NoTask]
  /\ row' = [row EXCEPT ![r] = 0]
  /\ outcome' = [outcome EXCEPT ![r] = "none"]

(* Slips of record_result_start: no foreign key; ids that are handed out   *)
(* again once the newest record is deleted (no AUTOINCREMENT).             *)
RecordStartAs(r, i) ==
  /\ pc[r] = "launched" /\ i <= MaxResult /\ nextId <= MaxResult
  /\ \E now \in Stamps :
       results' = [results EXCEPT ![i] =
         [task |-> job[r], status |-> "running", started |-> now, finished |-> 0]]
  /\ latest' = [latest EXCEPT ![job[r]] = [status |-> "running", run |-> i]]
  /\ nextId' = nextId + 1
  /\ row' = [row EXCEPT ![r] = i]
  /\ pc' = [pc EXCEPT ![r] = IF outcome[r] = "none" THEN "spawn" ELSE "finalize"]
  /\ UNCHANGED <<job, outcome, present, keep, retention, clock, proc, handlers, aim, server>>

RecordStartNoForeignKey(r) == RecordStartAs(r, nextId)

RecordStartReusesIds(r) ==
  RecordStartAs(r, 1 + Cardinality({j \in Ids : \E k \in Ids :
                                      k >= j /\ results[k].status # "absent"}))

(* record_result_start: the insert fails on its foreign key when the task  *)
(* has been deleted since, outside any try, and the thread is over.  The   *)
(* bound never holds a thread up: Launch leaves room for it.               *)
RecordStart(r) ==
  /\ pc[r] = "launched"
  /\ nextId <= MaxResult
  /\ IF job[r] \in present
     THEN /\ \E now \in Stamps :
               results' = [results EXCEPT ![nextId] =
                 [task |-> job[r], status |-> "running", started |-> now, finished |-> 0]]
          /\ latest' = [latest EXCEPT ![job[r]] = [status |-> "running", run |-> nextId]]
          /\ nextId' = nextId + 1
          /\ row' = [row EXCEPT ![r] = nextId]
          /\ pc' = [pc EXCEPT ![r] = IF outcome[r] = "none" THEN "spawn" ELSE "finalize"]
          /\ UNCHANGED <<job, outcome>>
     ELSE Leave(r) /\ UNCHANGED <<results, latest, nextId>>
  /\ UNCHANGED <<present, keep, retention, clock, proc, handlers, aim, server>>

(* The script has ended for its thread, which forgets the process.         *)
Report(r, status) ==
  /\ outcome' = [outcome EXCEPT ![r] = status]
  /\ pc' = [pc EXCEPT ![r] = "finalize"]
  /\ proc' = [proc EXCEPT ![row[r]] = NoProc]
  /\ UNCHANGED <<job, row>>

(* Popen and _register_process, or an account or a command that cannot be  *)
(* used.  Nothing asks whether the row is still running.                   *)
Spawn(r) ==
  /\ pc[r] = "spawn"
  /\ \/ /\ proc' = [proc EXCEPT ![row[r]] = [task |-> job[r], state |-> "live"]]
        /\ pc' = [pc EXCEPT ![r] = "exec"]
        /\ UNCHANGED <<job, row, outcome>>
     \/ Report(r, "failed")
  /\ UNCHANGED <<database, clock, handlers, aim, server>>

(* A slip: the exit code is read while the script still runs.              *)
ReapEarly(r) ==
  /\ pc[r] = "exec"
  /\ Report(r, proc[row[r]].state)
  /\ UNCHANGED <<database, clock, handlers, aim, server>>

Reap(r) ==
  /\ pc[r] = "exec"
  /\ proc[row[r]].state \in ScriptStatuses
  /\ Report(r, proc[row[r]].state)
  /\ UNCHANGED <<database, clock, handlers, aim, server>>

(* communicate(timeout) gives up and the pids of the task are collected... *)
Timeout(r) ==
  /\ "timeout" \in Ops
  /\ pc[r] = "exec"
  /\ pc' = [pc EXCEPT ![r] = "timeout"]
  /\ aim' = [aim EXCEPT ![r] = MarkedLive(job[r])]
  /\ UNCHANGED <<database, clock, job, row, outcome, proc, handlers, server>>

(* A slip: a script that ended by itself in between is waited for.         *)
TimeoutKillLiveOnly(r) ==
  /\ pc[r] = "timeout" /\ proc[row[r]].state = "live"
  /\ proc' = [proc EXCEPT ![row[r]] = NoProc]
  /\ outcome' = [outcome EXCEPT ![r] = "failed"]
  /\ pc' = [pc EXCEPT ![r] = "finalize"]
  /\ aim' = [aim EXCEPT ![r] = {}]
  /\ UNCHANGED <<database, clock, job, row, handlers, server>>

(* ... and then ended, the thread's own script among them.                 *)
TimeoutKill(r) ==
  /\ pc[r] = "timeout"
  /\ \E codes \in [aim[r] -> ScriptStatuses] :
       proc' = [Ended(aim[r], codes) EXCEPT ![row[r]] = NoProc]
  /\ outcome' = [outcome EXCEPT ![r] = "failed"]
  /\ pc' = [pc EXCEPT ![r] = "finalize"]
  /\ aim' = [aim EXCEPT ![r] = {}]
  /\ UNCHANGED <<database, clock, job, row, handlers, server>>

(* Slips of finalize_result: a row that is closed already is closed again; *)
(* the snapshot is forgotten.                                              *)
FinalizeAgain(r) ==
  LET i == row[r]
      t == results[i].task
  IN
  /\ pc[r] = "finalize"
  /\ IF results[i].status # "absent"
     THEN /\ latest' = [latest EXCEPT ![t] = [status |-> outcome[r], run |-> i]]
          /\ \E now \in Stamps : results' = Closed({i}, t, outcome[r], now)
          /\ pc' = [pc EXCEPT ![r] = "prune"]
          /\ UNCHANGED <<job, row, outcome>>
     ELSE Leave(r) /\ UNCHANGED <<results, latest>>
  /\ UNCHANGED <<present, keep, nextId, retention, clock, proc, handlers, aim, server>>

FinalizeRowOnly(r) ==
  /\ pc[r] = "finalize"
  /\ IF results[row[r]].status = "running"
     THEN \E now \in Stamps :
            results' = Closed({row[r]}, results[row[r]].task, outcome[r], now)
     ELSE UNCHANGED results
  /\ pc' = [pc EXCEPT ![r] = "prune"]
  /\ UNCHANGED <<job, row, outcome, present, keep, latest, nextId, retention, clock, proc,
                 handlers, aim, server>>

(* finalize_result up to its commit: a row that is gone or closed already  *)
(* is left alone.                                                          *)
Finalize(r) ==
  LET i == row[r]
      t == results[i].task
  IN
  /\ pc[r] = "finalize"
  /\ IF results[i].status = "running"
     THEN /\ latest' = [latest EXCEPT ![t] = [status |-> outcome[r], run |-> i]]
          /\ \E now \in Stamps : results' = Closed({i}, t, outcome[r], now)
          /\ pc' = [pc EXCEPT ![r] = "prune"]
          /\ UNCHANGED <<job, row, outcome>>
     ELSE Leave(r) /\ UNCHANGED <<results, latest>>
  /\ UNCHANGED <<present, keep, nextId, retention, clock, proc, handlers, aim, server>>

(* finalize_result raises, and the thread is over: before its first        *)
(* statement; after it has set the snapshot; or at its commit.  The next   *)
(* commit of the shared connection saves what was done.                    *)
FinalizeFails(r) ==
  LET i == row[r]
      t == results[i].task
  IN
  /\ "dbfault" \in Ops
  /\ pc[r] = "finalize"
  /\ \/ UNCHANGED <<results, latest, unpruned>>
     \/ /\ results[i].status = "running"
        /\ latest' = [latest EXCEPT ![t] = [status |-> outcome[r], run |-> i]]
        /\ \/ UNCHANGED <<results, unpruned>>
           \/ /\ \E now \in Stamps : results' = Closed({i}, t, outcome[r], now)
              /\ unpruned' = unpruned \cup {i}
  /\ Leave(r)
  /\ UNCHANGED <<present, keep, nextId, retention, clock, proc, handlers, aim,
                 phase, todo, admin, crashes>>

(* prune_finished_results looks at the retention before it takes the lock  *)
PruneCheck(r) ==
  /\ pc[r] = "prune"
  /\ IF retention > 0
     THEN pc' = [pc EXCEPT ![r] = "delete"] /\ UNCHANGED <<job, row, outcome>>
     ELSE Leave(r)
  /\ UNCHANGED <<database, clock, proc, handlers, aim, server>>

(* and reads it again, as the LIMIT of the statement, under the lock.      *)
PruneDelete(r) ==
  /\ pc[r] = "delete"
  /\ results' = Without(Surplus(job[r], retention))
  /\ unpruned' = unpruned \ RowsOf(job[r])
  /\ Leave(r)
  /\ UNCHANGED <<present, keep, latest, nextId, retention, clock, proc, handlers,
                 aim, phase, todo, admin, crashes>>

(* The prune raises within finalize_result, whose except in run() takes    *)
(* it: the record is closed, the thread is over, and nothing is pruned.    *)
PruneFails(r) ==
  /\ "dbfault" \in Ops
  /\ pc[r] = "delete"
  /\ unpruned' = unpruned \cup {row[r]}
  /\ Leave(r)
  /\ UNCHANGED <<database, clock, proc, handlers, aim, phase, todo, admin, crashes>>
-----------------------------------------------------------------------------
(* Handlers that end a task's processes: stop_task and batch stop, the     *)
(* engine's _enforce_task_timeouts, and SchedulerEngine.stop.              *)
Collect(h, t) ==
  /\ at[h] = "idle"
  /\ at' = [at EXCEPT ![h] = "kill"]
  /\ victim' = [victim EXCEPT ![h] = t]
  /\ aim' = [aim EXCEPT ![h] = MarkedLive(t)]
  /\ UNCHANGED <<database, clock, threads, proc, server>>

HandlerDone(h) ==
  /\ at' = [at EXCEPT ![h] = "idle"]
  /\ victim' = [victim EXCEPT ![h] = NoTask]

StopRequest(t) ==
  /\ "stop" \in Ops /\ phase = "up" /\ t \in present
  /\ Collect("stop", t)

Enforce(t) ==
  /\ "enforce" \in Ops /\ phase = "up" /\ HasRunning(t)
  /\ Collect("enforce", t)

ShutdownNext(t) ==
  /\ phase = "stopping" /\ t \in todo
  /\ Collect("shutdown", t)

(* _terminate_pids.  A pid that its thread has reaped in between counts as *)
(* already exited; stop_task closes rows only when no signal was delivered,*)
(* SchedulerEngine.stop always does, the timeout loop never.               *)
Kill(h) ==
  LET delivered == \E i \in aim[h] : proc[i].state # "none"
      closes == h = "shutdown" \/ (h = "stop" /\ ~delivered)
  IN
  /\ at[h] = "kill"
  /\ \E codes \in [aim[h] -> ScriptStatuses] : proc' = Ended(aim[h], codes)
  /\ aim' = [aim EXCEPT ![h] = {}]
  /\ IF closes THEN at' = [at EXCEPT ![h] = "stale"] /\ UNCHANGED victim
               ELSE HandlerDone(h)
  /\ UNCHANGED <<database, clock, threads, server>>

CloseStaleRows(h) ==
  /\ at[h] = "stale"
  /\ CloseStale(victim[h])
  /\ HandlerDone(h)
  /\ todo' = IF h = "shutdown" THEN todo \ {victim[h]} ELSE todo
  /\ unpruned' = unpruned \cup RunningOf(victim[h])
  /\ UNCHANGED <<present, keep, nextId, retention, clock, threads, proc, aim,
                 phase, admin, crashes>>
-----------------------------------------------------------------------------
(* Requests that change the tables.                                        *)

(* delete_results: all records of a task, or one of them, running or not.  *)
ClearResults(t) ==
  /\ "clear" \in Ops /\ phase = "up" /\ RowsOf(t) # {}
  /\ \E S \in {RowsOf(t)} \cup {{i} : i \in RowsOf(t)} : results' = Without(S)
  /\ UNCHANGED <<present, keep, latest, nextId, retention, clock, threads, proc,
                 handlers, aim, server>>

(* delete_task: ON DELETE CASCADE takes the task's records along.          *)
DeleteTask(t) ==
  /\ "delete" \in Ops /\ phase = "up" /\ t \in present
  /\ present' = present \ {t}
  /\ results' = Without(RowsOf(t))
  /\ latest' = [latest EXCEPT ![t] = NoLatest]
  /\ UNCHANGED <<keep, nextId, retention, clock, threads, proc, handlers, aim, server>>

(* update_task, as far as it concerns records.                             *)
EditTask(t) ==
  /\ "edit" \in Ops /\ phase = "up" /\ t \in present
  /\ \E flags \in KeepChoices : keep' = [keep EXCEPT ![t] = flags]
  /\ UNCHANGED <<present, results, latest, nextId, retention, clock, threads, proc,
                 handlers, aim, server>>

(* update_settings sets the retention, then prunes every task.             *)
SetRetention(n) ==
  /\ "settings" \in Ops /\ phase = "up" /\ admin.at = "idle"
  /\ retention' = n
  /\ admin' = [admin EXCEPT !.at = "list"]
  /\ unpruned' = unpruned \cup {i \in Ids : results[i].status \in Final}
  /\ UNCHANGED <<present, keep, results, latest, nextId, clock, threads, proc,
                 handlers, aim, phase, todo, crashes>>

AdminGoesOn(at_, todo_, task_) ==
  admin' = IF at_ = "prune" /\ todo_ = {}
           THEN [at |-> "idle", todo |-> {}, task |-> NoTask]
           ELSE [at |-> at_, todo |-> todo_, task |-> task_]

ListTasks ==
  /\ admin.at = "list"
  /\ AdminGoesOn("prune", IF retention > 0 THEN present ELSE {}, NoTask)
  /\ UNCHANGED <<database, clock, threads, proc, handlers, aim, phase, todo, crashes, unpruned>>

AdminPruneCheck(t) ==
  /\ admin.at = "prune" /\ t \in admin.todo
  /\ IF retention > 0 THEN AdminGoesOn("delete", admin.todo \ {t}, t)
                      ELSE AdminGoesOn("prune", admin.todo \ {t}, NoTask)
  /\ UNCHANGED <<database, clock, threads, proc, handlers, aim, phase, todo, crashes, unpruned>>

AdminPruneDelete ==
  /\ admin.at = "delete"
  /\ results' = Without(Surplus(admin.task, retention))
  /\ unpruned' = unpruned \ RowsOf(admin.task)
  /\ AdminGoesOn("prune", admin.todo, NoTask)
  /\ UNCHANGED <<present, keep, latest, nextId, retention, clock, threads, proc,
                 handlers, aim, phase, todo, crashes>>

(* A query or a prune of the request raises: the tasks it has yet to come  *)
(* to are not pruned.                                                      *)
AdminFails ==
  /\ "dbfault" \in Ops
  /\ admin.at \in {"list", "delete"}
  /\ AdminGoesOn("prune", {}, NoTask)
  /\ UNCHANGED <<database, clock, threads, proc, handlers, aim, phase, todo, crashes, unpruned>>
-----------------------------------------------------------------------------
(* The server process.                                                     *)

(* A signal ends serve_forever; SchedulerEngine.stop fetches the running   *)
(* rows.  Threads go on until the process exits.                           *)
BeginStop ==
  /\ "shutdown" \in Ops /\ phase = "up"
  /\ phase' = "stopping"
  /\ todo' = TasksRunning
  /\ UNCHANGED <<database, clock, threads, proc, handlers, aim, admin, crashes, unpruned>>

(* All threads are daemons and go with the process; scripts do not.        *)
ProcessGone ==
  /\ phase' = "down"
  /\ todo' = {}
  /\ pc' = [r \in Runners |-> "idle"]
  /\ job' = [r \in Runners |-> NoTask]
  /\ row' = [r \in Runners |-> 0]
  /\ outcome' = [r \in Runners |-> "none"]
  /\ proc' = [i \in Ids |-> IF proc[i].state = "live" THEN proc[i] ELSE NoProc]
  /\ at' = [h \in Handlers |-> "idle"]
  /\ victim' = [h \in Handlers |-> NoTask]
  /\ aim' = [a \in Runners \cup Handlers |-> {}]
  /\ admin' = [at |-> "idle", todo |-> {}, task |-> NoTask]
  /\ unpruned' = unpruned \cup PrunedNext
  /\ UNCHANGED <<database, clock>>

Exit ==
  /\ phase = "stopping" /\ todo = {} /\ at["shutdown"] = "idle"
  /\ ProcessGone
  /\ UNCHANGED crashes

Crash ==
  /\ phase # "down" /\ crashes < MaxCrashes
  /\ crashes' = crashes + 1
  /\ ProcessGone

(* A slip: the rows that the last process left are not fetched.            *)
BootWithoutStale ==
  /\ phase = "down"
  /\ phase' = "recovering"
  /\ UNCHANGED <<database, clock, threads, proc, handlers, aim, todo, admin, crashes, unpruned>>

(* Database._setup prunes every task when a retention is set, and          *)
(* SchedulerEngine.start fetches the running rows; nothing else runs yet.  *)
Boot ==
  /\ phase = "down"
  /\ phase' = "recovering"
  /\ todo' = TasksRunning
  /\ results' = IF retention > 0 THEN Without(UNION {Surplus(t, retention) : t \in Tasks})
                                 ELSE results
  /\ unpruned' = IF retention > 0 THEN {} ELSE unpruned
  /\ UNCHANGED <<present, keep, latest, nextId, retention, clock, threads, proc,
                 handlers, aim, admin, crashes>>

Recover(t) ==
  /\ phase = "recovering" /\ t \in todo
  /\ CloseStale(t)
  /\ todo' = todo \ {t}
  /\ unpruned' = unpruned \cup RunningOf(t)
  /\ UNCHANGED <<present, keep, nextId, retention, clock, threads, proc, handlers,
                 aim, phase, admin, crashes>>

(* The engine's thread starts and serve_forever answers requests.          *)
Serve ==
  /\ phase = "recovering" /\ todo = {}
  /\ phase' = "up"
  /\ UNCHANGED <<database, clock, threads, proc, handlers, aim, todo, admin, crashes, unpruned>>
-----------------------------------------------------------------------------
RunnerStep(r) ==
  \/ RecordStart(r) \/ Spawn(r) \/ Reap(r) \/ TimeoutKill(r)
  \/ Finalize(r) \/ PruneCheck(r) \/ PruneDelete(r)

AdminStep == ListTasks \/ AdminPruneDelete \/ \E t \in Tasks : AdminPruneCheck(t)

HandlerStep(h) == Kill(h) \/ CloseStaleRows(h)

LifeStep ==
  \/ Boot \/ Serve \/ Exit
  \/ \E t \in Tasks : Recover(t) \/ ShutdownNext(t)

Next ==
  \/ \E r \in Runners :
       \/ \E t \in Tasks, status \in {"none"} \cup NoteStatuses : Launch(r, t, status)
       \/ RunnerStep(r) \/ Timeout(r) \/ FinalizeFails(r) \/ PruneFails(r)
  \/ \E h \in Handlers : HandlerStep(h)
  \/ \E t \in Tasks : StopRequest(t) \/ Enforce(t) \/ ClearResults(t)
                      \/ DeleteTask(t) \/ EditTask(t)
  \/ \E n \in Retentions : SetRetention(n)
  \/ AdminStep \/ AdminFails \/ BeginStop \/ LifeStep \/ Crash
  \/ \E i \in Ids : ScriptEnds(i)
  \/ Tick

Spec == Init /\ [][Next]_vars

(* Threads and handlers run on, a script that outlives its time limit is   *)
(* noticed, and a server that is down is started again.  Nothing is        *)
(* assumed of requests, of crashes or of scripts ending by themselves.     *)
Fairness ==
  /\ \A r \in Runners : WF_vars(RunnerStep(r)) /\ WF_vars(Timeout(r))
  /\ \A h \in Handlers : WF_vars(HandlerStep(h))
  /\ WF_vars(AdminStep)
  /\ WF_vars(LifeStep)

FairSpec == Spec /\ Fairness
-----------------------------------------------------------------------------
(* Properties.                                                             *)

Attending(r, i) == row[r] = i /\ pc[r] \in {"spawn", "exec", "timeout", "finalize"}

(* While the server answers, every row that says "running" has a thread    *)
(* that will close it, whatever was stopped, cleared, deleted or restarted *)
(* before: has_running_instance, which bars a task from running while such *)
(* a row exists, never bars it for good.  While it recovers, every such    *)
(* row belongs to a task it is about to close.                             *)
RunningIsAttended ==
  \A i \in Ids : results[i].status = "running" =>
    /\ Serving => \E r \in Runners : Attending(r, i)
    /\ phase = "recovering" => results[i].task \in todo

(* No two threads hold one row: a thread that comes late, after its row    *)
(* was closed or deleted and the task ran again, cannot close the row of   *)
(* the later run.                                                          *)
OneThreadPerRow ==
  \A q, r \in Runners : row[q] = row[r] /\ row[r] # 0 => q = r

(* The snapshot tasks.latest_*, from which dependencies and the task list  *)
(* are decided, never contradicts the record of the run it describes,      *)
(* though it is written by every method that opens or closes a row.        *)
LatestAgrees ==
  \A t \in Tasks :
    LET i == latest[t].run IN
    i # 0 => results[i].status \in {"absent", latest[t].status}

(* A snapshot that says "running" describes a row that is running, so it   *)
(* changes when that run ends (not so once records are cleared).           *)
LatestRunningIsLive ==
  \A t \in Tasks : latest[t].status = "running" => results[latest[t].run].status = "running"

(* No record outlives its task: a thread whose task is deleted between its *)
(* start and its first insert leaves nothing behind.                       *)
NoRowsWithoutTask ==
  \A i \in Ids : results[i].status # "absent" => results[i].task \in present

(* A record that has a final status keeps it, with its time, until it is   *)
(* deleted: the thread that ends after a stop, a shutdown or a restart has *)
(* closed its row does not write over that verdict.                        *)
FinalIsFinal ==
  [][\A i \in Ids : results[i].status \in Final =>
       results'[i] = results[i] \/ results'[i].status = "absent"]_vars

(* The retention is enforced: of the finished records of a task there are *)
(* never more than it allows, but for those that a thread has just closed  *)
(* and is about to prune, and those that no prune is bound to follow:      *)
(* their thread failed or died with the server, they were closed as stale, *)
(* or the setting was changed after them.  The next prune of the task that *)
(* succeeds, whoever makes it, settles those too.                          *)
Settled(t) == FinishedOf(t) \ (unpruned \cup PrunedNext)

RetentionKept ==
  retention > 0 => \A t \in Tasks : Cardinality(Settled(t)) <= retention

(* A prune never takes a record while it keeps an older one of the task:   *)
(* with two threads that prune a task at once, and finish times that were  *)
(* read before the lock, the records that stay are still the newest.       *)
PruneTakesOldest ==
  [][\A i, j \in Ids :
       /\ results[i].status \in Final /\ results'[i].status = "absent"
       /\ results[j].status \in Final /\ results'[j] = results[j]
       /\ results[i].task = results[j].task
       /\ \E r \in Runners : PruneDelete(r)
       => FinishedAfter(j, i)]_vars

(* What the settings page says of a retention of 0: no record is deleted   *)
(* by pruning while it is in force.                                        *)
UnlimitedKeepsAll ==
  [][retention = 0 /\ retention' = 0 /\ (\E r \in Runners : PruneDelete(r))
       => results' = results]_vars

(* What the log of a record closed by stop_task says, "no live process     *)
(* found": a run recorded as failed has no script that is alive.           *)
FailedHasNoScript ==
  \A i \in Ids : results[i].status = "failed" => proc[i].state # "live"

(* With a time limit for scripts, no row says "running" for ever: its      *)
(* thread ends, or the next start of the server closes it.                 *)
RunsEnd ==
  \A i \in Ids : results[i].status = "running" ~> results[i].status # "running"

(* Every thread that was started comes to its end.                         *)
ThreadsEnd == \A r \in Runners : pc[r] # "idle" ~> pc[r] = "idle"
-----------------------------------------------------------------------------
(* The inductive invariant behind the safety properties.                   *)

(* Rows beyond the counter were never inserted; a row has a task if it is  *)
(* there at all, and that task exists.                                     *)
TableInv ==
  \A i \in Ids :
    /\ results[i].status = "absent" \/ (results[i].task \in present /\ i < nextId)
    /\ results[i].status = "absent" => results[i].task = NoTask

(* A thread lives in a server that is up and has a task until it is over,  *)
(* a row from its first insert on, and a status when it closes the row.    *)
ThreadInv ==
  \A r \in Runners :
    /\ row[r] < nextId
    /\ row[r] = 0 <=> pc[r] \in {"idle", "launched"}
    /\ pc[r] # "idle" => job[r] \in Tasks /\ Serving
    /\ pc[r] = "finalize" => outcome[r] \in Final
    /\ row[r] # 0 /\ results[row[r]].status # "absent" => results[row[r]].task = job[r]

(* A snapshot describes a run of its own task.                             *)
SnapshotInv ==
  \A t \in Tasks :
    LET i == latest[t].run IN
    /\ i < nextId
    /\ i # 0 /\ results[i].status # "absent" => results[i].task = t

HandlerInv == \A h \in Handlers : at[h] # "idle" => victim[h] \in Tasks

(* Without failures of the database every part holds.                      *)
IndInv ==
  /\ TypeOK
  /\ TableInv
  /\ ThreadInv
  /\ OneThreadPerRow
  /\ SnapshotInv
  /\ HandlerInv
  /\ "dbfault" \notin Ops => RunningIsAttended /\ LatestAgrees
-----------------------------------------------------------------------------
(* The life of a result id is the one that ResultLedger promises: ids are  *)
(* handed out once and in order, a row is open until one verdict closes it *)
(* (the stale rows of a task all with the same one), the verdict stays, and*)
(* what is deleted does not come back, whichever thread does it and when.  *)
Entry ==
  [i \in Ids |-> IF results[i].status # "absent" THEN results[i].status
                 ELSE IF i < nextId THEN "gone" ELSE "free"]

Ledger == INSTANCE ResultLedger WITH
  Ids <- Ids, Verdicts <- Final, next <- nextId, entry <- Entry

LedgerSpec == Ledger!Spec
=============================================================================
