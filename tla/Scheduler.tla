------------------------------ MODULE Scheduler ------------------------------
(***************************************************************************)
(* What makes fn-scheduler start a run, from app/server/scheduler.py: the  *)
(* loop of SchedulerEngine over due tasks and conditions, the events of a  *)
(* start and a stop of the server, the requests that run, edit, clear and  *)
(* delete a task, and the column next_run_at that they all write.          *)
(*                                                                         *)
(* Each of them works on a copy of a task that it read earlier, asks the   *)
(* database some questions in sections of their own, and acts on the       *)
(* answers.  The loop, the main thread and the threads of requests are     *)
(* actors that go through the same steps; a step is one lock section.      *)
(*                                                                         *)
(* A run is taken as TaskRuns shows it to the scheduler: a thread that     *)
(* inserts a running record, and later closes it with a verdict.  Runs     *)
(* that a stop request or a time limit ends are runs that fail.            *)
(***************************************************************************)
EXTENDS Naturals, FiniteSets

CONSTANTS
  Tasks,        \* ids of the tasks
  NoTask,       \* no task
  Kind,         \* trigger_type, and event_type of event tasks
  Deps,         \* pre_task_ids
  Exprs,        \* schedule expressions
  NoExpr,       \* the schedule_expression of an event task
  ExprsOf,      \* the schedule expressions tried for each task
  SlotsOf,      \* the moments that each expression matches
  MinuteTicks,  \* ticks of the clock in a minute
  Lookahead,    \* MAX_LOOKAHEAD_MINUTES
  Interval,     \* condition_interval
  Runners,      \* slots for TaskRunner threads; a slot is reused
  Handlers,     \* threads of requests
  MaxTime,      \* bound: the clock
  MaxRequests,  \* bound: requests to run, edit, clear or delete a task
  MaxCrashes,   \* bound: kills of the server
  Ops           \* the requests this instance explores

Kinds == {"schedule", "script", "system_boot", "system_shutdown"}

ASSUME SchedulerConstants ==
  /\ NoTask \notin Tasks /\ NoExpr \notin Exprs
  /\ Kind \in [Tasks -> Kinds]
  /\ Deps \in [Tasks -> SUBSET Tasks]
  /\ \A t \in Tasks : ExprsOf[t] \subseteq IF Kind[t] = "schedule" THEN Exprs ELSE {NoExpr}
  /\ SlotsOf \in [Exprs -> SUBSET Nat]
  /\ MinuteTicks \in Nat \ {0} /\ Lookahead \in Nat /\ Interval \in Nat
  /\ MaxTime \in Nat /\ MaxRequests \in Nat /\ MaxCrashes \in Nat
  /\ {"loop", "main"} \cap Handlers = {}
  /\ Ops \subseteq {"run", "edit", "clear", "delete", "stop"}

(* pre_task_ids never holds the task itself.                               *)
ASSUME DepsOnOthers == \A t \in Tasks : t \notin Deps[t]

VARIABLES
  now,       \* time_now()
  task,      \* table tasks
  latest,    \* tasks.latest_status
  run,       \* the TaskRunner threads and their records
  act,       \* what each actor does next, for whom, and the moment it works with
  queue,     \* the copies of tasks that the loop and the main thread have fetched
  phase,     \* life of the server process
  started,   \* SchedulerEngine.started_at
  joins,     \* threads of shutdown events that stop() will join
  requests,  \* requests so far
  crashes,   \* kills so far
  ran,       \* history: <<t, s>> when the loop started task t for slot s
  again,     \* history: those it started once more
  restored,  \* history: those no earlier than a next_run_at that update_task wrote
  succeeded, \* history: tasks whose run was recorded as a success
  fresh,     \* history: those of them that were since this start
  owed       \* history: boot tasks this start has neither run nor recorded

table == <<task, latest>>
engine == <<act, queue, phase, started, joins>>
history == <<ran, again, restored, succeeded, fresh, owed>>
vars == <<now, table, run, engine, requests, crashes, history>>

Null == 0
Actors == {"loop", "main"} \cup Handlers
Final == {"success", "failed", "condition_failed", "pretask_failed"}
Whys == {"schedule", "condition", "manual", "system_boot", "system_shutdown"}

Row == [here : BOOLEAN, active : BOOLEAN, expr : Exprs \cup {NoExpr},
        next : Nat, checked : Nat]
Copy == [id : Tasks, row : Row]
NoCopy == [id |-> NoTask,
           row |-> [here |-> FALSE, active |-> FALSE, expr |-> NoExpr,
                    next |-> Null, checked |-> Null]]
NoRun == [task |-> NoTask, at |-> "idle", row |-> FALSE]
Resting == [pc |-> "idle", why |-> "manual", c |-> NoCopy, moment |-> 0]

Positions ==
  {"idle", "next", "running", "condition", "deps", "block", "advance", "putoff", "write",
   "join", "quit"}
Doing == [pc : Positions, why : Whys, c : Copy \cup {NoCopy}, moment : Nat]
Thread == [task : Tasks \cup {NoTask}, at : {"idle", "new", "running", "dead"}, row : BOOLEAN]

TypeOK ==
  /\ now \in Nat
  /\ task \in [Tasks -> Row]
  /\ latest \in [Tasks -> {"none", "running"} \cup Final]
  /\ run \in [Runners -> Thread]
  /\ act \in [Actors -> Doing]
  /\ queue \in [{"loop", "main"} -> SUBSET Copy]
  /\ phase \in {"down", "up", "stopping"}
  /\ started \in Nat
  /\ joins \subseteq Runners
  /\ requests \in 0..MaxRequests /\ crashes \in 0..MaxCrashes
  /\ ran \subseteq Tasks \X Nat /\ again \subseteq ran /\ restored \subseteq ran
  /\ succeeded \subseteq Tasks /\ fresh \subseteq Tasks /\ owed \subseteq Tasks
-----------------------------------------------------------------------------
(* CronExpression.next_after: the first matching minute after the minute   *)
(* of a moment; none if there is none within the lookahead.                *)
Least(S) == {s \in S : \A u \in S : s <= u}
MinutesAfter(moment) ==
  {(moment - (moment % MinuteTicks)) + k * MinuteTicks : k \in 1..Lookahead}

(* A slip: it tests the minute of the moment itself.                       *)
NextAfterInclusive(e, moment) ==
  Least((MinutesAfter(moment) \cup {moment - (moment % MinuteTicks)}) \cap SlotsOf[e])

NextAfter(e, moment) == Least(MinutesAfter(moment) \cap SlotsOf[e])

(* A task as create_task stores it.                                        *)
Created(e, next) ==
  [here |-> TRUE, active |-> TRUE, expr |-> e, next |-> next, checked |-> Null]

CreatedTasks(t) ==
  UNION {{Created(e, next) : next \in IF Kind[t] = "schedule" THEN NextAfter(e, 1) ELSE {Null}} :
           e \in ExprsOf[t]}

Init ==
  /\ now = 1
  /\ task \in [Tasks -> UNION {CreatedTasks(t) : t \in Tasks}]
  /\ \A t \in Tasks : task[t] \in CreatedTasks(t)
  /\ latest = [t \in Tasks |-> "none"]
  /\ run = [r \in Runners |-> NoRun]
  /\ act = [a \in Actors |-> Resting]
  /\ queue = [a \in {"loop", "main"} |-> {}]
  /\ phase = "down"
  /\ started = 0
  /\ joins = {}
  /\ requests = 0 /\ crashes = 0
  /\ ran = {} /\ again = {} /\ restored = {}
  /\ succeeded = {} /\ fresh = {} /\ owed = {}
-----------------------------------------------------------------------------
(* What the engine asks the database.                                      *)
CopyOf(t) == [id |-> t, row |-> task[t]]

Active(k) == {CopyOf(t) : t \in {u \in Tasks : /\ Kind[u] = k
                                               /\ task[u].here /\ task[u].active}}

DueTasks(moment) ==
  {c \in Active("schedule") : c.row.next # Null /\ c.row.next <= moment}

HasRunning(t) ==
  \E r \in Runners : run[r].task = t /\ run[r].at \in {"running", "dead"} /\ run[r].row

(* A slip: only a failed dependency blocks, not one without a result.      *)
DependenciesNotFailed(t) == \A d \in Deps[t] : task[d].here /\ latest[d] # "failed"

DependenciesMet(t) == \A d \in Deps[t] : task[d].here /\ latest[d] = "success"

(* The task the actor works on, and where it goes: on to another step, to  *)
(* the next task of its pass, or out of the pass when a call has raised.   *)
Working(a) == act[a].c.id
Between == {"idle", "next", "join", "quit"}
Goes(a, pc) == act' = [act EXCEPT ![a].pc = pc,
                                  ![a].c = IF pc \in Between THEN NoCopy ELSE @]
Done(a) == IF a \in Handlers THEN "idle" ELSE "next"
Raised(a) == IF a = "main" THEN "quit" ELSE "idle"

Drop(a) ==
  IF a \in Handlers THEN UNCHANGED queue ELSE queue' = [queue EXCEPT ![a] = {}]

At(a, pc) == phase # "down" /\ act[a].pc = pc
-----------------------------------------------------------------------------
(* Time, and the life of TaskRunner threads.                               *)
Tick ==
  /\ now < MaxTime
  /\ now' = now + 1
  /\ UNCHANGED <<table, run, engine, requests, crashes, history>>

(* A slip: the thread of a task that is gone does not end.                 *)
RecordStartHangs(r) ==
  LET t == run[r].task IN
  /\ run[r].at = "new" /\ task[t].here
  /\ run' = [run EXCEPT ![r].at = "running", ![r].row = TRUE]
  /\ latest' = [latest EXCEPT ![t] = "running"]
  /\ UNCHANGED <<now, task, engine, requests, crashes, history>>

(* record_result_start; it raises when the task is gone.                   *)
RecordStart(r) ==
  LET t == run[r].task IN
  /\ run[r].at = "new"
  /\ IF task[t].here
     THEN /\ run' = [run EXCEPT ![r].at = "running", ![r].row = TRUE]
          /\ latest' = [latest EXCEPT ![t] = "running"]
     ELSE run' = [run EXCEPT ![r] = NoRun] /\ UNCHANGED latest
  /\ UNCHANGED <<now, task, engine, requests, crashes, history>>

(* The script ends, by itself or not, and finalize_result closes the       *)
(* record unless it is gone or closed.                                     *)
RunEnds(r) ==
  LET t == run[r].task IN
  /\ run[r].at = "running"
  /\ \E status \in {"success", "failed"} :
       IF run[r].row
       THEN /\ latest' = [latest EXCEPT ![t] = status]
            /\ succeeded' = IF status = "success" THEN succeeded \cup {t} ELSE succeeded
            /\ fresh' = IF status = "success" THEN fresh \cup {t} ELSE fresh
       ELSE UNCHANGED <<latest, succeeded, fresh>>
  /\ run' = [run EXCEPT ![r] = NoRun]
  /\ UNCHANGED <<now, task, engine, requests, crashes, ran, again, restored, owed>>
-----------------------------------------------------------------------------
(* The passes of the loop: due tasks, conditions, and the time limits that *)
(* TaskRuns has.                                                           *)
LoopBegin ==
  /\ phase = "up" /\ act["loop"].pc = "idle"
  /\ DueTasks(now) # {} \/ Active("script") # {}
  /\ act' = [act EXCEPT !["loop"] = [Resting EXCEPT !.pc = "next", !.why = "schedule",
                                                    !.moment = now]]
  /\ queue' = [queue EXCEPT !["loop"] = DueTasks(now)]
  /\ UNCHANGED <<now, table, run, phase, started, joins, requests, crashes, history>>

FetchEvents ==
  /\ At("loop", "next") /\ act["loop"].why = "schedule" /\ queue["loop"] = {}
  /\ act' = [act EXCEPT !["loop"].why = "condition"]
  /\ queue' = [queue EXCEPT !["loop"] = Active("script")]
  /\ UNCHANGED <<now, table, run, phase, started, joins, requests, crashes, history>>

LoopEnds ==
  /\ At("loop", "next") /\ act["loop"].why = "condition" /\ queue["loop"] = {}
  /\ Goes("loop", "idle")
  /\ UNCHANGED <<now, table, run, queue, phase, started, joins, requests, crashes, history>>

(* The copy with the earliest next_run_at; the order of others is open.    *)
Taken(a, c) ==
  /\ c \in queue[a]
  /\ \A d \in queue[a] : c.row.next <= d.row.next
  /\ queue' = [queue EXCEPT ![a] = @ \ {c}]

(* schedule_next_run, for a task that may be gone.                         *)
SetNext(t, next) == task' = IF task[t].here THEN [task EXCEPT ![t].next = next] ELSE task

(* A slot from before the start of the server is not run: the task goes to *)
(* the next slot after the start.                                          *)
SkipExpired(c) ==
  LET slots == NextAfter(c.row.expr, started) IN
  /\ At("loop", "next") /\ act["loop"].why = "schedule"
  /\ Taken("loop", c)
  /\ c.row.next < started
  /\ \/ slots = {} /\ UNCHANGED task
     \/ \E next \in slots : SetNext(c.id, next)
  /\ UNCHANGED <<now, latest, run, act, phase, started, joins, requests, crashes, history>>

(* A task that is still running is passed over, and stays due.             *)
UnlessRunning(a, c) ==
  IF HasRunning(c.id) THEN UNCHANGED act
  ELSE act' = [act EXCEPT ![a].pc = "deps", ![a].c = c]

(* A slip: slots from before the start are run.                            *)
TakeDueExpired(c) ==
  /\ At("loop", "next") /\ act["loop"].why = "schedule"
  /\ Taken("loop", c)
  /\ UnlessRunning("loop", c)
  /\ UNCHANGED <<now, table, run, phase, started, joins, requests, crashes, history>>

(* A due task is taken up unless its slot is from before the start.        *)
TakeDue(c) ==
  /\ At("loop", "next") /\ act["loop"].why = "schedule"
  /\ Taken("loop", c)
  /\ c.row.next >= started
  /\ UnlessRunning("loop", c)
  /\ UNCHANGED <<now, table, run, phase, started, joins, requests, crashes, history>>

(* update_condition_check, when the interval has passed.                   *)
TakeCondition(c) ==
  /\ At("loop", "next") /\ act["loop"].why = "condition"
  /\ Taken("loop", c)
  /\ IF c.row.checked # Null /\ act["loop"].moment < c.row.checked + Interval
     THEN UNCHANGED <<task, act>>
     ELSE /\ act' = [act EXCEPT !["loop"].pc = "condition", !["loop"].c = c]
          /\ task' = IF task[c.id].here THEN [task EXCEPT ![c.id].checked = now] ELSE task
  /\ UNCHANGED <<now, latest, run, phase, started, joins, requests, crashes, history>>
-----------------------------------------------------------------------------
(* has_running_instance, the condition and the dependencies, as they are   *)
(* asked for a task before it may run.                                     *)
CheckRunning(a) ==
  /\ At(a, "running")
  /\ Goes(a, IF HasRunning(Working(a)) THEN Done(a)
             ELSE IF act[a].why = "manual" /\ Kind[Working(a)] = "script" THEN "condition"
             ELSE "deps")
  /\ UNCHANGED <<now, table, run, queue, phase, started, joins, requests, crashes, history>>

(* _run_condition: matched; not matched, which is recorded; or a script    *)
(* that fails to run or exceeds its time, which is not.  An account that   *)
(* does not exist raises, which ends the pass of the loop.                 *)
ConditionMatches(a) ==
  /\ At(a, "condition")
  /\ Goes(a, IF a = "loop" THEN "running" ELSE "deps")
  /\ UNCHANGED <<now, table, run, queue, phase, started, joins, requests, crashes, history>>

ConditionErrs(a) ==
  /\ At(a, "condition")
  /\ Goes(a, Done(a))
  /\ UNCHANGED <<now, table, run, queue, phase, started, joins, requests, crashes, history>>

AccountGone(a) ==
  /\ At(a, "condition")
  /\ Goes(a, Raised(a)) /\ Drop(a)
  /\ UNCHANGED <<now, table, run, phase, started, joins, requests, crashes, history>>

(* record_finished_result inserts and closes a record; it raises when the  *)
(* task is gone, which ends the pass of the loop.                          *)
Recorded(a, status, pc) ==
  IF task[Working(a)].here
  THEN /\ latest' = [latest EXCEPT ![Working(a)] = status]
       /\ Goes(a, pc)
       /\ UNCHANGED queue
  ELSE Goes(a, Raised(a)) /\ Drop(a) /\ UNCHANGED latest

ConditionMisses(a) ==
  /\ At(a, "condition")
  /\ Recorded(a, "condition_failed", Done(a))
  /\ UNCHANGED <<now, task, run, phase, started, joins, requests, crashes, history>>

CheckDeps(a) ==
  /\ At(a, "deps") /\ ~ DependenciesMet(Working(a))
  /\ Goes(a, "block")
  /\ UNCHANGED <<now, table, run, queue, phase, started, joins, requests, crashes, history>>

(* A slip: a blocked task stays due.                                       *)
RecordBlockStays(a) ==
  LET t == Working(a) IN
  /\ At(a, "block")
  /\ \/ /\ DependenciesMet(t)
        /\ Goes(a, Done(a))
        /\ UNCHANGED <<queue, latest, owed>>
     \/ /\ ~ DependenciesMet(t)
        /\ Recorded(a, "pretask_failed", Done(a))
        /\ owed' = IF a = "main" /\ task[t].here THEN owed \ {t} ELSE owed
  /\ UNCHANGED <<now, task, run, phase, started, joins, requests, crashes,
                 ran, again, restored, succeeded, fresh>>

(* _record_dependency_block asks for the reasons again.  If there are any  *)
(* it records them; if they are gone, the task is neither started nor      *)
(* recorded.  The loop gives up the slot in both cases.                    *)
RecordBlock(a) ==
  LET t == Working(a)
      pc == IF act[a].why = "schedule" THEN "putoff" ELSE Done(a)
  IN
  /\ At(a, "block")
  /\ \/ /\ DependenciesMet(t)
        /\ Goes(a, pc)
        /\ UNCHANGED <<queue, latest, owed>>
     \/ /\ ~ DependenciesMet(t)
        /\ Recorded(a, "pretask_failed", pc)
        /\ owed' = IF a = "main" /\ task[t].here THEN owed \ {t} ELSE owed
  /\ UNCHANGED <<now, task, run, phase, started, joins, requests, crashes,
                 ran, again, restored, succeeded, fresh>>

(* The dependencies are met: TaskRunner(...).start(), and the history of   *)
(* slots and boot events.                                                  *)
Start(a, r) ==
  LET t == Working(a)
      fired == IF act[a].why = "schedule" THEN {<<t, act[a].c.row.next>>} ELSE {}
  IN
  /\ At(a, "deps") /\ DependenciesMet(t) /\ run[r].at = "idle"
  /\ run' = [run EXCEPT ![r] = [task |-> t, at |-> "new", row |-> FALSE]]
  /\ Goes(a, IF Kind[t] = "schedule" THEN "advance" ELSE Done(a))
  /\ joins' = IF act[a].why = "system_shutdown" THEN joins \cup {r} ELSE joins
  /\ ran' = ran \cup fired
  /\ again' = again \cup (fired \cap ran)
  /\ owed' = IF a = "main" THEN owed \ {t} ELSE owed
  /\ UNCHANGED <<now, table, queue, phase, started, requests, crashes,
                 restored, succeeded, fresh>>

(* schedule_next_run: after a start from the moment of the pass or, for a  *)
(* request, from now; after a block from a minute later.  It raises when   *)
(* there is no slot within the lookahead.                                  *)
Advance(a) ==
  LET base == CASE act[a].pc = "putoff" -> act[a].moment + MinuteTicks
                [] act[a].pc = "advance" /\ a = "loop" -> act[a].moment
                [] act[a].pc = "advance" /\ a # "loop" -> now
      slots == NextAfter(act[a].c.row.expr, base)
  IN
  /\ At(a, "advance") \/ At(a, "putoff")
  /\ \/ slots = {} /\ Goes(a, Raised(a)) /\ Drop(a) /\ UNCHANGED task
     \/ \E next \in slots :
          SetNext(Working(a), next) /\ Goes(a, Done(a)) /\ UNCHANGED queue
  /\ UNCHANGED <<now, latest, run, phase, started, joins, requests, crashes, history>>
-----------------------------------------------------------------------------
(* Requests: the server takes them once start() has returned, and those it *)
(* has taken go on during stop().                                          *)
Asked(op) ==
  /\ \/ phase = "up" /\ act["main"].pc = "idle"
     \/ phase = "stopping"
  /\ op \in Ops /\ requests < MaxRequests
  /\ requests' = requests + 1

(* run_task, which first reads the task.                                   *)
RunTask(h, t) ==
  /\ Asked("run")
  /\ act[h].pc = "idle" /\ task[t].here
  /\ act' = [act EXCEPT ![h] = [Resting EXCEPT !.pc = "running", !.c = CopyOf(t)]]
  /\ UNCHANGED <<now, table, run, queue, phase, started, joins, crashes, history>>

(* update_task computes the whole row from the row it has read: a changed  *)
(* expression and a task that becomes active get a new next_run_at, a      *)
(* changed condition and an event that becomes active a new interval.      *)
Edits(t, active, expr, condition) ==
  LET old == task[t]
      reactivated == active /\ ~ old.active
      slots == IF Kind[t] = "schedule" /\ (reactivated \/ expr # old.expr)
               THEN NextAfter(expr, now) ELSE {old.next}
      checked == IF Kind[t] = "script" /\ (reactivated \/ condition)
                 THEN Null ELSE old.checked
  IN {[here |-> TRUE, active |-> active, expr |-> expr, next |-> next, checked |-> checked] :
        next \in slots}

(* It raises when the new expression has no slot within the lookahead.     *)
UpdateTask(h, t) ==
  /\ Asked("edit")
  /\ act[h].pc = "idle" /\ task[t].here
  /\ \E active, condition \in BOOLEAN, expr \in ExprsOf[t] :
     \E row \in Edits(t, active, expr, condition) :
       /\ Kind[t] # "script" => ~ condition
       /\ act' = [act EXCEPT ![h] = [Resting EXCEPT !.pc = "write", !.c = [id |-> t, row |-> row]]]
  /\ UNCHANGED <<now, table, run, queue, phase, started, joins, crashes, history>>

(* A slip: the NULL that asks for a new next_run_at reaches the table.     *)
WriteTaskUnprepared(h) ==
  LET c == act[h].c
      next == IF c.row.expr # task[c.id].expr THEN Null ELSE c.row.next
  IN
  /\ At(h, "write") /\ task[c.id].here
  /\ task' = [task EXCEPT ![c.id] = [c.row EXCEPT !.next = next]]
  /\ Goes(h, "idle")
  /\ UNCHANGED <<now, latest, run, queue, phase, started, joins, requests, crashes, history>>

(* and writes all of it back.                                              *)
WriteTask(h) ==
  LET c == act[h].c IN
  /\ At(h, "write")
  /\ IF task[c.id].here
     THEN /\ task' = [task EXCEPT ![c.id] = c.row]
          /\ restored' = restored \cup {p \in ran : p[1] = c.id /\ p[2] >= c.row.next}
     ELSE UNCHANGED <<task, restored>>
  /\ Goes(h, "idle")
  /\ UNCHANGED <<now, latest, run, queue, phase, started, joins, requests, crashes,
                 ran, again, succeeded, fresh, owed>>

Forgotten(t) == [r \in Runners |-> IF run[r].task = t THEN [run[r] EXCEPT !.row = FALSE]
                                   ELSE run[r]]

(* delete_results clears the records, and leaves the snapshot as it is.    *)
ClearResults(t) ==
  /\ Asked("clear")
  /\ run' = Forgotten(t)
  /\ UNCHANGED <<now, table, engine, crashes, history>>

DeleteTask(t) ==
  /\ Asked("delete") /\ task[t].here
  /\ task' = [task EXCEPT ![t].here = FALSE]
  /\ run' = Forgotten(t)
  /\ UNCHANGED <<now, latest, engine, crashes, history>>
-----------------------------------------------------------------------------
(* SchedulerEngine.start and .stop, and the end of the process.            *)
Interrupted(t) == \E r \in Runners : run[r].task = t /\ run[r].at # "idle" /\ run[r].row

(* A slip of start(): records that say running stay as they are.           *)
BootKeepsRows ==
  /\ phase = "down" /\ now > act["loop"].moment
  /\ phase' = "up" /\ started' = now
  /\ act' = [a \in Actors |-> IF a = "main"
                              THEN [Resting EXCEPT !.pc = "next", !.why = "system_boot"]
                              ELSE Resting]
  /\ queue' = [a \in {"loop", "main"} |-> IF a = "main" THEN Active("system_boot") ELSE {}]
  /\ owed' = {c.id : c \in Active("system_boot")}
  /\ fresh' = {}
  /\ UNCHANGED <<now, table, run, joins, requests, crashes, ran, again, restored, succeeded>>

(* Records that still say running are closed, the loop starts, and boot    *)
(* events are fetched; a start takes place after the moments of the past.  *)
Boot ==
  /\ phase = "down" /\ now > act["loop"].moment
  /\ phase' = "up" /\ started' = now
  /\ latest' = [t \in Tasks |-> IF Interrupted(t) THEN "failed" ELSE latest[t]]
  /\ run' = [r \in Runners |-> NoRun]
  /\ act' = [a \in Actors |-> IF a = "main"
                              THEN [Resting EXCEPT !.pc = "next", !.why = "system_boot"]
                              ELSE Resting]
  /\ queue' = [a \in {"loop", "main"} |-> IF a = "main" THEN Active("system_boot") ELSE {}]
  /\ owed' = {c.id : c \in Active("system_boot")}
  /\ fresh' = {}
  /\ UNCHANGED <<now, task, joins, requests, crashes, ran, again, restored, succeeded>>

TakeEvent(c) ==
  /\ At("main", "next")
  /\ Taken("main", c)
  /\ UnlessRunning("main", c)
  /\ UNCHANGED <<now, table, run, phase, started, joins, requests, crashes, history>>

(* After boot events the requests are served, after shutdown events their  *)
(* threads are joined.                                                     *)
EventsEnd ==
  /\ At("main", "next") /\ queue["main"] = {}
  /\ Goes("main", IF act["main"].why = "system_boot" THEN "idle" ELSE "join")
  /\ UNCHANGED <<now, table, run, queue, phase, started, joins, requests, crashes, history>>

(* stop(): no further pass of the loop, the runs are ended and their       *)
(* records closed, and shutdown events are fetched.                        *)
Stop ==
  /\ "stop" \in Ops
  /\ phase = "up" /\ act["main"].pc = "idle"
  /\ phase' = "stopping"
  /\ latest' = [t \in Tasks |-> IF Interrupted(t) THEN "failed" ELSE latest[t]]
  /\ run' = [r \in Runners |-> [run[r] EXCEPT !.row = FALSE]]
  /\ act' = [act EXCEPT !["main"] = [Resting EXCEPT !.pc = "next",
                                                    !.why = "system_shutdown"]]
  /\ queue' = [queue EXCEPT !["main"] = Active("system_shutdown")]
  /\ UNCHANGED <<now, task, started, joins, requests, crashes, history>>

(* The threads of a process that is gone leave their records.              *)
ProcessGone ==
  /\ phase' = "down"
  /\ run' = [r \in Runners |-> IF run[r].row THEN [run[r] EXCEPT !.at = "dead"] ELSE NoRun]
  /\ act' = [a \in Actors |-> [Resting EXCEPT !.moment = act[a].moment]]
  /\ queue' = [a \in {"loop", "main"} |-> {}]
  /\ joins' = {}
  /\ UNCHANGED <<now, table, started, requests, history>>

(* stop() joins the shutdown threads and, for five seconds, the loop,      *)
(* unless it has raised.                                                   *)
Exit ==
  /\ \/ At("main", "join") /\ \A r \in joins : run[r].at = "idle"
     \/ At("main", "quit")
  /\ ProcessGone
  /\ UNCHANGED crashes

Crash ==
  /\ phase # "down" /\ crashes < MaxCrashes
  /\ crashes' = crashes + 1
  /\ ProcessGone
-----------------------------------------------------------------------------
ConditionEnds(a) ==
  ConditionMatches(a) \/ ConditionErrs(a) \/ AccountGone(a) \/ ConditionMisses(a)

Steps(a) ==
  \/ CheckRunning(a) \/ ConditionEnds(a) \/ CheckDeps(a) \/ RecordBlock(a)
  \/ Advance(a)
  \/ \E r \in Runners : Start(a, r)

LoopStep ==
  \/ LoopBegin \/ FetchEvents \/ LoopEnds \/ Steps("loop")
  \/ \E c \in queue["loop"] : SkipExpired(c) \/ TakeDue(c) \/ TakeCondition(c)

MainStep == EventsEnd \/ Exit \/ Steps("main") \/ \E c \in queue["main"] : TakeEvent(c)

HandlerStep(h) == WriteTask(h) \/ Steps(h)

RunnerStep(r) == RecordStart(r) \/ RunEnds(r)

Request ==
  \E t \in Tasks : \/ ClearResults(t) \/ DeleteTask(t)
                   \/ \E h \in Handlers : RunTask(h, t) \/ UpdateTask(h, t)

Next ==
  \/ Tick \/ Boot \/ Stop \/ Crash \/ Request
  \/ LoopStep \/ MainStep
  \/ \E h \in Handlers : HandlerStep(h)
  \/ \E r \in Runners : RunnerStep(r)

Spec == Init /\ [][Next]_vars

(* Every thread goes on; scripts end, as they have a time limit.           *)
Fairness ==
  /\ WF_vars(LoopStep) /\ WF_vars(MainStep)
  /\ \A h \in Handlers : WF_vars(HandlerStep(h))
  /\ \A r \in Runners : WF_vars(RunnerStep(r))

FairSpec == Spec /\ Fairness
-----------------------------------------------------------------------------
(* Every schedule task has a next_run_at: without one it would never run.  *)
ScheduleTasksHaveNext ==
  \A t \in Tasks : task[t].here /\ Kind[t] = "schedule" => task[t].next # Null

Inv == TypeOK /\ ScheduleTasksHaveNext

(* The loop starts a task once for a slot, through restarts between the    *)
(* start of a run and schedule_next_run, late passes and requests to run   *)
(* the task: it may start it again only after update_task, which writes    *)
(* every column back, has set next_run_at back to what it once read.       *)
SlotOnce == again \subseteq restored

(* The argument for SlotOnce: a slot that was started and not brought back *)
(* is behind the task's next_run_at, or behind the start of the server, or *)
(* the loop is about to move next_run_at on; and so are the copies that    *)
(* the loop has fetched.                                                   *)
LoopBusy == act["loop"].pc # "idle"
OnSchedule == LoopBusy /\ act["loop"].why = "schedule"
Before(t, next) ==
  \A p \in ran \ restored : p[1] = t => p[2] < next \/ p[2] < started

LoopClock ==
  /\ act["loop"].moment <= now /\ started <= now
  /\ LoopBusy => started <= act["loop"].moment
  /\ \A p \in ran : p[2] <= act["loop"].moment \/ p[2] < started

TableInv ==
  phase # "down" => \A t \in Tasks :
    \/ Before(t, task[t].next) \/ ~ task[t].here
    \/ act["loop"].pc = "advance" /\ OnSchedule /\ act["loop"].c.id = t

QueueInv ==
  /\ \A c, d \in queue["loop"] : c.id = d.id => c = d
  /\ OnSchedule => \A c \in queue["loop"] :
       /\ Kind[c.id] = "schedule" /\ c.row.next <= act["loop"].moment
       /\ c.id # act["loop"].c.id
       /\ Before(c.id, c.row.next)

TakenInv ==
  /\ phase = "down" => ~ LoopBusy
  /\ act["loop"].pc \in {"deps", "block", "advance"} /\ OnSchedule =>
       LET c == act["loop"].c IN
       /\ c \in Copy /\ Kind[c.id] = "schedule"
       /\ act["loop"].pc # "advance" => /\ started <= c.row.next
                                        /\ c.row.next <= act["loop"].moment
                                        /\ Before(c.id, c.row.next)

(* Only the loop works for the schedule, and it asks for a running         *)
(* instance in a step of its own only for a condition.                     *)
WhyInv ==
  /\ \A a \in Actors \ {"loop"} : act[a].why # "schedule" /\ act[a].pc # "putoff"
  /\ act["loop"].pc \in {"running", "condition"} => act["loop"].why = "condition"

ExprInv ==
  /\ \A t \in Tasks : task[t].expr \in ExprsOf[t]
  /\ \A a \in Actors : act[a].c # NoCopy => act[a].c.row.expr \in ExprsOf[act[a].c.id]
  /\ \A c \in queue["loop"] \cup queue["main"] : c.row.expr \in ExprsOf[c.id]

SlotInv ==
  LoopClock /\ TableInv /\ QueueInv /\ TakenInv /\ WhyInv /\ ExprInv /\ SlotOnce

(* With every expression, next_after finds a slot within the lookahead.    *)
NoDeadEnds == \A e \in Exprs, moment \in Nat : NextAfter(e, moment) # {}

(* A task runs only when each of its pre_task_ids has succeeded at some    *)
(* time, whoever starts it.                                                *)
PrereqsCameFirst ==
  \A r \in Runners :
    run[r].at \in {"new", "running"} => Deps[run[r].task] \subseteq succeeded

(* The argument for it: a success in the snapshot is a success that was.   *)
PrereqInv ==
  /\ \A t \in Tasks : latest[t] = "success" => t \in succeeded
  /\ PrereqsCameFirst

(* By the time requests are served, every boot event has been started or   *)
(* its block recorded, whatever the life before left behind, except where  *)
(* a task that it depends on has succeeded while start() was under way:    *)
(* between the two times that the reasons of its block are read.           *)
BootEventsFire ==
  phase = "up" /\ act["main"].pc = "idle" => \A t \in owed : Deps[t] \cap fresh # {}

(* "System boot and shutdown events trigger once each when the service     *)
(* starts or stops" (app/www/app.js:67): by then, each boot event has at   *)
(* least been started or recorded as blocked.                              *)
BootEventsTrigger == phase = "up" /\ act["main"].pc = "idle" => owed = {}

Due(t, s) ==
  /\ phase = "up"
  /\ task[t].here /\ task[t].active
  /\ task[t].next = s /\ s <= now

Slots == UNION {SlotsOf[e] : e \in Exprs} \cap 1..MaxTime

(* A due slot does not stay due while the server is up: whether the task   *)
(* runs, is blocked, was due before the start or still runs from another   *)
(* start, and whatever conditions and deletions do to the pass that has    *)
(* fetched it, the slot is run or given up for a later one.                *)
DueServed ==
  \A t \in {u \in Tasks : Kind[u] = "schedule"}, s \in Slots : Due(t, s) ~> ~ Due(t, s)

(* A stop ends the process, whatever shutdown events do.                   *)
StopEnds == phase = "stopping" ~> phase = "down"

(* "If the cron expression has changed, next_run_at is computed anew"      *)
(* (scheduler.py:1058): next_run_at is a slot of the task's expression.    *)
NextIsSlot ==
  \A t \in Tasks :
    task[t].here /\ Kind[t] = "schedule" => task[t].next \in SlotsOf[task[t].expr]
=============================================================================
