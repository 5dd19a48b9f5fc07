--------------------------- MODULE SchedulerProofs ---------------------------
(***************************************************************************)
(* What holds of Scheduler for every set of tasks, dependencies and        *)
(* expressions, for any number of threads and requests.                    *)
(***************************************************************************)
EXTENDS Scheduler, TLAPS

(* next_after answers only later moments.                                  *)
LEMMA NextIsLater ==
  ASSUME NEW e, NEW moment \in Nat
  PROVE  \A next \in NextAfter(e, moment) : next \in Nat /\ moment < next
<1>1. /\ moment - (moment % MinuteTicks) \in Nat
      /\ moment < (moment - (moment % MinuteTicks)) + MinuteTicks
  BY SchedulerConstants
<1>2. \A k \in 1..Lookahead : k * MinuteTicks \in Nat /\ k * MinuteTicks >= MinuteTicks
  BY SchedulerConstants, SMT
<1>3. \A next \in MinutesAfter(moment) : next \in Nat /\ moment < next
  BY <1>1, <1>2, SchedulerConstants DEF MinutesAfter
<1> QED BY <1>3 DEF NextAfter, Least

LEMMA CopiesAreTyped ==
  ASSUME TypeOK
  PROVE  /\ \A t \in Tasks : CopyOf(t) \in Copy
         /\ \A k : Active(k) \subseteq Copy
BY DEF TypeOK, CopyOf, Active, Copy

LEMMA EditsAreTyped ==
  ASSUME TypeOK, NEW t \in Tasks, NEW active \in BOOLEAN, NEW condition \in BOOLEAN,
         NEW expr \in ExprsOf[t]
  PROVE  Edits(t, active, expr, condition) \subseteq Row
<1>1. expr \in Exprs \cup {NoExpr}
  BY SchedulerConstants
<1>2. task[t] \in Row /\ now \in Nat
  BY DEF TypeOK
<1>3. \A next \in NextAfter(expr, now) : next \in Nat
  BY <1>2, NextIsLater
<1>4. task[t].next \in Nat /\ task[t].checked \in Nat
  BY <1>2 DEF Row
<1>5. ASSUME NEW slots, \A next \in slots : next \in Nat,
             NEW checked \in Nat, NEW next \in slots
      PROVE  [here |-> TRUE, active |-> active, expr |-> expr, next |-> next,
              checked |-> checked] \in Row
  BY <1>1, <1>5 DEF Row
<1>6. CASE Kind[t] = "schedule"
  BY <1>3, <1>4, <1>5, <1>6 DEF Edits, Null
<1>7. CASE Kind[t] # "schedule"
  BY <1>3, <1>4, <1>5, <1>7 DEF Edits, Null
<1> QED BY <1>6, <1>7

LEMMA InitTyped == Init => TypeOK
<1> SUFFICES ASSUME Init PROVE TypeOK
  OBVIOUS
<1>1. task \in [Tasks -> Row]
  <2>1. \A t \in Tasks : CreatedTasks(t) \subseteq Row
    <3> SUFFICES ASSUME NEW t \in Tasks, NEW e \in ExprsOf[t],
                        NEW next \in IF Kind[t] = "schedule" THEN NextAfter(e, 1) ELSE {Null}
                 PROVE  Created(e, next) \in Row
      BY DEF CreatedTasks
    <3>1. e \in Exprs \cup {NoExpr} BY SchedulerConstants
    <3>2. next \in Nat BY NextIsLater DEF Null
    <3> QED BY <3>1, <3>2 DEF Created, Row, Null
  <2> QED BY <2>1 DEF Init
<1>2. Resting \in Doing
  BY DEF Resting, Doing, Positions, Whys
<1> QED BY <1>1, <1>2, SchedulerConstants DEF Init, TypeOK, NoRun, Thread

(* What an actor goes to is typed.                                         *)
LEMMA GoesTyped ==
  ASSUME TypeOK, NEW a \in Actors, NEW pc \in Positions, Goes(a, pc)
  PROVE  act' \in [Actors -> Doing]
BY DEF TypeOK, Goes, Doing

LEMMA SetNextTyped ==
  ASSUME TypeOK, NEW t \in Tasks, NEW next \in Nat, SetNext(t, next)
  PROVE  task' \in [Tasks -> Row]
BY DEF TypeOK, SetNext, Row

LEMMA DropTyped ==
  ASSUME TypeOK, NEW a \in Actors, Drop(a)
  PROVE  queue' \in [{"loop", "main"} -> SUBSET Copy]
BY DEF TypeOK, Drop

LEMMA TakenTyped ==
  ASSUME TypeOK, NEW a \in {"loop", "main"}, NEW c, Taken(a, c)
  PROVE  /\ c \in Copy /\ c.id \in Tasks /\ c.row \in Row
         /\ queue' \in [{"loop", "main"} -> SUBSET Copy]
BY DEF TypeOK, Taken, Copy

(* An actor that is at work has a task.                                    *)
Busy == Positions \ Between
WorkHasTask == \A a \in Actors : act[a].pc \in Busy => act[a].c \in Copy

(* and so has a thread that runs.                                          *)
RunHasTask ==
  \A r \in Runners : /\ run[r].at # "idle" => run[r].task \in Tasks
                     /\ run[r].row => run[r].at # "idle"

LEMMA InitWork == Init => WorkHasTask /\ RunHasTask
BY DEF Init, WorkHasTask, RunHasTask, NoRun, Busy, Between, Resting

Typed == TypeOK /\ WorkHasTask /\ RunHasTask

LEMMA GoesWork ==
  ASSUME Typed, NEW a \in Actors, NEW pc \in Positions, Goes(a, pc),
         act[a].pc \in Busy \/ pc \in Between
  PROVE  WorkHasTask'
<1> SUFFICES ASSUME NEW b \in Actors, act'[b].pc \in Busy PROVE act'[b].c \in Copy
  BY DEF WorkHasTask
<1>1. CASE b = a
  BY <1>1 DEF Typed, TypeOK, WorkHasTask, Goes, Busy, Doing
<1>2. CASE b # a
  BY <1>2 DEF Typed, TypeOK, WorkHasTask, Goes
<1> QED BY <1>1, <1>2

(* The actors rest, except those that start to read a queue.               *)
LEMMA RestWork ==
  ASSUME Typed, NEW a \in Actors, NEW d \in Doing, act' = [act EXCEPT ![a] = d],
         d.pc \in Busy => d.c \in Copy
  PROVE  act' \in [Actors -> Doing] /\ WorkHasTask'
BY DEF Typed, TypeOK, WorkHasTask

LEMMA RecordedTyped ==
  ASSUME Typed, NEW a \in Actors, NEW status \in Final, NEW pc \in Positions,
         act[a].pc \in Busy, Recorded(a, status, pc)
  PROVE  /\ act' \in [Actors -> Doing] /\ WorkHasTask'
         /\ latest' \in [Tasks -> {"none", "running"} \cup Final]
         /\ queue' \in [{"loop", "main"} -> SUBSET Copy]
<1>1. Raised(a) \in Positions /\ Raised(a) \in Between
  BY DEF Raised, Positions, Between
<1>2. CASE task[Working(a)].here
  <2>1. Goes(a, pc) /\ UNCHANGED queue /\ latest' = [latest EXCEPT ![Working(a)] = status]
    BY <1>2 DEF Recorded
  <2> QED BY <2>1, GoesTyped, GoesWork DEF Typed, TypeOK
<1>3. CASE ~ task[Working(a)].here
  <2>1. Goes(a, Raised(a)) /\ Drop(a) /\ UNCHANGED latest
    BY <1>3 DEF Recorded
  <2> QED BY <1>1, <2>1, GoesTyped, GoesWork, DropTyped DEF Typed, TypeOK
<1> QED BY <1>2, <1>3

LEMMA UnlessRunningTyped ==
  ASSUME Typed, NEW a \in Actors, NEW c \in Copy, UnlessRunning(a, c)
  PROVE  act' \in [Actors -> Doing] /\ WorkHasTask'
<1>1. CASE HasRunning(c.id)
  BY <1>1 DEF UnlessRunning, Typed, TypeOK, WorkHasTask
<1>2. CASE ~ HasRunning(c.id)
  <2>1. act' = [act EXCEPT ![a].pc = "deps", ![a].c = c]
    BY <1>2 DEF UnlessRunning
  <2>2. [act[a] EXCEPT !.pc = "deps", !.c = c] \in Doing
    BY DEF Typed, TypeOK, Doing, Positions
  <2> QED BY <2>1, <2>2 DEF Typed, TypeOK, WorkHasTask
<1> QED BY <1>1, <1>2

LEMMA ForgottenTyped ==
  ASSUME Typed, NEW t \in Tasks
  PROVE  /\ Forgotten(t) \in [Runners -> Thread]
         /\ run' = Forgotten(t) => RunHasTask'
<1>1. Forgotten(t) \in [Runners -> Thread]
  BY DEF Typed, TypeOK, Forgotten, Thread
<1>2. \A r \in Runners : Forgotten(t)[r].at = run[r].at /\ Forgotten(t)[r].task = run[r].task
                         /\ (Forgotten(t)[r].row => run[r].row)
  BY DEF Typed, TypeOK, Forgotten, Thread
<1> QED BY <1>1, <1>2 DEF Typed, RunHasTask

LEMMA ProcessGoneTyped ==
  ASSUME Typed, ProcessGone
  PROVE  /\ act' \in [Actors -> Doing] /\ WorkHasTask'
         /\ run' \in [Runners -> Thread] /\ RunHasTask'
         /\ queue' \in [{"loop", "main"} -> SUBSET Copy]
         /\ phase' = "down" /\ joins' = {}
         /\ UNCHANGED <<now, table, started, requests, history>>
<1>1. \A a \in Actors : [Resting EXCEPT !.moment = act[a].moment] \in Doing
  BY DEF Typed, TypeOK, Resting, Doing, Positions, Whys
<1>2. act' \in [Actors -> Doing]
  BY <1>1 DEF ProcessGone
<1>3. WorkHasTask'
  BY DEF ProcessGone, WorkHasTask, Resting, Busy, Between
<1>4. run' \in [Runners -> Thread]
  BY DEF Typed, TypeOK, ProcessGone, Thread, NoRun
<1>5. RunHasTask'
  <2> SUFFICES ASSUME NEW r \in Runners, run'[r].at # "idle" \/ run'[r].row
               PROVE  run'[r].task \in Tasks /\ run'[r].at # "idle"
    BY DEF RunHasTask
  <2>1. run[r] \in Thread /\ (run[r].at # "idle" => run[r].task \in Tasks)
        /\ (run[r].row => run[r].at # "idle")
    BY DEF Typed, TypeOK, RunHasTask
  <2>2. run[r].row /\ run'[r] = [run[r] EXCEPT !.at = "dead"]
    BY DEF ProcessGone, NoRun
  <2> QED BY <2>1, <2>2 DEF Thread
<1> QED BY <1>2, <1>3, <1>4, <1>5 DEF ProcessGone

LEMMA BootTyped ==
  ASSUME Typed, Boot PROVE Typed'
<1>1. Resting \in Doing /\ [Resting EXCEPT !.pc = "next", !.why = "system_boot"] \in Doing
  BY DEF Resting, Doing, Positions, Whys
<1>2. act' \in [Actors -> Doing]
  BY <1>1 DEF Boot
<1>3. WorkHasTask'
  BY DEF Boot, WorkHasTask, Resting, Busy, Between
<1>4. /\ run' \in [Runners -> Thread] /\ RunHasTask'
      /\ latest' \in [Tasks -> {"none", "running"} \cup Final]
  BY DEF Typed, TypeOK, RunHasTask, Boot, Thread, NoRun, Final
<1>5. queue' \in [{"loop", "main"} -> SUBSET Copy] /\ owed' \subseteq Tasks
      /\ fresh' \subseteq Tasks
  BY CopiesAreTyped DEF Typed, Boot, Copy
<1> QED BY <1>2, <1>3, <1>4, <1>5 DEF Typed, TypeOK, Boot

LEMMA StopTyped ==
  ASSUME Typed, Stop PROVE Typed'
<1>1. [Resting EXCEPT !.pc = "next", !.why = "system_shutdown"] \in Doing
      /\ Resting.pc \in Between /\ "main" \in Actors
      /\ [Resting EXCEPT !.pc = "next", !.why = "system_shutdown"].pc = "next"
  BY DEF Resting, Doing, Positions, Whys, Between, Actors
<1>2. act' \in [Actors -> Doing] /\ WorkHasTask'
  BY <1>1, RestWork DEF Stop, Busy, Between
<1>3. /\ run' \in [Runners -> Thread]
      /\ latest' \in [Tasks -> {"none", "running"} \cup Final]
  BY DEF Typed, TypeOK, Stop, Thread, Final
<1>5. \A r \in Runners : ~ run'[r].row /\ run'[r].at = run[r].at /\ run'[r].task = run[r].task
  BY DEF Typed, TypeOK, Stop, Thread
<1>6. RunHasTask'
  BY <1>5 DEF Typed, RunHasTask
<1>4. queue' \in [{"loop", "main"} -> SUBSET Copy]
  BY CopiesAreTyped DEF Typed, TypeOK, Stop
<1> QED BY <1>2, <1>3, <1>4, <1>6 DEF Typed, TypeOK, Stop, table, history

LEMMA ThreadTyped ==
  ASSUME Typed, NEW r \in Runners, RunnerStep(r) PROVE Typed'
<1>1. run[r] \in Thread /\ (run[r].at # "idle" => run[r].task \in Tasks)
  BY DEF Typed, TypeOK, RunHasTask
<1>2. CASE RecordStart(r)
  <2>1. run' \in [Runners -> Thread] /\ RunHasTask'
    <3>1. CASE task[run[r].task].here
      <4>1. run' = [run EXCEPT ![r] = [run[r] EXCEPT !.at = "running", !.row = TRUE]]
        BY <1>2, <3>1 DEF RecordStart, Typed, TypeOK
      <4>2. run[r].task \in Tasks
        BY <1>1, <1>2 DEF RecordStart
      <4> QED BY <1>1, <4>1, <4>2 DEF Typed, TypeOK, RunHasTask, Thread
    <3>2. CASE ~ task[run[r].task].here
      <4>1. run' = [run EXCEPT ![r] = NoRun]
        BY <1>2, <3>2 DEF RecordStart
      <4>2. NoRun \in Thread /\ NoRun.at = "idle" /\ ~ NoRun.row
        BY DEF NoRun, Thread
      <4> QED BY <4>1, <4>2 DEF Typed, TypeOK, RunHasTask
    <3> QED BY <3>1, <3>2
  <2>2. latest' \in [Tasks -> {"none", "running"} \cup Final]
    BY <1>1, <1>2 DEF Typed, TypeOK, RecordStart
  <2> QED BY <1>2, <2>1, <2>2 DEF Typed, TypeOK, WorkHasTask, RecordStart, engine, history
<1>3. CASE RunEnds(r)
  <2>1. PICK status \in {"success", "failed"} :
          IF run[r].row
          THEN /\ latest' = [latest EXCEPT ![run[r].task] = status]
               /\ succeeded' = IF status = "success" THEN succeeded \cup {run[r].task}
                               ELSE succeeded
               /\ fresh' = IF status = "success" THEN fresh \cup {run[r].task} ELSE fresh
          ELSE UNCHANGED <<latest, succeeded, fresh>>
    BY <1>3 DEF RunEnds
  <2>2. run' \in [Runners -> Thread] /\ RunHasTask'
    BY <1>1, <1>3 DEF Typed, TypeOK, RunHasTask, RunEnds, Thread, NoRun
  <2>3. latest' \in [Tasks -> {"none", "running"} \cup Final] /\ succeeded' \subseteq Tasks
        /\ fresh' \subseteq Tasks
    BY <1>1, <1>3, <2>1 DEF Typed, TypeOK, RunEnds, Final
  <2> QED BY <1>3, <2>2, <2>3 DEF Typed, TypeOK, WorkHasTask, RunEnds, engine
<1> QED BY <1>2, <1>3 DEF RunnerStep

LEMMA AskedTyped ==
  ASSUME Typed, NEW op, Asked(op)
  PROVE  requests' \in 0..MaxRequests
BY SchedulerConstants DEF Asked, Typed, TypeOK

LEMMA ClearTyped ==
  ASSUME Typed, NEW t \in Tasks, ClearResults(t)
  PROVE  Typed'
BY AskedTyped, ForgottenTyped
   DEF Typed, TypeOK, WorkHasTask, ClearResults, engine, table, history

LEMMA DeleteTyped ==
  ASSUME Typed, NEW t \in Tasks, DeleteTask(t)
  PROVE  Typed'
<1>1. task' \in [Tasks -> Row]
  BY DEF DeleteTask, Typed, TypeOK, Row
<1> QED BY <1>1, AskedTyped, ForgottenTyped
        DEF Typed, TypeOK, WorkHasTask, DeleteTask, engine, history

LEMMA RequestTyped ==
  ASSUME Typed, NEW t \in Tasks, NEW h \in Handlers, RunTask(h, t) \/ UpdateTask(h, t)
  PROVE  Typed'
<1>1. h \in Actors
  BY DEF Actors
<1>2. CASE RunTask(h, t)
  <2>1. [Resting EXCEPT !.pc = "running", !.c = CopyOf(t)] \in Doing /\ CopyOf(t) \in Copy
    BY CopiesAreTyped DEF Typed, Resting, Doing, Positions, Whys
  <2>2. act' \in [Actors -> Doing] /\ WorkHasTask'
    BY <1>1, <1>2, <2>1, RestWork DEF RunTask, Resting
  <2> QED BY AskedTyped, <1>2, <2>2 DEF Typed, TypeOK, RunHasTask, RunTask, table, history
<1>3. CASE UpdateTask(h, t)
  <2>1. PICK active \in BOOLEAN, condition \in BOOLEAN, expr \in ExprsOf[t] :
        \E row \in Edits(t, active, expr, condition) :
           act' = [act EXCEPT ![h] = [Resting EXCEPT !.pc = "write", !.c = [id |-> t, row |-> row]]]
    BY <1>3 DEF UpdateTask
  <2>2. PICK row \in Edits(t, active, expr, condition) :
           act' = [act EXCEPT ![h] = [Resting EXCEPT !.pc = "write", !.c = [id |-> t, row |-> row]]]
    BY <2>1
  <2>3. [id |-> t, row |-> row] \in Copy
    BY EditsAreTyped DEF Typed, Copy
  <2>4. [Resting EXCEPT !.pc = "write", !.c = [id |-> t, row |-> row]] \in Doing
    BY <2>3 DEF Resting, Doing, Positions, Whys
  <2>5. act' \in [Actors -> Doing] /\ WorkHasTask'
    BY <1>1, <2>2, <2>3, <2>4, RestWork DEF Resting
  <2> QED BY AskedTyped, <1>3, <2>5 DEF Typed, TypeOK, RunHasTask, UpdateTask, table, history
<1> QED BY <1>2, <1>3

LEMMA WriteTyped ==
  ASSUME Typed, NEW h \in Handlers, WriteTask(h) PROVE Typed'
<1>1. h \in Actors /\ "idle" \in Positions /\ "idle" \in Between
  BY DEF Actors, Positions, Between
<1>2. act[h].c \in Copy
  BY <1>1 DEF Typed, WorkHasTask, WriteTask, At, Busy, Positions, Between
<1>3. act' \in [Actors -> Doing] /\ WorkHasTask'
  BY <1>1, GoesTyped, GoesWork DEF Typed, WriteTask
<1>4. task' \in [Tasks -> Row] /\ restored' \subseteq ran'
  BY <1>2 DEF Typed, TypeOK, WriteTask, Copy
<1> QED BY <1>3, <1>4 DEF Typed, TypeOK, RunHasTask, WriteTask

(* One step for each action of an actor at work on a task.                 *)
LEMMA StepsTyped ==
  ASSUME Typed, NEW a \in Actors, Steps(a) PROVE Typed'
<1>1. /\ Done(a) \in Positions /\ Done(a) \in Between
      /\ Raised(a) \in Positions /\ Raised(a) \in Between
  BY DEF Done, Raised, Positions, Between
<1>2. ASSUME NEW pc, At(a, pc), pc \in Busy
      PROVE  act[a].pc \in Busy /\ act[a].c \in Copy /\ Working(a) \in Tasks
  BY <1>2 DEF At, Typed, WorkHasTask, Copy, Working
<1>3. {"running", "condition", "deps", "block", "advance", "putoff"} \subseteq Busy
      /\ Busy \subseteq Positions
  BY DEF Busy, Between, Positions
<1>4. CASE CheckRunning(a)
  <2>1. PICK pc \in Positions : Goes(a, pc)
    BY <1>1, <1>3, <1>4 DEF CheckRunning
  <2>2. act' \in [Actors -> Doing] /\ WorkHasTask'
    BY <1>2, <1>3, <1>4, <2>1, GoesTyped, GoesWork DEF CheckRunning, Typed
  <2> QED BY <1>4, <2>2 DEF CheckRunning, Typed, TypeOK, RunHasTask, table, history
<1>5. CASE ConditionMatches(a) \/ ConditionErrs(a)
  <2>1. PICK pc \in Positions : Goes(a, pc)
    BY <1>1, <1>3, <1>5 DEF ConditionMatches, ConditionErrs
  <2>2. act' \in [Actors -> Doing] /\ WorkHasTask'
    BY <1>2, <1>3, <1>5, <2>1, GoesTyped, GoesWork DEF ConditionMatches, ConditionErrs, Typed
  <2> QED BY <1>5, <2>2
          DEF ConditionMatches, ConditionErrs, Typed, TypeOK, RunHasTask, table, history
<1>11. CASE AccountGone(a)
  <2>1. act' \in [Actors -> Doing] /\ WorkHasTask'
    BY <1>1, <1>2, <1>3, <1>11, GoesTyped, GoesWork DEF AccountGone, Typed
  <2>2. queue' \in [{"loop", "main"} -> SUBSET Copy]
    BY <1>11, DropTyped DEF AccountGone, Typed
  <2> QED BY <1>11, <2>1, <2>2 DEF AccountGone, Typed, TypeOK, RunHasTask, table, history
<1>6. CASE ConditionMisses(a)
  <2>1. /\ act' \in [Actors -> Doing] /\ WorkHasTask'
        /\ latest' \in [Tasks -> {"none", "running"} \cup Final]
        /\ queue' \in [{"loop", "main"} -> SUBSET Copy]
    BY <1>1, <1>2, <1>3, <1>6, RecordedTyped DEF ConditionMisses, Final
  <2> QED BY <1>6, <2>1 DEF ConditionMisses, Typed, TypeOK, RunHasTask, history
<1>7. CASE CheckDeps(a)
  <2>1. act' \in [Actors -> Doing] /\ WorkHasTask'
    BY <1>2, <1>3, <1>7, GoesTyped, GoesWork DEF CheckDeps, Typed
  <2> QED BY <1>7, <2>1 DEF CheckDeps, Typed, TypeOK, RunHasTask, table, history
<1>8. CASE RecordBlock(a)
  <2> DEFINE pc == IF act[a].why = "schedule" THEN "putoff" ELSE Done(a)
  <2>1. pc \in Positions
    BY <1>1, <1>3
  <2>2. act[a].pc \in Busy
    BY <1>2, <1>3, <1>8 DEF RecordBlock
  <2>3. CASE DependenciesMet(Working(a))
    <3>1. Goes(a, pc) /\ UNCHANGED <<queue, latest, owed>>
      BY <1>8, <2>3 DEF RecordBlock
    <3>2. act' \in [Actors -> Doing] /\ WorkHasTask'
      BY <2>1, <2>2, <3>1, GoesTyped, GoesWork DEF Typed
    <3> QED BY <1>8, <3>1, <3>2 DEF RecordBlock, Typed, TypeOK, RunHasTask
  <2>4. CASE ~ DependenciesMet(Working(a))
    <3>1. Recorded(a, "pretask_failed", pc)
      BY <1>8, <2>4 DEF RecordBlock
    <3>2. /\ act' \in [Actors -> Doing] /\ WorkHasTask'
          /\ latest' \in [Tasks -> {"none", "running"} \cup Final]
          /\ queue' \in [{"loop", "main"} -> SUBSET Copy]
      BY <2>1, <2>2, <3>1, RecordedTyped DEF Final
    <3> QED BY <1>8, <3>2 DEF RecordBlock, Typed, TypeOK, RunHasTask
  <2> QED BY <2>3, <2>4
<1>9. CASE Advance(a)
  <2> DEFINE base == CASE act[a].pc = "putoff" -> act[a].moment + MinuteTicks
                       [] act[a].pc = "advance" /\ a = "loop" -> act[a].moment
                       [] act[a].pc = "advance" /\ a # "loop" -> now
  <2>1. act[a].pc \in Busy /\ act[a].c \in Copy /\ Working(a) \in Tasks
    BY <1>2, <1>3, <1>9 DEF Advance
  <2>2. base \in Nat
    <3>1. act[a].pc = "advance" \/ act[a].pc = "putoff"
      BY <1>9 DEF Advance, At
    <3> QED BY <3>1, SchedulerConstants DEF Typed, TypeOK, Doing
  <2>3. CASE Goes(a, Raised(a)) /\ Drop(a) /\ UNCHANGED task
    <3>1. act' \in [Actors -> Doing] /\ WorkHasTask'
      BY <1>1, <2>1, <2>3, GoesTyped, GoesWork DEF Typed
    <3>2. queue' \in [{"loop", "main"} -> SUBSET Copy]
      BY <2>3, DropTyped DEF Typed
    <3> QED BY <1>9, <2>3, <3>1, <3>2 DEF Advance, Typed, TypeOK, RunHasTask, history
  <2>4. ASSUME NEW next \in NextAfter(act[a].c.row.expr, base),
               SetNext(Working(a), next), Goes(a, Done(a)), UNCHANGED queue
        PROVE  Typed'
    <3>1. next \in Nat
      BY <2>2, <2>4, NextIsLater
    <3>2. act' \in [Actors -> Doing] /\ WorkHasTask'
      BY <1>1, <2>1, <2>4, GoesTyped, GoesWork DEF Typed
    <3>3. task' \in [Tasks -> Row]
      BY <2>1, <2>4, <3>1, SetNextTyped DEF Typed
    <3> QED BY <1>9, <2>4, <3>2, <3>3 DEF Advance, Typed, TypeOK, RunHasTask, history
  <2> QED BY <1>9, <2>3, <2>4 DEF Advance
<1>10. ASSUME NEW r \in Runners, Start(a, r) PROVE Typed'
  <2>1. act[a].pc \in Busy /\ act[a].c \in Copy /\ Working(a) \in Tasks
    BY <1>2, <1>3, <1>10 DEF Start
  <2>2. act' \in [Actors -> Doing] /\ WorkHasTask'
    <3>1. PICK pc \in Positions : Goes(a, pc)
      BY <1>1, <1>3, <1>10 DEF Start
    <3> QED BY <2>1, <3>1, GoesTyped, GoesWork DEF Typed
  <2>3. run' \in [Runners -> Thread] /\ RunHasTask'
    <3> DEFINE new == [task |-> Working(a), at |-> "new", row |-> FALSE]
    <3>1. new \in Thread
      BY <2>1 DEF Thread
    <3>2. run' = [run EXCEPT ![r] = new]
      BY <1>10 DEF Start
    <3> QED BY <2>1, <3>1, <3>2 DEF Typed, TypeOK, RunHasTask
  <2>4. act[a].c.row.next \in Nat
    BY <2>1 DEF Copy, Row
  <2>5. ran' \subseteq Tasks \X Nat /\ again' \subseteq ran' /\ restored' \subseteq ran'
    BY <1>10, <2>1, <2>4 DEF Start, Typed, TypeOK
  <2>6. joins' \subseteq Runners /\ owed' \subseteq Tasks
    BY <1>10 DEF Start, Typed, TypeOK
  <2> QED BY <1>10, <2>2, <2>3, <2>5, <2>6 DEF Start, Typed, TypeOK, table
<1> QED BY <1>4, <1>5, <1>6, <1>7, <1>8, <1>9, <1>10, <1>11 DEF Steps, ConditionEnds

(* The steps of the passes: one for each task that is fetched.             *)
LEMMA TakeTyped ==
  ASSUME Typed, NEW c,
         SkipExpired(c) \/ TakeDue(c) \/ TakeCondition(c) \/ TakeEvent(c)
  PROVE  Typed'
<1>1. "loop" \in Actors /\ "main" \in Actors
  BY DEF Actors
<1>2. CASE SkipExpired(c)
  <2>1. c \in Copy /\ c.id \in Tasks /\ queue' \in [{"loop", "main"} -> SUBSET Copy]
    BY <1>2, TakenTyped DEF SkipExpired, Typed
  <2>2. task' \in [Tasks -> Row]
    <3>1. started \in Nat
      BY DEF Typed, TypeOK
    <3>2. \A next \in NextAfter(c.row.expr, started) : next \in Nat
      BY <3>1, NextIsLater
    <3> QED BY <1>2, <2>1, <3>2, SetNextTyped DEF SkipExpired, Typed, TypeOK
  <2> QED BY <1>2, <2>1, <2>2
          DEF SkipExpired, Typed, TypeOK, WorkHasTask, RunHasTask, history
<1>3. CASE TakeDue(c)
  <2>1. c \in Copy /\ queue' \in [{"loop", "main"} -> SUBSET Copy]
    BY <1>3, TakenTyped DEF TakeDue, Typed
  <2>2. act' \in [Actors -> Doing] /\ WorkHasTask'
    BY <1>1, <1>3, <2>1, UnlessRunningTyped DEF TakeDue
  <2> QED BY <1>3, <2>1, <2>2 DEF TakeDue, Typed, TypeOK, RunHasTask, table, history
<1>4. CASE TakeCondition(c)
  <2>1. c \in Copy /\ c.id \in Tasks /\ queue' \in [{"loop", "main"} -> SUBSET Copy]
    BY <1>4, TakenTyped DEF TakeCondition, Typed
  <2>2. act' \in [Actors -> Doing] /\ WorkHasTask'
    <3>1. [act["loop"] EXCEPT !.pc = "condition", !.c = c] \in Doing
      BY <1>1, <2>1 DEF Typed, TypeOK, Doing, Positions
    <3>2. act["loop"].pc \in Positions
      BY <1>1 DEF Typed, TypeOK, Doing
    <3>3. act' = act \/ act' = [act EXCEPT !["loop"] = [act["loop"] EXCEPT !.pc = "condition", !.c = c]]
      BY <1>4 DEF TakeCondition
    <3> QED BY <1>1, <2>1, <3>1, <3>2, <3>3 DEF Typed, TypeOK, WorkHasTask, Doing
  <2>3. task' \in [Tasks -> Row]
    BY <1>4, <2>1 DEF TakeCondition, Typed, TypeOK, Row
  <2> QED BY <1>4, <2>1, <2>2, <2>3 DEF TakeCondition, Typed, TypeOK, RunHasTask, history
<1>5. CASE TakeEvent(c)
  <2>1. c \in Copy /\ queue' \in [{"loop", "main"} -> SUBSET Copy]
    BY <1>5, TakenTyped DEF TakeEvent, Typed
  <2>2. act' \in [Actors -> Doing] /\ WorkHasTask'
    BY <1>1, <1>5, <2>1, UnlessRunningTyped DEF TakeEvent
  <2> QED BY <1>5, <2>1, <2>2 DEF TakeEvent, Typed, TypeOK, RunHasTask, table, history
<1> QED BY <1>2, <1>3, <1>4, <1>5

LEMMA PassTyped ==
  ASSUME Typed, LoopBegin \/ FetchEvents \/ LoopEnds \/ EventsEnd
  PROVE  Typed'
<1>1. "loop" \in Actors /\ "main" \in Actors
  BY DEF Actors
<1>2. CASE LoopBegin
  <2>1. [Resting EXCEPT !.pc = "next", !.why = "schedule", !.moment = now] \in Doing
    BY DEF Typed, TypeOK, Resting, Doing, Positions, Whys
  <2>2. act' \in [Actors -> Doing] /\ WorkHasTask'
    BY <1>1, <1>2, <2>1, RestWork DEF LoopBegin, Busy, Between, Resting
  <2>3. queue' \in [{"loop", "main"} -> SUBSET Copy]
    BY <1>2, CopiesAreTyped DEF LoopBegin, DueTasks, Typed, TypeOK
  <2> QED BY <1>2, <2>2, <2>3 DEF LoopBegin, Typed, TypeOK, RunHasTask, table, history
<1>3. CASE FetchEvents
  <2>1. act' = [act EXCEPT !["loop"] = [act["loop"] EXCEPT !.why = "condition"]]
        /\ act["loop"].pc = "next"
    BY <1>3 DEF FetchEvents, At
  <2>2. [act["loop"] EXCEPT !.why = "condition"] \in Doing
    BY <1>1 DEF Typed, TypeOK, Doing, Whys
  <2>3. [act["loop"] EXCEPT !.why = "condition"].pc = "next"
    BY <1>1, <2>1 DEF Typed, TypeOK, Doing
  <2>4. act' \in [Actors -> Doing] /\ WorkHasTask'
    BY <1>1, <2>1, <2>2, <2>3, RestWork DEF Busy, Between
  <2>5. queue' \in [{"loop", "main"} -> SUBSET Copy]
    BY <1>3, CopiesAreTyped DEF FetchEvents, Typed, TypeOK
  <2> QED BY <1>3, <2>4, <2>5 DEF FetchEvents, Typed, TypeOK, RunHasTask, table, history
<1>4. CASE LoopEnds \/ EventsEnd
  <2>1. PICK a \in Actors, pc \in {"idle", "join"} : Goes(a, pc)
    BY <1>1, <1>4 DEF LoopEnds, EventsEnd
  <2>2. act' \in [Actors -> Doing] /\ WorkHasTask'
    BY <2>1, GoesTyped, GoesWork DEF Typed, Positions, Between
  <2> QED BY <1>4, <2>2 DEF LoopEnds, EventsEnd, Typed, TypeOK, RunHasTask, table, history
<1> QED BY <1>2, <1>3, <1>4

LEMMA EndTyped ==
  ASSUME Typed, Exit \/ Crash
  PROVE  Typed'
<1>1. ProcessGone /\ crashes' \in 0..MaxCrashes
  BY SchedulerConstants DEF Exit, Crash, Typed, TypeOK
<1> QED BY <1>1, ProcessGoneTyped DEF Typed, TypeOK, table, history

LEMMA NextTyped ==
  ASSUME Typed, [Next]_vars PROVE Typed'
<1>1. CASE Tick
  BY <1>1 DEF Tick, Typed, TypeOK, WorkHasTask, RunHasTask, table, engine, history
<1>2. CASE Boot \/ Stop \/ Crash
  BY <1>2, BootTyped, StopTyped, EndTyped
<1>3. CASE Request
  <2>1. PICK t \in Tasks : \/ ClearResults(t) \/ DeleteTask(t)
                           \/ \E h \in Handlers : RunTask(h, t) \/ UpdateTask(h, t)
    BY <1>3 DEF Request
  <2>2. CASE ClearResults(t)
    BY <2>2, ClearTyped
  <2>3. CASE DeleteTask(t)
    BY <2>3, DeleteTyped
  <2> QED BY <2>1, <2>2, <2>3, RequestTyped
<1>4. CASE LoopStep
  BY <1>4, PassTyped, TakeTyped, StepsTyped DEF LoopStep, Actors
<1>5. CASE MainStep
  BY <1>5, PassTyped, EndTyped, TakeTyped, StepsTyped DEF MainStep, Actors
<1>6. CASE \E h \in Handlers : HandlerStep(h)
  BY <1>6, WriteTyped, StepsTyped DEF HandlerStep, Actors
<1>7. CASE \E r \in Runners : RunnerStep(r)
  BY <1>7, ThreadTyped
<1>8. CASE UNCHANGED vars
  BY <1>8 DEF vars, Typed, TypeOK, WorkHasTask, RunHasTask, table, engine, history
<1> QED BY <1>1, <1>2, <1>3, <1>4, <1>5, <1>6, <1>7, <1>8 DEF Next

(* Every thread, request and kill leaves the tables and the actors typed,  *)
(* whatever the tasks and the number of threads.                           *)
THEOREM SchedulerTypeCorrect == Spec => []TypeOK
<1>1. Init => Typed
  BY InitTyped, InitWork DEF Typed
<1>2. Typed /\ [Next]_vars => Typed'
  BY NextTyped
<1>3. Typed => TypeOK
  BY DEF Typed
<1> QED BY <1>1, <1>2, <1>3, PTL DEF Spec

-----------------------------------------------------------------------------
(* Dependencies.  Most steps start no thread and write no success.         *)
StartsNothing ==
  /\ UNCHANGED succeeded
  /\ phase # "down" => UNCHANGED fresh
  /\ \A t \in Tasks : latest'[t] = "success" => latest[t] = "success"
  /\ \A r \in Runners : run'[r].at \in {"new", "running"} =>
       run[r].at \in {"new", "running"} /\ run'[r].task = run[r].task

StartsOne ==
  /\ UNCHANGED <<succeeded, fresh, latest>>
  /\ \E a \in Actors, r \in Runners :
       /\ DependenciesMet(Working(a)) /\ Working(a) \in Tasks
       /\ run' = [run EXCEPT ![r] = [task |-> Working(a), at |-> "new", row |-> FALSE]]

EndsOne ==
  \E r \in Runners :
    LET t == run[r].task IN
    /\ run[r].at = "running" /\ t \in Tasks
    /\ run' = [run EXCEPT ![r] = NoRun]
    /\ \/ UNCHANGED <<latest, succeeded, fresh>>
       \/ latest' = [latest EXCEPT ![t] = "failed"] /\ UNCHANGED <<succeeded, fresh>>
       \/ /\ latest' = [latest EXCEPT ![t] = "success"]
          /\ succeeded' = succeeded \cup {t} /\ fresh' = fresh \cup {t}

LEMMA RecordedStartsNothing ==
  ASSUME Typed, NEW a \in Actors, NEW status \in Final \ {"success"}, NEW pc,
         Recorded(a, status, pc)
  PROVE  \A t \in Tasks : latest'[t] = "success" => latest[t] = "success"
BY DEF Recorded, Typed, TypeOK

LEMMA ThreadEffects ==
  ASSUME Typed, NEW r \in Runners, RunnerStep(r)
  PROVE  StartsNothing \/ EndsOne
<1>1. CASE RecordStart(r)
  <2>1. run[r].at = "new" /\ UNCHANGED <<succeeded, fresh>>
    BY <1>1 DEF RecordStart, history
  <2>2. CASE task[run[r].task].here
    <3>1. /\ run' = [run EXCEPT ![r].at = "running", ![r].row = TRUE]
          /\ latest' = [latest EXCEPT ![run[r].task] = "running"]
      BY <1>1, <2>2 DEF RecordStart
    <3> QED BY <2>1, <3>1 DEF StartsNothing, Typed, TypeOK, Thread
  <2>3. CASE ~ task[run[r].task].here
    <3>1. run' = [run EXCEPT ![r] = NoRun] /\ UNCHANGED latest
      BY <1>1, <2>3 DEF RecordStart
    <3> QED BY <2>1, <3>1 DEF StartsNothing, Typed, TypeOK, NoRun
  <2> QED BY <2>2, <2>3
<1>2. CASE RunEnds(r)
  <2>1. run[r].task \in Tasks
    BY <1>2 DEF RunEnds, Typed, RunHasTask
  <2> QED BY <1>2, <2>1 DEF RunEnds, EndsOne
<1> QED BY <1>1, <1>2 DEF RunnerStep

LEMMA StepsEffects ==
  ASSUME Typed, NEW a \in Actors, Steps(a)
  PROVE  StartsNothing \/ StartsOne
<1>1. CASE ConditionMisses(a)
  BY <1>1, RecordedStartsNothing DEF ConditionMisses, StartsNothing, Final, history
<1>2. CASE RecordBlock(a)
  <2>1. DependenciesMet(Working(a)) => UNCHANGED latest
    BY <1>2 DEF RecordBlock
  <2>2. ~ DependenciesMet(Working(a)) => \E pc : Recorded(a, "pretask_failed", pc)
    BY <1>2 DEF RecordBlock
  <2> QED BY <1>2, <2>1, <2>2, RecordedStartsNothing DEF RecordBlock, StartsNothing, Final
<1>3. ASSUME NEW r \in Runners, Start(a, r) PROVE StartsOne
  <2>1. act[a].c \in Copy
    BY <1>3 DEF Start, At, Typed, WorkHasTask, Busy, Positions, Between
  <2>2. Working(a) \in Tasks
    BY <2>1 DEF Working, Copy
  <2> QED BY <1>3, <2>2 DEF Start, StartsOne, table
<1>4. CASE CheckRunning(a) \/ ConditionMatches(a) \/ ConditionErrs(a) \/ AccountGone(a)
          \/ CheckDeps(a)
  BY <1>4 DEF CheckRunning, ConditionMatches, ConditionErrs, AccountGone, CheckDeps,
              StartsNothing, table, history
<1>5. CASE Advance(a)
  BY <1>5 DEF Advance, StartsNothing, history
<1> QED BY <1>1, <1>2, <1>3, <1>4, <1>5 DEF Steps, ConditionEnds

LEMMA NextEffects ==
  ASSUME Typed, [Next]_vars
  PROVE  StartsNothing \/ StartsOne \/ EndsOne
<1>1. CASE Tick \/ UNCHANGED vars
  BY <1>1 DEF Tick, vars, table, history, StartsNothing
<1>2. CASE Boot \/ Stop
  BY <1>2 DEF Boot, Stop, history, StartsNothing, Typed, TypeOK, NoRun, Thread
<1>3. CASE Exit \/ Crash
  <2>1. ProcessGone
    BY <1>3 DEF Exit, Crash
  <2> QED BY <2>1 DEF ProcessGone, table, history, StartsNothing, Typed, TypeOK, NoRun, Thread
<1>4. CASE Request
  <2>1. UNCHANGED <<latest, succeeded, fresh>>
    BY <1>4 DEF Request, ClearResults, DeleteTask, RunTask, UpdateTask, table, history
  <2>2. UNCHANGED run \/ \E t \in Tasks : run' = Forgotten(t)
    BY <1>4 DEF Request, ClearResults, DeleteTask, RunTask, UpdateTask
  <2>3. \A r \in Runners : run'[r].at = run[r].at /\ run'[r].task = run[r].task
    BY <2>2 DEF Forgotten, Typed, TypeOK, Thread
  <2> QED BY <2>1, <2>3 DEF StartsNothing
<1>5. CASE LoopBegin \/ FetchEvents \/ LoopEnds \/ EventsEnd
  BY <1>5 DEF LoopBegin, FetchEvents, LoopEnds, EventsEnd, table, history, StartsNothing
<1>6. ASSUME NEW c, SkipExpired(c) \/ TakeDue(c) \/ TakeCondition(c) \/ TakeEvent(c)
      PROVE  StartsNothing
  BY <1>6 DEF SkipExpired, TakeDue, TakeCondition, TakeEvent, table, history, StartsNothing
<1>7. ASSUME NEW h \in Handlers, WriteTask(h) PROVE StartsNothing
  BY <1>7 DEF WriteTask, StartsNothing
<1>8. "loop" \in Actors /\ "main" \in Actors /\ Handlers \subseteq Actors
  BY DEF Actors
<1> QED BY <1>1, <1>2, <1>3, <1>4, <1>5, <1>6, <1>7, <1>8, StepsEffects, ThreadEffects
        DEF Next, LoopStep, MainStep, HandlerStep

LEMMA InitPrereq == Init => Typed /\ PrereqInv
BY InitTyped, InitWork DEF Typed, Init, PrereqInv, PrereqsCameFirst, NoRun

LEMMA PrereqNext ==
  ASSUME Typed, PrereqInv, [Next]_vars
  PROVE  PrereqInv'
<1>1. \A r \in Runners : run[r].at # "idle" => run[r].task \in Tasks
  BY DEF Typed, RunHasTask
<1>2. CASE StartsNothing
  BY <1>1, <1>2 DEF StartsNothing, PrereqInv, PrereqsCameFirst
<1>3. CASE StartsOne
  <2>1. PICK a \in Actors, r \in Runners :
          /\ DependenciesMet(Working(a)) /\ Working(a) \in Tasks
          /\ run' = [run EXCEPT ![r] = [task |-> Working(a), at |-> "new", row |-> FALSE]]
    BY <1>3 DEF StartsOne
  <2>2. Deps[Working(a)] \subseteq succeeded
    BY <2>1, SchedulerConstants DEF DependenciesMet, PrereqInv
  <2> QED BY <1>3, <2>1, <2>2 DEF StartsOne, PrereqInv, PrereqsCameFirst, Typed, TypeOK
<1>4. CASE EndsOne
  <2>1. PICK r \in Runners :
          /\ run[r].at = "running" /\ run[r].task \in Tasks
          /\ run' = [run EXCEPT ![r] = NoRun]
          /\ \/ UNCHANGED <<latest, succeeded>>
             \/ latest' = [latest EXCEPT ![run[r].task] = "failed"] /\ UNCHANGED succeeded
             \/ /\ latest' = [latest EXCEPT ![run[r].task] = "success"]
                /\ succeeded' = succeeded \cup {run[r].task}
    BY <1>4 DEF EndsOne
  <2>2. \A t \in Tasks : latest'[t] = "success" => t \in succeeded'
    BY <2>1 DEF PrereqInv, Typed, TypeOK
  <2>3. PrereqsCameFirst'
    BY <2>1 DEF PrereqInv, PrereqsCameFirst, Typed, TypeOK, NoRun
  <2> QED BY <2>2, <2>3 DEF PrereqInv
<1> QED BY <1>2, <1>3, <1>4, NextEffects

(* A task runs only when each of its pre_task_ids has succeeded at some    *)
(* time: for any graph of dependencies, whoever starts the task and        *)
(* however requests, kills and starts of the server fall between.          *)
THEOREM DependenciesSucceedFirst == Spec => []PrereqsCameFirst
<1>1. Typed /\ PrereqInv /\ [Next]_vars => Typed' /\ PrereqInv'
  BY NextTyped, PrereqNext
<1>2. PrereqInv => PrereqsCameFirst
  BY DEF PrereqInv
<1> QED BY InitPrereq, <1>1, <1>2, PTL DEF Spec

(* Tasks that wait for each other in a circle never run, in whatever way   *)
(* they are started: create_task and update_task accept such dependencies. *)
NeverRuns(C) ==
  /\ C \cap succeeded = {}
  /\ \A r \in Runners : run[r].at \in {"new", "running"} => run[r].task \notin C

THEOREM CirclesNeverRun ==
  ASSUME NEW C \in SUBSET Tasks, \A t \in C : Deps[t] \cap C # {}
  PROVE  Spec => []NeverRuns(C)
<1>1. Init => NeverRuns(C)
  BY DEF Init, NoRun, NeverRuns
<1>2. Typed /\ PrereqInv /\ NeverRuns(C) /\ [Next]_vars => NeverRuns(C)'
  <2> SUFFICES ASSUME Typed, PrereqInv, NeverRuns(C), [Next]_vars PROVE NeverRuns(C)'
    OBVIOUS
  <2>1. CASE StartsNothing
    BY <2>1 DEF StartsNothing, NeverRuns
  <2>2. CASE StartsOne
    <3>1. PICK a \in Actors, r \in Runners :
            /\ DependenciesMet(Working(a)) /\ Working(a) \in Tasks
            /\ run' = [run EXCEPT ![r] = [task |-> Working(a), at |-> "new", row |-> FALSE]]
      BY <2>2 DEF StartsOne
    <3>2. Deps[Working(a)] \subseteq succeeded
      BY <3>1, SchedulerConstants DEF DependenciesMet, PrereqInv
    <3>3. Working(a) \notin C
      BY <3>2 DEF NeverRuns
    <3> QED BY <2>2, <3>1, <3>3 DEF StartsOne, NeverRuns, Typed, TypeOK
  <2>3. CASE EndsOne
    <3>1. PICK r \in Runners :
            /\ run[r].at = "running" /\ run' = [run EXCEPT ![r] = NoRun]
            /\ succeeded' = succeeded \/ succeeded' = succeeded \cup {run[r].task}
      BY <2>3 DEF EndsOne
    <3>2. run[r].task \notin C
      BY <3>1 DEF NeverRuns
    <3> QED BY <3>1, <3>2 DEF NeverRuns, Typed, TypeOK, NoRun
  <2> QED BY <2>1, <2>2, <2>3, NextEffects
<1>3. Typed /\ PrereqInv /\ [Next]_vars => Typed' /\ PrereqInv'
  BY NextTyped, PrereqNext
<1> QED BY InitPrereq, <1>1, <1>2, <1>3, PTL DEF Spec

-----------------------------------------------------------------------------
(* Every schedule task has a next_run_at, and so has the row that          *)
(* update_task is about to write.                                          *)
NextInv ==
  /\ ScheduleTasksHaveNext
  /\ \A h \in Handlers : act[h].pc = "write" /\ Kind[act[h].c.id] = "schedule"
                         => act[h].c.row.next # Null

KeepsNext ==
  /\ \A t \in Tasks :
       \/ task'[t].next # Null
       \/ task'[t].next = task[t].next /\ (task'[t].here => task[t].here)
  /\ \A h \in Handlers : act'[h].pc = "write" => act'[h] = act[h]

LEMMA KeepsNextKeeps ==
  ASSUME NextInv, KeepsNext PROVE NextInv'
BY DEF NextInv, ScheduleTasksHaveNext, KeepsNext

LEMMA GoesKeepsNext ==
  ASSUME Typed, NEW a \in Actors, NEW pc, Goes(a, pc), pc # "write"
  PROVE  \A h \in Handlers : act'[h].pc = "write" => act'[h] = act[h]
BY DEF Goes, Typed, TypeOK, Doing, Actors

LEMMA SetKeepsNext ==
  ASSUME Typed, NEW e, NEW moment \in Nat, NEW t, NEW next \in NextAfter(e, moment),
         SetNext(t, next)
  PROVE  \A u \in Tasks : \/ task'[u].next # Null
                          \/ task'[u].next = task[u].next /\ (task'[u].here => task[u].here)
<1>1. next # Null
  BY NextIsLater DEF Null
<1>2. task \in [Tasks -> Row]
  BY DEF Typed, TypeOK
<1> QED BY <1>1, <1>2 DEF SetNext, Row

LEMMA StepsKeepNext ==
  ASSUME Typed, NEW a \in Actors, Steps(a) PROVE KeepsNext
<1>1. \E pc : Goes(a, pc) /\ pc # "write"
  BY DEF Steps, CheckRunning, ConditionEnds, ConditionMatches, ConditionErrs, AccountGone,
         ConditionMisses, CheckDeps, RecordBlock, Recorded, Advance, Start, Done, Raised
<1>2. CASE ~ Advance(a)
  <2>1. UNCHANGED task
    BY <1>2 DEF Steps, CheckRunning, ConditionEnds, ConditionMatches, ConditionErrs,
                AccountGone, ConditionMisses, CheckDeps, RecordBlock, Start, table
  <2> QED BY <1>1, <2>1, GoesKeepsNext DEF KeepsNext
<1>3. CASE Advance(a)
  <2>1. now \in Nat /\ act[a].moment \in Nat /\ act[a].moment + MinuteTicks \in Nat
    BY SchedulerConstants DEF Typed, TypeOK, Doing
  <2>2. \/ UNCHANGED task
        \/ \E moment \in Nat : \E next \in NextAfter(act[a].c.row.expr, moment) :
             SetNext(Working(a), next)
    <3>1. act[a].pc = "advance" \/ act[a].pc = "putoff"
      BY <1>3 DEF Advance, At
    <3> QED BY <1>3, <2>1, <3>1 DEF Advance
  <2> QED BY <1>1, <2>2, GoesKeepsNext, SetKeepsNext DEF KeepsNext
<1> QED BY <1>2, <1>3

LEMMA TakeKeepsNext ==
  ASSUME Typed, NEW c, SkipExpired(c) \/ TakeDue(c) \/ TakeCondition(c) \/ TakeEvent(c)
  PROVE  KeepsNext
<1>1. \A h \in Handlers : act'[h] = act[h]
  BY SchedulerConstants
     DEF SkipExpired, TakeDue, TakeCondition, TakeEvent, UnlessRunning, Typed, TypeOK, Actors
<1>2. CASE SkipExpired(c)
  BY <1>1, <1>2, SetKeepsNext DEF SkipExpired, KeepsNext, Typed, TypeOK
<1>3. CASE TakeDue(c) \/ TakeEvent(c)
  BY <1>1, <1>3 DEF TakeDue, TakeEvent, KeepsNext, table
<1>4. CASE TakeCondition(c)
  <2>1. task \in [Tasks -> Row]
    BY DEF Typed, TypeOK
  <2> QED BY <1>1, <1>4, <2>1 DEF TakeCondition, KeepsNext, Row
<1> QED BY <1>2, <1>3, <1>4

LEMMA RequestKeepsNext ==
  ASSUME Typed, NextInv, NEW t \in Tasks, NEW h \in Handlers,
         RunTask(h, t) \/ UpdateTask(h, t)
  PROVE  NextInv'
<1>1. h \in Actors /\ \A g \in Handlers : g \in Actors
  BY DEF Actors
<1>2. CASE RunTask(h, t)
  <2>1. \A g \in Handlers : act'[g].pc = "write" => act'[g] = act[g]
    BY <1>1, <1>2 DEF RunTask, Resting, Typed, TypeOK
  <2> QED BY <1>2, <2>1, KeepsNextKeeps DEF RunTask, KeepsNext, table
<1>3. CASE UpdateTask(h, t)
  <2>1. PICK active \in BOOLEAN, condition \in BOOLEAN, expr \in ExprsOf[t] :
        \E row \in Edits(t, active, expr, condition) :
           act' = [act EXCEPT ![h] = [Resting EXCEPT !.pc = "write", !.c = [id |-> t, row |-> row]]]
    BY <1>3 DEF UpdateTask
  <2>2. PICK row \in Edits(t, active, expr, condition) :
           act' = [act EXCEPT ![h] = [Resting EXCEPT !.pc = "write", !.c = [id |-> t, row |-> row]]]
    BY <2>1
  <2>3. Kind[t] = "schedule" => row.next # Null
    <3>1. \A next \in NextAfter(expr, now) : next # Null
      BY NextIsLater DEF Typed, TypeOK, Null
    <3>2. Kind[t] = "schedule" => task[t].next # Null
      BY <1>3 DEF NextInv, ScheduleTasksHaveNext, UpdateTask
    <3>3. row.next \in NextAfter(expr, now) \cup {task[t].next}
      BY DEF Edits
    <3> QED BY <3>1, <3>2, <3>3
  <2>4. act'[h].c = [id |-> t, row |-> row] /\ \A g \in Handlers \ {h} : act'[g] = act[g]
    BY <1>1, <2>2 DEF Resting, Typed, TypeOK
  <2>5. UNCHANGED task
    BY <1>3 DEF UpdateTask, table
  <2> QED BY <2>3, <2>4, <2>5 DEF NextInv, ScheduleTasksHaveNext
<1> QED BY <1>2, <1>3

LEMMA WriteKeepsNext ==
  ASSUME Typed, NextInv, NEW h \in Handlers, WriteTask(h)
  PROVE  NextInv'
<1>1. h \in Actors /\ act[h].pc = "write"
  BY DEF Actors, WriteTask, At
<1>2. \A g \in Handlers : act'[g].pc = "write" => act'[g] = act[g]
  BY <1>1, GoesKeepsNext DEF WriteTask
<1>3. \A t \in Tasks : task'[t].here /\ Kind[t] = "schedule" => task'[t].next # Null
  BY <1>1 DEF WriteTask, NextInv, ScheduleTasksHaveNext, Typed, TypeOK
<1> QED BY <1>2, <1>3 DEF NextInv, ScheduleTasksHaveNext

LEMMA NextKeepsNext ==
  ASSUME Typed, NextInv, [Next]_vars
  PROVE  NextInv'
<1>1. CASE Tick \/ UNCHANGED vars
  BY <1>1 DEF Tick, vars, table, engine, NextInv, ScheduleTasksHaveNext
<1>2. CASE Boot \/ Stop \/ Exit \/ Crash \/ LoopBegin \/ FetchEvents \/ LoopEnds \/ EventsEnd
  <2>1. UNCHANGED task
    BY <1>2 DEF Boot, Stop, Exit, Crash, ProcessGone, LoopBegin, FetchEvents, LoopEnds,
                EventsEnd, table
  <2>2. \A h \in Handlers : act'[h].pc = "write" => act'[h] = act[h]
    <3>1. CASE Boot \/ Exit \/ Crash
      <4>1. \A a \in Actors : act'[a].pc # "write"
        <5>1. CASE Boot
          BY <5>1 DEF Boot, Resting
        <5>2. CASE ProcessGone
          BY <5>2 DEF ProcessGone, Resting
        <5> QED BY <3>1, <5>1, <5>2 DEF Exit, Crash
      <4> QED BY <4>1 DEF Actors
    <3>2. CASE Stop \/ LoopBegin \/ FetchEvents
      BY <3>2, SchedulerConstants DEF Stop, LoopBegin, FetchEvents, Typed, TypeOK, Actors
    <3>3. CASE LoopEnds \/ EventsEnd
      BY <3>3, GoesKeepsNext DEF LoopEnds, EventsEnd, Actors
    <3> QED BY <1>2, <3>1, <3>2, <3>3
  <2> QED BY <2>1, <2>2, KeepsNextKeeps DEF KeepsNext
<1>3. ASSUME NEW t \in Tasks, ClearResults(t) \/ DeleteTask(t) PROVE NextInv'
  <2>1. UNCHANGED act /\ \A u \in Tasks : /\ task'[u].next = task[u].next
                                          /\ task'[u].here => task[u].here
    BY <1>3 DEF ClearResults, DeleteTask, engine, table, Typed, TypeOK, Row
  <2> QED BY <2>1, KeepsNextKeeps DEF KeepsNext
<1>4. ASSUME NEW a \in Actors, Steps(a) PROVE NextInv'
  BY <1>4, StepsKeepNext, KeepsNextKeeps
<1>5. ASSUME NEW c, SkipExpired(c) \/ TakeDue(c) \/ TakeCondition(c) \/ TakeEvent(c)
      PROVE  NextInv'
  BY <1>5, TakeKeepsNext, KeepsNextKeeps
<1>6. ASSUME NEW r \in Runners, RunnerStep(r) PROVE NextInv'
  BY <1>6, KeepsNextKeeps DEF RunnerStep, RecordStart, RunEnds, engine, KeepsNext
<1>7. "loop" \in Actors /\ "main" \in Actors /\ Handlers \subseteq Actors
  BY DEF Actors
<1> QED BY <1>1, <1>2, <1>3, <1>4, <1>5, <1>6, <1>7, RequestKeepsNext, WriteKeepsNext
        DEF Next, Request, LoopStep, MainStep, HandlerStep

(* No edit, pass of the loop, kill or start leaves a schedule task without *)
(* a next_run_at: fetch_due_tasks would never find it again.               *)
THEOREM NoScheduleIsLost == Spec => []Inv
<1>1. Init => Typed /\ NextInv
  <2>1. Init => Typed
    BY InitTyped, InitWork DEF Typed
  <2>2. \A e : \A next \in NextAfter(e, 1) : next # Null
    BY NextIsLater DEF Null
  <2>3. Init => NextInv
    BY <2>2 DEF Init, CreatedTasks, Created, NextInv, ScheduleTasksHaveNext, Resting, Actors
  <2> QED BY <2>1, <2>3
<1>2. Typed /\ NextInv /\ [Next]_vars => Typed' /\ NextInv'
  BY NextTyped, NextKeepsNext
<1>3. Typed /\ NextInv => Inv
  BY DEF Typed, NextInv, Inv
<1> QED BY <1>1, <1>2, <1>3, PTL DEF Spec
=============================================================================
