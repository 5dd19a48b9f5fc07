------------------------- MODULE SchedulerSlotProofs -------------------------
(***************************************************************************)
(* The loop starts a task once for a slot: the proof of SlotOnce by the    *)
(* argument that Scheduler lays out as SlotInv.                            *)
(*                                                                         *)
(* Then no boot event is lost but to a dependency that has just succeeded: *)
(* the proof of BootEventsFire.  Nobody else can start a boot event before *)
(* start() has returned, as the loop takes only schedules and conditions   *)
(* and requests are not served yet, so that main finds none of them        *)
(* running; and dependencies come to be met by successes only.             *)
(***************************************************************************)
EXTENDS SchedulerProofs

SlotCore == LoopClock /\ TableInv /\ QueueInv /\ TakenInv /\ SlotOnce

LEMMA LoopActs == "loop" \in Actors /\ "main" \in Actors /\ Handlers \subseteq Actors
                  /\ "loop" \notin Handlers /\ "main" \notin Handlers
BY SchedulerConstants DEF Actors

LEMMA NoCopyIsNone == NoCopy \notin Copy
BY SchedulerConstants DEF NoCopy, Copy

LEMMA SlotNumbers ==
  ASSUME Typed
  PROVE  /\ now \in Nat /\ started \in Nat /\ act["loop"].moment \in Nat
         /\ ran \subseteq Tasks \X Nat
         /\ \A p \in ran : p[1] \in Tasks /\ p[2] \in Nat
         /\ \A t \in Tasks : task[t].next \in Nat /\ task[t] \in Row
         /\ \A c \in queue["loop"] : c \in Copy /\ c.id \in Tasks /\ c.row.next \in Nat
BY LoopActs DEF Typed, TypeOK, Doing, Row, Copy

(* A next_run_at past every moment of the loop is behind no slot it ran.   *)
LEMMA LaterIsBefore ==
  ASSUME Typed, LoopClock, NEW t \in Tasks, NEW next \in Nat, act["loop"].moment < next
  PROVE  Before(t, next)
BY SlotNumbers DEF LoopClock, Before

(* Steps of others than the loop.                                          *)
Aside ==
  /\ act'["loop"] = act["loop"] /\ queue'["loop"] = queue["loop"]
  /\ UNCHANGED <<started, ran, again>> /\ (phase' = "down" <=> phase = "down")
  /\ restored \subseteq restored' /\ now \in Nat /\ now' \in Nat /\ now <= now'
  /\ \A t \in Tasks :
       \/ task'[t].next = task[t].next /\ (task'[t].here => task[t].here)
       \/ task'[t].next \in Nat /\ now < task'[t].next
       \/ \A p \in ran \ restored' : p[1] = t => p[2] < task'[t].next

LEMMA AsideKeeps ==
  ASSUME Typed, SlotCore, Aside
  PROVE  SlotCore'
<1>1. \A t \in Tasks : \A next : Before(t, next) => Before(t, next)'
  BY DEF Before, Aside
<1>2. LoopClock'
  BY SlotNumbers DEF SlotCore, LoopClock, LoopBusy, Aside
<1>3. TableInv'
  <2> SUFFICES ASSUME phase # "down", NEW t \in Tasks
               PROVE  \/ Before(t, task[t].next)' \/ ~ task'[t].here
                      \/ act["loop"].pc = "advance" /\ OnSchedule /\ act["loop"].c.id = t
    BY DEF TableInv, Aside, OnSchedule, LoopBusy
  <2>1. CASE task'[t].next = task[t].next /\ (task'[t].here => task[t].here)
    BY <1>1, <2>1 DEF SlotCore, TableInv
  <2>2. CASE task'[t].next \in Nat /\ now < task'[t].next
    <3>1. act["loop"].moment < task'[t].next
      BY <2>2, SlotNumbers DEF SlotCore, LoopClock
    <3>2. Before(t, task'[t].next)
      BY <2>2, <3>1, LaterIsBefore DEF SlotCore
    <3> QED BY <1>1, <3>2 DEF Before, Aside
  <2>3. CASE \A p \in ran \ restored' : p[1] = t => p[2] < task'[t].next
    BY <2>3 DEF Before, Aside
  <2> QED BY <2>1, <2>2, <2>3 DEF Aside
<1>4. QueueInv'
  <2>1. \A c \in queue["loop"] : Before(c.id, c.row.next) => Before(c.id, c.row.next)'
    BY <1>1, SlotNumbers
  <2> QED BY <2>1 DEF SlotCore, QueueInv, OnSchedule, LoopBusy, Aside
<1>5. TakenInv'
  <2>1. act["loop"].c \in Copy => act["loop"].c.id \in Tasks
    BY DEF Copy
  <2>2. act["loop"].c \in Copy /\ Before(act["loop"].c.id, act["loop"].c.row.next)
        => Before(act["loop"].c.id, act["loop"].c.row.next)'
    BY <1>1, <2>1 DEF Aside, Before
  <2> QED BY <2>2 DEF SlotCore, TakenInv, OnSchedule, LoopBusy, Aside
<1>6. SlotOnce'
  BY DEF SlotCore, SlotOnce, Aside
<1> QED BY <1>2, <1>3, <1>4, <1>5, <1>6 DEF SlotCore

AsideWell == Aside /\ WhyInv'

LEMMA StepsAside ==
  ASSUME Typed, WhyInv, LoopClock, NEW a \in Actors, a # "loop", Steps(a)
  PROVE  AsideWell
<1>1. act[a].why # "schedule" /\ act[a].pc # "putoff"
  BY DEF WhyInv
<1>2. ASSUME NEW pc, Goes(a, pc), pc # "putoff"
      PROVE  act'["loop"] = act["loop"] /\ WhyInv'
  <2>1. act' = [act EXCEPT ![a].pc = pc, ![a].c = IF pc \in Between THEN NoCopy ELSE @]
    BY <1>2 DEF Goes
  <2>2. /\ \A b \in Actors \ {a} : act'[b] = act[b]
        /\ act'[a].pc = pc /\ act'[a].why = act[a].why
    BY <2>1 DEF Typed, TypeOK, Doing
  <2> QED BY <1>2, <2>2, LoopActs DEF WhyInv
<1>3. UNCHANGED queue \/ Drop(a) => queue'["loop"] = queue["loop"]
  BY LoopActs DEF Drop, Actors, Typed, TypeOK
<1>4. Done(a) # "putoff" /\ Raised(a) # "putoff"
  BY DEF Done, Raised
<1>5. now \in Nat /\ now <= now
  BY SlotNumbers
<1>6. CASE CheckRunning(a)
  <2>1. \E pc : Goes(a, pc) /\ pc # "putoff"
    BY <1>4, <1>6 DEF CheckRunning
  <2> QED BY <1>2, <1>5, <1>6, <2>1 DEF CheckRunning, AsideWell, Aside, table, history
<1>7. CASE ConditionMatches(a) \/ ConditionErrs(a)
  <2>1. \E pc : Goes(a, pc) /\ pc # "putoff"
    BY <1>4, <1>7 DEF ConditionMatches, ConditionErrs
  <2> QED BY <1>2, <1>5, <1>7, <2>1
          DEF ConditionMatches, ConditionErrs, AsideWell, Aside, table, history
<1>13. CASE AccountGone(a)
  <2>1. (\E pc : Goes(a, pc) /\ pc # "putoff") /\ Drop(a)
    BY <1>4, <1>13 DEF AccountGone
  <2> QED BY <1>2, <1>3, <1>5, <1>13, <2>1 DEF AccountGone, AsideWell, Aside, table, history
<1>8. CASE ConditionMisses(a)
  <2>1. (\E pc : Goes(a, pc) /\ pc # "putoff") /\ (UNCHANGED queue \/ Drop(a))
    BY <1>4, <1>8 DEF ConditionMisses, Recorded
  <2> QED BY <1>2, <1>3, <1>5, <1>8, <2>1 DEF ConditionMisses, AsideWell, Aside, history
<1>9. CASE CheckDeps(a)
  BY <1>2, <1>5, <1>9 DEF CheckDeps, AsideWell, Aside, table, history
<1>10. CASE RecordBlock(a)
  <2>1. (\E pc : Goes(a, pc) /\ pc # "putoff") /\ (UNCHANGED queue \/ Drop(a))
    BY <1>1, <1>4, <1>10 DEF RecordBlock, Recorded
  <2> QED BY <1>2, <1>3, <1>5, <1>10, <2>1 DEF RecordBlock, AsideWell, Aside
<1>11. CASE Advance(a)
  <2>1. act[a].pc = "advance"
    BY <1>1, <1>11 DEF Advance, At
  <2>2. (\E pc : Goes(a, pc) /\ pc # "putoff") /\ (UNCHANGED queue \/ Drop(a))
    BY <1>4, <1>11 DEF Advance
  <2>3. UNCHANGED task \/ \E next \in NextAfter(act[a].c.row.expr, now) : SetNext(Working(a), next)
    BY <1>11, <2>1 DEF Advance
  <2>4. \A t \in Tasks : \/ task'[t].next = task[t].next /\ (task'[t].here => task[t].here)
                         \/ task'[t].next \in Nat /\ now < task'[t].next
    <3>1. \A next \in NextAfter(act[a].c.row.expr, now) : next \in Nat /\ now < next
      BY <1>5, NextIsLater
    <3>2. task \in [Tasks -> Row]
      BY DEF Typed, TypeOK
    <3> QED BY <2>3, <3>1, <3>2 DEF SetNext, Row
  <2> QED BY <1>2, <1>3, <1>5, <1>11, <2>2, <2>4 DEF Advance, AsideWell, Aside, history
<1>12. ASSUME NEW r \in Runners, Start(a, r) PROVE AsideWell
  <2>1. \E pc : Goes(a, pc) /\ pc # "putoff"
    BY <1>4, <1>12 DEF Start
  <2>2. ran' = ran \cup {} /\ again' = again \cup ({} \cap ran)
    BY <1>1, <1>12 DEF Start
  <2> QED BY <1>2, <1>5, <1>12, <2>1, <2>2 DEF Start, AsideWell, Aside, table
<1> QED BY <1>6, <1>7, <1>8, <1>9, <1>10, <1>11, <1>12, <1>13 DEF Steps, ConditionEnds

(* An actor other than the loop gets something to do.                      *)
LEMMA ActsAside ==
  ASSUME Typed, WhyInv, NEW a \in Actors, a # "loop", NEW d \in Doing,
         d.why # "schedule", d.pc # "putoff", act' = [act EXCEPT ![a] = d]
  PROVE  act'["loop"] = act["loop"] /\ WhyInv'
BY LoopActs DEF WhyInv, Typed, TypeOK

LEMMA MainAside ==
  ASSUME Typed, WhyInv, LoopClock, Tick \/ Stop \/ EventsEnd \/ UNCHANGED vars
  PROVE  AsideWell
<1>1. CASE Tick \/ UNCHANGED vars
  BY <1>1, SlotNumbers
     DEF Tick, vars, table, engine, history, AsideWell, Aside, WhyInv
<1>2. CASE Stop
  <2>1. [Resting EXCEPT !.pc = "next", !.why = "system_shutdown"] \in Doing
    BY DEF Resting, Doing, Positions, Whys
  <2>2. act'["loop"] = act["loop"] /\ WhyInv'
    BY <1>2, <2>1, ActsAside, LoopActs DEF Stop, Resting
  <2>3. queue'["loop"] = queue["loop"]
    BY <1>2 DEF Stop, Typed, TypeOK
  <2> QED BY <1>2, <2>2, <2>3, SlotNumbers DEF Stop, AsideWell, Aside, history
<1>3. CASE EventsEnd
  <2>1. PICK pc \in {"idle", "join"} : Goes("main", pc)
    BY <1>3 DEF EventsEnd
  <2>2. act' = [act EXCEPT !["main"] = [act["main"] EXCEPT !.pc = pc, !.c = NoCopy]]
    BY <2>1 DEF Goes, Between
  <2>3. [act["main"] EXCEPT !.pc = pc, !.c = NoCopy] \in Doing
    BY LoopActs DEF Typed, TypeOK, Doing, Positions
  <2>4. act["main"].why # "schedule"
    BY LoopActs DEF WhyInv
  <2>5. act'["loop"] = act["loop"] /\ WhyInv'
    BY <2>2, <2>3, <2>4, ActsAside, LoopActs DEF Typed, TypeOK, Doing
  <2> QED BY <1>3, <2>5, SlotNumbers DEF EventsEnd, AsideWell, Aside, table, history
<1> QED BY <1>1, <1>2, <1>3

LEMMA RequestAside ==
  ASSUME Typed, WhyInv, LoopClock, Request
  PROVE  AsideWell
<1>1. ASSUME NEW t \in Tasks, ClearResults(t) \/ DeleteTask(t) PROVE AsideWell
  BY <1>1, SlotNumbers
     DEF ClearResults, DeleteTask, AsideWell, Aside, WhyInv, table, engine, history, Row,
         Typed, TypeOK
<1>2. ASSUME NEW t \in Tasks, NEW h \in Handlers, RunTask(h, t) PROVE AsideWell
  <2>1. [Resting EXCEPT !.pc = "running", !.c = CopyOf(t)] \in Doing
    BY CopiesAreTyped DEF Typed, Resting, Doing, Positions, Whys
  <2>2. act'["loop"] = act["loop"] /\ WhyInv'
    BY <1>2, <2>1, ActsAside, LoopActs DEF RunTask, Resting
  <2> QED BY <1>2, <2>2, SlotNumbers DEF RunTask, AsideWell, Aside, table, history
<1>3. ASSUME NEW t \in Tasks, NEW h \in Handlers, UpdateTask(h, t) PROVE AsideWell
  <2>1. PICK active \in BOOLEAN, condition \in BOOLEAN, expr \in ExprsOf[t] :
        \E row \in Edits(t, active, expr, condition) :
           act' = [act EXCEPT ![h] = [Resting EXCEPT !.pc = "write", !.c = [id |-> t, row |-> row]]]
    BY <1>3 DEF UpdateTask
  <2>2. PICK row \in Edits(t, active, expr, condition) :
           act' = [act EXCEPT ![h] = [Resting EXCEPT !.pc = "write", !.c = [id |-> t, row |-> row]]]
    BY <2>1
  <2>3. [Resting EXCEPT !.pc = "write", !.c = [id |-> t, row |-> row]] \in Doing
    BY EditsAreTyped DEF Typed, Copy, Resting, Doing, Positions, Whys
  <2>4. act'["loop"] = act["loop"] /\ WhyInv'
    BY <2>2, <2>3, ActsAside, LoopActs DEF Resting
  <2> QED BY <1>3, <2>4, SlotNumbers DEF UpdateTask, AsideWell, Aside, table, history
<1> QED BY <1>1, <1>2, <1>3 DEF Request

LEMMA WriteAside ==
  ASSUME Typed, WhyInv, LoopClock, NEW h \in Handlers, WriteTask(h)
  PROVE  AsideWell
<1>1. act' = [act EXCEPT ![h] = [act[h] EXCEPT !.pc = "idle", !.c = NoCopy]]
  BY DEF WriteTask, Goes, Between
<1>2. [act[h] EXCEPT !.pc = "idle", !.c = NoCopy] \in Doing
  BY LoopActs DEF Typed, TypeOK, Doing, Positions
<1>3. act[h].why # "schedule" /\ h \in Actors /\ h # "loop"
  BY LoopActs DEF WhyInv
<1>4. act'["loop"] = act["loop"] /\ WhyInv'
  BY <1>1, <1>2, <1>3, ActsAside DEF Typed, TypeOK, Doing
<1>5. act[h].c \in Copy
  BY <1>3 DEF Typed, WorkHasTask, WriteTask, At, Busy, Positions, Between
<1>6. \A t \in Tasks : \/ task'[t].next = task[t].next /\ (task'[t].here => task[t].here)
                       \/ \A p \in ran \ restored' : p[1] = t => p[2] < task'[t].next
  <2>1. CASE ~ task[act[h].c.id].here
    BY <2>1 DEF WriteTask
  <2>2. CASE task[act[h].c.id].here
    <3>1. /\ task' = [task EXCEPT ![act[h].c.id] = act[h].c.row]
          /\ restored' = restored \cup {p \in ran : p[1] = act[h].c.id /\ p[2] >= act[h].c.row.next}
      BY <2>2 DEF WriteTask
    <3>2. act[h].c.id \in Tasks /\ act[h].c.row.next \in Nat
      BY <1>5 DEF Copy, Row
    <3> SUFFICES ASSUME NEW t \in Tasks
                 PROVE  \/ task'[t].next = task[t].next /\ (task'[t].here => task[t].here)
                        \/ \A p \in ran \ restored' : p[1] = t => p[2] < task'[t].next
      OBVIOUS
    <3>3. CASE t = act[h].c.id
      <4>1. task'[t] = act[h].c.row
        BY <3>1, <3>2, <3>3 DEF Typed, TypeOK
      <4> QED BY <3>1, <3>2, <3>3, <4>1, SlotNumbers
    <3>4. CASE t # act[h].c.id
      BY <3>1, <3>4 DEF Typed, TypeOK
    <3> QED BY <3>3, <3>4
  <2> QED BY <2>1, <2>2
<1>7. restored \subseteq restored'
  BY DEF WriteTask
<1> QED BY <1>4, <1>6, <1>7, SlotNumbers DEF WriteTask, AsideWell, Aside

LEMMA ThreadAside ==
  ASSUME Typed, WhyInv, LoopClock, NEW r \in Runners, RunnerStep(r)
  PROVE  AsideWell
BY SlotNumbers DEF RunnerStep, RecordStart, RunEnds, AsideWell, Aside, WhyInv, engine, history

LEMMA TakeEventAside ==
  ASSUME Typed, WhyInv, LoopClock, NEW c, TakeEvent(c)
  PROVE  AsideWell
<1>1. c \in Copy /\ queue'["loop"] = queue["loop"]
  BY TakenTyped DEF TakeEvent, Taken, Typed, TypeOK
<1>2. act'["loop"] = act["loop"] /\ WhyInv'
  <2>1. CASE UNCHANGED act
    BY <2>1 DEF WhyInv
  <2>2. CASE act' = [act EXCEPT !["main"].pc = "deps", !["main"].c = c]
    <3>1. [act["main"] EXCEPT !.pc = "deps", !.c = c] \in Doing
      BY <1>1, LoopActs DEF Typed, TypeOK, Doing, Positions
    <3>2. act' = [act EXCEPT !["main"] = [act["main"] EXCEPT !.pc = "deps", !.c = c]]
      BY <2>2
    <3>3. act["main"].why # "schedule"
      BY LoopActs DEF WhyInv
    <3> QED BY <3>1, <3>2, <3>3, ActsAside, LoopActs DEF Typed, TypeOK, Doing
  <2> QED BY <2>1, <2>2 DEF TakeEvent, UnlessRunning
<1> QED BY <1>1, <1>2, SlotNumbers DEF TakeEvent, AsideWell, Aside, table, history
-----------------------------------------------------------------------------
(* Starts and ends of the process.                                         *)
SlotWell == SlotCore /\ WhyInv

LEMMA BootSlots ==
  ASSUME Typed, SlotWell, Boot
  PROVE  SlotWell'
<1>1. /\ act'["loop"] = Resting
      /\ \A a \in Actors : act'[a].why # "schedule" /\ act'[a].pc \in {"idle", "next"}
      /\ queue'["loop"] = {} /\ phase' = "up" /\ started' = now
      /\ UNCHANGED <<now, ran, again, restored>>
  BY LoopActs DEF Boot, Resting
<1>2. \A p \in ran : p[2] < now
  BY SlotNumbers DEF SlotWell, SlotCore, LoopClock, Boot
<1>3. \A t, next : Before(t, next)'
  BY <1>1, <1>2 DEF Before
<1>4. LoopClock'
  BY <1>1, <1>2, SlotNumbers DEF LoopClock, LoopBusy, Resting
<1>5. TableInv'
  BY <1>3 DEF TableInv
<1>6. QueueInv' /\ TakenInv' /\ WhyInv'
  BY <1>1, LoopActs DEF QueueInv, TakenInv, WhyInv, OnSchedule, LoopBusy, Resting
<1>7. SlotOnce'
  BY <1>1 DEF SlotWell, SlotCore, SlotOnce
<1> QED BY <1>4, <1>5, <1>6, <1>7 DEF SlotWell, SlotCore

LEMMA EndSlots ==
  ASSUME Typed, SlotWell, ProcessGone
  PROVE  SlotWell'
<1>1. /\ act'["loop"] = [Resting EXCEPT !.moment = act["loop"].moment]
      /\ \A a \in Actors : act'[a].why # "schedule" /\ act'[a].pc = "idle"
      /\ queue'["loop"] = {} /\ phase' = "down"
      /\ UNCHANGED <<now, started, ran, again, restored>>
  BY LoopActs DEF ProcessGone, Resting, history
<1>2. act'["loop"].moment = act["loop"].moment /\ act'["loop"].pc = "idle"
  BY <1>1 DEF Resting
<1>3. LoopClock'
  BY <1>1, <1>2 DEF SlotWell, SlotCore, LoopClock, LoopBusy
<1>4. TableInv' /\ QueueInv' /\ TakenInv' /\ WhyInv'
  BY <1>1, <1>2, LoopActs DEF TableInv, QueueInv, TakenInv, WhyInv, OnSchedule, LoopBusy
<1>5. SlotOnce'
  BY <1>1 DEF SlotWell, SlotCore, SlotOnce
<1> QED BY <1>3, <1>4, <1>5 DEF SlotWell, SlotCore
-----------------------------------------------------------------------------
(* The loop fetches and takes tasks.                                       *)
LEMMA BeginSlots ==
  ASSUME Typed, SlotWell, LoopBegin
  PROVE  SlotWell'
<1>1. /\ act' = [act EXCEPT !["loop"] = [Resting EXCEPT !.pc = "next", !.why = "schedule",
                                                        !.moment = now]]
      /\ queue'["loop"] = DueTasks(now)
      /\ UNCHANGED <<now, task, started, ran, again, restored, phase>>
      /\ phase = "up" /\ act["loop"].pc = "idle"
  BY DEF LoopBegin, table, history, Typed, TypeOK
<1>2. /\ act'["loop"].pc = "next" /\ act'["loop"].why = "schedule"
      /\ act'["loop"].moment = now /\ act'["loop"].c = NoCopy
      /\ \A a \in Actors \ {"loop"} : act'[a] = act[a]
  BY <1>1, LoopActs DEF Typed, TypeOK, Resting
<1>3. \A t, next : Before(t, next) => Before(t, next)'
  BY <1>1 DEF Before
<1>4. \A c \in DueTasks(now) :
        /\ c.id \in Tasks /\ c = CopyOf(c.id) /\ c.row = task[c.id] /\ task[c.id].here
        /\ Kind[c.id] = "schedule" /\ c.row.next <= now
  BY DEF DueTasks, Active, CopyOf
<1>5. LoopClock'
  BY <1>1, <1>2, SlotNumbers DEF SlotWell, SlotCore, LoopClock, LoopBusy
<1>6. TableInv'
  BY <1>1, <1>3 DEF SlotWell, SlotCore, TableInv
<1>7. QueueInv'
  <2>1. \A c \in DueTasks(now) : Before(c.id, c.row.next)
    BY <1>1, <1>4 DEF SlotWell, SlotCore, TableInv
  <2>2. \A c \in DueTasks(now) : c.id # NoCopy.id
    BY <1>4, SchedulerConstants DEF NoCopy
  <2> QED BY <1>1, <1>2, <1>3, <1>4, <2>1, <2>2 DEF QueueInv
<1>8. TakenInv' /\ WhyInv'
  BY <1>1, <1>2 DEF SlotWell, TakenInv, WhyInv
<1>9. SlotOnce'
  BY <1>1 DEF SlotWell, SlotCore, SlotOnce
<1> QED BY <1>5, <1>6, <1>7, <1>8, <1>9 DEF SlotWell, SlotCore

LEMMA FetchSlots ==
  ASSUME Typed, SlotWell, FetchEvents
  PROVE  SlotWell'
<1>1. /\ act' = [act EXCEPT !["loop"].why = "condition"]
      /\ queue'["loop"] = Active("script")
      /\ UNCHANGED <<now, task, started, ran, again, restored, phase>>
      /\ act["loop"].pc = "next" /\ phase # "down"
  BY DEF FetchEvents, At, table, history, Typed, TypeOK
<1>2. /\ act'["loop"].pc = "next" /\ act'["loop"].why = "condition"
      /\ act'["loop"].moment = act["loop"].moment
      /\ \A a \in Actors \ {"loop"} : act'[a] = act[a]
  BY <1>1, LoopActs DEF Typed, TypeOK, Doing
<1>3. \A t, next : Before(t, next) => Before(t, next)'
  BY <1>1 DEF Before
<1>4. LoopClock'
  BY <1>1, <1>2 DEF SlotWell, SlotCore, LoopClock, LoopBusy
<1>5. TableInv'
  BY <1>1, <1>2, <1>3 DEF SlotWell, SlotCore, TableInv
<1>6. QueueInv' /\ TakenInv' /\ WhyInv'
  BY <1>1, <1>2 DEF SlotWell, QueueInv, TakenInv, WhyInv, OnSchedule, LoopBusy, Active, CopyOf
<1>7. SlotOnce'
  BY <1>1 DEF SlotWell, SlotCore, SlotOnce
<1> QED BY <1>4, <1>5, <1>6, <1>7 DEF SlotWell, SlotCore

(* The loop goes on without a start and without a change of the table.     *)
Onward ==
  /\ UNCHANGED <<now, started, ran, again, restored, phase>>
  /\ \A t \in Tasks : task'[t].next = task[t].next /\ task'[t].here = task[t].here
  /\ queue'["loop"] \subseteq queue["loop"]
  /\ \A a \in Actors \ {"loop"} : act'[a] = act[a]
  /\ act'["loop"].why = act["loop"].why /\ act'["loop"].moment = act["loop"].moment
  /\ act["loop"].pc # "idle" /\ phase # "down"

LEMMA OnwardKeeps ==
  ASSUME Typed, SlotWell, Onward,
         act["loop"].pc # "advance" \/ ~ OnSchedule,
         \/ act'["loop"].pc \in {"next", "idle", "putoff"} /\ act'["loop"].c \in {NoCopy, act["loop"].c}
         \/ act'["loop"].pc = "block" /\ act["loop"].pc = "deps" /\ act'["loop"].c = act["loop"].c
         \/ act["loop"].why = "condition"
  PROVE  SlotWell'
<1>1. \A t, next : Before(t, next) => Before(t, next)'
  BY DEF Before, Onward
<1>2. LoopClock'
  BY DEF SlotWell, SlotCore, LoopClock, LoopBusy, Onward
<1>3. TableInv'
  BY <1>1 DEF SlotWell, SlotCore, TableInv, Onward
<1>4. QueueInv'
  <2>1. \A c \in queue["loop"] : c.id # NoCopy.id
    BY SlotNumbers, SchedulerConstants DEF NoCopy
  <2>2. OnSchedule' => OnSchedule
    BY DEF OnSchedule, LoopBusy, Onward
  <2>3. act'["loop"].c \in {NoCopy, act["loop"].c} \/ ~ OnSchedule'
    BY DEF OnSchedule, Onward
  <2> QED BY <1>1, <2>1, <2>2, <2>3 DEF SlotWell, SlotCore, QueueInv, Onward
<1>5. TakenInv'
  <2> SUFFICES ASSUME act'["loop"].pc \in {"deps", "block", "advance"}, OnSchedule'
               PROVE  /\ act["loop"].c \in Copy /\ Kind[act["loop"].c.id] = "schedule"
                      /\ started <= act["loop"].c.row.next
                      /\ act["loop"].c.row.next <= act["loop"].moment
                      /\ Before(act["loop"].c.id, act["loop"].c.row.next)
                      /\ act'["loop"].c = act["loop"].c
    BY <1>1 DEF TakenInv, LoopBusy, Onward, Before
  <2>1. act["loop"].pc = "deps" /\ OnSchedule /\ act'["loop"].c = act["loop"].c
    BY DEF OnSchedule, LoopBusy, Onward
  <2> QED BY <2>1 DEF SlotWell, SlotCore, TakenInv
<1>6. WhyInv'
  BY LoopActs DEF SlotWell, WhyInv, Onward
<1>7. SlotOnce'
  BY DEF SlotWell, SlotCore, SlotOnce, Onward
<1> QED BY <1>2, <1>3, <1>4, <1>5, <1>6, <1>7 DEF SlotWell, SlotCore

LEMMA SkipSlots ==
  ASSUME Typed, SlotWell, NEW c, SkipExpired(c)
  PROVE  SlotWell'
<1>1. /\ c \in queue["loop"] /\ c.row.next < started
      /\ queue'["loop"] = queue["loop"] \ {c}
      /\ UNCHANGED <<now, act, started, ran, again, restored, phase>>
      /\ act["loop"].pc = "next" /\ OnSchedule /\ phase # "down"
  BY DEF SkipExpired, Taken, At, OnSchedule, LoopBusy, history, Typed, TypeOK
<1>2. c.id \in Tasks /\ c.row.next \in Nat /\ started \in Nat
  BY <1>1, SlotNumbers
<1>3. \A p \in ran \ restored : p[1] = c.id => p[2] < started
  BY <1>1, <1>2, SlotNumbers DEF SlotWell, SlotCore, QueueInv, Before
<1>4. \A t, next : Before(t, next) => Before(t, next)'
  BY <1>1 DEF Before
<1>5. \A t \in Tasks \ {c.id} : task'[t] = task[t]
  BY <1>2 DEF SkipExpired, SetNext, Typed, TypeOK
<1>6. TableInv'
  <2> SUFFICES ASSUME NEW t \in Tasks
               PROVE  Before(t, task[t].next)' \/ ~ task'[t].here
    BY DEF TableInv
  <2>1. CASE t = c.id
    BY <1>1, <1>3, <2>1 DEF Before
  <2>2. CASE t # c.id
    BY <1>1, <1>4, <1>5, <2>2 DEF SlotWell, SlotCore, TableInv
  <2> QED BY <2>1, <2>2
<1>7. LoopClock' /\ QueueInv' /\ TakenInv' /\ WhyInv' /\ SlotOnce'
  BY <1>1, <1>4 DEF SlotWell, SlotCore, LoopClock, LoopBusy, QueueInv, TakenInv, WhyInv,
                    OnSchedule, SlotOnce
<1> QED BY <1>6, <1>7 DEF SlotWell, SlotCore

LEMMA TakeDueSlots ==
  ASSUME Typed, SlotWell, NEW c, TakeDue(c)
  PROVE  SlotWell'
<1>1. /\ c \in queue["loop"] /\ started <= c.row.next
      /\ queue'["loop"] = queue["loop"] \ {c}
      /\ UNCHANGED <<now, task, started, ran, again, restored, phase>>
      /\ act["loop"].pc = "next" /\ OnSchedule /\ phase # "down"
  BY SlotNumbers
     DEF TakeDue, Taken, At, OnSchedule, LoopBusy, table, history, Typed, TypeOK
<1>2. CASE UNCHANGED act
  <2>1. Onward
    BY <1>1, <1>2 DEF Onward
  <2> QED BY <1>1, <1>2, <2>1, OnwardKeeps
<1>3. CASE act' = [act EXCEPT !["loop"].pc = "deps", !["loop"].c = c]
  <2>1. /\ act'["loop"].pc = "deps" /\ act'["loop"].c = c
        /\ act'["loop"].why = act["loop"].why /\ act'["loop"].moment = act["loop"].moment
        /\ \A a \in Actors \ {"loop"} : act'[a] = act[a]
    BY <1>3, LoopActs DEF Typed, TypeOK, Doing
  <2>2. \A t, next : Before(t, next) => Before(t, next)'
    BY <1>1 DEF Before
  <2>3. LoopClock'
    BY <1>1, <2>1 DEF SlotWell, SlotCore, LoopClock, LoopBusy
  <2>4. TableInv'
    BY <1>1, <2>2 DEF SlotWell, SlotCore, TableInv
  <2>5. QueueInv'
    BY <1>1, <2>1, <2>2 DEF SlotWell, SlotCore, QueueInv, OnSchedule, LoopBusy
  <2>6. TakenInv'
    <3>1. c \in Copy /\ Kind[c.id] = "schedule" /\ c.row.next <= act["loop"].moment
          /\ Before(c.id, c.row.next)
      BY <1>1, SlotNumbers DEF SlotWell, SlotCore, QueueInv
    <3>2. Before(c.id, c.row.next)'
      BY <2>2, <3>1
    <3> QED BY <1>1, <2>1, <3>1, <3>2 DEF TakenInv
  <2>7. WhyInv' /\ SlotOnce'
    BY <1>1, <2>1 DEF SlotWell, SlotCore, WhyInv, SlotOnce
  <2> QED BY <2>3, <2>4, <2>5, <2>6, <2>7 DEF SlotWell, SlotCore
<1> QED BY <1>2, <1>3 DEF TakeDue, UnlessRunning

LEMMA TakeConditionSlots ==
  ASSUME Typed, SlotWell, NEW c, TakeCondition(c)
  PROVE  SlotWell'
<1>1. /\ queue'["loop"] \subseteq queue["loop"]
      /\ UNCHANGED <<now, started, ran, again, restored, phase>>
      /\ act["loop"].pc = "next" /\ act["loop"].why = "condition" /\ phase # "down"
  BY DEF TakeCondition, Taken, At, history, Typed, TypeOK
<1>2. act' = act \/ act' = [act EXCEPT !["loop"].pc = "condition", !["loop"].c = c]
  BY DEF TakeCondition
<1>3. /\ act'["loop"].why = act["loop"].why /\ act'["loop"].moment = act["loop"].moment
      /\ \A a \in Actors \ {"loop"} : act'[a] = act[a]
  BY <1>2, LoopActs DEF Typed, TypeOK, Doing
<1>4. \A t \in Tasks : task'[t].next = task[t].next /\ task'[t].here = task[t].here
  BY DEF TakeCondition, Typed, TypeOK, Row
<1>5. Onward
  BY <1>1, <1>3, <1>4 DEF Onward
<1> QED BY <1>1, <1>5, OnwardKeeps

LEMMA LoopEndsSlots ==
  ASSUME Typed, SlotWell, LoopEnds
  PROVE  SlotWell'
<1>1. /\ act'["loop"].why = act["loop"].why /\ act'["loop"].moment = act["loop"].moment
      /\ \A a \in Actors \ {"loop"} : act'[a] = act[a]
  BY LoopActs DEF LoopEnds, Goes, Typed, TypeOK, Doing
<1>2. act["loop"].pc = "next" /\ act["loop"].why = "condition" /\ phase # "down"
  BY DEF LoopEnds, At
<1>3. Onward
  BY <1>1, <1>2 DEF LoopEnds, Onward, table, history
<1> QED BY <1>2, <1>3, OnwardKeeps
-----------------------------------------------------------------------------
(* The loop at work on a task.                                             *)
LEMMA LoopGoes ==
  ASSUME Typed, NEW pc, Goes("loop", pc)
  PROVE  /\ act'["loop"].pc = pc /\ act'["loop"].why = act["loop"].why
         /\ act'["loop"].moment = act["loop"].moment
         /\ act'["loop"].c = IF pc \in Between THEN NoCopy ELSE act["loop"].c
         /\ \A a \in Actors \ {"loop"} : act'[a] = act[a]
BY LoopActs DEF Goes, Typed, TypeOK, Doing

LEMMA LoopDrops ==
  ASSUME Typed, UNCHANGED queue \/ Drop("loop")
  PROVE  queue'["loop"] \subseteq queue["loop"]
BY LoopActs DEF Drop, Typed, TypeOK

LEMMA LoopChecks ==
  ASSUME Typed, SlotWell,
         CheckRunning("loop") \/ ConditionEnds("loop") \/ CheckDeps("loop") \/ RecordBlock("loop")
  PROVE  SlotWell'
<1>1. UNCHANGED <<now, task, started, ran, again, restored, phase>> /\ phase # "down"
  BY DEF CheckRunning, ConditionEnds, ConditionMatches, ConditionErrs, AccountGone,
         ConditionMisses, CheckDeps, RecordBlock, table, history, At
<1>2. UNCHANGED queue \/ Drop("loop")
  BY DEF CheckRunning, ConditionEnds, ConditionMatches, ConditionErrs, AccountGone,
         ConditionMisses, CheckDeps, RecordBlock, Recorded
<1>3. CASE CheckRunning("loop") \/ ConditionEnds("loop")
  <2>1. act["loop"].pc \in {"running", "condition"} /\ act["loop"].why = "condition"
    BY <1>3 DEF CheckRunning, ConditionEnds, ConditionMatches, ConditionErrs,
                AccountGone, ConditionMisses, At, SlotWell, WhyInv
  <2>2. PICK pc : Goes("loop", pc)
    BY <1>3 DEF CheckRunning, ConditionEnds, ConditionMatches, ConditionErrs,
                AccountGone, ConditionMisses, Recorded
  <2>3. Onward
    BY <1>1, <1>2, <2>1, <2>2, LoopGoes, LoopDrops DEF Onward
  <2> QED BY <2>1, <2>3, OnwardKeeps
<1>4. CASE CheckDeps("loop")
  <2>1. act["loop"].pc = "deps" /\ Goes("loop", "block")
    BY <1>4 DEF CheckDeps, At
  <2>2. Onward
    BY <1>1, <1>2, <2>1, LoopGoes, LoopDrops DEF Onward
  <2> QED BY <2>1, <2>2, LoopGoes, OnwardKeeps DEF Between
<1>5. CASE RecordBlock("loop")
  <2>1. act["loop"].pc = "block"
    BY <1>5 DEF RecordBlock, At
  <2>2. PICK pc \in {"putoff", "next", "idle"} : Goes("loop", pc)
    BY <1>5, LoopActs DEF RecordBlock, Recorded, Done, Raised
  <2>3. Onward
    BY <1>1, <1>2, <2>1, <2>2, LoopGoes, LoopDrops DEF Onward
  <2> QED BY <2>1, <2>2, <2>3, LoopGoes, OnwardKeeps
<1> QED BY <1>3, <1>4, <1>5

LEMMA StartSlots ==
  ASSUME Typed, SlotWell, NEW r \in Runners, Start("loop", r)
  PROVE  SlotWell'
<1> DEFINE c == act["loop"].c
<1>1. /\ act["loop"].pc = "deps" /\ phase # "down" /\ LoopBusy
      /\ UNCHANGED <<now, task, queue, started, restored, phase>>
  BY DEF Start, At, LoopBusy, table
<1>2. PICK pc \in {"advance", "next"} :
        /\ Goes("loop", pc)
        /\ Kind[c.id] = "schedule" => pc = "advance"
  BY LoopActs DEF Start, Done, Working
<1>3. /\ act'["loop"].pc = pc /\ act'["loop"].why = act["loop"].why
      /\ act'["loop"].moment = act["loop"].moment
      /\ act'["loop"].c = IF pc \in Between THEN NoCopy ELSE c
      /\ \A a \in Actors \ {"loop"} : act'[a] = act[a]
  BY <1>2, LoopGoes
<1>4. WhyInv'
  BY <1>3 DEF SlotWell, WhyInv
<1>5. CASE act["loop"].why # "schedule"
  <2>1. ran' = ran \cup {} /\ again' = again \cup ({} \cap ran)
    BY <1>5 DEF Start
  <2>2. ran' = ran /\ again' = again
    BY <2>1
  <2>3. \A t, next : Before(t, next) => Before(t, next)'
    BY <1>1, <2>2 DEF Before
  <2>4. LoopClock' /\ TakenInv' /\ SlotOnce'
    BY <1>1, <1>3, <1>5, <2>2
       DEF SlotWell, SlotCore, LoopClock, LoopBusy, TakenInv, OnSchedule, SlotOnce
  <2>5. TableInv'
    BY <1>1, <2>3 DEF SlotWell, SlotCore, TableInv
  <2>6. QueueInv'
    BY <1>1, <1>3, <1>5 DEF SlotWell, SlotCore, QueueInv, OnSchedule, LoopBusy
  <2> QED BY <1>4, <2>4, <2>5, <2>6 DEF SlotWell, SlotCore
<1>6. CASE act["loop"].why = "schedule"
  <2>1. /\ c \in Copy /\ Kind[c.id] = "schedule"
        /\ started <= c.row.next /\ c.row.next <= act["loop"].moment
        /\ Before(c.id, c.row.next)
    BY <1>1, <1>6 DEF SlotWell, SlotCore, TakenInv, OnSchedule
  <2>2. c.id \in Tasks /\ c.row.next \in Nat /\ started \in Nat
    BY <2>1, SlotNumbers DEF Copy, Row
  <2>3. ran' = ran \cup {<<c.id, c.row.next>>}
        /\ again' = again \cup ({<<c.id, c.row.next>>} \cap ran)
    BY <1>6 DEF Start, Working
  <2>4. <<c.id, c.row.next>> \notin ran \ restored
    BY <2>1, <2>2 DEF Before
  <2>5. SlotOnce'
    BY <1>1, <2>3, <2>4 DEF SlotWell, SlotCore, SlotOnce
  <2>6. LoopClock'
    BY <1>1, <1>3, <2>1, <2>3 DEF SlotWell, SlotCore, LoopClock, LoopBusy
  <2>7. \A t, next : t # c.id /\ Before(t, next) => Before(t, next)'
    BY <1>1, <2>3 DEF Before
  <2>8. act'["loop"].pc = "advance" /\ OnSchedule' /\ act'["loop"].c = c
    BY <1>2, <1>3, <1>6, <2>1 DEF OnSchedule, LoopBusy, Between
  <2>9. TableInv'
    BY <1>1, <2>7, <2>8 DEF SlotWell, SlotCore, TableInv
  <2>10. QueueInv'
    BY <1>1, <1>3, <1>6, <2>7, <2>8 DEF SlotWell, SlotCore, QueueInv, OnSchedule
  <2>11. TakenInv'
    BY <1>1, <2>1, <2>8 DEF TakenInv
  <2> QED BY <1>4, <2>5, <2>6, <2>9, <2>10, <2>11 DEF SlotWell, SlotCore
<1> QED BY <1>5, <1>6

LEMMA AdvanceSlots ==
  ASSUME Typed, SlotWell, ExprInv, NoDeadEnds, Advance("loop")
  PROVE  SlotWell'
<1> DEFINE c == act["loop"].c
           moment == act["loop"].moment
           base == IF act["loop"].pc = "putoff" THEN moment + MinuteTicks ELSE moment
<1>1. /\ act["loop"].pc \in {"advance", "putoff"} /\ phase # "down" /\ LoopBusy
      /\ UNCHANGED <<now, started, ran, again, restored, phase>>
  BY DEF Advance, At, LoopBusy, history
<1>2. c \in Copy /\ c.id \in Tasks /\ Working("loop") = c.id
  BY <1>1, LoopActs DEF Typed, WorkHasTask, Busy, Positions, Between, Copy, Working
<1>3. moment \in Nat /\ base \in Nat /\ moment <= base
  BY SlotNumbers, SchedulerConstants
<1>4. \/ /\ NextAfter(c.row.expr, base) = {}
         /\ Goes("loop", "idle") /\ Drop("loop") /\ UNCHANGED task
      \/ \E next \in NextAfter(c.row.expr, base) :
           SetNext(c.id, next) /\ Goes("loop", "next") /\ UNCHANGED queue
  <2>1. Raised("loop") = "idle" /\ Done("loop") = "next"
    BY LoopActs DEF Raised, Done
  <2>2. base = CASE act["loop"].pc = "putoff" -> moment + MinuteTicks
                 [] act["loop"].pc = "advance" /\ "loop" = "loop" -> moment
                 [] act["loop"].pc = "advance" /\ "loop" # "loop" -> now
    BY <1>1
  <2> HIDE DEF base
  <2> QED BY <1>2, <2>1, <2>2 DEF Advance
<1>5. CASE /\ NextAfter(c.row.expr, base) = {}
           /\ Goes("loop", "idle") /\ Drop("loop") /\ UNCHANGED task
  <2>1. act["loop"].pc = "advance" => ~ OnSchedule
    <3> SUFFICES ASSUME act["loop"].pc = "advance", OnSchedule PROVE FALSE
      OBVIOUS
    <3>1. Kind[c.id] = "schedule"
      BY DEF SlotWell, SlotCore, TakenInv
    <3>2. c.row.expr \in ExprsOf[c.id]
      BY <1>2, NoCopyIsNone, LoopActs DEF ExprInv
    <3>3. c.row.expr \in Exprs
      BY <1>2, <3>1, <3>2, SchedulerConstants
    <3> QED BY <1>3, <1>5, <3>3 DEF NoDeadEnds
  <2>2. Onward
    BY <1>1, <1>5, LoopGoes, LoopDrops DEF Onward, LoopBusy
  <2> QED BY <1>5, <2>1, <2>2, LoopGoes, OnwardKeeps DEF Between
<1>6. ASSUME NEW next \in NextAfter(c.row.expr, base),
             SetNext(c.id, next), Goes("loop", "next"), UNCHANGED queue
      PROVE  SlotWell'
  <2>1. next \in Nat /\ moment < next
    BY <1>3, <1>6, NextIsLater
  <2>2. \A t, n : Before(t, n) => Before(t, n)'
    BY <1>1 DEF Before
  <2>3. /\ act'["loop"].pc = "next" /\ act'["loop"].why = act["loop"].why
        /\ act'["loop"].moment = moment /\ act'["loop"].c = NoCopy
        /\ \A a \in Actors \ {"loop"} : act'[a] = act[a]
    BY <1>6, LoopGoes DEF Between
  <2>4. LoopClock' /\ TakenInv' /\ WhyInv' /\ SlotOnce'
    BY <1>1, <2>3 DEF SlotWell, SlotCore, LoopClock, LoopBusy, TakenInv, WhyInv, SlotOnce
  <2>5. TableInv'
    <3> SUFFICES ASSUME NEW t \in Tasks PROVE Before(t, task[t].next)' \/ ~ task'[t].here
      BY DEF TableInv
    <3>1. CASE t = c.id
      <4>1. task[t].here => task'[t].next = next
        BY <1>2, <1>6, <3>1 DEF SetNext, Typed, TypeOK, Row
      <4>2. Before(t, next)'
        BY <2>1, <2>2, LaterIsBefore DEF SlotWell, SlotCore
      <4>3. ~ task[t].here => ~ task'[t].here
        BY <1>6, <3>1 DEF SetNext
      <4> QED BY <4>1, <4>2, <4>3 DEF Before
    <3>2. CASE t # c.id
      <4>1. task'[t] = task[t]
        BY <1>2, <1>6, <3>2 DEF SetNext, Typed, TypeOK
      <4> QED BY <1>1, <2>2, <3>2, <4>1 DEF SlotWell, SlotCore, TableInv, Before
    <3> QED BY <3>1, <3>2
  <2>6. QueueInv'
    <3>1. \A d \in queue["loop"] : d.id # NoCopy.id
      BY SlotNumbers, SchedulerConstants DEF NoCopy
    <3> QED BY <1>1, <1>6, <2>2, <2>3, <3>1
            DEF SlotWell, SlotCore, QueueInv, OnSchedule, LoopBusy
  <2> QED BY <2>4, <2>5, <2>6 DEF SlotWell, SlotCore
<1> QED BY <1>4, <1>5, <1>6
-----------------------------------------------------------------------------
(* A task and the copies of it have an expression that was tried for it.   *)
Fetched == {CopyOf(t) : t \in Tasks} \cup queue["loop"] \cup queue["main"] \cup {NoCopy}

SameExprs ==
  /\ \A t \in Tasks : task'[t].expr = task[t].expr
  /\ \A a \in Actors : act'[a].c = act[a].c \/ act'[a].c \in Fetched
  /\ queue'["loop"] \cup queue'["main"] \subseteq Fetched \ {NoCopy}

LEMMA SameExprsKeep ==
  ASSUME Typed, ExprInv, SameExprs
  PROVE  ExprInv'
<1>1. \A c \in Fetched : c # NoCopy => c.row.expr \in ExprsOf[c.id]
  BY DEF Fetched, CopyOf, ExprInv
<1> QED BY <1>1 DEF ExprInv, SameExprs

LEMMA QueuesAreFetched ==
  ASSUME Typed
  PROVE  /\ queue["loop"] \cup queue["main"] \subseteq Fetched \ {NoCopy}
         /\ \A k : Active(k) \subseteq Fetched \ {NoCopy}
         /\ \A t \in Tasks : CopyOf(t) \in Fetched
         /\ NoCopy \in Fetched
BY CopiesAreTyped, NoCopyIsNone DEF Typed, TypeOK, Fetched, Active

LEMMA GoesSameCopy ==
  ASSUME Typed, NEW a \in Actors, NEW pc, Goes(a, pc)
  PROVE  \A b \in Actors : act'[b].c = act[b].c \/ act'[b].c \in Fetched
BY QueuesAreFetched DEF Goes, Typed, TypeOK, Doing

LEMMA DropSameQueues ==
  ASSUME Typed, NEW a \in Actors, UNCHANGED queue \/ Drop(a)
  PROVE  queue'["loop"] \cup queue'["main"] \subseteq Fetched \ {NoCopy}
BY QueuesAreFetched DEF Drop, Typed, TypeOK

LEMMA StepsExprs ==
  ASSUME Typed, ExprInv, NEW a \in Actors, Steps(a)
  PROVE  SameExprs
<1>1. \E pc : Goes(a, pc)
  BY DEF Steps, CheckRunning, ConditionEnds, ConditionMatches, ConditionErrs, AccountGone,
         ConditionMisses, CheckDeps, RecordBlock, Recorded, Advance, Start
<1>2. UNCHANGED queue \/ Drop(a)
  BY DEF Steps, CheckRunning, ConditionEnds, ConditionMatches, ConditionErrs, AccountGone,
         ConditionMisses, CheckDeps, RecordBlock, Recorded, Advance, Start
<1>3. UNCHANGED task \/ \E next : SetNext(Working(a), next)
  BY DEF Steps, CheckRunning, ConditionEnds, ConditionMatches, ConditionErrs, AccountGone,
         ConditionMisses, CheckDeps, RecordBlock, Advance, Start, table
<1>4. \A t \in Tasks : task'[t].expr = task[t].expr
  BY <1>3 DEF SetNext, Typed, TypeOK, Row
<1> QED BY <1>1, <1>2, <1>4, GoesSameCopy, DropSameQueues DEF SameExprs

LEMMA TakeExprs ==
  ASSUME Typed, ExprInv, NEW c,
         SkipExpired(c) \/ TakeDue(c) \/ TakeCondition(c) \/ TakeEvent(c)
  PROVE  SameExprs
<1>1. \E a \in {"loop", "main"} : Taken(a, c)
  BY DEF SkipExpired, TakeDue, TakeCondition, TakeEvent
<1>2. c \in Fetched /\ queue'["loop"] \cup queue'["main"] \subseteq Fetched \ {NoCopy}
  BY <1>1, QueuesAreFetched DEF Taken, Fetched, Typed, TypeOK
<1>3. \/ act' = act
      \/ \E a \in {"loop", "main"}, pc \in {"deps", "condition"} :
           act' = [act EXCEPT ![a].pc = pc, ![a].c = c]
  BY DEF SkipExpired, TakeDue, TakeCondition, TakeEvent, UnlessRunning
<1>4. \A a \in Actors : act'[a].c = act[a].c \/ act'[a].c \in Fetched
  BY <1>2, <1>3 DEF Typed, TypeOK, Doing
<1>5. \A t \in Tasks : task'[t].expr = task[t].expr
  <2>1. \/ UNCHANGED task
        \/ \E next : SetNext(c.id, next)
        \/ \E moment : task' = [task EXCEPT ![c.id].checked = moment]
    BY DEF SkipExpired, TakeDue, TakeCondition, TakeEvent, table
  <2>2. task \in [Tasks -> Row]
    BY DEF Typed, TypeOK
  <2>3. ASSUME NEW next, SetNext(c.id, next) PROVE \A t \in Tasks : task'[t].expr = task[t].expr
    BY <2>2, <2>3 DEF SetNext, Row
  <2>4. ASSUME NEW moment, task' = [task EXCEPT ![c.id].checked = moment]
        PROVE  \A t \in Tasks : task'[t].expr = task[t].expr
    BY <2>2, <2>4 DEF Row
  <2> QED BY <2>1, <2>3, <2>4
<1> QED BY <1>2, <1>4, <1>5 DEF SameExprs

LEMMA PassExprs ==
  ASSUME Typed, ExprInv, LoopBegin \/ FetchEvents \/ LoopEnds \/ EventsEnd
  PROVE  SameExprs
<1>1. \A a \in Actors : act'[a].c = act[a].c \/ act'[a].c \in Fetched
  <2>1. CASE LoopBegin
    BY <2>1, QueuesAreFetched DEF LoopBegin, Resting, Typed, TypeOK
  <2>2. CASE FetchEvents
    BY <2>2 DEF FetchEvents, Typed, TypeOK, Doing
  <2>3. CASE LoopEnds \/ EventsEnd
    BY <2>3, GoesSameCopy, LoopActs DEF LoopEnds, EventsEnd
  <2> QED BY <2>1, <2>2, <2>3
<1>2. queue'["loop"] \cup queue'["main"] \subseteq Fetched \ {NoCopy}
  BY QueuesAreFetched
     DEF LoopBegin, FetchEvents, LoopEnds, EventsEnd, DueTasks, Typed, TypeOK
<1> QED BY <1>1, <1>2 DEF SameExprs, LoopBegin, FetchEvents, LoopEnds, EventsEnd, table

LEMMA LifeExprs ==
  ASSUME Typed, ExprInv, Boot \/ Stop \/ ProcessGone
  PROVE  SameExprs
<1>1. \A a \in Actors : act'[a].c = act[a].c \/ act'[a].c \in Fetched
  <2>1. CASE Boot \/ ProcessGone
    <3>1. \A a \in Actors : act'[a].c = NoCopy
      <4>1. CASE Boot
        BY <4>1 DEF Boot, Resting
      <4>2. CASE ProcessGone
        BY <4>2 DEF ProcessGone, Resting
      <4> QED BY <2>1, <4>1, <4>2
    <3> QED BY <3>1, QueuesAreFetched
  <2>2. CASE Stop
    BY <2>2, QueuesAreFetched DEF Stop, Resting, Typed, TypeOK
  <2> QED BY <2>1, <2>2
<1>2. queue'["loop"] \cup queue'["main"] \subseteq Fetched \ {NoCopy}
  BY QueuesAreFetched DEF Boot, Stop, ProcessGone, Typed, TypeOK
<1> QED BY <1>1, <1>2 DEF SameExprs, Boot, Stop, ProcessGone, table

LEMMA RequestExprs ==
  ASSUME Typed, ExprInv, Request
  PROVE  ExprInv'
<1>1. ASSUME NEW t \in Tasks, ClearResults(t) \/ DeleteTask(t) PROVE ExprInv'
  <2>1. UNCHANGED <<act, queue>> /\ \A u \in Tasks : task'[u].expr = task[u].expr
    BY <1>1 DEF ClearResults, DeleteTask, engine, table, Typed, TypeOK, Row
  <2> QED BY <2>1 DEF ExprInv
<1>2. ASSUME NEW t \in Tasks, NEW h \in Handlers, RunTask(h, t) PROVE ExprInv'
  <2>1. \A a \in Actors : act'[a].c = act[a].c \/ act'[a].c \in Fetched
    BY <1>2, QueuesAreFetched DEF RunTask, Resting, Typed, TypeOK
  <2>2. SameExprs
    BY <1>2, <2>1, QueuesAreFetched DEF RunTask, SameExprs, table
  <2> QED BY <2>2, SameExprsKeep
<1>3. ASSUME NEW t \in Tasks, NEW h \in Handlers, UpdateTask(h, t) PROVE ExprInv'
  <2>1. PICK active \in BOOLEAN, condition \in BOOLEAN, expr \in ExprsOf[t] :
        \E row \in Edits(t, active, expr, condition) :
           act' = [act EXCEPT ![h] = [Resting EXCEPT !.pc = "write", !.c = [id |-> t, row |-> row]]]
    BY <1>3 DEF UpdateTask
  <2>2. PICK row \in Edits(t, active, expr, condition) :
           act' = [act EXCEPT ![h] = [Resting EXCEPT !.pc = "write", !.c = [id |-> t, row |-> row]]]
    BY <2>1
  <2>3. row.expr = expr
    BY DEF Edits
  <2>4. \A a \in Actors : a # h => act'[a] = act[a]
    BY <2>2 DEF Typed, TypeOK
  <2>5. act'[h].c = [id |-> t, row |-> row]
    BY <2>2, LoopActs DEF Resting, Typed, TypeOK
  <2>6. UNCHANGED <<task, queue>>
    BY <1>3 DEF UpdateTask, table
  <2>7. \A a \in Actors : act'[a].c # NoCopy => act'[a].c.row.expr \in ExprsOf[act'[a].c.id]
    BY <2>3, <2>4, <2>5 DEF ExprInv
  <2> QED BY <2>6, <2>7 DEF ExprInv
<1> QED BY <1>1, <1>2, <1>3 DEF Request

LEMMA WriteExprs ==
  ASSUME Typed, ExprInv, NEW h \in Handlers, WriteTask(h)
  PROVE  ExprInv'
<1>1. h \in Actors /\ act[h].c \in Copy /\ act[h].c.id \in Tasks
  BY LoopActs DEF Typed, WorkHasTask, WriteTask, At, Busy, Positions, Between, Copy
<1>2. act[h].c.row.expr \in ExprsOf[act[h].c.id]
  BY <1>1, NoCopyIsNone DEF ExprInv
<1>3. \A t \in Tasks : task'[t].expr \in ExprsOf[t]
  BY <1>1, <1>2 DEF WriteTask, ExprInv, Typed, TypeOK
<1>4. \A a \in Actors : act'[a].c = act[a].c \/ act'[a].c = NoCopy
  BY DEF WriteTask, Goes, Between, Typed, TypeOK, Doing
<1> QED BY <1>3, <1>4 DEF WriteTask, ExprInv

LEMMA InitSlots == Init => SlotWell /\ ExprInv
<1> SUFFICES ASSUME Init PROVE SlotWell /\ ExprInv
  OBVIOUS
<1>1. LoopClock /\ TableInv /\ QueueInv /\ TakenInv /\ SlotOnce /\ WhyInv
  BY LoopActs DEF Init, LoopClock, TableInv, QueueInv, TakenInv, SlotOnce, WhyInv,
                  OnSchedule, LoopBusy, Resting
<1>2. \A t \in Tasks : task[t].expr \in ExprsOf[t]
  BY DEF Init, CreatedTasks, Created
<1>3. ExprInv
  BY <1>2 DEF Init, ExprInv, Resting
<1> QED BY <1>1, <1>3 DEF SlotWell, SlotCore

LEMMA NextSlots ==
  ASSUME Typed, SlotWell, ExprInv, NoDeadEnds, [Next]_vars
  PROVE  SlotWell' /\ ExprInv'
<1>1. AsideWell => SlotWell'
  BY AsideKeeps DEF AsideWell, SlotWell
<1>2. WhyInv /\ LoopClock
  BY DEF SlotWell, SlotCore
<1>3. CASE Tick \/ UNCHANGED vars
  BY <1>1, <1>2, <1>3, MainAside DEF Tick, vars, table, engine, ExprInv
<1>4. CASE Boot
  BY <1>4, BootSlots, LifeExprs, SameExprsKeep
<1>5. CASE Stop
  BY <1>1, <1>2, <1>5, MainAside, LifeExprs, SameExprsKeep
<1>6. CASE Crash \/ Exit
  BY <1>6, EndSlots, LifeExprs, SameExprsKeep DEF Crash, Exit
<1>7. CASE Request
  BY <1>1, <1>2, <1>7, RequestAside, RequestExprs
<1>8. CASE LoopStep /\ ~ Steps("loop")
  <2>1. CASE LoopBegin \/ FetchEvents \/ LoopEnds
    BY <2>1, BeginSlots, FetchSlots, LoopEndsSlots, PassExprs, SameExprsKeep
  <2>2. ASSUME NEW c, SkipExpired(c) \/ TakeDue(c) \/ TakeCondition(c)
        PROVE  SlotWell' /\ ExprInv'
    BY <2>2, SkipSlots, TakeDueSlots, TakeConditionSlots, TakeExprs, SameExprsKeep
  <2> QED BY <1>8, <2>1, <2>2 DEF LoopStep
<1>9. CASE Steps("loop")
  <2>1. ExprInv'
    BY <1>9, LoopActs, StepsExprs, SameExprsKeep
  <2>2. SlotWell'
    BY <1>9, LoopChecks, StartSlots, AdvanceSlots DEF Steps
  <2> QED BY <2>1, <2>2
<1>10. ASSUME NEW a \in Actors, a # "loop", Steps(a) PROVE SlotWell' /\ ExprInv'
  BY <1>1, <1>2, <1>10, StepsAside, StepsExprs, SameExprsKeep
<1>11. CASE EventsEnd
  BY <1>1, <1>2, <1>11, MainAside, PassExprs, SameExprsKeep
<1>12. ASSUME NEW c, TakeEvent(c) PROVE SlotWell' /\ ExprInv'
  BY <1>1, <1>2, <1>12, TakeEventAside, TakeExprs, SameExprsKeep
<1>13. ASSUME NEW h \in Handlers, WriteTask(h) PROVE SlotWell' /\ ExprInv'
  BY <1>1, <1>2, <1>13, WriteAside, WriteExprs
<1>14. ASSUME NEW r \in Runners, RunnerStep(r) PROVE SlotWell' /\ ExprInv'
  <2>1. UNCHANGED <<task, act, queue>>
    BY <1>14 DEF RunnerStep, RecordStart, RunEnds, engine
  <2> QED BY <1>1, <1>2, <1>14, <2>1, ThreadAside DEF ExprInv
<1> QED BY <1>3, <1>4, <1>5, <1>6, <1>7, <1>8, <1>9, <1>10, <1>11, <1>12, <1>13, <1>14,
           LoopActs DEF Next, LoopStep, MainStep, HandlerStep

(* The loop starts a task once for a slot, through kills and starts of the *)
(* server, requests to run the task and late passes, unless update_task    *)
(* has brought the slot back: for any tasks and expressions, if next_after *)
(* always finds a slot.                                                    *)
THEOREM SlotsRunOnce ==
  ASSUME NoDeadEnds
  PROVE  Spec => []SlotOnce
<1>1. Init => Typed /\ SlotWell /\ ExprInv
  BY InitTyped, InitWork, InitSlots DEF Typed
<1>2. Typed /\ SlotWell /\ ExprInv /\ [Next]_vars => Typed' /\ SlotWell' /\ ExprInv'
  BY NextTyped, NextSlots
<1>3. SlotWell => SlotOnce
  BY DEF SlotWell, SlotCore
<1> QED BY <1>1, <1>2, <1>3, PTL DEF Spec
-----------------------------------------------------------------------------
(* The loop works on schedules and conditions.                             *)
Worked == {"schedule", "script"}
LoopKinds ==
  /\ \A c \in queue["loop"] : Kind[c.id] \in Worked
  /\ act["loop"].pc \in Busy => Kind[act["loop"].c.id] \in Worked

(* start() is under way: a boot event that is owed is still in its list or *)
(* in its hands, or a task that it depends on has succeeded; no thread     *)
(* runs one of those in the list; and one that is found blocked stays so   *)
(* until a task that it depends on succeeds.                               *)
InList == {c.id : c \in queue["main"]}
InHand == IF act["main"].pc = "next" THEN {} ELSE {act["main"].c.id}
Freed == {t \in Tasks : Deps[t] \cap fresh # {}}

Booting ==
  /\ act["main"].why = "system_boot" /\ act["main"].pc \in {"next", "deps", "block"}
  /\ \A h \in Handlers : act[h].pc = "idle"
  /\ owed \subseteq InList \cup InHand \cup Freed
  /\ \A t \in InList \cup InHand : Kind[t] = "system_boot"
  /\ InList \cap InHand = {}
  /\ \A c, d \in queue["main"] : c.id = d.id => c = d
  /\ \A r \in Runners : run[r].at # "idle" => run[r].task \notin InList
  /\ act["main"].pc = "block" =>
       \A t \in InHand : t \in Tasks /\ (DependenciesMet(t) => t \in Freed)

(* It is under way, or it has returned, or it has raised.                  *)
BootInv ==
  phase = "up" =>
    \/ act["main"].pc = "idle" /\ owed \subseteq Freed
    \/ act["main"].pc = "quit"
    \/ Booting

Actors3 == "loop" \in Actors /\ "main" \in Actors /\ Handlers \subseteq Actors
           /\ "loop" \notin Handlers /\ "main" \notin Handlers

LEMMA ThreeActors == Actors3
BY SchedulerConstants DEF Actors3, Actors

-----------------------------------------------------------------------------
(* What a step of an actor touches.                                        *)
Touches(a) ==
  /\ UNCHANGED phase
  /\ act[a].pc \in Busy
  /\ \A b \in Actors \ {a} : act'[b] = act[b]
  /\ act'[a].why = act[a].why
  /\ act'[a].pc \in Busy => act'[a].c = act[a].c
  /\ \A b \in {"loop", "main"} : queue'[b] \subseteq queue[b] /\ (b # a => queue'[b] = queue[b])
  /\ a # "main" => UNCHANGED owed
  /\ \A r \in Runners : run'[r].at # "idle" => \/ run[r].at # "idle" /\ run'[r].task = run[r].task
                                               \/ run'[r].task = Working(a)

LEMMA GoesTouches ==
  ASSUME Typed, NEW a \in Actors, NEW pc \in Positions, Goes(a, pc)
  PROVE  /\ \A b \in Actors \ {a} : act'[b] = act[b]
         /\ act'[a].why = act[a].why /\ act'[a].pc = pc
         /\ pc \in Busy => act'[a].c = act[a].c
BY DEF Typed, TypeOK, Doing, Goes, Busy

LEMMA DropTouches ==
  ASSUME Typed, NEW a \in Actors, Drop(a) \/ UNCHANGED queue
  PROVE  \A b \in {"loop", "main"} : queue'[b] \subseteq queue[b] /\ (b # a => queue'[b] = queue[b])
BY DEF Typed, TypeOK, Drop

LEMMA RecordedTouches ==
  ASSUME Typed, NEW a \in Actors, NEW status, NEW pc \in Positions, Recorded(a, status, pc)
  PROVE  /\ \E to \in {pc, Raised(a)} : Goes(a, to)
         /\ Drop(a) \/ UNCHANGED queue
BY DEF Recorded

LEMMA StepsTouch ==
  ASSUME Typed, NEW a \in Actors, Steps(a) PROVE Touches(a)
<1>1. Done(a) \in Positions /\ Raised(a) \in Positions
  BY DEF Done, Raised, Positions
<1>2. {"running", "condition", "deps", "block", "advance", "putoff"} \subseteq Busy
      /\ Busy \subseteq Positions
  BY DEF Busy, Between, Positions
<1>3. ASSUME NEW pc \in Positions, Goes(a, pc), act[a].pc \in Busy, UNCHANGED <<phase, run>>,
             Drop(a) \/ UNCHANGED queue, a # "main" => UNCHANGED owed
      PROVE  Touches(a)
  BY <1>3, GoesTouches, DropTouches DEF Touches
<1>4. CASE CheckRunning(a)
  <2>1. PICK pc \in Positions : Goes(a, pc)
    BY <1>1, <1>2, <1>4 DEF CheckRunning
  <2> QED BY <1>2, <1>3, <1>4, <2>1 DEF CheckRunning, At, history
<1>5. CASE ConditionMatches(a) \/ ConditionErrs(a)
  <2>1. PICK pc \in Positions : Goes(a, pc)
    BY <1>1, <1>2, <1>5 DEF ConditionMatches, ConditionErrs
  <2> QED BY <1>2, <1>3, <1>5, <2>1 DEF ConditionMatches, ConditionErrs, At, history
<1>11. CASE AccountGone(a)
  <2>1. PICK pc \in Positions : Goes(a, pc) /\ Drop(a)
    BY <1>1, <1>11 DEF AccountGone
  <2> QED BY <1>2, <1>3, <1>11, <2>1 DEF AccountGone, At, history
<1>6. CASE ConditionMisses(a)
  <2>1. Drop(a) \/ UNCHANGED queue
    BY <1>1, <1>6, RecordedTouches DEF ConditionMisses
  <2>2. PICK pc \in Positions : Goes(a, pc)
    BY <1>1, <1>6, RecordedTouches DEF ConditionMisses
  <2> QED BY <1>2, <1>3, <1>6, <2>1, <2>2 DEF ConditionMisses, At, history
<1>7. CASE CheckDeps(a)
  BY <1>2, <1>3, <1>7 DEF CheckDeps, At, history
<1>8. CASE RecordBlock(a)
  <2> DEFINE to == IF act[a].why = "schedule" THEN "putoff" ELSE Done(a)
  <2>1. to \in Positions
    BY <1>1, <1>2
  <2>2. CASE DependenciesMet(Working(a))
    BY <1>2, <1>3, <1>8, <2>1, <2>2 DEF RecordBlock, At
  <2>3. CASE ~ DependenciesMet(Working(a))
    <3>1. Recorded(a, "pretask_failed", to)
      BY <1>8, <2>3 DEF RecordBlock
    <3>2. Drop(a) \/ UNCHANGED queue
      BY <2>1, <3>1, RecordedTouches
    <3>3. PICK pc \in Positions : Goes(a, pc)
      BY <1>1, <2>1, <3>1, RecordedTouches
    <3> QED BY <1>2, <1>3, <1>8, <3>2, <3>3 DEF RecordBlock, At
  <2> QED BY <2>2, <2>3
<1>9. CASE Advance(a)
  <2>1. PICK pc \in Positions : Goes(a, pc)
    BY <1>1, <1>9 DEF Advance
  <2>2. Drop(a) \/ UNCHANGED queue
    BY <1>9 DEF Advance
  <2> QED BY <1>2, <1>3, <1>9, <2>1, <2>2 DEF Advance, At, history
<1>10. ASSUME NEW r \in Runners, Start(a, r) PROVE Touches(a)
  <2>1. PICK pc \in Positions : Goes(a, pc)
    BY <1>1, <1>2, <1>10 DEF Start
  <2>2. \A q \in Runners : run'[q].at # "idle" =>
          \/ run[q].at # "idle" /\ run'[q].task = run[q].task
          \/ run'[q].task = Working(a)
    BY <1>10 DEF Start, Typed, TypeOK
  <2> QED BY <1>2, <1>10, <2>1, <2>2, GoesTouches, DropTouches DEF Touches, Start, At
<1> QED BY <1>4, <1>5, <1>6, <1>7, <1>8, <1>9, <1>10, <1>11 DEF Steps, ConditionEnds

-----------------------------------------------------------------------------
(* The kinds of tasks that the loop works on.                              *)
LEMMA SameLoopKinds ==
  ASSUME LoopKinds, act'["loop"] = act["loop"], queue'["loop"] \subseteq queue["loop"]
  PROVE  LoopKinds'
BY DEF LoopKinds

LEMMA StepsLoopKinds ==
  ASSUME LoopKinds, NEW a \in Actors, Touches(a)
  PROVE  LoopKinds'
BY ThreeActors DEF LoopKinds, Touches, Actors3

LEMMA TakenCopy ==
  ASSUME Typed, NEW a \in {"loop", "main"}, NEW c, Taken(a, c)
  PROVE  /\ c \in queue[a] /\ queue'[a] = queue[a] \ {c}
         /\ \A b \in {"loop", "main"} \ {a} : queue'[b] = queue[b]
BY DEF Typed, TypeOK, Taken

LEMMA PassLoopKinds ==
  ASSUME Typed, LoopKinds, LoopBegin \/ FetchEvents \/ LoopEnds
  PROVE  LoopKinds'
<1>1. \A c \in Active("schedule") \cup Active("script") : Kind[c.id] \in Worked
  BY DEF Active, CopyOf, Worked
<1>2. DueTasks(now) \subseteq Active("schedule")
  BY DEF DueTasks
<1>3. CASE LoopBegin \/ FetchEvents
  <2>1. act'["loop"].pc = "next"
    <3>1. CASE LoopBegin
      BY <3>1, ThreeActors DEF LoopBegin, Resting, Typed, TypeOK, Actors3
    <3>2. CASE FetchEvents
      <4>1. act["loop"] \in Doing /\ act["loop"].pc = "next"
        BY <3>2, ThreeActors DEF FetchEvents, At, Typed, TypeOK, Actors3
      <4>2. act'["loop"] = [act["loop"] EXCEPT !.why = "condition"]
        BY <3>2, ThreeActors DEF FetchEvents, Typed, TypeOK, Actors3
      <4> QED BY <4>1, <4>2 DEF Doing
    <3> QED BY <1>3, <3>1, <3>2
  <2>2. queue'["loop"] \subseteq Active("schedule") \cup Active("script")
    BY <1>2, <1>3 DEF LoopBegin, FetchEvents, Typed, TypeOK
  <2> QED BY <1>1, <2>1, <2>2 DEF LoopKinds, Busy, Between
<1>4. CASE LoopEnds
  <2>1. act'["loop"].pc = "idle"
    BY <1>4, ThreeActors DEF LoopEnds, Goes, Typed, TypeOK, Doing, Actors3
  <2> QED BY <1>4, <2>1 DEF LoopEnds, LoopKinds, Busy, Between
<1> QED BY <1>3, <1>4

LEMMA TakeLoopKinds ==
  ASSUME Typed, LoopKinds, NEW c, SkipExpired(c) \/ TakeDue(c) \/ TakeCondition(c)
  PROVE  LoopKinds'
<1>1. Taken("loop", c)
  BY DEF SkipExpired, TakeDue, TakeCondition
<1>2. c \in queue["loop"] /\ queue'["loop"] \subseteq queue["loop"]
  BY <1>1, TakenCopy
<1>3. UNCHANGED act \/ \E pc \in Positions : act' = [act EXCEPT !["loop"].pc = pc, !["loop"].c = c]
  BY DEF SkipExpired, TakeDue, TakeCondition, UnlessRunning, Positions
<1>4. act'["loop"] = act["loop"] \/ act'["loop"].c = c
  <2>1. act["loop"] \in Doing /\ act \in [Actors -> Doing]
    BY ThreeActors DEF Typed, TypeOK, Actors3
  <2>2. ASSUME NEW pc \in Positions, act' = [act EXCEPT !["loop"].pc = pc, !["loop"].c = c]
        PROVE  act'["loop"].c = c
    BY <2>1, <2>2, ThreeActors DEF Doing, Actors3
  <2> QED BY <1>3, <2>2
<1> QED BY <1>2, <1>4 DEF LoopKinds

-----------------------------------------------------------------------------
(* Steps of others than main.                                              *)
BesideMain ==
  /\ UNCHANGED <<phase, owed>> /\ act'["main"] = act["main"] /\ queue'["main"] = queue["main"]
  /\ phase = "up" /\ Booting =>
       /\ \A h \in Handlers : act'[h].pc = "idle"
       /\ \A r \in Runners : run'[r].at # "idle" => run'[r].task \notin InList

(* While the server is up, a task whose dependencies come to be met has    *)
(* one that has succeeded since the start.                                 *)
News ==
  /\ fresh \subseteq fresh'
  /\ \A t \in Tasks : DependenciesMet(t)' => DependenciesMet(t) \/ t \in Freed'

(* No step brings a deleted task back.                                     *)
LEMMA DeletedStay ==
  ASSUME Typed, [Next]_vars
  PROVE  \A t \in Tasks : task'[t].here => task[t].here
<1>0. task \in [Tasks -> Row]
  BY DEF Typed, TypeOK
<1>1. ASSUME NEW t, NEW next, SetNext(t, next)
      PROVE  \A u \in Tasks : task'[u].here => task[u].here
  BY <1>0, <1>1 DEF SetNext, Row
<1>2. ASSUME NEW a, Steps(a) PROVE \A u \in Tasks : task'[u].here => task[u].here
  <2>1. UNCHANGED task \/ \E next : SetNext(Working(a), next)
    BY <1>2 DEF Steps, CheckRunning, ConditionEnds, ConditionMatches, ConditionErrs,
                AccountGone, ConditionMisses, CheckDeps, RecordBlock, Advance, Start, table
  <2> QED BY <1>1, <2>1
<1>3. ASSUME NEW h, WriteTask(h) PROVE \A u \in Tasks : task'[u].here => task[u].here
  BY <1>0, <1>3 DEF WriteTask
<1>4. ASSUME NEW c, SkipExpired(c) \/ TakeDue(c) \/ TakeCondition(c) \/ TakeEvent(c)
      PROVE  \A u \in Tasks : task'[u].here => task[u].here
  <2>1. CASE SkipExpired(c)
    BY <1>1, <2>1 DEF SkipExpired
  <2>2. CASE TakeDue(c) \/ TakeCondition(c) \/ TakeEvent(c)
    BY <1>0, <2>2 DEF TakeDue, TakeCondition, TakeEvent, Row, table
  <2> QED BY <1>4, <2>1, <2>2
<1>5. CASE Request
  BY <1>0, <1>5 DEF Request, ClearResults, DeleteTask, RunTask, UpdateTask, Row, table
<1>6. CASE \/ Tick \/ Boot \/ Stop \/ Crash \/ Exit \/ LoopBegin \/ FetchEvents \/ LoopEnds
           \/ EventsEnd \/ (\E r \in Runners : RunnerStep(r)) \/ UNCHANGED vars
  BY <1>6 DEF Tick, Boot, Stop, Crash, Exit, ProcessGone, LoopBegin, FetchEvents, LoopEnds,
              EventsEnd, RunnerStep, RecordStart, RunEnds, vars, table
<1> QED BY <1>2, <1>3, <1>4, <1>5, <1>6 DEF Next, LoopStep, MainStep, HandlerStep

LEMMA NewsIsFresh ==
  ASSUME Typed, phase # "down", [Next]_vars
  PROVE  News
<1>1. /\ fresh \subseteq fresh'
      /\ \A t \in Tasks : latest'[t] = "success" => latest[t] = "success" \/ t \in fresh'
  <2>1. CASE StartsNothing
    BY <2>1 DEF StartsNothing
  <2>2. CASE StartsOne
    BY <2>2 DEF StartsOne
  <2>3. CASE EndsOne
    BY <2>3 DEF EndsOne, Typed, TypeOK
  <2> QED BY <2>1, <2>2, <2>3, NextEffects
<1>2. ASSUME NEW t \in Tasks, DependenciesMet(t)', ~ DependenciesMet(t) PROVE t \in Freed'
  <2>1. PICK d \in Deps[t] : ~ (task[d].here /\ latest[d] = "success")
    BY <1>2 DEF DependenciesMet
  <2>2. d \in Tasks /\ task'[d].here /\ latest'[d] = "success"
    BY <1>2, SchedulerConstants DEF DependenciesMet
  <2>3. task[d].here
    BY <2>2, DeletedStay
  <2> QED BY <1>1, <2>1, <2>2, <2>3 DEF Freed
<1> QED BY <1>1, <1>2 DEF News

LEMMA BesideMainKeeps ==
  ASSUME BootInv, BesideMain, phase = "up" => News PROVE BootInv'
<1> SUFFICES ASSUME phase = "up" PROVE BootInv'
  BY DEF BootInv, BesideMain
<1>1. Freed \subseteq Freed'
  BY DEF News, Freed
<1>2. InList' = InList /\ InHand' = InHand
  BY DEF BesideMain, InList, InHand
<1>3. ASSUME Booting PROVE Booting'
  <2>1. act["main"].pc = "block" =>
          \A t \in InHand : t \in Tasks /\ (DependenciesMet(t)' => t \in Freed')
    BY <1>1, <1>3 DEF Booting, News
  <2> QED BY <1>1, <1>2, <1>3, <2>1 DEF Booting, BesideMain
<1> QED BY <1>1, <1>3 DEF BootInv, BesideMain

LEMMA BesideSteps ==
  ASSUME Typed, LoopKinds, NEW a \in Actors \ {"main"}, Touches(a)
  PROVE  BesideMain
<1> SUFFICES ASSUME Booting
             PROVE  /\ \A h \in Handlers : act'[h].pc = "idle"
                    /\ \A r \in Runners : run'[r].at # "idle" => run'[r].task \notin InList
  BY ThreeActors DEF BesideMain, Touches, Actors3
<1>1. a = "loop"
  BY DEF Touches, Booting, Busy, Between, Actors
<1>2. \A h \in Handlers : act'[h].pc = "idle"
  BY <1>1, ThreeActors DEF Touches, Booting, Actors3
<1>3. Working(a) \notin InList
  BY <1>1 DEF Touches, LoopKinds, Booting, Worked, Working
<1> QED BY <1>2, <1>3 DEF Touches, Booting

LEMMA BesideLoop ==
  ASSUME Typed,
         \/ LoopBegin \/ FetchEvents \/ LoopEnds
         \/ \E c : SkipExpired(c) \/ TakeDue(c) \/ TakeCondition(c)
  PROVE  BesideMain
<1>1. \A b \in Actors \ {"loop"} : act'[b] = act[b]
  BY DEF LoopBegin, FetchEvents, LoopEnds, Goes, SkipExpired, TakeDue, TakeCondition,
         UnlessRunning, Typed, TypeOK
<1>2. queue'["main"] = queue["main"]
  BY DEF LoopBegin, FetchEvents, LoopEnds, SkipExpired, TakeDue, TakeCondition, Taken,
         Typed, TypeOK
<1>3. UNCHANGED <<phase, owed, run>>
  BY DEF LoopBegin, FetchEvents, LoopEnds, SkipExpired, TakeDue, TakeCondition, history
<1> QED BY <1>1, <1>2, <1>3, ThreeActors DEF BesideMain, Booting, Actors3

(* Requests are not served while start() is under way.                     *)
LEMMA BesideRequests ==
  ASSUME Typed, Request
  PROVE  BesideMain /\ act'["loop"] = act["loop"] /\ UNCHANGED queue
<1>1. UNCHANGED <<phase, owed, queue>>
  BY DEF Request, ClearResults, DeleteTask, RunTask, UpdateTask, engine, history
<1>2. \/ UNCHANGED act
      \/ \E h \in Handlers : \E d : act' = [act EXCEPT ![h] = d]
  BY DEF Request, ClearResults, DeleteTask, RunTask, UpdateTask, engine
<1>3. act'["main"] = act["main"] /\ act'["loop"] = act["loop"]
  BY <1>2, ThreeActors DEF Typed, TypeOK, Actors3
<1>4. phase = "up" => act["main"].pc = "idle"
  BY DEF Request, ClearResults, DeleteTask, RunTask, UpdateTask, Asked
<1> QED BY <1>1, <1>3, <1>4 DEF BesideMain, Booting

LEMMA BesideWrites ==
  ASSUME Typed, NEW h \in Handlers, WriteTask(h)
  PROVE  BesideMain /\ act'["loop"] = act["loop"] /\ UNCHANGED queue
<1>1. UNCHANGED <<phase, owed, queue, run>>
  BY DEF WriteTask
<1>2. \A b \in Actors \ {h} : act'[b] = act[b]
  BY DEF WriteTask, Goes, Typed, TypeOK
<1>3. act[h].pc = "write"
  BY DEF WriteTask, At
<1> QED BY <1>1, <1>2, <1>3, ThreeActors DEF BesideMain, Booting, Actors3

LEMMA BesideThreads ==
  ASSUME Typed, NEW r \in Runners, RunnerStep(r)
  PROVE  BesideMain /\ UNCHANGED <<act, queue>>
<1>1. UNCHANGED <<phase, owed, act, queue>>
  BY DEF RunnerStep, RecordStart, RunEnds, engine, history
<1>2. \A q \in Runners : run'[q].at # "idle" =>
        run[q].at # "idle" /\ run'[q].task = run[q].task
  BY DEF RunnerStep, RecordStart, RunEnds, Typed, TypeOK, Thread, NoRun
<1> QED BY <1>1, <1>2 DEF BesideMain, Booting

-----------------------------------------------------------------------------
(* Steps of main, and the life of the server.                              *)
LEMMA BootBegins ==
  ASSUME Typed, Boot PROVE BootInv' /\ LoopKinds'
<1>1. /\ act'["main"].pc = "next" /\ act'["main"].why = "system_boot"
      /\ \A a \in Actors \ {"main"} : act'[a].pc = "idle"
  BY ThreeActors DEF Boot, Resting, Actors3
<1>2. queue'["main"] = Active("system_boot") /\ queue'["loop"] = {}
  BY DEF Boot
<1>3. owed' = {c.id : c \in Active("system_boot")}
      /\ \A r \in Runners : run'[r].at = "idle"
  BY DEF Boot, NoRun
<1>4. /\ \A c \in Active("system_boot") : Kind[c.id] = "system_boot"
      /\ \A c, d \in Active("system_boot") : c.id = d.id => c = d
  BY DEF Active, CopyOf
<1>5. InList' = {c.id : c \in Active("system_boot")} /\ InHand' = {}
  BY <1>1, <1>2 DEF InList, InHand
<1>6. \A t \in InList' : Kind[t] = "system_boot"
  BY <1>4, <1>5
<1>7. Booting'
  BY <1>1, <1>2, <1>3, <1>4, <1>5, <1>6, ThreeActors DEF Booting, Actors3
<1>8. LoopKinds'
  BY <1>1, <1>2, ThreeActors DEF LoopKinds, Busy, Between, Actors3
<1> QED BY <1>7, <1>8 DEF BootInv

LEMMA LifeEnds ==
  ASSUME Typed, LoopKinds, Stop \/ Exit \/ Crash PROVE BootInv' /\ LoopKinds'
<1>1. CASE Stop
  <2>1. act'["loop"] = act["loop"] /\ queue'["loop"] = queue["loop"] /\ phase' = "stopping"
    BY <1>1, ThreeActors DEF Stop, Typed, TypeOK, Actors3
  <2> QED BY <2>1, SameLoopKinds DEF BootInv
<1>2. CASE Exit \/ Crash
  <2>1. ProcessGone
    BY <1>2 DEF Exit, Crash
  <2>2. phase' = "down" /\ queue'["loop"] = {} /\ act'["loop"].pc = "idle"
    BY <2>1, ThreeActors DEF ProcessGone, Resting, Actors3
  <2> QED BY <2>2 DEF BootInv, LoopKinds, Busy, Between
<1> QED BY <1>1, <1>2

(* A boot event in the list runs nowhere, so main takes it in its hands.   *)
LEMMA TakeEventBoots ==
  ASSUME Typed, LoopKinds, BootInv, NEW c, TakeEvent(c)
  PROVE  BootInv' /\ LoopKinds'
<1>1. /\ c \in queue["main"] /\ queue'["main"] = queue["main"] \ {c}
      /\ queue'["loop"] = queue["loop"] /\ c.id \in Tasks
  <2>1. Taken("main", c)
    BY DEF TakeEvent
  <2>2. /\ c \in queue["main"] /\ queue'["main"] = queue["main"] \ {c}
        /\ queue'["loop"] = queue["loop"]
    BY <2>1, TakenCopy
  <2>3. c.id \in Tasks
    BY <2>2 DEF Typed, TypeOK, Copy
  <2> QED BY <2>2, <2>3
<1>2. UNCHANGED <<phase, owed, run>> /\ act["main"].pc = "next" /\ UnlessRunning("main", c)
  BY DEF TakeEvent, At, history
<1>3. \A b \in Actors \ {"main"} : act'[b] = act[b]
  BY <1>2 DEF UnlessRunning, Typed, TypeOK
<1>4. LoopKinds'
  BY <1>1, <1>3, ThreeActors, SameLoopKinds DEF Actors3
<1>5. ASSUME phase = "up" PROVE Booting'
  <2>1. Booting
    BY <1>2, <1>5 DEF BootInv
  <2>2. ~ HasRunning(c.id)
    BY <1>1, <2>1 DEF HasRunning, Booting, InList
  <2>3. act'["main"].pc = "deps" /\ act'["main"].c = c /\ act'["main"].why = act["main"].why
    BY <1>2, <2>2, ThreeActors DEF UnlessRunning, Typed, TypeOK, Doing, Actors3
  <2>4. InList' = InList \ {c.id} /\ c.id \in InList /\ InHand = {} /\ InHand' = {c.id}
    BY <1>1, <1>2, <2>1, <2>3 DEF InList, InHand, Booting
  <2>5. /\ \A h \in Handlers : act'[h].pc = "idle"
        /\ \A d, e \in queue'["main"] : d.id = e.id => d = e
    BY <1>1, <1>3, <2>1, ThreeActors DEF Booting, Actors3
  <2>6. Freed' = Freed
    BY DEF TakeEvent, Freed, history
  <2> QED BY <1>2, <2>1, <2>3, <2>4, <2>5, <2>6 DEF Booting
<1> QED BY <1>2, <1>4, <1>5 DEF BootInv

LEMMA EventsEndBoots ==
  ASSUME Typed, LoopKinds, BootInv, EventsEnd
  PROVE  BootInv' /\ LoopKinds'
<1>1. PICK pc \in {"idle", "join"} :
        Goes("main", pc) /\ (act["main"].why = "system_boot" => pc = "idle")
  BY DEF EventsEnd
<1>2. /\ act'["main"].pc = pc /\ act'["loop"] = act["loop"]
  BY <1>1, ThreeActors, GoesTouches DEF Actors3, Positions
<1>3. UNCHANGED <<phase, owed, queue>> /\ queue["main"] = {} /\ act["main"].pc = "next"
  BY DEF EventsEnd, At, history
<1>4. Freed' = Freed
  BY DEF EventsEnd, Freed, history
<1>5. phase = "up" => act'["main"].pc = "idle" /\ owed' \subseteq Freed'
  BY <1>1, <1>2, <1>3, <1>4 DEF BootInv, Booting, InList, InHand
<1> QED BY <1>2, <1>3, <1>5, SameLoopKinds DEF BootInv

(* What it has in its hands it starts or records, unless a task that it    *)
(* depends on has succeeded, and then owes no more.                        *)
LEMMA MainStepsBoot ==
  ASSUME Typed, LoopKinds, BootInv, Steps("main")
  PROVE  BootInv'
<1>1. Touches("main")
  BY StepsTouch, ThreeActors DEF Actors3
<1> SUFFICES ASSUME phase = "up" PROVE act'["main"].pc = "quit" \/ Booting'
  BY <1>1 DEF Touches, BootInv
<1>2. Booting /\ act["main"].pc \in {"deps", "block"}
  BY <1>1 DEF Touches, BootInv, Booting, Busy, Between
<1>3. /\ InHand = {Working("main")} /\ Kind[Working("main")] = "system_boot"
      /\ Done("main") = "next" /\ Raised("main") = "quit"
  BY <1>2, ThreeActors DEF InHand, Working, Booting, Done, Raised, Actors3
<1>4. ASSUME InList' = InList, \A d, e \in queue'["main"] : d.id = e.id => d = e,
             Freed' = Freed,
             \/ /\ act'["main"].pc = "block" /\ owed' = owed
                /\ Working("main") \in Tasks /\ ~ DependenciesMet(Working("main"))'
             \/ act'["main"].pc = "next" /\ owed' \subseteq (owed \ InHand) \cup Freed
      PROVE  Booting'
  <2>1. /\ act'["main"].why = "system_boot" /\ act'["main"].pc \in {"next", "deps", "block"}
        /\ \A h \in Handlers : act'[h].pc = "idle"
    BY <1>1, <1>2, <1>4, ThreeActors DEF Touches, Booting, Actors3
  <2>2. InHand' \subseteq InHand /\ owed' \subseteq InList' \cup InHand' \cup Freed'
    BY <1>1, <1>2, <1>3, <1>4 DEF Touches, Booting, InHand, Busy, Between, Positions, Working
  <2>3. \A r \in Runners : run'[r].at # "idle" => run'[r].task \notin InList
    BY <1>1, <1>2, <1>3 DEF Touches, Booting
  <2>4. act'["main"].pc = "block" =>
          \A t \in InHand' : t \in Tasks /\ (DependenciesMet(t)' => t \in Freed')
    <3>1. act'["main"].pc = "block" => act'["main"].c.id = act["main"].c.id
      BY <1>1 DEF Touches, Busy, Between, Positions
    <3> QED BY <1>3, <1>4, <2>2, <3>1 DEF Working, DependenciesMet
  <2> QED BY <1>2, <1>4, <2>1, <2>2, <2>3, <2>4 DEF Booting
<1>5. ASSUME UNCHANGED queue
      PROVE  InList' = InList /\ \A d, e \in queue'["main"] : d.id = e.id => d = e
  BY <1>2, <1>5 DEF InList, Booting
<1>6. CASE CheckDeps("main")
  <2>1. /\ act'["main"].pc = "block" /\ UNCHANGED <<queue, owed, fresh, task, latest>>
        /\ ~ DependenciesMet(Working("main"))
    BY <1>6, ThreeActors, GoesTouches DEF CheckDeps, Actors3, Positions, table, history
  <2>2. Working("main") \in Tasks
    BY <1>2, ThreeActors
       DEF Typed, WorkHasTask, Working, Copy, Actors3, Busy, Between, Positions
  <2>3. act'["main"].c = act["main"].c /\ Freed' = Freed
    BY <1>1, <2>1 DEF Touches, Busy, Between, Positions, Freed
  <2>4. ~ DependenciesMet(Working("main"))'
    BY <2>1, <2>3 DEF DependenciesMet, Working
  <2> QED BY <1>4, <1>5, <2>1, <2>2, <2>3, <2>4
<1>7. CASE RecordBlock("main")
  <2>1. act["main"].pc = "block" /\ act["main"].why # "schedule" /\ Freed' = Freed
    BY <1>2, <1>7 DEF RecordBlock, At, Booting, Freed
  <2>2. CASE DependenciesMet(Working("main"))
    <3>1. Goes("main", "next") /\ UNCHANGED <<queue, owed>>
      BY <1>3, <1>7, <2>1, <2>2 DEF RecordBlock
    <3>2. act'["main"].pc = "next"
      BY <3>1, ThreeActors, GoesTouches DEF Actors3, Positions
    <3>3. InHand \subseteq Freed
      BY <1>2, <1>3, <2>1, <2>2 DEF Booting
    <3> QED BY <1>4, <1>5, <2>1, <3>1, <3>2, <3>3
  <2>3. CASE ~ DependenciesMet(Working("main"))
    <3>1. /\ \/ Goes("main", "next") /\ UNCHANGED queue /\ task[Working("main")].here
             \/ Goes("main", "quit")
          /\ task[Working("main")].here => owed' = owed \ {Working("main")}
      BY <1>3, <1>7, <2>1, <2>3 DEF RecordBlock, Recorded
    <3>2. \/ act'["main"].pc = "quit"
          \/ /\ act'["main"].pc = "next" /\ UNCHANGED queue
             /\ owed' = owed \ {Working("main")}
      BY <3>1, ThreeActors, GoesTouches DEF Actors3, Positions
    <3> QED BY <1>3, <1>4, <1>5, <2>1, <3>2
  <2> QED BY <2>2, <2>3
<1>8. ASSUME NEW r \in Runners, Start("main", r) PROVE Booting'
  <2>1. Goes("main", "next") /\ UNCHANGED <<queue, fresh>> /\ owed' = owed \ {Working("main")}
    BY <1>3, <1>8 DEF Start
  <2>2. act'["main"].pc = "next" /\ Freed' = Freed
    BY <2>1, ThreeActors, GoesTouches DEF Actors3, Positions, Freed
  <2> QED BY <1>3, <1>4, <1>5, <2>1, <2>2
<1>9. ~ CheckRunning("main") /\ ~ ConditionEnds("main") /\ ~ Advance("main")
  BY <1>2 DEF CheckRunning, ConditionEnds, ConditionMatches, ConditionErrs, AccountGone,
              ConditionMisses, Advance, At
<1> QED BY <1>6, <1>7, <1>8, <1>9 DEF Steps

-----------------------------------------------------------------------------
LEMMA BootNext ==
  ASSUME Typed, LoopKinds, BootInv, [Next]_vars
  PROVE  LoopKinds' /\ BootInv'
<1>0. phase = "up" => News
  BY NewsIsFresh
<1>1. CASE Tick \/ UNCHANGED vars
  <2>1. UNCHANGED <<act, queue, phase, owed, run>>
    BY <1>1 DEF Tick, vars, engine, history
  <2> QED BY <1>0, <2>1, SameLoopKinds, BesideMainKeeps DEF BesideMain, Booting
<1>2. CASE Boot \/ Stop \/ Crash \/ Exit
  BY <1>2, BootBegins, LifeEnds
<1>3. CASE Request
  BY <1>0, <1>3, BesideRequests, SameLoopKinds, BesideMainKeeps
<1>4. CASE LoopStep
  <2>1. CASE LoopBegin \/ FetchEvents \/ LoopEnds
    BY <1>0, <2>1, PassLoopKinds, BesideLoop, BesideMainKeeps
  <2>2. CASE \E c : SkipExpired(c) \/ TakeDue(c) \/ TakeCondition(c)
    BY <1>0, <2>2, TakeLoopKinds, BesideLoop, BesideMainKeeps
  <2>3. CASE Steps("loop")
    BY <1>0, <2>3, StepsTouch, StepsLoopKinds, BesideSteps, BesideMainKeeps, ThreeActors DEF Actors3
  <2> QED BY <1>4, <2>1, <2>2, <2>3 DEF LoopStep
<1>5. CASE MainStep
  <2>1. CASE Steps("main")
    BY <2>1, StepsTouch, StepsLoopKinds, MainStepsBoot, ThreeActors DEF Actors3
  <2> QED BY <1>2, <1>5, <2>1, EventsEndBoots, TakeEventBoots DEF MainStep
<1>6. ASSUME NEW h \in Handlers, HandlerStep(h) PROVE LoopKinds' /\ BootInv'
  <2>1. CASE WriteTask(h)
    BY <1>0, <2>1, BesideWrites, SameLoopKinds, BesideMainKeeps
  <2>2. CASE Steps(h)
    BY <1>0, <2>2, StepsTouch, StepsLoopKinds, BesideSteps, BesideMainKeeps, ThreeActors DEF Actors3
  <2> QED BY <1>6, <2>1, <2>2 DEF HandlerStep
<1>7. ASSUME NEW r \in Runners, RunnerStep(r) PROVE LoopKinds' /\ BootInv'
  BY <1>0, <1>7, BesideThreads, SameLoopKinds, BesideMainKeeps
<1> QED BY <1>1, <1>2, <1>3, <1>4, <1>5, <1>6, <1>7 DEF Next

(* When start() has returned and requests are served, each active boot     *)
(* event has been started or its block recorded, or a task that it depends *)
(* on has succeeded since the start: for any boot events and dependencies, *)
(* whatever records a kill has left and whatever the loop does meanwhile.  *)
THEOREM BootEventsAreServed == Spec => []BootEventsFire
<1>1. Init => Typed /\ LoopKinds /\ BootInv
  <2> SUFFICES ASSUME Init PROVE LoopKinds /\ BootInv
    BY InitTyped, InitWork DEF Typed
  <2> QED BY ThreeActors DEF Init, LoopKinds, BootInv, Resting, Busy, Between, Actors3
<1>2. Typed /\ LoopKinds /\ BootInv /\ [Next]_vars => Typed' /\ LoopKinds' /\ BootInv'
  BY NextTyped, BootNext
<1>3. BootInv => BootEventsFire
  BY DEF BootInv, Booting, Freed, BootEventsFire
<1> QED BY <1>1, <1>2, <1>3, PTL DEF Spec
=============================================================================
