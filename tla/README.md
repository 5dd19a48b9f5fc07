# Verification of fn-apps

TLA+ modules, TLC configurations and TLAPS proofs about the programs of this
repository. The repository packages some thirty applications for fnOS. Most are
packaging: manifests, service scripts and vendored binaries or drivers. Its own
logic is in a dozen Python servers under `*/app/server/`, and most of its C code
in the drivers that it builds. Four parts of it are modelled:

* **fn-scheduler** (`fn-scheduler/app/server/scheduler.py`), the server with the
  most state and the most concurrency: it starts scripts on a schedule, on
  conditions, on boot and shutdown and on request, records what became of them
  in SQLite, and has to stay right through overlapping requests, time limits,
  late threads, kills and restarts;
* the **command manager** of the aic8800 USB driver
  (`fn-aic8800/app/server/src/aic8800_fdrv/rwnx_cmds.c`), through which every
  thread of the driver talks to the adapter;
* the **run tree** of ntfs3 (`fn-ntfs3/app/server/src/6.12/run.c`), which says
  where on the volume the clusters of a file are;
* the **player** of fn-audioplayer (`ServerPlayer` in
  `fn-audioplayer/app/server/audioplayer.py`).

Paths below are relative to the repository; line numbers are those of the file
that the section is about.

## Inventory

### fn-scheduler

| Part | State | Operations | Interacts with |
|---|---|---|---|
| `Database` (666-1555) | tables `tasks`, `task_results`, `templates`; snapshot columns `latest_*`; `result_retention_per_task` | record and finalize a run, close stale runs, prune, clear, delete, edit, schedule; one lock around each transaction | called by every thread |
| `TaskRunner` (1560-1787) | one thread per run; table of tracked processes | record, start the script, wait, time out, finalize | `Database`, scripts, `/proc` |
| `SchedulerEngine` (1790-2063) | loop thread, stop event, time of start | due tasks, conditions, time limits, boot and shutdown events, recovery of stale runs | `Database`, `TaskRunner` |
| request handlers (2288-2735) | none; one thread per request | run, stop, toggle, batch, edit, delete, clear, settings, templates, files | all of the above |
| `CronExpression` (555-655) | none | next slot after a moment | `Database`, engine |
| `SchedulerSettings` (312-401) | settings in memory and in a file | load, update, save | engine, `TaskRunner`, `Database` |
| `acquire_instance_lock`, `main`, `cmd/main` | lock file, socket, pid file | start, stop, status | the platform |

What is hard here: a run is spread over several lock sections of its own thread
and may be closed by four other actors in between (a stop request, the time
limit, the shutdown, the next start); the record of a run and the snapshot
`latest_*` are written by each of them; finish times are read before the lock;
pruning is done by every thread that ends and by settings requests; a kill of
the server leaves records and scripts behind.

What makes it correct:

* a verdict is given once and never revised; ids are not reused;
* no record says "running" for ever, as such a record bars its task;
* the snapshot never contradicts the record it describes;
* pruning keeps the newest records, as many as the settings say;
* a stop ends the scripts of its task and of no other, and a run that was
  stopped does not go on;
* a slot of the schedule is run once, or skipped for a recorded reason;
* settings in force are those that a restart would load.

### The other servers

| Application | State | What is hard | What makes it correct |
|---|---|---|---|
| fn-execute (`execute.py`) | table of one-off executions | a stop before the process is registered, the final status of a process that was killed | a stopped execution says so and has no process |
| fn-appdownload (`appdownload.py`) | tasks, files, `.part` files | workers without a lock, two workers on one file, deletion under way | status and file agree |
| fn-audioplayer (`ServerPlayer`) | one player process, its monitors, the state shown, the time of the last poll | monitor and watcher threads, lock given up in `seek` | one file is heard at a time, and what is shown is what is heard |
| fn-wifi-hotspot (`hotspot.py`) | network state, runtime state file | ten-step start with partial undo, restore after boot | what a start did is undone by its failure or by stop |
| fn-p2s (`p2s.py`) | mappings in files | concurrent requests | mappings and their files agree |
| fn-WParted, fn-bluetooth, fn-advancedsettings, fn-appsettings, fn-installer, fn-speedtest | little of their own | the state is that of the tools they call | - |
| `cmd/main` of each application | pid file | TERM, wait, KILL against a slow stop | status agrees with the process |

### The drivers

| Part | State | What is hard | What makes it correct |
|---|---|---|---|
| fn-aic8800, command manager (`rwnx_cmds.c`, `rwnx_send_msg`) | list of commands with its count and tokens, pool of entries, a worker | threads and the worker send and wait outside the lock; confirmations come late, out of turn or never; fatal signals, the removal of the adapter | one command is out at a time; an answer reaches the caller of its command; entries come back; every caller returns |
| fn-ntfs3, run tree (`run.c`) | a sorted array of runs | overlapping ranges, holes, work in place, failing allocations, bytes of packed numbers | the array stays sorted, maps each cluster as the operations say, and is read as it was packed |

The rest of these two drivers, the other drivers and vendored programs
(fn-broadcom-sta, fn-yt6801, fn-iVentoy, fn-terminal, fn-VirtualHereServer) and
pure packages (chromium, kodi, codeserver, guacamole, influxdb, grafana-alloy,
scrutiny, qemu-ga, open-vm-tools, linux-station, vfnOS, vFygoOS) are left out.
`PROJECT.json` lists every component with its status and every hazard with its
line.

## Modules

| Module | What it is |
|---|---|
| `TaskRuns` | the runs of tasks and their records, one action per lock section or step of a thread; the properties; the inductive invariant |
| `ResultLedger` | what the table of results promises, without threads, requests or restarts |
| `MCTaskRuns` | instances of `TaskRuns` for TLC |
| `TaskRunsProofs` | the theorems about `TaskRuns` and their proofs, those about pruning last |
| `Scheduler` | what makes runs start: the loop, conditions, events, requests and `next_run_at`; the properties and the arguments for them |
| `MCScheduler` | instances of `Scheduler` for TLC |
| `SchedulerProofs` | typing, dependencies, `next_run_at`: theorems and proofs |
| `SchedulerSlotProofs` | the proofs that a slot is started once, and that boot events are started or recorded as blocked |
| `CmdMgr`, `MCCmdMgr` | the command manager of aic8800, one action per section under the lock or access outside of it; its instances |
| `CmdMgrProofs` | the list is counted, the pool of entries suffices, one command is out and its answer goes to its caller: theorems and proofs |
| `ClusterMap` | what a run tree promises: a map of clusters and operations on ranges |
| `RunTree` | the run tree of ntfs3, its operations as functions of the array; the properties |
| `RunPack`, `MCRunTree` | how runs are packed and read again, on top of `RunTree`; instances of both |
| `RunTreeLemmas` | induction over numbers, the bisection, `run_consolidate`, what an array shows, and what `run_add_entry` does to it, however often it calls itself |
| `RunTreeProofs` | the other operations, the invariant, and the theorems about `RunTree` |
| `RunPackProofs` | what is packed is read again: the theorem about `RunPack` |
| `ServerPlayer`, `MCServerPlayer` | the player of fn-audioplayer; its instances |
| `ServerPlayerProofs` | the invariants of the player: theorems and proofs |

`TaskRuns` and `Scheduler` look at the same program from two sides. `TaskRuns`
has every step of a run and leaves open when runs start; `Scheduler` has every
step that decides on a start, and takes a run as an inserted record that is
later closed. What `TaskRuns` proves of records (a verdict is final, a running
record is attended) is what makes that view of a run right.

### TaskRuns and the code

`results`, `nextId` are the table `task_results` with its AUTOINCREMENT;
`latest` is `tasks.latest_*`, with the result id of the run in the place of its
trigger reason and start time; `present` and `keep` are what the records need
of the table `tasks`. `pc`, `job`, `row`, `outcome` are the local state of the
TaskRunner threads; a slot of `Runners` is a thread while it lives. `proc` are
the scripts: a script is named by the id of the run that started it and lives on
when the server dies. `at`, `victim` are the handlers that end processes (a stop
request, the time limits of the loop, the shutdown), `aim` the pids that one of
them, or a thread whose time is up, has collected. `admin` is a settings request
on its way, `phase` and `todo` the life of the server.

| Action | Code |
|---|---|
| `Launch` | `TaskRunner(...).start()` by the loop, a request or an event; also the thread that calls `record_finished_result` for a failed condition or dependency |
| `RecordStart` | `record_result_start` (1174) |
| `Spawn`, `Reap`, `Timeout`, `TimeoutKill` | `_execute_script` (1612) |
| `Finalize`, `FinalizeFails` | `finalize_result` up to its commit (1224), and when it raises: before its first statement, between snapshot and record, or at its commit |
| `PruneCheck`, `PruneDelete`, `PruneFails` | `prune_finished_results` (1141), before and under the lock, and when it raises, which the `except` around `finalize_result` (1594) takes |
| `StopRequest`, `Enforce`, `ShutdownNext` | `stop_task` (2565), `_enforce_task_timeouts` (1899), `SchedulerEngine.stop` (1816) collect pids |
| `Kill`, `CloseStaleRows` | `_terminate_pids` (1720), `finalize_stale_running_instances` (1340) |
| `ClearResults`, `DeleteTask`, `EditTask` | `delete_results`, `delete_task`, `update_task` |
| `SetRetention`, `ListTasks`, `AdminPruneCheck`, `AdminPruneDelete`, `AdminFails` | `update_settings` (2304), `prune_all_finished_results` (1163), and when that raises |
| `BeginStop`, `Exit`, `Crash` | the signal handler and `main`; a kill |
| `Boot`, `Recover`, `Serve` | the pruning of `Database._setup` (759), `SchedulerEngine.start` (1799) |

When a run starts is left open (`Launch` may happen at any time), so the
properties hold for every policy of the loop and of the requests, double starts
included. `unpruned` is history: the finished records that no prune of their
task is bound to follow, as their thread failed or died, they were closed as
stale, or the setting was changed after them. It is read by `RetentionKept`
only.

The database fails (`"dbfault" \in Ops`) in the steps that end a run and in
those that prune; a failing commit leaves its changes in the shared connection,
where they are seen by everyone and saved by the next commit. That they are lost
when the server is killed before there is one is left out, and so is a stop
request that fails between the record and the snapshot of a stale close
(1370-1383), and a start or a stop of the server that fails half-way (which ends
as a kill does). Left out too: log texts, trigger reasons, the column `last_run_at`, which
nothing reads to decide, and a second pass of `SchedulerEngine.stop` over a task
with two running records. A script that is signalled ends: the server runs as
root (`fn-scheduler/config/privilege`) and KILL follows TERM. The definitions
whose comment calls them slips (`FinalizeAgain`, `BootWithoutStale`, ...) are no
part of the system: they are mutations of the definition that follows them,
used to see that each property can fail.

### Scheduler and the code

`task` holds the columns of `tasks` that decide on a start (`here` is the
existence of the row, `checked` is `last_condition_check_at`), `latest` is
`latest_status`, `run` the TaskRunner threads with their records, `started` is
`started_at`. `act` is the local state of the three kinds of actors, the loop,
the main thread in `start()` or `stop()`, and the threads of requests: where it
is, for which reason, the copy `c` of the task that it works on, and the moment
of its pass. `queue` is what remains of the rows that it has fetched. An actor
goes through the same steps for every reason, and each step is one lock section:

| Action | Code |
|---|---|
| `LoopBegin`, `FetchEvents`, `LoopEnds` | `_loop` (1830) with `fetch_due_tasks`, `fetch_event_tasks` |
| `SkipExpired`, `TakeDue` | the first lines of `_process_due_tasks` (1841) |
| `TakeCondition` | `_process_event_tasks` (1880), up to `update_condition_check` |
| `CheckRunning` | `has_running_instance` of `run_task`, of `batch_tasks` and after a condition |
| `ConditionMatches`, `ConditionErrs`, `ConditionMisses` | `_run_condition` (1920): it matches, fails or takes too long, or does not match |
| `AccountGone` | `prepare_task_account_context` raises in `_run_condition`, outside its `try` (1922), which ends the pass |
| `CheckDeps`, `RecordBlock` | `_dependencies_met` and `_record_dependency_block`, which reads the reasons again and records nothing when there are none left (1969, 2003) |
| `Start` | `TaskRunner(...).start()` |
| `Advance` | `schedule_next_run` after a start or a block, and when it raises |
| `RunTask`, `UpdateTask` and `WriteTask`, `ClearResults`, `DeleteTask` | `run_task`, one task of `batch_tasks`; `update_task` before and at its UPDATE; `delete_results`; `delete_task` |
| `Boot`, `TakeEvent`, `EventsEnd`, `Stop`, `Exit`, `Crash` | `start` (1799), `_trigger_system_event` (2022), `stop` (1816), `main`, a kill |
| `RecordStart`, `RunEnds` | the thread of a run, as `TaskRuns` has it in detail |

Abstractions. A time is a tick of the clock, `MinuteTicks` of them to the
minute; an expression is the set of moments it matches (`SlotsOf`), and
`next_after` is the least of them in the lookahead. `started_at` has
microseconds, so a start comes later than every moment of the passes before it.
The dependencies of one task are asked for in one step, and
`record_finished_result` is one step. What `stop()` does to each run is one
step here and several in `TaskRuns`; runs that a stop request or a time limit
ends are runs that fail. An edit changes neither the trigger type nor
`pre_task_ids`; tasks are created before the first start. `ran`, `again`,
`restored`, `succeeded`, `fresh` (tasks that have succeeded since the start)
and `owed` (boot events that have neither been started nor recorded as blocked)
are history, read by properties only.

### CmdMgr and the code

`slot` is `cmd_array`, `cmds` the list of the manager, `queue_sz`, `state`,
`next_tkn` its fields, `ws_tx` the wakeup source that keeps the host from
suspending. `sender` is the local state of the threads in `rwnx_send_msg` and
below it, `worker` that of `cmd_mgr_task_process`, `cmdWork` whether it is
queued. `wire` are the commands that the adapter has, `answer` is what was
copied to the memory a caller has given (by token: which command's confirmation
it is). Tokens grow with the list, so that the list is a set of entries ordered
by them.

| Action | Code |
|---|---|
| `SendMsg` | `rwnx_send_msg`, `rwnx_send_msg1` up to the queue, with `rwnx_cmd_malloc` (`rwnx_msg_tx.c` 174, 386, 493) |
| `Enqueue`, `Refuse` | `cmd_mgr_queue` and `cmd_mgr_queue_force_defer` up to the unlock (68, 123) |
| `Push` | `aicwf_set_cmd_tx` by the calling thread (225) |
| `WakeWork` | the test of `queue_sz` after the unlock (237), always for forced deferral (116) |
| `Interrupted`, `TimerFires`, `Late` | the wait for completion (254): a fatal signal, the time-out, its section under the lock |
| `Remove`, `Release` | `list_del` and count under the lock (275), the rest outside of it (282) |
| `WorkStart` to `WorkLate` | `cmd_mgr_task_process` (339) |
| `Confirm` | `cmd_mgr_msgind` (432) |
| `BusDown` | `aicwf_usb_bus_stop` (`aicwf_usb.c` 1969) |

A request is of one of four kinds: without an answer, with memory for an answer
(`e2a_msg`, which polls for an empty list first), of the ids that are always
deferred (`ME_TRAFFIC_IND_REQ`), and of forced deferral. The confirmation of a
command is lost or delayed at will, and confirmations come in any order. Left
out: the contents of messages, messages without a confirmation, callbacks, the
teardown (`cmd_mgr_drain`, `rwnx_cmd_mgr_deinit`) and the SDIO build.

### RunTree, ClusterMap and the code

`runs` is the array, with indices from 1; each operator is the function of its
name in `run.c`, takes the array and returns what becomes of it. The loops and
the recursion are recursive functions, so that they can be reasoned about:
`Bisect` of a range of indices, `Consolidate` of an array and an index (its loop
restarts there), `AddEntry` of an array, the room and a range (its call of itself
for the tail; `AddOnce` is what one call does before that);
`Additions` are their arguments for which the range lies in the file. Insertions take
`room`, the number of insertions that find memory before one does not, and say
whether they succeeded; a failed operation leaves the array as the code does, in
the middle of its work. `map` is a history variable that holds, for each
cluster, where the runs locate it by a definition without bisection
(`Location`); `ClusterMap` says of that map alone what each operation does, and
what a failed one may lose. `Collapsed` is what `run_collapse_range` does when no run has to be
split, which is what remains after its call of itself. `RunPack` has no state of
its own: it packs what a state's runs map and reads it again, as numbers of at
most `MaxSize` bytes (eight in the code; three for TLC, whose own integers end
at four, with clusters that fit). Not modelled: `run_clone`, `run_get_entry`,
`run_get_highest_vcn`, the comparison with the bitmap in `run_unpack_ex`, which
keep or change no run, the sizes of allocations, and 64-bit overflow. The trees
of 6.1 and 6.18 are copies with small differences.

### ServerPlayer and the code

`proc` are the ffplay processes (`held` after SIGSTOP); `process`, `state`,
`poll` the attributes `_process`, `_state`, `_last_poll_time`; `monitor` the
thread that `play` starts with each process; `sought` what a `seek` does in its
second section. Each action is one section under `_lock`: `Play`, `Stop`,
`Pause`, `Resume`, `SeekStop` and then `SeekPlay` or `SeekReset`, `TouchPoll`,
`Watch`, `MonitorEnds`; only `MonitorStart` reads `_process` without it, which
during a `play` may be none. `PollAges` stands for five seconds without a poll
and `ProcEnds` for a process that ends by itself.

`play` has one `except` (853) for two failures. When Popen raises
(`PopenFails`), there is no process. When the thread of the monitor does not
start (`MonitorFails`), ffplay plays, `_process` names it, the state says
stopped, and nobody waits for its end; the watcher leaves it alone, as nothing
is shown to play. Such a process is `Unmonitored`, and the properties except it
by that name, where they must. Volume, devices, positions and the file server
are left out, and so is the shutdown, which does not touch the process, and a
`position` that is not a number, which only a malformed request has: it raises
at 838, outside the `try`, after the old process was ended.

## Runs

| Run | Shows |
|---|---|
| `requests` | one task, two threads, two records; stops, time limits, clearing, deletion and edits at every step: `TypeOK`, `IndInv`, `OneThreadPerRow`, `NoRowsWithoutTask`, `FinalIsFinal`, and the refinement `LedgerSpec` |
| `restarts` | a shutdown or a kill at every step, and the next start: `RunningIsAttended`, `LatestAgrees`, `LatestRunningIsLive`, `RetentionKept`, and under fairness `RunsEnd`, `ThreadsEnd` |
| `retention` | three records, two threads and a settings request that prune, finish times out of order, finalizations and prunes that fail: `RetentionKept`, `PruneTakesOldest` |
| `stopped` | violation of `FailedHasNoScript`: a stop between the record and the start of a script |
| `schedule` | two scheduled tasks and a boot event that depend on each other in a chain; edits, clearing, requests and a kill at every step: `Inv`, `SlotOnce`, `PrereqsCameFirst`, `BootEventsFire` |
| `events` | a scheduled task and a shutdown event that wait for a condition, the deletion of any of them, stops and starts, under fairness: `DueServed`, `StopEnds` |
| `boot` | violation of `BootEventsTrigger`: a boot event whose dependency succeeds between two readings |
| `expression` | violation of `NextIsSlot`: an edit of the expression while the loop works on a copy of the task |
| `unlimited` | violation of `UnlimitedKeepsAll`: a retention set to 0 while a run is about to prune |
| `commands` | two threads, three commands of all kinds, a list that two commands fill, lost and late confirmations, a fatal signal, the removal of the adapter: `QueueCounted`, `AlwaysAnEntry`, `OneOnTheWire`, `AnswerIsItsOwn`, `ConfirmedByItsOwn`, and under fairness `CallersReturn`, `CommandsLeave` |
| `runs` | every run tree of a file of four clusters that the operations reach, with memory or without: `WellFormed`, `LookupFinds`, `MappedFullIsMapped`, `PackedIsRead`, and the refinement `ClustersSpec` |
| `player` | three processes, two pages that seek, and everything else at every step: `OnePlayer`, `HeardIsShown`, `ShownIsHeard`, `Watched`, and under fairness `EndIsNoticed`, `AbandonedIsStopped` |

Bounds. `MaxResult` (records ever inserted) is 2, or 3 where pruning needs
something to choose from; with two threads, two records are a run and the later
run it could be confused with. The threads of `Runners` are interchangeable
(symmetry, where no liveness is checked). One task is enough for everything
about its records; the proofs are for any number. `MaxClock` and
`StampLag` of 1 let two runs finish in another order than their times say.
`MaxCrashes` of 1 with unbounded shutdowns lets a recovery be interrupted.
`Launch` is guarded by the bound on records, counting the threads that have yet
to insert theirs, so the bound never holds a thread in the middle of a run. The
runs stop when no further record may be inserted, so deadlock is not checked.

In `schedule`, four ticks are two minutes: a slot before a kill, a start between
two slots, and a slot after it; the lookahead of four minutes always holds a
slot of both expressions. One request is one that overlaps with a pass of the
loop; two threads of runs are a run and its dependency, or two starts of one
task. The mutants in `PROJECT.json` show that these bounds reach the cases that
the properties are about. In `events`, a tick is a minute, and three of them hold two slots. With one thread
of runs and one deletion, which keep the check of liveness small, the slot is found
blocked (recorded, or the block gone at the second reading, or the task deleted, which
ends the pass), run, passed over as the task still runs from the slot before, and
expired at a start, beside a condition that raises. There is no kill: a stop takes the
process at any point of the loop's pass too, with runs that it has started meanwhile,
and nothing is claimed while the server is down. In `boot`, one slot of the dependency
suffices.

In `commands`, two threads and the worker are every pair of actors that send, and
three commands are one that is out, one that waits behind it and one that finds
the list full; five entries are the least that `PoolIsLarge` allows. In `runs`,
four clusters hold a run with something before it, within it and after it; two
places on the volume (1, and 130, whose distance takes a second byte) make runs
that continue each other, runs that do not, and shared clusters; a room of 0 or 1
makes the first or the second insertion of an operation fail. In `player`, three
processes are one that plays, one that a seek starts and one that a request
starts between the sections of that seek.

Fairness of `CmdMgr` (`commands`): threads and the worker go on, and the timers of
those that wait expire (`WF_vars` of `Sending`, `Waiting`, `Working`). The
adapter need not answer, and nothing is assumed of requests, signals and the
removal. A caller that polls for an empty list is not claimed to return: others
may keep the list from being empty. Fairness of `ServerPlayer` (`player`): the
watcher, the monitors and the second section of a seek go on; a file need not
end, and nobody need poll, play or stop. `EndIsNoticed` and `AbandonedIsStopped`
rest on nothing else.

Fairness of `Scheduler` (`FairSpec`, used by `events`): the loop, the main
thread, the threads of requests and of runs go on. A step that is open to an
actor stays open until it is taken, except that a run needs a free slot of
`Runners`, and these are freed as scripts end. That a script ends is fair where
the time limit is set (`task_timeout`; 0 means none, and then neither property
is claimed). Nothing is assumed of requests, starts, stops and kills, nor of the
clock.

Fairness of `TaskRuns` (`restarts` only): threads, handlers and the start and stop of the
server go on, since nothing in them waits for an event that may not come
(`WF_vars` of `RunnerStep`, `HandlerStep`, `AdminStep`, `LifeStep`); a script
that outlives its limit is noticed (`WF_vars` of `Timeout`: `communicate` is
called with a limit unless the setting is 0, and `RunsEnd` is claimed only with
one). Nothing is assumed of requests, crashes or scripts that end by themselves.

## Proofs

`TaskRunsProofs` proves, for every value of the constants:

* `Invariance`: `Spec => []IndInv`. No single property is inductive:
  `RunningIsAttended` needs to know that a thread's row is its own
  (`OneThreadPerRow`), that a thread that closes has a status (`ThreadInv`) and
  that it lives only while the server serves; `LatestAgrees` needs to know which
  task a snapshot's run belongs to (`SnapshotInv`, `TableInv`).
* `TypeCorrect`, `RecordsHaveTasks`, `RowsAreNotShared` as its consequences, and
  `RunningRowsAreAttended`, `SnapshotsAgree` under the assumption that
  `finalize_result` does not raise (`"dbfault" \notin Ops`), which is needed: the
  code leaves the record running when it does.
* `VerdictsStay` (`FinalIsFinal`) and `Refinement` (`Spec => LedgerSpec`): every
  step of the server is an insert, a drop or one verdict for running rows
  (`RowSteps`), and each of these is a step of the ledger.
* `RunningSnapshotsAreLive` (`LatestRunningIsLive`) without requests that clear
  records (`"clear" \notin Ops`), which is needed: `delete_results` leaves the
  snapshot as it is. Whoever closes a row that a snapshot describes writes that
  snapshot in the same section, since the row is of its task (`SnapshotInv`).

The proof that a step keeps the invariant has one step per action; actions that
leave the tables alone go through `QuietStep` and `TablesStay`, those that close
or drop rows through `ClosingStep`, `ClosingSnapshots` and `ClosingAttended`, a
thread that ends through `LeavingStep`. The assumptions on the constants are
`ConstantsAssumption` and `MarkedAssumption`.

It also proves `OldestGoFirst` (`PruneTakesOldest`) and `RetentionIsKept`
(`RetentionKept`), both for any requests, kills and faults. The bound is that of
the *settled* records of a task (`Settled`): those that are not in the hands of a
thread that is about to prune (`PrunedNext`) and that have not lost their prune
(`unpruned`). The core is `KeptAreFew`: of the records that a prune keeps, all but
the oldest are newer than the oldest, which by the `LIMIT` has fewer than n newer
ones; that there is an oldest (`OldestExists`) follows from the strict subset
ordering on finite sets being well-founded. Every other step adds no settled
record: a thread that closes one is about to prune, and one that leaves without
pruning, or a change of the setting, makes it `unpruned`.

`SchedulerProofs` proves of `Scheduler`, for any tasks, dependencies,
expressions, threads and bounds:

* `SchedulerTypeCorrect` and `NoScheduleIsLost` (`Inv`). What is needed beside
  the types: an actor at work has a task (`WorkHasTask`), a thread that is not
  idle too (`RunHasTask`), and the row that `update_task` is about to write has
  a `next_run_at` (`NextInv`).
* `DependenciesSucceedFirst` (`PrereqsCameFirst`): a snapshot that says success
  means that there was one (`PrereqInv`). Every step starts nothing, starts one
  run whose dependencies are met, or ends one run (`NextEffects`).
* `CirclesNeverRun`: from the same three kinds of steps, tasks each of which
  depends on one of the others never run. `create_task` and `update_task`
  accept such dependencies without a word.

`SchedulerSlotProofs` proves `SlotsRunOnce` (`SlotOnce`) under the assumption
`NoDeadEnds`: from every moment, every expression has a slot in the lookahead.
The assumption is needed. The lookahead is 366 days; for the 29th of February
`schedule_next_run` raises after the run was started, the slot stays due, and
the loop starts the task again in each pass that finds it ended. The argument
is `SlotInv`: a slot that was started and that no edit has brought back is
behind the `next_run_at` of the task (`TableInv`) and of every copy that the
loop holds (`QueueInv`, `TakenInv`), or behind the start of the server, or the
loop is about to move on. It needs to know that the moments of the loop never
run ahead of the clock and never behind a start (`LoopClock`). Steps of others
than the loop go through `AsideKeeps`, those of the loop that neither start nor
write through `OnwardKeeps`. The assumptions on the constants are
`SchedulerConstants`.

It also proves `BootEventsAreServed` (`BootEventsFire`), which excepts a boot event
that depends on a task with a success since the start, since `RecordBlock` may
then find no reason and record nothing (`Freed`, `News`); a reason that was read
once can only go by such a success (`NewsIsFresh`). While
`start()` is under way (`Booting`), the boot events that are owed are in its list
or in its hands, and no thread runs one of those in its list: the records of the
last process were closed before, the loop takes only schedules and conditions
(`LoopKinds`), and requests are not served yet. So main never finds one of them
running, and passes none over.

`CmdMgrProofs` proves of `CmdMgr`, for any number of entries, threads, message
ids and commands, with fatal signals and the removal:

* `CommandsCounted` (`QueueCounted`), `ManagerTypeCorrect` (`TypeOK`). That
  `queue_sz` stays a natural number needs to know that whoever takes a command
  off the list has one that is on it (`OnList`, `WorkerOwns`), hence that no two
  actors have the same entry (`Apart`).
* `EntryForEveryCommand` (`AlwaysAnEntry`): an entry in use is on the list, with
  a thread, or with the worker (`Entries`), so that a thread that sends nothing
  leaves one free. The assumption `PoolIsLarge` is needed: 40 entries against a
  list of 16 suffice for fewer than 24 threads at a time.

It also proves, while no command has timed out and no waiting thread
was killed (`Sound`; beyond it the properties are false, see the hazards):
`OneCommandIsOut` (`OneOnTheWire`), `AnswersGoHome` (`AnswerIsItsOwn`) and
`ConfirmedRightly` (`ConfirmedByItsOwn`). The argument is `SoundInv`: tokens on
the list are distinct (`Tokens`); behind a busy command everything is yet to be
pushed (`Queued`), so that at most one command is out (`OneOut`); the adapter has
only that one (`Sent`), and who is about to send has the first of the list
(`Pushing`); a command that is to be answered is the one its caller waits for
(`Served`). That `Enqueue` keeps `Queued` needs the last command of the list,
whose existence (`LastExists`) follows from the strict subset ordering on finite
sets being well-founded.

`ServerPlayerProofs` proves `OnePlayerLives` (`OnePlayer`), `HeardMusicIsShown`
(`HeardIsShown`), `ShownMusicIsHeard` (`ShownIsHeard`), `EndsAreWatched`
(`Watched`) and `PlayerTypeCorrect`, for any number of plays and pages. The five
properties are inductive together: `_stop_internal` silences
everything only because nothing but `process` is heard (`OnePlayer`), and a
monitor that says what ended is right only because it waits for its own process
or a later one that is still the current one; a process to come has no monitor
(`ToCome`), so that one that was started without is `Unmonitored`.

`RunTreeLemmas` and `RunTreeProofs` prove of `RunTree`, for
files of any length, volumes and arrays of any size, and memory that runs out
anywhere:

* `RunsWellFormed` (`WellFormed`): the array stays in order, with runs of at
  least one cluster that lie in the file;
* `RunsAreFound` (`LookupFinds`) and `RunsMappedFull` (`MappedFullIsMapped`): in
  such an array, the bisection finds what is there, and a range is called mapped
  exactly when it is;
* `RunsImplementClusters` (`ClustersSpec`): each operation does to the location of
  every cluster what `ClusterMap` says, or loses what it says when it fails.

The invariant is `Shows`: the array is well-formed and `map` is what it shows.
It is simple, since the operations are not interleaved with others; the work is
in what they do to an array in between, when it is *not* in order.

1. *Induction.* The provers cannot use the induction theorems of the library, which
   take a predicate as a parameter. `SetInduction` says the same of a set, and is
   proved from the pigeonhole principle for finite sets. From it follow
   `LeastExists`, that a loop which always ends is a function (`LoopIsDefined`),
   and that what holds of an array when it holds of all with a smaller measure
   holds of all (`MeasureInduction`). So the recursive definitions may be unfolded
   (`BisectIs`, `ConsolidateIs`, `AddEntryIs`), and the lemmas about them hold for
   every input.
2. *`run_lookup`.* `BisectFinds` by induction on the length of the range; a run that
   contains the cluster, or the place between its neighbours (`LookupAnswers`).
3. *`run_consolidate`.* An array under change is in order but for one run, which lies
   over those after it (`Over`); what it shows is what that run covers, and
   elsewhere what the others do (`Shown`). Each round of the loop keeps that
   (`EatenKeeps`, `CutKeeps`, `JoinKeeps`), and the loop ends in order. The two
   calls that `run_add_entry` makes are `NormalizePuts`: the first starts from the
   run before the change and may end there, the second from the changed one.
4. *`run_add_entry`.* One call puts the range into the array and, where it cuts a run
   in two, forgets the run's remnant (`DoneWithRange`, `DoneOver`, `DoneSplit`); the
   call for the remnant brings it back (`OnwardKeeps`). `AddEntryKeeps` is by
   induction on the number of clusters after the start of the range: the range is in
   place and nothing else has moved, or memory ran out and what was in its way or
   behind it is lost or shows the range's locations (`Keeps`).
5. *The rest.* What truncating, collapsing and opening a gap leave is drawn from the
   old array, run by run (`Drawn`, `DrawnShows`); `run_collapse_range` and
   `run_insert_range` follow with `AddEntryKeeps` for the holes and halves that
   they insert (`CollapseRangeKeeps`, `InsertRangeKeeps`).

The assumptions are `RunTreeConstants`: a file has a cluster, cluster 0 of the
volume belongs to no file, and `run_truncate_around` keeps at least two runs.

`RunPackProofs` proves `PackedRunsAreRead` (`PackedIsRead`): what `run_pack` has
written of a mapped range is read by `run_unpack` as the same locations, in a
buffer of any size and numbers of up to eight bytes, wherever the buffer ended
and wherever outside a hole the reading starts. The two loops are followed side
by side.

1. *Numbers.* A number that fits its bytes with a sign is read as it was written,
   and one that is not negative also without a sign (`NumberIsRead`); so do the
   distances between two clusters of the volume (`HoldsWithin`).
2. *Writing.* After each run, the entries are those of the first runs, up to where
   the buffer or the range ended (`RoundPacks`, `AllPacked`): since every cluster
   of the range is mapped, each run starts where the one before it ended
   (`NextTouches`), and since no two runs share a cluster of the volume, no distance
   is zero, which `run_unpack` refuses.
3. *Reading.* After as many entries, the reader is at the cluster and has the
   location where the writer was, and its array shows what was packed, from where
   the reading starts (`RoundReads`, `AllRead`). Each run goes to the end of an array
   in order, for which one insertion is enough (`AppendKeeps`).

It needs one more invariant, `Placed`: a cluster is never further on the volume
than the file is long after the start of a range that was added. The assumption,
`RunPackConstants`, is that the places where that may be, and lengths up to the
file's, are numbers of at most `MaxSize` bytes.

Only model-checked: the liveness properties (`RunsEnd`, `ThreadsEnd`,
`DueServed`, `StopEnds`, `CallersReturn`, `CommandsLeave`, `EndIsNoticed`,
`AbandonedIsStopped`), which are out of the reach of the prover;
and `UnlimitedKeepsAll`, `FailedHasNoScript`, `NextIsSlot` and
`BootEventsTrigger`, which the code violates. Every other property that a passing run checks is stated
by a theorem.

## What the checks found

Four places where the code does not do what it says, each with a run that shows
it (`PROJECT.json`, findings): a stop that comes between the record of a run and
the start of its script does not stop the run; a change of the
retention to unlimited can delete all records of a task; an edit of a cron
expression can be undone in part by a loop that works on an older copy of the
task, which is left with a slot of its old expression; a boot event whose
dependency succeeds between the two times that its block is asked about is neither
started nor recorded. A fifth shows without a run: the marker of a task id is a
prefix of that of a longer one (`_find_task_pids`, 1717), so that a stop of task 1
ends the scripts of tasks 10 and 11; `TaskRuns` takes what is found as a constant
(`Marked`).

The models of the drivers and of the player have no run that expects a
violation, but their properties had to be restricted where the code is weaker
than one would like; the hazards in `PROJECT.json` name the lines. After a
time-out the confirmation of a command can be copied to the stack of a caller
that has returned, and a fatal signal is taken for a confirmation (`Sound`); a
deferred command can lie on the list with nobody woken for it (`missed`); a
failed insertion leaves a run tree that has lost clusters or takes them for
others (`PlaceFails`); runs are not read rightly from within a hole; a seek of
something that was not playing can say stopped over a file that plays
(`overrun`), and so does a `play` whose monitor thread does not start
(`Unmonitored`).

## Not modelled, and what would come next

1. fn-execute and fn-appdownload, the other servers with threads of their own;
   the calendar of `CronExpression`, with its limit of 366 days; settings,
   templates, the instance lock and the service scripts.
2. fn-aic8800: the teardown of the command manager, and the receive and transmit
   queues of `aicwf_usb.c`. fn-ntfs3: the allocation bitmap (`bitmap.c`), the
   attributes on top of the run tree (`attrib.c`) and the log (`fslog.c`), which
   would show what becomes of a tree that an insertion left half done.
3. `Scheduler`: edits of `pre_task_ids` and of the trigger type, and tasks that
   are created while the server runs.

The rest of the drivers talks to hardware, firmware or the disk in formats that
they do not define, and the remaining applications pass requests to tools of the
system: what could be checked of them is mostly the tools' own behaviour.
