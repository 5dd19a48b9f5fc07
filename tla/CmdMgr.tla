------------------------------- MODULE CmdMgr -------------------------------
(***************************************************************************)
(* The command manager of the aic8800 USB driver, rwnx_cmds.c with         *)
(* rwnx_send_msg of rwnx_msg_tx.c: threads hand commands for the adapter   *)
(* to a list under a spin lock; a command goes out at once when nothing is *)
(* under way, or is left to a worker; the thread or the worker that sent   *)
(* it waits for its confirmation, and takes it off the list.               *)
(*                                                                         *)
(* A step is one section under the lock, or one access outside of it.      *)
(* Commands are entries of cmd_array, which are used again.  The list is   *)
(* in the order of the tokens, as both grow together, so that it is here a *)
(* set of entries; they start with 1, as 0 is the token of no command.  A  *)
(* command on the list is complete when it is not WAIT_CFM any more: no    *)
(* caller asks for NONBLOCK, and there is no WAIT_ACK.  Messages without a *)
(* confirmation pass by the list and are left out, as is the teardown of   *)
(* the manager after the removal.                                          *)
(***************************************************************************)
EXTENDS Naturals, FiniteSets

CONSTANTS
  Slots,       \* indices of cmd_array
  Threads,     \* threads that send commands
  NoThread,    \* e2a_msg of a command whose caller wants no answer
  Ids,         \* message ids of confirmations
  Requests,    \* the kinds of requests this instance explores
  MaxQueued,   \* RWNX_CMD_MAX_QUEUED
  MaxCommands, \* bound: the last token with which a thread starts to send
  Ops          \* those explored of a fatal signal and the removal of the adapter

Kinds == {"plain", "answer", "traffic", "deferred"}
None == 0

ASSUME CmdMgrConstants ==
  /\ Slots \subseteq Nat \ {None} /\ IsFiniteSet(Slots) /\ IsFiniteSet(Threads)
  /\ None \notin Ids
  /\ NoThread \notin Threads
  /\ Requests \subseteq Kinds
  /\ MaxQueued \in Nat \ {0} /\ MaxCommands \in Nat
  /\ Ops \subseteq {"kill", "unplug"}

(* RWNX_CMD_ARRAY_SIZE is 40 and RWNX_CMD_MAX_QUEUED 16: fewer than 24     *)
(* threads send commands at a time.                                        *)
ASSUME PoolIsLarge == Cardinality(Slots) > MaxQueued + Cardinality(Threads)

VARIABLES
  slot,     \* cmd_array
  cmds,     \* cmd_mgr->cmds
  queue_sz, \* cmd_mgr->queue_sz
  state,    \* cmd_mgr->state
  next_tkn, \* cmd_mgr->next_tkn
  ws_tx,    \* the wakeup source is held
  sender,   \* what each thread does next, with which command
  worker,   \* cmd_mgr_task_process, and the command it works on
  cmdWork,  \* the work is queued
  wire,     \* commands the adapter has and has not confirmed
  bus,      \* usbdev->state
  answer,   \* the token of the confirmation copied to the caller's memory, or 0
  killed,   \* history: a waiting thread had a fatal signal
  missed    \* history: the first of the list was left to a worker nobody woke

manager == <<cmds, queue_sz, state, next_tkn, ws_tx>>
history == <<killed, missed>>
vars == <<slot, manager, sender, worker, cmdWork, wire, bus, answer, history>>

Entry == [used : BOOLEAN, flags : SUBSET {"PUSH", "CFM"}, reqid : Ids \cup {None},
          e2a_msg : Threads \cup {NoThread}, tkn : Nat]
Unused == [used |-> FALSE, flags |-> {}, reqid |-> None, e2a_msg |-> NoThread, tkn |-> 0]
Resting == [pc |-> "idle", s |-> None, kind |-> "plain", tkn |-> 0]
Message == [s : Slots, tkn : Nat, id : Ids]

TypeOK ==
  /\ slot \in [Slots -> Entry]
  /\ cmds \subseteq Slots
  /\ queue_sz \in Nat /\ next_tkn \in Nat
  /\ state \in {"inited", "crashed"}
  /\ ws_tx \in BOOLEAN
  /\ sender \in [Threads ->
       [pc : {"idle", "queue", "push", "wake", "wait", "woken", "late", "release"},
        s : Slots \cup {None}, kind : Kinds, tkn : Nat]]
  /\ worker \in [pc : {"idle", "look", "push", "wait", "late", "release"}, s : Slots \cup {None}]
  /\ cmdWork \in BOOLEAN
  /\ wire \subseteq Message
  /\ bus \in {"up", "down"}
  /\ answer \in [Threads -> Nat]
  /\ killed \in BOOLEAN /\ missed \in BOOLEAN

Init ==
  /\ slot = [s \in Slots |-> Unused]
  /\ cmds = {} /\ queue_sz = 0 /\ next_tkn = 1
  /\ state = "inited"
  /\ ws_tx = FALSE
  /\ sender = [th \in Threads |-> Resting]
  /\ worker = [pc |-> "idle", s |-> None]
  /\ cmdWork = FALSE
  /\ wire = {}
  /\ bus = "up"
  /\ answer = [th \in Threads |-> 0]
  /\ killed = FALSE /\ missed = FALSE
-----------------------------------------------------------------------------
(* The list.                                                               *)
IsFirst(s) == s \in cmds /\ \A o \in cmds : slot[s].tkn <= slot[o].tkn
IsLast(s) == s \in cmds /\ \A o \in cmds : slot[o].tkn <= slot[s].tkn

(* A slip: the waiter and the list each count the command down.            *)
DeleteTwice(s) ==
  /\ cmds' = cmds \ {s}
  /\ queue_sz' = queue_sz - 2
  /\ ws_tx' = IF queue_sz = 1 THEN FALSE ELSE ws_tx

(* list_del with queue_sz--, and the wakeup source that is released with   *)
(* the last command.                                                       *)
Delete(s) ==
  /\ cmds' = cmds \ {s}
  /\ queue_sz' = queue_sz - 1
  /\ ws_tx' = IF queue_sz = 1 THEN FALSE ELSE ws_tx

(* What wait_for_completion waits for.                                     *)
Complete(s) == "CFM" \notin slot[s].flags

(* A slip: only commands that are still to be pushed are waited for.       *)
BusyIfUnsent(s) == "PUSH" \in slot[s].flags

Busy(s) == slot[s].flags \cap {"PUSH", "CFM"} # {}

(* aicwf_set_cmd_tx: the message goes out, or is lost with the adapter or  *)
(* with a transfer that does not end.                                      *)
Transmit(s) ==
  \/ bus = "up" /\ wire' = wire \cup {[s |-> s, tkn |-> slot[s].tkn, id |-> slot[s].reqid]}
  \/ UNCHANGED wire

Goes(th, pc) == sender' = [sender EXCEPT ![th].pc = pc]

(* The caller returns, and the memory for its answer is gone with it.      *)
Returns(th) ==
  /\ sender' = [sender EXCEPT ![th] = Resting]
  /\ answer' = [answer EXCEPT ![th] = 0]
-----------------------------------------------------------------------------
(* rwnx_send_msg, rwnx_send_msg1: the first free entry.                    *)
SendMsg(th, kind, id) ==
  /\ sender[th].pc = "idle" /\ bus = "up"
  /\ next_tkn <= MaxCommands
  /\ kind \in Requests
  /\ \E s \in Slots :
       /\ ~ slot[s].used /\ \A o \in Slots : o < s => slot[o].used
       /\ slot' = [slot EXCEPT ![s].used = TRUE, ![s].reqid = id,
                               ![s].e2a_msg = IF kind = "answer" THEN th ELSE NoThread]
       /\ sender' = [sender EXCEPT ![th] = [pc |-> "queue", s |-> s, kind |-> kind, tkn |-> 0]]
  /\ UNCHANGED <<manager, worker, cmdWork, wire, bus, answer, history>>

(* A command is left to the worker when the last one is still busy, and    *)
(* always when it is of the kinds that must not wait.                      *)
Defers(th) ==
  \/ sender[th].kind \in {"traffic", "deferred"}
  \/ \E o \in cmds : IsLast(o) /\ Busy(o)

(* A slip: an answer is waited for behind other commands.                  *)
MayQueueAnyTime(th) == TRUE

(* A caller that wants an answer polls until the list is empty.            *)
MayQueue(th) == sender[th].kind = "answer" => cmds = {} \/ state = "crashed"

(* cmd_mgr_queue, cmd_mgr_queue_force_defer up to the end of the section.  *)
Enqueue(th) ==
  LET s == sender[th].s IN
  /\ sender[th].pc = "queue" /\ MayQueue(th)
  /\ state = "inited" /\ (cmds # {} => queue_sz # MaxQueued)
  /\ slot' = [slot EXCEPT ![s].flags = @ \cup {"CFM"} \cup IF Defers(th) THEN {"PUSH"} ELSE {},
                          ![s].tkn = next_tkn]
  /\ next_tkn' = next_tkn + 1
  /\ cmds' = cmds \cup {s}
  /\ queue_sz' = queue_sz + 1
  /\ ws_tx' = IF queue_sz = 0 THEN TRUE ELSE ws_tx
  /\ sender' = [sender EXCEPT ![th].pc = IF Defers(th) THEN "wake" ELSE "push",
                              ![th].tkn = next_tkn]
  /\ UNCHANGED <<state, worker, cmdWork, wire, bus, answer, history>>

(* A slip: the entry of a refused command is not freed.                    *)
RefuseLeaks(th) ==
  /\ sender[th].pc = "queue" /\ MayQueue(th)
  /\ state # "inited" \/ (cmds # {} /\ queue_sz = MaxQueued)
  /\ Returns(th)
  /\ UNCHANGED <<slot, manager, worker, cmdWork, wire, bus, history>>

(* -EPIPE or -ENOMEM, and the entry is free again.                         *)
Refuse(th) ==
  /\ sender[th].pc = "queue" /\ MayQueue(th)
  /\ state # "inited" \/ (cmds # {} /\ queue_sz = MaxQueued)
  /\ slot' = [slot EXCEPT ![sender[th].s].used = FALSE]
  /\ Returns(th)
  /\ UNCHANGED <<manager, worker, cmdWork, wire, bus, history>>

(* Outside the lock: the thread whose command was not left to the worker   *)
(* sends it, and waits.                                                    *)
Push(th) ==
  /\ sender[th].pc = "push"
  /\ Transmit(sender[th].s)
  /\ Goes(th, "wait")
  /\ UNCHANGED <<slot, manager, worker, cmdWork, bus, answer, history>>

(* Outside the lock: the worker is woken for a list of one command, and    *)
(* always by cmd_mgr_queue_force_defer.  The caller returns at once.       *)
WakeWork(th) ==
  LET s == sender[th].s
      wakes == sender[th].kind = "deferred" \/ queue_sz <= 1
  IN
  /\ sender[th].pc = "wake"
  /\ cmdWork' = (cmdWork \/ wakes)
  /\ missed' = (missed \/ (~ wakes /\ IsFirst(s) /\ slot[s].tkn = sender[th].tkn))
  /\ Returns(th)
  /\ UNCHANGED <<slot, manager, worker, wire, bus, killed>>

(* The command of a waiting thread is complete, or the thread was killed:  *)
(* either way it takes its command off the list ...                        *)
Remove(th) ==
  LET s == sender[th].s IN
  /\ \/ sender[th].pc = "wait" /\ Complete(s)
     \/ sender[th].pc = "woken"
  /\ Delete(s)
  /\ Goes(th, "release")
  /\ UNCHANGED <<slot, state, next_tkn, worker, cmdWork, wire, bus, answer, history>>

(* A slip: the worker is left to find the rest by itself.                  *)
ReleaseUnwoken(th) ==
  /\ sender[th].pc = "release"
  /\ slot' = [slot EXCEPT ![sender[th].s] = Unused]
  /\ Returns(th)
  /\ UNCHANGED <<manager, worker, cmdWork, wire, bus, history>>

(* ... and, outside the lock, frees it and wakes the worker for the rest.  *)
Release(th) ==
  /\ sender[th].pc = "release"
  /\ slot' = [slot EXCEPT ![sender[th].s] = Unused]
  /\ cmdWork' = (cmdWork \/ (cmds # {} /\ bus = "up"))
  /\ Returns(th)
  /\ UNCHANGED <<manager, worker, wire, bus, history>>

(* A fatal signal: what wait_for_completion_killable_timeout returns is    *)
(* not zero.                                                               *)
Interrupted(th) ==
  /\ "kill" \in Ops
  /\ sender[th].pc = "wait" /\ ~ Complete(sender[th].s)
  /\ Goes(th, "woken")
  /\ killed' = TRUE
  /\ UNCHANGED <<slot, manager, worker, cmdWork, wire, bus, answer, missed>>

(* A slip: a crashed manager needs no timers.                              *)
TimerOfSound(th) ==
  /\ sender[th].pc = "wait" /\ ~ Complete(sender[th].s) /\ state = "inited"
  /\ Goes(th, "late")
  /\ UNCHANGED <<slot, manager, worker, cmdWork, wire, bus, answer, history>>

(* No confirmation within RWNX_80211_CMD_TIMEOUT_MS ...                    *)
TimerFires(th) ==
  /\ sender[th].pc = "wait" /\ ~ Complete(sender[th].s)
  /\ Goes(th, "late")
  /\ UNCHANGED <<slot, manager, worker, cmdWork, wire, bus, answer, history>>

(* A slip: the late command is counted down, and stays.                    *)
LateUncounted(th) ==
  /\ sender[th].pc = "late"
  /\ state' = "crashed"
  /\ queue_sz' = queue_sz - 1
  /\ slot' = [slot EXCEPT ![sender[th].s].used = FALSE]
  /\ Returns(th)
  /\ UNCHANGED <<cmds, next_tkn, ws_tx, worker, cmdWork, wire, bus, history>>

(* ... has the manager refuse all commands from now on.  The command stays *)
(* on the list, while rwnx_send_msg frees its entry.                       *)
Late(th) ==
  /\ sender[th].pc = "late"
  /\ state' = "crashed"
  /\ slot' = [slot EXCEPT ![sender[th].s].used = FALSE]
  /\ Returns(th)
  /\ UNCHANGED <<cmds, queue_sz, next_tkn, ws_tx, worker, cmdWork, wire, bus, history>>
-----------------------------------------------------------------------------
(* cmd_mgr_task_process, on a workqueue of one thread.                     *)
WorkGoes(pc) == worker' = [worker EXCEPT !.pc = pc]

WorkStart ==
  /\ worker.pc = "idle" /\ cmdWork
  /\ cmdWork' = FALSE
  /\ WorkGoes("look")
  /\ UNCHANGED <<slot, manager, sender, wire, bus, answer, history>>

(* A slip: the first command that is to be pushed, wherever it stands.     *)
NextOfAny(s) ==
  s \in cmds /\ "PUSH" \in slot[s].flags
  /\ \A o \in cmds : "PUSH" \in slot[o].flags => slot[s].tkn <= slot[o].tkn

(* The command to push is the first of the list or none.                   *)
NextToPush(s) == IsFirst(s) /\ "PUSH" \in slot[s].flags

WorkLook ==
  /\ worker.pc = "look"
  /\ \/ \E s \in Slots : NextToPush(s) /\ worker' = [pc |-> "push", s |-> s]
     \/ (\A s \in Slots : ~ NextToPush(s)) /\ worker' = [pc |-> "idle", s |-> None]
  /\ UNCHANGED <<slot, manager, sender, cmdWork, wire, bus, answer, history>>

WorkPush ==
  /\ worker.pc = "push"
  /\ slot' = [slot EXCEPT ![worker.s].flags = @ \ {"PUSH"}]
  /\ Transmit(worker.s)
  /\ WorkGoes("wait")
  /\ UNCHANGED <<manager, sender, cmdWork, bus, answer, history>>

WorkRemove ==
  /\ worker.pc = "wait" /\ Complete(worker.s)
  /\ Delete(worker.s)
  /\ WorkGoes("release")
  /\ UNCHANGED <<slot, state, next_tkn, sender, cmdWork, wire, bus, answer, history>>

WorkRelease ==
  /\ worker.pc = "release"
  /\ slot' = [slot EXCEPT ![worker.s] = Unused]
  /\ worker' = [pc |-> "look", s |-> None]
  /\ UNCHANGED <<manager, sender, cmdWork, wire, bus, answer, history>>

WorkTimer ==
  /\ worker.pc = "wait" /\ ~ Complete(worker.s)
  /\ WorkGoes("late")
  /\ UNCHANGED <<slot, manager, sender, cmdWork, wire, bus, answer, history>>

(* The worker leaves the late command on the list, and its entry in use.   *)
WorkLate ==
  /\ worker.pc = "late"
  /\ state' = "crashed"
  /\ worker' = [pc |-> "look", s |-> None]
  /\ UNCHANGED <<slot, cmds, queue_sz, next_tkn, ws_tx, sender, cmdWork, wire, bus, answer, history>>
-----------------------------------------------------------------------------
(* cmd_mgr_msgind: a confirmation goes to the first command of the list    *)
(* that expects one of its id, in whatever order the adapter confirms.     *)
Expects(s, m) == s \in cmds /\ slot[s].reqid = m.id /\ "CFM" \in slot[s].flags

Confirmed(s, m) ==
  Expects(s, m) /\ \A o \in Slots : Expects(o, m) => slot[s].tkn <= slot[o].tkn

Confirm(m) ==
  /\ m \in wire /\ bus = "up"
  /\ wire' = wire \ {m}
  /\ \/ \E s \in Slots :
          LET th == slot[s].e2a_msg IN
          /\ Confirmed(s, m)
          /\ slot' = [slot EXCEPT ![s].flags = @ \ {"CFM"}]
          /\ answer' = IF th = NoThread THEN answer ELSE [answer EXCEPT ![th] = m.tkn]
     \/ (\A s \in Slots : ~ Confirmed(s, m)) /\ UNCHANGED <<slot, answer>>
  /\ UNCHANGED <<manager, sender, worker, cmdWork, bus, history>>

(* aicwf_usb_disconnect: the adapter is gone, with what it was to confirm. *)
BusDown ==
  /\ "unplug" \in Ops /\ bus = "up"
  /\ bus' = "down"
  /\ wire' = {}
  /\ UNCHANGED <<slot, manager, sender, worker, cmdWork, answer, history>>

Sending(th) == Enqueue(th) \/ Refuse(th) \/ Push(th) \/ WakeWork(th)
Waiting(th) == Remove(th) \/ Release(th) \/ TimerFires(th) \/ Late(th)
Working ==
  WorkStart \/ WorkLook \/ WorkPush \/ WorkRemove \/ WorkRelease \/ WorkTimer \/ WorkLate

Next ==
  \/ \E th \in Threads :
       \/ \E kind \in Kinds, id \in Ids : SendMsg(th, kind, id)
       \/ Sending(th) \/ Waiting(th) \/ Interrupted(th)
  \/ Working
  \/ \E m \in wire : Confirm(m)
  \/ BusDown

Spec == Init /\ [][Next]_vars

(* Threads and the worker run on, and their timers expire.  The adapter    *)
(* need not confirm anything, and no thread need send.                     *)
FairSpec ==
  /\ Spec
  /\ \A th \in Threads : WF_vars(Sending(th)) /\ WF_vars(Waiting(th))
  /\ WF_vars(Working)
-----------------------------------------------------------------------------
Sound == state = "inited" /\ ~ killed

Holds(th, s) == sender[th].pc # "idle" /\ sender[th].s = s
WorkerHolds(s) == worker.pc \in {"push", "wait", "late", "release"} /\ worker.s = s

(* queue_sz counts the list, and the wakeup source is held while there are *)
(* commands on it: the host must not suspend under a command.              *)
QueueCounted ==
  /\ queue_sz = Cardinality(cmds)
  /\ ws_tx <=> cmds # {}

(* A thread that sends a command finds a free entry: rwnx_cmd_malloc would *)
(* return NULL, which rwnx_send_msg does not look at.  Entries in use are  *)
(* on the list or with a thread, even when the manager has crashed.        *)
AlwaysAnEntry ==
  (\E th \in Threads : sender[th].pc = "idle") => \E s \in Slots : ~ slot[s].used

(* The adapter works on one command at a time: the one a thread has just   *)
(* sent, or the one the worker has.                                        *)
OneOnTheWire ==
  Sound => \A m, n \in wire : m = n

(* What is copied to the memory of a caller is the confirmation of the     *)
(* command it waits for: nothing is written to the stack of a caller that  *)
(* has returned, no confirmation answers another command, and a caller     *)
(* that succeeds has its answer.                                           *)
AnswerIsItsOwn ==
  Sound => \A th \in Threads :
    /\ answer[th] # 0 =>
         /\ sender[th].pc \in {"wait", "late", "release"}
         /\ answer[th] = sender[th].tkn
    /\ sender[th].pc = "release" /\ sender[th].kind = "answer" => answer[th] # 0

(* A command that completes while the manager is sound does so by its own  *)
(* confirmation.                                                           *)
ConfirmedByItsOwn ==
  [][Sound => \A s \in cmds \cap cmds' : ~ Complete(s) /\ Complete(s)' =>
       [s |-> s, tkn |-> slot[s].tkn, id |-> slot[s].reqid] \in wire \ wire']_vars

(* A caller gets its result, or -ETIMEDOUT, whatever the adapter and the   *)
(* other threads do.  One that wants an answer may have to let the others  *)
(* go first for ever, as long as it polls.                                 *)
CallersReturn ==
  \A th \in Threads :
    sender[th].pc # "idle" /\ ~ (sender[th].pc = "queue" /\ sender[th].kind = "answer")
      ~> sender[th].pc = "idle"

(* No command stays on the list of a manager that goes on, unless the      *)
(* worker was not woken for the first one.                                 *)
CommandsLeave ==
  \A t \in 1..MaxCommands :
    (\E s \in cmds : slot[s].tkn = t)
      ~> (state = "crashed" \/ missed \/ bus = "down" \/ \A s \in cmds : slot[s].tkn # t)
=============================================================================
