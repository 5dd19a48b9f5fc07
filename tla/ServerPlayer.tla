---------------------------- MODULE ServerPlayer ----------------------------
(***************************************************************************)
(* The player of fn-audioplayer, class ServerPlayer: the server plays one  *)
(* file at a time with an ffplay process, for web pages that start, pause, *)
(* seek and stop it and ask for its status.  Handlers of the threads of    *)
(* the HTTP server, a watcher and one monitor per process share the state  *)
(* under a lock.                                                           *)
(*                                                                         *)
(* A step is one section under the lock; a monitor first reads _process    *)
(* without it.  seek lets the lock go between its two sections.  Times are *)
(* abstracted to whether the last poll is older than five seconds; volume, *)
(* sinks and positions are left out, and so is a server that is shut down  *)
(* while ffplay plays on.  A killed process ends.                          *)
(***************************************************************************)
EXTENDS Naturals

CONSTANTS
  Threads, \* threads of the HTTP server that seek
  MaxPlays \* bound: processes started

None == 0
Procs == 1 .. MaxPlays

ASSUME ServerPlayerConstants == MaxPlays \in Nat

VARIABLES
  proc,    \* the ffplay processes: "held" after SIGSTOP
  process, \* self._process
  state,   \* self._state
  poll,    \* self._last_poll_time
  monitor, \* what the monitor started with each process waits for
  sought,  \* between the sections of seek: what it does in the second
  overrun  \* history: a seek has set "stopped" over a process of a play

vars == <<proc, process, state, poll, monitor, sought, overrun>>

Live == {"runs", "held"}
Ended == {"done", "failed"}
Active == {"playing", "paused"}
Unstarted == [pc |-> "none", of |-> None]
Over == [pc |-> "over", of |-> None]

TypeOK ==
  /\ proc \in [Procs -> {"none"} \cup Live \cup Ended]
  /\ process \in Procs \cup {None}
  /\ state \in {"stopped", "ended"} \cup Active
  /\ poll \in {"never", "recent", "old"}
  /\ monitor \in [Procs -> [pc : {"none", "start", "wait", "over"}, of : Procs \cup {None}]]
  /\ sought \in [Threads -> {"none", "again", "reset"}]
  /\ overrun \in BOOLEAN

Init ==
  /\ proc = [p \in Procs |-> "none"]
  /\ process = None
  /\ state = "stopped"
  /\ poll = "never"
  /\ monitor = [p \in Procs |-> Unstarted]
  /\ sought = [th \in Threads |-> "none"]
  /\ overrun = FALSE
-----------------------------------------------------------------------------
(* A slip: SIGTERM alone, which a stopped process does not get.            *)
TerminatedOnly ==
  [p \in Procs |-> IF p = process /\ proc[p] = "runs" THEN "failed" ELSE proc[p]]

(* _stop_internal: SIGTERM, and SIGKILL for a process that does not end.   *)
Terminated ==
  [p \in Procs |-> IF p = process /\ proc[p] \in Live THEN "failed" ELSE proc[p]]

StopInternal == proc' = Terminated /\ process' = None

(* A slip: the monitor is the one of the process before.                   *)
StartUnwatched(p) ==
  /\ proc[p] = "none" /\ \A q \in Procs : q < p => proc[q] # "none"
  /\ proc' = [Terminated EXCEPT ![p] = "runs"]
  /\ process' = p
  /\ state' = "playing"
  /\ monitor' = IF process = None THEN [monitor EXCEPT ![p].pc = "start"] ELSE monitor

(* play, with the lock: the old process is ended and a new one started,    *)
(* with its monitor ...                                                    *)
Start(p) ==
  /\ proc[p] = "none" /\ \A q \in Procs : q < p => proc[q] # "none"
  /\ proc' = [Terminated EXCEPT ![p] = "runs"]
  /\ process' = p
  /\ state' = "playing"
  /\ monitor' = [monitor EXCEPT ![p].pc = "start"]

(* ... or Popen raises, and there is no new process ...                    *)
PopenFails ==
  /\ StopInternal
  /\ state' = "stopped"
  /\ UNCHANGED monitor

(* ... or the thread of the monitor cannot be started: the same handler    *)
(* says "stopped", and the new process plays on.                           *)
MonitorFails(p) ==
  /\ proc[p] = "none" /\ \A q \in Procs : q < p => proc[q] # "none"
  /\ proc' = [Terminated EXCEPT ![p] = "runs"]
  /\ process' = p
  /\ state' = "stopped"
  /\ UNCHANGED monitor

StartFails == PopenFails \/ \E p \in Procs : MonitorFails(p)

PlaySection == (\E p \in Procs : Start(p)) \/ StartFails

Play ==
  /\ PlaySection
  /\ UNCHANGED <<poll, sought, overrun>>

Stop ==
  /\ StopInternal
  /\ state' = "stopped"
  /\ UNCHANGED <<poll, monitor, sought, overrun>>

(* send_signal: nothing for a process that has ended.                      *)
Signal(from, to) ==
  proc' = [proc EXCEPT ![process] = IF @ = from THEN to ELSE @]

(* A slip: the state is set, and the process plays on.                     *)
PauseUnsignalled ==
  /\ process # None /\ state = "playing"
  /\ state' = "paused"
  /\ UNCHANGED <<proc, process, poll, monitor, sought, overrun>>

Pause ==
  /\ process # None /\ state = "playing"
  /\ Signal("runs", "held")
  /\ state' = "paused"
  /\ UNCHANGED <<process, poll, monitor, sought, overrun>>

Resume ==
  /\ process # None /\ state = "paused"
  /\ Signal("held", "runs")
  /\ state' = "playing"
  /\ UNCHANGED <<process, poll, monitor, sought, overrun>>

(* seek: the first section ends the process and leaves the state alone ... *)
SeekStop(th) ==
  /\ sought[th] = "none"
  /\ StopInternal
  /\ sought' = [sought EXCEPT ![th] = IF state = "playing" THEN "again" ELSE "reset"]
  /\ UNCHANGED <<state, poll, monitor, overrun>>

(* ... the second plays again what was playing, over what was done between *)
SeekPlay(th) ==
  /\ sought[th] = "again"
  /\ PlaySection
  /\ sought' = [sought EXCEPT ![th] = "none"]
  /\ UNCHANGED <<poll, overrun>>

(* or sets the state, whatever was started between.                        *)
SeekReset(th) ==
  /\ sought[th] = "reset"
  /\ state' = "stopped"
  /\ sought' = [sought EXCEPT ![th] = "none"]
  /\ overrun' = (overrun \/ process # None)
  /\ UNCHANGED <<proc, process, poll, monitor>>

(* handle_output_status, and five seconds without one.                     *)
TouchPoll ==
  /\ poll' = "recent"
  /\ UNCHANGED <<proc, process, state, monitor, sought, overrun>>

PollAges ==
  /\ poll = "recent"
  /\ poll' = "old"
  /\ UNCHANGED <<proc, process, state, monitor, sought, overrun>>

(* A slip: only what plays needs a listener.                               *)
WatchPlaying ==
  /\ state = "playing" /\ poll = "old"
  /\ StopInternal
  /\ state' = "stopped"
  /\ UNCHANGED <<poll, monitor, sought, overrun>>

(* _watcher: every three seconds.                                          *)
Watch ==
  /\ state \in Active /\ poll = "old"
  /\ StopInternal
  /\ state' = "stopped"
  /\ UNCHANGED <<poll, monitor, sought, overrun>>
-----------------------------------------------------------------------------
(* The file is at its end, or ffplay fails.                                *)
ProcEnds(p) ==
  /\ proc[p] = "runs"
  /\ \E how \in Ended : proc' = [proc EXCEPT ![p] = how]
  /\ UNCHANGED <<process, state, poll, monitor, sought, overrun>>

(* _monitor reads _process without the lock: the process it was started    *)
(* with, a later one, or none, as between those of two plays.              *)
MonitorStart(m) ==
  /\ monitor[m].pc = "start"
  /\ \E p \in {process} \cup (IF process = m THEN {} ELSE {None}) :
       monitor' = [monitor EXCEPT ![m] = IF p = None THEN Over ELSE [pc |-> "wait", of |-> p]]
  /\ UNCHANGED <<proc, process, state, poll, sought, overrun>>

(* A slip: the return code is the state.                                   *)
MonitorEndsWithCode(m) ==
  LET p == monitor[m].of IN
  /\ monitor[m].pc = "wait" /\ proc[p] \in Ended
  /\ monitor' = [monitor EXCEPT ![m] = Over]
  /\ IF state \in Active /\ process = p
     THEN state' = proc[p] /\ process' = None
     ELSE UNCHANGED <<state, process>>
  /\ UNCHANGED <<proc, poll, sought, overrun>>

(* A slip: a process that has ended is forgotten, and what was paused      *)
(* stays paused.                                                           *)
MonitorForgets(m) ==
  LET p == monitor[m].of IN
  /\ monitor[m].pc = "wait" /\ proc[p] \in Ended
  /\ monitor' = [monitor EXCEPT ![m] = Over]
  /\ IF process = p
     THEN /\ process' = None
          /\ state' = IF state = "playing" THEN "ended" ELSE state
     ELSE UNCHANGED <<state, process>>
  /\ UNCHANGED <<proc, poll, sought, overrun>>

(* A slip: only what plays can end.                                        *)
MonitorOfPlaying(m) ==
  LET p == monitor[m].of IN
  /\ monitor[m].pc = "wait" /\ proc[p] \in Ended
  /\ monitor' = [monitor EXCEPT ![m] = Over]
  /\ IF state = "playing" /\ process = p
     THEN state' = "ended" /\ process' = None
     ELSE UNCHANGED <<state, process>>
  /\ UNCHANGED <<proc, poll, sought, overrun>>

(* ... and, when that has ended, says so if it is still the one.           *)
MonitorEnds(m) ==
  LET p == monitor[m].of IN
  /\ monitor[m].pc = "wait" /\ proc[p] \in Ended
  /\ monitor' = [monitor EXCEPT ![m] = Over]
  /\ IF state \in Active /\ process = p
     THEN /\ state' = IF proc[p] = "done" THEN "ended" ELSE "stopped"
          /\ process' = None
     ELSE UNCHANGED <<state, process>>
  /\ UNCHANGED <<proc, poll, sought, overrun>>

Monitoring(m) == MonitorStart(m) \/ MonitorEnds(m)
Seeking(th) == SeekPlay(th) \/ SeekReset(th)

Next ==
  \/ Play \/ Stop \/ Pause \/ Resume \/ TouchPoll \/ PollAges \/ Watch
  \/ \E th \in Threads : SeekStop(th) \/ Seeking(th)
  \/ \E p \in Procs : ProcEnds(p) \/ Monitoring(p)

Spec == Init /\ [][Next]_vars

(* The watcher and the monitors run on.  Nobody need play, poll or stop,   *)
(* and a file need not end.                                                *)
FairSpec ==
  /\ Spec
  /\ WF_vars(Watch)
  /\ \A m \in Procs : WF_vars(Monitoring(m))
  /\ \A th \in Threads : WF_vars(Seeking(th))
-----------------------------------------------------------------------------
(* One file is heard at a time: an ffplay process that lives is the one    *)
(* that stop, pause and the next play act on.                              *)
OnePlayer == \A p \in Procs : proc[p] \in Live => p = process

(* A process whose monitor could not be started, as play has noted.        *)
Unmonitored(p) == monitor[p].pc = "none" /\ state = "stopped"

(* What the pages are shown is what is heard, until a seek of something    *)
(* that was not playing overran a play, and but for a process whose        *)
(* monitor could not be started, which is heard and shown as stopped.      *)
HeardIsShown ==
  ~ overrun => \A p \in Procs :
    /\ proc[p] = "runs" => state = "playing" \/ Unmonitored(p)
    /\ proc[p] = "held" => state = "paused"

(* Something is shown to play or pause without a process only while a seek *)
(* is at work.                                                             *)
ShownIsHeard ==
  state \in Active /\ process = None => \E th \in Threads : sought[th] # "none"

(* The end of the process will be noticed: its monitor, which reads        *)
(* _process late, has not missed it, unless it could not be started, and   *)
(* then play has noted "stopped".                                          *)
Watched ==
  process # None /\ proc[process] \in Live =>
    \/ Unmonitored(process)
    \/ monitor[process].pc = "start"
    \/ monitor[process].pc = "wait" /\ monitor[process].of = process

(* A process that has ended by itself is not shown to play for ever.       *)
EndIsNoticed ==
  \A p \in Procs :
    process = p /\ proc[p] \in Ended /\ state \in Active
      ~> ~ (process = p /\ state \in Active)

(* When the pages are gone the music stops, or somebody asks again.        *)
AbandonedIsStopped ==
  state \in Active /\ poll = "old" ~> state \notin Active \/ poll = "recent"
=============================================================================
