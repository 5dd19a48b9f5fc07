------------------------- MODULE ServerPlayerProofs -------------------------
(***************************************************************************)
(* The invariants of the player, for any number of processes and threads:  *)
(* together they are inductive, as each relies on the others, with the     *)
(* fact that a process to come has no monitor.                             *)
(***************************************************************************)
EXTENDS ServerPlayer, TLAPS

ToCome == \A p \in Procs : proc[p] = "none" => monitor[p].pc = "none"

IInv == TypeOK /\ OnePlayer /\ HeardIsShown /\ ShownIsHeard /\ Watched /\ ToCome

(* After _stop_internal nothing is heard.                                  *)
LEMMA StoppedIsSilent ==
  ASSUME OnePlayer
  PROVE  \A p \in Procs : Terminated[p] \notin Live
BY DEF OnePlayer, Terminated, Live

LEMMA TerminatedType ==
  ASSUME TypeOK
  PROVE  Terminated \in [Procs -> {"none"} \cup Live \cup Ended]
BY DEF TypeOK, Terminated, Live, Ended

LEMMA InitIInv == Init => IInv
<1> SUFFICES ASSUME Init PROVE IInv
  OBVIOUS
<1>1. TypeOK
  BY DEF Init, TypeOK, Unstarted
<1>2. OnePlayer /\ HeardIsShown
  BY DEF Init, OnePlayer, HeardIsShown, Unmonitored, Live
<1>3. ShownIsHeard /\ Watched
  BY DEF Init, ShownIsHeard, Watched, Unmonitored, Active
<1>4. ToCome
  BY DEF Init, ToCome, Unstarted
<1> QED BY <1>1, <1>2, <1>3, <1>4 DEF IInv

(* A section of play leaves at most the new process, which is watched or   *)
(* has no monitor.                                                         *)
LEMMA PlaySectionKeeps ==
  ASSUME IInv, PlaySection, UNCHANGED poll,
         sought' \in [Threads -> {"none", "again", "reset"}], UNCHANGED overrun
  PROVE  IInv'
<1> USE DEF IInv
<1>1. CASE PopenFails
  <2>1. TypeOK'
    BY <1>1, TerminatedType DEF PopenFails, StopInternal, TypeOK
  <2>2. \A p \in Procs : proc'[p] \notin Live
    BY <1>1, StoppedIsSilent DEF PopenFails, StopInternal
  <2>3. OnePlayer' /\ HeardIsShown' /\ ShownIsHeard' /\ Watched'
    BY <1>1, <2>2
    DEF PopenFails, StopInternal, OnePlayer, HeardIsShown, Unmonitored, ShownIsHeard, Watched,
        Live, Active
  <2>4. ToCome'
    BY <1>1 DEF PopenFails, StopInternal, Terminated, ToCome
  <2> QED BY <2>1, <2>3, <2>4
<1>2. CASE \E p \in Procs : Start(p)
  <2> PICK p \in Procs : Start(p)
    BY <1>2
  <2>1. TypeOK'
    BY TerminatedType DEF Start, TypeOK, Live, Active
  <2>2. \A q \in Procs \ {p} : proc'[q] \notin Live
    BY StoppedIsSilent DEF Start, Terminated
  <2>3. proc'[p] = "runs" /\ process' = p /\ state' = "playing" /\ p # None
    BY DEF Start, Terminated, Procs, None
  <2>4. monitor'[p].pc = "start"
    BY DEF Start, TypeOK
  <2>5. OnePlayer' /\ HeardIsShown' /\ ShownIsHeard' /\ Watched'
    BY <2>2, <2>3, <2>4
    DEF OnePlayer, HeardIsShown, Unmonitored, ShownIsHeard, Watched, Live, Active
  <2>6. ToCome'
    BY DEF Start, Terminated, TypeOK, ToCome
  <2> QED BY <2>1, <2>5, <2>6
<1>3. CASE \E p \in Procs : MonitorFails(p)
  <2> PICK p \in Procs : MonitorFails(p)
    BY <1>3
  <2>1. TypeOK'
    BY TerminatedType DEF MonitorFails, TypeOK, Live
  <2>2. \A q \in Procs \ {p} : proc'[q] \notin Live
    BY StoppedIsSilent DEF MonitorFails, Terminated
  <2>3. proc'[p] = "runs" /\ process' = p /\ state' = "stopped" /\ p # None
    BY DEF MonitorFails, Terminated, Procs, None
  <2>4. monitor'[p].pc = "none"
    BY DEF MonitorFails, ToCome
  <2>5. OnePlayer' /\ HeardIsShown' /\ ShownIsHeard' /\ Watched'
    BY <2>2, <2>3, <2>4
    DEF OnePlayer, HeardIsShown, ShownIsHeard, Watched, Unmonitored, Live, Active
  <2>6. ToCome'
    BY DEF MonitorFails, Terminated, TypeOK, ToCome
  <2> QED BY <2>1, <2>5, <2>6
<1> QED BY <1>1, <1>2, <1>3 DEF PlaySection, StartFails

(* Whatever stops the process and says so.                                 *)
LEMMA StopSectionKeeps ==
  ASSUME IInv, StopInternal, state' = "stopped", UNCHANGED <<poll, monitor, sought, overrun>>
  PROVE  IInv'
<1> USE DEF IInv
<1>1. TypeOK'
  BY TerminatedType DEF StopInternal, TypeOK
<1>2. \A p \in Procs : proc'[p] \notin Live
  BY StoppedIsSilent DEF StopInternal
<1>3. OnePlayer' /\ HeardIsShown' /\ ShownIsHeard' /\ Watched'
  BY <1>2
  DEF StopInternal, OnePlayer, HeardIsShown, Unmonitored, ShownIsHeard, Watched, Live, Active
<1>4. ToCome'
  BY DEF StopInternal, Terminated, ToCome
<1> QED BY <1>1, <1>3, <1>4

LEMMA NextIInv == IInv /\ [Next]_vars => IInv'
<1> SUFFICES ASSUME IInv, [Next]_vars PROVE IInv'
  OBVIOUS
<1> USE DEF IInv
<1>1. CASE Play
  BY <1>1, PlaySectionKeeps DEF Play, TypeOK
<1>2. CASE Stop
  BY <1>2, StopSectionKeeps DEF Stop
<1>3. CASE Watch
  BY <1>3, StopSectionKeeps DEF Watch
<1>4. CASE Pause
  <2>1. TypeOK'
    BY <1>4 DEF Pause, Signal, TypeOK, Live, Active
  <2>2. OnePlayer' /\ HeardIsShown'
    BY <1>4 DEF Pause, Signal, TypeOK, OnePlayer, HeardIsShown, Unmonitored, Live, None
  <2>3. ShownIsHeard' /\ Watched'
    BY <1>4
    DEF Pause, Signal, TypeOK, ShownIsHeard, Watched, Unmonitored, Live, Active, None
  <2>4. ToCome'
    BY <1>4 DEF Pause, Signal, TypeOK, ToCome
  <2> QED BY <2>1, <2>2, <2>3, <2>4
<1>5. CASE Resume
  <2>1. TypeOK'
    BY <1>5 DEF Resume, Signal, TypeOK, Live, Active
  <2>2. OnePlayer' /\ HeardIsShown'
    BY <1>5 DEF Resume, Signal, TypeOK, OnePlayer, HeardIsShown, Unmonitored, Live, None
  <2>3. ShownIsHeard' /\ Watched'
    BY <1>5
    DEF Resume, Signal, TypeOK, ShownIsHeard, Watched, Unmonitored, Live, Active, None
  <2>4. ToCome'
    BY <1>5 DEF Resume, Signal, TypeOK, ToCome
  <2> QED BY <2>1, <2>2, <2>3, <2>4
<1>6. CASE TouchPoll \/ PollAges
  BY <1>6
  DEF TouchPoll, PollAges, TypeOK, OnePlayer, HeardIsShown, Unmonitored, ShownIsHeard, Watched, ToCome
<1>7. ASSUME NEW th \in Threads, SeekStop(th) PROVE IInv'
  <2>1. TypeOK'
    BY <1>7, TerminatedType DEF SeekStop, StopInternal, TypeOK
  <2>2. \A p \in Procs : proc'[p] \notin Live
    BY <1>7, StoppedIsSilent DEF SeekStop, StopInternal
  <2>3. sought'[th] # "none"
    BY <1>7 DEF SeekStop, TypeOK
  <2>4. OnePlayer' /\ HeardIsShown' /\ ShownIsHeard' /\ Watched'
    BY <1>7, <2>2, <2>3
    DEF SeekStop, StopInternal, OnePlayer, HeardIsShown, Unmonitored, ShownIsHeard, Watched, Live
  <2>5. ToCome'
    BY <1>7 DEF SeekStop, StopInternal, Terminated, ToCome
  <2> QED BY <2>1, <2>4, <2>5
<1>8. ASSUME NEW th \in Threads, SeekPlay(th) PROVE IInv'
  BY <1>8, PlaySectionKeeps DEF SeekPlay, TypeOK
<1>9. ASSUME NEW th \in Threads, SeekReset(th) PROVE IInv'
  <2>1. TypeOK'
    BY <1>9 DEF SeekReset, TypeOK
  <2>2. HeardIsShown'
    <3>1. CASE process = None
      <4>1. \A p \in Procs : proc[p] \notin Live
        BY <3>1 DEF OnePlayer, Procs, None
      <4> QED BY <1>9, <4>1 DEF SeekReset, HeardIsShown, Unmonitored, Live
    <3>2. CASE process # None
      <4>1. overrun' = TRUE
        BY <1>9, <3>2 DEF SeekReset
      <4> QED BY <4>1 DEF HeardIsShown, Unmonitored
    <3> QED BY <3>1, <3>2
  <2>3. OnePlayer' /\ ShownIsHeard' /\ Watched'
    BY <1>9 DEF SeekReset, OnePlayer, ShownIsHeard, Watched, Unmonitored, Active
  <2>4. ToCome'
    BY <1>9 DEF SeekReset, ToCome
  <2> QED BY <2>1, <2>2, <2>3, <2>4
<1>10. ASSUME NEW p \in Procs, ProcEnds(p) PROVE IInv'
  <2>1. TypeOK'
    BY <1>10 DEF ProcEnds, TypeOK
  <2>2. OnePlayer' /\ HeardIsShown' /\ ShownIsHeard' /\ Watched'
    BY <1>10
    DEF ProcEnds, TypeOK, OnePlayer, HeardIsShown, Unmonitored, ShownIsHeard, Watched, Live, Ended
  <2>3. ToCome'
    BY <1>10 DEF ProcEnds, TypeOK, Ended, ToCome
  <2> QED BY <2>1, <2>2, <2>3
<1>11. ASSUME NEW m \in Procs, MonitorStart(m) PROVE IInv'
  <2> PICK p \in {process} \cup (IF process = m THEN {} ELSE {None}) :
        monitor' = [monitor EXCEPT ![m] = IF p = None THEN Over ELSE [pc |-> "wait", of |-> p]]
    BY <1>11 DEF MonitorStart
  <2>1. TypeOK'
    BY <1>11 DEF MonitorStart, Over, TypeOK
  <2>2. Watched'
    BY <1>11 DEF MonitorStart, Over, TypeOK, Watched, Unmonitored, Live
  <2>3. OnePlayer' /\ HeardIsShown' /\ ShownIsHeard'
    BY <1>11 DEF MonitorStart, Over, OnePlayer, HeardIsShown, Unmonitored, ShownIsHeard
  <2>4. ToCome'
    BY <1>11 DEF MonitorStart, Over, TypeOK, ToCome
  <2> QED BY <2>1, <2>2, <2>3, <2>4
<1>12. ASSUME NEW m \in Procs, MonitorEnds(m) PROVE IInv'
  <2>1. TypeOK'
    BY <1>12 DEF MonitorEnds, Over, TypeOK
  <2>2. OnePlayer' /\ HeardIsShown'
    BY <1>12 DEF MonitorEnds, Over, TypeOK, OnePlayer, HeardIsShown, Unmonitored, Live, Ended
  <2>3. ShownIsHeard'
    BY <1>12 DEF MonitorEnds, Over, TypeOK, ShownIsHeard, Active
  <2>4. Watched'
    BY <1>12 DEF MonitorEnds, Over, TypeOK, Watched, Unmonitored, Live, Ended
  <2>5. ToCome'
    BY <1>12 DEF MonitorEnds, Over, TypeOK, ToCome
  <2> QED BY <2>1, <2>2, <2>3, <2>4, <2>5
<1>13. CASE UNCHANGED vars
  BY <1>13
  DEF vars, TypeOK, OnePlayer, HeardIsShown, Unmonitored, ShownIsHeard, Watched, ToCome
<1> QED
  BY <1>1, <1>2, <1>3, <1>4, <1>5, <1>6, <1>7, <1>8, <1>9, <1>10, <1>11, <1>12, <1>13
  DEF Next, Seeking, Monitoring

(* At any number of plays, seeks and threads, at most one ffplay lives,    *)
(* and it is the one that self._process names.                             *)
THEOREM OnePlayerLives == Spec => []OnePlayer
<1>1. IInv => OnePlayer
  BY DEF IInv
<1> QED BY InitIInv, NextIInv, <1>1, PTL DEF Spec

(* What runs is shown as playing and what is held as paused, until a seek  *)
(* of something that was not playing overran a play between its sections,  *)
(* and but for a process whose monitor could not be started: the handler   *)
(* of play's failures has set "stopped" over it.                           *)
THEOREM HeardMusicIsShown == Spec => []HeardIsShown
<1>1. IInv => HeardIsShown
  BY DEF IInv
<1> QED BY InitIInv, NextIInv, <1>1, PTL DEF Spec

(* get_status shows nothing as playing or paused that has no process,      *)
(* except while a seek is between its sections.                            *)
THEOREM ShownMusicIsHeard == Spec => []ShownIsHeard
<1>1. IInv => ShownIsHeard
  BY DEF IInv
<1> QED BY InitIInv, NextIInv, <1>1, PTL DEF Spec

(* A living ffplay has a monitor thread that will see it end: one that has *)
(* yet to read _process will read this one, or it waits for it.  Only one  *)
(* whose monitor could not be started has none, and play has then set      *)
(* "stopped", so that no page is shown a playing file without an end.      *)
THEOREM EndsAreWatched == Spec => []Watched
<1>1. IInv => Watched
  BY DEF IInv
<1> QED BY InitIInv, NextIInv, <1>1, PTL DEF Spec

(* The states of the player are of the kinds its handlers distinguish.     *)
THEOREM PlayerTypeCorrect == Spec => []TypeOK
<1>1. IInv => TypeOK
  BY DEF IInv
<1> QED BY InitIInv, NextIInv, <1>1, PTL DEF Spec
=============================================================================
