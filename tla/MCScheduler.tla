---------------------------- MODULE MCScheduler ----------------------------
(***************************************************************************)
(* Instances of Scheduler for TLC: two ticks of the clock to the minute,   *)
(* so that a start may fall between two slots, or one; an expression for   *)
(* every minute and one for every other minute.                            *)
(***************************************************************************)
EXTENDS Scheduler, TLC

CONSTANTS t1, t2, t3, r1, r2, every, other

Horizon == 20

MinuteSlots == (every :> {n \in 1..Horizon : n % 2 = 0})
            @@ (other :> {n \in 1..Horizon : n % 4 = 0})

(* A tick is a minute, where no start need fall between two slots.         *)
TickSlots == (every :> 1..Horizon) @@ (other :> {n \in 1..Horizon : n % 2 = 0})

(* Two scheduled tasks and a boot event; the others wait for the first.    *)
ScheduleKinds == (t1 :> "schedule") @@ (t2 :> "schedule") @@ (t3 :> "system_boot")
ScheduleExprs == (t1 :> {every, other}) @@ (t2 :> {other}) @@ (t3 :> {NoExpr})
ScheduleDeps == (t1 :> {}) @@ (t2 :> {t1}) @@ (t3 :> {t1})

(* A boot event and the scheduled task that it depends on.                 *)
BootKinds == (t1 :> "schedule") @@ (t3 :> "system_boot")
BootExprs == (t1 :> {every}) @@ (t3 :> {NoExpr})
BootDeps == (t1 :> {}) @@ (t3 :> {t1})

(* One scheduled task.                                                     *)
OneKind == t1 :> "schedule"
OneExprs == t1 :> {every, other}
OneDeps == t1 :> {}

(* A scheduled task and a shutdown event that wait for a condition task.   *)
EventKinds == (t1 :> "schedule") @@ (t2 :> "script") @@ (t3 :> "system_shutdown")
EventExprs == (t1 :> {every}) @@ (t2 :> {NoExpr}) @@ (t3 :> {NoExpr})
EventDeps == (t1 :> {t2}) @@ (t2 :> {}) @@ (t3 :> {t2})

Symmetry == Permutations(Runners)
=============================================================================
