-------------------------- MODULE SchedulerPrompt --------------------------
(***************************************************************************)
(* The scheduler on a machine fast enough for its load: time passes only   *)
(* while the loop waits in select! with no branch ready, so executions and *)
(* the ticker take time and nothing else does.  No tick is late then, and  *)
(* MissedTickBehavior::Delay moves none; a check that starts late does so  *)
(* by the design of the loop, not by its load.                             *)
(***************************************************************************)
EXTENDS Scheduler

(* Every branch of select! is pending: the shutdown future, ticker.tick()  *)
(* and join_next.                                                          *)
AllBranchesPending ==
  /\ AtSelect
  /\ ~shutdown
  /\ now < nextTick
  /\ \A c \in CheckIds : \A i \in DOMAIN tasks[c] : ~Finished(tasks[c][i])

(* monitor_until starts the loop as soon as the checks are registered; in  *)
(* the drain time passes freely.                                           *)
NextPrompt ==
  /\ Next
  /\ now' # now => AllBranchesPending \/ loop \in {"drain", "stopped"}

SpecPrompt == Init /\ [][NextPrompt]_vars

(* The loop sees a due check at the next tick at the latest, however long  *)
(* the executions of other checks take and whenever the check was          *)
(* registered or its last execution ended.                                 *)
StartsWithinOneTick ==
  loop \in {"select", "claim"} =>
    \A c \in DueChecks(checks, now) : now - checks[c].next_due <= TickInterval

(* The clock the fixed delay is counted from is the end of the execution:  *)
(* no start is more than one tick after the end of the previous execution  *)
(* plus the interval.                                                      *)
PeriodIsBounded ==
  \A c \in CheckIds :
    (/\ checks[c] # None
     /\ checks[c].running
     /\ checks[c].last_completed # None)
      => checks[c].last_started - checks[c].last_completed
           <= IntervalDuration(checks[c].check.interval_seconds) + TickInterval
=============================================================================
