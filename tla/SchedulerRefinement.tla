------------------------ MODULE SchedulerRefinement ------------------------
(***************************************************************************)
(* The scheduler implements FixedDelay.  The abstract state changes when a *)
(* task ends; the table catches up two loop steps later, so in between the *)
(* phase and the ready time are read off the finished task.                *)
(***************************************************************************)
EXTENDS Scheduler

(* The execution of c the table has not been told the end of.              *)
Outstanding(c) ==
  IF tasks[c] # <<>> THEN tasks[c][1]
  ELSE IF joined # None /\ joined.check = c THEN joined.task
  ELSE None

Delay(c) == IntervalDuration(checks[c].check.interval_seconds)

PhaseOf(c) ==
  LET t == Outstanding(c) IN
    IF t = None
    THEN IF checks[c].running THEN "retired" ELSE "idle"
    ELSE CASE t.phase = "done"   -> "idle"
           [] t.phase = "failed" -> "retired"
           [] OTHER              -> "executing"

ReadyAt(c) ==
  LET t == Outstanding(c) IN
    IF t # None /\ t.phase = "done" THEN t.completed_at + Delay(c)
                                    ELSE checks[c].next_due

PromiseOf ==
  [c \in CheckIds |->
     IF checks[c] = None
     THEN None
     ELSE [phase   |-> PhaseOf(c),
           enabled |-> checks[c].check.enabled,
           delay   |-> Delay(c),
           ready   |-> ReadyAt(c)]]

StageOf ==
  CASE loop = "drain"   -> "draining"
    [] loop = "stopped" -> "returned"
    [] OTHER            -> "open"

FD == INSTANCE FixedDelay
        WITH Delays  <- {IntervalDuration(s) : s \in Intervals},
             stage   <- StageOf,
             promise <- PromiseOf

ASSUME NoPromiseAssumption == None \notin FD!Promise

(* Every behaviour of the scheduler is one of FixedDelay: starts, ends and *)
(* ready times of executions are those of a fixed-delay schedule, none     *)
(* starts after the loop has left select!, and run_until_shutdown returns  *)
(* only when every execution has ended.                                    *)
ImplementsFixedDelay == FD!Spec
=============================================================================
