--------------------------- MODULE SchedulerLive ---------------------------
(***************************************************************************)
(* What the scheduler must eventually do.  The clock of Scheduler stops at *)
(* Horizon; here it goes on: at Horizon one more unit of time moves every  *)
(* stored instant one unit into the past instead.  An instant that would   *)
(* become negative stays 0; no interval is longer than Horizon, so what is *)
(* due then is due either way, and the behaviours are those of a clock     *)
(* that runs for ever.                                                     *)
(***************************************************************************)
EXTENDS Scheduler

CONSTANT MayHang  \* the checks whose execute may never return

ASSUME LiveAssumption ==
  /\ MayHang \subseteq CheckIds
  /\ TickInterval <= Horizon
  /\ \A s \in Intervals : IntervalDuration(s) <= Horizon

Past(t) == IF t = None \/ t = 0 THEN t ELSE t - 1

Slide ==
  /\ now = Horizon
  /\ checks' = [c \in CheckIds |->
                  IF checks[c] = None
                  THEN None
                  ELSE [checks[c] EXCEPT !.next_due       = Past(@),
                                         !.last_started   = Past(@),
                                         !.last_completed = Past(@)]]
  /\ nextTick' = Past(nextTick)
  /\ tasks' = [c \in CheckIds |->
                 [i \in DOMAIN tasks[c] |->
                    [tasks[c][i] EXCEPT !.completed_at = Past(@)]]]
  /\ joined' = IF joined = None
               THEN None
               ELSE [joined EXCEPT !.task.completed_at = Past(@)]
  /\ UNCHANGED <<now, shutdown, loop, stats>>

(* run_until_shutdown takes &self: a caller may run the scheduler again,   *)
(* with a new shutdown future and the table the last run has left.         *)
Rerun ==
  /\ loop = "stopped"
  /\ loop' = "created"
  /\ shutdown' = FALSE
  /\ UNCHANGED <<checks, now, nextTick, tasks, joined, stats>>

NextLive == Next \/ Slide \/ Rerun

-----------------------------------------------------------------------------
(* Fairness.                                                               *)

(* Straight-line code of the loop up to its next await, and tokio's Mutex, *)
(* which is granted in the order of the requests.                          *)
LoopRuns ==
  WF_vars(Run) /\ WF_vars(SpawnDueChecks) /\ WF_vars(HandleCompletion)
  /\ WF_vars(HandleFailure) /\ WF_vars(Return)

(* select! starts polling at a random branch, so a branch that is ready    *)
(* again and again wins again and again; JoinSet yields finished tasks in  *)
(* the order they woke it.                                                 *)
SelectIsFair ==
  /\ SF_vars(ShutdownResolves)
  /\ SF_vars(Tick)
  /\ \A c \in CheckIds : SF_vars(JoinNext(c))

(* An execution ends (the HTTP executor's client has a timeout, SQLite's   *)
(* pool one for acquiring a connection), unless the check may hang.        *)
TasksEnd ==
  \A c \in CheckIds :
    /\ WF_vars(/\ c \notin MayHang
               /\ \E i \in DOMAIN tasks[c] : ExecuteReturns(c, i))
    /\ WF_vars(\E i \in DOMAIN tasks[c] : RecordReturns(c, i))

Fairness == LoopRuns /\ SelectIsFair /\ TasksEnd /\ WF_vars(TimePasses \/ Slide)

SpecLive == Init /\ [][NextLive]_vars /\ Fairness

-----------------------------------------------------------------------------
ExecutingCheck(c) == \E i \in DOMAIN tasks[c] : Executing(tasks[c][i])

(* No panic and no hang: the executor returns a result, as CheckExecutor   *)
(* promises by having no error type.                                       *)
Steady(c) == c \notin MayPanic \cup MayHang

Recurs(c) ==
  (checks[c] # None /\ checks[c].check.enabled /\ ~ExecutingCheck(c))
    ~> (ExecutingCheck(c) \/ shutdown)

(* Until shutdown a steady enabled check is executed again and again,      *)
(* whatever becomes of the other checks: one that panics or never returns  *)
(* does not hold up the loop or the other checks, and an earlier run that  *)
(* was stopped leaves no mark behind that would.                           *)
SteadyChecksRecur == \A c \in CheckIds : Steady(c) => Recurs(c)

(* README.md:5: the server "runs recurring checks until stopped".          *)
EveryCheckRecurs == \A c \in CheckIds : Recurs(c)

(* README.md:20: Ctrl+C stops monitoring gracefully: after shutdown the    *)
(* drain comes to its end, unless an execution never returns.              *)
GracefulStop ==
  (loop # "created" /\ shutdown)
    ~> (loop = "stopped" \/ \E c \in MayHang : ExecutingCheck(c))

(* What a task has finished reaches the table: a mark cleared by an ended  *)
(* execution does not depend on whether the loop has begun to drain.       *)
CompletionsAreApplied ==
  \A c \in CheckIds :
    (tasks[c] # <<>> /\ tasks[c][1].phase = "done")
      ~> (checks[c] # None /\ ~checks[c].running)
=============================================================================
