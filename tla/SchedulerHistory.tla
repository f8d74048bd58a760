-------------------------- MODULE SchedulerHistory --------------------------
(***************************************************************************)
(* The scheduler with what a run leaves behind, for the properties that    *)
(* relate SchedulerRunStats and the sink's rows to what was executed.      *)
(* Registration is open: replacing an entry in use must not upset the      *)
(* accounts, for run_until_shutdown returns them to its caller.            *)
(***************************************************************************)
EXTENDS Scheduler

VARIABLES
  spawned,  \* the executions started so far
  rows      \* the results the sink has taken

historyVars == <<spawned, rows>>

InitHistory ==
  /\ Init
  /\ spawned = 0
  /\ rows = 0

(* Every action, with what it adds to the history.                         *)
SpawnAndCount ==
  /\ SpawnDueChecks
  /\ spawned' = spawned + Cardinality(DueChecks(checks, now))
  /\ UNCHANGED rows

RecordAndCount(c, i) ==
  /\ RecordReturns(c, i)
  /\ rows' = IF tasks'[c][i].recorded THEN rows + 1 ELSE rows
  /\ UNCHANGED spawned

Uncounted ==
  \/ \E c \in CheckIds, cfg \in CheckConfig :
       Register(c, cfg) \/ Reregister(c, cfg)
  \/ Run
  \/ ShutdownResolves
  \/ Tick
  \/ \E c \in CheckIds : JoinNext(c)
  \/ HandleCompletion
  \/ HandleFailure
  \/ Return
  \/ \E c \in CheckIds : \E i \in DOMAIN tasks[c] :
       ExecuteReturns(c, i) \/ Panic(c, i)
  \/ ResolveShutdown
  \/ TimePasses
  \/ Terminated

NextHistory ==
  \/ SpawnAndCount
  \/ \E c \in CheckIds : \E i \in DOMAIN tasks[c] : RecordAndCount(c, i)
  \/ Uncounted /\ UNCHANGED historyVars

SpecHistory == InitHistory /\ [][NextHistory]_<<vars, historyVars>>

-----------------------------------------------------------------------------
(* Where the JoinSet has a task of set S.                                  *)
Positions(joinSet, S) ==
  UNION {{c} \X {i \in DOMAIN joinSet[c] : joinSet[c][i] \in S} : c \in CheckIds}

(* The tasks of set S in the JoinSet, and the one taken out of it but not  *)
(* yet applied.                                                            *)
Count(S) ==
  Cardinality(Positions(tasks, S)) + IF joined # None /\ joined.task \in S THEN 1 ELSE 0

RecordedTask == {t \in Task : t.phase = "done" /\ t.recorded}

(* No execution is lost and none is counted twice on its way from the      *)
(* spawn through the JoinSet into the counters, shutdown and the replaced  *)
(* entries of a second register included.                                  *)
StatsAccountForExecutions ==
  spawned = stats.completed_executions + stats.task_failures + Count(Task)

(* The returned counters say how many rows the sink holds: one for each    *)
(* completed execution that is not a sink error.                           *)
StatsAccountForRows ==
  rows + stats.sink_errors = stats.completed_executions + Count(RecordedTask)
=============================================================================
