----------------------------- MODULE Scheduler -----------------------------
(***************************************************************************)
(* The fixed-delay scheduler of crates/server/src/scheduler/runtime.rs.    *)
(*                                                                         *)
(* Actors: the caller of register; the run loop (one select! over the      *)
(* shutdown future, the ticker and the JoinSet, then a drain); one spawned *)
(* task per claimed execution; the environment, which resolves the         *)
(* shutdown future and lets time pass.  Every .await of the loop is a step *)
(* boundary, so tasks finish, checks are registered and time passes        *)
(* between a select! branch and the critical section it leads to.          *)
(***************************************************************************)
EXTENDS SchedulerState, Sequences, SequencesExt, FiniteSetsExt

CONSTANTS
  TickInterval,  \* SchedulerConfig::tick_interval, in clock units
  MayPanic,      \* the checks whose executor or sink may panic
  SinkMayFail,   \* whether ResultSink::record may return an error
  U64,           \* 2^64: the counters of SchedulerRunStats wrap there
  Horizon        \* bound of the model: the clock stops there

ASSUME SchedulerAssumption ==
  /\ TickInterval \in Nat \ {0}
  /\ MayPanic \subseteq CheckIds
  /\ SinkMayFail \in BOOLEAN
  /\ U64 \in Nat \ {0}
  /\ Horizon \in Nat

VARIABLES
  checks,    \* SchedulerState::checks, behind the tokio Mutex
  now,       \* the monotonic clock behind Instant::now and the ticker
  shutdown,  \* the shutdown future has resolved
  loop,      \* where run_until_shutdown stands
  nextTick,  \* the deadline of the ticker
  tasks,     \* running_tasks, the JoinSet: per check, its tasks in spawn order
  joined,    \* what join_next returned and handle_task_completion has not
             \* applied yet
  stats      \* SchedulerRunStats

vars == <<checks, now, shutdown, loop, nextTick, tasks, joined, stats>>

-----------------------------------------------------------------------------
LoopPC == {"created", "select", "claim", "drain", "stopped"}

(* A spawned task: awaiting execute, awaiting record, or finished with an  *)
(* ExecutionCompletion ("done") or a JoinError ("failed").                 *)
Task == [phase        : {"execute", "record", "done", "failed"},
         completed_at : Instant \cup {None},
         recorded     : BOOLEAN]

NewTask == [phase |-> "execute", completed_at |-> None, recorded |-> FALSE]

Finished(t) == t.phase \in {"done", "failed"}

Joined == [check : CheckIds, task : {t \in Task : Finished(t)}]

ASSUME NoTaskAssumption == None \notin Task /\ None \notin Joined

Stats == [completed_executions : 0..U64-1,
          sink_errors          : 0..U64-1,
          task_failures        : 0..U64-1]

(* += 1 on a u64, as a release build wraps it.                             *)
Increment(n) == IF n + 1 < U64 THEN n + 1 ELSE 0

NoTasks == [c \in CheckIds |-> <<>>]

ZeroStats ==
  [completed_executions |-> 0, sink_errors |-> 0, task_failures |-> 0]

Init ==
  /\ checks = EmptyTable
  /\ now = 0
  /\ shutdown = FALSE
  /\ loop = "created"
  /\ nextTick = 0
  /\ tasks = NoTasks
  /\ joined = None
  /\ stats = ZeroStats

-----------------------------------------------------------------------------
(* The caller.                                                             *)

(* Scheduler::register of an id the table does not hold.  monitor_until    *)
(* registers before it runs the loop; &self lets a caller do it any time.  *)
Register(c, cfg) ==
  /\ checks[c] = None
  /\ checks' = RegisterCheck(checks, c, cfg, now)
  /\ UNCHANGED <<now, shutdown, loop, nextTick, tasks, joined, stats>>

(* Scheduler::register of an id the table already holds.  Nothing in the   *)
(* server does this: only SpecOpen allows it.                              *)
Reregister(c, cfg) ==
  /\ checks[c] # None
  /\ checks' = RegisterCheck(checks, c, cfg, now)
  /\ UNCHANGED <<now, shutdown, loop, nextTick, tasks, joined, stats>>

-----------------------------------------------------------------------------
(* The run loop.                                                           *)

(* run_until_shutdown up to the first select!: tokio's interval has its    *)
(* first deadline at the time of the call.                                 *)
Run ==
  /\ loop = "created"
  /\ loop' = "select"
  /\ nextTick' = now
  /\ stats' = ZeroStats
  /\ UNCHANGED <<checks, now, shutdown, tasks, joined>>

(* select! polls its branches in random order: any ready one may win.      *)
AtSelect == loop = "select" /\ joined = None

ShutdownResolves ==
  /\ AtSelect
  /\ shutdown
  /\ loop' = "drain"
  /\ UNCHANGED <<checks, now, shutdown, nextTick, tasks, joined, stats>>

(* MissedTickBehavior::Delay: the next deadline is one period from now,    *)
(* however late this tick is.                                              *)
Tick ==
  /\ AtSelect
  /\ nextTick <= now
  /\ nextTick' = now + TickInterval
  /\ loop' = "claim"
  /\ UNCHANGED <<checks, now, shutdown, tasks, joined, stats>>

(* Faulty variants of SpawnDueChecks: one slot per check instead of a set  *)
(* of tasks; no start while another execution is in flight.                *)
SpawnIntoSlot ==
  /\ loop = "claim"
  /\ checks' = ClaimDueChecks(checks, now)
  /\ tasks' = [c \in CheckIds |->
                 IF IsDue(checks[c], now) THEN <<NewTask>> ELSE tasks[c]]
  /\ loop' = "select"
  /\ UNCHANGED <<now, shutdown, nextTick, joined, stats>>

SpawnOnlyWhenIdle ==
  /\ loop = "claim"
  /\ IF tasks = NoTasks
     THEN /\ checks' = ClaimDueChecks(checks, now)
          /\ tasks' = [c \in CheckIds |->
                         IF IsDue(checks[c], now) THEN <<NewTask>> ELSE <<>>]
     ELSE UNCHANGED <<checks, tasks>>
  /\ loop' = "select"
  /\ UNCHANGED <<now, shutdown, nextTick, joined, stats>>

(* spawn_due_checks, from the moment the mutex is granted: the clock is    *)
(* read under the lock and the loop that spawns does not await.            *)
SpawnDueChecks ==
  /\ loop = "claim"
  /\ checks' = ClaimDueChecks(checks, now)
  /\ tasks' = [c \in CheckIds |->
                 IF IsDue(checks[c], now)
                 THEN Append(tasks[c], NewTask)
                 ELSE tasks[c]]
  /\ loop' = "select"
  /\ UNCHANGED <<now, shutdown, nextTick, joined, stats>>

(* Faulty variant of JoinNext: a task is taken out before its end.         *)
JoinUnfinished(c) ==
  /\ loop \in {"select", "drain"}
  /\ joined = None
  /\ \E i \in DOMAIN tasks[c] :
       /\ joined' = [check |-> c, task |-> tasks[c][i]]
       /\ tasks' = [tasks EXCEPT ![c] = RemoveAt(@, i)]
  /\ UNCHANGED <<checks, now, shutdown, loop, nextTick, stats>>

(* join_next yields some finished task, in the select! loop or the drain.  *)
JoinNext(c) ==
  /\ loop \in {"select", "drain"}
  /\ joined = None
  /\ \E i \in DOMAIN tasks[c] :
       /\ Finished(tasks[c][i])
       /\ joined' = [check |-> c, task |-> tasks[c][i]]
       /\ tasks' = [tasks EXCEPT ![c] = RemoveAt(@, i)]
  /\ UNCHANGED <<checks, now, shutdown, loop, nextTick, stats>>

(* Faulty variants of HandleCompletion: an early return on a sink error;   *)
(* the drain only counts.                                                  *)
HandleOnlyRecorded ==
  /\ joined # None
  /\ joined.task.phase = "done"
  /\ IF joined.task.recorded
     THEN /\ checks' = CompleteCheck(checks, joined.check, joined.task.completed_at)
          /\ stats' = [stats EXCEPT !.completed_executions = Increment(@)]
     ELSE /\ stats' = [stats EXCEPT !.sink_errors = Increment(@)]
          /\ UNCHANGED checks
  /\ joined' = None
  /\ UNCHANGED <<now, shutdown, loop, nextTick, tasks>>

HandleCountsInDrain ==
  /\ joined # None
  /\ joined.task.phase = "done"
  /\ checks' = IF loop = "drain"
               THEN checks
               ELSE CompleteCheck(checks, joined.check, joined.task.completed_at)
  /\ stats' = [stats EXCEPT !.completed_executions = Increment(@)]
  /\ joined' = None
  /\ UNCHANGED <<now, shutdown, loop, nextTick, tasks>>

(* handle_task_completion, Some(Ok(completion)): the table is completed    *)
(* with the instant the task read, not with the present one.               *)
HandleCompletion ==
  /\ joined # None
  /\ joined.task.phase = "done"
  /\ checks' = CompleteCheck(checks, joined.check, joined.task.completed_at)
  /\ stats' = [stats EXCEPT
                 !.completed_executions = Increment(@),
                 !.sink_errors = IF joined.task.recorded
                                 THEN @
                                 ELSE Increment(@)]
  /\ joined' = None
  /\ UNCHANGED <<now, shutdown, loop, nextTick, tasks>>

(* handle_task_completion, Some(Err(_)): a JoinError names no check, so    *)
(* the table keeps the entry as it is.                                     *)
HandleFailure ==
  /\ joined # None
  /\ joined.task.phase = "failed"
  /\ stats' = [stats EXCEPT !.task_failures = Increment(@)]
  /\ joined' = None
  /\ UNCHANGED <<checks, now, shutdown, loop, nextTick, tasks>>

(* Faulty variants of Return: the JoinSet is dropped; the drain waits for  *)
(* the table to have no running entry.                                     *)
ReturnWithoutDraining ==
  /\ loop = "drain"
  /\ joined = None
  /\ loop' = "stopped"
  /\ UNCHANGED <<checks, now, shutdown, nextTick, tasks, joined, stats>>

ReturnWhenNoneRuns ==
  /\ loop = "drain"
  /\ joined = None
  /\ tasks = NoTasks
  /\ \A c \in CheckIds : checks[c] # None => ~checks[c].running
  /\ loop' = "stopped"
  /\ UNCHANGED <<checks, now, shutdown, nextTick, tasks, joined, stats>>

(* The drain ends when join_next returns None: the JoinSet is empty.       *)
Return ==
  /\ loop = "drain"
  /\ joined = None
  /\ tasks = NoTasks
  /\ loop' = "stopped"
  /\ UNCHANGED <<checks, now, shutdown, nextTick, tasks, joined, stats>>

-----------------------------------------------------------------------------
(* The tasks of the JoinSet.                                               *)

(* executor.execute(&check) returns a CheckResult; record is called.       *)
ExecuteReturns(c, i) ==
  /\ tasks[c][i].phase = "execute"
  /\ tasks' = [tasks EXCEPT ![c][i].phase = "record"]
  /\ UNCHANGED <<checks, now, shutdown, loop, nextTick, joined, stats>>

(* record returns Ok or Err; the task reads the clock and ends.            *)
RecordReturns(c, i) ==
  /\ tasks[c][i].phase = "record"
  /\ \E ok \in BOOLEAN :
       /\ ok \/ SinkMayFail
       /\ tasks' = [tasks EXCEPT ![c][i] = [phase        |-> "done",
                                            completed_at |-> now,
                                            recorded     |-> ok]]
  /\ UNCHANGED <<checks, now, shutdown, loop, nextTick, joined, stats>>

(* The executor or the sink panics: tokio keeps a JoinError for join_next. *)
Panic(c, i) ==
  /\ c \in MayPanic
  /\ tasks[c][i].phase \in {"execute", "record"}
  /\ tasks' = [tasks EXCEPT ![c][i].phase = "failed"]
  /\ UNCHANGED <<checks, now, shutdown, loop, nextTick, joined, stats>>

-----------------------------------------------------------------------------
(* The environment.                                                        *)

ResolveShutdown ==
  /\ ~shutdown
  /\ shutdown' = TRUE
  /\ UNCHANGED <<checks, now, loop, nextTick, tasks, joined, stats>>

TimePasses ==
  /\ now < Horizon
  /\ now' = now + 1
  /\ UNCHANGED <<checks, shutdown, loop, nextTick, tasks, joined, stats>>

(* run_until_shutdown has returned: that the rest stops is no deadlock.    *)
Terminated == loop = "stopped" /\ UNCHANGED vars

-----------------------------------------------------------------------------
LoopStep ==
  \/ Run
  \/ ShutdownResolves
  \/ Tick
  \/ SpawnDueChecks
  \/ \E c \in CheckIds : JoinNext(c)
  \/ HandleCompletion
  \/ HandleFailure
  \/ Return

TaskStep ==
  \E c \in CheckIds : \E i \in DOMAIN tasks[c] :
    \/ ExecuteReturns(c, i)
    \/ RecordReturns(c, i)
    \/ Panic(c, i)

Next ==
  \/ \E c \in CheckIds, cfg \in CheckConfig : Register(c, cfg)
  \/ LoopStep
  \/ TaskStep
  \/ ResolveShutdown
  \/ TimePasses
  \/ Terminated

Spec == Init /\ [][Next]_vars

(* The public API, registration of an id in use included.                  *)
NextOpen ==
  \/ Next
  \/ \E c \in CheckIds, cfg \in CheckConfig : Reregister(c, cfg)

SpecOpen == Init /\ [][NextOpen]_vars

-----------------------------------------------------------------------------
TypeOK ==
  /\ checks \in Table
  /\ now \in Instant
  /\ shutdown \in BOOLEAN
  /\ loop \in LoopPC
  /\ nextTick \in Instant
  /\ tasks \in [CheckIds -> Seq(Task)]
  /\ joined \in Joined \cup {None}
  /\ stats \in Stats

Executing(t) == t.phase \in {"execute", "record"}

(* Two executions of one check are never in progress at once, whatever the *)
(* order in which tasks end, are joined and are applied to the table.      *)
(* docs/architecture.md:48: fixed delay prevents overlapping executions.   *)
NoOverlap ==
  \A c \in CheckIds : \A i, j \in DOMAIN tasks[c] :
    Executing(tasks[c][i]) /\ Executing(tasks[c][j]) => i = j

(* Fixed delay: an execution that follows a completed one started at least *)
(* one interval after the instant that one completed, although the table   *)
(* learns of the completion later, when the loop gets to it.               *)
FixedDelayKept ==
  \A c \in CheckIds :
    LET entry == checks[c] IN
      entry # None =>
        (/\ entry.running
         /\ entry.last_completed # None
         => entry.last_started >=
              entry.last_completed
              + IntervalDuration(entry.check.interval_seconds))

(* A running mark and the execution it stands for go together: each check  *)
(* has at most one task, and while the task is in the JoinSet or on its    *)
(* way from there to the table, the entry is marked running.               *)
MarksFollowTasks ==
  \A c \in CheckIds :
    /\ Len(tasks[c]) <= 1
    /\ tasks[c] # <<>> => checks[c] # None /\ checks[c].running
    /\ joined # None /\ joined.check = c =>
         tasks[c] = <<>> /\ checks[c] # None /\ checks[c].running

(* What complete will add an interval to is an instant.                    *)
CompletionsAreDated ==
  /\ \A c \in CheckIds : \A i \in DOMAIN tasks[c] :
       tasks[c][i].phase = "done" => tasks[c][i].completed_at \in Instant
  /\ joined # None /\ joined.task.phase = "done" =>
       joined.task.completed_at \in Instant

(* An idle entry waits for one interval from its last completion.          *)
IdleEntriesWait ==
  \A c \in CheckIds :
    (/\ checks[c] # None
     /\ ~checks[c].running
     /\ checks[c].last_completed # None)
      => checks[c].next_due =
           checks[c].last_completed
           + IntervalDuration(checks[c].check.interval_seconds)

(* The inductive invariant: NoOverlap needs the marks, FixedDelayKept      *)
(* needs the due time an idle entry has when it is claimed.                *)
SchedulerInvariant ==
  /\ TypeOK
  /\ MarksFollowTasks
  /\ CompletionsAreDated
  /\ IdleEntriesWait
  /\ FixedDelayKept

(* An entry is marked running and nothing is left in the JoinSet, or on    *)
(* its way out of it, that could ever clear the mark.                      *)
Stuck(c) ==
  /\ checks[c] # None
  /\ checks[c].running
  /\ tasks[c] = <<>>
  /\ joined # None => joined.check # c

(* claim_due_checks sets a mark that only complete clears, in another      *)
(* critical section: no interleaving of the loop, the tasks and the        *)
(* shutdown drops a mark or leaves one behind, save that every JoinError   *)
(* counted in task_failures costs one check, for good.                     *)
OnlyFailuresRetireChecks ==
  Cardinality({c \in CheckIds : Stuck(c)}) = stats.task_failures
=============================================================================
