----------------------- MODULE SchedulerTimingProofs -----------------------
(***************************************************************************)
(* When executions start.  On any machine the scheduler implements         *)
(* FixedDelay; on one that keeps up a due check starts within one tick.    *)
(* Both hold for any number of checks, any intervals and any tick.         *)
(***************************************************************************)
EXTENDS SchedulerRefinement, SchedulerPrompt, SchedulerProofs

-----------------------------------------------------------------------------
(* The scheduler implements FixedDelay.                                    *)

(* The promise to one check, as a function of what it depends on.          *)
PromiseTo(c) ==
  IF checks[c] = None
  THEN None
  ELSE [phase   |-> PhaseOf(c),
        enabled |-> checks[c].check.enabled,
        delay   |-> Delay(c),
        ready   |-> ReadyAt(c)]

LEMMA PromiseIsFunction ==
  /\ PromiseOf = [c \in CheckIds |-> PromiseTo(c)]
  /\ PromiseOf' = [c \in CheckIds |-> PromiseTo(c)']
  BY DEF PromiseOf, PromiseTo

(* What the mapping depends on.                                            *)
LEMMA PromiseUnchanged ==
  ASSUME NEW c \in CheckIds, checks'[c] = checks[c], Outstanding(c)' = Outstanding(c)
  PROVE  PromiseTo(c)' = PromiseTo(c)
  BY DEF PromiseTo, PhaseOf, ReadyAt, Delay

LEMMA OutstandingUnchanged ==
  ASSUME NEW c \in CheckIds, tasks'[c] = tasks[c], joined' = joined
  PROVE  Outstanding(c)' = Outstanding(c)
  BY DEF Outstanding

LEMMA AllUnchanged ==
  ASSUME UNCHANGED <<checks, tasks, joined>> PROVE PromiseOf' = PromiseOf
<1>1. ASSUME NEW c \in CheckIds PROVE PromiseTo(c)' = PromiseTo(c)
  BY OutstandingUnchanged, PromiseUnchanged
<1>2. QED
  BY <1>1, PromiseIsFunction

LEMMA OneChanges ==
  ASSUME NEW c \in CheckIds, NEW value, PromiseTo(c)' = value,
         \A d \in CheckIds : d # c => PromiseTo(d)' = PromiseTo(d)
  PROVE  PromiseOf' = [PromiseOf EXCEPT ![c] = value]
  BY PromiseIsFunction

LEMMA InitRefines == Init => FD!Init
<1> SUFFICES ASSUME Init PROVE FD!Init
  OBVIOUS
<1>1. now = 0 /\ StageOf = "open"
  BY DEF Init, StageOf
<1>2. PromiseOf = [c \in CheckIds |-> None]
  BY DEF Init, PromiseOf, EmptyTable
<1>3. QED
  BY <1>1, <1>2 DEF FD!Init

LEMMA RegisterRefines ==
  ASSUME SchedulerInvariant, NEW c \in CheckIds, NEW cfg \in CheckConfig, Register(c, cfg)
  PROVE  FD!Add(c, cfg.enabled, IntervalDuration(cfg.interval_seconds))
<1> DEFINE new == NewScheduledCheck(cfg, now)
<1>1. new # None
  <2>1. now \in Instant
    BY DEF SchedulerInvariant, TypeOK
  <2>2. new \in ScheduledCheck
    BY <2>1 DEF NewScheduledCheck, ScheduledCheck
  <2>3. QED
    BY <2>2, NoneAssumption
<1>2. checks \in [CheckIds -> ScheduledCheck \cup {None}] /\ checks[c] = None
  BY DEF SchedulerInvariant, TypeOK, Table, Register
<1>3. checks' = [checks EXCEPT ![c] = new] /\ UNCHANGED <<tasks, joined, now, loop>>
  BY DEF Register, RegisterCheck
<1>4. tasks[c] = <<>> /\ ~(joined # None /\ joined.check = c)
  BY <1>2 DEF SchedulerInvariant, MarksFollowTasks
<1>5. Outstanding(c)' = None
  BY <1>3, <1>4 DEF Outstanding
<1>6. checks'[c] = new
  BY <1>2, <1>3
<1>7. /\ new.check = cfg /\ ~new.running /\ new.next_due = now
  BY DEF NewScheduledCheck
<1> HIDE DEF new
<1>8. PromiseTo(c)' = [phase |-> "idle", enabled |-> cfg.enabled,
                       delay |-> IntervalDuration(cfg.interval_seconds), ready |-> now]
  BY <1>1, <1>5, <1>6, <1>7 DEF PromiseTo, PhaseOf, ReadyAt, Delay
<1>9. ASSUME NEW d \in CheckIds, d # c PROVE PromiseTo(d)' = PromiseTo(d)
  <2>1. checks'[d] = checks[d]
    BY <1>2, <1>3, <1>9
  <2>2. QED
    BY <1>3, <2>1, OutstandingUnchanged, PromiseUnchanged
<1>10. PromiseTo(c) = None
  BY <1>2 DEF PromiseTo
<1>11. PromiseOf' = [PromiseOf EXCEPT
         ![c] = [phase |-> "idle", enabled |-> cfg.enabled,
                 delay |-> IntervalDuration(cfg.interval_seconds), ready |-> now]]
  BY <1>8, <1>9, OneChanges
<1>12. PromiseOf[c] = None
  BY <1>10, PromiseIsFunction
<1>13. QED
  BY <1>3, <1>11, <1>12 DEF FD!Add, StageOf

-----------------------------------------------------------------------------
(* The task of a check.                                                    *)
LEMMA TaskIsOutstanding ==
  ASSUME SchedulerInvariant, NEW c \in CheckIds, NEW i \in DOMAIN tasks[c]
  PROVE  /\ i = 1
         /\ tasks[c] # <<>>
         /\ tasks[c][i] \in Task
         /\ Outstanding(c) = tasks[c][i]
         /\ checks[c] # None
         /\ checks[c].running
<1>1. tasks[c] \in Seq(Task) /\ Len(tasks[c]) <= 1
  BY DEF SchedulerInvariant, TypeOK, MarksFollowTasks
<1>2. i = 1 /\ tasks[c] # <<>> /\ tasks[c][i] \in Task
  BY <1>1, LenProperties
<1>3. QED
  BY <1>2 DEF Outstanding, SchedulerInvariant, MarksFollowTasks

(* A task becomes t: what its check is promised then.                      *)
LEMMA TaskPromise ==
  ASSUME SchedulerInvariant, NEW c \in CheckIds, NEW i \in DOMAIN tasks[c], NEW t \in Task,
         tasks' = [tasks EXCEPT ![c][i] = t], UNCHANGED <<checks, joined>>
  PROVE  /\ Outstanding(c)' = t
         /\ \A d \in CheckIds : d # c => PromiseTo(d)' = PromiseTo(d)
<1>1. tasks \in [CheckIds -> Seq(Task)]
  BY DEF SchedulerInvariant, TypeOK
<1>2. i = 1 /\ tasks[c] # <<>>
  BY TaskIsOutstanding
<1>3. /\ tasks' \in [CheckIds -> Seq(Task)]
      /\ Len(tasks'[c]) = Len(tasks[c])
      /\ tasks'[c][i] = t
      /\ \A d \in CheckIds : d # c => tasks'[d] = tasks[d]
  BY <1>1, ReplaceTask
<1>4. tasks'[c] # <<>>
  BY <1>1, <1>2, <1>3, EmptySeq, LenProperties
<1>5. QED
  BY <1>2, <1>3, <1>4, OutstandingUnchanged, PromiseUnchanged DEF Outstanding

LEMMA TaskStepRefines ==
  ASSUME SchedulerInvariant, TaskStep PROVE [FD!Next]_(FD!fdVars)
<1> PICK c \in CheckIds :
      \E i \in DOMAIN tasks[c] :
        ExecuteReturns(c, i) \/ RecordReturns(c, i) \/ Panic(c, i)
  BY DEF TaskStep
<1> PICK i \in DOMAIN tasks[c] :
      ExecuteReturns(c, i) \/ RecordReturns(c, i) \/ Panic(c, i)
  OBVIOUS
<1> DEFINE task == tasks[c][i]
<1>1. /\ task \in Task
      /\ Outstanding(c) = task
      /\ checks[c] # None
  BY TaskIsOutstanding
<1>2. task # None
  BY <1>1, NoTaskAssumption
<1>3. UNCHANGED <<checks, joined, now, loop>>
  BY DEF ExecuteReturns, RecordReturns, Panic
<1>4. PromiseOf[c] = PromiseTo(c)
  BY PromiseIsFunction
<1>5. now \in Nat
  BY DEF SchedulerInvariant, TypeOK, Instant
<1> HIDE DEF task
<1>6. task.phase \in {"execute", "record"}
        => PromiseTo(c) = [phase |-> "executing", enabled |-> checks[c].check.enabled,
                           delay |-> Delay(c), ready |-> checks[c].next_due]
  BY <1>1, <1>2 DEF PromiseTo, PhaseOf, ReadyAt
<1>61. task.phase \in {"execute", "record"}
         => PromiseOf[c] # None /\ PromiseOf[c].phase = "executing"
  <2>1. checks[c] \in ScheduledCheck
    BY <1>1, EntryType DEF SchedulerInvariant
  <2>2. checks[c].check.enabled \in BOOLEAN /\ checks[c].next_due \in Nat
        /\ checks[c].check.interval_seconds \in Intervals
    BY <2>1 DEF ScheduledCheck, CheckConfig, Instant
  <2>3. Delay(c) \in {IntervalDuration(s) : s \in Intervals}
    BY <2>2 DEF Delay
  <2> DEFINE old == [phase |-> "executing", enabled |-> checks[c].check.enabled,
                     delay |-> Delay(c), ready |-> checks[c].next_due]
  <2>4. old \in FD!Promise
    BY <2>2, <2>3 DEF FD!Promise
  <2>5. old # None /\ old.phase = "executing"
    BY <2>4, NoPromiseAssumption
  <2> HIDE DEF old
  <2>6. QED
    BY <1>4, <1>6, <2>5 DEF old
<1>7. CASE ExecuteReturns(c, i)
  <2> DEFINE t == [task EXCEPT !.phase = "record"]
  <2>1. t \in Task /\ t.phase = "record" /\ task.phase = "execute"
    BY <1>1, <1>7 DEF ExecuteReturns, Task, task
  <2>2. tasks' = [tasks EXCEPT ![c][i] = t]
    BY <1>7 DEF ExecuteReturns, task
  <2> HIDE DEF t
  <2>3. /\ Outstanding(c)' = t
        /\ \A d \in CheckIds : d # c => PromiseTo(d)' = PromiseTo(d)
    BY <1>3, <2>1, <2>2, TaskPromise
  <2>4. PromiseTo(c)' = PromiseTo(c)
    BY <1>1, <1>2, <1>3, <1>6, <2>1, <2>3, NoTaskAssumption
       DEF PromiseTo, PhaseOf, ReadyAt, Delay
  <2>5. PromiseOf' = PromiseOf
    BY <2>3, <2>4, PromiseIsFunction
  <2>6. QED
    BY <1>3, <2>5 DEF FD!fdVars, StageOf
<1>8. CASE RecordReturns(c, i)
  <2>1. PICK ok \in BOOLEAN :
          tasks' = [tasks EXCEPT ![c][i] = [phase |-> "done", completed_at |-> now,
                                            recorded |-> ok]]
    BY <1>8 DEF RecordReturns
  <2> DEFINE t == [phase |-> "done", completed_at |-> now, recorded |-> ok]
  <2>2. t \in Task /\ t.phase = "done" /\ t.completed_at = now
    BY <1>5 DEF Task, Instant
  <2>3. tasks' = [tasks EXCEPT ![c][i] = t] /\ task.phase = "record"
    BY <1>8, <2>1 DEF RecordReturns, task
  <2> HIDE DEF t
  <2>4. /\ Outstanding(c)' = t
        /\ \A d \in CheckIds : d # c => PromiseTo(d)' = PromiseTo(d)
    BY <1>3, <2>2, <2>3, TaskPromise
  <2>5. PromiseTo(c)' = [phase |-> "idle", enabled |-> checks[c].check.enabled,
                         delay |-> Delay(c), ready |-> now + Delay(c)]
    BY <1>1, <1>3, <2>2, <2>4, NoTaskAssumption DEF PromiseTo, PhaseOf, ReadyAt, Delay
  <2>6. PromiseTo(c)' = [PromiseTo(c) EXCEPT !.phase = "idle",
                                             !.ready = now + PromiseTo(c).delay]
    <3> DEFINE next == now + Delay(c)
    <3>1. PromiseTo(c) = [phase |-> "executing", enabled |-> checks[c].check.enabled,
                          delay |-> Delay(c), ready |-> checks[c].next_due]
      BY <1>6, <2>3
    <3>2. next = now + PromiseTo(c).delay
      BY <3>1
    <3>3. PromiseTo(c)' = [phase |-> "idle", enabled |-> checks[c].check.enabled,
                           delay |-> Delay(c), ready |-> next]
      BY <2>5
    <3> HIDE DEF next
    <3> DEFINE idle == [PromiseTo(c) EXCEPT !.phase = "idle"]
    <3>4. idle = [phase |-> "idle", enabled |-> checks[c].check.enabled,
                  delay |-> Delay(c), ready |-> checks[c].next_due]
      BY <3>1
    <3> HIDE DEF idle
    <3>5. PromiseTo(c)' = [idle EXCEPT !.ready = next]
      BY <3>3, <3>4
    <3>6. QED
      BY <3>2, <3>5 DEF idle
  <2>7. PromiseOf' = [PromiseOf EXCEPT ![c] = PromiseTo(c)']
    BY <2>4, OneChanges
  <2>8. PromiseOf[c] # None /\ PromiseOf[c].phase = "executing"
    BY <1>61, <2>3
  <2>9. FD!Finish(c)
    BY <1>3, <1>4, <2>6, <2>7, <2>8 DEF FD!Finish, StageOf
  <2>10. QED
    BY <2>9 DEF FD!Next
<1>9. CASE Panic(c, i)
  <2> DEFINE t == [task EXCEPT !.phase = "failed"]
  <2>1. t \in Task /\ t.phase = "failed" /\ task.phase \in {"execute", "record"}
    BY <1>1, <1>9 DEF Panic, Task, task
  <2>2. tasks' = [tasks EXCEPT ![c][i] = t]
    BY <1>9 DEF Panic, task
  <2> HIDE DEF t
  <2>3. /\ Outstanding(c)' = t
        /\ \A d \in CheckIds : d # c => PromiseTo(d)' = PromiseTo(d)
    BY <1>3, <2>1, <2>2, TaskPromise
  <2>4. PromiseTo(c)' = [phase |-> "retired", enabled |-> checks[c].check.enabled,
                         delay |-> Delay(c), ready |-> checks[c].next_due]
    BY <1>1, <1>3, <2>1, <2>3, NoTaskAssumption DEF PromiseTo, PhaseOf, ReadyAt, Delay
  <2>5. PromiseTo(c)' = [PromiseTo(c) EXCEPT !.phase = "retired"]
    BY <1>6, <2>1, <2>4
  <2>6. PromiseOf' = [PromiseOf EXCEPT ![c] = PromiseTo(c)']
    BY <2>3, OneChanges
  <2>7. PromiseOf[c] # None /\ PromiseOf[c].phase = "executing"
    BY <1>61, <2>1
  <2>8. FD!Crash(c)
    BY <1>3, <1>4, <2>5, <2>6, <2>7 DEF FD!Crash, StageOf
  <2>9. QED
    BY <2>8 DEF FD!Next
<1>10. QED
  BY <1>7, <1>8, <1>9

-----------------------------------------------------------------------------
(* What SpawnDueChecks starts, FixedDelay may start.                       *)
LEMMA SpawnRefines ==
  ASSUME SchedulerInvariant, SpawnDueChecks PROVE FD!Start
<1> DEFINE due == DueChecks(checks, now)
<1>1. /\ checks \in [CheckIds -> ScheduledCheck \cup {None}]
      /\ UNCHANGED <<joined, now>>
      /\ StageOf = "open" /\ StageOf' = "open"
  BY DEF SchedulerInvariant, TypeOK, Table, SpawnDueChecks, StageOf
<1>2. ASSUME NEW c \in due
      PROVE  /\ FD!MayStart(c)
             /\ PromiseTo(c)' = [PromiseOf[c] EXCEPT !.phase = "executing"]
  <2>1. /\ c \in CheckIds
        /\ checks[c] \in ScheduledCheck
        /\ checks[c] # None
        /\ checks[c].check.enabled
        /\ ~checks[c].running
        /\ checks[c].next_due <= now
    BY <1>1, <1>2 DEF DueChecks, IsDue
  <2>2. tasks[c] = <<>> /\ ~(joined # None /\ joined.check = c)
    BY <2>1 DEF SchedulerInvariant, MarksFollowTasks
  <2>3. Outstanding(c) = None
    BY <2>2 DEF Outstanding
  <2> DEFINE old == [phase |-> "idle", enabled |-> checks[c].check.enabled,
                     delay |-> Delay(c), ready |-> checks[c].next_due]
  <2>4. PromiseOf[c] = old
    BY <2>1, <2>3, PromiseIsFunction DEF PromiseTo, PhaseOf, ReadyAt
  <2>5. old \in FD!Promise
    BY <2>1 DEF FD!Promise, ScheduledCheck, CheckConfig, Instant, Delay
  <2>6. old # None
    BY <2>5, NoPromiseAssumption
  <2>7. FD!MayStart(c)
    BY <2>1, <2>4, <2>6 DEF FD!MayStart
  <2> DEFINE claimed == [checks[c] EXCEPT !.running = TRUE, !.last_started = now]
  <2>8. checks'[c] = claimed /\ tasks'[c] = Append(tasks[c], NewTask)
    BY <1>2, <2>1 DEF SpawnDueChecks, ClaimDueChecks, DueChecks
  <2>9. /\ claimed \in ScheduledCheck
        /\ claimed.running
        /\ claimed.check = checks[c].check
        /\ claimed.next_due = checks[c].next_due
    <3>1. now \in Instant
      BY DEF SchedulerInvariant, TypeOK
    <3>2. QED
      BY <2>1, <3>1 DEF ScheduledCheck
  <2> HIDE DEF claimed
  <2>10. claimed # None
    BY <2>9, NoneAssumption
  <2>11. tasks'[c] = <<NewTask>>
    BY <2>2, <2>8
  <2>12. Outstanding(c)' = NewTask
    BY <2>11 DEF Outstanding
  <2>13. NewTask # None /\ NewTask.phase = "execute"
    <3>1. NewTask \in Task /\ NewTask.phase = "execute"
      BY DEF NewTask, Task
    <3>2. QED
      BY <3>1, NoTaskAssumption
  <2>14. PromiseTo(c)' = [phase |-> "executing", enabled |-> checks[c].check.enabled,
                          delay |-> Delay(c), ready |-> checks[c].next_due]
    BY <2>8, <2>9, <2>10, <2>12, <2>13 DEF PromiseTo, PhaseOf, ReadyAt, Delay
  <2>15. QED
    BY <2>4, <2>7, <2>14
<1>3. ASSUME NEW c \in CheckIds, c \notin due PROVE PromiseTo(c)' = PromiseOf[c]
  <2>1. checks'[c] = checks[c] /\ tasks'[c] = tasks[c]
    BY <1>3 DEF SpawnDueChecks, ClaimDueChecks, DueChecks
  <2>2. QED
    BY <1>1, <2>1, OutstandingUnchanged, PromiseUnchanged, PromiseIsFunction
<1>4. due \in SUBSET {c \in CheckIds : FD!MayStart(c)}
  BY <1>2 DEF DueChecks
<1> HIDE DEF due
<1>5. PromiseOf' = [c \in CheckIds |-> IF c \in due
                                       THEN [PromiseOf[c] EXCEPT !.phase = "executing"]
                                       ELSE PromiseOf[c]]
  BY <1>2, <1>3, PromiseIsFunction
<1>6. QED
  BY <1>1, <1>4, <1>5 DEF FD!Start

-----------------------------------------------------------------------------
(* From its end to the table a task changes hands, and no promise.         *)
LEMMA JoinRefines ==
  ASSUME SchedulerInvariant, NEW c \in CheckIds, JoinNext(c) PROVE PromiseOf' = PromiseOf
<1>1. PICK i \in DOMAIN tasks[c] :
        /\ Finished(tasks[c][i])
        /\ joined' = [check |-> c, task |-> tasks[c][i]]
        /\ tasks' = [tasks EXCEPT ![c] = RemoveAt(@, i)]
  BY DEF JoinNext
<1>2. joined = None /\ UNCHANGED checks /\ tasks \in [CheckIds -> Seq(Task)]
  BY DEF JoinNext, SchedulerInvariant, TypeOK
<1>3. tasks[c][i] \in Task /\ Outstanding(c) = tasks[c][i]
  BY TaskIsOutstanding
<1>4. tasks'[c] = <<>>
  <2>1. tasks[c] \in Seq(Task) /\ Len(tasks[c]) <= 1
    BY <1>2 DEF SchedulerInvariant, MarksFollowTasks
  <2>2. RemoveAt(tasks[c], i) = <<>>
    BY <2>1, RemoveOnlyTask
  <2>3. QED
    BY <1>1, <1>2, <2>2
<1>5. joined' # None /\ joined'.check = c /\ joined'.task = tasks[c][i]
  BY <1>1, <1>3, NoTaskAssumption DEF Joined
<1>6. Outstanding(c)' = Outstanding(c)
  BY <1>3, <1>4, <1>5 DEF Outstanding
<1>7. ASSUME NEW d \in CheckIds, d # c PROVE Outstanding(d)' = Outstanding(d)
  <2>1. tasks'[d] = tasks[d]
    BY <1>1, <1>2, <1>7
  <2>2. QED
    BY <1>2, <1>5, <1>7, <2>1 DEF Outstanding
<1>8. ASSUME NEW d \in CheckIds PROVE PromiseTo(d)' = PromiseTo(d)
  BY <1>2, <1>6, <1>7, PromiseUnchanged
<1>9. QED
  BY <1>8, PromiseIsFunction

(* The task that was joined, and the checks it does not concern.           *)
LEMMA JoinedIsOutstanding ==
  ASSUME SchedulerInvariant, joined # None
  PROVE  /\ joined.check \in CheckIds
         /\ tasks[joined.check] = <<>>
         /\ checks[joined.check] # None
         /\ checks[joined.check].running
         /\ Outstanding(joined.check) = joined.task
         /\ joined.task # None
<1>1. joined \in Joined
  BY DEF SchedulerInvariant, TypeOK
<1>2. joined.check \in CheckIds /\ joined.task \in Task
  BY <1>1 DEF Joined
<1>3. QED
  BY <1>2, NoTaskAssumption DEF SchedulerInvariant, MarksFollowTasks, Outstanding

LEMMA OthersWait ==
  ASSUME joined' = None, UNCHANGED tasks, NEW d \in CheckIds, d # joined.check,
         checks'[d] = checks[d]
  PROVE  PromiseTo(d)' = PromiseTo(d)
<1>1. Outstanding(d)' = Outstanding(d)
  BY DEF Outstanding
<1>2. QED
  BY <1>1, PromiseUnchanged

LEMMA CompletionRefines ==
  ASSUME SchedulerInvariant, HandleCompletion PROVE PromiseOf' = PromiseOf
<1> PICK c \in CheckIds : c = joined.check
  BY JoinedIsOutstanding DEF HandleCompletion
<1> DEFINE at == joined.task.completed_at
           done == [checks[c] EXCEPT !.running = FALSE, !.last_completed = at,
                                     !.next_due = at + Delay(c)]
<1>1. /\ tasks[c] = <<>> /\ checks[c] # None
      /\ Outstanding(c) = joined.task /\ joined.task # None
      /\ joined.task.phase = "done"
  BY JoinedIsOutstanding DEF HandleCompletion
<1>2. joined' = None /\ UNCHANGED tasks /\ checks' = [checks EXCEPT ![c] = done]
  BY <1>1 DEF HandleCompletion, CompleteCheck, Delay
<1>3. checks \in [CheckIds -> ScheduledCheck \cup {None}]
  BY DEF SchedulerInvariant, TypeOK, Table
<1>4. /\ done \in ScheduledCheck
      /\ ~done.running
      /\ done.check = checks[c].check
      /\ done.next_due = at + Delay(c)
  <2> DEFINE due == at + Delay(c)
  <2>1. at \in Nat
    BY DEF HandleCompletion, SchedulerInvariant, CompletionsAreDated, Instant
  <2>2. checks[c] \in ScheduledCheck /\ Delay(c) \in Nat
    BY <1>1, EntryType DEF SchedulerInvariant, Delay
  <2>3. due \in Nat
    BY <2>1, <2>2
  <2>4. done = [checks[c] EXCEPT !.running = FALSE, !.last_completed = at, !.next_due = due]
    OBVIOUS
  <2> HIDE DEF due, done, at
  <2>5. /\ done \in ScheduledCheck
        /\ ~done.running
        /\ done.check = checks[c].check
        /\ done.next_due = due
    BY <2>1, <2>2, <2>3, <2>4 DEF ScheduledCheck, Instant
  <2>6. QED
    BY <2>5 DEF due
<1> HIDE DEF done
<1>5. checks'[c] = done /\ done # None
  BY <1>1, <1>2, <1>3, <1>4, NoneAssumption
<1>6. Outstanding(c)' = None
  BY <1>1, <1>2 DEF Outstanding
<1>7. PromiseTo(c)' = PromiseTo(c)
  BY <1>1, <1>4, <1>5, <1>6 DEF PromiseTo, PhaseOf, ReadyAt, Delay
<1>8. ASSUME NEW d \in CheckIds, d # c PROVE PromiseTo(d)' = PromiseTo(d)
  <2>1. checks'[d] = checks[d]
    BY <1>1, <1>2, <1>3, <1>8
  <2>2. QED
    BY <1>2, <1>8, <2>1, OthersWait
<1>9. QED
  BY <1>7, <1>8, PromiseIsFunction

LEMMA FailureRefines ==
  ASSUME SchedulerInvariant, HandleFailure PROVE PromiseOf' = PromiseOf
<1> PICK c \in CheckIds : c = joined.check
  BY JoinedIsOutstanding DEF HandleFailure
<1>1. /\ tasks[c] = <<>> /\ checks[c].running
      /\ Outstanding(c) = joined.task /\ joined.task # None
      /\ joined.task.phase = "failed"
  BY JoinedIsOutstanding DEF HandleFailure
<1>2. joined' = None /\ UNCHANGED <<tasks, checks>>
  BY DEF HandleFailure
<1>3. Outstanding(c)' = None
  BY <1>1, <1>2 DEF Outstanding
<1>4. PromiseTo(c)' = PromiseTo(c)
  BY <1>1, <1>2, <1>3 DEF PromiseTo, PhaseOf, ReadyAt, Delay
<1>5. \A d \in CheckIds : d # c => PromiseTo(d)' = PromiseTo(d)
  BY <1>2, OthersWait
<1>6. QED
  BY <1>4, <1>5, PromiseIsFunction

LEMMA ReturnRefines ==
  ASSUME SchedulerInvariant, Return PROVE FD!GiveBack
<1>1. /\ UNCHANGED <<checks, now, tasks, joined>>
      /\ StageOf = "draining" /\ StageOf' = "returned"
  BY DEF Return, StageOf
<1>2. ASSUME NEW c \in CheckIds, PromiseOf[c] # None PROVE PromiseOf[c].phase # "executing"
  <2>1. Outstanding(c) = None
    BY DEF Return, Outstanding, NoTasks
  <2>2. PromiseOf[c] = PromiseTo(c)
    BY PromiseIsFunction
  <2>3. PromiseOf[c].phase = PhaseOf(c)
    BY <1>2, <2>2 DEF PromiseTo
  <2>4. QED
    BY <2>1, <2>3 DEF PhaseOf
<1>3. PromiseOf' = PromiseOf
  BY <1>1, AllUnchanged
<1>4. QED
  BY <1>1, <1>2, <1>3 DEF FD!GiveBack

-----------------------------------------------------------------------------
LEMMA NextRefines ==
  SchedulerInvariant /\ [Next]_vars => [FD!Next]_(FD!fdVars)
<1> SUFFICES ASSUME SchedulerInvariant, [Next]_vars PROVE [FD!Next]_(FD!fdVars)
  OBVIOUS
<1> USE DEF FD!Next, FD!fdVars
<1>1. ASSUME NEW c \in CheckIds, NEW cfg \in CheckConfig, Register(c, cfg)
      PROVE  FD!Next
  <2>1. cfg.enabled \in BOOLEAN /\ cfg.interval_seconds \in Intervals
    BY DEF CheckConfig
  <2>2. QED
    BY <1>1, <2>1, RegisterRefines
<1>2. CASE Run \/ Tick \/ ResolveShutdown \/ UNCHANGED vars
  BY <1>2, AllUnchanged DEF Run, Tick, ResolveShutdown, vars, AtSelect, StageOf
<1>3. CASE ShutdownResolves
  <2>1. FD!Close
    BY <1>3, AllUnchanged DEF ShutdownResolves, AtSelect, StageOf, FD!Close
  <2>2. QED
    BY <2>1
<1>4. CASE SpawnDueChecks
  BY <1>4, SpawnRefines
<1>5. ASSUME NEW c \in CheckIds, JoinNext(c) PROVE UNCHANGED FD!fdVars
  BY <1>5, JoinRefines DEF JoinNext, StageOf
<1>6. CASE HandleCompletion \/ HandleFailure
  BY <1>6, CompletionRefines, FailureRefines DEF HandleCompletion, HandleFailure, StageOf
<1>7. CASE Return
  BY <1>7, ReturnRefines
<1>8. CASE TaskStep
  BY <1>8, TaskStepRefines
<1>9. CASE TimePasses
  <2>1. FD!Pass
    BY <1>9, AllUnchanged DEF TimePasses, StageOf, FD!Pass
  <2>2. QED
    BY <2>1
<1>10. QED
  BY <1>1, <1>2, <1>3, <1>4, <1>5, <1>6, <1>7, <1>8, <1>9 DEF Next, LoopStep, Terminated

(* The scheduler keeps the promise of FixedDelay: whatever the loop, the   *)
(* tasks, registration, sink errors, panics and shutdown do in whatever    *)
(* order, executions start, end and are spaced as a fixed-delay schedule   *)
(* has it, none starts once the loop drains, and run_until_shutdown        *)
(* returns when all have ended.                                            *)
THEOREM SchedulerImplementsFixedDelay == Spec => ImplementsFixedDelay
  BY InitRefines, NextRefines, SchedulerIsInvariant, PTL DEF Spec, ImplementsFixedDelay, FD!Spec

-----------------------------------------------------------------------------
(* On a machine that keeps up a due check starts within one tick.          *)

(* An entry that will be claimed as soon as it is due.                     *)
Waiting(c) == checks[c] # None /\ checks[c].check.enabled /\ ~checks[c].running

(* Up to the first select! no time passes and nothing is claimed.          *)
BeforeRun ==
  loop = "created" =>
    /\ joined = None
    /\ \A c \in CheckIds :
         /\ tasks[c] = <<>>
         /\ checks[c] # None => ~checks[c].running /\ checks[c].next_due = now

(* The next tick is never late, and it is one period after a tick that     *)
(* left nothing due behind.                                                *)
TickIsNear ==
  loop = "select" =>
    /\ now <= nextTick
    /\ nextTick <= now + TickInterval
    /\ \A c \in CheckIds : Waiting(c) => nextTick <= checks[c].next_due + TickInterval

TickIsServed ==
  loop = "claim" =>
    /\ nextTick = now + TickInterval
    /\ joined = None
    /\ \A c \in CheckIds : Waiting(c) => now <= checks[c].next_due + TickInterval

(* No time passes between the end of a task and the table being told.      *)
EndsAreRecent ==
  loop \in {"select", "claim"} =>
    /\ \A c \in CheckIds : \A i \in DOMAIN tasks[c] :
         tasks[c][i].phase = "done" => tasks[c][i].completed_at = now
    /\ joined # None /\ joined.task.phase = "done" => joined.task.completed_at = now

PromptInvariant ==
  /\ SchedulerInvariant
  /\ BeforeRun
  /\ TickIsNear
  /\ TickIsServed
  /\ EndsAreRecent
  /\ PeriodIsBounded

PromptOK == BeforeRun /\ TickIsNear /\ TickIsServed /\ EndsAreRecent /\ PeriodIsBounded

(* What every step below needs of the types.                               *)
LEMMA PromptTypes ==
  ASSUME SchedulerInvariant
  PROVE  /\ now \in Nat /\ nextTick \in Nat /\ TickInterval \in Nat \ {0}
         /\ checks \in [CheckIds -> ScheduledCheck \cup {None}]
         /\ tasks \in [CheckIds -> Seq(Task)]
         /\ \A c \in CheckIds : checks[c] # None =>
              /\ checks[c] \in ScheduledCheck
              /\ checks[c].next_due \in Nat
              /\ IntervalDuration(checks[c].check.interval_seconds) \in Nat \ {0}
<1>1. TypeOK
  BY DEF SchedulerInvariant
<1>2. ASSUME NEW c \in CheckIds, checks[c] # None
      PROVE  /\ checks[c] \in ScheduledCheck
             /\ checks[c].next_due \in Nat
             /\ IntervalDuration(checks[c].check.interval_seconds) \in Nat \ {0}
  <2>1. /\ checks[c] \in ScheduledCheck
        /\ IntervalDuration(checks[c].check.interval_seconds) \in Nat \ {0}
    BY <1>1, <1>2, EntryType
  <2>2. checks[c].next_due \in Nat
    BY <2>1 DEF ScheduledCheck, Instant
  <2>3. QED
    BY <2>1, <2>2
<1>3. QED
  BY <1>1, <1>2, SchedulerAssumption DEF TypeOK, Table, Instant

LEMMA InitPrompt == Init => PromptInvariant
<1> SUFFICES ASSUME Init PROVE PromptInvariant
  OBVIOUS
<1>1. SchedulerInvariant
  BY InitInvariant
<1>2. \A c \in CheckIds : checks[c] = None /\ tasks[c] = <<>>
  BY DEF Init, EmptyTable, NoTasks
<1>3. loop = "created" /\ joined = None
  BY DEF Init
<1>4. QED
  BY <1>1, <1>2, <1>3
     DEF PromptInvariant, BeforeRun, TickIsNear, TickIsServed, EndsAreRecent, PeriodIsBounded

LEMMA RegisterPrompt ==
  ASSUME PromptInvariant, NEW c \in CheckIds, NEW cfg \in CheckConfig, Register(c, cfg)
  PROVE  PromptOK'
<1> USE DEF PromptInvariant
<1>1. checks \in [CheckIds -> ScheduledCheck \cup {None}] /\ now \in Nat /\ nextTick \in Nat
      /\ TickInterval \in Nat
  BY PromptTypes
<1>2. /\ checks' = [checks EXCEPT ![c] = NewScheduledCheck(cfg, now)]
      /\ UNCHANGED <<now, loop, nextTick, tasks, joined>>
  BY DEF Register, RegisterCheck
<1>3. /\ ~checks'[c].running
      /\ checks'[c].next_due = now
      /\ \A d \in CheckIds : d # c => checks'[d] = checks[d]
  BY <1>1, <1>2 DEF NewScheduledCheck
<1>4. BeforeRun' /\ EndsAreRecent'
  BY <1>2, <1>3 DEF BeforeRun, EndsAreRecent
<1>5. TickIsNear' /\ TickIsServed'
  BY <1>1, <1>2, <1>3 DEF TickIsNear, TickIsServed, Waiting
<1>6. PeriodIsBounded'
  BY <1>3 DEF PeriodIsBounded
<1>7. QED
  BY <1>4, <1>5, <1>6 DEF PromptOK

LEMMA RunPrompt == ASSUME PromptInvariant, Run PROVE PromptOK'
<1> USE DEF PromptInvariant
<1>1. /\ loop = "created" /\ loop' = "select" /\ nextTick' = now
      /\ UNCHANGED <<checks, now, tasks, joined>>
  BY DEF Run
<1>2. now \in Nat /\ TickInterval \in Nat
  BY PromptTypes
<1>3. TickIsNear'
  BY <1>1, <1>2 DEF BeforeRun, TickIsNear, Waiting
<1>4. EndsAreRecent'
  BY <1>1 DEF BeforeRun, EndsAreRecent
<1>5. QED
  BY <1>1, <1>3, <1>4 DEF PromptOK, BeforeRun, TickIsServed, PeriodIsBounded

(* The tick comes when it is due, so what it finds due is late by less     *)
(* than the period.                                                        *)
LEMMA TickPrompt == ASSUME PromptInvariant, Tick PROVE PromptOK'
<1> USE DEF PromptInvariant
<1>1. /\ loop = "select" /\ loop' = "claim" /\ nextTick <= now /\ joined = None
      /\ nextTick' = now + TickInterval
      /\ UNCHANGED <<checks, now, tasks, joined>>
  BY DEF Tick, AtSelect
<1>2. now \in Nat /\ nextTick \in Nat
  BY PromptTypes
<1>3. now = nextTick
  BY <1>1, <1>2 DEF TickIsNear
<1>4. TickIsServed'
  BY <1>1, <1>3 DEF TickIsNear, TickIsServed, Waiting
<1>5. EndsAreRecent'
  BY <1>1 DEF EndsAreRecent
<1>6. QED
  BY <1>1, <1>4, <1>5 DEF PromptOK, BeforeRun, TickIsNear, PeriodIsBounded

LEMMA SpawnPrompt == ASSUME PromptInvariant, SpawnDueChecks PROVE PromptOK'
<1> USE DEF PromptInvariant
<1>1. /\ loop = "claim" /\ loop' = "select"
      /\ UNCHANGED <<now, nextTick, joined>>
      /\ checks' = ClaimDueChecks(checks, now)
      /\ nextTick = now + TickInterval /\ joined = None
  BY DEF SpawnDueChecks, TickIsServed
<1>2. /\ now \in Nat /\ TickInterval \in Nat /\ tasks \in [CheckIds -> Seq(Task)]
      /\ \A c \in CheckIds : checks[c] # None =>
           checks[c] \in ScheduledCheck /\ checks[c].next_due \in Nat
  BY PromptTypes
<1>3. ASSUME NEW c \in CheckIds, IsDue(checks[c], now)
      PROVE  /\ checks'[c].running
             /\ checks'[c].check = checks[c].check
             /\ checks'[c].last_started = now
             /\ checks'[c].last_completed = checks[c].last_completed
             /\ Waiting(c)
  <2>1. checks[c] \in ScheduledCheck
    BY <1>2, <1>3 DEF IsDue
  <2>2. checks'[c] = [checks[c] EXCEPT !.running = TRUE, !.last_started = now]
    BY <1>1, <1>3 DEF ClaimDueChecks
  <2>3. QED
    BY <1>3, <2>1, <2>2 DEF ScheduledCheck, IsDue, Waiting
<1>4. ASSUME NEW c \in CheckIds, ~IsDue(checks[c], now)
      PROVE  checks'[c] = checks[c]
  BY <1>1, <1>4 DEF ClaimDueChecks
<1>5. ASSUME NEW c \in CheckIds, Waiting(c)' PROVE nextTick' <= checks'[c].next_due + TickInterval
  <2>1. ~IsDue(checks[c], now)
    BY <1>3, <1>5 DEF Waiting
  <2>2. checks'[c] = checks[c]
    BY <1>4, <2>1
  <2>3. ~(checks[c].next_due <= now) /\ checks[c].next_due \in Nat
    BY <1>2, <1>5, <2>1, <2>2 DEF IsDue, Waiting
  <2>4. QED
    BY <1>1, <1>2, <2>2, <2>3
<1>6. TickIsNear'
  BY <1>1, <1>2, <1>5 DEF TickIsNear
<1>7. EndsAreRecent'
  <2>1. ASSUME NEW c \in CheckIds, NEW i \in DOMAIN tasks'[c], tasks'[c][i].phase = "done"
        PROVE  tasks'[c][i].completed_at = now
    <3>1. CASE IsDue(checks[c], now)
      <4>1. tasks[c] = <<>>
        BY <3>1 DEF SchedulerInvariant, MarksFollowTasks, IsDue
      <4>2. tasks'[c] = Append(<<>>, NewTask)
        BY <3>1, <4>1 DEF SpawnDueChecks
      <4>3. tasks'[c] = <<NewTask>>
        BY <4>2
      <4>4. tasks'[c][i] = NewTask
        BY <4>3
      <4>5. QED
        BY <2>1, <4>4 DEF NewTask
    <3>2. CASE ~IsDue(checks[c], now)
      BY <1>1, <2>1, <3>2 DEF SpawnDueChecks, EndsAreRecent
    <3>3. QED
      BY <3>1, <3>2
  <2>2. QED
    BY <1>1, <2>1 DEF EndsAreRecent
<1>8. PeriodIsBounded'
  <2> SUFFICES ASSUME NEW c \in CheckIds, checks'[c] # None, checks'[c].running,
                      checks'[c].last_completed # None
               PROVE  checks'[c].last_started - checks'[c].last_completed
                        <= IntervalDuration(checks'[c].check.interval_seconds) + TickInterval
    BY DEF PeriodIsBounded
  <2>1. CASE IsDue(checks[c], now)
    <3>1. now <= checks[c].next_due + TickInterval /\ ~checks[c].running /\ checks[c] # None
      BY <1>1, <1>3, <2>1 DEF TickIsServed, Waiting
    <3>2. checks[c].next_due =
            checks[c].last_completed + IntervalDuration(checks[c].check.interval_seconds)
      BY <1>3, <2>1, <3>1 DEF SchedulerInvariant, IdleEntriesWait
    <3>3. /\ checks[c].last_completed \in Nat
          /\ IntervalDuration(checks[c].check.interval_seconds) \in Nat
      BY <1>2, <1>3, <2>1, <3>1, PromptTypes DEF ScheduledCheck, Instant
    <3>4. QED
      BY <1>2, <1>3, <2>1, <3>1, <3>2, <3>3
  <2>2. CASE ~IsDue(checks[c], now)
    BY <1>4, <2>2 DEF PeriodIsBounded
  <2>3. QED
    BY <2>1, <2>2
<1>9. QED
  BY <1>1, <1>6, <1>7, <1>8 DEF PromptOK, BeforeRun, TickIsServed

(* What the loop takes out ended when the loop found every branch pending. *)
LEMMA JoinPrompt ==
  ASSUME PromptInvariant, NEW c \in CheckIds, JoinNext(c)
  PROVE  PromptOK'
<1> USE DEF PromptInvariant
<1>1. PICK i \in DOMAIN tasks[c] :
        /\ joined' = [check |-> c, task |-> tasks[c][i]]
        /\ tasks' = [tasks EXCEPT ![c] = RemoveAt(@, i)]
  BY DEF JoinNext
<1>2. /\ loop \in {"select", "drain"}
      /\ UNCHANGED <<checks, now, loop, nextTick>>
  BY DEF JoinNext
<1>3. /\ tasks \in [CheckIds -> Seq(Task)]
      /\ Len(tasks[c]) <= 1
  BY PromptTypes DEF SchedulerInvariant, MarksFollowTasks
<1>4. tasks'[c] = <<>> /\ \A d \in CheckIds : d # c => tasks'[d] = tasks[d]
  <2>1. RemoveAt(tasks[c], i) = <<>>
    BY <1>3, RemoveOnlyTask
  <2>2. QED
    BY <1>1, <1>3, <2>1
<1>5. EndsAreRecent'
  <2>1. ASSUME NEW d \in CheckIds, NEW j \in DOMAIN tasks'[d], tasks'[d][j].phase = "done",
               loop = "select"
        PROVE  tasks'[d][j].completed_at = now
    <3>1. d # c
      BY <1>4, EmptySeq
    <3>2. QED
      BY <1>4, <2>1, <3>1 DEF EndsAreRecent
  <2>2. loop = "select" /\ joined'.task.phase = "done" => joined'.task.completed_at = now
    BY <1>1 DEF EndsAreRecent
  <2>3. QED
    BY <1>2, <2>1, <2>2 DEF EndsAreRecent
<1>6. TickIsNear'
  BY <1>2 DEF TickIsNear, Waiting
<1>7. QED
  BY <1>2, <1>5, <1>6 DEF PromptOK, BeforeRun, TickIsServed, PeriodIsBounded

(* A check that is told complete in time waits for an interval from now.   *)
LEMMA CompletionPrompt == ASSUME PromptInvariant, HandleCompletion PROVE PromptOK'
<1> USE DEF PromptInvariant
<1>1. joined \in Joined /\ joined # None /\ joined.task.phase = "done"
  BY DEF SchedulerInvariant, TypeOK, HandleCompletion
<1> PICK c \in CheckIds : c = joined.check
  BY <1>1 DEF Joined
<1>2. /\ joined' = None
      /\ UNCHANGED <<now, loop, nextTick, tasks>>
      /\ checks' = CompleteCheck(checks, c, joined.task.completed_at)
  BY DEF HandleCompletion
<1>3. checks[c] # None /\ checks[c].running
  BY <1>1 DEF SchedulerInvariant, MarksFollowTasks
<1>4. /\ now \in Nat /\ nextTick \in Nat /\ TickInterval \in Nat
      /\ checks \in [CheckIds -> ScheduledCheck \cup {None}]
      /\ checks[c] \in ScheduledCheck
      /\ IntervalDuration(checks[c].check.interval_seconds) \in Nat
  BY <1>3, PromptTypes
<1>5. /\ ~checks'[c].running
      /\ checks'[c].next_due = joined.task.completed_at
                               + IntervalDuration(checks[c].check.interval_seconds)
      /\ \A d \in CheckIds : d # c => checks'[d] = checks[d]
  <2> DEFINE due == joined.task.completed_at
                    + IntervalDuration(checks[c].check.interval_seconds)
             at  == joined.task.completed_at
  <2>1. checks' = [checks EXCEPT ![c] = [checks[c] EXCEPT
                     !.running = FALSE, !.last_completed = at, !.next_due = due]]
    BY <1>2, <1>3 DEF CompleteCheck
  <2> HIDE DEF due, at
  <2>2. checks'[c] = [checks[c] EXCEPT
                     !.running = FALSE, !.last_completed = at, !.next_due = due]
    BY <1>4, <2>1
  <2>3. \A d \in CheckIds : d # c => checks'[d] = checks[d]
    BY <1>4, <2>1
  <2>4. ~checks'[c].running /\ checks'[c].next_due = due
    BY <1>4, <2>2 DEF ScheduledCheck
  <2>5. QED
    BY <2>3, <2>4 DEF due
<1>6. loop # "created" /\ loop # "claim"
  BY <1>1 DEF BeforeRun, TickIsServed
<1>7. TickIsNear'
  <2> SUFFICES ASSUME loop = "select"
               PROVE  /\ now <= nextTick
                      /\ nextTick <= now + TickInterval
                      /\ \A d \in CheckIds :
                           Waiting(d)' => nextTick <= checks'[d].next_due + TickInterval
    BY <1>2 DEF TickIsNear
  <2>1. now <= nextTick /\ nextTick <= now + TickInterval
    BY DEF TickIsNear
  <2>2. joined.task.completed_at = now
    BY <1>1 DEF EndsAreRecent
  <2>3. nextTick <= checks'[c].next_due + TickInterval
    BY <1>4, <1>5, <2>1, <2>2
  <2>4. ASSUME NEW d \in CheckIds, d # c, Waiting(d)'
        PROVE  nextTick <= checks'[d].next_due + TickInterval
    BY <1>5, <2>4 DEF TickIsNear, Waiting
  <2>5. QED
    BY <2>1, <2>3, <2>4
<1>8. EndsAreRecent'
  BY <1>2 DEF EndsAreRecent
<1>9. PeriodIsBounded'
  BY <1>5 DEF PeriodIsBounded
<1>10. QED
  BY <1>2, <1>6, <1>7, <1>8, <1>9 DEF PromptOK, BeforeRun, TickIsServed

(* The steps that leave the table, the JoinSet and the clock alone.        *)
LEMMA QuietPrompt ==
  ASSUME PromptInvariant, UNCHANGED <<checks, now, nextTick, tasks>>,
         joined' = joined \/ joined' = None,
         loop' = loop \/ loop' \in {"drain", "stopped"}
  PROVE  PromptOK'
  BY DEF PromptInvariant, PromptOK, BeforeRun, TickIsNear, TickIsServed, EndsAreRecent,
         PeriodIsBounded, Waiting

(* A task that ends reads the clock the loop is to find.                   *)
LEMMA TaskPrompt == ASSUME PromptInvariant, TaskStep PROVE PromptOK'
<1> USE DEF PromptInvariant
<1> PICK c \in CheckIds :
      \E i \in DOMAIN tasks[c] :
        ExecuteReturns(c, i) \/ RecordReturns(c, i) \/ Panic(c, i)
  BY DEF TaskStep
<1> PICK i \in DOMAIN tasks[c] :
      ExecuteReturns(c, i) \/ RecordReturns(c, i) \/ Panic(c, i)
  OBVIOUS
<1>1. tasks \in [CheckIds -> Seq(Task)] /\ now \in Nat
  BY PromptTypes
<1>2. tasks[c][i] \in Task
  <2>1. tasks[c] \in Seq(Task)
    BY <1>1
  <2>2. QED
    BY <2>1
<1>3. UNCHANGED <<checks, now, loop, nextTick, joined>>
  BY DEF ExecuteReturns, RecordReturns, Panic
<1>4. PICK t \in Task :
        /\ tasks' = [tasks EXCEPT ![c][i] = t]
        /\ t.phase = "done" => t.completed_at = now
  <2>1. CASE ExecuteReturns(c, i)
    <3> DEFINE t == [tasks[c][i] EXCEPT !.phase = "record"]
    <3>1. t \in Task /\ t.phase = "record"
      BY <1>2 DEF Task
    <3>2. tasks' = [tasks EXCEPT ![c][i] = t]
      BY <2>1 DEF ExecuteReturns
    <3> HIDE DEF t
    <3>3. QED
      BY <3>1, <3>2
  <2>2. CASE RecordReturns(c, i)
    <3>1. PICK ok \in BOOLEAN :
            tasks' = [tasks EXCEPT ![c][i] = [phase        |-> "done",
                                              completed_at |-> now,
                                              recorded     |-> ok]]
      BY <2>2 DEF RecordReturns
    <3> DEFINE t == [phase |-> "done", completed_at |-> now, recorded |-> ok]
    <3>2. t \in Task /\ t.completed_at = now
      BY <1>1 DEF Task, Instant
    <3>3. tasks' = [tasks EXCEPT ![c][i] = t]
      BY <3>1
    <3> HIDE DEF t
    <3>4. QED
      BY <3>2, <3>3
  <2>3. CASE Panic(c, i)
    <3> DEFINE t == [tasks[c][i] EXCEPT !.phase = "failed"]
    <3>1. t \in Task /\ t.phase = "failed"
      BY <1>2 DEF Task
    <3>2. tasks' = [tasks EXCEPT ![c][i] = t]
      BY <2>3 DEF Panic
    <3> HIDE DEF t
    <3>3. QED
      BY <3>1, <3>2
  <2>4. QED
    BY <2>1, <2>2, <2>3
<1>5. /\ \A d \in CheckIds : d # c => tasks'[d] = tasks[d]
      /\ DOMAIN tasks'[c] = DOMAIN tasks[c]
      /\ \A j \in DOMAIN tasks[c] : tasks'[c][j] = IF j = i THEN t ELSE tasks[c][j]
  BY <1>1, <1>4, ReplaceTask
<1>6. loop # "created"
  <2>1. tasks[c] # <<>>
    BY EmptySeq
  <2>2. QED
    BY <2>1 DEF BeforeRun
<1>7. EndsAreRecent'
  <2>1. ASSUME loop \in {"select", "claim"}, NEW d \in CheckIds,
               NEW j \in DOMAIN tasks'[d], tasks'[d][j].phase = "done"
        PROVE  tasks'[d][j].completed_at = now
    BY <1>4, <1>5, <2>1 DEF EndsAreRecent
  <2>2. QED
    BY <1>3, <2>1 DEF EndsAreRecent
<1>8. QED
  BY <1>3, <1>6, <1>7
     DEF PromptOK, BeforeRun, TickIsNear, TickIsServed, PeriodIsBounded, Waiting

(* Time passes only while nothing is finished and no tick is due.          *)
LEMMA TimePrompt ==
  ASSUME PromptInvariant, TimePasses, AllBranchesPending \/ loop \in {"drain", "stopped"}
  PROVE  PromptOK'
<1> USE DEF PromptInvariant
<1>1. now' = now + 1 /\ UNCHANGED <<checks, loop, nextTick, tasks, joined>>
  BY DEF TimePasses
<1>2. now \in Nat /\ nextTick \in Nat /\ TickInterval \in Nat
  BY PromptTypes
<1>3. CASE loop \in {"drain", "stopped"}
  BY <1>1, <1>3 DEF PromptOK, BeforeRun, TickIsNear, TickIsServed, EndsAreRecent, PeriodIsBounded
<1>4. CASE AllBranchesPending
  <2>1. /\ loop = "select" /\ joined = None /\ now < nextTick
        /\ \A c \in CheckIds : \A i \in DOMAIN tasks[c] : tasks[c][i].phase # "done"
    BY <1>4 DEF AllBranchesPending, AtSelect, Finished
  <2>2. now' <= nextTick' /\ nextTick' <= now' + TickInterval
    BY <1>1, <1>2, <2>1 DEF TickIsNear
  <2>3. TickIsNear'
    BY <1>1, <2>1, <2>2 DEF TickIsNear, Waiting
  <2>4. EndsAreRecent'
    BY <1>1, <2>1 DEF EndsAreRecent
  <2>5. QED
    BY <1>1, <2>1, <2>3, <2>4 DEF PromptOK, BeforeRun, TickIsServed, PeriodIsBounded
<1>5. QED
  BY <1>3, <1>4

LEMMA NextPromptInvariant == PromptInvariant /\ [NextPrompt]_vars => PromptInvariant'
<1> SUFFICES ASSUME PromptInvariant, [NextPrompt]_vars PROVE PromptInvariant'
  OBVIOUS
<1>1. SchedulerInvariant'
  BY NextInvariant DEF PromptInvariant, NextPrompt
<1>2. PromptOK'
  <2>1. ASSUME NEW c \in CheckIds, NEW cfg \in CheckConfig, Register(c, cfg) PROVE PromptOK'
    BY <2>1, RegisterPrompt
  <2>2. ASSUME NEW c \in CheckIds, JoinNext(c) PROVE PromptOK'
    BY <2>2, JoinPrompt
  <2>3. CASE Run \/ Tick \/ SpawnDueChecks \/ HandleCompletion
    BY <2>3, RunPrompt, TickPrompt, SpawnPrompt, CompletionPrompt
  <2>4. CASE ShutdownResolves \/ HandleFailure \/ Return \/ ResolveShutdown \/ UNCHANGED vars
    BY <2>4, QuietPrompt DEF ShutdownResolves, HandleFailure, Return, ResolveShutdown, vars
  <2>5. CASE TaskStep
    BY <2>5, TaskPrompt
  <2>6. CASE NextPrompt /\ TimePasses
    <3>1. now' # now
      BY <2>6, PromptTypes DEF TimePasses, PromptInvariant
    <3>2. QED
      BY <2>6, <3>1, TimePrompt DEF NextPrompt
  <2>7. QED
    BY <2>1, <2>2, <2>3, <2>4, <2>5, <2>6 DEF NextPrompt, Next, LoopStep, Terminated
<1>3. QED
  BY <1>1, <1>2 DEF PromptInvariant, PromptOK

THEOREM PromptIsInvariant == SpecPrompt => []PromptInvariant
<1>1. QED
  BY InitPrompt, NextPromptInvariant, PTL DEF SpecPrompt

(* On a machine that keeps up, a due check is claimed one tick after it    *)
(* fell due at the latest, whatever the other checks do.                   *)
THEOREM DueChecksStartPromptly == SpecPrompt => []StartsWithinOneTick
<1>1. PromptInvariant => StartsWithinOneTick
  <2> SUFFICES ASSUME PromptInvariant, loop \in {"select", "claim"},
                      NEW c \in DueChecks(checks, now)
               PROVE  now - checks[c].next_due <= TickInterval
    BY DEF StartsWithinOneTick
  <2>1. c \in CheckIds /\ checks[c] # None /\ Waiting(c)
    BY DEF DueChecks, IsDue, Waiting
  <2>2. now \in Nat /\ nextTick \in Nat /\ TickInterval \in Nat /\ checks[c].next_due \in Nat
    BY <2>1, PromptTypes DEF PromptInvariant
  <2>3. now <= checks[c].next_due + TickInterval
    BY <2>1, <2>2 DEF PromptInvariant, TickIsNear, TickIsServed
  <2>4. QED
    BY <2>2, <2>3
<1>2. QED
  BY <1>1, PromptIsInvariant, PTL

(* The start that follows a completion comes at most one tick after the    *)
(* interval, for every interval and every tick.                            *)
THEOREM PeriodStaysBounded == SpecPrompt => []PeriodIsBounded
<1>1. PromptInvariant => PeriodIsBounded
  BY DEF PromptInvariant
<1>2. QED
  BY <1>1, PromptIsInvariant, PTL
=============================================================================
