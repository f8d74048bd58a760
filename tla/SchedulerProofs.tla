-------------------------- MODULE SchedulerProofs --------------------------
(***************************************************************************)
(* Theorems about Scheduler for every value of its constants: any set of   *)
(* checks and intervals, any tick, panicking checks and failing sink, and  *)
(* no bound on the clock or the number of steps.                           *)
(***************************************************************************)
EXTENDS Scheduler, SequenceTheorems, TLAPS

(* IntervalDuration is total on registered intervals: clamping yields a    *)
(* duration, never less than one unit of the clock.                        *)
LEMMA IntervalDurationPositive ==
  \A s \in Intervals : IntervalDuration(s) \in Nat \ {0}
<1> SUFFICES ASSUME NEW s \in Intervals
             PROVE  IntervalDuration(s) \in Nat \ {0}
    OBVIOUS
<1> DEFINE units == IF s <= U32Max THEN s ELSE U32Max
<1>1. units \in Nat /\ units >= 1
      BY StateAssumption
<1>2. IntervalUnit \in Nat /\ IntervalUnit >= 1
      BY StateAssumption
<1> HIDE DEF units
<1>3. units * IntervalUnit \in Nat /\ units * IntervalUnit >= 1
      BY <1>1, <1>2
<1>4. DurationMax \in Nat /\ DurationMax >= 1
      BY StateAssumption
<1>5. IntervalDuration(s) = IF units * IntervalUnit <= DurationMax
                            THEN units * IntervalUnit
                            ELSE DurationMax
      BY DEF IntervalDuration, units
<1> QED
    BY <1>3, <1>4, <1>5

(* Replacing a task of the JoinSet by another keeps the JoinSet's type and *)
(* the number of tasks of every check.                                     *)
LEMMA ReplaceTask ==
  ASSUME tasks \in [CheckIds -> Seq(Task)],
         NEW c \in CheckIds, NEW i \in DOMAIN tasks[c], NEW t \in Task
  PROVE  LET new == [tasks EXCEPT ![c][i] = t] IN
           /\ new \in [CheckIds -> Seq(Task)]
           /\ \A d \in CheckIds : Len(new[d]) = Len(tasks[d])
           /\ \A d \in CheckIds : d # c => new[d] = tasks[d]
           /\ DOMAIN new[c] = DOMAIN tasks[c]
           /\ \A j \in DOMAIN tasks[c] : new[c][j] = IF j = i THEN t ELSE tasks[c][j]
<1>1. tasks[c] \in Seq(Task) /\ i \in 1..Len(tasks[c])
      BY LenProperties
<1> DEFINE s == [tasks[c] EXCEPT ![i] = t]
<1>2. /\ s \in Seq(Task)
      /\ Len(s) = Len(tasks[c])
      /\ \A j \in 1..Len(tasks[c]) : s[j] = IF j = i THEN t ELSE tasks[c][j]
      BY <1>1, ExceptSeq
<1>3. DOMAIN s = DOMAIN tasks[c]
      OBVIOUS
<1>4. DOMAIN tasks[c] = 1..Len(tasks[c])
      BY <1>1
<1>5. [tasks EXCEPT ![c][i] = t] = [tasks EXCEPT ![c] = s]
      OBVIOUS
<1> HIDE DEF s
<1> QED
    BY <1>2, <1>3, <1>4, <1>5

(* Taking the only task out leaves none.                                   *)
LEMMA RemoveOnlyTask ==
  ASSUME NEW s \in Seq(Task), Len(s) <= 1, NEW i \in DOMAIN s
  PROVE  RemoveAt(s, i) = <<>> /\ i = 1 /\ s # <<>>
<1>0. Len(s) \in Nat /\ DOMAIN s = 1..Len(s)
      BY LenProperties
<1>1. Len(s) = 1 /\ i = 1
      BY <1>0
<1>2. SubSeq(s, 1, 0) = <<>> /\ SubSeq(s, 2, 1) = <<>>
      BY SubSeqEmpty
<1>3. <<>> \o <<>> = <<>>
      BY EmptySeq, ConcatEmptySeq
<1>4. s # <<>>
  <2>1. DOMAIN <<>> = {}
        OBVIOUS
  <2> QED
      BY <2>1
<1> QED
    BY <1>1, <1>2, <1>3, <1>4 DEF RemoveAt

-----------------------------------------------------------------------------
(* Init establishes the inductive invariant.                               *)
LEMMA InitInvariant == Init => SchedulerInvariant
<1> SUFFICES ASSUME Init PROVE SchedulerInvariant
    OBVIOUS
<1> USE DEF Init
<1>1. TypeOK
  <2>1. checks \in Table
        BY DEF EmptyTable, Table
  <2>2. tasks \in [CheckIds -> Seq(Task)]
        BY EmptySeq DEF NoTasks
  <2>3. stats \in Stats
        BY SchedulerAssumption DEF ZeroStats, Stats
  <2> QED
      BY <2>1, <2>2, <2>3 DEF TypeOK, Instant, LoopPC
<1>2. MarksFollowTasks
  <2>1. \A c \in CheckIds : tasks[c] = <<>> /\ Len(tasks[c]) = 0
        BY EmptySeq DEF NoTasks
  <2>2. joined = None
        OBVIOUS
  <2> HIDE DEF Init
  <2>3. ASSUME NEW c \in CheckIds PROVE Len(tasks[c]) <= 1
        BY <2>1
  <2>4. ASSUME NEW c \in CheckIds PROVE tasks[c] # <<>> => checks[c] # None /\ checks[c].running
        BY <2>1
  <2>5. ASSUME NEW c \in CheckIds PROVE ~(joined # None /\ joined.check = c)
        BY <2>2
  <2> QED
      BY <2>3, <2>4, <2>5 DEF MarksFollowTasks
<1>3. CompletionsAreDated
      BY DEF CompletionsAreDated, NoTasks
<1>4. IdleEntriesWait /\ FixedDelayKept
      BY DEF IdleEntriesWait, FixedDelayKept, EmptyTable
<1> QED
    BY <1>1, <1>2, <1>3, <1>4 DEF SchedulerInvariant

(* What the invariant says of one entry, for the steps below.              *)
LEMMA EntryType ==
  ASSUME TypeOK, NEW c \in CheckIds, checks[c] # None
  PROVE  /\ checks[c] \in ScheduledCheck
         /\ IntervalDuration(checks[c].check.interval_seconds) \in Nat \ {0}
<1>1. checks[c] \in ScheduledCheck
      BY DEF TypeOK, Table
<1>2. checks[c].check.interval_seconds \in Intervals
      BY <1>1 DEF ScheduledCheck, CheckConfig
<1> QED
    BY <1>1, <1>2, IntervalDurationPositive

-----------------------------------------------------------------------------
(* The steps that touch neither the table, the JoinSet nor what came out   *)
(* of it.                                                                  *)
LEMMA QuietStep ==
  ASSUME SchedulerInvariant, UNCHANGED <<checks, tasks, joined>>,
         now' \in Instant, shutdown' \in BOOLEAN, loop' \in LoopPC,
         nextTick' \in Instant, stats' \in Stats
  PROVE  SchedulerInvariant'
<1>1. TypeOK'
      BY DEF SchedulerInvariant, TypeOK
<1>2. MarksFollowTasks' /\ CompletionsAreDated'
      BY DEF SchedulerInvariant, MarksFollowTasks, CompletionsAreDated
<1>3. IdleEntriesWait' /\ FixedDelayKept'
      BY DEF SchedulerInvariant, IdleEntriesWait, FixedDelayKept
<1> QED
    BY <1>1, <1>2, <1>3 DEF SchedulerInvariant

(* Scheduler::register of a new check keeps the invariant.                 *)
LEMMA RegisterStep ==
  ASSUME SchedulerInvariant, NEW c \in CheckIds, NEW cfg \in CheckConfig,
         Register(c, cfg)
  PROVE  SchedulerInvariant'
<1> USE DEF SchedulerInvariant, Register
<1> DEFINE new == NewScheduledCheck(cfg, now)
<1>1. new \in ScheduledCheck /\ new # None
  <2>1. now \in Instant
        BY DEF TypeOK
  <2>2. new = [check |-> cfg, next_due |-> now, running |-> FALSE,
               last_started |-> None, last_completed |-> None]
        BY DEF NewScheduledCheck
  <2> HIDE DEF new, SchedulerInvariant, Register
  <2>3. new \in ScheduledCheck
        BY <2>1, <2>2 DEF ScheduledCheck
  <2> QED
      BY <2>3, NoneAssumption
<1>2. /\ checks' = [checks EXCEPT ![c] = new]
      /\ ~new.running
      /\ new.last_completed = None
      BY DEF RegisterCheck, NewScheduledCheck
<1>3. checks \in [CheckIds -> ScheduledCheck \cup {None}] /\ checks[c] = None
      BY DEF TypeOK, Table
<1> HIDE DEF new
<1>4. TypeOK'
      BY <1>1, <1>2, <1>3 DEF TypeOK, Table
<1>5. \A d \in CheckIds : checks'[d] = IF d = c THEN new ELSE checks[d]
      BY <1>2, <1>3
<1>6. MarksFollowTasks'
      BY <1>3, <1>5 DEF MarksFollowTasks
<1>7. CompletionsAreDated'
      BY DEF CompletionsAreDated
<1>8. IdleEntriesWait' /\ FixedDelayKept'
      BY <1>2, <1>5 DEF IdleEntriesWait, FixedDelayKept
<1> QED
    BY <1>4, <1>6, <1>7, <1>8

(* The claim and the spawn: a due entry has waited since its last           *)
(* completion, so its new start keeps the fixed delay.                     *)
LEMMA SpawnStep ==
  ASSUME SchedulerInvariant, SpawnDueChecks
  PROVE  SchedulerInvariant'
<1> USE DEF SchedulerInvariant, SpawnDueChecks
<1> DEFINE claimed(c) == [checks[c] EXCEPT !.running = TRUE, !.last_started = now]
<1>1. /\ checks \in [CheckIds -> ScheduledCheck \cup {None}]
      /\ tasks \in [CheckIds -> Seq(Task)]
      /\ now \in Nat
      BY DEF TypeOK, Table, Instant
<1>2. ASSUME NEW c \in CheckIds, IsDue(checks[c], now)
      PROVE  /\ checks[c] \in ScheduledCheck
             /\ ~checks[c].running
             /\ checks[c].next_due <= now
             /\ tasks[c] = <<>>
             /\ ~(joined # None /\ joined.check = c)
      BY <1>1, <1>2 DEF IsDue, MarksFollowTasks
<1>3. ASSUME NEW c \in CheckIds, IsDue(checks[c], now)
      PROVE  /\ claimed(c) \in ScheduledCheck
             /\ claimed(c) # None
             /\ claimed(c).running
             /\ claimed(c).last_started = now
             /\ claimed(c).last_completed = checks[c].last_completed
             /\ claimed(c).check = checks[c].check
      BY <1>1, <1>2, <1>3, NoneAssumption DEF ScheduledCheck, Instant
<1>4. /\ checks' = [c \in CheckIds |-> IF IsDue(checks[c], now) THEN claimed(c) ELSE checks[c]]
      /\ tasks' = [c \in CheckIds |-> IF IsDue(checks[c], now)
                                      THEN Append(tasks[c], NewTask) ELSE tasks[c]]
      BY DEF ClaimDueChecks
<1> HIDE DEF claimed
<1>5. NewTask \in Task /\ NewTask.phase = "execute"
      BY DEF NewTask, Task
<1>6. ASSUME NEW c \in CheckIds, IsDue(checks[c], now)
      PROVE  /\ tasks'[c] \in Seq(Task)
             /\ Len(tasks'[c]) = 1
             /\ DOMAIN tasks'[c] = {1}
             /\ tasks'[c][1] = NewTask
  <2>1. tasks'[c] = Append(<<>>, NewTask)
        BY <1>2, <1>4, <1>6
  <2>2. tasks'[c] = <<NewTask>>
        BY <2>1
  <2> HIDE DEF SchedulerInvariant, SpawnDueChecks
  <2>3. tasks'[c] \in Seq(Task)
        BY <2>2, <1>5
  <2> QED
      BY <2>2, <2>3
<1>7. TypeOK'
  <2>1. checks' \in Table
        BY <1>1, <1>3, <1>4 DEF Table
  <2>2. tasks' \in [CheckIds -> Seq(Task)]
        BY <1>1, <1>4, <1>6
  <2> QED
      BY <2>1, <2>2 DEF TypeOK, LoopPC
<1>8. MarksFollowTasks'
  <2> SUFFICES ASSUME NEW c \in CheckIds
               PROVE  /\ Len(tasks'[c]) <= 1
                      /\ tasks'[c] # <<>> => checks'[c] # None /\ checks'[c].running
                      /\ joined' # None /\ joined'.check = c =>
                           tasks'[c] = <<>> /\ checks'[c] # None /\ checks'[c].running
      BY DEF MarksFollowTasks
  <2>1. CASE IsDue(checks[c], now)
        BY <2>1, <1>2, <1>3, <1>4, <1>6
  <2>2. CASE ~IsDue(checks[c], now)
        BY <2>2, <1>4 DEF MarksFollowTasks
  <2> QED
      BY <2>1, <2>2
<1>9. CompletionsAreDated'
  <2>1. ASSUME NEW c \in CheckIds, NEW i \in DOMAIN tasks'[c], tasks'[c][i].phase = "done"
        PROVE  tasks'[c][i].completed_at \in Instant
        BY <2>1, <1>4, <1>5, <1>6 DEF CompletionsAreDated
  <2> QED
      BY <2>1 DEF CompletionsAreDated
<1>10. IdleEntriesWait'
      BY <1>3, <1>4 DEF IdleEntriesWait
<1>11. FixedDelayKept'
  <2> SUFFICES ASSUME NEW c \in CheckIds, checks'[c] # None, checks'[c].running,
                      checks'[c].last_completed # None
               PROVE  checks'[c].last_started >=
                        checks'[c].last_completed
                        + IntervalDuration(checks'[c].check.interval_seconds)
      BY DEF FixedDelayKept
  <2>1. CASE IsDue(checks[c], now)
    <3>1. checks[c] # None
          BY <2>1 DEF IsDue
    <3>2. checks[c].next_due =
            checks[c].last_completed + IntervalDuration(checks[c].check.interval_seconds)
          BY <2>1, <3>1, <1>2, <1>3, <1>4 DEF IdleEntriesWait
    <3>3. checks[c].next_due \in Nat /\ checks[c].next_due <= now
          BY <2>1, <1>2 DEF ScheduledCheck, Instant
    <3> QED
        BY <2>1, <3>2, <3>3, <1>1, <1>3, <1>4
  <2>2. CASE ~IsDue(checks[c], now)
        BY <2>2, <1>4 DEF FixedDelayKept
  <2> QED
      BY <2>1, <2>2
<1> QED
    BY <1>7, <1>8, <1>9, <1>10, <1>11

(* A step of one task: whatever it becomes, it stays the only task of its  *)
(* check, so the marks stay right.                                         *)
LEMMA TaskChange ==
  ASSUME SchedulerInvariant,
         NEW c \in CheckIds, NEW i \in DOMAIN tasks[c], NEW t \in Task,
         t.phase = "done" => t.completed_at \in Instant,
         tasks' = [tasks EXCEPT ![c][i] = t],
         UNCHANGED <<checks, now, shutdown, loop, nextTick, joined, stats>>
  PROVE  SchedulerInvariant'
<1> USE DEF SchedulerInvariant
<1>1. tasks \in [CheckIds -> Seq(Task)]
      BY DEF TypeOK
<1>2. /\ tasks' \in [CheckIds -> Seq(Task)]
      /\ \A d \in CheckIds : Len(tasks'[d]) = Len(tasks[d])
      /\ \A d \in CheckIds : d # c => tasks'[d] = tasks[d]
      /\ DOMAIN tasks'[c] = DOMAIN tasks[c]
      /\ \A j \in DOMAIN tasks[c] : tasks'[c][j] = IF j = i THEN t ELSE tasks[c][j]
      BY <1>1, ReplaceTask
<1>3. \A d \in CheckIds : tasks'[d] = <<>> <=> tasks[d] = <<>>
  <2>1. tasks[c] # <<>> /\ tasks'[c] # <<>>
    <3>1. DOMAIN <<>> = {}
          OBVIOUS
    <3> QED
        BY <3>1, <1>2
  <2> QED
      BY <2>1, <1>2
<1>4. TypeOK'
      BY <1>2 DEF TypeOK
<1>5. MarksFollowTasks'
      BY <1>2, <1>3 DEF MarksFollowTasks
<1>6. CompletionsAreDated'
  <2>1. ASSUME NEW d \in CheckIds, NEW j \in DOMAIN tasks'[d], tasks'[d][j].phase = "done"
        PROVE  tasks'[d][j].completed_at \in Instant
        BY <2>1, <1>2 DEF CompletionsAreDated
  <2> QED
      BY <2>1 DEF CompletionsAreDated
<1>7. IdleEntriesWait' /\ FixedDelayKept'
      BY DEF IdleEntriesWait, FixedDelayKept
<1> QED
    BY <1>4, <1>5, <1>6, <1>7

(* A task that executes, records or panics keeps the invariant.            *)
LEMMA TaskStepInvariant ==
  ASSUME SchedulerInvariant, TaskStep
  PROVE  SchedulerInvariant'
<1> PICK c \in CheckIds :
      \E i \in DOMAIN tasks[c] :
        ExecuteReturns(c, i) \/ RecordReturns(c, i) \/ Panic(c, i)
    BY DEF TaskStep
<1> PICK i \in DOMAIN tasks[c] :
      ExecuteReturns(c, i) \/ RecordReturns(c, i) \/ Panic(c, i)
    OBVIOUS
<1> DEFINE t == tasks[c][i]
<1>1. t \in Task
  <2>1. tasks[c] \in Seq(Task)
        BY DEF SchedulerInvariant, TypeOK
  <2> QED
      BY <2>1
<1>2. CASE ExecuteReturns(c, i)
  <2> DEFINE new == [t EXCEPT !.phase = "record"]
  <2>1. new \in Task /\ new.phase = "record"
        BY <1>1 DEF Task
  <2>2. tasks' = [tasks EXCEPT ![c][i] = new]
        BY <1>2 DEF ExecuteReturns
  <2>3. UNCHANGED <<checks, now, shutdown, loop, nextTick, joined, stats>>
        BY <1>2 DEF ExecuteReturns
  <2> HIDE DEF new
  <2> QED
      BY <2>1, <2>2, <2>3, TaskChange
<1>3. CASE RecordReturns(c, i)
  <2>1. PICK ok \in BOOLEAN :
          tasks' = [tasks EXCEPT ![c][i] = [phase        |-> "done",
                                            completed_at |-> now,
                                            recorded     |-> ok]]
        BY <1>3 DEF RecordReturns
  <2> DEFINE new == [phase |-> "done", completed_at |-> now, recorded |-> ok]
  <2>2. now \in Instant
        BY DEF SchedulerInvariant, TypeOK
  <2>3. new \in Task /\ new.completed_at \in Instant
        BY <2>2 DEF Task
  <2>4. UNCHANGED <<checks, now, shutdown, loop, nextTick, joined, stats>>
        BY <1>3 DEF RecordReturns
  <2>5. tasks' = [tasks EXCEPT ![c][i] = new]
        BY <2>1
  <2> HIDE DEF new
  <2> QED
      BY <2>3, <2>4, <2>5, TaskChange
<1>4. CASE Panic(c, i)
  <2> DEFINE new == [t EXCEPT !.phase = "failed"]
  <2>1. new \in Task /\ new.phase = "failed"
        BY <1>1 DEF Task
  <2>2. tasks' = [tasks EXCEPT ![c][i] = new]
        BY <1>4 DEF Panic
  <2>3. UNCHANGED <<checks, now, shutdown, loop, nextTick, joined, stats>>
        BY <1>4 DEF Panic
  <2> HIDE DEF new
  <2> QED
      BY <2>1, <2>2, <2>3, TaskChange
<1> QED
    BY <1>2, <1>3, <1>4

(* join_next moves the only task of a check out of the JoinSet.            *)
LEMMA JoinStep ==
  ASSUME SchedulerInvariant, NEW c \in CheckIds, JoinNext(c)
  PROVE  SchedulerInvariant'
<1> USE DEF SchedulerInvariant
<1>1. PICK i \in DOMAIN tasks[c] :
        /\ Finished(tasks[c][i])
        /\ joined' = [check |-> c, task |-> tasks[c][i]]
        /\ tasks' = [tasks EXCEPT ![c] = RemoveAt(@, i)]
      BY DEF JoinNext
<1>2. /\ joined = None
      /\ UNCHANGED <<checks, now, shutdown, loop, nextTick, stats>>
      BY DEF JoinNext
<1>3. tasks \in [CheckIds -> Seq(Task)] /\ tasks[c] \in Seq(Task) /\ Len(tasks[c]) <= 1
      BY DEF TypeOK, MarksFollowTasks
<1>4. RemoveAt(tasks[c], i) = <<>> /\ tasks[c] # <<>>
      BY <1>3, RemoveOnlyTask
<1>5. tasks' = [tasks EXCEPT ![c] = <<>>]
      BY <1>1, <1>4
<1>6. \A d \in CheckIds : tasks'[d] = IF d = c THEN <<>> ELSE tasks[d]
      BY <1>3, <1>5
<1>7. tasks[c][i] \in Task
      BY <1>3
<1>8. joined'.check = c /\ joined'.task = tasks[c][i]
      BY <1>1
<1>9. TypeOK'
  <2>1. joined' \in Joined
        BY <1>1, <1>7 DEF Joined
  <2>2. tasks' \in [CheckIds -> Seq(Task)]
        BY <1>3, <1>5, EmptySeq
  <2> QED
      BY <1>2, <2>1, <2>2 DEF TypeOK
<1>10. MarksFollowTasks'
  <2>1. /\ Len(<<>>) = 0
        /\ checks[c] # None /\ checks[c].running
        BY <1>4 DEF MarksFollowTasks
  <2> QED
      BY <2>1, <1>2, <1>6, <1>8 DEF MarksFollowTasks
<1>11. CompletionsAreDated'
  <2>1. ASSUME NEW d \in CheckIds, NEW j \in DOMAIN tasks'[d], tasks'[d][j].phase = "done"
        PROVE  tasks'[d][j].completed_at \in Instant
        BY <2>1, <1>6 DEF CompletionsAreDated
  <2>2. joined'.task.phase = "done" => joined'.task.completed_at \in Instant
        BY <1>8 DEF CompletionsAreDated
  <2> QED
      BY <2>1, <2>2 DEF CompletionsAreDated
<1>12. IdleEntriesWait' /\ FixedDelayKept'
      BY <1>2 DEF IdleEntriesWait, FixedDelayKept
<1> QED
    BY <1>9, <1>10, <1>11, <1>12

(* The table is told of an end: the instant it is told, not the present    *)
(* one, is where the next interval starts.                                 *)
LEMMA CompletionStep ==
  ASSUME SchedulerInvariant, HandleCompletion
  PROVE  SchedulerInvariant'
<1> USE DEF SchedulerInvariant, HandleCompletion
<1> DEFINE c    == joined.check
           at   == joined.task.completed_at
           done == [checks[c] EXCEPT
                      !.running = FALSE,
                      !.last_completed = at,
                      !.next_due = at + IntervalDuration(checks[c].check.interval_seconds)]
<1>1. /\ c \in CheckIds
      /\ checks[c] # None
      /\ tasks[c] = <<>>
      /\ at \in Nat
  <2>1. joined \in Joined
        BY DEF TypeOK
  <2>2. c \in CheckIds
        BY <2>1 DEF Joined
  <2> QED
      BY <2>2 DEF MarksFollowTasks, CompletionsAreDated, Instant
<1>2. /\ checks[c] \in ScheduledCheck
      /\ IntervalDuration(checks[c].check.interval_seconds) \in Nat
      BY <1>1, EntryType
<1>3. checks \in [CheckIds -> ScheduledCheck \cup {None}]
      BY DEF TypeOK, Table
<1>4. /\ done \in ScheduledCheck
      /\ ~done.running
      /\ done.last_completed = at
      /\ done.check = checks[c].check
      /\ done.next_due = at + IntervalDuration(done.check.interval_seconds)
  <2> DEFINE entry == checks[c]
             due   == at + IntervalDuration(entry.check.interval_seconds)
  <2>1. entry \in ScheduledCheck /\ due \in Nat
        BY <1>1, <1>2
  <2>2. done = [entry EXCEPT !.running = FALSE, !.last_completed = at, !.next_due = due]
        OBVIOUS
  <2> HIDE DEF entry, due, done, SchedulerInvariant, HandleCompletion
  <2>3. /\ done \in ScheduledCheck
        /\ ~done.running
        /\ done.last_completed = at
        /\ done.check = entry.check
        /\ done.next_due = due
        BY <2>1, <2>2, <1>1 DEF ScheduledCheck, Instant
  <2> QED
      BY <2>3 DEF entry, due
<1>5. checks' = [checks EXCEPT ![c] = done]
      BY <1>1 DEF CompleteCheck
<1>6. joined' = None /\ UNCHANGED <<now, shutdown, loop, nextTick, tasks>>
      OBVIOUS
<1>7. stats' \in Stats
  <2>1. stats \in Stats
        BY DEF TypeOK
  <2>2. \A n \in 0..U64-1 : Increment(n) \in 0..U64-1
        BY SchedulerAssumption DEF Increment
  <2>3. stats' = [stats EXCEPT
                   !.completed_executions = Increment(@),
                   !.sink_errors = IF joined.task.recorded THEN @ ELSE Increment(@)]
        OBVIOUS
  <2> HIDE DEF HandleCompletion, SchedulerInvariant
  <2> QED
      BY <2>1, <2>2, <2>3 DEF Stats
<1> HIDE DEF c, at, done, HandleCompletion
<1>8. \A d \in CheckIds : checks'[d] = IF d = c THEN done ELSE checks[d]
      BY <1>1, <1>3, <1>5
<1>9. TypeOK'
  <2>1. checks' \in Table
        BY <1>1, <1>3, <1>4, <1>5 DEF Table
  <2> QED
      BY <2>1, <1>6, <1>7 DEF TypeOK
<1>10. MarksFollowTasks'
      BY <1>1, <1>6, <1>8 DEF MarksFollowTasks
<1>11. CompletionsAreDated'
      BY <1>6 DEF CompletionsAreDated
<1>12. IdleEntriesWait' /\ FixedDelayKept'
      BY <1>4, <1>8 DEF IdleEntriesWait, FixedDelayKept
<1> QED
    BY <1>9, <1>10, <1>11, <1>12

(* A JoinError changes no entry of the table.                              *)
LEMMA FailureStep ==
  ASSUME SchedulerInvariant, HandleFailure
  PROVE  SchedulerInvariant'
<1> USE DEF SchedulerInvariant, HandleFailure
<1>1. stats' \in Stats
  <2>1. stats \in Stats
        BY DEF TypeOK
  <2>2. \A n \in 0..U64-1 : Increment(n) \in 0..U64-1
        BY SchedulerAssumption DEF Increment
  <2> QED
      BY <2>1, <2>2 DEF Stats
<1>2. TypeOK'
      BY <1>1 DEF TypeOK
<1>3. MarksFollowTasks' /\ CompletionsAreDated'
      BY DEF MarksFollowTasks, CompletionsAreDated
<1>4. IdleEntriesWait' /\ FixedDelayKept'
      BY DEF IdleEntriesWait, FixedDelayKept
<1> QED
    BY <1>2, <1>3, <1>4

(* Every step keeps the inductive invariant, one case per action.          *)
LEMMA NextInvariant ==
  SchedulerInvariant /\ [Next]_vars => SchedulerInvariant'
<1> SUFFICES ASSUME SchedulerInvariant, [Next]_vars
             PROVE  SchedulerInvariant'
    OBVIOUS
<1>0. TypeOK
      BY DEF SchedulerInvariant
<1>1. ASSUME NEW c \in CheckIds, NEW cfg \in CheckConfig, Register(c, cfg)
      PROVE  SchedulerInvariant'
      BY <1>1, RegisterStep
<1>2. CASE Run
  <2>1. ZeroStats \in Stats
        BY SchedulerAssumption DEF ZeroStats, Stats
  <2> QED
      BY <1>0, <1>2, <2>1, QuietStep DEF Run, TypeOK, LoopPC
<1>3. CASE ShutdownResolves
      BY <1>0, <1>3, QuietStep DEF ShutdownResolves, TypeOK, LoopPC
<1>4. CASE Tick
      BY <1>0, <1>4, SchedulerAssumption, QuietStep DEF Tick, TypeOK, LoopPC, Instant
<1>5. CASE SpawnDueChecks
      BY <1>5, SpawnStep
<1>6. ASSUME NEW c \in CheckIds, JoinNext(c)
      PROVE  SchedulerInvariant'
      BY <1>6, JoinStep
<1>7. CASE HandleCompletion
      BY <1>7, CompletionStep
<1>8. CASE HandleFailure
      BY <1>8, FailureStep
<1>9. CASE Return
      BY <1>0, <1>9, QuietStep DEF Return, TypeOK, LoopPC
<1>10. CASE TaskStep
      BY <1>10, TaskStepInvariant
<1>11. CASE ResolveShutdown
      BY <1>0, <1>11, QuietStep DEF ResolveShutdown, TypeOK
<1>12. CASE TimePasses
      BY <1>0, <1>12, QuietStep DEF TimePasses, TypeOK, Instant
<1>13. CASE UNCHANGED vars
      BY <1>0, <1>13, QuietStep DEF vars, TypeOK
<1> QED
    BY <1>1, <1>2, <1>3, <1>4, <1>5, <1>6, <1>7, <1>8, <1>9, <1>10, <1>11, <1>12, <1>13
    DEF Next, LoopStep, Terminated

(* The inductive invariant holds in every reachable state.                 *)
THEOREM SchedulerIsInvariant == Spec => []SchedulerInvariant
<1> QED
    BY InitInvariant, NextInvariant, PTL DEF Spec

(* The state keeps its types.                                              *)
THEOREM TypeCorrect == Spec => []TypeOK
<1>1. SchedulerInvariant => TypeOK
      BY DEF SchedulerInvariant
<1> QED
    BY <1>1, SchedulerIsInvariant, PTL

(* docs/architecture.md:48: no two executions of one check overlap, for    *)
(* any number of checks and any order of ends, joins and completions.      *)
THEOREM ExecutionsNeverOverlap == Spec => []NoOverlap
<1>1. SchedulerInvariant => NoOverlap
  <2> SUFFICES ASSUME SchedulerInvariant, NEW c \in CheckIds,
                      NEW i \in DOMAIN tasks[c], NEW j \in DOMAIN tasks[c]
               PROVE  i = j
      BY DEF NoOverlap
  <2>1. tasks[c] \in Seq(Task) /\ Len(tasks[c]) <= 1
        BY DEF SchedulerInvariant, TypeOK, MarksFollowTasks
  <2>2. DOMAIN tasks[c] = 1..Len(tasks[c]) /\ Len(tasks[c]) \in Nat
        BY <2>1, LenProperties
  <2> QED
      BY <2>1, <2>2
<1> QED
    BY <1>1, SchedulerIsInvariant, PTL

(* An execution starts no earlier than one interval after the end of the   *)
(* previous execution of the same check.                                   *)
THEOREM DelayIsKept == Spec => []FixedDelayKept
<1>1. SchedulerInvariant => FixedDelayKept
      BY DEF SchedulerInvariant
<1> QED
    BY <1>1, SchedulerIsInvariant, PTL
=============================================================================
