---------------------------- MODULE StatsProofs ----------------------------
(***************************************************************************)
(* What SchedulerRunStats says of a run.  A running mark is lost to a      *)
(* JoinError or not at all: the scheduler has as many stuck checks as      *)
(* task_failures counts.  And the counters account for every execution     *)
(* started and every row the sink took, with registration open and a       *)
(* check's tasks as many as that makes them.                               *)
(***************************************************************************)
EXTENDS SchedulerHistory, SchedulerProofs, FiniteSetTheorems, FunctionTheorems

StuckChecks == {c \in CheckIds : Stuck(c)}

(* Run clears the counters, so nothing may be marked before it.            *)
NothingMarkedBeforeRun ==
  loop = "created" =>
    \A c \in CheckIds : checks[c] # None => ~checks[c].running

RetirementInvariant ==
  /\ SchedulerInvariant
  /\ NothingMarkedBeforeRun
  /\ OnlyFailuresRetireChecks

LEMMA InitRetirement == Init => NothingMarkedBeforeRun /\ OnlyFailuresRetireChecks
<1> SUFFICES ASSUME Init PROVE NothingMarkedBeforeRun /\ OnlyFailuresRetireChecks
  OBVIOUS
<1>1. \A c \in CheckIds : checks[c] = None
  BY DEF Init, EmptyTable
<1>2. {c \in CheckIds : Stuck(c)} = {}
  BY <1>1 DEF Stuck
<1>3. stats.task_failures = 0
  BY DEF Init, ZeroStats
<1>4. QED
  BY <1>1, <1>2, <1>3, FS_EmptySet DEF NothingMarkedBeforeRun, OnlyFailuresRetireChecks

(* No step but a failure changes which checks are stuck.                   *)
LEMMA SameStuck ==
  ASSUME OnlyFailuresRetireChecks, stats'.task_failures = stats.task_failures,
         \A c \in CheckIds : Stuck(c)' <=> Stuck(c)
  PROVE  OnlyFailuresRetireChecks'
<1>1. {c \in CheckIds : Stuck(c)}' = {c \in CheckIds : Stuck(c)}
  OBVIOUS
<1>2. QED
  BY <1>1 DEF OnlyFailuresRetireChecks

LEMMA StuckUnchanged ==
  ASSUME NEW c \in CheckIds, checks'[c] = checks[c], tasks'[c] = tasks[c], joined' = joined
  PROVE  Stuck(c)' <=> Stuck(c)
  BY DEF Stuck

LEMMA QuietRetires ==
  ASSUME OnlyFailuresRetireChecks, stats'.task_failures = stats.task_failures,
         UNCHANGED <<checks, tasks, joined>>
  PROVE  OnlyFailuresRetireChecks'
  BY StuckUnchanged, SameStuck

LEMMA RegisterRetires ==
  ASSUME RetirementInvariant, NEW c \in CheckIds, NEW cfg \in CheckConfig, Register(c, cfg)
  PROVE  NothingMarkedBeforeRun' /\ OnlyFailuresRetireChecks'
<1>1. checks \in [CheckIds -> ScheduledCheck \cup {None}] /\ checks[c] = None
  BY DEF RetirementInvariant, SchedulerInvariant, TypeOK, Table, Register
<1>2. /\ checks' = [checks EXCEPT ![c] = NewScheduledCheck(cfg, now)]
      /\ UNCHANGED <<tasks, joined, loop, stats>>
  BY DEF Register, RegisterCheck
<1>3. ~checks'[c].running /\ \A d \in CheckIds : d # c => checks'[d] = checks[d]
  BY <1>1, <1>2 DEF NewScheduledCheck
<1>4. ~Stuck(c) /\ ~Stuck(c)'
  BY <1>1, <1>3 DEF Stuck
<1>5. \A d \in CheckIds : Stuck(d)' <=> Stuck(d)
  BY <1>2, <1>3, <1>4, StuckUnchanged
<1>6. NothingMarkedBeforeRun'
  BY <1>2, <1>3 DEF RetirementInvariant, NothingMarkedBeforeRun
<1>7. QED
  BY <1>2, <1>5, <1>6, SameStuck DEF RetirementInvariant

LEMMA RunRetires ==
  ASSUME RetirementInvariant, Run PROVE OnlyFailuresRetireChecks'
<1>1. \A c \in CheckIds : ~Stuck(c) /\ ~Stuck(c)'
  BY DEF RetirementInvariant, NothingMarkedBeforeRun, Run, Stuck
<1>2. {c \in CheckIds : Stuck(c)}' = {}
  BY <1>1
<1>3. stats'.task_failures = 0
  BY DEF Run, ZeroStats
<1>4. QED
  BY <1>2, <1>3, FS_EmptySet DEF OnlyFailuresRetireChecks

(* What is claimed was not marked, and has a task at once.                 *)
LEMMA SpawnRetires ==
  ASSUME RetirementInvariant, SpawnDueChecks PROVE OnlyFailuresRetireChecks'
<1>1. tasks \in [CheckIds -> Seq(Task)] /\ NewTask \in Task /\ UNCHANGED <<joined, stats>>
  BY DEF RetirementInvariant, SchedulerInvariant, TypeOK, SpawnDueChecks, NewTask, Task
<1>2. ASSUME NEW c \in CheckIds, IsDue(checks[c], now) PROVE ~Stuck(c) /\ ~Stuck(c)'
  <2>1. tasks'[c] = Append(tasks[c], NewTask)
    BY <1>2 DEF SpawnDueChecks
  <2>2. tasks'[c] # <<>>
    BY <1>1, <2>1, AppendProperties, EmptySeq
  <2>3. QED
    BY <1>2, <2>2 DEF Stuck, IsDue
<1>3. ASSUME NEW c \in CheckIds, ~IsDue(checks[c], now) PROVE Stuck(c)' <=> Stuck(c)
  <2>1. checks'[c] = checks[c] /\ tasks'[c] = tasks[c]
    BY <1>3 DEF SpawnDueChecks, ClaimDueChecks
  <2>2. QED
    BY <1>1, <2>1, StuckUnchanged
<1>4. QED
  BY <1>1, <1>2, <1>3, SameStuck DEF RetirementInvariant

(* A task that goes from the JoinSet to the loop is not out of sight.      *)
LEMMA JoinRetires ==
  ASSUME RetirementInvariant, NEW c \in CheckIds, JoinNext(c)
  PROVE  OnlyFailuresRetireChecks'
<1>1. PICK i \in DOMAIN tasks[c] :
        /\ Finished(tasks[c][i])
        /\ joined' = [check |-> c, task |-> tasks[c][i]]
        /\ tasks' = [tasks EXCEPT ![c] = RemoveAt(@, i)]
  BY DEF JoinNext
<1>2. /\ tasks \in [CheckIds -> Seq(Task)]
      /\ joined = None
      /\ UNCHANGED <<checks, stats>>
  BY DEF RetirementInvariant, SchedulerInvariant, TypeOK, JoinNext
<1>3. joined' # None /\ joined'.check = c
  <2>1. tasks[c][i] \in Task /\ joined' = [check |-> c, task |-> tasks[c][i]]
    BY <1>1, <1>2
  <2>2. joined' \in Joined
    BY <1>1, <2>1 DEF Joined
  <2>3. QED
    BY <2>1, <2>2, NoTaskAssumption
<1>4. tasks[c] # <<>>
  BY <1>2, EmptySeq, LenProperties
<1>5. ~Stuck(c) /\ ~Stuck(c)'
  BY <1>3, <1>4 DEF Stuck
<1>6. ASSUME NEW d \in CheckIds, d # c PROVE Stuck(d)' <=> Stuck(d)
  <2>1. tasks'[d] = tasks[d]
    BY <1>1, <1>2, <1>6
  <2>2. QED
    BY <1>2, <1>3, <1>6, <2>1 DEF Stuck
<1>7. QED
  BY <1>2, <1>5, <1>6, SameStuck DEF RetirementInvariant

(* The mark of the check that completed is cleared.                        *)
LEMMA CompletionRetires ==
  ASSUME RetirementInvariant, HandleCompletion PROVE OnlyFailuresRetireChecks'
<1>1. joined \in Joined /\ checks \in Table
  BY DEF RetirementInvariant, SchedulerInvariant, TypeOK, HandleCompletion
<1> PICK c \in CheckIds : c = joined.check
  BY <1>1 DEF Joined
<1>2. checks[c] # None /\ joined # None
  BY DEF RetirementInvariant, SchedulerInvariant, MarksFollowTasks, HandleCompletion
<1>3. ~Stuck(c)
  BY <1>2 DEF Stuck
<1>4. ~checks'[c].running /\ \A d \in CheckIds : d # c => checks'[d] = checks[d]
  <2>1. checks' = [checks EXCEPT ![c] = [checks[c] EXCEPT
                     !.running = FALSE,
                     !.last_completed = joined.task.completed_at,
                     !.next_due = joined.task.completed_at
                                  + IntervalDuration(checks[c].check.interval_seconds)]]
    BY <1>2 DEF HandleCompletion, CompleteCheck
  <2>2. checks[c] \in ScheduledCheck /\ c \in DOMAIN checks
    BY <1>1, <1>2 DEF Table
  <2>3. checks'[c] = [checks[c] EXCEPT
                     !.running = FALSE,
                     !.last_completed = joined.task.completed_at,
                     !.next_due = joined.task.completed_at
                                  + IntervalDuration(checks[c].check.interval_seconds)]
    BY <2>1, <2>2
  <2>4. \A d \in CheckIds : d # c => checks'[d] = checks[d]
    BY <1>1, <2>1 DEF Table
  <2>5. ~checks'[c].running
    BY <2>2, <2>3 DEF ScheduledCheck
  <2>6. QED
    BY <2>4, <2>5
<1>5. ~Stuck(c)'
  BY <1>4 DEF Stuck
<1>6. ASSUME NEW d \in CheckIds, d # c PROVE Stuck(d)' <=> Stuck(d)
  BY <1>4, <1>6 DEF HandleCompletion, Stuck
<1>7. stats'.task_failures = stats.task_failures
  BY DEF RetirementInvariant, SchedulerInvariant, TypeOK, Stats, HandleCompletion
<1>8. QED
  BY <1>3, <1>5, <1>6, <1>7, SameStuck DEF RetirementInvariant

(* One JoinError, one check: the counter cannot wrap on it.                *)
LEMMA FailureRetires ==
  ASSUME IsFiniteSet(CheckIds), Cardinality(CheckIds) < U64,
         RetirementInvariant, HandleFailure
  PROVE  OnlyFailuresRetireChecks'
<1> DEFINE before == {c \in CheckIds : Stuck(c)}
           after  == {c \in CheckIds : Stuck(c)'}
<1>1. joined \in Joined /\ stats \in Stats
  BY DEF RetirementInvariant, SchedulerInvariant, TypeOK, HandleFailure
<1> PICK c \in CheckIds : c = joined.check
  BY <1>1 DEF Joined
<1>2. tasks[c] = <<>> /\ checks[c] # None /\ checks[c].running /\ joined # None
  BY DEF RetirementInvariant, SchedulerInvariant, MarksFollowTasks, HandleFailure
<1>3. ~Stuck(c) /\ Stuck(c)'
  BY <1>2 DEF Stuck, HandleFailure
<1>4. \A d \in CheckIds : d # c => (Stuck(d)' <=> Stuck(d))
  BY DEF Stuck, HandleFailure
<1>5. after = before \cup {c} /\ c \notin before
  BY <1>3, <1>4
<1>6. after \in SUBSET CheckIds /\ before \in SUBSET CheckIds
  OBVIOUS
<1>7. {d \in CheckIds : Stuck(d)}' = after
  OBVIOUS
<1>8. stats.task_failures = Cardinality(before)
  BY DEF RetirementInvariant, OnlyFailuresRetireChecks
<1> HIDE DEF before, after
<1>9. IsFiniteSet(before) /\ Cardinality(after) = Cardinality(before) + 1
  BY <1>5, <1>6, FS_Subset, FS_AddElement
<1>10. Cardinality(after) <= Cardinality(CheckIds)
  BY <1>6, FS_Subset
<1>11. Cardinality(before) \in Nat /\ Cardinality(CheckIds) \in Nat
  BY <1>9, FS_CardinalityType
<1>12. Increment(stats.task_failures) = Cardinality(after)
  BY <1>8, <1>9, <1>10, <1>11, SchedulerAssumption DEF Increment
<1>13. stats'.task_failures = Increment(stats.task_failures)
  BY <1>1 DEF HandleFailure, Stats
<1>14. QED
  BY <1>7, <1>12, <1>13 DEF OnlyFailuresRetireChecks

(* A task that goes on stays where it is.                                  *)
LEMMA TaskRetires ==
  ASSUME RetirementInvariant, TaskStep PROVE OnlyFailuresRetireChecks'
<1> PICK c \in CheckIds :
      \E i \in DOMAIN tasks[c] :
        ExecuteReturns(c, i) \/ RecordReturns(c, i) \/ Panic(c, i)
  BY DEF TaskStep
<1> PICK i \in DOMAIN tasks[c] :
      ExecuteReturns(c, i) \/ RecordReturns(c, i) \/ Panic(c, i)
  OBVIOUS
<1>1. tasks \in [CheckIds -> Seq(Task)] /\ tasks' \in [CheckIds -> Seq(Task)]
  <2>1. SchedulerInvariant'
    BY TaskStepInvariant DEF RetirementInvariant
  <2>2. QED
    BY <2>1 DEF RetirementInvariant, SchedulerInvariant, TypeOK
<1>2. DOMAIN tasks'[c] = DOMAIN tasks[c] /\ \A d \in CheckIds : d # c => tasks'[d] = tasks[d]
  BY <1>1 DEF ExecuteReturns, RecordReturns, Panic
<1>3. tasks[c] # <<>> /\ tasks'[c] # <<>>
  BY <1>1, <1>2, EmptySeq, LenProperties
<1>4. ~Stuck(c) /\ ~Stuck(c)'
  BY <1>3 DEF Stuck
<1>5. UNCHANGED <<checks, joined, stats>>
  BY DEF ExecuteReturns, RecordReturns, Panic
<1>6. QED
  BY <1>2, <1>4, <1>5, StuckUnchanged, SameStuck DEF RetirementInvariant

LEMMA NextRetirement ==
  ASSUME IsFiniteSet(CheckIds), Cardinality(CheckIds) < U64
  PROVE  RetirementInvariant /\ [Next]_vars => RetirementInvariant'
<1> SUFFICES ASSUME RetirementInvariant, [Next]_vars PROVE RetirementInvariant'
  OBVIOUS
<1>1. SchedulerInvariant'
  BY NextInvariant DEF RetirementInvariant
<1>2. NothingMarkedBeforeRun'
  <2>1. ASSUME NEW c \in CheckIds, NEW cfg \in CheckConfig, Register(c, cfg)
        PROVE  NothingMarkedBeforeRun'
    BY <2>1, RegisterRetires
  <2>2. CASE LoopStep
    <3>1. loop' # "created"
      <4>1. CASE HandleCompletion \/ HandleFailure
        <5>1. joined # None /\ joined \in Joined /\ loop' = loop
          BY <4>1 DEF HandleCompletion, HandleFailure, RetirementInvariant,
                      SchedulerInvariant, TypeOK
        <5>2. joined.check \in CheckIds
          BY <5>1 DEF Joined
        <5>3. checks[joined.check] # None /\ checks[joined.check].running
          BY <5>1, <5>2 DEF RetirementInvariant, SchedulerInvariant, MarksFollowTasks
        <5>4. QED
          BY <5>1, <5>2, <5>3 DEF RetirementInvariant, NothingMarkedBeforeRun
      <4>2. CASE ~(HandleCompletion \/ HandleFailure)
        BY <2>2, <4>2 DEF LoopStep, Run, ShutdownResolves, Tick, SpawnDueChecks, JoinNext, Return
      <4>3. QED
        BY <4>1, <4>2
    <3>2. QED
      BY <3>1 DEF NothingMarkedBeforeRun
  <2>3. CASE UNCHANGED <<checks, loop>>
    BY <2>3 DEF RetirementInvariant, NothingMarkedBeforeRun
  <2>4. QED
    BY <2>1, <2>2, <2>3
       DEF Next, TaskStep, ExecuteReturns, RecordReturns, Panic, ResolveShutdown, TimePasses,
           Terminated, vars
<1>3. OnlyFailuresRetireChecks'
  <2>1. ASSUME NEW c \in CheckIds, NEW cfg \in CheckConfig, Register(c, cfg)
        PROVE  OnlyFailuresRetireChecks'
    BY <2>1, RegisterRetires
  <2>2. ASSUME NEW c \in CheckIds, JoinNext(c) PROVE OnlyFailuresRetireChecks'
    BY <2>2, JoinRetires
  <2>3. CASE Run \/ SpawnDueChecks \/ HandleCompletion \/ HandleFailure
    BY <2>3, RunRetires, SpawnRetires, CompletionRetires, FailureRetires
  <2>4. CASE ShutdownResolves \/ Tick \/ Return \/ ResolveShutdown \/ TimePasses \/ UNCHANGED vars
    BY <2>4, QuietRetires
       DEF RetirementInvariant, ShutdownResolves, Tick, Return, ResolveShutdown, TimePasses, vars
  <2>5. CASE TaskStep
    BY <2>5, TaskRetires
  <2>6. QED
    BY <2>1, <2>2, <2>3, <2>4, <2>5 DEF Next, LoopStep, Terminated
<1>4. QED
  BY <1>1, <1>2, <1>3 DEF RetirementInvariant

(* A running mark is set in one critical section and cleared in another:   *)
(* no interleaving of registration, loop, tasks and shutdown loses one or  *)
(* leaves one behind, but every JoinError retires exactly one check.       *)
THEOREM RetiredOnlyByFailures ==
  ASSUME IsFiniteSet(CheckIds), Cardinality(CheckIds) < U64
  PROVE  Spec => []OnlyFailuresRetireChecks
<1>1. Init => RetirementInvariant
  BY InitInvariant, InitRetirement DEF RetirementInvariant
<1>2. RetirementInvariant /\ [Next]_vars => RetirementInvariant'
  BY NextRetirement
<1>3. RetirementInvariant => OnlyFailuresRetireChecks
  BY DEF RetirementInvariant
<1>4. QED
  BY <1>1, <1>2, <1>3, PTL DEF Spec
-----------------------------------------------------------------------------
(* The accounts.  Registration is open here, a check may have several      *)
(* tasks, and the tasks of the JoinSet are counted by their positions.     *)

LEMMA PositionsOf ==
  ASSUME NEW joinSet, NEW S
  PROVE  \A c \in CheckIds : \A i :
           <<c, i>> \in Positions(joinSet, S) <=>
             i \in DOMAIN joinSet[c] /\ joinSet[c][i] \in S
  BY DEF Positions

LEMMA PositionsArePairs ==
  ASSUME NEW joinSet, NEW S, NEW p \in Positions(joinSet, S)
  PROVE  \E c \in CheckIds : \E i \in DOMAIN joinSet[c] : p = <<c, i>>
  BY DEF Positions

LEMMA SamePair ==
  \A a, b, c, d : <<a, b>> = <<c, d>> => a = c /\ b = d
  OBVIOUS

LEMMA SameNumber ==
  ASSUME NEW A, NEW B, IsFiniteSet(A), NEW f \in [A -> B],
         \A a, b \in A : f[a] = f[b] => a = b,
         \A b \in B : \E a \in A : f[a] = b
  PROVE  IsFiniteSet(B) /\ Cardinality(B) = Cardinality(A)
<1>1. f \in Bijection(A, B)
  BY Fun_IsBij
<1>2. ExistsBijection(A, B)
  BY <1>1 DEF ExistsBijection
<1>3. QED
  BY <1>2, FS_Bijection

LEMMA RemovedAt ==
  ASSUME NEW T, NEW s \in Seq(T), NEW i \in 1..Len(s)
  PROVE  /\ RemoveAt(s, i) \in Seq(T)
         /\ Len(RemoveAt(s, i)) = Len(s) - 1
         /\ \A j \in 1..Len(s) - 1 :
              RemoveAt(s, i)[j] = IF j < i THEN s[j] ELSE s[j + 1]
<1> DEFINE left == SubSeq(s, 1, i - 1)
           right == SubSeq(s, i + 1, Len(s))
<1>1. Len(s) \in Nat /\ i \in Int
  BY LenProperties
<1>2. /\ left \in Seq(T) /\ Len(left) = i - 1
      /\ \A j \in 1..i - 1 : left[j] = s[j]
  <2>1. \A j \in 1..i - 1 : s[j] \in T
    BY <1>1, ElementOfSeq
  <2>2. /\ left \in Seq(T)
        /\ Len(left) = IF 1 <= i - 1 THEN (i - 1) - 1 + 1 ELSE 0
        /\ \A j \in 1..(i - 1) - 1 + 1 : left[j] = s[1 + j - 1]
    BY <1>1, <2>1, SubSeqProperties
  <2> HIDE DEF left
  <2>3. QED
    BY <1>1, <2>2
<1>3. /\ right \in Seq(T) /\ Len(right) = Len(s) - i
      /\ \A j \in 1..Len(s) - i : right[j] = s[i + j]
  <2>1. \A j \in i + 1..Len(s) : s[j] \in T
    BY <1>1, ElementOfSeq
  <2>2. /\ right \in Seq(T)
        /\ Len(right) = IF i + 1 <= Len(s) THEN Len(s) - (i + 1) + 1 ELSE 0
        /\ \A j \in 1..Len(s) - (i + 1) + 1 : right[j] = s[(i + 1) + j - 1]
    BY <1>1, <2>1, SubSeqProperties
  <2> HIDE DEF right
  <2>3. QED
    BY <1>1, <2>2
<1>4. RemoveAt(s, i) = left \o right
  BY DEF RemoveAt
<1> HIDE DEF left, right
<1> DEFINE new == left \o right
<1>5. /\ new \in Seq(T) /\ Len(new) = Len(left) + Len(right)
      /\ \A j \in 1..Len(left) + Len(right) :
           new[j] = IF j <= Len(left) THEN left[j] ELSE right[j - Len(left)]
  BY <1>2, <1>3, ConcatProperties
<1> HIDE DEF new
<1>6. ASSUME NEW j \in 1..Len(s) - 1
      PROVE  new[j] = IF j < i THEN s[j] ELSE s[j + 1]
  <2>0. j \in Int /\ j \in 1..Len(left) + Len(right) /\ Len(left) = i - 1
    BY <1>1, <1>2, <1>3
  <2>4. new[j] = IF j <= Len(left) THEN left[j] ELSE right[j - Len(left)]
    BY <1>5, <2>0
  <2>1. CASE j < i
    <3>1. j \in 1..i - 1 /\ j <= Len(left)
      BY <1>1, <2>0, <2>1
    <3>2. QED
      BY <1>2, <2>1, <2>4, <3>1
  <2>2. CASE ~(j < i)
    <3>0. ~(j <= i - 1)
      BY <1>1, <2>0, <2>2
    <3>1. j - (i - 1) \in 1..Len(s) - i /\ i + (j - (i - 1)) = j + 1
      BY <1>1, <2>2
    <3>2. new[j] = right[j - (i - 1)]
      BY <2>0, <2>4, <3>0
    <3>3. QED
      BY <1>3, <2>2, <3>1, <3>2
  <2>3. QED
    BY <2>1, <2>2
<1>7. QED
  BY <1>1, <1>2, <1>3, <1>4, <1>5, <1>6 DEF new

(* Taking a task out of the JoinSet shifts those behind it: there is one   *)
(* less of its kind, and as many of every other.                           *)
LEMMA TakingOut ==
  ASSUME tasks \in [CheckIds -> Seq(Task)], NEW c \in CheckIds, NEW i \in DOMAIN tasks[c],
         tasks' = [tasks EXCEPT ![c] = RemoveAt(tasks[c], i)],
         NEW S, IsFiniteSet(Positions(tasks, S))
  PROVE  /\ tasks' \in [CheckIds -> Seq(Task)]
         /\ IsFiniteSet(Positions(tasks', S))
         /\ Cardinality(Positions(tasks, S))
              = Cardinality(Positions(tasks', S)) + IF tasks[c][i] \in S THEN 1 ELSE 0
<1> DEFINE n == Len(tasks[c])
           A == Positions(tasks, S) \ {<<c, i>>}
           B == Positions(tasks', S)
           shift == [p \in A |-> IF p[1] = c /\ p[2] > i THEN <<c, p[2] - 1>> ELSE p]
<1>1. n \in Nat /\ DOMAIN tasks[c] = 1..n /\ i \in 1..n
  BY LenProperties
<1>2. /\ tasks' \in [CheckIds -> Seq(Task)]
      /\ \A d \in CheckIds : d # c => tasks'[d] = tasks[d]
      /\ DOMAIN tasks'[c] = 1..n - 1
      /\ \A j \in 1..n - 1 : tasks'[c][j] = IF j < i THEN tasks[c][j] ELSE tasks[c][j + 1]
  <2>1. tasks[c] \in Seq(Task)
    OBVIOUS
  <2>2. /\ RemoveAt(tasks[c], i) \in Seq(Task)
        /\ Len(RemoveAt(tasks[c], i)) = n - 1
        /\ \A j \in 1..n - 1 :
             RemoveAt(tasks[c], i)[j] = IF j < i THEN tasks[c][j] ELSE tasks[c][j + 1]
    BY <1>1, <2>1, RemovedAt
  <2>3. tasks'[c] = RemoveAt(tasks[c], i)
    OBVIOUS
  <2>4. DOMAIN tasks'[c] = 1..n - 1
    BY <2>2, <2>3, LenProperties
  <2>5. QED
    BY <2>2, <2>3, <2>4
<1>3. ASSUME NEW d \in CheckIds, NEW j
      PROVE  /\ <<d, j>> \in A <=>
                  j \in DOMAIN tasks[d] /\ tasks[d][j] \in S /\ ~(d = c /\ j = i)
             /\ <<d, j>> \in B <=> j \in DOMAIN tasks'[d] /\ tasks'[d][j] \in S
  BY PositionsOf
<1>4. /\ \A p \in A : \E d \in CheckIds : \E j \in DOMAIN tasks[d] : p = <<d, j>>
      /\ \A p \in B : \E d \in CheckIds : \E j \in DOMAIN tasks'[d] : p = <<d, j>>
  <2>1. ASSUME NEW p \in Positions(tasks, S)
        PROVE  \E d \in CheckIds : \E j \in DOMAIN tasks[d] : p = <<d, j>>
    BY PositionsArePairs
  <2>2. ASSUME NEW p \in Positions(tasks', S)
        PROVE  \E d \in CheckIds : \E j \in DOMAIN tasks'[d] : p = <<d, j>>
    BY DEF Positions
  <2>3. QED
    BY <2>1, <2>2
<1>5. IsFiniteSet(A) /\ Cardinality(Positions(tasks, S))
                          = Cardinality(A) + IF tasks[c][i] \in S THEN 1 ELSE 0
  <2>1. <<c, i>> \in Positions(tasks, S) <=> tasks[c][i] \in S
    BY PositionsOf
  <2>2. Cardinality(Positions(tasks, S)) \in Nat
    BY FS_CardinalityType
  <2>3. CASE tasks[c][i] \in S
    <3>1. IsFiniteSet(A) /\ Cardinality(A) = Cardinality(Positions(tasks, S)) - 1
      BY <2>1, <2>3, FS_RemoveElement
    <3>2. QED
      BY <2>2, <2>3, <3>1
  <2>4. CASE tasks[c][i] \notin S
    <3>1. A = Positions(tasks, S)
      BY <2>1, <2>4
    <3> HIDE DEF A
    <3>2. Cardinality(A) \in Nat
      BY <2>2, <3>1
    <3>3. Cardinality(Positions(tasks, S)) = Cardinality(A) + 0
      BY <3>1, <3>2
    <3>4. QED
      BY <2>4, <3>1, <3>3
  <2>5. QED
    BY <2>3, <2>4
<1> HIDE DEF n, A, B
<1>6. ASSUME NEW d \in CheckIds, NEW j, <<d, j>> \in A
      PROVE  shift[<<d, j>>] = IF d = c /\ j > i THEN <<c, j - 1>> ELSE <<d, j>>
  BY <1>6
<1> HIDE DEF shift
<1>7. ASSUME NEW p \in A PROVE shift[p] \in B
  <2> PICK d \in CheckIds : \E j \in DOMAIN tasks[d] : p = <<d, j>>
    BY <1>4
  <2>1. PICK j \in DOMAIN tasks[d] : p = <<d, j>>
    OBVIOUS
  <2>2. tasks[d][j] \in S /\ ~(d = c /\ j = i)
    BY <1>3, <2>1
  <2>3. CASE d # c
    <3>1. shift[p] = <<d, j>>
      BY <1>6, <2>1, <2>3
    <3>2. <<d, j>> \in B
      BY <1>2, <1>3, <2>1, <2>2, <2>3
    <3>3. QED
      BY <3>1, <3>2
  <2>4. CASE d = c /\ j < i
    <3>4. j \in 1..n - 1 /\ ~(j > i)
      BY <1>1, <2>1, <2>4
    <3>1. shift[p] = <<c, j>> /\ j \in 1..n - 1
      BY <1>6, <2>1, <2>4, <3>4
    <3>2. tasks'[c][j] = tasks[c][j]
      BY <1>2, <2>4, <3>1
    <3>3. <<c, j>> \in B
      BY <1>2, <1>3, <2>2, <2>4, <3>1, <3>2
    <3>5. QED
      BY <3>1, <3>3
  <2>5. CASE d = c /\ j > i
    <3>1. shift[p] = <<c, j - 1>>
      BY <1>6, <2>1, <2>5
    <3>4. j - 1 \in 1..n - 1 /\ ~(j - 1 < i) /\ (j - 1) + 1 = j
      BY <1>1, <2>1, <2>5
    <3>2. tasks'[c][j - 1] = tasks[c][j]
      BY <1>2, <2>5, <3>4
    <3>3. <<c, j - 1>> \in B
      BY <1>2, <1>3, <2>2, <2>5, <3>2, <3>4
    <3>5. QED
      BY <3>1, <3>3
  <2>6. QED
    BY <1>1, <2>1, <2>2, <2>3, <2>4, <2>5
<1>8. ASSUME NEW p \in A, NEW q \in A, shift[p] = shift[q] PROVE p = q
  <2> PICK d \in CheckIds : \E j \in DOMAIN tasks[d] : p = <<d, j>>
    BY <1>4
  <2>1. PICK j \in DOMAIN tasks[d] : p = <<d, j>>
    OBVIOUS
  <2> PICK e \in CheckIds : \E k \in DOMAIN tasks[e] : q = <<e, k>>
    BY <1>4
  <2>2. PICK k \in DOMAIN tasks[e] : q = <<e, k>>
    OBVIOUS
  <2>3. /\ shift[p] = IF d = c /\ j > i THEN <<c, j - 1>> ELSE <<d, j>>
        /\ shift[q] = IF e = c /\ k > i THEN <<c, k - 1>> ELSE <<e, k>>
        /\ ~(d = c /\ j = i) /\ ~(e = c /\ k = i)
    BY <1>3, <1>6, <2>1, <2>2
  <2>4. d = e
    <3>1. \E x : shift[p] = <<d, x>>
      BY <2>3
    <3>2. \E x : shift[q] = <<e, x>>
      BY <2>3
    <3>3. QED
      BY <1>8, <3>1, <3>2, SamePair, Zenon
  <2>5. CASE d # c
    <3>1. shift[p] = <<d, j>> /\ shift[q] = <<e, k>>
      BY <2>3, <2>4, <2>5
    <3>2. QED
      BY <1>8, <2>1, <2>2, <3>1
  <2>6. CASE d = c
    <3>1. j \in Int /\ k \in Int /\ i \in Int /\ j # i /\ k # i
      BY <1>1, <2>3, <2>4, <2>6
    <3> DEFINE x == IF j > i THEN j - 1 ELSE j
               y == IF k > i THEN k - 1 ELSE k
    <3>2. shift[p] = <<c, x>> /\ shift[q] = <<c, y>>
      BY <2>3, <2>4, <2>6
    <3> HIDE DEF x, y
    <3>5. <<c, x>> = <<c, y>>
      BY <1>8, <3>2
    <3>3. x = y
      BY <3>5, SamePair
    <3>4. j = k
      BY <3>1, <3>3 DEF x, y
    <3>6. QED
      BY <2>1, <2>2, <2>4, <3>4
  <2>7. QED
    BY <2>5, <2>6
<1>9. ASSUME NEW q \in B PROVE \E p \in A : shift[p] = q
  <2> PICK d \in CheckIds : \E j \in DOMAIN tasks'[d] : q = <<d, j>>
    BY <1>4
  <2>1. PICK j \in DOMAIN tasks'[d] : q = <<d, j>> /\ tasks'[d][j] \in S
    BY <1>3
  <2>2. CASE d # c
    <3>1. <<d, j>> \in A
      BY <1>2, <1>3, <2>1, <2>2
    <3>2. shift[<<d, j>>] = <<d, j>>
      BY <1>6, <2>2, <3>1
    <3>3. QED
      BY <2>1, <3>1, <3>2
  <2>3. CASE d = c /\ j < i
    <3>1. j \in 1..n - 1 /\ j \in 1..n /\ ~(j > i) /\ j # i
      BY <1>1, <1>2, <2>1, <2>3
    <3>2. <<c, j>> \in A
      BY <1>1, <1>2, <1>3, <2>1, <2>3, <3>1
    <3>3. QED
      BY <1>6, <2>1, <2>3, <3>1, <3>2
  <2>4. CASE d = c /\ ~(j < i)
    <3>0. j \in 1..n - 1
      BY <1>2, <2>1, <2>4
    <3>1. j + 1 \in 1..n /\ j + 1 > i /\ j + 1 # i /\ (j + 1) - 1 = j
      BY <1>1, <2>4, <3>0
    <3>2. <<c, j + 1>> \in A
      BY <1>1, <1>2, <1>3, <2>1, <2>4, <3>0, <3>1
    <3>3. shift[<<c, j + 1>>] = q
      BY <1>6, <2>1, <2>4, <3>1, <3>2
    <3>4. QED
      BY <3>2, <3>3
  <2>5. QED
    BY <1>1, <1>2, <2>1, <2>2, <2>3, <2>4
<1>10. shift \in [A -> B]
  BY <1>7 DEF shift
<1>11. IsFiniteSet(B) /\ Cardinality(B) = Cardinality(A)
  BY <1>5, <1>8, <1>9, <1>10, SameNumber
<1>12. QED
  BY <1>2, <1>5, <1>11 DEF B

(* A task that changes and stays of its kind changes no count.             *)
LEMMA StaysCounted ==
  ASSUME NEW S, tasks \in [CheckIds -> Seq(Task)],
         NEW c \in CheckIds, NEW i \in DOMAIN tasks[c], NEW t \in Task,
         tasks' = [tasks EXCEPT ![c][i] = t],
         t \in S <=> tasks[c][i] \in S
  PROVE  /\ tasks' \in [CheckIds -> Seq(Task)]
         /\ Positions(tasks', S) = Positions(tasks, S)
<1>1. /\ tasks' \in [CheckIds -> Seq(Task)]
      /\ \A d \in CheckIds : d # c => tasks'[d] = tasks[d]
      /\ DOMAIN tasks'[c] = DOMAIN tasks[c]
      /\ \A j \in DOMAIN tasks[c] : tasks'[c][j] = IF j = i THEN t ELSE tasks[c][j]
  BY ReplaceTask
<1>2. ASSUME NEW d \in CheckIds
      PROVE  {j \in DOMAIN tasks'[d] : tasks'[d][j] \in S}
               = {j \in DOMAIN tasks[d] : tasks[d][j] \in S}
  BY <1>1
<1>3. QED
  BY <1>1, <1>2 DEF Positions

(* A task that becomes of a kind is one more of it.                        *)
LEMMA BecomesCounted ==
  ASSUME NEW S, tasks \in [CheckIds -> Seq(Task)], IsFiniteSet(Positions(tasks, S)),
         NEW c \in CheckIds, NEW i \in DOMAIN tasks[c], NEW t \in Task,
         tasks' = [tasks EXCEPT ![c][i] = t],
         t \in S, tasks[c][i] \notin S
  PROVE  /\ IsFiniteSet(Positions(tasks', S))
         /\ Cardinality(Positions(tasks', S)) = Cardinality(Positions(tasks, S)) + 1
<1>1. /\ tasks' \in [CheckIds -> Seq(Task)]
      /\ \A d \in CheckIds : d # c => tasks'[d] = tasks[d]
      /\ DOMAIN tasks'[c] = DOMAIN tasks[c]
      /\ \A j \in DOMAIN tasks[c] : tasks'[c][j] = IF j = i THEN t ELSE tasks[c][j]
  BY ReplaceTask
<1>2. <<c, i>> \notin Positions(tasks, S)
  BY PositionsOf
<1>3. ASSUME NEW d \in CheckIds, NEW j
      PROVE  <<d, j>> \in Positions(tasks', S) <=>
               <<d, j>> \in Positions(tasks, S) \cup {<<c, i>>}
  <2>1. <<d, j>> \in Positions(tasks', S) <=> j \in DOMAIN tasks'[d] /\ tasks'[d][j] \in S
    BY PositionsOf
  <2>2. <<d, j>> \in Positions(tasks, S) <=> j \in DOMAIN tasks[d] /\ tasks[d][j] \in S
    BY PositionsOf
  <2>3. <<d, j>> = <<c, i>> <=> d = c /\ j = i
    BY SamePair
  <2>4. CASE d = c /\ j = i
    BY <1>1, <2>1, <2>3, <2>4
  <2>5. CASE ~(d = c /\ j = i)
    BY <1>1, <2>1, <2>2, <2>3, <2>5
  <2>6. QED
    BY <2>4, <2>5
<1>4. Positions(tasks', S) = Positions(tasks, S) \cup {<<c, i>>}
  <2>1. ASSUME NEW p \in Positions(tasks', S) PROVE p \in Positions(tasks, S) \cup {<<c, i>>}
    <3>1. \E d \in CheckIds : \E j \in DOMAIN tasks'[d] : p = <<d, j>>
      BY DEF Positions
    <3>2. QED
      BY <1>3, <3>1
  <2>2. ASSUME NEW p \in Positions(tasks, S) \cup {<<c, i>>} PROVE p \in Positions(tasks', S)
    <3>1. \E d \in CheckIds : \E j \in DOMAIN tasks[d] : p = <<d, j>>
      BY DEF Positions
    <3>2. QED
      BY <1>3, <3>1
  <2>3. QED
    BY <2>1, <2>2
<1>5. QED
  BY <1>2, <1>4, FS_AddElement

(* A spawn adds a task to every due check.                                 *)
LEMMA SpawnCounted ==
  ASSUME NEW S, IsFiniteSet(CheckIds), tasks \in [CheckIds -> Seq(Task)],
         IsFiniteSet(Positions(tasks, S)), SpawnDueChecks, NewTask \in S
  PROVE  /\ IsFiniteSet(Positions(tasks', S))
         /\ Cardinality(Positions(tasks', S))
              = Cardinality(Positions(tasks, S)) + Cardinality(DueChecks(checks, now))
         /\ Cardinality(DueChecks(checks, now)) \in Nat
<1> DEFINE due == DueChecks(checks, now)
           last == [c \in due |-> <<c, Len(tasks[c]) + 1>>]
           added == {last[c] : c \in due}
<1>1. IsFiniteSet(due) /\ due \subseteq CheckIds
  BY FS_Subset DEF DueChecks
<1>2. ASSUME NEW c \in due
      PROVE  /\ last[c] = <<c, Len(tasks[c]) + 1>>
             /\ Len(tasks[c]) \in Nat
             /\ DOMAIN tasks[c] = 1..Len(tasks[c])
             /\ DOMAIN tasks'[c] = 1..Len(tasks[c]) + 1
             /\ \A i \in 1..Len(tasks[c]) : tasks'[c][i] = tasks[c][i]
             /\ tasks'[c][Len(tasks[c]) + 1] = NewTask
  <2>1. tasks'[c] = Append(tasks[c], NewTask)
    BY <1>1 DEF SpawnDueChecks, DueChecks
  <2>2. tasks[c] \in Seq(Task) /\ NewTask \in Task
    BY <1>1 DEF NewTask, Task
  <2>3. Len(tasks[c]) \in Nat /\ DOMAIN tasks[c] = 1..Len(tasks[c])
    BY <2>2, LenProperties
  <2>4. /\ Append(tasks[c], NewTask) \in Seq(Task)
        /\ Len(Append(tasks[c], NewTask)) = Len(tasks[c]) + 1
        /\ \A i \in 1..Len(tasks[c]) : Append(tasks[c], NewTask)[i] = tasks[c][i]
        /\ Append(tasks[c], NewTask)[Len(tasks[c]) + 1] = NewTask
    BY <2>2, AppendProperties
  <2>5. DOMAIN tasks'[c] = 1..Len(tasks[c]) + 1
    BY <2>1, <2>4, LenProperties
  <2>6. QED
    BY <2>1, <2>3, <2>4, <2>5
<1>3. ASSUME NEW c \in CheckIds, c \notin due PROVE tasks'[c] = tasks[c]
  BY <1>3 DEF SpawnDueChecks, DueChecks
<1> HIDE DEF due, last
<1>4. ASSUME NEW a \in due, NEW b \in due, last[a] = last[b] PROVE a = b
  BY <1>2, <1>4, SamePair
<1>5. last \in [due -> added]
  BY DEF last
<1>6. IsFiniteSet(added) /\ Cardinality(added) = Cardinality(due)
  <2>1. \A b \in added : \E a \in due : last[a] = b
    OBVIOUS
  <2> HIDE DEF added
  <2>2. QED
    BY <1>1, <1>4, <1>5, <2>1, SameNumber
<1>7. Positions(tasks', S) \subseteq Positions(tasks, S) \cup added
  <2> SUFFICES ASSUME NEW p \in Positions(tasks', S) PROVE p \in Positions(tasks, S) \cup added
    OBVIOUS
  <2> PICK d \in CheckIds : \E j \in DOMAIN tasks'[d] : p = <<d, j>>
    BY DEF Positions
  <2>1. PICK j \in DOMAIN tasks'[d] : p = <<d, j>>
    OBVIOUS
  <2>2. tasks'[d][j] \in S
    BY <2>1, PositionsOf
  <2>3. CASE d \notin due
    <3>1. j \in DOMAIN tasks[d] /\ tasks[d][j] \in S
      BY <1>3, <2>1, <2>2, <2>3
    <3>2. QED
      BY <2>1, <3>1, PositionsOf
  <2>4. CASE d \in due /\ j = Len(tasks[d]) + 1
    <3>1. p = last[d]
      BY <1>2, <2>1, <2>4
    <3>2. QED
      BY <2>4, <3>1
  <2>5. CASE d \in due /\ j # Len(tasks[d]) + 1
    <3>1. j \in 1..Len(tasks[d])
      BY <1>2, <2>1, <2>5
    <3>2. j \in DOMAIN tasks[d] /\ tasks[d][j] \in S
      BY <1>2, <2>2, <2>5, <3>1
    <3>3. QED
      BY <2>1, <3>2, PositionsOf
  <2>6. QED
    BY <2>3, <2>4, <2>5
<1>8. Positions(tasks, S) \subseteq Positions(tasks', S)
  <2> SUFFICES ASSUME NEW p \in Positions(tasks, S) PROVE p \in Positions(tasks', S)
    OBVIOUS
  <2> PICK d \in CheckIds : \E j \in DOMAIN tasks[d] : p = <<d, j>>
    BY DEF Positions
  <2>1. PICK j \in DOMAIN tasks[d] : p = <<d, j>>
    OBVIOUS
  <2>2. tasks[d][j] \in S
    BY <2>1, PositionsOf
  <2>3. j \in DOMAIN tasks'[d] /\ tasks'[d][j] \in S
    <3>1. CASE d \in due
      BY <1>2, <2>1, <2>2, <3>1
    <3>2. CASE d \notin due
      BY <1>3, <2>1, <2>2, <3>2
    <3>3. QED
      BY <3>1, <3>2
  <2>4. QED
    BY <2>1, <2>3, PositionsOf
<1>9. added \subseteq Positions(tasks', S) /\ Positions(tasks, S) \cap added = {}
  <2> SUFFICES ASSUME NEW c \in due
               PROVE  last[c] \in Positions(tasks', S) /\ last[c] \notin Positions(tasks, S)
    OBVIOUS
  <2>1. Len(tasks[c]) + 1 \in DOMAIN tasks'[c] /\ Len(tasks[c]) + 1 \notin DOMAIN tasks[c]
    BY <1>2
  <2>2. <<c, Len(tasks[c]) + 1>> \in Positions(tasks', S)
    BY <1>1, <1>2, <2>1, PositionsOf
  <2>3. <<c, Len(tasks[c]) + 1>> \notin Positions(tasks, S)
    BY <1>1, <2>1, PositionsOf
  <2>4. QED
    BY <1>2, <2>2, <2>3
<1>10. Positions(tasks', S) = Positions(tasks, S) \cup added
  BY <1>7, <1>8, <1>9
<1> HIDE DEF added
<1>11. /\ IsFiniteSet(Positions(tasks, S) \cup added)
       /\ Cardinality(Positions(tasks, S) \cup added)
            = Cardinality(Positions(tasks, S)) + Cardinality(added) - 0
  BY <1>6, <1>9, FS_Union, FS_EmptySet
<1>12. Cardinality(Positions(tasks, S)) \in Nat /\ Cardinality(due) \in Nat
  BY <1>1, FS_CardinalityType
<1>13. QED
  BY <1>6, <1>10, <1>11, <1>12 DEF due

(* A new task is none of a kind it does not belong to.                     *)
LEMMA SpawnUncounted ==
  ASSUME NEW S, tasks \in [CheckIds -> Seq(Task)], SpawnDueChecks, NewTask \notin S
  PROVE  Positions(tasks', S) = Positions(tasks, S)
<1>1. ASSUME NEW c \in CheckIds
      PROVE  {i \in DOMAIN tasks'[c] : tasks'[c][i] \in S}
               = {i \in DOMAIN tasks[c] : tasks[c][i] \in S}
  <2>1. CASE IsDue(checks[c], now)
    <3>1. tasks'[c] = Append(tasks[c], NewTask)
      BY <2>1 DEF SpawnDueChecks
    <3>2. tasks[c] \in Seq(Task) /\ NewTask \in Task
      BY DEF NewTask, Task
    <3>3. Len(tasks[c]) \in Nat /\ DOMAIN tasks[c] = 1..Len(tasks[c])
      BY <3>2, LenProperties
    <3>4. /\ Append(tasks[c], NewTask) \in Seq(Task)
          /\ Len(Append(tasks[c], NewTask)) = Len(tasks[c]) + 1
          /\ \A i \in 1..Len(tasks[c]) : Append(tasks[c], NewTask)[i] = tasks[c][i]
          /\ Append(tasks[c], NewTask)[Len(tasks[c]) + 1] = NewTask
      BY <3>2, AppendProperties
    <3>5. DOMAIN tasks'[c] = 1..Len(tasks[c]) + 1
      BY <3>1, <3>4, LenProperties
    <3>6. ASSUME NEW i \in DOMAIN tasks'[c], i \notin DOMAIN tasks[c] PROVE tasks'[c][i] = NewTask
      <4>1. i = Len(tasks[c]) + 1
        BY <3>3, <3>5, <3>6
      <4>2. QED
        BY <3>1, <3>4, <4>1
    <3>7. DOMAIN tasks[c] \subseteq DOMAIN tasks'[c]
      BY <3>3, <3>5
    <3>8. \A i \in DOMAIN tasks[c] : tasks'[c][i] = tasks[c][i]
      BY <3>1, <3>3, <3>4
    <3>9. QED
      BY <3>6, <3>7, <3>8
  <2>2. CASE ~IsDue(checks[c], now)
    BY <2>2 DEF SpawnDueChecks
  <2>3. QED
    BY <2>1, <2>2
<1>2. QED
  BY <1>1 DEF Positions

-----------------------------------------------------------------------------
(* The accounts hold while the executions fit into the counters; a counter *)
(* of ends can then not wrap, for it counts no more than were started.     *)
AccountsType ==
  /\ tasks \in [CheckIds -> Seq(Task)]
  /\ joined \in Joined \cup {None}
  /\ stats \in Stats
  /\ now \in Instant
  /\ spawned \in Nat
  /\ rows \in Nat

(* A sink error is counted with the completed execution it belongs to.     *)
Balanced ==
  /\ StatsAccountForExecutions
  /\ StatsAccountForRows
  /\ stats.sink_errors <= stats.completed_executions

(* Run clears the counters, so nothing may have ended before it.           *)
NothingEndedBeforeRun == loop = "created" => joined = None /\ stats = ZeroStats

AccountsInvariant ==
  /\ AccountsType
  /\ IsFiniteSet(Positions(tasks, Task))
  /\ NothingEndedBeforeRun
  /\ spawned < U64 => Balanced

LEMMA RecordedAreTasks ==
  ASSUME IsFiniteSet(Positions(tasks, Task))
  PROVE  IsFiniteSet(Positions(tasks, RecordedTask))
<1>1. Positions(tasks, RecordedTask) \subseteq Positions(tasks, Task)
  BY DEF Positions, RecordedTask
<1>2. QED
  BY <1>1, FS_Subset

LEMMA CountIsNumber ==
  ASSUME NEW S, IsFiniteSet(Positions(tasks, S))
  PROVE  Count(S) \in Nat /\ Cardinality(Positions(tasks, S)) \in Nat
<1>1. Cardinality(Positions(tasks, S)) \in Nat
  BY FS_CardinalityType
<1>2. QED
  BY <1>1 DEF Count

LEMMA InitAccounts == InitHistory => AccountsInvariant
<1> SUFFICES ASSUME InitHistory PROVE AccountsInvariant
  OBVIOUS
<1>1. /\ tasks = NoTasks /\ joined = None /\ stats = ZeroStats /\ now = 0
      /\ spawned = 0 /\ rows = 0
  BY DEF InitHistory, Init
<1>2. AccountsType
  <2>1. stats \in Stats
    BY <1>1, SchedulerAssumption DEF ZeroStats, Stats
  <2>2. tasks \in [CheckIds -> Seq(Task)]
    BY <1>1, EmptySeq DEF NoTasks
  <2>3. QED
    BY <1>1, <2>1, <2>2 DEF AccountsType, Instant
<1>3. ASSUME NEW S PROVE Positions(tasks, S) = {}
  BY <1>1 DEF Positions, NoTasks
<1>4. ASSUME NEW S PROVE Count(S) = 0
  BY <1>1, <1>3, FS_EmptySet DEF Count
<1>5. Balanced
  BY <1>1, <1>4 DEF Balanced, StatsAccountForExecutions, StatsAccountForRows, ZeroStats
<1>6. IsFiniteSet(Positions(tasks, Task))
  BY <1>3, FS_EmptySet
<1>7. QED
  BY <1>1, <1>2, <1>5, <1>6 DEF AccountsInvariant, NothingEndedBeforeRun

(* What neither starts, ends nor records an execution upsets nothing.      *)
LEMMA NothingCounted ==
  ASSUME AccountsInvariant, AccountsType', IsFiniteSet(Positions(tasks', Task)),
         NothingEndedBeforeRun', UNCHANGED <<stats, spawned, rows>>,
         Count(Task)' = Count(Task), Count(RecordedTask)' = Count(RecordedTask)
  PROVE  AccountsInvariant'
<1>1. spawned' < U64 => Balanced'
  BY DEF AccountsInvariant, Balanced, StatsAccountForExecutions, StatsAccountForRows
<1>2. QED
  BY <1>1 DEF AccountsInvariant

LEMMA QuietCounts ==
  ASSUME AccountsInvariant, UNCHANGED <<tasks, joined, stats, spawned, rows>>,
         now' \in Instant, loop' = "created" => loop = "created"
  PROVE  AccountsInvariant'
<1>1. AccountsType' /\ IsFiniteSet(Positions(tasks', Task)) /\ NothingEndedBeforeRun'
  BY DEF AccountsInvariant, AccountsType, NothingEndedBeforeRun
<1>2. ASSUME NEW S PROVE Count(S)' = Count(S)
  BY DEF Count
<1>3. QED
  BY <1>1, <1>2, NothingCounted

(* The counters start from zero: they were there already.                  *)
LEMMA RunCounts ==
  ASSUME AccountsInvariant, Run, UNCHANGED historyVars
  PROVE  AccountsInvariant'
<1>1. stats' = stats
  BY DEF AccountsInvariant, NothingEndedBeforeRun, Run
<1>2. QED
  BY <1>1, QuietCounts DEF Run, historyVars, AccountsInvariant, AccountsType

(* From the JoinSet to the loop.                                           *)
LEMMA JoinCounts ==
  ASSUME AccountsInvariant, NEW c \in CheckIds, JoinNext(c), UNCHANGED historyVars
  PROVE  AccountsInvariant'
<1>1. PICK i \in DOMAIN tasks[c] :
        /\ Finished(tasks[c][i])
        /\ joined' = [check |-> c, task |-> tasks[c][i]]
        /\ tasks' = [tasks EXCEPT ![c] = RemoveAt(@, i)]
  BY DEF JoinNext
<1>2. /\ tasks \in [CheckIds -> Seq(Task)]
      /\ joined = None
      /\ UNCHANGED <<now, loop, stats, spawned, rows>>
      /\ loop # "created"
  BY DEF AccountsInvariant, AccountsType, JoinNext, historyVars
<1>3. tasks[c][i] \in Task
  BY <1>2, ElementOfSeq, LenProperties
<1>4. joined' \in Joined /\ joined' # None /\ joined'.task = tasks[c][i]
  <2>1. joined' \in Joined
    BY <1>1, <1>3 DEF Joined
  <2>2. QED
    BY <1>1, <2>1, NoTaskAssumption
<1>5. tasks' = [tasks EXCEPT ![c] = RemoveAt(tasks[c], i)]
  BY <1>1
<1>6. ASSUME NEW S, IsFiniteSet(Positions(tasks, S))
      PROVE  /\ tasks' \in [CheckIds -> Seq(Task)]
             /\ IsFiniteSet(Positions(tasks', S))
             /\ Count(S)' = Count(S)
  <2>1. /\ tasks' \in [CheckIds -> Seq(Task)]
        /\ IsFiniteSet(Positions(tasks', S))
        /\ Cardinality(Positions(tasks, S))
             = Cardinality(Positions(tasks', S)) + IF tasks[c][i] \in S THEN 1 ELSE 0
    BY <1>2, <1>5, <1>6, TakingOut
  <2>2. Cardinality(Positions(tasks, S)) \in Nat
    BY <1>6, FS_CardinalityType
  <2>3. Count(S) = Cardinality(Positions(tasks, S))
    BY <1>2, <2>2 DEF Count
  <2>4. Count(S)' = Cardinality(Positions(tasks', S)) + IF tasks[c][i] \in S THEN 1 ELSE 0
    BY <1>4 DEF Count
  <2>5. QED
    BY <2>1, <2>3, <2>4
<1>7. IsFiniteSet(Positions(tasks, Task)) /\ IsFiniteSet(Positions(tasks, RecordedTask))
  BY RecordedAreTasks DEF AccountsInvariant
<1>8. AccountsType' /\ NothingEndedBeforeRun'
  BY <1>2, <1>4, <1>6, <1>7 DEF AccountsInvariant, AccountsType, NothingEndedBeforeRun
<1>9. QED
  BY <1>2, <1>6, <1>7, <1>8, NothingCounted

(* From the spawn into the JoinSet.                                        *)
LEMMA SpawnCounts ==
  ASSUME IsFiniteSet(CheckIds), AccountsInvariant, SpawnAndCount
  PROVE  AccountsInvariant'
<1> DEFINE n == Cardinality(DueChecks(checks, now))
<1>1. /\ SpawnDueChecks
      /\ spawned' = spawned + n
      /\ UNCHANGED <<now, joined, stats, rows>>
      /\ loop' # "created"
  BY DEF SpawnAndCount, SpawnDueChecks
<1>2. tasks \in [CheckIds -> Seq(Task)] /\ tasks' \in [CheckIds -> Seq(Task)]
  <2>1. tasks \in [CheckIds -> Seq(Task)] /\ NewTask \in Task
    BY DEF AccountsInvariant, AccountsType, NewTask, Task
  <2>2. \A c \in CheckIds : Append(tasks[c], NewTask) \in Seq(Task)
    BY <2>1, AppendProperties
  <2>3. QED
    BY <1>1, <2>1, <2>2 DEF SpawnDueChecks
<1>3. NewTask \in Task /\ NewTask \notin RecordedTask
  BY DEF NewTask, Task, RecordedTask
<1>4. /\ IsFiniteSet(Positions(tasks', Task))
      /\ Cardinality(Positions(tasks', Task)) = Cardinality(Positions(tasks, Task)) + n
      /\ n \in Nat
  BY <1>1, <1>2, <1>3, SpawnCounted DEF AccountsInvariant
<1>5. Positions(tasks', RecordedTask) = Positions(tasks, RecordedTask)
  BY <1>1, <1>2, <1>3, SpawnUncounted
<1> HIDE DEF n
<1>6. Count(RecordedTask)' = Count(RecordedTask)
  BY <1>1, <1>5 DEF Count
<1>7. Count(Task)' = Count(Task) + n /\ Count(Task) \in Nat
  <2>1. Cardinality(Positions(tasks, Task)) \in Nat
    BY FS_CardinalityType DEF AccountsInvariant
  <2>2. QED
    BY <1>1, <1>4, <2>1 DEF Count
<1>8. AccountsType' /\ NothingEndedBeforeRun'
  BY <1>1, <1>2, <1>4 DEF AccountsInvariant, AccountsType, NothingEndedBeforeRun
<1>9. ASSUME spawned' < U64 PROVE Balanced'
  <2>1. spawned \in Nat /\ U64 \in Nat /\ stats \in Stats
    BY SchedulerAssumption DEF AccountsInvariant, AccountsType
  <2>2. Balanced
    BY <1>1, <1>4, <1>9, <2>1 DEF AccountsInvariant
  <2>3. stats.completed_executions \in Nat /\ stats.task_failures \in Nat
    BY <2>1 DEF Stats
  <2>4. StatsAccountForExecutions'
    BY <1>1, <1>4, <1>7, <2>2, <2>3 DEF Balanced, StatsAccountForExecutions
  <2>5. QED
    BY <1>1, <1>6, <2>2, <2>4 DEF Balanced, StatsAccountForRows
<1>10. QED
  BY <1>4, <1>8, <1>9 DEF AccountsInvariant

(* A task that has returned from execute, or has panicked, records nothing. *)
LEMMA TaskCounts ==
  ASSUME AccountsInvariant, NEW c \in CheckIds, NEW i \in DOMAIN tasks[c],
         ExecuteReturns(c, i) \/ Panic(c, i), UNCHANGED historyVars
  PROVE  AccountsInvariant'
<1>1. /\ tasks \in [CheckIds -> Seq(Task)]
      /\ UNCHANGED <<now, loop, joined, stats, spawned, rows>>
  BY DEF AccountsInvariant, AccountsType, ExecuteReturns, Panic, historyVars
<1>2. tasks[c][i] \in Task
  BY <1>1, ElementOfSeq, LenProperties
<1>3. PICK t \in Task : /\ tasks' = [tasks EXCEPT ![c][i] = t]
                        /\ t \notin RecordedTask
                        /\ tasks[c][i] \notin RecordedTask
  <2>1. CASE ExecuteReturns(c, i)
    <3> DEFINE t == [tasks[c][i] EXCEPT !.phase = "record"]
    <3>1. tasks' = [tasks EXCEPT ![c][i] = t] /\ tasks[c][i].phase = "execute"
      BY <2>1 DEF ExecuteReturns
    <3>2. t \in Task /\ t.phase = "record"
      BY <1>2 DEF Task
    <3> HIDE DEF t
    <3>3. QED
      BY <3>1, <3>2 DEF RecordedTask
  <2>2. CASE Panic(c, i)
    <3> DEFINE t == [tasks[c][i] EXCEPT !.phase = "failed"]
    <3>1. tasks' = [tasks EXCEPT ![c][i] = t] /\ tasks[c][i].phase \in {"execute", "record"}
      BY <2>2 DEF Panic
    <3>2. t \in Task /\ t.phase = "failed"
      BY <1>2 DEF Task
    <3> HIDE DEF t
    <3>3. QED
      BY <3>1, <3>2 DEF RecordedTask
  <2>3. QED
    BY <2>1, <2>2
<1>4. tasks' \in [CheckIds -> Seq(Task)] /\ Positions(tasks', Task) = Positions(tasks, Task)
  BY <1>1, <1>2, <1>3, StaysCounted
<1>5. Positions(tasks', RecordedTask) = Positions(tasks, RecordedTask)
  BY <1>1, <1>3, StaysCounted
<1>6. Count(Task)' = Count(Task) /\ Count(RecordedTask)' = Count(RecordedTask)
  BY <1>1, <1>4, <1>5 DEF Count
<1>7. AccountsType' /\ IsFiniteSet(Positions(tasks', Task)) /\ NothingEndedBeforeRun'
  BY <1>1, <1>4 DEF AccountsInvariant, AccountsType, NothingEndedBeforeRun
<1>8. QED
  BY <1>1, <1>6, <1>7, NothingCounted

(* A recorded result is a row at once, and a completed execution later.    *)
LEMMA RecordCounts ==
  ASSUME AccountsInvariant, NEW c \in CheckIds, NEW i \in DOMAIN tasks[c], RecordAndCount(c, i)
  PROVE  AccountsInvariant'
<1>1. /\ tasks \in [CheckIds -> Seq(Task)]
      /\ UNCHANGED <<now, loop, joined, stats, spawned>>
      /\ tasks[c][i].phase = "record"
      /\ rows' = IF tasks'[c][i].recorded THEN rows + 1 ELSE rows
  BY DEF AccountsInvariant, AccountsType, RecordAndCount, RecordReturns
<1>2. tasks[c][i] \in Task /\ tasks[c][i] \notin RecordedTask
  BY <1>1, ElementOfSeq, LenProperties DEF RecordedTask
<1> PICK ok \in BOOLEAN :
      tasks' = [tasks EXCEPT ![c][i] = [phase        |-> "done",
                                        completed_at |-> now,
                                        recorded     |-> ok]]
  BY DEF RecordAndCount, RecordReturns
<1> DEFINE t == [phase |-> "done", completed_at |-> now, recorded |-> ok]
<1>3. t \in Task /\ t.recorded = ok /\ (t \in RecordedTask <=> ok)
  <2>1. now \in Instant
    BY DEF AccountsInvariant, AccountsType
  <2>2. t \in Task
    BY <2>1 DEF Task
  <2>3. QED
    BY <2>2 DEF RecordedTask
<1>4. tasks' = [tasks EXCEPT ![c][i] = t]
  OBVIOUS
<1> HIDE DEF t
<1>5. tasks' \in [CheckIds -> Seq(Task)] /\ tasks'[c][i] = t
  BY <1>1, <1>3, <1>4, ReplaceTask
<1>6. Positions(tasks', Task) = Positions(tasks, Task)
  BY <1>1, <1>2, <1>3, <1>4, StaysCounted
<1>7. Count(Task)' = Count(Task)
  BY <1>1, <1>6 DEF Count
<1>8. rows' = IF ok THEN rows + 1 ELSE rows
  BY <1>1, <1>3, <1>5
<1>9. AccountsType' /\ IsFiniteSet(Positions(tasks', Task)) /\ NothingEndedBeforeRun'
  BY <1>1, <1>5, <1>6, <1>8 DEF AccountsInvariant, AccountsType, NothingEndedBeforeRun
<1>10. IsFiniteSet(Positions(tasks, RecordedTask)) /\ Count(RecordedTask) \in Nat
  BY RecordedAreTasks, CountIsNumber DEF AccountsInvariant
<1>11. CASE ~ok
  <2>1. Positions(tasks', RecordedTask) = Positions(tasks, RecordedTask)
    BY <1>1, <1>2, <1>3, <1>4, <1>11, StaysCounted
  <2>2. Count(RecordedTask)' = Count(RecordedTask)
    BY <1>1, <2>1 DEF Count
  <2>3. QED
    BY <1>1, <1>7, <1>8, <1>9, <1>11, <2>2, NothingCounted
<1>12. CASE ok
  <2>1. Cardinality(Positions(tasks', RecordedTask))
          = Cardinality(Positions(tasks, RecordedTask)) + 1
    BY <1>1, <1>2, <1>3, <1>4, <1>10, <1>12, BecomesCounted
  <2>2. Cardinality(Positions(tasks, RecordedTask)) \in Nat
    BY <1>10, FS_CardinalityType
  <2>3. Count(RecordedTask)' = Count(RecordedTask) + 1
    BY <1>1, <2>1, <2>2 DEF Count
  <2>4. ASSUME spawned' < U64 PROVE Balanced'
    <3>1. Balanced
      BY <1>1, <2>4 DEF AccountsInvariant
    <3>2. rows \in Nat /\ stats.sink_errors \in Nat /\ stats.completed_executions \in Nat
      BY DEF AccountsInvariant, AccountsType, Stats
    <3>3. StatsAccountForRows'
      <4>1. rows + stats.sink_errors = stats.completed_executions + Count(RecordedTask)
        BY <3>1 DEF Balanced, StatsAccountForRows
      <4>2. rows' = rows + 1 /\ stats' = stats
        BY <1>1, <1>8, <1>12
      <4>3. rows' + stats'.sink_errors = stats'.completed_executions + Count(RecordedTask)'
        BY <1>10, <2>3, <3>2, <4>1, <4>2
      <4>4. QED
        BY <4>3 DEF StatsAccountForRows
    <3>4. QED
      BY <1>1, <1>7, <3>1, <3>3 DEF Balanced, StatsAccountForExecutions
  <2>5. QED
    BY <1>9, <2>4 DEF AccountsInvariant
<1>13. QED
  BY <1>11, <1>12

(* From the loop into the counters: what was taken out of the JoinSet is   *)
(* among the started executions, so the counter has room for it.           *)
LEMMA CompletionCounts ==
  ASSUME AccountsInvariant, HandleCompletion, UNCHANGED historyVars
  PROVE  AccountsInvariant'
<1>1. /\ joined # None /\ joined \in Joined /\ joined.task.phase = "done"
      /\ joined' = None
      /\ UNCHANGED <<now, loop, tasks, spawned, rows>>
      /\ stats \in Stats
  BY DEF AccountsInvariant, AccountsType, HandleCompletion, historyVars
<1> PICK recorded \in BOOLEAN : recorded = joined.task.recorded
  BY <1>1 DEF Joined, Task
<1>2. joined.task \in Task /\ (joined.task \in RecordedTask <=> recorded)
  BY <1>1 DEF Joined, RecordedTask
<1>3. /\ stats'.completed_executions = Increment(stats.completed_executions)
      /\ stats'.sink_errors = IF recorded THEN stats.sink_errors ELSE Increment(stats.sink_errors)
      /\ stats'.task_failures = stats.task_failures
      /\ stats' \in Stats
  <2>1. stats' = [stats EXCEPT !.completed_executions = Increment(@),
                               !.sink_errors = IF recorded THEN @ ELSE Increment(@)]
    BY DEF HandleCompletion
  <2>2. \A n \in 0..U64-1 : Increment(n) \in 0..U64-1
    BY SchedulerAssumption DEF Increment
  <2>3. QED
    BY <1>1, <2>1, <2>2 DEF Stats
<1>4. /\ Cardinality(Positions(tasks, Task)) \in Nat
      /\ Cardinality(Positions(tasks, RecordedTask)) \in Nat
  BY RecordedAreTasks, CountIsNumber DEF AccountsInvariant
<1>5. /\ Count(Task) = Count(Task)' + 1
      /\ Count(RecordedTask) = Count(RecordedTask)' + IF recorded THEN 1 ELSE 0
      /\ Count(Task)' \in Nat
      /\ Count(RecordedTask)' \in Nat
  BY <1>1, <1>2, <1>4 DEF Count
<1>6. AccountsType' /\ IsFiniteSet(Positions(tasks', Task)) /\ NothingEndedBeforeRun'
  BY <1>1, <1>3 DEF AccountsInvariant, AccountsType, NothingEndedBeforeRun
<1>7. ASSUME spawned' < U64 PROVE Balanced'
  <2>1. Balanced
    BY <1>1, <1>7 DEF AccountsInvariant
  <2>2. /\ stats.completed_executions \in Nat /\ stats.sink_errors \in Nat
        /\ stats.task_failures \in Nat /\ rows \in Nat /\ spawned \in Nat /\ U64 \in Nat
    BY <1>1, SchedulerAssumption DEF AccountsInvariant, AccountsType, Stats
  <2>3. stats.completed_executions + 1 < U64 /\ stats.sink_errors + 1 < U64
    BY <1>1, <1>5, <1>7, <2>1, <2>2 DEF Balanced, StatsAccountForExecutions
  <2>4. /\ stats'.completed_executions = stats.completed_executions + 1
        /\ stats'.sink_errors = IF recorded THEN stats.sink_errors ELSE stats.sink_errors + 1
    BY <1>3, <2>3 DEF Increment
  <2>5. StatsAccountForExecutions'
    BY <1>1, <1>3, <1>5, <2>1, <2>2, <2>4 DEF Balanced, StatsAccountForExecutions
  <2>6. StatsAccountForRows'
    BY <1>1, <1>5, <2>1, <2>2, <2>4 DEF Balanced, StatsAccountForRows
  <2>7. stats'.sink_errors <= stats'.completed_executions
    BY <2>1, <2>2, <2>4 DEF Balanced
  <2>8. QED
    BY <2>5, <2>6, <2>7 DEF Balanced
<1>8. QED
  BY <1>6, <1>7 DEF AccountsInvariant

LEMMA FailureCounts ==
  ASSUME AccountsInvariant, HandleFailure, UNCHANGED historyVars
  PROVE  AccountsInvariant'
<1>1. /\ joined # None /\ joined \in Joined /\ joined.task.phase = "failed"
      /\ joined' = None
      /\ UNCHANGED <<now, loop, tasks, spawned, rows>>
      /\ stats \in Stats
  BY DEF AccountsInvariant, AccountsType, HandleFailure, historyVars
<1>2. joined.task \in Task /\ joined.task \notin RecordedTask
  BY <1>1 DEF Joined, RecordedTask
<1>3. /\ stats'.completed_executions = stats.completed_executions
      /\ stats'.sink_errors = stats.sink_errors
      /\ stats'.task_failures = Increment(stats.task_failures)
      /\ stats' \in Stats
  <2>1. stats' = [stats EXCEPT !.task_failures = Increment(@)]
    BY DEF HandleFailure
  <2>2. \A n \in 0..U64-1 : Increment(n) \in 0..U64-1
    BY SchedulerAssumption DEF Increment
  <2>3. QED
    BY <1>1, <2>1, <2>2 DEF Stats
<1>4. /\ Cardinality(Positions(tasks, Task)) \in Nat
      /\ Cardinality(Positions(tasks, RecordedTask)) \in Nat
  BY RecordedAreTasks, CountIsNumber DEF AccountsInvariant
<1>5. /\ Count(Task) = Count(Task)' + 1
      /\ Count(RecordedTask) = Count(RecordedTask)'
      /\ Count(Task)' \in Nat
  BY <1>1, <1>2, <1>4 DEF Count
<1>6. AccountsType' /\ IsFiniteSet(Positions(tasks', Task)) /\ NothingEndedBeforeRun'
  BY <1>1, <1>3 DEF AccountsInvariant, AccountsType, NothingEndedBeforeRun
<1>7. ASSUME spawned' < U64 PROVE Balanced'
  <2>1. Balanced
    BY <1>1, <1>7 DEF AccountsInvariant
  <2>2. /\ stats.completed_executions \in Nat /\ stats.task_failures \in Nat
        /\ spawned \in Nat /\ U64 \in Nat
    BY <1>1, SchedulerAssumption DEF AccountsInvariant, AccountsType, Stats
  <2>3. stats.task_failures + 1 < U64
    BY <1>1, <1>5, <1>7, <2>1, <2>2 DEF Balanced, StatsAccountForExecutions
  <2>4. stats'.task_failures = stats.task_failures + 1
    BY <1>3, <2>3 DEF Increment
  <2>5. StatsAccountForExecutions'
    BY <1>1, <1>3, <1>5, <2>1, <2>2, <2>4 DEF Balanced, StatsAccountForExecutions
  <2>6. QED
    BY <1>1, <1>3, <1>5, <2>1, <2>5 DEF Balanced, StatsAccountForRows
<1>8. QED
  BY <1>6, <1>7 DEF AccountsInvariant

LEMMA NextAccounts ==
  ASSUME IsFiniteSet(CheckIds)
  PROVE  AccountsInvariant /\ [NextHistory]_<<vars, historyVars>> => AccountsInvariant'
<1> SUFFICES ASSUME AccountsInvariant, [NextHistory]_<<vars, historyVars>>
             PROVE  AccountsInvariant'
  OBVIOUS
<1>1. now \in Nat
  BY DEF AccountsInvariant, AccountsType, Instant
<1>2. CASE SpawnAndCount
  BY <1>2, SpawnCounts
<1>3. ASSUME NEW c \in CheckIds, NEW i \in DOMAIN tasks[c], RecordAndCount(c, i)
      PROVE  AccountsInvariant'
  BY <1>3, RecordCounts
<1>4. ASSUME Uncounted, UNCHANGED historyVars PROVE AccountsInvariant'
  <2>1. ASSUME NEW c \in CheckIds, NEW cfg \in CheckConfig,
               Register(c, cfg) \/ Reregister(c, cfg)
        PROVE  AccountsInvariant'
    BY <1>1, <1>4, <2>1, QuietCounts DEF Register, Reregister, historyVars, Instant
  <2>2. CASE Run
    BY <1>4, <2>2, RunCounts
  <2>3. CASE ShutdownResolves \/ Tick \/ Return
    BY <1>1, <1>4, <2>3, QuietCounts DEF ShutdownResolves, Tick, Return, historyVars, Instant
  <2>4. ASSUME NEW c \in CheckIds, JoinNext(c) PROVE AccountsInvariant'
    BY <1>4, <2>4, JoinCounts
  <2>5. CASE HandleCompletion
    BY <1>4, <2>5, CompletionCounts
  <2>6. CASE HandleFailure
    BY <1>4, <2>6, FailureCounts
  <2>7. ASSUME NEW c \in CheckIds, NEW i \in DOMAIN tasks[c], ExecuteReturns(c, i) \/ Panic(c, i)
        PROVE  AccountsInvariant'
    BY <1>4, <2>7, TaskCounts
  <2>8. CASE ResolveShutdown \/ TimePasses \/ Terminated
    BY <1>1, <1>4, <2>8, QuietCounts
       DEF ResolveShutdown, TimePasses, Terminated, vars, historyVars, Instant
  <2>9. QED
    BY <1>4, <2>1, <2>2, <2>3, <2>4, <2>5, <2>6, <2>7, <2>8 DEF Uncounted
<1>5. CASE UNCHANGED <<vars, historyVars>>
  BY <1>1, <1>5, QuietCounts DEF vars, historyVars, Instant
<1>6. QED
  BY <1>2, <1>3, <1>4, <1>5 DEF NextHistory

THEOREM AccountsAreInvariant ==
  ASSUME IsFiniteSet(CheckIds)
  PROVE  SpecHistory => []AccountsInvariant
<1>1. InitHistory => AccountsInvariant
  BY InitAccounts
<1>2. AccountsInvariant /\ [NextHistory]_<<vars, historyVars>> => AccountsInvariant'
  BY NextAccounts
<1>3. QED
  BY <1>1, <1>2, PTL DEF SpecHistory

(* However many checks, entries replaced in use, panics and interleavings: *)
(* every execution started is a completed one, a failure, or still on its  *)
(* way, as long as fewer than 2^64 were started.                           *)
THEOREM ExecutionsAreAccountedFor ==
  ASSUME IsFiniteSet(CheckIds)
  PROVE  SpecHistory => [](spawned < U64 => StatsAccountForExecutions)
<1>1. AccountsInvariant => (spawned < U64 => StatsAccountForExecutions)
  BY DEF AccountsInvariant, Balanced
<1>2. QED
  BY <1>1, AccountsAreInvariant, PTL

(* What the counters of a run say of the sink is what the sink holds.      *)
THEOREM RowsAreAccountedFor ==
  ASSUME IsFiniteSet(CheckIds)
  PROVE  SpecHistory => [](spawned < U64 => StatsAccountForRows)
<1>1. AccountsInvariant => (spawned < U64 => StatsAccountForRows)
  BY DEF AccountsInvariant, Balanced
<1>2. QED
  BY <1>1, AccountsAreInvariant, PTL
=============================================================================
