# HealthCheck in TLA+

A specification of the HealthCheck server (`crates/server`, `crates/core`): the
fixed-delay scheduler, the start-up of the database, the commands on it, the
values they store and the status reports. TLC checks the modules on small
instances; TLAPS proves, for every instance, the safety properties of the
scheduler and that it implements an abstract fixed-delay scheduler, and those of
start-up, commands, reports and stored values.

`PROJECT.json` lists components, runs, the code lines behind every definition,
the hazards each property is aimed at, and the findings. Run a check with
`tlc -config <run>.cfg <module>` and a proof with `tlapm <module>.tla`.

## 1. The system

### Components

| component | state | operations | correct when |
|---|---|---|---|
| scheduler table (`scheduler/state.rs`) | per check: configuration, `next_due`, `running`, `last_started`, `last_completed` | `register`, `claim_due_checks`, `complete` | a check is claimed only when due and idle; the next due time is completion plus interval |
| run loop (`scheduler/runtime.rs`) | ticker, `JoinSet` of tasks, `SchedulerRunStats` | `run_until_shutdown`, `spawn_due_checks`, `handle_task_completion`, the task body | no overlap, no lost completion, checks recur, shutdown drains, counters add up |
| check execution (`execution/`) | HTTP client | `execute` | every outcome becomes a result |
| result sinks (`results/`) | SQLite rows, or a `Vec` | `record`, `clear`, queries | a result is stored or its loss counted; the table tells by instant what the vector has by arrival |
| application (`application.rs`) | none of its own | open; create, list, enable, monitor, report commands | lookups stay valid between statements; a monitor runs what was enabled; a created check has a result |
| repositories and schema (`persistence/*_repository.rs`, migration) | four tables | one statement per repository method | keys hold; latest and recent results follow one order |
| connection and migrations (`persistence/database.rs`) | the file, its directory | create, connect, migrate | no command sees a database without tables; the path stays usable |
| row mapping (`persistence/mapping.rs`) | none | conversions of numbers, enums, timestamps | what was written is read back; text order is time order |
| reporting (`reporting.rs`) | none | `service_health`, `project_summary` | a report is not older than its start and agrees with itself |
| domain types (`crates/core`) | values | validating constructors | intervals are positive, a new check is enabled |
| command line (`main.rs`) | none | parse, run, print | Ctrl+C resolves the shutdown future |
| agent, protocol crates | none | empty placeholders | |

### How they interact

`main` runs one command per process. Commands share nothing but the database
file. `monitor_until` reads the enabled checks once, registers them and runs the
scheduler until Ctrl+C. On each tick the scheduler claims the due checks under a
`tokio::sync::Mutex` and spawns a task for each. A task executes its check,
hands the result to the sink, reads the clock and ends. The loop takes ended
tasks out of the `JoinSet` and completes their table entries under the mutex
again. Reports are sequences of single reads without a transaction.

### What is hard

* The running mark is set in one critical section and cleared in another, by
  another branch of `select!`, after a task that may end, fail to record, panic
  or hang; shutdown may win the `select!` at any point.
* The end of an execution is dated by the task and applied later by the loop.
* Due times are looked at on ticks only, while executions overlap in time; a tick
  that is served late moves all later ones (`MissedTickBehavior::Delay`).
* Commands of several processes interleave statement by statement and may end
  between two statements; reports read while others write.
* The wall clock that dates results repeats and may be set back, and the latest
  result is the one with the latest date, not the last one recorded.
* Several first commands create and migrate one file at once, and may be killed.
* What is valid is written down twice, in the domain and in the schema, and
  columns are narrower than the values; one row that does not load takes the
  whole list away.

`PROJECT.json` lists these as hazards, each at its line, with the properties
that would catch it. Two have no property: that two processes may execute the
same check at the same time, which no document excludes, and how far late ticks
stretch a period, which nothing bounds.

## 2. Modules

| module | models | uses |
|---|---|---|
| `SchedulerState` | `state.rs`, as operators on the table | |
| `Scheduler` | `runtime.rs`: loop, tasks, caller, shutdown, clock | `SchedulerState` |
| `FixedDelay` | abstract: what the scheduler promises | |
| `SchedulerRefinement` | the mapping from `Scheduler` to `FixedDelay` | `Scheduler`, `FixedDelay` |
| `SchedulerHistory` | counts spawns and rows next to `Scheduler` | `Scheduler` |
| `SchedulerLive` | an endless clock, hung executions, a second run, fairness | `Scheduler` |
| `SchedulerPrompt` | a machine that keeps up with its load | `Scheduler` |
| `Startup` | `open`: directory, file, migration, several processes | |
| `Persistence` | tables, keys and statements | |
| `Reporting` | `aggregate_status`, the status of a service | `Persistence` |
| `Application` | commands of several processes, a statement per step | `Reporting` |
| `CommandHistory`, `MCCommands` | what reports and monitors began with; symmetry for TLC | `Application` |
| `Domain` | the validating constructors of `crates/core` | |
| `Mapping` | conversions between values and columns | `Domain` |
| `Catalog` | what commands store and lists return, with the schema's constraints | `Mapping`, `SchedulerState` |
| `Results` | the two result sinks side by side | `Mapping` |
| `SchedulerProofs` | the inductive invariant and what follows from it | `Scheduler` |
| `SchedulerTimingProofs` | the refinement of `FixedDelay` and promptness as theorems | `SchedulerRefinement`, `SchedulerPrompt`, `SchedulerProofs` |
| `StatsProofs` | theorems about `SchedulerRunStats` | `SchedulerHistory`, `SchedulerProofs` |
| `ApplicationProofs` | theorems about aggregation, the reads of results and the commands | `Application` |
| `CommandHistoryProofs` | theorems about reports and monitors | `CommandHistory`, `ApplicationProofs` |
| `CatalogProofs`, `ResultsProofs`, `StartupProofs` | theorems about these modules | the module each is named for |

The database is split by what can go wrong: `Application` interleaves processes
and keeps only keys, statuses and the order of results; `Catalog` and `Results`
keep the values and run one statement at a time; `Startup` ends where a command
begins.

### Scheduler: correspondence with the code

The variables `checks`, `tasks`, `stats`, `nextTick`, `shutdown` and `now` are
the table behind the mutex, `running_tasks`, `stats`, the ticker's deadline, the
shutdown future and the monotonic clock. `loop` is the position of
`run_until_shutdown`; `joined` holds what `join_next` has returned until the
mutex is granted and `handle_task_completion` applies it. A task is awaiting
`execute`, awaiting `record`, `done` or `failed`.

| action | code |
|---|---|
| `Register`, `Reregister` | `Scheduler::register` of a new id, of an id in use |
| `Run` | entry of `run_until_shutdown` |
| `ShutdownResolves`, `Tick`, `JoinNext` | the branches of `select!`; `JoinNext` also the drain |
| `SpawnDueChecks` | `spawn_due_checks` from the grant of the mutex: claim and spawn |
| `HandleCompletion`, `HandleFailure` | the two arms of `handle_task_completion` |
| `Return` | the end of the drain |
| `ExecuteReturns`, `RecordReturns`, `Panic` | the task body between its awaits; a panic in executor or sink |
| `ResolveShutdown`, `TimePasses` | the environment |
| `SchedulerLive!Rerun` | a second call of `run_until_shutdown` after the first returned |

Every `.await` is a boundary between steps, so registration, ends of tasks and
the clock come between a `select!` branch and the critical section behind it.
Claiming and spawning are one step because the code between them does not
await. The wait for the mutex is the gap between `Tick` and `SpawnDueChecks`,
and between `JoinNext` and `HandleCompletion`. `Next` registers each id once,
as `monitor_until` does; `NextOpen` is the whole public API. A panic is allowed
for the checks in `MayPanic`, a failing sink if `SinkMayFail`.

### Application: correspondence with the code

`projects`, `services`, `checks`, `results` are the tables. `cmd[p]` is the
local state of process `p`: which command, which statement comes next, what it
has read or made. A statement of a repository is one step; primary and foreign
keys are in its guard. A lookup that begins a command is its first step, and a
command whose lookup finds nothing, or whose input the domain rejects, does
nothing. `CommandEndsEarly` is a failing statement or a killed process.
`monitor` follows `FixedDelay` with the delays left out (a waiting check may
start at any time), so all schedules are covered. There is no wall clock: the id
of a result is its rank in the order of `(checked_at, id)`, which is all the
queries look at. A new result is the newest, or takes any free rank if
`ClockMayStepBack`. What commands do with the values they carry is in `Catalog`.

### Start-up, values and sinks: correspondence with the code

`Startup`: `Open` begins a command; `EnsureParentDirectory`, `Connect`,
`ReadApplied` and `Apply` are the steps of `DatabaseConfig`, `Database::connect`
and `Database::migrate`. The migrator is sqlx's and modelled from its use: what
is applied is read first, a migration and its version are one transaction, and
SQLite gives no lock around both. `Crash` may come between any two steps.

`Catalog`: `rows` holds columns, `returned` what the caller of each command was
given. `CreateHttpCheck` is validation (`HttpKind`, `NewCheck`), `CheckToRow`
and the constraints in the order of the code; each may refuse. Lists map rows
back with `CheckFromRow` and fail as a whole.

`Mapping`: a timestamp is a number of units; its text is a sequence of digits in
any `Base`, with a fraction of fixed width, compared character by character as
SQLite does.

`Results` feeds both sinks the same results. `ExecuteReturns` draws an id and an
instant, `Record` stores them later and in any order; executions of one check
overlap when it is registered again. `wall` is `Utc::now`: it moves on
(`TimePasses`), repeats, or is set back (`ClockStepsBack`). `memory` is the vector
of `InMemoryResultSink`, emptied by `clear`; `rows` is the table; the history
variable `recorded` is what was recorded of each check, in order.

## 3. Runs

| run | question | answer |
|---|---|---|
| `scheduler_safety` | types, no overlap, fixed delay, the inductive invariant, no mark lost or left behind, refinement of `FixedDelay` | holds |
| `scheduler_accounts` | do the returned counters account for every execution and every row, with ids registered again? | holds |
| `scheduler_live` | do steady checks recur, in a second run too, does shutdown end the run, is every end applied? | holds |
| `scheduler_prompt` | does a due check start within one tick, whatever else executes, if no tick is late? | holds |
| `startup` | is what a command opens migrated, and does every caller get in, whoever else creates or is killed? | holds |
| `commands` | types, lookups valid across statements, history against latest result, reports complete and as fresh as their beginning, monitors load what is enabled | holds |
| `catalog` | is what is stored what was returned, do domain and schema agree, can every stored interval be scheduled? | holds |
| `results` | does the table return what was recorded, by instant, and is that what the in-memory sink has exactly if it was recorded in that order? | holds |
| `panic_retires` | does every check recur? | no: finding 1 |
| `reregister_overlap` | no overlap under the whole public API? | no: finding 2 |
| `first_result` | has every created check a result? | no: finding 3 |
| `torn_report` | was a reported `HEALTHY` true at some moment? | no: finding 4 |

### Bounds

* Scheduler: two checks, the least for one to disturb another. `Horizon` stops
  the clock at 2 in `scheduler_safety`: with an interval of 1 a check ends,
  waits and starts again (the fixed delay is exercised), with an interval of 2
  its next start falls on the last instant. One of two checks may panic, the
  sink may fail. `U64 = 9` is never reached there; the wrap-around occurs in
  `scheduler_live`, where `U64 = 1` keeps the counters from multiplying states.
  `U32Max = DurationMax = 9` keep the clamps away in the runs; the lemma
  `IntervalDurationPositive` covers them.
* `scheduler_accounts` has `Horizon = 1` because open registration multiplies
  states: replaced entries, two tasks of one check and both failures occur.
* `scheduler_live` has the clock slide at `Horizon` instead of stopping: every
  stored instant moves one unit back. Its intervals and tick are within
  `Horizon`, so an instant that is cut off at 0 is due either way. No symmetry.
* `scheduler_prompt` has a tick of 2 and intervals of 1 and 3, not multiples of
  the tick, up to time 6: three ticks at any phase. Here nothing but waiting
  takes time, so a tick is never late and `MissedTickBehavior::Delay` never moves
  one; the other scheduler runs admit late ticks and check safety under them.
* `startup` has three processes, one to migrate and two to race it, and two
  crashes: the first file and the first migration may each be left half done.
* `commands` has two processes (one to disturb the other), one row per parent
  table, two checks, two results and a history limit of 1: an insertion between
  any two reads, and a history that has to leave a result out. The wall clock
  may step back. `first_result` needs one check only and takes histories of 0, 1
  and 2. `torn_report` needs three results: an unhealthy one of the check that the
  report lists, an unhealthy one of a check created after that list, and only
  then the recovery of the first, which the report reads. Symmetry over processes and check ids is
  sound, both being compared with `=` only and the properties being invariants.
* `catalog` keeps the order of the maxima of the code (status and `u16`, `u32`
  seconds, `i64`, `Instant`, `Duration`) with smaller values where TLC's
  integers are too narrow, and feeds every command both sides of every edge.
  Text is empty, blank, padded or proper. Two checks, so that one could spoil
  the list of the other.
* `results` has three results of two checks, two statuses and timestamps of one
  binary digit for seconds and one for the fraction: instants with and without
  a fraction, equal instants and inverted ones, of one check and of two.

Deadlock is checked in every run (`Terminated` marks the end of a scheduler run).

### Fairness (`SchedulerLive`)

* Weak fairness of loop code up to the next await, and of the mutex, which
  tokio grants in order of request.
* Strong fairness of each `select!` branch: `select!` starts polling at a random
  branch (there is no `biased`), so a branch that is ready again and again is
  taken again and again. Strong fairness of `JoinNext` per check: a `JoinSet`
  yields tasks in the order they finished.
* Weak fairness of `execute` for the checks outside `MayHang` (a request has a
  timeout) and of `record` (SQLite's busy timeout and the pool's bound it).
* Time passes. There is no fairness of registration, panic, shutdown or of a
  second run.

### Fairness (`Startup`)

A process that opens the database runs on until it is in or refused, and a
caller who was refused starts the command again. Crashes are bounded: a caller
who is killed every time never gets in.

### Findings

1. A panicking execution retires its check for good (`runtime.rs:159`; README:
   "runs recurring checks until stopped").
2. Registering an id in use can overlap its executions (`state.rs:22`;
   architecture.md: "naturally prevents overlapping executions"). The server
   itself registers each id once.
3. `create_http_check` can leave a check without its first result
   (`application.rs:191`; architecture.md: "the first result is saved before
   the command returns").
4. A report can mix moments and call a service `HEALTHY` though some enabled
   check was unhealthy at every moment from its first read to its last
   (`reporting.rs:98`; architecture.md: "an unhealthy enabled check makes the
   service unhealthy").

Three things are worth knowing that no run refutes:

* README.md:20 of the repository says that "every completed result" remains in
  SQLite. A result the sink refuses is logged and dropped, its check goes on;
  `StatsAccountForRows` shows that `sink_errors` counts every one.
* The comment at `runtime.rs:74` says a check is due `interval_seconds` after its
  completion. Above `u32::MAX` seconds `interval_duration` clamps without a word;
  `AcceptedIntervalsAreScheduled` shows that what comes of it is a delay the
  clock can take, not that it is the interval that was asked for.
* The latest result of a check is the one with the latest instant and, of equal
  instants, the greatest id (`result_repository.rs:46`). After the clock was set
  back, or at equal instants, that need not be the last one recorded, which is
  what the in-memory sink returns. `SinksAgree` says when the two differ.

## 4. Proofs

`SchedulerProofs` assumes what the constants' ASSUMEs say: positive intervals,
tick, unit and clamps, and that `None` is no other value. There is no
assumption on the number of checks, and `Horizon` is any natural number.

`NoOverlap` is not inductive: it speaks of executing tasks only, and a step of
the table could claim a check whose task is finished but not applied.
`SchedulerInvariant` adds `MarksFollowTasks` (a check has at most one task, and
as long as the task is in the `JoinSet` or on its way to the table the entry is
marked running), `CompletionsAreDated` and `IdleEntriesWait` (an idle entry that
completed once is due one interval after that). The last is why the fixed delay
survives a claim: `next_due <= now` at the claim gives
`last_started >= last_completed + interval`. `InitInvariant` and
`NextInvariant` (one lemma per group of actions, on top of sequence lemmas
about replacing and removing a task) give:

* `SchedulerIsInvariant`: `Spec => []SchedulerInvariant`
* `TypeCorrect`: `Spec => []TypeOK`
* `ExecutionsNeverOverlap`: `Spec => []NoOverlap`
* `DelayIsKept`: `Spec => []FixedDelayKept`

`SchedulerTimingProofs` builds on that invariant: `SchedulerImplementsFixedDelay`
is `Spec => ImplementsFixedDelay`. Claim and spawn map to starts, the end of a
task to the end of its execution; joining the task and completing its table
entry are stutters, because the mapping reads an execution off the table only
when `MarksFollowTasks` leaves no task to read it off.

`StatsProofs` is about the counters of a run.

* `RetiredOnlyByFailures`: `Spec => []OnlyFailuresRetireChecks`, an equation
  between a cardinality and a counter. It assumes finitely many checks and a
  counter that can count them all (with more, `+= 1` on the `u64` wraps). It
  needs `NothingMarkedBeforeRun`, because `Run` clears the counters.
* `ExecutionsAreAccountedFor` and `RowsAreAccountedFor`: `SpecHistory =>
  [](spawned < U64 => StatsAccountForExecutions)`, and the same for
  `StatsAccountForRows`, for finitely many checks. With `U64 = 2^64` the
  hypothesis is that fewer executions were started than the counter can tell
  apart; without it the equations are false, since the counters wrap. Here
  registration is open, so a check may have any number of tasks and
  `SchedulerInvariant` does not hold; the proof does without it.
  `AccountsInvariant` adds that the set of positions in the `JoinSet` is finite,
  that nothing has ended before `Run` clears the counters, and that there are no
  more sink errors than completed executions, which is why `sink_errors` cannot
  wrap before `completed_executions` does. What moves a task is a lemma on
  positions: `SpawnCounted` (one new position per due check), `StaysCounted`,
  `BecomesCounted`, and `TakingOut` (those behind a removed task move up, which
  is a bijection to the positions that are left).

`SchedulerTimingProofs` also proves both properties of `SchedulerPrompt`,
`DueChecksStartPromptly` and `PeriodStaysBounded`. The invariant says where the
next tick is: never in the past, at most one tick ahead, and at most one tick
after the due time of any entry that waits (`TickIsNear`, `TickIsServed`); and
that an ended task has ended just now (`EndsAreRecent`), so that a completion
that is applied makes its check due in the future only.

`ApplicationProofs` first shows what the read model computes. `aggregate_status`
returns the most severe status it is given (`AggregateIsMostSevere`), another
check never improves a status (`AggregateIsMonotonic`), and aggregating per
service and then per project is the same as over all checks if no service is
empty (`ProjectStatusIsThatOfAllChecks`). The latest result is a CHOOSE: that
there is one in every finite table is an induction over that table, made as an
argument from a smallest counterexample (`SmallestSubset`, from the
well-foundedness of the order on the naturals), because the induction theorems
of the library cannot be instantiated. `RecentCovers` says the same of a
history with a limit.

The commands then have one inductive invariant, `CommandInvariant`: the tables
keep their types and results are finite and have distinct ids; what a command
in progress refers to is in the tables, for rows of parents are never removed
(`Grounded`); what it is about to record is a result (`Carries`); and the
history it has read begins no older than the latest result it has read before
(`Covers`), for results are never removed either. From it follow, for any number
of processes, any of them ended anywhere, and any history limit:

* `ApplicationTypeOK`: `Spec => []TypeOK`
* `LookupsStayValidAlways`: `Spec => []LookupsStayValid`
* `HistoryAlwaysCoversLatest`: `Spec => []HistoryCoversLatest`

`CommandHistoryProofs`: `ReportsAreFresh` and `MonitorsAlwaysReload`, `SpecHistory
=> []ReportIsFresh` and `SpecHistory => []MonitorsReload`. `HistoryInvariant`
extends the two properties, which speak of a finished report and a loaded
monitor, to every statement in between: the services a report was asked for are
those it is going to cover, of the services visited so far every check of the
beginning is listed, of the checks read so far nothing older than
the beginning is shown (`IsFresh`), and while a monitor loads, what was enabled
throughout is enabled now and what is enabled now was so at some time
(`IsCurrent`).

`CatalogProofs`: its invariant says that every row maps to the value the caller
was given, is accepted by the domain and meets the constraints. From it follow
`ListsReturnWhatWasCreated`, `SchemaIsNeverMet` and `StoredIntervalsAreScheduled`,
for all widths of integers in the order the code has them, which is what the
smaller maxima of the run leave open.

`ResultsProofs`: `RecentAlwaysByInstant`, `Spec => []RecentIsByInstant`, and
`SinksAlwaysAgree`, `Spec => []SinksAgree`, for every base and number of digits of
a timestamp, any number of checks and results and any movement of the clock. It
has four parts.

* *What the text of a timestamp does.* `Power`, `ValueOf` and `ResultsOf` are
  recursive functions; that they exist, and have one value at every number, is
  shown from the least number of a set (`LeastNumber`, `UpTo`, `RecursionOnNat`,
  `KeptExists`, `KeptAgree`), as induction theorems cannot be instantiated. From
  what a digit is (`DropDigit`) follow `TimestampRoundTrip`, reading a timestamp
  gives what was written, and `TextFollowsTime`, texts are ordered as the instants
  are. The second is what `SecondsFormat::AutoSi` would break.
* *What the sinks hold.* `SinksInv`: the rows of a check are those of its recorded
  results, which have distinct ids (`Written`); the vector has the end of what was
  recorded, all of it unless `clear` came between (`EndOf`); and a result in
  flight has an id no row has (`FreshIds`). Nothing in it is about the clock.
* *What the ORDER BY returns.* `ComesBefore` is a strict total order on the rows of
  a check (`ComesBeforeIsLater`, `LaterIsOrder`), so a row has fewer rows before it
  than there are (`RankBound`), no two have as many (`OneRankEach`), and therefore
  each number of them occurs (`EveryRankTaken`, by a pigeonhole argument). The
  CHOOSE for each place of the list has one row to take, and every row is taken:
  `RecentIsReadBack`.
* *When the two orders are one.* If the results the vector has are each later than
  all recorded before, they are where they should be in the table's list: at the
  least place where one is not, it would come behind another result that is
  neither before nor after it (`OrderGivesSame`). If the lists agree, the table's
  order read backwards is the order of recording (`SameGivesOrder`).

`StartupProofs`: `OpenIsMigrated`; a migrated file stays migrated, and only a
migrator comes to an open database.

Only model-checked:

* liveness (`SchedulerLive`, `EveryCallerOpens`): out of the prover's reach;
* what the four violation runs refute.

## 5. Not modelled

* Argument parsing and printing: presentation without state of its own. The
  values arguments may have are the inputs of `Catalog` and `Application`.
* The HTTP exchange: outside the program; its four kinds of outcome are inputs.
* `duration_ms`, `error` and `created_at`: nothing is ordered or decided by them.
* `UNKNOWN` and `DEGRADED` results: `CheckKind` has one variant, so the HTTP
  executor produces neither. Aggregation and the mapping cover them.
* Dropping the future of `run_until_shutdown` while tasks execute.
* The compiled-in directory of the migrations.
* The `agent` and `protocol` crates: empty.

## 6. Plan

Done: the scheduler with its accounts, liveness, promptness and second runs,
and all its safety properties proved, refinement and accounts included;
start-up, commands, stored values, sinks and reports checked, and all their
safety properties proved. Open:

1. The monitor composed with `Scheduler` in place of its summary in
   `Application`, so that loaded checks, ticks and rows are in one model.
2. A run that is dropped while tasks execute (`JoinSet` aborts them), and what
   the table has left for the next.
