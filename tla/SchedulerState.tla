--------------------------- MODULE SchedulerState ---------------------------
(***************************************************************************)
(* The table of crates/server/src/scheduler/state.rs: a HashMap from check *)
(* id to ScheduledCheck, and the three operations the scheduler performs   *)
(* on it while it holds the mutex.  A table is a total function here; an   *)
(* id the HashMap has no entry for is mapped to None.                      *)
(***************************************************************************)
EXTENDS Integers

CONSTANTS
  CheckIds,      \* the Uuids a check may have
  None,          \* Rust's Option::None
  Intervals,     \* the values of interval_seconds that are registered
  IntervalUnit,  \* SchedulerConfig::interval_unit, in clock units
  U32Max,        \* u32::MAX
  DurationMax    \* Duration::MAX, in clock units

(* Check::new and Check::from_persisted reject a zero interval, and both   *)
(* durations of SchedulerConfig::default are positive.                     *)
ASSUME StateAssumption ==
  /\ Intervals \subseteq Nat \ {0}
  /\ IntervalUnit \in Nat \ {0}
  /\ U32Max \in Nat \ {0}
  /\ DurationMax \in Nat \ {0}
  /\ None \notin Nat
  /\ None \notin CheckIds

(* An Instant: a reading of the monotonic clock.                           *)
Instant == Nat

(* The part of a Check the scheduler looks at.                             *)
CheckConfig == [enabled : BOOLEAN, interval_seconds : Intervals]

ScheduledCheck ==
  [check          : CheckConfig,
   next_due       : Instant,
   running        : BOOLEAN,
   last_started   : Instant \cup {None},
   last_completed : Instant \cup {None}]

ASSUME NoneAssumption == None \notin ScheduledCheck

Table == [CheckIds -> ScheduledCheck \cup {None}]

EmptyTable == [c \in CheckIds |-> None]

(* Faulty variant of IntervalDuration: Duration::from_secs, no clamp.      *)
IntervalDurationUnclamped(seconds) == seconds * IntervalUnit

(* interval_duration: the seconds are clamped to a u32 and the product to  *)
(* Duration::MAX; neither clamp is reported.                               *)
IntervalDuration(seconds) ==
  LET units   == IF seconds <= U32Max THEN seconds ELSE U32Max
      product == units * IntervalUnit
  IN  IF product <= DurationMax THEN product ELSE DurationMax

(* ScheduledCheck::new                                                     *)
NewScheduledCheck(cfg, now) ==
  [check |-> cfg, next_due |-> now, running |-> FALSE,
   last_started |-> None, last_completed |-> None]

(* SchedulerState::register is HashMap::insert: an entry already there,    *)
(* running or not, is replaced.                                            *)
RegisterCheck(table, c, cfg, now) ==
  [table EXCEPT ![c] = NewScheduledCheck(cfg, now)]

(* Faulty variant of IsDue: the running flag is not looked at.             *)
IsDueThoughRunning(entry, now) ==
  entry # None /\ entry.check.enabled /\ entry.next_due <= now

(* The guard of the loop in claim_due_checks.                              *)
IsDue(entry, now) ==
  /\ entry # None
  /\ entry.check.enabled
  /\ ~entry.running
  /\ entry.next_due <= now

DueChecks(table, now) == {c \in CheckIds : IsDue(table[c], now)}

(* SchedulerState::claim_due_checks, one critical section for all checks.  *)
ClaimDueChecks(table, now) ==
  [c \in CheckIds |->
     IF IsDue(table[c], now)
     THEN [table[c] EXCEPT !.running = TRUE, !.last_started = now]
     ELSE table[c]]

(* Faulty variant of CompleteCheck: a fixed rate instead of a fixed delay. *)
CompleteCheckAtFixedRate(table, c, completed_at) ==
  IF table[c] = None
  THEN table
  ELSE [table EXCEPT
          ![c].running = FALSE,
          ![c].last_completed = completed_at,
          ![c].next_due =
             table[c].last_started + IntervalDuration(table[c].check.interval_seconds)]

(* SchedulerState::complete: nothing happens for an id without an entry.   *)
CompleteCheck(table, c, completed_at) ==
  IF table[c] = None
  THEN table
  ELSE [table EXCEPT
          ![c].running = FALSE,
          ![c].last_completed = completed_at,
          ![c].next_due =
             completed_at + IntervalDuration(table[c].check.interval_seconds)]
=============================================================================
