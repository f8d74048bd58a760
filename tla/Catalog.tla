------------------------------ MODULE Catalog ------------------------------
(***************************************************************************)
(* The values commands put into the database and get out of it again: what *)
(* the domain accepts, how it is written to columns, what the schema       *)
(* accepts, and what reading makes of the rows.  Commands run one after    *)
(* the other here; module Application interleaves them and leaves the      *)
(* values out.                                                             *)
(***************************************************************************)
EXTENDS Mapping

CONSTANTS
  ProjectIds, ServiceIds, CheckIds,  \* Uuids
  None,                              \* no row
  IntervalUnit, U32Max, DurationMax, \* as in SchedulerState
  LatestInstant,                     \* when the scheduler completes a check, at the latest
  InstantMax                         \* the last Instant there is

(* An Instant has i64 seconds and a Duration u64 seconds, and the machine  *)
(* has not been up for nearly as long as an Instant can tell.              *)
ASSUME CatalogAssumption ==
  /\ IntervalUnit \in Nat \ {0} /\ U32Max \in Nat \ {0}
  /\ LatestInstant \in Nat /\ InstantMax \in Nat /\ DurationMax \in Nat
  /\ LatestInstant + U32Max * IntervalUnit <= InstantMax
  /\ InstantMax <= DurationMax

(* A Uuid is drawn once, whatever it is for.                               *)
ASSUME IdAssumption ==
  /\ CheckIds \cap (ProjectIds \cup ServiceIds) = {}
  /\ None \notin Text /\ None \notin Check

Sched == INSTANCE SchedulerState WITH Intervals <- Nat \ {0}

VARIABLES
  names,     \* projects.name and services.name, by id
  rows,      \* the rows of checks, by id
  returned,  \* per id, the value the caller was given when it was written
  outcome    \* how the last command ended

catalogVars == <<names, rows, returned, outcome>>

Init ==
  /\ names = [id \in ProjectIds \cup ServiceIds |-> None]
  /\ rows = [c \in CheckIds |-> None]
  /\ returned = [id \in ProjectIds \cup ServiceIds \cup CheckIds |-> None]
  /\ outcome = "none"

-----------------------------------------------------------------------------
(* Rows of checks.                                                         *)

Row ==
  [kind : {"HTTP"}, url : Text, expected_status : Int,
   interval_seconds : Int, timeout_ms : Int, enabled : {0, 1}]

ASSUME RowAssumption == Err \notin Row /\ None \notin Row

(* The parameters CheckRepository::insert binds.                           *)
CheckToRow(check) ==
  LET interval == U64ToDb(check.interval_seconds)
      timeout  == U64ToDb(check.timeout_ms)
  IN  IF interval = Err \/ timeout = Err
      THEN Err
      ELSE [kind |-> "HTTP", url |-> check.kind.url,
            expected_status |-> check.kind.expected_status,
            interval_seconds |-> interval, timeout_ms |-> timeout,
            enabled |-> IF check.enabled THEN 1 ELSE 0]

(* The CHECK constraints of the table.                                     *)
MeetsConstraints(row) ==
  /\ row.kind = "HTTP"
  /\ row.expected_status \in 100..599
  /\ row.interval_seconds > 0
  /\ row.timeout_ms > 0
  /\ row.enabled \in {0, 1}

CheckFromRow(row) ==
  LET kind     == CheckKindFromDb(row.kind, row.url, row.expected_status)
      interval == U64FromDb(row.interval_seconds)
      timeout  == U64FromDb(row.timeout_ms)
  IN  IF kind = Err \/ interval = Err \/ timeout = Err
      THEN Err
      ELSE CheckFromPersisted(kind, interval, timeout, row.enabled # 0)

(* rows.iter().map(from_row).collect(): one bad row and there is no list.  *)
Collect(values) ==
  IF \E id \in DOMAIN values : values[id] = Err THEN Err ELSE values

-----------------------------------------------------------------------------
(* Reading.  Which service belongs to which project, and which check to    *)
(* which service, is in module Persistence.                                *)

NamedRows(ids) ==
  Collect([id \in {i \in ids : names[i] # None} |-> ValidateName(names[id])])

ListProjects == NamedRows(ProjectIds)

ListServices == NamedRows(ServiceIds)

ChecksOf(found) == Collect([c \in found |-> CheckFromRow(rows[c])])

ListChecks == ChecksOf({c \in CheckIds : rows[c] # None})

ListEnabled == ChecksOf({c \in CheckIds : rows[c] # None /\ rows[c].enabled = 1})

-----------------------------------------------------------------------------
(* project create, service create                                          *)
CreateNamed(id, name) ==
  LET value == ValidateName(name) IN
    /\ names[id] = None
    /\ outcome' = IF value = Err THEN "rejected" ELSE "created"
    /\ names' = [names EXCEPT ![id] = IF value = Err THEN @ ELSE value]
    /\ returned' = [returned EXCEPT ![id] = IF value = Err THEN @ ELSE value]
    /\ UNCHANGED rows

CreateProject(p, name) == CreateNamed(p, name)

CreateService(s, name) ==
  /\ \E p \in ProjectIds : names[p] # None
  /\ CreateNamed(s, name)

(* check http, up to and including the insertion of the check.             *)
InsertOutcome(check) ==
  IF check = Err THEN "rejected"
  ELSE IF CheckToRow(check) = Err THEN "out of range"
  ELSE IF ~MeetsConstraints(CheckToRow(check)) THEN "constraint"
  ELSE "created"

CreateHttpCheck(c, url, expected_status, interval_seconds, timeout_ms) ==
  LET check == NewCheck(HttpKind(url, expected_status), interval_seconds, timeout_ms)
      ended == InsertOutcome(check)
  IN  /\ \E s \in ServiceIds : names[s] # None
      /\ rows[c] = None
      /\ outcome' = ended
      /\ rows' = [rows EXCEPT ![c] = IF ended = "created" THEN CheckToRow(check) ELSE @]
      /\ returned' = [returned EXCEPT ![c] = IF ended = "created" THEN check ELSE @]
      /\ UNCHANGED names

(* check enable, check disable: the row is read first, and must be valid.  *)
SetCheckEnabled(c, enabled) ==
  /\ rows[c] # None
  /\ CheckFromRow(rows[c]) # Err
  /\ rows' = [rows EXCEPT ![c].enabled = IF enabled THEN 1 ELSE 0]
  /\ returned' = [returned EXCEPT ![c].enabled = enabled]
  /\ outcome' = "set"
  /\ UNCHANGED names

(* The numbers a command line may hold, at the edges of what is accepted.  *)
Statuses  == {0, 99, 100, 599, 600, U16Max}
Seconds   == {0, 1, U32Max, U32Max + 1, I64Max, I64Max + 1}
Millis    == {0, 1, I64Max, I64Max + 1}

Next ==
  \/ \E p \in ProjectIds, name \in Text : CreateProject(p, name)
  \/ \E s \in ServiceIds, name \in Text : CreateService(s, name)
  \/ \E c \in CheckIds, url \in Text, expected_status \in Statuses,
        interval_seconds \in Seconds, timeout_ms \in Millis :
       CreateHttpCheck(c, url, expected_status, interval_seconds, timeout_ms)
  \/ \E c \in CheckIds, enabled \in BOOLEAN : SetCheckEnabled(c, enabled)

Spec == Init /\ [][Next]_catalogVars

-----------------------------------------------------------------------------
Given(ids) == [id \in {i \in ids : returned[i] # None} |-> returned[id]]

(* Every list is what the callers were given when they wrote: validation,  *)
(* mapping to columns, constraints and mapping back compose to nothing,    *)
(* trimming included.  In particular no command can store a row that does  *)
(* not load, which would take every other check away from list_enabled     *)
(* and so from every monitor.                                              *)
CommandsStoreWhatTheyReturn ==
  /\ ListProjects = Given(ProjectIds)
  /\ ListServices = Given(ServiceIds)
  /\ ListChecks = Given(CheckIds)
  /\ ListEnabled = [c \in {i \in CheckIds : returned[i] # None /\ returned[i].enabled}
                      |-> returned[c]]

(* The rules for a check are written down twice, in crates/core and in the *)
(* schema: what the domain accepts and a column can hold, the schema       *)
(* accepts, so that a user sees a domain error and never one of SQLite.    *)
ValidationMatchesSchema == outcome # "constraint"

(* A monitor can schedule every check that was stored: the delay its       *)
(* interval is clamped to is positive, added to the clock it is still an   *)
(* Instant (the sum would panic in the loop), and up to u32::MAX seconds   *)
(* it is the interval itself.                                              *)
AcceptedIntervalsAreScheduled ==
  \A c \in {i \in CheckIds : rows[i] # None} :
    LET interval == CheckFromRow(rows[c]).interval_seconds
        delay    == Sched!IntervalDuration(interval)
    IN  /\ delay > 0
        /\ LatestInstant + delay <= InstantMax
        /\ interval <= U32Max => delay = interval * IntervalUnit
=============================================================================
