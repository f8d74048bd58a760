------------------------------ MODULE Results ------------------------------
(***************************************************************************)
(* The two result sinks, fed with the same results: the vector of          *)
(* InMemoryResultSink, in the order of the record calls, and the rows of   *)
(* SqliteResultSink, in the order of what is written in them.  duration_ms *)
(* and error are left out: nothing is ordered or decided by them.          *)
(***************************************************************************)
EXTENDS Mapping, FiniteSets

CONSTANTS
  CheckIds,   \* Uuids of checks
  ResultIds,  \* Uuids of results: numbers, ordered as their text is
  None,       \* Option::None
  Statuses    \* the variants of HealthStatus that occur

ASSUME ResultsAssumption ==
  /\ ResultIds \subseteq Nat
  /\ Statuses \subseteq DOMAIN StatusText

VARIABLES
  memory,    \* InMemoryResultSink: the vector behind its mutex
  rows,      \* the table check_results
  inFlight,  \* the results whose tasks have yet to record them
  wall,      \* the clock behind Utc::now
  recorded   \* history, per check: all that was recorded, in order

resultsVars == <<memory, rows, inFlight, wall, recorded>>

Init ==
  /\ memory = <<>>
  /\ rows = {}
  /\ inFlight = {}
  /\ wall = 0
  /\ recorded = [c \in CheckIds |-> <<>>]

-----------------------------------------------------------------------------
(* InMemoryResultSink                                                      *)

ResultsOf(c, s) ==
  LET kept[i \in 0..Len(s)] ==
        IF i = 0 THEN <<>>
        ELSE IF s[i].check_id = c THEN Append(kept[i - 1], s[i]) ELSE kept[i - 1]
  IN  kept[Len(s)]

ResultsForCheck(c) == ResultsOf(c, memory)

LatestInMemory(c) ==
  LET found == ResultsForCheck(c) IN IF found = <<>> THEN None ELSE Last(found)

-----------------------------------------------------------------------------
(* SqliteResultSink                                                        *)

ResultToRow(r) ==
  [id |-> r.id, check_id |-> r.check_id,
   checked_at |-> TimestampToDb(r.checked_at), status |-> StatusToDb(r.status)]

ResultFromRow(row) ==
  [id |-> row.id, check_id |-> row.check_id,
   checked_at |-> TimestampFromDb(row.checked_at), status |-> StatusFromDb(row.status)]

(* Faulty variant of ComesBefore: the second DESC is missing.              *)
ComesBeforeIdAscending(row, other) ==
  \/ TextBefore(other.checked_at, row.checked_at)
  \/ row.checked_at = other.checked_at /\ row.id < other.id

(* ORDER BY checked_at DESC, id DESC, over columns of type TEXT.           *)
ComesBefore(row, other) ==
  \/ TextBefore(other.checked_at, row.checked_at)
  \/ row.checked_at = other.checked_at /\ row.id > other.id

(* recent_for_check with no limit below the number of rows: the i-th has   *)
(* i - 1 rows before it.  latest_for_check is the first of them.           *)
Before(row, found) == {other \in found : ComesBefore(other, row)}

RecentForCheck(c) ==
  LET found == {row \in rows : row.check_id = c} IN
    [i \in 1..Cardinality(found) |->
       ResultFromRow(CHOOSE row \in found : Cardinality(Before(row, found)) = i - 1)]

LatestForCheck(c) ==
  LET found == RecentForCheck(c) IN IF found = <<>> THEN None ELSE Head(found)

-----------------------------------------------------------------------------
(* CheckResult::new at the end of an execution: a fresh random id and the  *)
(* clock as it stands, which may be where it was at the last result of the *)
(* check, or before.  Executions of one check overlap when it is           *)
(* registered again, so that any number of results may be on their way.    *)
ExecuteReturns(c, id, status) ==
  /\ \A row \in rows : row.id # id
  /\ \A r \in inFlight : r.id # id
  /\ inFlight' = inFlight \cup
       {[id |-> id, check_id |-> c, checked_at |-> wall, status |-> status]}
  /\ UNCHANGED <<memory, rows, wall, recorded>>

(* record, of both sinks.                                                  *)
Record(r) ==
  /\ memory' = Append(memory, r)
  /\ rows' = rows \cup {ResultToRow(r)}
  /\ inFlight' = inFlight \ {r}
  /\ recorded' = [recorded EXCEPT ![r.check_id] = Append(@, r)]
  /\ UNCHANGED wall

Clear ==
  /\ memory' = <<>>
  /\ UNCHANGED <<rows, inFlight, wall, recorded>>

(* Bound: the text has SecondsWidth digits for the seconds.                *)
TimePasses ==
  /\ wall + 1 < Power[SecondsWidth] * Second
  /\ wall' = wall + 1
  /\ UNCHANGED <<memory, rows, inFlight, recorded>>

(* The clock is no monotonic one: it may be set back.                      *)
ClockStepsBack ==
  /\ wall' \in 0..wall - 1
  /\ UNCHANGED <<memory, rows, inFlight, recorded>>

Next ==
  \/ \E c \in CheckIds, id \in ResultIds, status \in Statuses :
       ExecuteReturns(c, id, status)
  \/ \E r \in inFlight : Record(r)
  \/ Clear
  \/ TimePasses
  \/ ClockStepsBack

Spec == Init /\ [][Next]_resultsVars

-----------------------------------------------------------------------------
(* Results by instant, and by id at equal instants.                        *)
Later(r, s) ==
  \/ s.checked_at < r.checked_at
  \/ s.checked_at = r.checked_at /\ s.id < r.id

(* recent_for_check returns every recorded result of the check once, as it *)
(* was, the latest instant first and of equal instants the greatest id,    *)
(* whatever the clock did and in whatever order they were recorded.  The   *)
(* text of a timestamp therefore sorts as the instant it stands for,       *)
(* whatever its fraction, and reading it back loses nothing.               *)
RecentIsByInstant ==
  \A c \in CheckIds :
    LET recent == RecentForCheck(c) IN
      /\ Len(recent) = Len(recorded[c])
      /\ Range(recent) = Range(recorded[c])
      /\ \A i, j \in DOMAIN recent : i < j => Later(recent[i], recent[j])

(* What the vector has of a check since it was last cleared was recorded   *)
(* in order: each result later than all that were recorded before it.      *)
RecordedInOrder(c) ==
  \A i, j \in DOMAIN recorded[c] :
    i < j /\ Len(recorded[c]) - Len(ResultsForCheck(c)) < j
      => Later(recorded[c][j], recorded[c][i])

(* The two implementations of ResultSink order by different things, the    *)
(* vector by arrival and the table by the clock.  They tell the same       *)
(* history of a check, newest first, when its results were recorded in     *)
(* order, and only then; and the latest result in the table is never an    *)
(* earlier one than the last in the vector.                                *)
SinksAgree ==
  \A c \in CheckIds :
    /\ IsPrefix(Reverse(ResultsForCheck(c)), RecentForCheck(c)) <=> RecordedInOrder(c)
    /\ ResultsForCheck(c) # <<>> =>
         \/ LatestForCheck(c) = LatestInMemory(c)
         \/ Later(LatestForCheck(c), LatestInMemory(c))
=============================================================================
