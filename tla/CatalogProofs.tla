--------------------------- MODULE CatalogProofs ---------------------------
(***************************************************************************)
(* What the domain accepts, the schema accepts, the row mapping gives back *)
(* and the scheduler can schedule, for all widths of the integers.         *)
(***************************************************************************)
EXTENDS Catalog, TLAPS

(* The checks that are in the table.                                       *)
Accepted ==
  {check \in Check :
     /\ check.kind.url # "" /\ Trim(check.kind.url) = check.kind.url
     /\ check.kind.expected_status \in ValidStatuses
     /\ check.interval_seconds \in 1..I64Max
     /\ check.timeout_ms \in 1..I64Max}

(* A row that stands for a check, field by field.                          *)
RowFor(check) ==
  [kind |-> "HTTP", url |-> check.kind.url,
   expected_status |-> check.kind.expected_status,
   interval_seconds |-> check.interval_seconds, timeout_ms |-> check.timeout_ms,
   enabled |-> IF check.enabled THEN 1 ELSE 0]

(* insert binds exactly this row, and the schema accepts it.               *)
LEMMA AcceptedIsStored ==
  ASSUME NEW check \in Accepted
  PROVE  /\ CheckToRow(check) = RowFor(check)
         /\ CheckToRow(check) \in Row /\ CheckToRow(check) # Err
         /\ MeetsConstraints(CheckToRow(check))
<1>1. /\ check \in Check /\ check.kind \in HttpCheck
      /\ check.interval_seconds \in 1..I64Max /\ check.timeout_ms \in 1..I64Max
      /\ check.kind.expected_status \in 100..599
      /\ I64Max \in Nat
  BY MappingAssumption DEF Accepted, Check, ValidStatuses
<1>2. \A n \in 1..I64Max : U64ToDb(n) = n /\ n # Err
  BY <1>1, DomainAssumption DEF U64ToDb
<1>3. CheckToRow(check) = RowFor(check)
  BY <1>1, <1>2 DEF CheckToRow, RowFor
<1>4. RowFor(check) \in Row
  BY <1>1 DEF RowFor, Row, HttpCheck
<1>5. MeetsConstraints(RowFor(check))
  BY <1>1 DEF RowFor, MeetsConstraints
<1>6. QED
  BY <1>3, <1>4, <1>5, RowAssumption

(* What the lists and the scheduler look at.                               *)
LEMMA AcceptedFields ==
  ASSUME NEW check \in Accepted
  PROVE  /\ check.interval_seconds \in Nat \ {0}
         /\ check.enabled \in BOOLEAN
         /\ (RowFor(check).enabled = 1) = check.enabled
<1>1. check.interval_seconds \in 1..I64Max /\ check.enabled \in BOOLEAN
  BY DEF Accepted, Check
<1>2. check.interval_seconds \in Nat \ {0}
  BY <1>1, MappingAssumption
<1>3. (RowFor(check).enabled = 1) = check.enabled
  BY <1>1 DEF RowFor
<1>4. QED
  BY <1>1, <1>2, <1>3

(* Reading that row gives the check.                                       *)
LEMMA StoredIsRead ==
  ASSUME NEW check \in Accepted
  PROVE  CheckFromRow(RowFor(check)) = check /\ check # Err /\ check # None
<1> DEFINE row == RowFor(check)
<1>1. /\ check \in Check
      /\ check.kind \in HttpCheck
      /\ check.interval_seconds \in 1..I64Max /\ check.timeout_ms \in 1..I64Max
  BY DEF Accepted, Check
<1>2. /\ row.kind = "HTTP" /\ row.url = check.kind.url
      /\ row.expected_status = check.kind.expected_status
      /\ row.interval_seconds = check.interval_seconds
      /\ row.timeout_ms = check.timeout_ms
      /\ (row.enabled # 0) = check.enabled
  BY <1>1 DEF RowFor, Check
<1>3. CheckKindFromDb(row.kind, row.url, row.expected_status) = check.kind
  <2>1. U16FromDb(check.kind.expected_status) = check.kind.expected_status
    BY MappingAssumption DEF Accepted, U16FromDb
  <2>2. check.kind.expected_status # Err
    BY DomainAssumption, <1>1 DEF HttpCheck
  <2>3. HttpKind(check.kind.url, check.kind.expected_status)
          = [url |-> check.kind.url, expected_status |-> check.kind.expected_status]
    BY DEF Accepted, HttpKind
  <2>4. check.kind = [url |-> check.kind.url,
                      expected_status |-> check.kind.expected_status]
    BY <1>1 DEF HttpCheck
  <2>5. QED
    BY <1>2, <2>1, <2>2, <2>3, <2>4 DEF CheckKindFromDb
<1>4. /\ U64FromDb(row.interval_seconds) = check.interval_seconds
      /\ U64FromDb(row.timeout_ms) = check.timeout_ms
      /\ check.interval_seconds # Err /\ check.interval_seconds # 0
      /\ check.timeout_ms # Err /\ check.timeout_ms # 0
  BY <1>1, <1>2, DomainAssumption, MappingAssumption DEF U64FromDb
<1>5. check.kind # Err /\ check # Err /\ check # None
  BY <1>1, DomainAssumption, IdAssumption
<1>6. check = [kind |-> check.kind, interval_seconds |-> check.interval_seconds,
               timeout_ms |-> check.timeout_ms, enabled |-> check.enabled]
  BY <1>1 DEF Check
<1> HIDE DEF row
<1>7. CheckFromRow(row) = check
  BY <1>2, <1>3, <1>4, <1>5, <1>6 DEF CheckFromRow, CheckFromPersisted
<1>8. QED
  BY <1>5, <1>7 DEF row

-----------------------------------------------------------------------------
(* White space is gone after one trim.                                     *)
LEMMA TrimIsIdempotent ==
  ASSUME NEW text \in Text
  PROVE  Trim(text) \in Text /\ Trim(Trim(text)) = Trim(text)
<1>1. CASE text = "" \/ text = " "
  <2>1. Trim(text) = "" /\ Trim("") = ""
    BY <1>1 DEF Trim
  <2>2. Trim(Trim(text)) = Trim("")
    BY <2>1, Zenon
  <2>3. Trim(text) \in Text
    BY <1>1 DEF Trim, Text
  <2>4. QED
    BY <2>1, <2>2, <2>3, Zenon
<1>2. CASE text = " a " \/ text = "a"
  <2>1. Trim(text) = "a" /\ Trim("a") = "a"
    BY <1>2 DEF Trim
  <2>2. Trim(Trim(text)) = Trim("a")
    BY <2>1, Zenon
  <2>3. Trim(text) \in Text
    BY <1>2 DEF Trim, Text
  <2>4. QED
    BY <2>1, <2>2, <2>3, Zenon
<1>3. QED
  BY <1>1, <1>2 DEF Text

(* What a command line turns into is refused, or does not fit a column, or *)
(* is accepted by every layer.                                             *)
LEMMA CreatedIsAccepted ==
  ASSUME NEW url \in Text, NEW expected_status \in Nat,
         NEW interval_seconds \in Nat, NEW timeout_ms \in Nat
  PROVE  LET check == NewCheck(HttpKind(url, expected_status), interval_seconds, timeout_ms)
         IN  \/ InsertOutcome(check) \in {"rejected", "out of range"}
             \/ InsertOutcome(check) = "created" /\ check \in Accepted
<1> DEFINE kind  == HttpKind(url, expected_status)
           check == NewCheck(kind, interval_seconds, timeout_ms)
<1>1. CASE check = Err \/ CheckToRow(check) = Err
  BY <1>1 DEF InsertOutcome
<1>2. CASE check # Err /\ CheckToRow(check) # Err
  <2>1. /\ kind # Err /\ interval_seconds # 0 /\ timeout_ms # 0
        /\ check = [kind |-> kind, interval_seconds |-> interval_seconds,
                    timeout_ms |-> timeout_ms, enabled |-> TRUE]
    BY <1>2 DEF NewCheck, CheckFromPersisted
  <2>2. /\ kind = [url |-> Trim(url), expected_status |-> expected_status]
        /\ Trim(url) # "" /\ expected_status \in ValidStatuses
    BY <2>1 DEF HttpKind
  <2>3. Trim(url) \in Text /\ Trim(Trim(url)) = Trim(url)
    BY TrimIsIdempotent
  <2>4. U64ToDb(interval_seconds) # Err /\ U64ToDb(timeout_ms) # Err
    BY <1>2, <2>1 DEF CheckToRow
  <2>5. interval_seconds \in 1..I64Max /\ timeout_ms \in 1..I64Max
    BY <2>1, <2>4, MappingAssumption DEF U64ToDb
  <2>6. check \in Accepted
    <3>1. kind \in HttpCheck /\ kind.url = Trim(url) /\ kind.expected_status \in ValidStatuses
      <4>1. PICK name \in Text : name = Trim(url)
        BY <2>3, Zenon
      <4>2. kind = [url |-> name, expected_status |-> expected_status]
        BY <2>2, <4>1, Zenon
      <4> HIDE DEF kind
      <4>3. /\ kind \in HttpCheck /\ kind.url = name
            /\ kind.expected_status = expected_status
        BY <4>2 DEF HttpCheck
      <4>4. QED
        BY <2>2, <4>1, <4>3, Zenon
    <3>2. /\ check.kind = kind /\ check.interval_seconds = interval_seconds
          /\ check.timeout_ms = timeout_ms
      BY <2>1
    <3> HIDE DEF kind
    <3>3. check \in Check
      BY <2>1, <3>1 DEF Check
    <3>4. QED
      BY <2>2, <2>3, <2>5, <3>1, <3>2, <3>3 DEF Accepted
  <2>7. QED
    BY <1>2, <2>6, AcceptedIsStored DEF InsertOutcome
<1>3. QED
  BY <1>1, <1>2

(* Every stored row is that of the check its caller holds.                 *)
RowsMatch ==
  \A c \in CheckIds :
    \/ rows[c] = None /\ returned[c] = None
    \/ returned[c] \in Accepted /\ rows[c] = RowFor(returned[c])

NamesMatch ==
  \A id \in ProjectIds \cup ServiceIds :
    /\ returned[id] = names[id]
    /\ names[id] = None \/ (names[id] # Err /\ ValidateName(names[id]) = names[id])

CatalogInvariant ==
  /\ DOMAIN names = ProjectIds \cup ServiceIds
  /\ DOMAIN rows = CheckIds
  /\ DOMAIN returned = ProjectIds \cup ServiceIds \cup CheckIds
  /\ names = [id \in DOMAIN names |-> names[id]]
  /\ rows = [id \in DOMAIN rows |-> rows[id]]
  /\ returned = [id \in DOMAIN returned |-> returned[id]]
  /\ RowsMatch
  /\ NamesMatch
  /\ ValidationMatchesSchema

LEMMA InitCatalog == Init => CatalogInvariant
  BY DEF Init, CatalogInvariant, RowsMatch, NamesMatch, ValidationMatchesSchema

(* A name that was validated once is accepted as it is ever after.         *)
LEMMA NamesStayValid ==
  ASSUME NEW name \in Text, ValidateName(name) # Err
  PROVE  ValidateName(ValidateName(name)) = ValidateName(name)
  BY DEF Text, ValidateName, Trim

LEMMA NamesPreserve ==
  ASSUME CatalogInvariant, NEW id \in ProjectIds \cup ServiceIds, NEW name \in Text,
         CreateNamed(id, name)
  PROVE  CatalogInvariant'
<1> DEFINE value == ValidateName(name)
<1>1. value = Err \/ (value # Err /\ ValidateName(value) = value)
  BY NamesStayValid
<1>2. /\ names' = [names EXCEPT ![id] = IF value = Err THEN @ ELSE value]
      /\ returned' = [returned EXCEPT ![id] = IF value = Err THEN @ ELSE value]
      /\ rows' = rows
      /\ outcome' # "constraint"
  BY DEF CreateNamed
<1> HIDE DEF value
<1>3. NamesMatch'
  BY <1>1, <1>2 DEF CatalogInvariant, NamesMatch
<1>4. RowsMatch'
  BY <1>2, IdAssumption DEF CatalogInvariant, RowsMatch
<1>5. QED
  BY <1>2, <1>3, <1>4 DEF CatalogInvariant, ValidationMatchesSchema

LEMMA CreatePreserves ==
  ASSUME CatalogInvariant, NEW c \in CheckIds, NEW url \in Text,
         NEW expected_status \in Nat, NEW interval_seconds \in Nat, NEW timeout_ms \in Nat,
         CreateHttpCheck(c, url, expected_status, interval_seconds, timeout_ms)
  PROVE  CatalogInvariant'
<1> DEFINE check == NewCheck(HttpKind(url, expected_status), interval_seconds, timeout_ms)
           ended == InsertOutcome(check)
<1>1. \/ ended \in {"rejected", "out of range"}
      \/ ended = "created" /\ check \in Accepted
  BY CreatedIsAccepted
<1>2. /\ rows' = [rows EXCEPT ![c] = IF ended = "created" THEN CheckToRow(check) ELSE @]
      /\ returned' = [returned EXCEPT ![c] = IF ended = "created" THEN check ELSE @]
      /\ names' = names
      /\ outcome' = ended
  BY DEF CreateHttpCheck
<1> HIDE DEF check, ended
<1>3. check \in Accepted => CheckToRow(check) = RowFor(check)
  BY AcceptedIsStored
<1>4. RowsMatch'
  BY <1>1, <1>2, <1>3 DEF CatalogInvariant, RowsMatch
<1>5. NamesMatch'
  BY <1>2, IdAssumption DEF CatalogInvariant, NamesMatch
<1>6. QED
  BY <1>1, <1>2, <1>4, <1>5 DEF CatalogInvariant, ValidationMatchesSchema

LEMMA SetEnabledPreserves ==
  ASSUME CatalogInvariant, NEW c \in CheckIds, NEW enabled \in BOOLEAN,
         SetCheckEnabled(c, enabled)
  PROVE  CatalogInvariant'
<1> DEFINE check == [returned[c] EXCEPT !.enabled = enabled]
<1>1. returned[c] \in Accepted /\ rows[c] = RowFor(returned[c])
  BY DEF SetCheckEnabled, CatalogInvariant, RowsMatch
<1>2. check \in Accepted
  BY <1>1 DEF Accepted, Check
<1>3. [rows[c] EXCEPT !.enabled = IF enabled THEN 1 ELSE 0] = RowFor(check)
  <2>1. /\ check.kind = returned[c].kind
        /\ check.interval_seconds = returned[c].interval_seconds
        /\ check.timeout_ms = returned[c].timeout_ms
        /\ check.enabled = enabled
    BY <1>1 DEF Accepted, Check
  <2>2. QED
    BY <1>1, <2>1 DEF RowFor
<1>4. /\ rows' = [rows EXCEPT ![c] = [@ EXCEPT !.enabled = IF enabled THEN 1 ELSE 0]]
      /\ returned' = [returned EXCEPT ![c] = check]
      /\ names' = names
      /\ outcome' # "constraint"
  BY DEF SetCheckEnabled
<1> HIDE DEF check
<1>5. RowsMatch'
  BY <1>2, <1>3, <1>4 DEF CatalogInvariant, RowsMatch
<1>6. NamesMatch'
  BY <1>4, IdAssumption DEF CatalogInvariant, NamesMatch
<1>7. QED
  BY <1>4, <1>5, <1>6 DEF CatalogInvariant, ValidationMatchesSchema

LEMMA NextCatalog == CatalogInvariant /\ [Next]_catalogVars => CatalogInvariant'
<1> SUFFICES ASSUME CatalogInvariant, [Next]_catalogVars PROVE CatalogInvariant'
  OBVIOUS
<1>1. ASSUME NEW p \in ProjectIds, NEW name \in Text, CreateProject(p, name)
      PROVE  CatalogInvariant'
  BY <1>1, NamesPreserve DEF CreateProject
<1>2. ASSUME NEW s \in ServiceIds, NEW name \in Text, CreateService(s, name)
      PROVE  CatalogInvariant'
  BY <1>2, NamesPreserve DEF CreateService
<1>3. ASSUME NEW c \in CheckIds, NEW url \in Text, NEW expected_status \in Statuses,
             NEW interval_seconds \in Seconds, NEW timeout_ms \in Millis,
             CreateHttpCheck(c, url, expected_status, interval_seconds, timeout_ms)
      PROVE  CatalogInvariant'
  <2>1. Statuses \subseteq Nat /\ Seconds \subseteq Nat /\ Millis \subseteq Nat
    BY MappingAssumption, CatalogAssumption DEF Statuses, Seconds, Millis
  <2>2. QED
    BY <1>3, <2>1, CreatePreserves
<1>4. ASSUME NEW c \in CheckIds, NEW enabled \in BOOLEAN, SetCheckEnabled(c, enabled)
      PROVE  CatalogInvariant'
  BY <1>4, SetEnabledPreserves
<1>5. CASE UNCHANGED catalogVars
  BY <1>5 DEF catalogVars, CatalogInvariant, RowsMatch, NamesMatch, ValidationMatchesSchema
<1>6. QED
  BY <1>1, <1>2, <1>3, <1>4, <1>5 DEF Next

(* No INSERT of a check ever meets a constraint of the schema: the rules   *)
(* in crates/core imply those in the migration.                            *)
THEOREM SchemaIsNeverMet == Spec => []ValidationMatchesSchema
<1>1. CatalogInvariant => ValidationMatchesSchema
  BY DEF CatalogInvariant
<1>2. QED
  BY InitCatalog, NextCatalog, <1>1, PTL DEF Spec

-----------------------------------------------------------------------------
(* A larger number of units is a longer time.                              *)
LEMMA UnitsAreMonotonic ==
  ASSUME NEW m \in Nat, NEW n \in Nat, m <= n, NEW unit \in Nat
  PROVE  m * unit <= n * unit /\ m * unit \in Nat
<1>1. n * unit = m * unit + (n - m) * unit
  OBVIOUS
<1>2. n - m \in Nat /\ (n - m) * unit \in Nat /\ m * unit \in Nat /\ n * unit \in Nat
  OBVIOUS
<1>3. QED
  BY <1>1, <1>2

(* interval_duration of an interval that can be stored.                    *)
LEMMA DelayFits ==
  ASSUME NEW interval \in Nat \ {0}
  PROVE  /\ Sched!IntervalDuration(interval) > 0
         /\ LatestInstant + Sched!IntervalDuration(interval) <= InstantMax
         /\ interval <= U32Max =>
              Sched!IntervalDuration(interval) = interval * IntervalUnit
<1> DEFINE units == IF interval <= U32Max THEN interval ELSE U32Max
           product == units * IntervalUnit
<1>1. /\ units \in Nat /\ 1 <= units /\ units <= U32Max
      /\ IntervalUnit \in Nat /\ 1 <= IntervalUnit /\ U32Max \in Nat
  BY CatalogAssumption
<1> HIDE DEF units
<1>2. product <= U32Max * IntervalUnit /\ product \in Nat
  BY <1>1, UnitsAreMonotonic
<1>3. 1 * IntervalUnit <= product
  BY <1>1, UnitsAreMonotonic
<1>4. U32Max * IntervalUnit \in Nat /\ 1 * IntervalUnit = IntervalUnit
  BY <1>1
<1> HIDE DEF product
<1>5. product > 0 /\ LatestInstant + product <= InstantMax /\ product <= DurationMax
  BY <1>1, <1>2, <1>3, <1>4, CatalogAssumption
<1>6. Sched!IntervalDuration(interval) = product
  BY <1>5 DEF Sched!IntervalDuration, product, units
<1>7. interval <= U32Max => product = interval * IntervalUnit
  BY DEF product, units
<1>8. QED
  BY <1>5, <1>6, <1>7

(* The monitor can schedule every check that can be created, whatever its  *)
(* interval: no sum of an instant and a delay leaves the range.            *)
THEOREM StoredIntervalsAreScheduled == Spec => []AcceptedIntervalsAreScheduled
<1>1. CatalogInvariant => AcceptedIntervalsAreScheduled
  <2> SUFFICES ASSUME CatalogInvariant, NEW c \in CheckIds, rows[c] # None
               PROVE  LET interval == CheckFromRow(rows[c]).interval_seconds
                      IN  /\ Sched!IntervalDuration(interval) > 0
                          /\ LatestInstant + Sched!IntervalDuration(interval) <= InstantMax
                          /\ interval <= U32Max =>
                               Sched!IntervalDuration(interval) = interval * IntervalUnit
    BY DEF AcceptedIntervalsAreScheduled
  <2>1. returned[c] \in Accepted /\ rows[c] = RowFor(returned[c])
    BY DEF CatalogInvariant, RowsMatch
  <2>2. CheckFromRow(rows[c]) = returned[c]
    BY <2>1, StoredIsRead
  <2>3. returned[c].interval_seconds \in Nat \ {0}
    BY <2>1, AcceptedFields
  <2>4. QED
    BY <2>2, <2>3, DelayFits
<1>2. QED
  BY InitCatalog, NextCatalog, <1>1, PTL DEF Spec

(* Every list of projects, services and checks, and what a monitor loads,  *)
(* is what the commands that wrote it returned: nothing is lost on the way *)
(* through validation, columns and back, and no list ever fails.           *)
THEOREM ListsReturnWhatWasCreated == Spec => []CommandsStoreWhatTheyReturn
<1>1. CatalogInvariant => CommandsStoreWhatTheyReturn
  <2> SUFFICES ASSUME CatalogInvariant PROVE CommandsStoreWhatTheyReturn
    OBVIOUS
  <2>1. ASSUME NEW ids \in SUBSET (ProjectIds \cup ServiceIds)
        PROVE  NamedRows(ids) = Given(ids)
    <3>1. \A id \in ids : returned[id] = names[id]
            /\ (names[id] # None => names[id] # Err /\ ValidateName(names[id]) = names[id])
      BY DEF CatalogInvariant, NamesMatch
    <3>2. NamedRows(ids)
            = [id \in {i \in ids : names[i] # None} |-> ValidateName(names[id])]
      BY <3>1 DEF NamedRows, Collect
    <3>3. QED
      BY <3>1, <3>2 DEF Given
  <2>2. \A c \in CheckIds : rows[c] # None =>
          /\ returned[c] \in Accepted /\ rows[c] = RowFor(returned[c])
          /\ CheckFromRow(rows[c]) = returned[c] /\ returned[c] # Err
    BY StoredIsRead DEF CatalogInvariant, RowsMatch
  <2>3. \A c \in CheckIds : rows[c] = None <=> returned[c] = None
    BY StoredIsRead, AcceptedIsStored, RowAssumption DEF CatalogInvariant, RowsMatch
  <2>4. \A c \in CheckIds : rows[c] # None =>
          (rows[c].enabled = 1) = returned[c].enabled
    BY <2>2, AcceptedFields
  <2>5. ASSUME NEW found \in SUBSET {c \in CheckIds : rows[c] # None}
        PROVE  ChecksOf(found) = [c \in found |-> returned[c]]
    BY <2>2 DEF ChecksOf, Collect
  <2>6. ListChecks = Given(CheckIds)
    BY <2>3, <2>5 DEF ListChecks, Given
  <2>7. {c \in CheckIds : rows[c] # None /\ rows[c].enabled = 1}
          = {i \in CheckIds : returned[i] # None /\ returned[i].enabled}
    BY <2>3, <2>4
  <2>8. QED
    BY <2>1, <2>5, <2>6, <2>7
       DEF CommandsStoreWhatTheyReturn, ListProjects, ListServices, ListEnabled
<1>2. QED
  BY InitCatalog, NextCatalog, <1>1, PTL DEF Spec
=============================================================================
