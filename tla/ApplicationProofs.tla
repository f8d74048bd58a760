------------------------- MODULE ApplicationProofs -------------------------
(***************************************************************************)
(* First the read model: what aggregate_status computes for every set of   *)
(* statuses, and what the two reads of a check's results return for every  *)
(* finite table of results.  Then the commands: their types, that a row a  *)
(* command looked up is there when the command refers to it, and that the  *)
(* history of a report goes on where its latest result stands, for any     *)
(* number of processes, commands and rows, and every interleaving of their *)
(* statements.                                                             *)
(***************************************************************************)
EXTENDS Application, FiniteSetTheorems, TLAPS

(* docs/architecture.md:95: the severity ordering of statuses.             *)
Severity(status) ==
  CASE status = "HEALTHY"   -> 0
    [] status = "UNKNOWN"   -> 1
    [] status = "DEGRADED"  -> 2
    [] status = "UNHEALTHY" -> 3

(* The severity of each status, for the solver.                           *)
LEMMA SeverityValues ==
  /\ Severity("HEALTHY") = 0
  /\ Severity("UNKNOWN") = 1
  /\ Severity("DEGRADED") = 2
  /\ Severity("UNHEALTHY") = 3
BY DEF Severity

(* aggregate_status returns one of the statuses it is given, and none of   *)
(* them is more severe: the order of its tests is the severity ordering.   *)
THEOREM AggregateIsMostSevere ==
  ASSUME NEW S \in SUBSET HealthStatus, S # {}
  PROVE  /\ AggregateStatus(S) \in S
         /\ \A status \in S : Severity(status) <= Severity(AggregateStatus(S))
<1>1. \A status \in S : status \in HealthStatus
      OBVIOUS
<1>2. CASE "UNHEALTHY" \in S
  <2>1. AggregateStatus(S) = "UNHEALTHY"
        BY <1>2 DEF AggregateStatus
  <2> QED
      BY <1>1, <1>2, <2>1, SeverityValues DEF HealthStatus
<1>3. CASE "UNHEALTHY" \notin S /\ "DEGRADED" \in S
  <2>1. AggregateStatus(S) = "DEGRADED"
        BY <1>3 DEF AggregateStatus
  <2> QED
      BY <1>1, <1>3, <2>1, SeverityValues DEF HealthStatus
<1>4. CASE "UNHEALTHY" \notin S /\ "DEGRADED" \notin S /\ "UNKNOWN" \in S
  <2>1. AggregateStatus(S) = "UNKNOWN"
        BY <1>4 DEF AggregateStatus
  <2> QED
      BY <1>1, <1>4, <2>1, SeverityValues DEF HealthStatus
<1>5. CASE "UNHEALTHY" \notin S /\ "DEGRADED" \notin S /\ "UNKNOWN" \notin S
  <2>1. PICK status \in S : TRUE
        OBVIOUS
  <2>2. "HEALTHY" \in S /\ \A other \in S : other = "HEALTHY"
        BY <1>1, <1>5, <2>1 DEF HealthStatus
  <2>3. AggregateStatus(S) = "HEALTHY"
        BY <1>5 DEF AggregateStatus
  <2> QED
      BY <2>2, <2>3, SeverityValues
<1> QED
    BY <1>2, <1>3, <1>4, <1>5

(* No status of a service ever improves because another check is counted.  *)
THEOREM AggregateIsMonotonic ==
  ASSUME NEW S \in SUBSET HealthStatus, NEW T \in SUBSET HealthStatus,
         S # {}, S \subseteq T
  PROVE  Severity(AggregateStatus(S)) <= Severity(AggregateStatus(T))
<1>1. AggregateStatus(S) \in T
      BY AggregateIsMostSevere
<1> QED
    BY <1>1, AggregateIsMostSevere

(* project_summary aggregates the statuses of services that were           *)
(* aggregated themselves: if every service has an enabled check, that is   *)
(* the status of all the checks taken together.                            *)
THEOREM ProjectStatusIsThatOfAllChecks ==
  ASSUME NEW F \in SUBSET SUBSET HealthStatus, \A S \in F : S # {}
  PROVE  AggregateStatus({AggregateStatus(S) : S \in F}) = AggregateStatus(UNION F)
<1> DEFINE A == {AggregateStatus(S) : S \in F}
<1>1. ASSUME NEW status \in {"UNHEALTHY", "DEGRADED", "UNKNOWN"},
             \A worse \in HealthStatus :
               Severity(worse) > Severity(status) => worse \notin UNION F
      PROVE  status \in A <=> status \in UNION F
  <2>1. ASSUME status \in A PROVE status \in UNION F
    <3>1. PICK S \in F : status = AggregateStatus(S)
          BY <2>1
    <3>2. S # {} /\ S \in SUBSET HealthStatus
          OBVIOUS
    <3>3. AggregateStatus(S) \in S
          BY <3>2, AggregateIsMostSevere
    <3> QED
        BY <3>1, <3>3
  <2>2. ASSUME status \in UNION F PROVE status \in A
    <3>1. PICK S \in F : status \in S
          BY <2>2
    <3>2. S # {} /\ S \in SUBSET HealthStatus
          OBVIOUS
    <3>3. /\ AggregateStatus(S) \in S
          /\ Severity(status) <= Severity(AggregateStatus(S))
          BY <3>1, <3>2, AggregateIsMostSevere
    <3>4. AggregateStatus(S) \in HealthStatus /\ AggregateStatus(S) \in UNION F
          BY <3>2, <3>3
    <3>5. ~(Severity(AggregateStatus(S)) > Severity(status))
          BY <1>1, <3>4
    <3> DEFINE a == AggregateStatus(S)
    <3>6. a \in HealthStatus /\ status \in HealthStatus
          BY <3>4 DEF HealthStatus
    <3> HIDE DEF a
    <3>7. a = status
          BY <3>3, <3>5, <3>6 DEF a, Severity, HealthStatus
    <3> QED
        BY <3>7 DEF a
  <2> QED
      BY <2>1, <2>2
<1>2. F = {} <=> A = {}
      OBVIOUS
<1>3. A = {} <=> UNION F = {}
      BY <1>2
<1>4. "UNHEALTHY" \in A <=> "UNHEALTHY" \in UNION F
      BY <1>1 DEF HealthStatus, Severity
<1>5. "UNHEALTHY" \notin UNION F =>
        ("DEGRADED" \in A <=> "DEGRADED" \in UNION F)
      BY <1>1 DEF HealthStatus, Severity
<1>6. "UNHEALTHY" \notin UNION F /\ "DEGRADED" \notin UNION F =>
        ("UNKNOWN" \in A <=> "UNKNOWN" \in UNION F)
      BY <1>1 DEF HealthStatus, Severity
<1> HIDE DEF A
<1>7. AggregateStatus(A) = AggregateStatus(UNION F)
  <2> DEFINE B == UNION F
  <2>1. A = {} <=> B = {}
        BY <1>3
  <2>2. "UNHEALTHY" \in A <=> "UNHEALTHY" \in B
        BY <1>4
  <2>3. "UNHEALTHY" \notin B => ("DEGRADED" \in A <=> "DEGRADED" \in B)
        BY <1>5
  <2>4. "UNHEALTHY" \notin B /\ "DEGRADED" \notin B => ("UNKNOWN" \in A <=> "UNKNOWN" \in B)
        BY <1>6
  <2> HIDE DEF B
  <2>5. AggregateStatus(A) = AggregateStatus(B)
        BY <2>1, <2>2, <2>3, <2>4, ZenonT(30) DEF AggregateStatus
  <2> QED
      BY <2>5 DEF B
<1> QED
    BY <1>7 DEF A

-----------------------------------------------------------------------------
(* Finite sets have no infinite descent: of any subsets of a finite set,   *)
(* one has none of the others below it.  The lemmas about the order of the *)
(* rows take a smallest set that they fail for.                            *)
LEMMA SmallestSubset ==
  ASSUME NEW S, IsFiniteSet(S), NEW T, T \subseteq SUBSET S, T # {}
  PROVE  \E U \in T : \A V \in T : V \subseteq U => V = U
<1>1. IsWellFoundedOn(StrictSubsetOrdering(S), SUBSET S)
  BY FS_StrictSubsetOrderingWellFounded, FS_FiniteSubsetsOfFinite
<1>2. PICK U \in T : \A V \in T : <<V, U>> \notin StrictSubsetOrdering(S)
  BY <1>1, WFMin
<1>3. ASSUME NEW V \in T, V \subseteq U PROVE V = U
  <2>1. <<V, U>> \in (SUBSET S) \X (SUBSET S)
    OBVIOUS
  <2>2. QED
    BY <1>2, <1>3, <2>1 DEF StrictSubsetOrdering
<1>4. QED
  BY <1>3

(* The order of the rows, and that ids tell rows apart (the primary key of *)
(* check_results).                                                         *)
IdsDiffer(rows) == \A r, q \in rows : r.id = q.id => r = q

LEMMA IdOfRow == \A r \in ResultRow : r.id \in Nat
  BY PersistenceAssumption DEF ResultRow

(* A finite table that is not empty has a newest row.                      *)
LEMMA NewestExists ==
  ASSUME NEW S \in SUBSET ResultRow, IsFiniteSet(S), S # {}
  PROVE  \E r \in S : \A q \in S : ~Newer(q, r)
<1> DEFINE Fails(U) == U # {} /\ \A r \in U : \E q \in U : Newer(q, r)
           T == {U \in SUBSET S : Fails(U)}
<1>1. SUFFICES ASSUME T # {} PROVE FALSE
  OBVIOUS
<1>2. PICK U \in T : \A V \in T : V \subseteq U => V = U
  <2>1. T \subseteq SUBSET S
    OBVIOUS
  <2> HIDE DEF T
  <2>2. QED
    BY <1>1, <2>1, SmallestSubset
<1>3. PICK x \in U : TRUE
  OBVIOUS
<1>4. PICK y \in U : Newer(y, x)
  OBVIOUS
<1> DEFINE V == U \ {x}
<1>5. y \in V /\ y # x
  BY <1>4, IdOfRow DEF Newer
<1>6. ASSUME NEW r \in V PROVE \E q \in V : Newer(q, r)
  <2>1. PICK q \in U : Newer(q, r)
    OBVIOUS
  <2>2. CASE q # x
    BY <2>1, <2>2
  <2>3. CASE q = x
    <3>1. y.id \in Nat /\ x.id \in Nat /\ r.id \in Nat
      BY IdOfRow
    <3>2. Newer(y, r)
      BY <1>4, <2>1, <2>3, <3>1 DEF Newer
    <3>3. QED
      BY <1>5, <3>2
  <2>4. QED
    BY <2>2, <2>3
<1>7. V \in T
  BY <1>5, <1>6
<1>8. QED
  BY <1>2, <1>3, <1>7

(* The k newest rows of a set.                                             *)
Newest(rows, k) == {r \in rows : Cardinality({q \in rows : Newer(q, r)}) < k}

(* There are k of them, if the set has that many.                          *)
LEMMA NewestAreAsMany ==
  ASSUME NEW S \in SUBSET ResultRow, IsFiniteSet(S), IdsDiffer(S),
         NEW k \in 0..Cardinality(S)
  PROVE  Cardinality(Newest(S, k)) = k
<1> DEFINE Holds(U) == \A i \in 0..Cardinality(U) : Cardinality(Newest(U, i)) = i
           T == {U \in SUBSET S : ~Holds(U)}
<1>1. SUFFICES ASSUME T # {} PROVE FALSE
  OBVIOUS
<1>2. PICK U \in T : \A V \in T : V \subseteq U => V = U
  <2>1. T \subseteq SUBSET S
    OBVIOUS
  <2> HIDE DEF T
  <2>2. QED
    BY <1>1, <2>1, SmallestSubset
<1>3. PICK i \in 0..Cardinality(U) : Cardinality(Newest(U, i)) # i
  OBVIOUS
<1> HIDE DEF T
<1>4. U \in SUBSET S /\ IsFiniteSet(U) /\ Cardinality(U) \in Nat
  BY FS_Subset, FS_CardinalityType DEF T
<1>5. ASSUME NEW r \in U
      PROVE  /\ IsFiniteSet({q \in U : Newer(q, r)})
             /\ Cardinality({q \in U : Newer(q, r)}) \in Nat
  BY <1>4, FS_Subset, FS_CardinalityType
<1>6. i # 0
  <2>1. Newest(U, 0) = {}
    BY <1>5 DEF Newest
  <2>2. QED
    BY <1>3, <2>1, FS_EmptySet
<1>7. U # {}
  BY <1>3, <1>4, <1>6, FS_EmptySet
<1>8. PICK x \in U : \A q \in U : ~Newer(q, x)
  BY <1>4, <1>7, NewestExists
<1> DEFINE V == U \ {x}
<1>9. /\ IsFiniteSet(V)
      /\ Cardinality(V) = Cardinality(U) - 1
  BY <1>4, FS_RemoveElement
<1>10. Holds(V)
  <2>1. V \in SUBSET S /\ V \subseteq U /\ V # U
    BY <1>4
  <2>2. V \notin T
    BY <1>2, <2>1
  <2>3. QED
    BY <2>1, <2>2 DEF T
<1>11. i - 1 \in 0..Cardinality(V)
  BY <1>4, <1>6, <1>9
<1>12. Cardinality(Newest(V, i - 1)) = i - 1
  BY <1>10, <1>11
<1>13. Newest(U, i) = Newest(V, i - 1) \cup {x}
  <2>1. x \in Newest(U, i)
    <3>1. {q \in U : Newer(q, x)} = {}
      BY <1>8
    <3>2. Cardinality({q \in U : Newer(q, x)}) < i
      BY <1>6, <3>1, FS_EmptySet
    <3>3. QED
      BY <3>2 DEF Newest
  <2>2. ASSUME NEW r \in V PROVE r \in Newest(U, i) <=> r \in Newest(V, i - 1)
    <3> DEFINE inU == {q \in U : Newer(q, r)}
               inV == {q \in V : Newer(q, r)}
    <3>1. Newer(x, r)
      <4>1. r \in S /\ x \in S /\ r # x
        BY <1>4
      <4>2. r.id # x.id /\ r.id \in Nat /\ x.id \in Nat
        BY <4>1, IdOfRow DEF IdsDiffer
      <4>3. QED
        BY <1>8, <4>2 DEF Newer
    <3>2. inV = inU \ {x} /\ x \in inU
      BY <3>1
    <3>3. IsFiniteSet(inU) /\ Cardinality(inU) \in Nat
      BY <1>5
    <3>4. Cardinality(inV) = Cardinality(inU) - 1
      <4> HIDE DEF inU, inV
      <4>1. QED
        BY <3>2, <3>3, FS_RemoveElement
    <3>5. Cardinality(inU) < i <=> Cardinality(inV) < i - 1
      BY <3>3, <3>4
    <3>6. QED
      BY <3>5 DEF Newest
  <2>3. QED
    BY <2>1, <2>2 DEF Newest
<1>14. x \notin Newest(V, i - 1) /\ IsFiniteSet(Newest(V, i - 1))
  BY <1>9, FS_Subset DEF Newest
<1>15. Cardinality(Newest(U, i)) = i
  <2>1. i \in Int
    BY <1>4
  <2>2. Cardinality(Newest(V, i - 1) \cup {x}) = Cardinality(Newest(V, i - 1)) + 1
    BY <1>14, FS_AddElement
  <2> HIDE DEF V
  <2>3. QED
    BY <1>12, <1>13, <2>1, <2>2
<1>16. QED
  BY <1>3, <1>15

(* latest_for_check returns a row of the check that none is newer than,    *)
(* and None only if there is no row.                                       *)
LEMMA LatestIsNewest ==
  ASSUME NEW c \in CheckIds, results \in SUBSET ResultRow, IsFiniteSet(results)
  PROVE  /\ LatestForCheck(c) \in ResultsOf(c) \cup {None}
         /\ \A r \in ResultsOf(c) :
              LatestForCheck(c) # None /\ ~Newer(r, LatestForCheck(c))
<1>1. CASE ResultsOf(c) = {}
  BY <1>1 DEF LatestForCheck
<1>2. CASE ResultsOf(c) # {}
  <2>1. ResultsOf(c) \in SUBSET ResultRow /\ IsFiniteSet(ResultsOf(c))
    BY FS_Subset DEF ResultsOf
  <2>2. \E r \in ResultsOf(c) : \A q \in ResultsOf(c) : ~Newer(q, r)
    BY <1>2, <2>1, NewestExists
  <2>3. /\ LatestForCheck(c) \in ResultsOf(c)
        /\ \A q \in ResultsOf(c) : ~Newer(q, LatestForCheck(c))
    BY <1>2, <2>2 DEF LatestForCheck
  <2>4. LatestForCheck(c) # None
    BY <2>1, <2>3, NoRowAssumption
  <2>5. QED
    BY <2>3, <2>4
<1>3. QED
  BY <1>1, <1>2

(* What a history must show of a latest result that was read before it.    *)
Covered(latest, recent, limit) ==
  latest # None =>
    \/ latest \in recent
    \/ Cardinality({r \in recent : Newer(r, latest)}) = limit

(* recent_for_check returns any given row of the check, or as many newer   *)
(* rows as it is limited to.                                               *)
LEMMA RecentCovers ==
  ASSUME NEW c \in CheckIds, NEW limit \in Nat, NEW latest \in ResultsOf(c) \cup {None},
         results \in SUBSET ResultRow, IsFiniteSet(results), IdsDiffer(results)
  PROVE  Covered(latest, RecentForCheck(c, limit), limit)
<1>1. SUFFICES ASSUME latest \in ResultsOf(c), latest \notin RecentForCheck(c, limit)
               PROVE  Cardinality({r \in RecentForCheck(c, limit) : Newer(r, latest)}) = limit
  BY DEF Covered
<1> DEFINE S == ResultsOf(c)
           before(r) == {q \in S : Newer(q, r)}
<1>2. S \in SUBSET ResultRow /\ IsFiniteSet(S) /\ IdsDiffer(S) /\ Cardinality(S) \in Nat
  BY FS_Subset, FS_CardinalityType DEF ResultsOf, IdsDiffer
<1>3. RecentForCheck(c, limit) = Newest(S, limit)
  BY DEF RecentForCheck, Newest
<1>4. \A r \in S : /\ IsFiniteSet(before(r)) /\ Cardinality(before(r)) \in Nat
                   /\ Cardinality(before(r)) <= Cardinality(S)
  BY <1>2, FS_Subset, FS_CardinalityType
<1>5. Cardinality(before(latest)) >= limit
  BY <1>1, <1>3, <1>4 DEF Newest
<1>6. ASSUME NEW r \in Newest(S, limit) PROVE Newer(r, latest)
  <2>1. r \in S /\ Cardinality(before(r)) < limit
    BY DEF Newest
  <2>2. r.id \in Nat /\ latest.id \in Nat /\ \A q \in S : q.id \in Nat
    BY <1>1, <1>2, <2>1, IdOfRow
  <2>3. ASSUME ~Newer(r, latest) PROVE FALSE
    <3>1. before(latest) \subseteq before(r)
      BY <2>2, <2>3 DEF Newer
    <3>2. Cardinality(before(latest)) <= Cardinality(before(r))
      BY <1>4, <2>1, <3>1, FS_Subset
    <3>3. /\ Cardinality(before(latest)) \in Nat
          /\ Cardinality(before(r)) \in Nat
      BY <1>1, <1>4, <2>1
    <3> HIDE DEF before
    <3>4. QED
      BY <1>5, <2>1, <3>2, <3>3
  <2>4. QED
    BY <2>3
<1>7. {r \in Newest(S, limit) : Newer(r, latest)} = Newest(S, limit)
  BY <1>6
<1>8. limit \in 0..Cardinality(S)
  BY <1>1, <1>2, <1>4, <1>5
<1>9. QED
  BY <1>2, <1>3, <1>7, <1>8, NewestAreAsMany

-----------------------------------------------------------------------------
(* The commands.                                                           *)

TablesOK ==
  /\ projects \in SUBSET ProjectIds
  /\ services \in [ServiceIds -> ProjectIds \cup {None}]
  /\ checks \in [CheckIds -> CheckRow \cup {None}]
  /\ results \in SUBSET ResultRow
  /\ IsFiniteSet(results)
  /\ IdsDiffer(results)

(* The rows a command refers to are in the tables ps, ss and cs.           *)
Grounded(command, ps, ss, cs) ==
  /\ command.op = "create_service" => command.project \in ps
  /\ command.op = "create_http_check" =>
       IF command.at = "insert"
       THEN ss[command.service] # None
       ELSE cs[command.check] # None
  /\ command.op = "monitor" =>
       \A c \in CheckIds : command.jobs[c].phase # "unregistered" => cs[c] # None

(* What is about to be recorded is a result.                               *)
Carries(command) ==
  /\ command.op = "create_http_check" /\ command.at = "record" =>
       command.result \in ResultRow
  /\ command.op = "monitor" =>
       \A c \in CheckIds :
         command.jobs[c].phase = "recording" => command.jobs[c].result \in ResultRow

(* Of a check whose reads are over, the history covers the latest result;  *)
(* the latest result of the check being read is still in table rs, which   *)
(* is what the second read is made from.                                   *)
Covers(command, rs) ==
  command.op = "report" /\ command.limit > 0 =>
    \A c \in command.listed \ command.unread :
      IF c = command.reading
      THEN command.latest[c] \in {r \in rs : r.check = c} \cup {None}
      ELSE Covered(command.latest[c], command.recent[c], command.limit)

Sound(command, ps, ss, cs, rs) ==
  Grounded(command, ps, ss, cs) /\ Carries(command) /\ Covers(command, rs)

CommandInvariant ==
  /\ TablesOK
  /\ cmd \in [Processes -> Command]
  /\ \A p \in Processes : Sound(cmd[p], projects, services, checks, results)

(* No statement removes a row, or moves a service to another project or a  *)
(* check to another service.                                               *)
RowsStay(ps, ss, cs, rs, ps2, ss2, cs2, rs2) ==
  /\ ps \subseteq ps2
  /\ \A s \in ServiceIds : ss[s] # None => ss2[s] = ss[s]
  /\ \A c \in CheckIds :
       cs[c] # None => cs2[c] # None /\ cs2[c].service = cs[c].service
  /\ rs \subseteq rs2

Kept ==
  /\ TablesOK'
  /\ RowsStay(projects, services, checks, results,
              projects', services', checks', results')

LEMMA TablesUnchanged == ASSUME TablesOK, UNCHANGED tables PROVE Kept
  BY DEF tables, Kept, RowsStay, TablesOK

LEMMA InsertServiceKeeps ==
  ASSUME TablesOK, NEW s \in ServiceIds, NEW p \in ProjectIds, InsertService(s, p)
  PROVE  Kept
  BY PersistenceAssumption DEF InsertService, Kept, RowsStay, TablesOK

LEMMA InsertProjectKeeps ==
  ASSUME TablesOK, NEW p \in ProjectIds, InsertProject(p) PROVE Kept
  BY DEF InsertProject, Kept, RowsStay, TablesOK

LEMMA InsertCheckKeeps ==
  ASSUME TablesOK, NEW c \in CheckIds, NEW s \in ServiceIds, InsertCheck(c, s)
  PROVE  Kept /\ checks'[c] # None
<1> DEFINE row == [service |-> s, enabled |-> TRUE]
<1>1. row \in CheckRow
  BY DEF CheckRow
<1>2. row # None
  BY <1>1, NoRowAssumption
<1>3. checks[c] = None /\ checks' = [checks EXCEPT ![c] = row]
      /\ UNCHANGED <<projects, services, results>>
  BY DEF InsertCheck
<1> HIDE DEF row
<1>4. QED
  BY <1>1, <1>2, <1>3 DEF Kept, RowsStay, TablesOK

LEMMA UpdateEnabledKeeps ==
  ASSUME TablesOK, NEW c \in CheckIds, NEW enabled \in BOOLEAN, UpdateEnabled(c, enabled)
  PROVE  Kept
<1>1. CASE checks[c] = None
  BY <1>1 DEF UpdateEnabled, Kept, RowsStay, TablesOK
<1>2. CASE checks[c] # None
  <2> DEFINE row == [checks[c] EXCEPT !.enabled = enabled]
  <2>1. checks[c] \in CheckRow
    BY <1>2 DEF TablesOK
  <2>2. row \in CheckRow /\ row.service = checks[c].service
    BY <2>1 DEF CheckRow
  <2>3. row # None
    BY <2>2, NoRowAssumption
  <2>4. checks' = [checks EXCEPT ![c] = row] /\ UNCHANGED <<projects, services, results>>
    BY <1>2 DEF UpdateEnabled
  <2> HIDE DEF row
  <2>5. QED
    BY <2>2, <2>3, <2>4 DEF Kept, RowsStay, TablesOK
<1>3. QED
  BY <1>1, <1>2

LEMMA InsertResultKeeps ==
  ASSUME TablesOK, NEW row \in ResultRow, InsertResult(row) PROVE Kept
<1>1. /\ \A r \in results : r.id # row.id
      /\ results' = results \cup {row}
      /\ UNCHANGED <<projects, services, checks>>
  BY DEF InsertResult
<1>2. IsFiniteSet(results')
  BY <1>1, FS_AddElement DEF TablesOK
<1>3. IdsDiffer(results')
  BY <1>1 DEF TablesOK, IdsDiffer
<1>4. QED
  BY <1>1, <1>2, <1>3 DEF Kept, RowsStay, TablesOK

-----------------------------------------------------------------------------
(* The type of a command by the operation it is.                           *)
LEMMA TypeByOp ==
  ASSUME NEW command \in Command
  PROVE  /\ command.op = "create_service" => command \in CreateServiceCmd
         /\ command.op = "create_http_check" => command \in CreateCheckCmd
         /\ command.op = "set_check_enabled" => command \in SetEnabledCmd
         /\ command.op = "monitor" => command \in MonitorCmd
         /\ command.op = "report" => command \in ReportCmd
  BY DEF Command, Idle, CreateServiceCmd, CreateCheckCmd, SetEnabledCmd, MonitorCmd, ReportCmd

(* Rows that stay leave sound every command that was.                      *)
LEMMA SoundStays ==
  ASSUME NEW command \in Command,
         NEW ps, NEW ss, NEW cs, NEW rs, NEW ps2, NEW ss2, NEW cs2, NEW rs2,
         RowsStay(ps, ss, cs, rs, ps2, ss2, cs2, rs2),
         Sound(command, ps, ss, cs, rs)
  PROVE  Sound(command, ps2, ss2, cs2, rs2)
<1>1. command.op = "create_service" => command.project \in ps2
  BY DEF Sound, Grounded, RowsStay
<1>2. command.op = "create_http_check" =>
        IF command.at = "insert"
        THEN ss2[command.service] # None
        ELSE cs2[command.check] # None
  BY TypeByOp DEF Sound, Grounded, RowsStay, CreateCheckCmd
<1>3. command.op = "monitor" =>
        \A c \in CheckIds : command.jobs[c].phase # "unregistered" => cs2[c] # None
  BY DEF Sound, Grounded, RowsStay
<1>4. Covers(command, rs2)
  <2> SUFFICES ASSUME command.op = "report", command.limit > 0,
                      NEW c \in command.listed \ command.unread
               PROVE  IF c = command.reading
                      THEN command.latest[c] \in {r \in rs2 : r.check = c} \cup {None}
                      ELSE Covered(command.latest[c], command.recent[c], command.limit)
    BY DEF Covers
  <2>1. QED
    BY DEF Sound, Covers, RowsStay
<1>5. QED
  BY <1>1, <1>2, <1>3, <1>4 DEF Sound, Grounded

(* So it is enough to look at the process that takes the step.             *)
LEMMA OneMoves ==
  ASSUME CommandInvariant, Kept, NEW p \in Processes, NEW command \in Command,
         cmd' = [cmd EXCEPT ![p] = command],
         Sound(command, projects', services', checks', results')
  PROVE  CommandInvariant'
<1>1. ASSUME NEW q \in Processes
      PROVE  Sound(cmd'[q], projects', services', checks', results')
  <2>1. CASE q = p
    BY <2>1 DEF CommandInvariant
  <2>2. CASE q # p
    <3>1. cmd'[q] = cmd[q]
      BY <2>2 DEF CommandInvariant
    <3>2. cmd[q] \in Command /\ Sound(cmd[q], projects, services, checks, results)
      BY DEF CommandInvariant
    <3>3. QED
      BY <3>1, <3>2, SoundStays DEF Kept
  <2>3. QED
    BY <2>1, <2>2
<1>2. cmd' \in [Processes -> Command]
  BY DEF CommandInvariant
<1>3. TablesOK'
  BY DEF Kept
<1>4. QED
  BY <1>1, <1>2, <1>3 DEF CommandInvariant

(* A command that does not refer to a row.                                 *)
LEMMA IdleIsSound ==
  ASSUME NEW ps, NEW ss, NEW cs, NEW rs
  PROVE  Idle \in Command /\ Sound(Idle, ps, ss, cs, rs)
  BY DEF Command, Idle, Sound, Grounded, Carries, Covers

LEMMA Ends ==
  ASSUME CommandInvariant, Kept, NEW p \in Processes, End(p)
  PROVE  CommandInvariant'
  BY IdleIsSound, OneMoves DEF End

LEMMA NobodyMoves ==
  ASSUME CommandInvariant, Kept, UNCHANGED cmd PROVE CommandInvariant'
<1>1. ASSUME NEW q \in Processes
      PROVE  Sound(cmd[q], projects', services', checks', results')
  <2>1. cmd[q] \in Command /\ Sound(cmd[q], projects, services, checks, results)
    BY DEF CommandInvariant
  <2>2. QED
    BY <2>1, SoundStays DEF Kept
<1>2. QED
  BY <1>1 DEF CommandInvariant, Kept

(* A result of HttpCheckExecutor::execute is a row.                        *)
LEMMA NewResultIsRow ==
  ASSUME NEW c \in CheckIds, NEW id \in ResultIds, NEW response \in HttpResponses
  PROVE  NewResult(c, id, response) \in ResultRow
  BY DEF NewResult, HttpStatus, ResultRow, HealthStatus

-----------------------------------------------------------------------------
(* A step of a service or check being created.                             *)
LEMMA CreateKeeps ==
  ASSUME CommandInvariant, NEW p \in Processes, Create(p) PROVE CommandInvariant'
<1>0. TablesOK /\ cmd[p] \in Command /\ Sound(cmd[p], projects, services, checks, results)
  BY DEF CommandInvariant
<1>1. ASSUME NEW project \in ProjectIds, CreateProject(p, project)
      PROVE  CommandInvariant'
  BY <1>0, <1>1, InsertProjectKeeps, NobodyMoves DEF CreateProject
<1>2. ASSUME NEW project \in ProjectIds, NEW s \in ServiceIds, BeginCreateService(p, project, s)
      PROVE  CommandInvariant'
  <2> DEFINE command == [op |-> "create_service", project |-> project, service |-> s]
  <2>1. command \in Command
    BY DEF Command, CreateServiceCmd
  <2>2. Sound(command, projects', services', checks', results')
    BY <1>2 DEF BeginCreateService, Sound, Grounded, Carries, Covers, tables
  <2>3. cmd' = [cmd EXCEPT ![p] = command] /\ Kept
    BY <1>0, <1>2, TablesUnchanged DEF BeginCreateService, Begin
  <2> HIDE DEF command
  <2>4. QED
    BY <2>1, <2>2, <2>3, OneMoves
<1>3. CASE FinishCreateService(p)
  <2>1. cmd[p] \in CreateServiceCmd
    BY <1>0, <1>3, TypeByOp DEF FinishCreateService
  <2>2. cmd[p].service \in ServiceIds /\ cmd[p].project \in ProjectIds
    BY <2>1 DEF CreateServiceCmd
  <2>3. Kept
    BY <1>0, <1>3, <2>2, InsertServiceKeeps DEF FinishCreateService
  <2>4. QED
    BY <1>3, <2>3, Ends DEF FinishCreateService
<1>4. ASSUME NEW s \in ServiceIds, NEW c \in CheckIds, BeginCreateCheck(p, s, c)
      PROVE  CommandInvariant'
  <2> DEFINE command == [op |-> "create_http_check", at |-> "insert",
                         service |-> s, check |-> c, result |-> None]
  <2>1. command \in Command
    BY DEF Command, CreateCheckCmd
  <2>2. Sound(command, projects', services', checks', results')
    BY <1>4 DEF BeginCreateCheck, Sound, Grounded, Carries, Covers, tables
  <2>3. cmd' = [cmd EXCEPT ![p] = command] /\ Kept
    BY <1>0, <1>4, TablesUnchanged DEF BeginCreateCheck, Begin
  <2> HIDE DEF command
  <2>4. QED
    BY <2>1, <2>2, <2>3, OneMoves
<1>5. CASE CreateCheckInserts(p)
  <2> DEFINE command == [cmd[p] EXCEPT !.at = "execute"]
  <2>1. cmd[p] \in CreateCheckCmd
    BY <1>0, <1>5, TypeByOp DEF CreateCheckInserts
  <2>2. cmd[p].service \in ServiceIds /\ cmd[p].check \in CheckIds
    BY <2>1 DEF CreateCheckCmd
  <2>3. Kept /\ checks'[cmd[p].check] # None
    BY <1>0, <1>5, <2>2, InsertCheckKeeps DEF CreateCheckInserts
  <2>4. command \in CreateCheckCmd
    BY <2>1 DEF CreateCheckCmd
  <2>5. command.check = cmd[p].check /\ command.at = "execute" /\ command.op = "create_http_check"
    BY <2>1 DEF CreateCheckCmd
  <2>6. cmd' = [cmd EXCEPT ![p] = command]
    BY <1>5 DEF CreateCheckInserts
  <2> HIDE DEF command
  <2>7. command \in Command /\ Sound(command, projects', services', checks', results')
    BY <2>3, <2>4, <2>5 DEF Command, Sound, Grounded, Carries, Covers
  <2>8. QED
    BY <2>3, <2>6, <2>7, OneMoves
<1>6. CASE CreateCheckExecutes(p)
  <2>1. PICK id \in ResultIds, response \in HttpResponses :
          cmd' = [cmd EXCEPT ![p].at = "record",
                             ![p].result = NewResult(cmd[p].check, id, response)]
    BY <1>6 DEF CreateCheckExecutes
  <2> DEFINE row == NewResult(cmd[p].check, id, response)
             command == [cmd[p] EXCEPT !.at = "record", !.result = row]
  <2>2. cmd[p] \in CreateCheckCmd /\ cmd[p].at = "execute"
    BY <1>0, <1>6, TypeByOp DEF CreateCheckExecutes
  <2>3. row \in ResultRow
    BY <2>2, NewResultIsRow DEF CreateCheckCmd
  <2>4. cmd' = [cmd EXCEPT ![p] = command]
    BY <2>1
  <2> HIDE DEF row
  <2>5. command \in CreateCheckCmd
    BY <2>2, <2>3 DEF CreateCheckCmd
  <2>6. /\ command.check = cmd[p].check /\ command.result = row
        /\ command.at = "record" /\ command.op = "create_http_check"
    BY <2>2 DEF CreateCheckCmd
  <2> HIDE DEF command
  <2>7. checks[cmd[p].check] # None
    BY <1>0, <2>2 DEF Sound, Grounded, CreateCheckCmd
  <2>8. Kept /\ checks' = checks
    BY <1>0, <1>6, TablesUnchanged DEF CreateCheckExecutes, tables
  <2>9. command \in Command /\ Sound(command, projects', services', checks', results')
    BY <2>3, <2>5, <2>6, <2>7, <2>8 DEF Command, Sound, Grounded, Carries, Covers
  <2>10. QED
    BY <2>4, <2>8, <2>9, OneMoves
<1>7. CASE CreateCheckRecords(p)
  <2>1. cmd[p].result \in ResultRow
    BY <1>0, <1>7 DEF CreateCheckRecords, Sound, Carries
  <2>2. QED
    BY <1>0, <1>7, <2>1, InsertResultKeeps, Ends DEF CreateCheckRecords
<1>8. QED
  BY <1>1, <1>2, <1>3, <1>4, <1>5, <1>6, <1>7 DEF Create

(* A step of a check being enabled or disabled.                            *)
LEMMA SetEnabledKeeps ==
  ASSUME CommandInvariant, NEW p \in Processes, SetEnabled(p) PROVE CommandInvariant'
<1>0. TablesOK /\ cmd[p] \in Command
  BY DEF CommandInvariant
<1>1. ASSUME NEW c \in CheckIds, NEW enabled \in BOOLEAN, BeginSetEnabled(p, c, enabled)
      PROVE  CommandInvariant'
  <2> DEFINE command == [op |-> "set_check_enabled", check |-> c, enabled |-> enabled]
  <2>1. command \in Command
    BY DEF Command, SetEnabledCmd
  <2>2. Sound(command, projects', services', checks', results')
    BY DEF Sound, Grounded, Carries, Covers
  <2>3. cmd' = [cmd EXCEPT ![p] = command] /\ Kept
    BY <1>0, <1>1, TablesUnchanged DEF BeginSetEnabled, Begin
  <2> HIDE DEF command
  <2>4. QED
    BY <2>1, <2>2, <2>3, OneMoves
<1>2. CASE FinishSetEnabled(p)
  <2>1. cmd[p] \in SetEnabledCmd
    BY <1>0, <1>2, TypeByOp DEF FinishSetEnabled
  <2>2. cmd[p].check \in CheckIds /\ cmd[p].enabled \in BOOLEAN
    BY <2>1 DEF SetEnabledCmd
  <2>3. QED
    BY <1>0, <1>2, <2>2, UpdateEnabledKeeps, Ends DEF FinishSetEnabled
<1>3. QED
  BY <1>1, <1>2 DEF SetEnabled

-----------------------------------------------------------------------------
(* A monitor that goes on with other jobs, all of checks that are there.   *)
LEMMA MonitorGoesOn ==
  ASSUME CommandInvariant, Kept, NEW p \in Processes, NEW command \in MonitorCmd,
         cmd' = [cmd EXCEPT ![p] = command],
         \A c \in CheckIds : command.jobs[c].phase # "unregistered" => checks[c] # None,
         \A c \in CheckIds :
           command.jobs[c].phase = "recording" => command.jobs[c].result \in ResultRow
  PROVE  CommandInvariant'
<1>1. command \in Command /\ command.op = "monitor"
  BY DEF Command, MonitorCmd
<1>2. \A c \in CheckIds : command.jobs[c].phase # "unregistered" => checks'[c] # None
  BY DEF Kept, RowsStay
<1>3. Sound(command, projects', services', checks', results')
  BY <1>1, <1>2 DEF Sound, Grounded, Carries, Covers
<1>4. QED
  BY <1>1, <1>3, OneMoves

(* What is known of the jobs of a monitor.                                 *)
LEMMA JobsOfMonitor ==
  ASSUME CommandInvariant, NEW p \in Processes, cmd[p].op = "monitor"
  PROVE  /\ cmd[p] \in MonitorCmd
         /\ cmd[p].jobs \in [CheckIds -> Job]
         /\ \A c \in CheckIds : cmd[p].jobs[c].phase # "unregistered" => checks[c] # None
         /\ \A c \in CheckIds :
              cmd[p].jobs[c].phase = "recording" => cmd[p].jobs[c].result \in ResultRow
<1>1. cmd[p] \in Command /\ Sound(cmd[p], projects, services, checks, results)
  BY DEF CommandInvariant
<1>2. cmd[p] \in MonitorCmd
  BY <1>1, TypeByOp
<1>3. cmd[p].jobs \in [CheckIds -> Job]
  BY <1>2 DEF MonitorCmd
<1>4. QED
  BY <1>1, <1>2, <1>3 DEF Sound, Grounded, Carries

(* A monitor that does something with the job of a check it registered.    *)
LEMMA JobGoesOn ==
  ASSUME CommandInvariant, Kept, NEW p \in Processes, NEW c \in CheckIds, NEW job \in Job,
         cmd[p].op = "monitor", cmd[p].jobs[c].phase # "unregistered",
         job.phase = "recording" => job.result \in ResultRow,
         cmd' = [cmd EXCEPT ![p].jobs[c] = job]
  PROVE  CommandInvariant'
<1> DEFINE jobs == [cmd[p].jobs EXCEPT ![c] = job]
           command == [cmd[p] EXCEPT !.jobs = jobs]
<1>1. /\ cmd[p] \in MonitorCmd
      /\ cmd[p].jobs \in [CheckIds -> Job]
  BY JobsOfMonitor
<1>2. jobs \in [CheckIds -> Job]
  BY <1>1
<1>3. \A d \in CheckIds : jobs[d].phase # "unregistered" => checks[d] # None
  BY <1>1, JobsOfMonitor
<1>4. \A d \in CheckIds : jobs[d].phase = "recording" => jobs[d].result \in ResultRow
  BY <1>1, JobsOfMonitor
<1>5. cmd' = [cmd EXCEPT ![p] = command]
  OBVIOUS
<1> HIDE DEF jobs
<1>6. command \in MonitorCmd /\ command.jobs = jobs
  BY <1>1, <1>2 DEF MonitorCmd
<1> HIDE DEF command
<1>7. QED
  BY <1>3, <1>4, <1>5, <1>6, MonitorGoesOn

LEMMA MonitorKeeps ==
  ASSUME CommandInvariant, NEW p \in Processes, Monitor(p) PROVE CommandInvariant'
<1>0. TablesOK
  BY DEF CommandInvariant
<1>1. ASSUME NEW phase \in {"unregistered", "waiting", "executing"}
      PROVE  JobAt(phase) \in Job /\ JobAt(phase).phase = phase
  BY DEF JobAt, Job
<1>2. CASE BeginMonitor(p)
  <2> DEFINE command == [op |-> "monitor", at |-> "load",
                         jobs |-> [c \in CheckIds |-> JobAt("unregistered")]]
  <2>1. command \in MonitorCmd
    BY <1>1 DEF MonitorCmd
  <2>2. \A c \in CheckIds : command.jobs[c].phase = "unregistered"
    BY <1>1
  <2>3. cmd' = [cmd EXCEPT ![p] = command] /\ Kept
    BY <1>0, <1>2, TablesUnchanged DEF BeginMonitor, Begin
  <2> HIDE DEF command
  <2>4. QED
    BY <2>1, <2>2, <2>3, MonitorGoesOn
<1>3. CASE MonitorLoads(p)
  <2> DEFINE jobs == [c \in CheckIds |->
                        IF c \in ListEnabled THEN JobAt("waiting") ELSE cmd[p].jobs[c]]
             command == [cmd[p] EXCEPT !.at = "running", !.jobs = jobs]
  <2>1. cmd[p] \in MonitorCmd /\ cmd[p].jobs \in [CheckIds -> Job]
    BY <1>3, JobsOfMonitor DEF MonitorLoads
  <2>2. jobs \in [CheckIds -> Job]
    BY <1>1, <2>1
  <2>3. \A c \in CheckIds : jobs[c].phase # "unregistered" => checks[c] # None
    BY <1>3, JobsOfMonitor DEF ListEnabled, MonitorLoads
  <2>4. \A c \in CheckIds : jobs[c].phase = "recording" => jobs[c].result \in ResultRow
    BY <1>1, <1>3, JobsOfMonitor DEF MonitorLoads
  <2>5. cmd' = [cmd EXCEPT ![p] = command] /\ Kept
    BY <1>0, <1>3, TablesUnchanged DEF MonitorLoads
  <2> HIDE DEF jobs
  <2>6. command \in MonitorCmd /\ command.jobs = jobs
    BY <2>1, <2>2 DEF MonitorCmd
  <2> HIDE DEF command
  <2>7. QED
    BY <2>3, <2>4, <2>5, <2>6, MonitorGoesOn
<1>4. ASSUME NEW c \in CheckIds, MonitorStarts(p, c) PROVE CommandInvariant'
  BY <1>0, <1>1, <1>4, TablesUnchanged, JobGoesOn DEF MonitorStarts
<1>5. ASSUME NEW c \in CheckIds, MonitorExecutes(p, c) PROVE CommandInvariant'
  <2>1. PICK id \in ResultIds, response \in HttpResponses :
          cmd' = [cmd EXCEPT ![p].jobs[c] = [phase  |-> "recording",
                                             result |-> NewResult(c, id, response)]]
    BY <1>5 DEF MonitorExecutes
  <2> DEFINE row == NewResult(c, id, response)
             job == [phase |-> "recording", result |-> row]
  <2>2. row \in ResultRow
    BY NewResultIsRow
  <2> HIDE DEF row
  <2>3. job \in Job /\ job.result \in ResultRow
    BY <2>2 DEF Job
  <2>4. cmd' = [cmd EXCEPT ![p].jobs[c] = job]
    BY <2>1 DEF row
  <2> HIDE DEF job
  <2>5. QED
    BY <1>0, <1>5, <2>3, <2>4, TablesUnchanged, JobGoesOn DEF MonitorExecutes
<1>6. ASSUME NEW c \in CheckIds, MonitorRecords(p, c) PROVE CommandInvariant'
  <2>1. cmd[p].jobs[c].result \in ResultRow
    BY <1>6, JobsOfMonitor DEF MonitorRecords
  <2>2. Kept
    BY <1>0, <1>6, <2>1, InsertResultKeeps, TablesUnchanged DEF MonitorRecords
  <2>3. QED
    BY <1>1, <1>6, <2>2, JobGoesOn DEF MonitorRecords
<1>7. CASE MonitorStops(p)
  <2> DEFINE command == [cmd[p] EXCEPT !.at = "draining"]
  <2>1. cmd[p] \in MonitorCmd
    BY <1>7, JobsOfMonitor DEF MonitorStops
  <2>2. command \in MonitorCmd /\ command.jobs = cmd[p].jobs
    BY <2>1 DEF MonitorCmd
  <2>3. cmd' = [cmd EXCEPT ![p] = command] /\ Kept
    BY <1>0, <1>7, TablesUnchanged DEF MonitorStops
  <2> HIDE DEF command
  <2>4. /\ \A c \in CheckIds : command.jobs[c].phase # "unregistered" => checks[c] # None
        /\ \A c \in CheckIds :
             command.jobs[c].phase = "recording" => command.jobs[c].result \in ResultRow
    BY <1>7, <2>2, JobsOfMonitor DEF MonitorStops
  <2>5. QED
    BY <2>2, <2>3, <2>4, MonitorGoesOn
<1>8. CASE MonitorReturns(p)
  BY <1>0, <1>8, TablesUnchanged, Ends DEF MonitorReturns
<1>9. QED
  BY <1>2, <1>3, <1>4, <1>5, <1>6, <1>7, <1>8 DEF Monitor

-----------------------------------------------------------------------------
(* A report after each of its reads, and what is left of it by field.      *)
ServicesListed(r, S) == [r EXCEPT !.project = None, !.services = S, !.todo = S]

ChecksListed(r, s, rows, enabled) ==
  [r EXCEPT !.todo = @ \ {s}, !.unread = rows,
            !.listed = @ \cup rows, !.enabled = @ \cup enabled]

LatestRead(r, c, row, reading) ==
  [r EXCEPT !.unread = @ \ {c}, !.latest[c] = row, !.reading = reading]

RecentRead(r, c, rows) == [r EXCEPT !.recent[c] = rows, !.reading = None]

(* The fields of two reports, all but project and enabled.                 *)
Fields(r, visited, todo, listed, unread, reading, limit, latest, recent) ==
  /\ r.services = visited /\ r.todo = todo
  /\ r.listed = listed /\ r.unread = unread /\ r.reading = reading
  /\ r.limit = limit /\ r.latest = latest /\ r.recent = recent

LEMMA ServicesListedEffect ==
  ASSUME NEW r \in ReportCmd, NEW S \in SUBSET ServiceIds
  PROVE  /\ ServicesListed(r, S) \in ReportCmd
         /\ Fields(ServicesListed(r, S),
                   S, S, r.listed, r.unread, r.reading, r.limit, r.latest, r.recent)
  BY DEF ReportCmd, ServicesListed, Fields

LEMMA ChecksListedEffect ==
  ASSUME NEW r \in ReportCmd, NEW s \in ServiceIds, NEW rows \in SUBSET CheckIds,
         NEW enabled \in SUBSET CheckIds
  PROVE  /\ ChecksListed(r, s, rows, enabled) \in ReportCmd
         /\ Fields(ChecksListed(r, s, rows, enabled),
                   r.services, r.todo \ {s}, r.listed \cup rows, rows, r.reading,
                   r.limit, r.latest, r.recent)
  BY DEF ReportCmd, ChecksListed, Fields

LEMMA LatestReadEffect ==
  ASSUME NEW r \in ReportCmd, NEW c \in CheckIds, NEW row \in ResultRow \cup {None},
         NEW reading \in CheckIds \cup {None}
  PROVE  /\ LatestRead(r, c, row, reading) \in ReportCmd
         /\ Fields(LatestRead(r, c, row, reading),
                   r.services, r.todo, r.listed, r.unread \ {c}, reading,
                   r.limit, [r.latest EXCEPT ![c] = row], r.recent)
  BY DEF ReportCmd, LatestRead, Fields

LEMMA RecentReadEffect ==
  ASSUME NEW r \in ReportCmd, NEW c \in CheckIds, NEW rows \in SUBSET ResultRow
  PROVE  /\ RecentRead(r, c, rows) \in ReportCmd
         /\ Fields(RecentRead(r, c, rows),
                   r.services, r.todo, r.listed, r.unread, None,
                   r.limit, r.latest, [r.recent EXCEPT ![c] = rows])
  BY DEF ReportCmd, RecentRead, Fields

LEMMA BeginsEmpty ==
  ASSUME NEW limit \in Nat, NEW project \in ProjectIds \cup {None}, NEW todo \in SUBSET ServiceIds,
         NEW command, command = EmptyReport(limit, project, todo)
  PROVE  /\ command \in ReportCmd
         /\ command.services = todo /\ command.todo = todo
         /\ command.listed = {} /\ command.unread = {} /\ command.op = "report"
  BY DEF EmptyReport, ReportCmd

(* What the two kinds of read return.                                      *)
LEMMA ReadsReturnRows ==
  ASSUME TablesOK, NEW c \in CheckIds, NEW limit
  PROVE  /\ LatestForCheck(c) \in ResultRow \cup {None}
         /\ RecentForCheck(c, limit) \in SUBSET ResultRow
<1>1. LatestForCheck(c) \in ResultsOf(c) \cup {None}
  BY LatestIsNewest DEF TablesOK
<1>2. QED
  BY <1>1 DEF TablesOK, ResultsOf, RecentForCheck

-----------------------------------------------------------------------------
(* A report goes on, or begins.                                            *)
LEMMA ReportGoesOn ==
  ASSUME CommandInvariant, UNCHANGED tables, NEW p \in Processes, NEW command \in ReportCmd,
         cmd' = [cmd EXCEPT ![p] = command], Covers(command, results)
  PROVE  CommandInvariant'
<1>1. command \in Command /\ command.op = "report"
  BY DEF Command, ReportCmd
<1>2. Sound(command, projects', services', checks', results')
  BY <1>1 DEF Sound, Grounded, Carries, Covers, tables
<1>3. Kept
  BY TablesUnchanged DEF CommandInvariant
<1>4. QED
  BY <1>1, <1>2, <1>3, OneMoves

(* What is known of a report.                                              *)
LEMMA ReportIsSound ==
  ASSUME CommandInvariant, NEW p \in Processes, cmd[p].op = "report"
  PROVE  /\ cmd[p] \in ReportCmd
         /\ Covers(cmd[p], results)
         /\ cmd[p].limit \in Nat
         /\ cmd[p].reading \in CheckIds \cup {None}
         /\ cmd[p].listed \in SUBSET CheckIds
         /\ cmd[p].unread \in SUBSET CheckIds
<1>1. cmd[p] \in Command /\ Covers(cmd[p], results)
  BY DEF CommandInvariant, Sound
<1>2. cmd[p] \in ReportCmd
  BY <1>1, TypeByOp
<1>3. QED
  BY <1>1, <1>2 DEF ReportCmd

LEMMA ReportKeeps ==
  ASSUME CommandInvariant, NEW p \in Processes, Report(p) PROVE CommandInvariant'
<1>0. TablesOK
  BY DEF CommandInvariant
<1>1. ASSUME NEW limit \in Nat, NEW project \in ProjectIds \cup {None},
             NEW todo \in SUBSET ServiceIds, Begin(p, EmptyReport(limit, project, todo)),
             UNCHANGED tables
      PROVE  CommandInvariant'
  <2> DEFINE command == EmptyReport(limit, project, todo)
  <2>1. cmd' = [cmd EXCEPT ![p] = command]
    BY <1>1 DEF Begin
  <2> HIDE DEF command
  <2>2. command \in ReportCmd /\ command.listed = {}
    BY BeginsEmpty DEF command
  <2>3. Covers(command, results)
    BY <2>2 DEF Covers
  <2>4. QED
    BY <1>1, <2>1, <2>2, <2>3, ReportGoesOn
<1>2. ASSUME NEW s \in ServiceIds, NEW limit \in HistoryLimits, BeginServiceHealth(p, s, limit)
      PROVE  CommandInvariant'
  BY <1>1, <1>2, ApplicationAssumption DEF BeginServiceHealth
<1>3. ASSUME NEW project \in ProjectIds, BeginProjectSummary(p, project)
      PROVE  CommandInvariant'
  BY <1>1, <1>3 DEF BeginProjectSummary
<1>5. CASE ReportListsServices(p)
  <2> DEFINE listed == ListServices(cmd[p].project)
             command == ServicesListed(cmd[p], listed)
  <2>1. cmd' = [cmd EXCEPT ![p] = command]
    BY <1>5 DEF ReportListsServices, ServicesListed
  <2>2. cmd[p] \in ReportCmd /\ Covers(cmd[p], results) /\ listed \in SUBSET ServiceIds
    BY <1>5, ReportIsSound DEF ReportListsServices, ListServices
  <2> HIDE DEF listed
  <2> HIDE DEF command
  <2>3. /\ command \in ReportCmd
        /\ command.limit = cmd[p].limit /\ command.unread = cmd[p].unread
        /\ command.reading = cmd[p].reading /\ command.listed = cmd[p].listed
        /\ command.latest = cmd[p].latest /\ command.recent = cmd[p].recent
    BY <2>2, ServicesListedEffect DEF command, Fields
  <2>4. Covers(command, results)
    BY <1>5, <2>2, <2>3 DEF Covers, ReportListsServices
  <2>5. QED
    BY <1>5, <2>1, <2>3, <2>4, ReportGoesOn DEF ReportListsServices
<1>6. ASSUME NEW s \in ServiceIds, ReportListsChecks(p, s) PROVE CommandInvariant'
  <2> DEFINE rows == ListForService(s)
             enabled == {c \in rows : checks[c].enabled}
             command == ChecksListed(cmd[p], s, rows, enabled)
  <2>1. cmd' = [cmd EXCEPT ![p] = command]
    BY <1>6 DEF ReportListsChecks, ChecksListed
  <2>2. /\ cmd[p] \in ReportCmd /\ Covers(cmd[p], results)
        /\ rows \in SUBSET CheckIds /\ enabled \in SUBSET CheckIds
        /\ cmd[p].unread = {}
    BY <1>6, ReportIsSound DEF ReportListsChecks, ListForService
  <2> HIDE DEF rows, enabled
  <2> HIDE DEF command
  <2>3. /\ command \in ReportCmd
        /\ command.limit = cmd[p].limit /\ command.unread = rows
        /\ command.reading = cmd[p].reading /\ command.listed = cmd[p].listed \cup rows
        /\ command.latest = cmd[p].latest /\ command.recent = cmd[p].recent
    <3>1. /\ command \in ReportCmd
          /\ Fields(command, cmd[p].services, cmd[p].todo \ {s}, cmd[p].listed \cup rows, rows,
                    cmd[p].reading, cmd[p].limit, cmd[p].latest, cmd[p].recent)
      BY <2>2, ChecksListedEffect DEF command
    <3>2. QED
      BY <3>1 DEF Fields
  <2>4. command.listed \ command.unread \subseteq cmd[p].listed \ cmd[p].unread
    BY <2>2, <2>3
  <2>5. Covers(command, results)
    BY <1>6, <2>2, <2>3, <2>4 DEF Covers, ReportListsChecks
  <2>6. QED
    BY <1>6, <2>1, <2>3, <2>5, ReportGoesOn DEF ReportListsChecks
<1>7. ASSUME NEW c \in CheckIds, ReportReadsLatest(p, c) PROVE CommandInvariant'
  <2> DEFINE row == LatestForCheck(c)
             reading == IF cmd[p].limit = 0 THEN None ELSE c
             command == LatestRead(cmd[p], c, row, reading)
  <2>1. cmd' = [cmd EXCEPT ![p] = command]
    BY <1>7 DEF ReportReadsLatest, LatestRead
  <2>2. /\ cmd[p] \in ReportCmd /\ Covers(cmd[p], results) /\ cmd[p].limit \in Nat
        /\ cmd[p].op = "report" /\ cmd[p].reading = None
        /\ cmd[p].listed \in SUBSET CheckIds
        /\ reading \in CheckIds \cup {None}
    BY <1>7, ReportIsSound DEF ReportReadsLatest
  <2>3. row \in ResultsOf(c) \cup {None} /\ row \in ResultRow \cup {None}
    BY <1>0, LatestIsNewest, ReadsReturnRows DEF TablesOK
  <2> HIDE DEF row
  <2> HIDE DEF command
  <2>4. /\ command \in ReportCmd
        /\ command.limit = cmd[p].limit /\ command.unread = cmd[p].unread \ {c}
        /\ command.reading = reading /\ command.listed = cmd[p].listed
        /\ command.latest = [cmd[p].latest EXCEPT ![c] = row]
        /\ command.recent = cmd[p].recent
    <3> HIDE DEF reading
    <3>1. QED
      BY <2>2, <2>3, LatestReadEffect DEF command, Fields
  <2>5. cmd[p].latest \in [CheckIds -> ResultRow \cup {None}]
    BY <2>2 DEF ReportCmd
  <2>6. ASSUME command.limit > 0, NEW d \in command.listed \ command.unread
        PROVE  IF d = command.reading
               THEN command.latest[d] \in {r \in results : r.check = d} \cup {None}
               ELSE Covered(command.latest[d], command.recent[d], command.limit)
    <3>1. command.reading = c /\ d \in CheckIds
      BY <2>2, <2>4, <2>6
    <3>2. CASE d = c
      BY <2>3, <2>4, <2>5, <3>1, <3>2 DEF ResultsOf
    <3>3. CASE d # c
      <4>1. d \in cmd[p].listed \ cmd[p].unread /\ d # cmd[p].reading
        BY <2>2, <2>4, <2>6, <3>1, <3>3, PersistenceAssumption
      <4>2. Covered(cmd[p].latest[d], cmd[p].recent[d], cmd[p].limit)
        BY <2>2, <2>4, <2>6, <4>1 DEF Covers
      <4>3. command.latest[d] = cmd[p].latest[d] /\ command.recent[d] = cmd[p].recent[d]
        BY <2>4, <2>5, <3>1, <3>3
      <4>4. QED
        BY <2>4, <3>1, <3>3, <4>2, <4>3
    <3>4. QED
      BY <3>2, <3>3
  <2>7. Covers(command, results)
    BY <2>6 DEF Covers
  <2>8. QED
    BY <1>7, <2>1, <2>4, <2>7, ReportGoesOn DEF ReportReadsLatest
<1>8. CASE ReportReadsRecent(p)
  <2>1. /\ cmd[p] \in ReportCmd /\ Covers(cmd[p], results) /\ cmd[p].limit \in Nat
        /\ cmd[p].op = "report" /\ cmd[p].reading \in CheckIds
        /\ cmd[p].listed \in SUBSET CheckIds
    BY <1>8, ReportIsSound DEF ReportReadsRecent
  <2>2. PICK c \in CheckIds : c = cmd[p].reading
    BY <2>1
  <2> DEFINE rows == RecentForCheck(c, cmd[p].limit)
             command == RecentRead(cmd[p], c, rows)
  <2>3. cmd' = [cmd EXCEPT ![p] = command]
    BY <1>8, <2>2 DEF ReportReadsRecent, RecentRead
  <2>4. rows \in SUBSET ResultRow
    BY <1>0, ReadsReturnRows
  <2>5. \A latest \in ResultsOf(c) \cup {None} : Covered(latest, rows, cmd[p].limit)
    BY <1>0, <2>1, RecentCovers DEF TablesOK
  <2> HIDE DEF rows
  <2> HIDE DEF command
  <2>6. /\ command \in ReportCmd
        /\ command.limit = cmd[p].limit /\ command.unread = cmd[p].unread
        /\ command.reading = None /\ command.listed = cmd[p].listed
        /\ command.latest = cmd[p].latest
        /\ command.recent = [cmd[p].recent EXCEPT ![c] = rows]
    BY <2>1, <2>4, RecentReadEffect DEF command, Fields
  <2>7. cmd[p].recent \in [CheckIds -> SUBSET ResultRow]
    BY <2>1 DEF ReportCmd
  <2>8. ASSUME command.limit > 0, NEW d \in command.listed \ command.unread
        PROVE  d # None /\ Covered(command.latest[d], command.recent[d], command.limit)
    <3>1. d \in CheckIds /\ d # None /\ d \in cmd[p].listed \ cmd[p].unread
      BY <2>1, <2>6, PersistenceAssumption
    <3>2. CASE d = c
      <4>1. cmd[p].latest[d] \in ResultsOf(c) \cup {None}
        BY <2>1, <2>2, <2>6, <2>8, <3>1, <3>2 DEF Covers, ResultsOf
      <4>2. command.recent[d] = rows /\ command.latest[d] = cmd[p].latest[d]
        BY <2>6, <2>7, <3>1, <3>2
      <4>3. QED
        BY <2>5, <2>6, <3>1, <4>1, <4>2
    <3>3. CASE d # c
      <4>1. Covered(cmd[p].latest[d], cmd[p].recent[d], cmd[p].limit)
        BY <2>1, <2>2, <2>6, <2>8, <3>1, <3>3 DEF Covers
      <4>2. command.recent[d] = cmd[p].recent[d]
        BY <2>6, <2>7, <3>1, <3>3
      <4>3. QED
        BY <2>6, <3>1, <4>1, <4>2
    <3>4. QED
      BY <3>2, <3>3
  <2>9. Covers(command, results)
    BY <2>6, <2>8 DEF Covers
  <2>10. QED
    BY <1>8, <2>3, <2>6, <2>9, ReportGoesOn DEF ReportReadsRecent
<1>9. CASE ReportReturns(p)
  BY <1>0, <1>9, TablesUnchanged, Ends DEF ReportReturns
<1>10. QED
  BY <1>2, <1>3, <1>5, <1>6, <1>7, <1>8, <1>9 DEF Report

-----------------------------------------------------------------------------
LEMMA CommandInvariantStep ==
  ASSUME CommandInvariant, [Next]_appVars PROVE CommandInvariant'
<1>1. TablesOK
  BY DEF CommandInvariant
<1>2. ASSUME NEW p \in Processes, CommandEndsEarly(p) PROVE CommandInvariant'
  BY <1>1, <1>2, TablesUnchanged, Ends DEF CommandEndsEarly
<1>3. CASE UNCHANGED appVars
  BY <1>1, <1>3, TablesUnchanged, NobodyMoves DEF appVars
<1>4. QED
  BY <1>2, <1>3, CreateKeeps, SetEnabledKeeps, MonitorKeeps, ReportKeeps DEF Next

LEMMA CommandInvariantInit == Init => CommandInvariant
<1> SUFFICES ASSUME Init PROVE CommandInvariant
  OBVIOUS
<1>1. TablesOK
  BY FS_EmptySet DEF Init, EmptyDatabase, TablesOK, IdsDiffer
<1>2. QED
  BY <1>1, IdleIsSound DEF Init, CommandInvariant

LEMMA CommandInvariantHolds == Spec => []CommandInvariant
  BY CommandInvariantInit, CommandInvariantStep, PTL DEF Spec

(* The tables hold what their columns are for, whatever is written and     *)
(* read between two statements of a command, and every command is in one   *)
(* of the states of its own.                                               *)
THEOREM ApplicationTypeOK == Spec => []TypeOK
<1>1. CommandInvariant => TypeOK
  BY DEF CommandInvariant, TablesOK, TypeOK
<1>2. QED
  BY <1>1, CommandInvariantHolds, PTL

(* A row that a command looked up is there when it writes what refers to   *)
(* it, however the statements of other processes come between: no INSERT   *)
(* of create_service, create_http_check or a monitor's sink fails on a     *)
(* foreign key.                                                            *)
THEOREM LookupsStayValidAlways == Spec => []LookupsStayValid
<1>1. CommandInvariant => LookupsStayValid
  BY DEF CommandInvariant, Sound, Grounded, LookupsStayValid
<1>2. QED
  BY <1>1, CommandInvariantHolds, PTL

(* latest_for_check and recent_for_check are two reads, and results come   *)
(* between them: the history of a report still holds the latest result it  *)
(* shows, or is full of newer ones.                                        *)
THEOREM HistoryAlwaysCoversLatest == Spec => []HistoryCoversLatest
<1>1. ASSUME CommandInvariant PROVE HistoryCoversLatest
  <2> SUFFICES ASSUME NEW p \in Processes, Reported(p), cmd[p].limit > 0,
                      NEW c \in cmd[p].listed
               PROVE  Covered(cmd[p].latest[c], cmd[p].recent[c], cmd[p].limit)
    BY DEF HistoryCoversLatest, Covered
  <2>1. c \in CheckIds /\ Covers(cmd[p], results)
    BY <1>1, ReportIsSound DEF Reported
  <2>2. c \in cmd[p].listed \ cmd[p].unread /\ c # cmd[p].reading
    BY <2>1, PersistenceAssumption DEF Reported
  <2>3. QED
    BY <2>1, <2>2 DEF Covers, Reported
<1>2. QED
  BY <1>1, CommandInvariantHolds, PTL
=============================================================================
