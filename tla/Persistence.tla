---------------------------- MODULE Persistence ----------------------------
(***************************************************************************)
(* The SQLite database behind crates/server/src/persistence: one table per *)
(* variable, one operator per statement.  Each statement is atomic and no  *)
(* statement of the server deletes a row or runs in a transaction with     *)
(* another.  Names, urls, durations and error texts are left out.          *)
(***************************************************************************)
EXTENDS Integers, FiniteSets

CONSTANTS
  ProjectIds, ServiceIds, CheckIds,  \* Uuids: primary keys
  ResultIds,  \* what results are known and ordered by
  None        \* no row

ASSUME PersistenceAssumption ==
  /\ ResultIds \subseteq Nat
  /\ None \notin ProjectIds \cup CheckIds

VARIABLES
  projects,  \* the ids in table projects
  services,  \* per service its project, or None
  checks,    \* per check its row, or None
  results    \* the rows of check_results

tables == <<projects, services, checks, results>>

HealthStatus == {"HEALTHY", "DEGRADED", "UNHEALTHY", "UNKNOWN"}

(* checks                                                                  *)
CheckRow == [service : ServiceIds, enabled : BOOLEAN]

(* check_results.  The pair (checked_at, id) orders the rows and nothing   *)
(* else looks at either: the rank of a pair among all pairs stands for it  *)
(* here.  Module Results has timestamps and ids as they are.               *)
ResultRow == [id : ResultIds, check : CheckIds, status : HealthStatus]

ASSUME NoRowAssumption == None \notin CheckRow \cup ResultRow

EmptyDatabase ==
  /\ projects = {}
  /\ services = [s \in ServiceIds |-> None]
  /\ checks = [c \in CheckIds |-> None]
  /\ results = {}

-----------------------------------------------------------------------------
(* Statements that write.  The primary key and the foreign key are part of *)
(* the guard: without them SQLite fails the statement and changes nothing. *)

InsertProject(p) ==
  /\ p \notin projects
  /\ projects' = projects \cup {p}
  /\ UNCHANGED <<services, checks, results>>

InsertService(s, p) ==
  /\ services[s] = None
  /\ p \in projects
  /\ services' = [services EXCEPT ![s] = p]
  /\ UNCHANGED <<projects, checks, results>>

(* Check::new makes an enabled check.                                      *)
InsertCheck(c, s) ==
  /\ checks[c] = None
  /\ services[s] # None
  /\ checks' = [checks EXCEPT ![c] = [service |-> s, enabled |-> TRUE]]
  /\ UNCHANGED <<projects, services, results>>

(* UPDATE ... WHERE id: no row, no change.                                 *)
UpdateEnabled(c, enabled) ==
  /\ checks' = IF checks[c] = None
               THEN checks
               ELSE [checks EXCEPT ![c].enabled = enabled]
  /\ UNCHANGED <<projects, services, results>>

InsertResult(row) ==
  /\ \A r \in results : r.id # row.id
  /\ checks[row.check] # None
  /\ results' = results \cup {row}
  /\ UNCHANGED <<projects, services, checks>>

-----------------------------------------------------------------------------
(* Statements that read.                                                   *)

ListServices(p) == {s \in ServiceIds : services[s] = p}

ListForService(s) == {c \in CheckIds : checks[c] # None /\ checks[c].service = s}

(* Faulty variant of ListEnabled: no WHERE enabled = 1.                    *)
ListAll == {c \in CheckIds : checks[c] # None}

ListEnabled == {c \in CheckIds : checks[c] # None /\ checks[c].enabled}

ResultsOf(c) == {r \in results : r.check = c}

(* ORDER BY checked_at DESC, id DESC: r comes before q.                    *)
Newer(r, q) == r.id > q.id

(* Faulty variant of LatestForCheck: ORDER BY checked_at, id.              *)
FirstForCheck(c) ==
  IF ResultsOf(c) = {}
  THEN None
  ELSE CHOOSE r \in ResultsOf(c) : \A q \in ResultsOf(c) : ~Newer(r, q)

LatestForCheck(c) ==
  IF ResultsOf(c) = {}
  THEN None
  ELSE CHOOSE r \in ResultsOf(c) : \A q \in ResultsOf(c) : ~Newer(q, r)

(* Faulty variant of RecentForCheck: the oldest rows instead of the newest. *)
OldestForCheck(c, limit) ==
  {r \in ResultsOf(c) :
     Cardinality({q \in ResultsOf(c) : Newer(r, q)}) < limit}

(* The first rows of that order, as a set: the order of its members is     *)
(* Newer.                                                                  *)
RecentForCheck(c, limit) ==
  {r \in ResultsOf(c) :
     Cardinality({q \in ResultsOf(c) : Newer(q, r)}) < limit}
=============================================================================
