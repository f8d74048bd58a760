---------------------------- MODULE Application ----------------------------
(***************************************************************************)
(* The commands of crates/server/src/application.rs as healthcheck-server  *)
(* runs them: every invocation is a process of its own, several may be at  *)
(* work on the database file at once, and all they share is the database.  *)
(* Each statement is a step; a command can end between any two of them     *)
(* because a statement fails or because the process is killed.  Looking up *)
(* the parent row is the first step of a command; a lookup that finds      *)
(* nothing, or input that the domain rejects, ends it with no effect, and  *)
(* so does create_project's single statement when it fails.                *)
(***************************************************************************)
EXTENDS Reporting

CONSTANTS
  Processes,        \* invocations of the command line
  HistoryLimits,    \* the values of --history
  ClockMayStepBack  \* whether the wall clock may be set back

ASSUME ApplicationAssumption ==
  /\ HistoryLimits \subseteq Nat
  /\ ClockMayStepBack \in BOOLEAN

VARIABLE cmd  \* what each process is doing

appVars == <<tables, cmd>>

-----------------------------------------------------------------------------
(* The local state of a process.                                           *)

Idle == [op |-> "idle"]

CreateServiceCmd ==
  [op : {"create_service"}, project : ProjectIds, service : ServiceIds]

CreateCheckCmd ==
  [op : {"create_http_check"}, at : {"insert", "execute", "record"},
   service : ServiceIds, check : CheckIds, result : ResultRow \cup {None}]

SetEnabledCmd ==
  [op : {"set_check_enabled"}, check : CheckIds, enabled : BOOLEAN]

(* What a monitor does with a check.                                       *)
Job == [phase  : {"unregistered", "waiting", "executing", "recording"},
        result : ResultRow \cup {None}]

JobAt(phase) == [phase |-> phase, result |-> None]

MonitorCmd ==
  [op : {"monitor"}, at : {"load", "running", "draining"},
   jobs : [CheckIds -> Job]]

(* A report: the services still to be visited, the checks of the present   *)
(* one still to be read, and what has been read.                           *)
ReportCmd ==
  [op       : {"report"},
   limit    : Nat,
   project  : ProjectIds \cup {None},
   services : SUBSET ServiceIds,
   todo     : SUBSET ServiceIds,
   unread   : SUBSET CheckIds,
   reading  : CheckIds \cup {None},
   listed   : SUBSET CheckIds,
   enabled  : SUBSET CheckIds,
   latest   : [CheckIds -> ResultRow \cup {None}],
   recent   : [CheckIds -> SUBSET ResultRow]]

Command ==
  {Idle} \cup CreateServiceCmd \cup CreateCheckCmd \cup SetEnabledCmd
    \cup MonitorCmd \cup ReportCmd

Begin(p, command) == cmd[p] = Idle /\ cmd' = [cmd EXCEPT ![p] = command]

End(p) == cmd' = [cmd EXCEPT ![p] = Idle]

Init ==
  /\ EmptyDatabase
  /\ cmd = [p \in Processes |-> Idle]

-----------------------------------------------------------------------------
(* HttpCheckExecutor::execute, and CheckResult::new, which draws a Uuid    *)
(* and reads the wall clock.  A response within the timeout may have the   *)
(* expected status or another; everything else is an error of the request. *)
HttpResponses == {"expected status", "other status", "timeout", "failure"}

(* Faulty variant of HttpStatus: a status the schema does not know.        *)
HttpStatusOfTimeout(response) ==
  CASE response = "expected status" -> "HEALTHY"
    [] response = "timeout"         -> "TIMEOUT"
    [] OTHER                        -> "UNHEALTHY"

HttpStatus(response) ==
  IF response = "expected status" THEN "HEALTHY" ELSE "UNHEALTHY"

(* The results a process holds and has not stored.                         *)
InHand(p) ==
  CASE cmd[p].op = "create_http_check" -> {cmd[p].result}
    [] cmd[p].op = "monitor"           -> {cmd[p].jobs[c].result : c \in CheckIds}
    [] OTHER                           -> {}

(* A new result is newer than those there are, or takes any free place in  *)
(* the order if the wall clock may have been set back.                     *)
FreshResultId(id) ==
  \A r \in (results \cup UNION {InHand(p) : p \in Processes}) \ {None} :
    r.id < id \/ (ClockMayStepBack /\ r.id # id)

NewResult(c, id, response) ==
  [id |-> id, check |-> c, status |-> HttpStatus(response)]

(* No other process has drawn this Uuid for a service, or for a check.     *)
FreshServiceId(s) ==
  /\ services[s] = None
  /\ \A p \in Processes : cmd[p].op = "create_service" => cmd[p].service # s

FreshCheckId(c) ==
  /\ checks[c] = None
  /\ \A p \in Processes : cmd[p].op = "create_http_check" => cmd[p].check # c

-----------------------------------------------------------------------------
(* project create, service create                                          *)

CreateProject(p, project) ==
  /\ cmd[p] = Idle
  /\ InsertProject(project)
  /\ UNCHANGED cmd

(* Faulty variant of BeginCreateService: the project is not looked up.     *)
BeginCreateServiceUnchecked(p, project, s) ==
  /\ FreshServiceId(s)
  /\ Begin(p, [op |-> "create_service", project |-> project, service |-> s])
  /\ UNCHANGED tables

BeginCreateService(p, project, s) ==
  /\ project \in projects
  /\ FreshServiceId(s)
  /\ Begin(p, [op |-> "create_service", project |-> project, service |-> s])
  /\ UNCHANGED tables

FinishCreateService(p) ==
  /\ cmd[p].op = "create_service"
  /\ InsertService(cmd[p].service, cmd[p].project)
  /\ End(p)

(* check http: insert the check, execute it, insert the result; only then  *)
(* does the command return Ok.                                             *)

BeginCreateCheck(p, s, c) ==
  /\ services[s] # None
  /\ FreshCheckId(c)
  /\ Begin(p, [op |-> "create_http_check", at |-> "insert",
               service |-> s, check |-> c, result |-> None])
  /\ UNCHANGED tables

CreateCheckInserts(p) ==
  /\ cmd[p].op = "create_http_check" /\ cmd[p].at = "insert"
  /\ InsertCheck(cmd[p].check, cmd[p].service)
  /\ cmd' = [cmd EXCEPT ![p].at = "execute"]

CreateCheckExecutes(p) ==
  /\ cmd[p].op = "create_http_check" /\ cmd[p].at = "execute"
  /\ \E id \in ResultIds, response \in HttpResponses :
       /\ FreshResultId(id)
       /\ cmd' = [cmd EXCEPT ![p].at = "record",
                             ![p].result = NewResult(cmd[p].check, id, response)]
  /\ UNCHANGED tables

CreateCheckRecords(p) ==
  /\ cmd[p].op = "create_http_check" /\ cmd[p].at = "record"
  /\ InsertResult(cmd[p].result)
  /\ End(p)

(* check enable, check disable                                             *)

BeginSetEnabled(p, c, enabled) ==
  /\ checks[c] # None
  /\ Begin(p, [op |-> "set_check_enabled", check |-> c, enabled |-> enabled])
  /\ UNCHANGED tables

FinishSetEnabled(p) ==
  /\ cmd[p].op = "set_check_enabled"
  /\ UpdateEnabled(cmd[p].check, cmd[p].enabled)
  /\ End(p)

-----------------------------------------------------------------------------
(* monitor.  The schedule is that of module FixedDelay with the delays     *)
(* left out: a waiting check may start at any time.                        *)

BeginMonitor(p) ==
  /\ Begin(p, [op |-> "monitor", at |-> "load",
               jobs |-> [c \in CheckIds |-> JobAt("unregistered")]])
  /\ UNCHANGED tables

(* list_enabled, then every row is registered: the snapshot is not taken   *)
(* again while the monitor runs.                                           *)
MonitorLoads(p) ==
  /\ cmd[p].op = "monitor" /\ cmd[p].at = "load"
  /\ cmd' = [cmd EXCEPT
               ![p].at = "running",
               ![p].jobs = [c \in CheckIds |->
                              IF c \in ListEnabled THEN JobAt("waiting") ELSE @[c]]]
  /\ UNCHANGED tables

MonitorStarts(p, c) ==
  /\ cmd[p].op = "monitor" /\ cmd[p].at = "running"
  /\ cmd[p].jobs[c].phase = "waiting"
  /\ cmd' = [cmd EXCEPT ![p].jobs[c] = JobAt("executing")]
  /\ UNCHANGED tables

MonitorExecutes(p, c) ==
  /\ cmd[p].op = "monitor"
  /\ cmd[p].jobs[c].phase = "executing"
  /\ \E id \in ResultIds, response \in HttpResponses :
       /\ FreshResultId(id)
       /\ cmd' = [cmd EXCEPT ![p].jobs[c] = [phase  |-> "recording",
                                             result |-> NewResult(c, id, response)]]
  /\ UNCHANGED tables

(* SqliteResultSink::record: the row is inserted, or the statement fails   *)
(* and the result is gone.                                                 *)
MonitorRecords(p, c) ==
  /\ cmd[p].op = "monitor"
  /\ cmd[p].jobs[c].phase = "recording"
  /\ cmd' = [cmd EXCEPT ![p].jobs[c] = JobAt("waiting")]
  /\ InsertResult(cmd[p].jobs[c].result) \/ UNCHANGED tables

(* Ctrl+C: nothing starts any more, what executes is drained.              *)
MonitorStops(p) ==
  /\ cmd[p].op = "monitor" /\ cmd[p].at = "running"
  /\ cmd' = [cmd EXCEPT ![p].at = "draining"]
  /\ UNCHANGED tables

MonitorReturns(p) ==
  /\ cmd[p].op = "monitor" /\ cmd[p].at = "draining"
  /\ \A c \in CheckIds : cmd[p].jobs[c].phase \in {"unregistered", "waiting"}
  /\ End(p)
  /\ UNCHANGED tables

-----------------------------------------------------------------------------
(* service health, project summary: a read per step, no transaction.       *)

EmptyReport(limit, project, todo) ==
  [op |-> "report", limit |-> limit, project |-> project,
   services |-> todo, todo |-> todo, unread |-> {}, reading |-> None,
   listed |-> {}, enabled |-> {},
   latest |-> [c \in CheckIds |-> None], recent |-> [c \in CheckIds |-> {}]]

BeginServiceHealth(p, s, limit) ==
  /\ services[s] # None
  /\ Begin(p, EmptyReport(limit, None, {s}))
  /\ UNCHANGED tables

(* project_summary reads the project, then lists its services; histories   *)
(* are not asked for.                                                      *)
BeginProjectSummary(p, project) ==
  /\ project \in projects
  /\ Begin(p, EmptyReport(0, project, {}))
  /\ UNCHANGED tables

ReportListsServices(p) ==
  /\ cmd[p].op = "report"
  /\ cmd[p].project # None
  /\ LET listed == ListServices(cmd[p].project) IN
       cmd' = [cmd EXCEPT ![p].project = None,
                          ![p].services = listed,
                          ![p].todo = listed]
  /\ UNCHANGED tables

(* health_for_service: the checks of a service, enabled or not.            *)
ReportListsChecks(p, s) ==
  /\ cmd[p].op = "report"
  /\ s \in cmd[p].todo
  /\ cmd[p].unread = {} /\ cmd[p].reading = None
  /\ LET rows == ListForService(s) IN
       cmd' = [cmd EXCEPT ![p].todo = @ \ {s},
                          ![p].unread = rows,
                          ![p].listed = @ \cup rows,
                          ![p].enabled = @ \cup {c \in rows : checks[c].enabled}]
  /\ UNCHANGED tables

(* latest_for_check, and recent_for_check after it if a history is wanted. *)
ReportReadsLatest(p, c) ==
  /\ cmd[p].op = "report"
  /\ c \in cmd[p].unread
  /\ cmd[p].reading = None
  /\ cmd' = [cmd EXCEPT ![p].unread = @ \ {c},
                        ![p].latest[c] = LatestForCheck(c),
                        ![p].reading = IF cmd[p].limit = 0 THEN None ELSE c]
  /\ UNCHANGED tables

ReportReadsRecent(p) ==
  /\ cmd[p].op = "report"
  /\ cmd[p].reading # None
  /\ LET c == cmd[p].reading IN
       cmd' = [cmd EXCEPT ![p].recent[c] = RecentForCheck(c, cmd[p].limit),
                          ![p].reading = None]
  /\ UNCHANGED tables

(* Everything is read: the report is what the caller gets.                 *)
Reported(p) ==
  /\ cmd[p].op = "report"
  /\ cmd[p].project = None
  /\ cmd[p].todo = {}
  /\ cmd[p].unread = {}
  /\ cmd[p].reading = None

ReportReturns(p) ==
  /\ Reported(p)
  /\ End(p)
  /\ UNCHANGED tables

-----------------------------------------------------------------------------
(* A statement fails and the command returns the error, or the process is  *)
(* killed: what has been written stays, what is in hand is lost.           *)
CommandEndsEarly(p) ==
  /\ cmd[p] # Idle
  /\ End(p)
  /\ UNCHANGED tables

Create(p) ==
  \/ \E project \in ProjectIds : CreateProject(p, project)
  \/ \E project \in ProjectIds, s \in ServiceIds : BeginCreateService(p, project, s)
  \/ FinishCreateService(p)
  \/ \E s \in ServiceIds, c \in CheckIds : BeginCreateCheck(p, s, c)
  \/ CreateCheckInserts(p)
  \/ CreateCheckExecutes(p)
  \/ CreateCheckRecords(p)

SetEnabled(p) ==
  \/ \E c \in CheckIds, enabled \in BOOLEAN : BeginSetEnabled(p, c, enabled)
  \/ FinishSetEnabled(p)

Monitor(p) ==
  \/ BeginMonitor(p)
  \/ MonitorLoads(p)
  \/ \E c \in CheckIds :
       MonitorStarts(p, c) \/ MonitorExecutes(p, c) \/ MonitorRecords(p, c)
  \/ MonitorStops(p)
  \/ MonitorReturns(p)

Report(p) ==
  \/ \E s \in ServiceIds, limit \in HistoryLimits : BeginServiceHealth(p, s, limit)
  \/ \E project \in ProjectIds : BeginProjectSummary(p, project)
  \/ ReportListsServices(p)
  \/ \E s \in ServiceIds : ReportListsChecks(p, s)
  \/ \E c \in CheckIds : ReportReadsLatest(p, c)
  \/ ReportReadsRecent(p)
  \/ ReportReturns(p)

Next ==
  \E p \in Processes :
    Create(p) \/ SetEnabled(p) \/ Monitor(p) \/ Report(p) \/ CommandEndsEarly(p)

Spec == Init /\ [][Next]_appVars

-----------------------------------------------------------------------------
TypeOK ==
  /\ projects \in SUBSET ProjectIds
  /\ services \in [ServiceIds -> ProjectIds \cup {None}]
  /\ checks \in [CheckIds -> CheckRow \cup {None}]
  /\ results \in SUBSET ResultRow
  /\ cmd \in [Processes -> Command]

(* A row that a command looked up is still there when the command writes   *)
(* what refers to it, and so is the check of a result that is written long *)
(* after the check was loaded: no INSERT fails on a foreign key.           *)
LookupsStayValid ==
  \A p \in Processes :
    /\ cmd[p].op = "create_service" => cmd[p].project \in projects
    /\ cmd[p].op = "create_http_check" =>
         IF cmd[p].at = "insert"
         THEN services[cmd[p].service] # None
         ELSE checks[cmd[p].check] # None
    /\ cmd[p].op = "monitor" =>
         \A c \in CheckIds : cmd[p].jobs[c].phase # "unregistered" => checks[c] # None

(* docs/architecture.md:93: the first result of an HTTP check is saved      *)
(* before the command returns.  Once the command that created a check is   *)
(* over, the check has a result.                                           *)
EveryCheckHasItsFirstResult ==
  \A c \in CheckIds :
    checks[c] # None =>
      \/ ResultsOf(c) # {}
      \/ \E p \in Processes :
           cmd[p].op = "create_http_check" /\ cmd[p].check = c

(* The history of a report goes on where its latest result stands: a       *)
(* result that arrives between the two reads may put newer rows into the   *)
(* history, and only a history full of newer rows misses the latest one.   *)
HistoryCoversLatest ==
  \A p \in Processes :
    Reported(p) /\ cmd[p].limit > 0 =>
      \A c \in cmd[p].listed :
        LET latest == cmd[p].latest[c]
            recent == cmd[p].recent[c]
        IN  latest # None =>
              \/ latest \in recent
              \/ Cardinality({r \in recent : Newer(r, latest)}) = cmd[p].limit
=============================================================================
