------------------------ MODULE CommandHistoryProofs ------------------------
(***************************************************************************)
(* What a report shows and what a monitor executes, compared with the      *)
(* states of the database they were read from: for any number of commands  *)
(* that write between their reads.                                         *)
(***************************************************************************)
EXTENDS CommandHistory, ApplicationProofs

ReportStart ==
  [op : {"report"}, asked : SUBSET ServiceIds, checks : SUBSET CheckIds,
   results : SUBSET ResultRow, calm : SUBSET ServiceIds]

MonitorStart ==
  [op : {"monitor"}, always : SUBSET CheckIds, atTimes : SUBSET CheckIds]

(* A report in progress: the tables ss, cs and rs still hold what it began *)
(* from, it covers the services it was asked for, of the services already  *)
(* visited every such check is listed, and of every check already read no  *)
(* result of then is newer than what it shows.                             *)
IsFresh(command, start, ss, cs, rs) ==
  command.op = "report" =>
    /\ start \in ReportStart
    /\ start.asked \subseteq Asked(command, ss)
    /\ start.results \subseteq rs
    /\ \A c \in start.checks :
         /\ cs[c] # None
         /\ cs[c].service \in command.services \ command.todo => c \in command.listed
    /\ \A c \in command.listed \ command.unread, r \in start.results :
         r.check = c => command.latest[c] # None /\ ~Newer(r, command.latest[c])

Registered(command) == {c \in CheckIds : command.jobs[c].phase # "unregistered"}

(* A monitor: until it loads nothing is registered, and what is enabled    *)
(* lies between what always was and what was at times; then what it        *)
(* registered does, and stays what it is.                                  *)
IsCurrent(command, start, enabled) ==
  command.op = "monitor" =>
    /\ start \in MonitorStart
    /\ IF command.at = "load"
       THEN /\ start.always \subseteq enabled /\ enabled \subseteq start.atTimes
            /\ Registered(command) = {}
       ELSE /\ start.always \subseteq Registered(command)
            /\ Registered(command) \subseteq start.atTimes

HistoryInvariant ==
  /\ CommandInvariant
  /\ \A p \in Processes :
       /\ IsFresh(cmd[p], began[p], services, checks, results)
       /\ IsCurrent(cmd[p], began[p], Enabled)

-----------------------------------------------------------------------------
(* No step removes a row, or touches the command of another process.       *)
LEMMA StepKeepsRows ==
  ASSUME CommandInvariant, NEW p \in Processes,
         Create(p) \/ SetEnabled(p) \/ Monitor(p) \/ Report(p) \/ CommandEndsEarly(p)
  PROVE  Kept
<1>1. TablesOK /\ cmd[p] \in Command /\ Sound(cmd[p], projects, services, checks, results)
  BY DEF CommandInvariant
<1>2. CASE UNCHANGED tables
  BY <1>1, <1>2, TablesUnchanged
<1>3. ASSUME NEW project \in ProjectIds, CreateProject(p, project) PROVE Kept
  BY <1>1, <1>3, InsertProjectKeeps DEF CreateProject
<1>4. CASE FinishCreateService(p)
  <2>1. cmd[p].service \in ServiceIds /\ cmd[p].project \in ProjectIds
    BY <1>1, <1>4, TypeByOp DEF FinishCreateService, CreateServiceCmd
  <2>2. QED
    BY <1>1, <1>4, <2>1, InsertServiceKeeps DEF FinishCreateService
<1>5. CASE CreateCheckInserts(p)
  <2>1. cmd[p].service \in ServiceIds /\ cmd[p].check \in CheckIds
    BY <1>1, <1>5, TypeByOp DEF CreateCheckInserts, CreateCheckCmd
  <2>2. QED
    BY <1>1, <1>5, <2>1, InsertCheckKeeps DEF CreateCheckInserts
<1>6. CASE CreateCheckRecords(p)
  <2>1. cmd[p].result \in ResultRow
    BY <1>1, <1>6 DEF CreateCheckRecords, Sound, Carries
  <2>2. QED
    BY <1>1, <1>6, <2>1, InsertResultKeeps DEF CreateCheckRecords
<1>7. CASE FinishSetEnabled(p)
  <2>1. cmd[p].check \in CheckIds /\ cmd[p].enabled \in BOOLEAN
    BY <1>1, <1>7, TypeByOp DEF FinishSetEnabled, SetEnabledCmd
  <2>2. QED
    BY <1>1, <1>7, <2>1, UpdateEnabledKeeps DEF FinishSetEnabled
<1>8. ASSUME NEW c \in CheckIds, MonitorRecords(p, c) PROVE Kept
  <2>1. cmd[p].jobs[c].result \in ResultRow
    BY <1>8, JobsOfMonitor DEF MonitorRecords
  <2>2. QED
    BY <1>1, <1>2, <1>8, <2>1, InsertResultKeeps DEF MonitorRecords
<1>9. Create(p) => Kept
  BY <1>2, <1>3, <1>4, <1>5, <1>6
     DEF Create, BeginCreateService, BeginCreateCheck, CreateCheckExecutes
<1>10. SetEnabled(p) => Kept
  BY <1>2, <1>7 DEF SetEnabled, BeginSetEnabled
<1>11. Monitor(p) => Kept
  BY <1>2, <1>8
     DEF Monitor, BeginMonitor, MonitorLoads, MonitorStarts, MonitorExecutes, MonitorStops,
         MonitorReturns
<1>12. Report(p) \/ CommandEndsEarly(p) => UNCHANGED tables
  BY DEF Report, BeginServiceHealth, BeginProjectSummary, ReportListsServices,
         ReportListsChecks, ReportReadsLatest, ReportReadsRecent, ReportReturns,
         CommandEndsEarly
<1>13. QED
  BY <1>2, <1>9, <1>10, <1>11, <1>12

LEMMA StepTouchesOneCommand ==
  ASSUME CommandInvariant, NEW p \in Processes, NEW q \in Processes, q # p,
         Create(p) \/ SetEnabled(p) \/ Monitor(p) \/ Report(p) \/ CommandEndsEarly(p)
  PROVE  cmd'[q] = cmd[q]
<1>1. cmd \in [Processes -> Command]
  BY DEF CommandInvariant
<1>2. CASE Create(p)
  BY <1>1, <1>2
     DEF Create, CreateProject, BeginCreateService, FinishCreateService, BeginCreateCheck,
         CreateCheckInserts, CreateCheckExecutes, CreateCheckRecords, Begin, End
<1>3. CASE SetEnabled(p)
  BY <1>1, <1>3 DEF SetEnabled, BeginSetEnabled, FinishSetEnabled, Begin, End
<1>4. CASE Monitor(p)
  BY <1>1, <1>4
     DEF Monitor, BeginMonitor, MonitorLoads, MonitorStarts, MonitorExecutes,
         MonitorRecords, MonitorStops, MonitorReturns, Begin, End
<1>5. CASE Report(p)
  BY <1>1, <1>5
     DEF Report, BeginServiceHealth, BeginProjectSummary, ReportListsServices,
         ReportListsChecks, ReportReadsLatest, ReportReadsRecent, ReportReturns, Begin, End
<1>6. CASE CommandEndsEarly(p)
  BY <1>1, <1>6 DEF CommandEndsEarly, End
<1>7. QED
  BY <1>2, <1>3, <1>4, <1>5, <1>6

-----------------------------------------------------------------------------
(* The start of a report is what it was, whatever is calm since.           *)
LEMMA ReportStartStays ==
  ASSUME NEW q \in Processes, cmd[q].op = "report", began[q] \in ReportStart
  PROVE  /\ GoneOn(q) \in ReportStart
         /\ GoneOn(q).asked = began[q].asked
         /\ GoneOn(q).checks = began[q].checks /\ GoneOn(q).results = began[q].results
<1>1. PICK start \in ReportStart : start = began[q]
  OBVIOUS
<1>2. PICK calm \in SUBSET ServiceIds : calm = Calm'
  BY DEF Calm
<1> DEFINE now == [start EXCEPT !.calm = @ \cup calm]
<1>3. GoneOn(q) = now
  BY <1>1, <1>2 DEF GoneOn
<1>4. /\ now \in ReportStart
      /\ now.asked = start.asked /\ now.checks = start.checks /\ now.results = start.results
  BY DEF ReportStart
<1>5. QED
  BY <1>1, <1>3, <1>4

(* Until it loads, the start of a monitor follows what is enabled.         *)
LEMMA MonitorStartFollows ==
  ASSUME NEW q \in Processes, cmd[q].op = "monitor", cmd[q].at = "load",
         began[q] \in MonitorStart
  PROVE  /\ GoneOn(q) \in MonitorStart
         /\ GoneOn(q).always = began[q].always \cap Enabled'
         /\ GoneOn(q).atTimes = began[q].atTimes \cup Enabled'
<1>1. PICK start \in MonitorStart : start = began[q]
  OBVIOUS
<1>2. PICK enabled \in SUBSET CheckIds : enabled = Enabled'
  BY DEF Enabled
<1> DEFINE now == [start EXCEPT !.always = @ \cap enabled, !.atTimes = @ \cup enabled]
<1>3. GoneOn(q) = now
  BY <1>1, <1>2 DEF GoneOn
<1>4. /\ now \in MonitorStart
      /\ now.always = start.always \cap enabled /\ now.atTimes = start.atTimes \cup enabled
  BY DEF MonitorStart
<1>5. QED
  BY <1>1, <1>2, <1>3, <1>4

(* A command that waits while others write.                                *)
LEMMA WaitingStays ==
  ASSUME HistoryInvariant, Kept, NEW q \in Processes,
         cmd'[q] = cmd[q], began'[q] = GoneOn(q)
  PROVE  (/\ IsFresh(cmd[q], began[q], services, checks, results)
          /\ IsCurrent(cmd[q], began[q], Enabled))'
<1>1. /\ IsFresh(cmd[q], began[q], services, checks, results)
      /\ IsCurrent(cmd[q], began[q], Enabled)
  BY DEF HistoryInvariant
<1>2. IsFresh(cmd'[q], began'[q], services', checks', results')
  <2>1. SUFFICES ASSUME cmd[q].op = "report"
                 PROVE  IsFresh(cmd[q], began'[q], services', checks', results')
    BY DEF IsFresh
  <2>2. /\ began[q] \in ReportStart
        /\ began'[q] \in ReportStart
        /\ began'[q].asked = began[q].asked
        /\ began'[q].checks = began[q].checks /\ began'[q].results = began[q].results
    BY <1>1, <2>1, ReportStartStays DEF IsFresh
  <2>3. began[q].checks \subseteq CheckIds
    BY <2>2 DEF ReportStart
  <2>4. Asked(cmd[q], services) \subseteq Asked(cmd[q], services')
    BY DEF Asked, Kept, RowsStay
  <2>5. QED
    BY <1>1, <2>1, <2>2, <2>3, <2>4 DEF IsFresh, Kept, RowsStay
<1>3. IsCurrent(cmd'[q], began'[q], Enabled')
  <2>1. CASE cmd[q].op = "monitor" /\ cmd[q].at = "load"
    BY <1>1, <2>1, MonitorStartFollows DEF IsCurrent
  <2>2. CASE cmd[q].op = "monitor" /\ cmd[q].at # "load"
    BY <1>1, <2>2 DEF IsCurrent, GoneOn
  <2>3. QED
    BY <2>1, <2>2 DEF IsCurrent
<1>4. QED
  BY <1>2, <1>3

-----------------------------------------------------------------------------
(* What a step is about, for the process that takes it.                    *)
GoodStep(p) ==
  LET gone == IF cmd'[p].op = cmd[p].op THEN GoneOn(p) ELSE Begun(p) IN
    /\ IsFresh(cmd'[p], gone, services', checks', results')
    /\ IsCurrent(cmd'[p], gone, Enabled')

LEMMA OtherCommandIsGood ==
  ASSUME NEW p \in Processes, cmd'[p].op \notin {"report", "monitor"}
  PROVE  GoodStep(p)
  BY DEF GoodStep, IsFresh, IsCurrent

LEMMA EndingIsGood ==
  ASSUME CommandInvariant, NEW p \in Processes, End(p) PROVE GoodStep(p)
<1>1. cmd'[p] = Idle
  BY DEF End, CommandInvariant
<1>2. QED
  BY <1>1, OtherCommandIsGood DEF Idle

LEMMA CreatingIsGood ==
  ASSUME CommandInvariant, NEW p \in Processes, Create(p) \/ SetEnabled(p)
  PROVE  GoodStep(p)
<1>1. cmd \in [Processes -> Command] /\ cmd[p] \in Command
  BY DEF CommandInvariant
<1>2. ASSUME NEW command, cmd' = [cmd EXCEPT ![p] = command],
             command.op \notin {"report", "monitor"}
      PROVE  GoodStep(p)
  BY <1>1, <1>2, OtherCommandIsGood
<1>3. ASSUME NEW project \in ProjectIds, CreateProject(p, project) PROVE GoodStep(p)
  BY <1>3, OtherCommandIsGood DEF CreateProject, Idle
<1>4. ASSUME NEW project \in ProjectIds, NEW s \in ServiceIds, BeginCreateService(p, project, s)
      PROVE  GoodStep(p)
  BY <1>2, <1>4 DEF BeginCreateService, Begin
<1>5. ASSUME NEW s \in ServiceIds, NEW c \in CheckIds, BeginCreateCheck(p, s, c)
      PROVE  GoodStep(p)
  BY <1>2, <1>5 DEF BeginCreateCheck, Begin
<1>6. cmd[p].op = "create_http_check" => cmd[p] \in CreateCheckCmd
  BY <1>1, TypeByOp
<1>7. CASE CreateCheckInserts(p)
  <2> DEFINE command == [cmd[p] EXCEPT !.at = "execute"]
  <2>1. command.op = "create_http_check"
    BY <1>6, <1>7 DEF CreateCheckInserts, CreateCheckCmd
  <2>2. cmd' = [cmd EXCEPT ![p] = command]
    BY <1>7 DEF CreateCheckInserts
  <2> HIDE DEF command
  <2>3. QED
    BY <1>2, <2>1, <2>2
<1>8. CASE CreateCheckExecutes(p)
  <2>1. PICK row : cmd' = [cmd EXCEPT ![p].at = "record", ![p].result = row]
    BY <1>8 DEF CreateCheckExecutes
  <2> DEFINE command == [cmd[p] EXCEPT !.at = "record", !.result = row]
  <2>2. command.op = "create_http_check"
    BY <1>6, <1>8 DEF CreateCheckExecutes, CreateCheckCmd
  <2>3. cmd' = [cmd EXCEPT ![p] = command]
    BY <2>1
  <2> HIDE DEF command
  <2>4. QED
    BY <1>2, <2>2, <2>3
<1>9. CASE FinishCreateService(p) \/ CreateCheckRecords(p) \/ FinishSetEnabled(p)
  BY <1>9, EndingIsGood DEF FinishCreateService, CreateCheckRecords, FinishSetEnabled
<1>10. ASSUME NEW c \in CheckIds, NEW enabled \in BOOLEAN, BeginSetEnabled(p, c, enabled)
      PROVE  GoodStep(p)
  BY <1>2, <1>10 DEF BeginSetEnabled, Begin
<1>11. QED
  BY <1>3, <1>4, <1>5, <1>7, <1>8, <1>9, <1>10 DEF Create, SetEnabled

-----------------------------------------------------------------------------
(* A monitor begins, loads what is enabled, and keeps to it.               *)
LEMMA MonitoringIsGood ==
  ASSUME HistoryInvariant, NEW p \in Processes, Monitor(p) PROVE GoodStep(p)
<1>1. /\ CommandInvariant /\ cmd \in [Processes -> Command]
      /\ IsCurrent(cmd[p], began[p], Enabled)
  BY DEF HistoryInvariant, CommandInvariant
<1>2. cmd[p].op = "monitor" =>
        /\ cmd[p] \in MonitorCmd /\ cmd[p].jobs \in [CheckIds -> Job]
        /\ began[p] \in MonitorStart
  BY <1>1, JobsOfMonitor DEF IsCurrent
<1>3. Enabled = ListEnabled /\ Enabled \subseteq CheckIds /\ Enabled' \subseteq CheckIds
  BY DEF Enabled, ListEnabled
<1>4. ASSUME NEW command \in MonitorCmd, cmd' = [cmd EXCEPT ![p] = command],
             cmd[p].op = "monitor", cmd[p].at # "load", command.at # "load",
             Registered(command) = Registered(cmd[p])
      PROVE  GoodStep(p)
  <2>1. cmd'[p] = command /\ command.op = "monitor"
    BY <1>1, <1>4 DEF MonitorCmd
  <2>2. GoneOn(p) = began[p]
    BY <1>4 DEF GoneOn
  <2>3. QED
    BY <1>1, <1>4, <2>1, <2>2 DEF GoodStep, IsFresh, IsCurrent
<1>5. ASSUME NEW c \in CheckIds, NEW job \in Job, cmd' = [cmd EXCEPT ![p].jobs[c] = job],
             cmd[p].op = "monitor", cmd[p].jobs[c].phase # "unregistered",
             job.phase # "unregistered"
      PROVE  GoodStep(p)
  <2> DEFINE jobs == [cmd[p].jobs EXCEPT ![c] = job]
             command == [cmd[p] EXCEPT !.jobs = jobs]
  <2>1. cmd' = [cmd EXCEPT ![p] = command]
    BY <1>5
  <2>2. jobs \in [CheckIds -> Job]
    BY <1>2, <1>5
  <2>3. \A d \in CheckIds : jobs[d].phase # "unregistered" <=>
                            cmd[p].jobs[d].phase # "unregistered"
    BY <1>2, <1>5
  <2> HIDE DEF jobs
  <2>4. command \in MonitorCmd /\ command.jobs = jobs /\ command.at = cmd[p].at
    BY <1>2, <1>5, <2>2 DEF MonitorCmd
  <2> HIDE DEF command
  <2>5. Registered(command) = Registered(cmd[p]) /\ c \in Registered(cmd[p])
    BY <1>5, <2>3, <2>4 DEF Registered
  <2>6. cmd[p].at # "load"
    BY <1>1, <1>5, <2>5 DEF IsCurrent
  <2>7. QED
    BY <1>4, <1>5, <2>1, <2>4, <2>5, <2>6
<1>6. ASSUME NEW phase \in {"unregistered", "waiting", "executing"}
      PROVE  JobAt(phase) \in Job /\ JobAt(phase).phase = phase
  BY DEF JobAt, Job
<1>7. CASE BeginMonitor(p)
  <2> DEFINE command == [op |-> "monitor", at |-> "load",
                         jobs |-> [c \in CheckIds |-> JobAt("unregistered")]]
             start == [op |-> "monitor", always |-> Enabled, atTimes |-> Enabled]
  <2>1. cmd[p] = Idle /\ cmd'[p] = command /\ Enabled' = Enabled
    BY <1>1, <1>7 DEF BeginMonitor, Begin, Enabled, tables
  <2>2. Registered(command) = {}
    BY <1>6 DEF Registered
  <2>3. command.op = "monitor" /\ command.at = "load"
    OBVIOUS
  <2>4. start \in MonitorStart /\ start.always = Enabled /\ start.atTimes = Enabled
    BY <1>3 DEF MonitorStart
  <2>5. Begun(p) = start
    BY <2>1 DEF Begun
  <2> HIDE DEF command
  <2> HIDE DEF start
  <2>6. QED
    BY <2>1, <2>2, <2>3, <2>4, <2>5 DEF GoodStep, IsFresh, IsCurrent, Idle
<1>8. CASE MonitorLoads(p)
  <2> DEFINE jobs == [c \in CheckIds |->
                        IF c \in ListEnabled THEN JobAt("waiting") ELSE cmd[p].jobs[c]]
             command == [cmd[p] EXCEPT !.at = "running", !.jobs = jobs]
  <2>1. cmd[p].op = "monitor" /\ cmd[p].at = "load" /\ Enabled' = Enabled
    BY <1>8 DEF MonitorLoads, Enabled, tables
  <2>2. cmd'[p] = command
    BY <1>1, <1>8 DEF MonitorLoads
  <2>3. /\ began[p].always \subseteq Enabled /\ Enabled \subseteq began[p].atTimes
        /\ \A c \in CheckIds : cmd[p].jobs[c].phase = "unregistered"
    BY <1>1, <2>1 DEF IsCurrent, Registered
  <2>4. \A c \in CheckIds : jobs[c].phase # "unregistered" <=> c \in Enabled
    BY <1>3, <1>6, <2>3
  <2> HIDE DEF jobs
  <2>5. command.jobs = jobs /\ command.at = "running" /\ command.op = "monitor"
    BY <1>2, <2>1 DEF MonitorCmd
  <2> HIDE DEF command
  <2>6. Registered(command) = Enabled
    BY <1>3, <2>4, <2>5 DEF Registered
  <2>7. /\ GoneOn(p) \in MonitorStart
        /\ GoneOn(p).always = began[p].always \cap Enabled
        /\ GoneOn(p).atTimes = began[p].atTimes \cup Enabled
    BY <1>2, <2>1, MonitorStartFollows
  <2>8. QED
    BY <2>1, <2>2, <2>3, <2>5, <2>6, <2>7 DEF GoodStep, IsFresh, IsCurrent
<1>9. ASSUME NEW c \in CheckIds, MonitorStarts(p, c) PROVE GoodStep(p)
  BY <1>5, <1>6, <1>9 DEF MonitorStarts
<1>10. ASSUME NEW c \in CheckIds, MonitorExecutes(p, c) PROVE GoodStep(p)
  <2>1. PICK id \in ResultIds, response \in HttpResponses :
          cmd' = [cmd EXCEPT ![p].jobs[c] = [phase  |-> "recording",
                                             result |-> NewResult(c, id, response)]]
    BY <1>10 DEF MonitorExecutes
  <2> DEFINE row == NewResult(c, id, response)
             job == [phase |-> "recording", result |-> row]
  <2>2. row \in ResultRow
    BY NewResultIsRow
  <2> HIDE DEF row
  <2>3. job \in Job /\ job.phase # "unregistered"
    BY <2>2 DEF Job
  <2>4. cmd' = [cmd EXCEPT ![p].jobs[c] = job]
    BY <2>1 DEF row
  <2> HIDE DEF job
  <2>5. QED
    BY <1>5, <1>10, <2>3, <2>4 DEF MonitorExecutes
<1>11. ASSUME NEW c \in CheckIds, MonitorRecords(p, c) PROVE GoodStep(p)
  BY <1>5, <1>6, <1>11 DEF MonitorRecords
<1>12. CASE MonitorStops(p)
  <2> DEFINE command == [cmd[p] EXCEPT !.at = "draining"]
  <2>1. cmd' = [cmd EXCEPT ![p] = command]
    BY <1>12 DEF MonitorStops
  <2>2. command \in MonitorCmd /\ command.jobs = cmd[p].jobs /\ command.at = "draining"
    BY <1>2, <1>12 DEF MonitorStops, MonitorCmd
  <2> HIDE DEF command
  <2>3. QED
    BY <1>4, <1>12, <2>1, <2>2 DEF MonitorStops, Registered
<1>13. CASE MonitorReturns(p)
  BY <1>1, <1>13, EndingIsGood DEF MonitorReturns
<1>14. QED
  BY <1>7, <1>8, <1>9, <1>10, <1>11, <1>12, <1>13 DEF Monitor

-----------------------------------------------------------------------------
(* A report begins, and goes on.                                           *)
LEMMA ReportBeginsFresh ==
  ASSUME CommandInvariant, NEW p \in Processes, NEW limit \in Nat,
         NEW project \in ProjectIds \cup {None}, NEW todo \in SUBSET ServiceIds,
         Begin(p, EmptyReport(limit, project, todo)), UNCHANGED tables
  PROVE  GoodStep(p)
<1> DEFINE command == EmptyReport(limit, project, todo)
           asked == Asked(command, services)
           start == [op |-> "report", asked |-> asked,
                     checks |-> {c \in CheckIds : checks[c] # None},
                     results |-> results, calm |-> Calm']
<1>1. cmd[p].op = "idle" /\ cmd'[p] = command
  BY DEF Begin, CommandInvariant, Idle
<1>2. /\ command.op = "report" /\ command.services = todo /\ command.todo = todo
      /\ command.listed = {}
  BY BeginsEmpty
<1> HIDE DEF command
<1>3. asked \in SUBSET ServiceIds /\ asked = Asked(command, services)
  BY <1>2 DEF Asked
<1> HIDE DEF asked
<1>4. Begun(p) = start
  BY <1>1, <1>2 DEF Begun, asked
<1>5. Calm' \in SUBSET ServiceIds
  BY DEF Calm
<1>6. /\ start \in ReportStart /\ start.results = results /\ start.asked = asked
      /\ start.checks = {c \in CheckIds : checks[c] # None}
  BY <1>3, <1>5 DEF ReportStart, CommandInvariant, TablesOK
<1> HIDE DEF start
<1>7. IsFresh(command, start, services', checks', results')
  BY <1>2, <1>3, <1>6 DEF IsFresh, tables
<1>8. QED
  BY <1>1, <1>2, <1>4, <1>7 DEF GoodStep, IsCurrent

(* What a step of a report has to show of the checks and results it began  *)
(* from.                                                                   *)
LEMMA ReportStepIsFresh ==
  ASSUME HistoryInvariant, NEW p \in Processes, cmd[p].op = "report", UNCHANGED tables,
         NEW command \in ReportCmd, cmd' = [cmd EXCEPT ![p] = command],
         Asked(command, services) = Asked(cmd[p], services),
         \A c \in CheckIds :
           /\ checks[c] # None /\ checks[c].service \in command.services \ command.todo
           /\ checks[c].service \in cmd[p].services \ cmd[p].todo => c \in cmd[p].listed
           => c \in command.listed,
         \A c \in command.listed \ command.unread, r \in results :
           /\ r.check = c
           /\ c \in cmd[p].listed \ cmd[p].unread =>
                cmd[p].latest[c] # None /\ ~Newer(r, cmd[p].latest[c])
           => command.latest[c] # None /\ ~Newer(r, command.latest[c])
  PROVE  GoodStep(p)
<1>1. cmd'[p] = command /\ command.op = "report"
  BY DEF HistoryInvariant, CommandInvariant, ReportCmd
<1>2. IsFresh(cmd[p], began[p], services, checks, results)
  BY DEF HistoryInvariant
<1> DEFINE start == GoneOn(p)
<1>3. /\ start \in ReportStart
      /\ start.asked = began[p].asked
      /\ start.checks = began[p].checks /\ start.results = began[p].results
  BY <1>2, ReportStartStays DEF IsFresh
<1> HIDE DEF start
<1>4. start.checks \subseteq CheckIds
  BY <1>3 DEF ReportStart
<1>5. start.results \subseteq results
  BY <1>2, <1>3 DEF IsFresh
<1>6. ASSUME NEW c \in start.checks
      PROVE  /\ checks[c] # None
             /\ checks[c].service \in command.services \ command.todo => c \in command.listed
  BY <1>2, <1>3, <1>4 DEF IsFresh
<1>7. ASSUME NEW c \in command.listed \ command.unread, NEW r \in start.results, r.check = c
      PROVE  command.latest[c] # None /\ ~Newer(r, command.latest[c])
  BY <1>2, <1>3, <1>5, <1>7 DEF IsFresh
<1>8. start.asked \subseteq Asked(command, services)
  BY <1>2, <1>3 DEF IsFresh
<1>9. IsFresh(command, start, services', checks', results')
  BY <1>3, <1>5, <1>6, <1>7, <1>8 DEF IsFresh, tables
<1>10. QED
  BY <1>1, <1>9 DEF GoodStep, IsCurrent, start

(* Only the list of the services says what a report covers; it covers the  *)
(* same before and after.                                                  *)
LEMMA CoversTheSame ==
  ASSUME NEW r \in ReportCmd, NEW s, NEW c, NEW rows, NEW enabled, NEW row, NEW reading
  PROVE  /\ Asked(ServicesListed(r, ListServices(r.project)), services) = ListServices(r.project)
         /\ Asked(ChecksListed(r, s, rows, enabled), services) = Asked(r, services)
         /\ Asked(LatestRead(r, c, row, reading), services) = Asked(r, services)
         /\ Asked(RecentRead(r, c, rows), services) = Asked(r, services)
  BY DEF ReportCmd, Asked, ServicesListed, ChecksListed, LatestRead, RecentRead

LEMMA ReportingIsGood ==
  ASSUME HistoryInvariant, NEW p \in Processes, Report(p) PROVE GoodStep(p)
<1>1. CommandInvariant /\ TablesOK /\ cmd \in [Processes -> Command]
  BY DEF HistoryInvariant, CommandInvariant
<1>2. ASSUME NEW s \in ServiceIds, NEW limit \in HistoryLimits, BeginServiceHealth(p, s, limit)
      PROVE  GoodStep(p)
  BY <1>1, <1>2, ReportBeginsFresh, ApplicationAssumption DEF BeginServiceHealth
<1>3. ASSUME NEW project \in ProjectIds, BeginProjectSummary(p, project) PROVE GoodStep(p)
  BY <1>1, <1>3, ReportBeginsFresh DEF BeginProjectSummary
<1>4. CASE ReportListsServices(p)
  <2> DEFINE listed == ListServices(cmd[p].project)
             command == ServicesListed(cmd[p], listed)
  <2>1. cmd' = [cmd EXCEPT ![p] = command]
    BY <1>4 DEF ReportListsServices, ServicesListed
  <2>2. cmd[p] \in ReportCmd /\ listed \in SUBSET ServiceIds
    BY <1>1, <1>4, ReportIsSound DEF ReportListsServices, ListServices
  <2> HIDE DEF listed
  <2> HIDE DEF command
  <2>3. /\ command \in ReportCmd
        /\ command.services = listed /\ command.todo = listed
        /\ command.unread = cmd[p].unread /\ command.listed = cmd[p].listed
        /\ command.latest = cmd[p].latest
    BY <2>2, ServicesListedEffect DEF command, Fields
  <2>4. Asked(command, services) = Asked(cmd[p], services)
    BY <1>4, <2>2, CoversTheSame
       DEF ReportListsServices, ListServices, Asked, command, listed
  <2>5. QED
    BY <1>4, <2>1, <2>3, <2>4, ReportStepIsFresh DEF ReportListsServices
<1>5. ASSUME NEW s \in ServiceIds, ReportListsChecks(p, s) PROVE GoodStep(p)
  <2> DEFINE rows == ListForService(s)
             enabled == {c \in rows : checks[c].enabled}
             command == ChecksListed(cmd[p], s, rows, enabled)
  <2>1. cmd' = [cmd EXCEPT ![p] = command]
    BY <1>5 DEF ReportListsChecks, ChecksListed
  <2>2. /\ cmd[p] \in ReportCmd
        /\ rows \in SUBSET CheckIds /\ enabled \in SUBSET CheckIds
        /\ cmd[p].unread = {}
    BY <1>1, <1>5, ReportIsSound DEF ReportListsChecks, ListForService
  <2>3. \A c \in CheckIds : checks[c] # None /\ checks[c].service = s => c \in rows
    BY DEF ListForService
  <2> HIDE DEF rows, enabled
  <2> HIDE DEF command
  <2>4. /\ command \in ReportCmd
        /\ command.services = cmd[p].services /\ command.todo = cmd[p].todo \ {s}
        /\ command.unread = rows /\ command.listed = cmd[p].listed \cup rows
        /\ command.latest = cmd[p].latest
    <3>1. /\ command \in ReportCmd
          /\ Fields(command, cmd[p].services, cmd[p].todo \ {s}, cmd[p].listed \cup rows, rows,
                    cmd[p].reading, cmd[p].limit, cmd[p].latest, cmd[p].recent)
      BY <2>2, ChecksListedEffect DEF command
    <3>2. QED
      BY <3>1 DEF Fields
  <2>5. Asked(command, services) = Asked(cmd[p], services)
    BY <2>2, CoversTheSame DEF command
  <2>6. QED
    BY <1>5, <2>1, <2>2, <2>3, <2>4, <2>5, ReportStepIsFresh DEF ReportListsChecks
<1>6. ASSUME NEW c \in CheckIds, ReportReadsLatest(p, c) PROVE GoodStep(p)
  <2> DEFINE row == LatestForCheck(c)
             reading == IF cmd[p].limit = 0 THEN None ELSE c
             command == LatestRead(cmd[p], c, row, reading)
  <2>1. cmd' = [cmd EXCEPT ![p] = command]
    BY <1>6 DEF ReportReadsLatest, LatestRead
  <2>2. /\ cmd[p] \in ReportCmd /\ cmd[p].op = "report" /\ cmd[p].listed \subseteq CheckIds
        /\ reading \in CheckIds \cup {None}
    BY <1>1, <1>6, ReportIsSound DEF ReportReadsLatest
  <2>3. /\ row \in ResultRow \cup {None}
        /\ \A r \in results : r.check = c => row # None /\ ~Newer(r, row)
    BY <1>1, LatestIsNewest, ReadsReturnRows DEF TablesOK, ResultsOf
  <2> HIDE DEF row, reading
  <2> HIDE DEF command
  <2>4. /\ command \in ReportCmd
        /\ command.services = cmd[p].services /\ command.todo = cmd[p].todo
        /\ command.unread = cmd[p].unread \ {c} /\ command.listed = cmd[p].listed
        /\ command.latest = [cmd[p].latest EXCEPT ![c] = row]
    BY <2>2, <2>3, LatestReadEffect DEF command, Fields
  <2>5. cmd[p].latest \in [CheckIds -> ResultRow \cup {None}]
    BY <2>2 DEF ReportCmd
  <2>6. ASSUME NEW d \in command.listed \ command.unread, NEW r \in results, r.check = d,
               d \in cmd[p].listed \ cmd[p].unread =>
                 cmd[p].latest[d] # None /\ ~Newer(r, cmd[p].latest[d])
        PROVE  command.latest[d] # None /\ ~Newer(r, command.latest[d])
    <3>1. d \in CheckIds
      BY <2>2, <2>4
    <3>2. CASE d = c
      BY <2>3, <2>4, <2>5, <2>6, <3>1, <3>2
    <3>3. CASE d # c
      <4>1. command.latest[d] = cmd[p].latest[d] /\ d \in cmd[p].listed \ cmd[p].unread
        BY <2>4, <2>5, <3>1, <3>3
      <4>2. QED
        BY <2>6, <4>1
    <3>4. QED
      BY <3>2, <3>3
  <2>7. Asked(command, services) = Asked(cmd[p], services)
    BY <2>2, CoversTheSame DEF command
  <2>8. QED
    BY <1>6, <2>1, <2>2, <2>4, <2>6, <2>7, ReportStepIsFresh DEF ReportReadsLatest
<1>7. CASE ReportReadsRecent(p)
  <2>1. cmd[p] \in ReportCmd /\ cmd[p].op = "report" /\ cmd[p].reading \in CheckIds
    BY <1>1, <1>7, ReportIsSound DEF ReportReadsRecent
  <2>2. PICK c \in CheckIds : c = cmd[p].reading
    BY <2>1
  <2> DEFINE rows == RecentForCheck(c, cmd[p].limit)
             command == RecentRead(cmd[p], c, rows)
  <2>3. cmd' = [cmd EXCEPT ![p] = command]
    BY <1>7, <2>2 DEF ReportReadsRecent, RecentRead
  <2>4. rows \in SUBSET ResultRow
    BY <1>1, ReadsReturnRows
  <2> HIDE DEF rows
  <2> HIDE DEF command
  <2>5. /\ command \in ReportCmd
        /\ command.services = cmd[p].services /\ command.todo = cmd[p].todo
        /\ command.unread = cmd[p].unread /\ command.listed = cmd[p].listed
        /\ command.latest = cmd[p].latest
    <3>1. /\ command \in ReportCmd
          /\ Fields(command, cmd[p].services, cmd[p].todo, cmd[p].listed, cmd[p].unread,
                    None, cmd[p].limit, cmd[p].latest, [cmd[p].recent EXCEPT ![c] = rows])
      BY <2>1, <2>4, RecentReadEffect DEF command
    <3>2. QED
      BY <3>1 DEF Fields
  <2>6. Asked(command, services) = Asked(cmd[p], services)
    BY <2>1, CoversTheSame DEF command
  <2>7. QED
    BY <1>7, <2>1, <2>3, <2>5, <2>6, ReportStepIsFresh DEF ReportReadsRecent
<1>8. CASE ReportReturns(p)
  BY <1>1, <1>8, EndingIsGood DEF ReportReturns
<1>9. QED
  BY <1>2, <1>3, <1>4, <1>5, <1>6, <1>7, <1>8 DEF Report

-----------------------------------------------------------------------------
LEMMA HistoryInvariantStep ==
  ASSUME HistoryInvariant, [NextHistory]_historyVars PROVE HistoryInvariant'
<1>1. CommandInvariant
  BY DEF HistoryInvariant
<1>2. CommandInvariant'
  BY <1>1, CommandInvariantStep DEF NextHistory, historyVars
<1>3. CASE NextHistory
  <2>1. PICK p \in Processes :
          Create(p) \/ SetEnabled(p) \/ Monitor(p) \/ Report(p) \/ CommandEndsEarly(p)
    BY <1>3 DEF NextHistory, Next
  <2>2. Kept
    BY <1>1, <2>1, StepKeepsRows
  <2>3. ASSUME NEW q \in Processes
        PROVE  began'[q] = IF cmd'[q].op = cmd[q].op THEN GoneOn(q) ELSE Begun(q)
    BY <1>3 DEF NextHistory
  <2>4. GoodStep(p)
    <3>1. CASE Create(p) \/ SetEnabled(p)
      BY <1>1, <3>1, CreatingIsGood
    <3>2. CASE Monitor(p)
      BY <3>2, MonitoringIsGood
    <3>3. CASE Report(p)
      BY <3>3, ReportingIsGood
    <3>4. CASE CommandEndsEarly(p)
      BY <1>1, <3>4, EndingIsGood DEF CommandEndsEarly
    <3>5. QED
      BY <2>1, <3>1, <3>2, <3>3, <3>4
  <2>5. ASSUME NEW q \in Processes
        PROVE  (/\ IsFresh(cmd[q], began[q], services, checks, results)
                /\ IsCurrent(cmd[q], began[q], Enabled))'
    <3>1. CASE q = p
      BY <2>3, <2>4, <3>1 DEF GoodStep
    <3>2. CASE q # p
      <4>1. cmd'[q] = cmd[q]
        BY <1>1, <2>1, <3>2, StepTouchesOneCommand
      <4>2. began'[q] = GoneOn(q)
        BY <2>3, <4>1
      <4>3. QED
        BY <2>2, <4>1, <4>2, WaitingStays
    <3>3. QED
      BY <3>1, <3>2
  <2>6. QED
    BY <1>2, <2>5 DEF HistoryInvariant
<1>4. CASE UNCHANGED historyVars
  <2>1. UNCHANGED <<cmd, began, projects, services, checks, results>>
    BY <1>4 DEF historyVars, appVars, tables
  <2>2. Enabled' = Enabled
    BY <2>1 DEF Enabled
  <2>3. QED
    BY <1>2, <2>1, <2>2 DEF HistoryInvariant
<1>5. QED
  BY <1>3, <1>4

LEMMA HistoryInvariantHolds == SpecHistory => []HistoryInvariant
<1>1. InitHistory => HistoryInvariant
  <2> SUFFICES ASSUME InitHistory PROVE HistoryInvariant
    OBVIOUS
  <2>1. CommandInvariant
    BY CommandInvariantInit DEF InitHistory
  <2>2. \A p \in Processes : cmd[p].op = "idle"
    BY DEF InitHistory, Init, Idle
  <2>3. QED
    BY <2>1, <2>2 DEF HistoryInvariant, IsFresh, IsCurrent
<1>2. QED
  BY <1>1, HistoryInvariantStep, PTL DEF SpecHistory

(* A report is many reads without a transaction.  Whatever is written      *)
(* between them, it has every service it was asked for, lists every check  *)
(* they had when it began, and shows of none a result older than the       *)
(* newest of that moment.                                                  *)
THEOREM ReportsAreFresh == SpecHistory => []ReportIsFresh
<1>1. ASSUME HistoryInvariant PROVE ReportIsFresh
  <2> SUFFICES ASSUME NEW p \in Processes, Reported(p)
               PROVE  /\ began[p].asked \subseteq cmd[p].services
                      /\ \A c \in began[p].checks :
                           checks[c].service \in cmd[p].services =>
                             /\ c \in cmd[p].listed
                             /\ \A r \in began[p].results :
                                  r.check = c => /\ cmd[p].latest[c] # None
                                                 /\ ~Newer(r, cmd[p].latest[c])
    BY DEF ReportIsFresh
  <2>1. IsFresh(cmd[p], began[p], services, checks, results)
    BY <1>1 DEF HistoryInvariant
  <2>2. Asked(cmd[p], services) = cmd[p].services
    BY DEF Reported, Asked
  <2>3. QED
    BY <2>1, <2>2 DEF IsFresh, Reported
<1>2. QED
  BY <1>1, HistoryInvariantHolds, PTL

(* A monitor executes what was enabled all the time until it loaded, and   *)
(* nothing that was never enabled since it began, whichever commands       *)
(* enable, disable and create checks meanwhile.                            *)
THEOREM MonitorsAlwaysReload == SpecHistory => []MonitorsReload
<1>1. HistoryInvariant => MonitorsReload
  BY DEF HistoryInvariant, IsCurrent, Registered, MonitorsReload
<1>2. QED
  BY <1>1, HistoryInvariantHolds, PTL
=============================================================================
