-------------------------- MODULE CommandHistory ---------------------------
(***************************************************************************)
(* Application with, per report and per monitor, what the database held    *)
(* when it began and what it went through since.  A report is many reads,  *)
(* a monitor lives on what it read once; the properties here compare both  *)
(* with the states of the database they came from.                         *)
(***************************************************************************)
EXTENDS Application

VARIABLE
  began  \* per process: for a report the services it was asked for, the checks
         \* and results when it began, and the services without trouble at some
         \* moment since; for a monitor the checks that were enabled always,
         \* and at times, until it loaded

historyVars == <<appVars, began>>

Enabled == {c \in CheckIds : checks[c] # None /\ checks[c].enabled}

(* No enabled check of s has an unhealthy latest result.                   *)
Untroubled(s) ==
  \A c \in ListForService(s) \cap Enabled : StatusOf(LatestForCheck(c)) # "UNHEALTHY"

Calm == {s \in ServiceIds : Untroubled(s)}

(* The services a report covers: those of its project in the table, until  *)
(* it has listed them.                                                     *)
Asked(command, table) ==
  IF command.project = None
  THEN command.services
  ELSE {s \in ServiceIds : table[s] = command.project}

Nothing == [op |-> "idle"]

Begun(p) ==
  CASE cmd'[p].op = "report" ->
         [op      |-> "report",
          asked   |-> Asked(cmd'[p], services),
          checks  |-> {c \in CheckIds : checks[c] # None},
          results |-> results,
          calm    |-> Calm']
    [] cmd'[p].op = "monitor" ->
         [op |-> "monitor", always |-> Enabled, atTimes |-> Enabled]
    [] OTHER -> Nothing

(* The moments a command in progress has to do with: for a report all of   *)
(* them, for a monitor those before it loads.                              *)
GoneOn(p) ==
  CASE cmd[p].op = "report" -> [began[p] EXCEPT !.calm = @ \cup Calm']
    [] cmd[p].op = "monitor" /\ cmd[p].at = "load" ->
         [began[p] EXCEPT !.always  = @ \cap Enabled',
                          !.atTimes = @ \cup Enabled']
    [] OTHER -> began[p]

InitHistory == Init /\ began = [p \in Processes |-> Nothing]

NextHistory ==
  /\ Next
  /\ began' = [p \in Processes |->
                 IF cmd'[p].op = cmd[p].op THEN GoneOn(p) ELSE Begun(p)]

SpecHistory == InitHistory /\ [][NextHistory]_historyVars

(* What a command wrote before a report began is in the report: every      *)
(* service it was asked for is there, each of their checks is listed, and  *)
(* no result older than those of that moment is shown as the latest,       *)
(* whatever commands, monitors and settings of the wall clock come between *)
(* its reads.                                                              *)
ReportIsFresh ==
  \A p \in Processes :
    Reported(p) =>
      /\ began[p].asked \subseteq cmd[p].services
      /\ \A c \in began[p].checks :
           checks[c].service \in cmd[p].services =>
             /\ c \in cmd[p].listed
             /\ \A r \in began[p].results :
                  r.check = c => cmd[p].latest[c] # None /\ ~Newer(r, cmd[p].latest[c])

(* README.md:20: "a later `monitor` command reloads enabled checks          *)
(* automatically".  What a monitor executes was enabled while it started:  *)
(* after `check disable` has returned, no monitor begun later touches the  *)
(* check, and none begun after `check enable` leaves it out.               *)
MonitorsReload ==
  \A p \in Processes :
    cmd[p].op = "monitor" /\ cmd[p].at # "load" =>
      LET registered == {c \in CheckIds : cmd[p].jobs[c].phase # "unregistered"} IN
        began[p].always \subseteq registered /\ registered \subseteq began[p].atTimes

(* docs/architecture.md:95: "an unhealthy enabled check makes the service  *)
(* unhealthy".  A service reported HEALTHY had no unhealthy enabled check  *)
(* at one moment at least while the report was made.                       *)
HealthyWasTrueOnce ==
  \A p \in Processes, s \in ServiceIds :
    LET ofService == {c \in cmd[p].enabled : checks[c].service = s} IN
      (/\ Reported(p)
       /\ s \in cmd[p].services
       /\ ServiceStatus(ofService, cmd[p].latest) = "HEALTHY")
        => s \in began[p].calm
=============================================================================
