------------------------------ MODULE Startup ------------------------------
(***************************************************************************)
(* HealthCheckApp::open: every command begins with it, so that several     *)
(* processes may create, connect to and migrate one database file at the   *)
(* same time, and any of them may be killed half way.  The path is neither *)
(* empty nor a directory: DatabaseConfig::new refuses those before there   *)
(* is any effect.  What sqlx's migrator does (read the table of applied    *)
(* migrations; run a migration and record its version in one transaction)  *)
(* is modelled from its use in Database::migrate; for SQLite it takes no   *)
(* lock, so two migrators may find the same migration unapplied.           *)
(***************************************************************************)
EXTENDS Naturals

CONSTANTS
  Processes,  \* invocations of the command line
  MaxCrashes  \* bound of the model: how many processes are killed while they open

ASSUME StartupAssumption == MaxCrashes \in Nat

VARIABLES
  directory,  \* whether the parent directory exists
  file,       \* the database file: "missing", "empty" or "migrated"
  at,         \* where each process is in open
  crashes     \* how many processes were killed

startupVars == <<directory, file, at, crashes>>

(* "apply" is a migrator that found the migration unapplied.               *)
Places == {"closed", "directory", "connect", "migrate", "apply", "open"}

Init ==
  /\ directory \in BOOLEAN
  /\ file = "missing"
  /\ at = [p \in Processes |-> "closed"]
  /\ crashes = 0

Move(p, from, to) == at[p] = from /\ at' = [at EXCEPT ![p] = to]

Open(p) ==
  /\ Move(p, "closed", "directory")
  /\ UNCHANGED <<directory, file, crashes>>

(* Faulty variant of EnsureParentDirectory: nothing is created.            *)
EnsureNothing(p) ==
  /\ Move(p, "directory", "connect")
  /\ UNCHANGED <<directory, file, crashes>>

(* create_dir_all succeeds if the directory is there, whoever made it.     *)
EnsureParentDirectory(p) ==
  /\ Move(p, "directory", "connect")
  /\ directory' = TRUE
  /\ UNCHANGED <<file, crashes>>

(* Faulty variant of Connect: only whoever creates the file migrates it.   *)
ConnectThenMigrateIfNew(p) ==
  /\ Move(p, "connect", IF file = "missing" THEN "migrate" ELSE "open")
  /\ file' = IF file = "missing" THEN "empty" ELSE file
  /\ UNCHANGED <<directory, crashes>>

(* Database::connect: the file is created if it is missing, which SQLite   *)
(* cannot do in a directory that does not exist.                           *)
Connect(p) ==
  /\ Move(p, "connect", IF directory THEN "migrate" ELSE "closed")
  /\ file' = IF directory /\ file = "missing" THEN "empty" ELSE file
  /\ UNCHANGED <<directory, crashes>>

(* Migrator::run: what is applied is read.                                 *)
ReadApplied(p) ==
  /\ Move(p, "migrate", IF file = "migrated" THEN "open" ELSE "apply")
  /\ UNCHANGED <<directory, file, crashes>>

(* The transaction commits, or the version is there already: the statement *)
(* that records it meets its primary key, and open returns the error.      *)
Apply(p) ==
  /\ Move(p, "apply", IF file = "migrated" THEN "closed" ELSE "open")
  /\ file' = "migrated"
  /\ UNCHANGED <<directory, crashes>>

(* The command is over and the process with it.                            *)
Exit(p) ==
  /\ Move(p, "open", "closed")
  /\ UNCHANGED <<directory, file, crashes>>

(* Killed, or a statement fails: the transaction in progress is undone,    *)
(* what was there before it stays.                                         *)
Crash(p) ==
  /\ crashes < MaxCrashes
  /\ at[p] \in Places \ {"closed", "open"}
  /\ at' = [at EXCEPT ![p] = "closed"]
  /\ crashes' = crashes + 1
  /\ UNCHANGED <<directory, file>>

Opening(p) ==
  \/ EnsureParentDirectory(p)
  \/ Connect(p)
  \/ ReadApplied(p)
  \/ Apply(p)

Next == \E p \in Processes : Open(p) \/ Opening(p) \/ Exit(p) \/ Crash(p)

(* open runs on, and a caller that could not open the database tries again. *)
Fairness == \A p \in Processes : WF_startupVars(Open(p)) /\ WF_startupVars(Opening(p))

Spec == Init /\ [][Next]_startupVars /\ Fairness

-----------------------------------------------------------------------------
(* No command runs on a database without its tables, whoever created the   *)
(* file and wherever that process was killed.                              *)
OpenedIsMigrated == \A p \in Processes : at[p] = "open" => file = "migrated"

(* No race for the first migration and no half finished first start leaves *)
(* the path unusable: a caller that tries again comes in, again and again. *)
EveryCallerOpens == \A p \in Processes : []<>(at[p] = "open")
=============================================================================
