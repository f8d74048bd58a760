--------------------------- MODULE StartupProofs ---------------------------
(***************************************************************************)
(* Whatever the number of processes and of crashes, a database that open   *)
(* has returned is migrated.                                               *)
(***************************************************************************)
EXTENDS Startup, TLAPS

StartupType ==
  /\ file \in {"missing", "empty", "migrated"}
  /\ at \in [Processes -> Places]

StartupInvariant == StartupType /\ OpenedIsMigrated

(* Initially nobody has the database open.                                 *)
LEMMA InitStartup == Init => StartupInvariant
  BY DEF Init, StartupInvariant, StartupType, OpenedIsMigrated, Places

(* A step opens the database for the process that takes it only if it read *)
(* the version or wrote it, and no step takes the tables away.             *)
LEMMA NextStartup == StartupInvariant /\ [Next]_startupVars => StartupInvariant'
<1> SUFFICES ASSUME StartupInvariant, [Next]_startupVars PROVE StartupInvariant'
  OBVIOUS
<1> USE DEF StartupInvariant, StartupType, OpenedIsMigrated, Places
<1>1. ASSUME NEW p \in Processes, Open(p) PROVE StartupInvariant'
  BY <1>1 DEF Open, Move
<1>2. ASSUME NEW p \in Processes, EnsureParentDirectory(p) PROVE StartupInvariant'
  BY <1>2 DEF EnsureParentDirectory, Move
<1>3. ASSUME NEW p \in Processes, Connect(p) PROVE StartupInvariant'
  BY <1>3 DEF Connect, Move
<1>4. ASSUME NEW p \in Processes, ReadApplied(p) PROVE StartupInvariant'
  BY <1>4 DEF ReadApplied, Move
<1>5. ASSUME NEW p \in Processes, Apply(p) PROVE StartupInvariant'
  BY <1>5 DEF Apply, Move
<1>6. ASSUME NEW p \in Processes, Exit(p) PROVE StartupInvariant'
  BY <1>6 DEF Exit, Move
<1>7. ASSUME NEW p \in Processes, Crash(p) PROVE StartupInvariant'
  BY <1>7 DEF Crash
<1>8. CASE UNCHANGED startupVars
  BY <1>8 DEF startupVars
<1>9. QED
  BY <1>1, <1>2, <1>3, <1>4, <1>5, <1>6, <1>7, <1>8 DEF Next, Opening

(* No command runs on a database without its tables.                       *)
THEOREM OpenIsMigrated == Spec => []OpenedIsMigrated
<1>1. StartupInvariant => OpenedIsMigrated
  BY DEF StartupInvariant
<1>2. QED
  BY InitStartup, NextStartup, <1>1, PTL DEF Spec
=============================================================================
