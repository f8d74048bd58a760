----------------------------- MODULE MCCommands -----------------------------
(* CommandHistory for TLC: processes are interchangeable, and so are the   *)
(* Uuids of checks; those of results are not, the reports order by them.   *)
EXTENDS CommandHistory, TLC

Symmetry == Permutations(Processes) \cup Permutations(CheckIds)
=============================================================================
