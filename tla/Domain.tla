------------------------------- MODULE Domain -------------------------------
(***************************************************************************)
(* The validating constructors of crates/core.  Each returns a value or    *)
(* Err; identifiers and creation times are left out.                       *)
(***************************************************************************)
EXTENDS Integers

CONSTANT Err  \* Result::Err, whatever the error

(* Text a user may type: nothing, white space, padded and proper text.     *)
Text == {"", " ", " a ", "a"}

HttpCheck == [url : Text, expected_status : Nat]

Check ==
  [kind : HttpCheck, interval_seconds : Nat, timeout_ms : Nat, enabled : BOOLEAN]

ASSUME DomainAssumption ==
  /\ Err \notin Int /\ Err \notin Text
  /\ Err \notin HttpCheck /\ Err \notin Check

Trim(text) == CASE text = " " -> "" [] text = " a " -> "a" [] OTHER -> text

(* validate_name, for Project::new and Service::new as for from_persisted. *)
ValidateName(name) == IF Trim(name) = "" THEN Err ELSE Trim(name)

(* The statuses CheckKind::http accepts.                                   *)
ValidStatuses == 100..599

(* Faulty variants of HttpKind: the emptiness of the url is tested before  *)
(* it is trimmed; the upper bound of the status is off by one.             *)
HttpKindUntrimmed(url, expected_status) ==
  IF url = "" \/ expected_status \notin ValidStatuses
  THEN Err
  ELSE [url |-> Trim(url), expected_status |-> expected_status]

HttpKindBeyondMax(url, expected_status) ==
  IF Trim(url) = "" \/ expected_status \notin 100..600
  THEN Err
  ELSE [url |-> Trim(url), expected_status |-> expected_status]

(* CheckKind::http                                                         *)
HttpKind(url, expected_status) ==
  IF Trim(url) = "" \/ expected_status \notin ValidStatuses
  THEN Err
  ELSE [url |-> Trim(url), expected_status |-> expected_status]

(* Check::from_persisted                                                   *)
CheckFromPersisted(kind, interval_seconds, timeout_ms, enabled) ==
  IF kind = Err \/ interval_seconds = 0 \/ timeout_ms = 0
  THEN Err
  ELSE [kind |-> kind, interval_seconds |-> interval_seconds,
        timeout_ms |-> timeout_ms, enabled |-> enabled]

(* Check::new: the same tests, and the check is enabled.                   *)
NewCheck(kind, interval_seconds, timeout_ms) ==
  CheckFromPersisted(kind, interval_seconds, timeout_ms, TRUE)
=============================================================================
