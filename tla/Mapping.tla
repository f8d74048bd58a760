------------------------------ MODULE Mapping ------------------------------
(***************************************************************************)
(* The conversions of crates/server/src/persistence/mapping.rs between     *)
(* domain values and columns.  Uuids are the same value on both sides:     *)
(* their canonical text is one to one.                                     *)
(***************************************************************************)
EXTENDS Domain, Sequences, SequencesExt

CONSTANTS
  I64Max,        \* i64::MAX
  U16Max,        \* u16::MAX
  Base,          \* the base of the digits of a timestamp
  SecondsWidth,  \* how many digits the whole seconds have
  FractionWidth  \* how many digits the fraction has: 9 for nanoseconds

ASSUME MappingAssumption ==
  /\ I64Max \in Nat /\ U16Max \in Nat /\ ValidStatuses \subseteq 0..U16Max
  /\ Base \in Nat \ {0, 1}
  /\ SecondsWidth \in Nat /\ FractionWidth \in Nat \ {0}

-----------------------------------------------------------------------------
(* Numbers.  A column is an i64.                                           *)

U64ToDb(value) == IF value <= I64Max THEN value ELSE Err

U64FromDb(value) == IF value >= 0 THEN value ELSE Err

U16FromDb(value) == IF value \in 0..U16Max THEN value ELSE Err

-----------------------------------------------------------------------------
(* Enums.  The two tables are written down separately in the code.         *)

StatusText ==
  [Healthy   |-> "HEALTHY",   Degraded |-> "DEGRADED",
   Unhealthy |-> "UNHEALTHY", Unknown  |-> "UNKNOWN"]

StatusToDb(status) ==
  IF status \in DOMAIN StatusText THEN StatusText[status] ELSE Err

StatusVariant ==
  [HEALTHY   |-> "Healthy",   DEGRADED |-> "Degraded",
   UNHEALTHY |-> "Unhealthy", UNKNOWN  |-> "Unknown"]

StatusFromDb(text) ==
  IF text \in DOMAIN StatusVariant THEN StatusVariant[text] ELSE Err

CheckKindFromDb(kind, url, expected_status) ==
  IF kind # "HTTP" \/ U16FromDb(expected_status) = Err
  THEN Err
  ELSE HttpKind(url, U16FromDb(expected_status))

-----------------------------------------------------------------------------
(* Timestamps.  A DateTime is a number of units, of which a second has as  *)
(* many as FractionWidth digits tell apart.  A character of its text is a  *)
(* number in the order of ASCII: the point before the digits, the digits   *)
(* before Z.                                                               *)

Point == -1
Zulu  == Base

Power[n \in Nat] == IF n = 0 THEN 1 ELSE Base * Power[n - 1]

Second == Power[FractionWidth]

Digits(n, width) == [i \in 1..width |-> (n \div Power[width - i]) % Base]

(* Faulty variant of TimestampToDb: SecondsFormat::AutoSi, which writes no *)
(* fraction when there is none.                                            *)
TimestampToDbAutoSi(t) ==
  Digits(t \div Second, SecondsWidth)
    \o (IF t % Second = 0
        THEN <<>>
        ELSE <<Point>> \o Digits(t % Second, FractionWidth))
    \o <<Zulu>>

(* to_rfc3339_opts with SecondsFormat::Nanos: the width is fixed (as it is *)
(* for the date up to the year 9999).                                      *)
TimestampToDb(t) ==
  Digits(t \div Second, SecondsWidth)
    \o <<Point>> \o Digits(t % Second, FractionWidth) \o <<Zulu>>

ValueOf(digits) ==
  LET value[i \in 0..Len(digits)] ==
        IF i = 0 THEN 0 ELSE value[i - 1] * Base + digits[i]
  IN  value[Len(digits)]

(* parse_from_rfc3339: whole seconds, a fraction of any width or none, Z.  *)
TimestampFromDb(text) ==
  LET seconds  == SubSeq(text, 1, SecondsWidth)
      fraction == SubSeq(text, SecondsWidth + 2, Len(text) - 1)
  IN  IF Len(text) <= SecondsWidth \/ Last(text) # Zulu
      THEN Err
      ELSE ValueOf(seconds) * Second
           + ValueOf(fraction) * Power[FractionWidth - Len(fraction)]

(* How SQLite compares TEXT.                                               *)
TextBefore(a, b) ==
  \/ IsStrictPrefix(a, b)
  \/ \E i \in DOMAIN a \cap DOMAIN b :
       /\ \A j \in 1..i-1 : a[j] = b[j]
       /\ a[i] < b[i]
=============================================================================
