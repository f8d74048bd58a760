----------------------------- MODULE Reporting -----------------------------
(***************************************************************************)
(* The read model of crates/server/src/reporting.rs, as far as it computes *)
(* only: statuses are aggregated over sets, for aggregate_status looks at  *)
(* which statuses occur and not at how many or in which order.             *)
(***************************************************************************)
EXTENDS Persistence

AggregateStatus(statuses) ==
  IF statuses = {} THEN "UNKNOWN"
  ELSE IF "UNHEALTHY" \in statuses THEN "UNHEALTHY"
  ELSE IF "DEGRADED" \in statuses THEN "DEGRADED"
  ELSE IF "UNKNOWN" \in statuses THEN "UNKNOWN"
  ELSE "HEALTHY"

StatusOf(row) == IF row = None THEN "UNKNOWN" ELSE row.status

(* The status of a service, from the enabled checks among those listed and *)
(* the latest result read for each.                                        *)
ServiceStatus(enabled, latest) ==
  AggregateStatus({StatusOf(latest[c]) : c \in enabled})
=============================================================================
