-------------------------------- MODULE HttpApi --------------------------------
(***************************************************************************)
(* The HTTP surface of crates/api: what each operation answers, and what   *)
(* its OpenAPI annotation says it may.  The surface keeps no state; the    *)
(* modules that extend this one put it in front of a component.            *)
(*                                                                         *)
(* A response is told apart by its status, the `type' of its error body    *)
(* and its Idempotency-Replayed header.                                    *)
(***************************************************************************)
EXTENDS Naturals

Response(status, type, replayed) ==
  [status |-> status, type |-> type, replayed |-> replayed]

Refusal(status, type) == Response(status, type, "absent")

(* The refusals of the extractors, before a handler runs: broken JSON, an  *)
(* oversized body, another media type, a field of another type; and for    *)
(* the query and the path, 400.                                            *)
BodyRejections   == {Refusal(status, "invalid_request") : status \in {400, 413, 415, 422}}
ParamsRejections == {Refusal(400, "invalid_request")}

(* Variant: every acceptance a creation.                                   *)
StoredResultAsCreated(replay) == Response(201, "none", "false")

(* An accepted write: 201 once, 200 with the header for a replay.          *)
StoredResult(replay) ==
  IF replay THEN Response(200, "none", "true") ELSE Response(201, "none", "false")

-----------------------------------------------------------------------------
(* The refusals of the ports on the wire, by the variant of their error    *)

WriteProblems ==
  [KeyReused                 |-> "idempotency_key_reused",
   AccountUnknown            |-> "account_unknown",
   Overflow                  |-> "invalid_request",
   ResolveTargetUnknown      |-> "resolve_target_unknown",
   ResolveTargetNotPending   |-> "resolve_target_not_pending",
   ReverseTargetUnknown      |-> "reverse_target_unknown",
   ReverseTargetNotReversible |-> "reverse_target_not_reversible",
   TargetAlreadySuperseded   |-> "target_already_superseded"]

OpeningProblems ==
  [Invalid                    |-> "invalid_request",
   KeyReused                  |-> "idempotency_key_reused",
   AccountTypeUnknown         |-> "account_type_unknown",
   AccountExists              |-> "account_exists",
   AccountOwnerMismatched     |-> "account_owner_mismatched",
   AccountTypeRequiresAnOwner |-> "account_type_requires_an_owner"]

DefiningProblems ==
  [Invalid           |-> "invalid_request",
   KeyReused         |-> "idempotency_key_reused",
   PeriodExists      |-> "period_exists",
   PeriodOverlaps    |-> "period_overlaps",
   PeriodZoneUnknown |-> "period_zone_unknown"]

ClosingProblems ==
  [KeyReused               |-> "idempotency_key_reused",
   PeriodUnknown           |-> "period_unknown",
   PeriodAlreadyClosed     |-> "period_already_closed",
   RetainedEarningsUnknown |-> "retained_earnings_unknown"]

(* A write's refusal is a 422, since the caller must change the request; a *)
(* storage failure and a state the writer calls impossible are both 500.   *)
RefusalFor(problems, kind) ==
  IF kind \in DOMAIN problems THEN Refusal(422, problems[kind]) ELSE Refusal(500, "internal")

(* A read's: 404 where the resource named is not on the book, 503 for a    *)
(* statement timeout.                                                      *)
RefusalForRead(type) ==
  CASE type \in {"account_unknown", "transaction_unknown"} -> Refusal(404, type)
    [] type = "report_timed_out" -> Refusal(503, type)
    [] type \in {"invalid_request", "cursor_invalid", "chart_version_unknown",
                 "chart_version_incomplete", "tenant_mismatch"} -> Refusal(422, type)
    [] OTHER -> Refusal(500, "internal")

-----------------------------------------------------------------------------
(* The responses each operation documents                                  *)

Types(status, types) == {Refusal(status, type) : type \in types}

DocumentedForWrites == BodyRejections \cup {Response(201, "none", "false"), Refusal(500, "internal")}
Replayed == Response(200, "none", "true")

PostTransaction ==
  DocumentedForWrites \cup {Replayed} \cup
    Types(422, {"idempotency_key_reused", "account_unknown", "resolve_target_unknown",
                "resolve_target_not_pending", "reverse_target_unknown",
                "reverse_target_not_reversible", "target_already_superseded"})

OpenAccountOperation ==
  DocumentedForWrites \cup {Replayed} \cup
    Types(422, {"idempotency_key_reused", "account_type_unknown", "account_exists",
                "account_owner_mismatched", "account_type_requires_an_owner"})

DefinePeriodOperation ==
  DocumentedForWrites \cup {Replayed} \cup
    Types(422, {"idempotency_key_reused", "period_overlaps", "period_exists",
                "period_zone_unknown"})

ClosePeriodOperation ==
  DocumentedForWrites \cup
    Types(422, {"idempotency_key_reused", "period_unknown", "period_already_closed",
                "retained_earnings_unknown"})

DocumentedForReads ==
  {Response(200, "none", "absent"), Refusal(422, "tenant_mismatch"),
   Refusal(503, "report_timed_out"), Refusal(500, "internal")} \cup ParamsRejections

GetCursor         == DocumentedForReads
GetAccountBalance == DocumentedForReads \cup Types(404, {"account_unknown"})
GetTransaction    == DocumentedForReads \cup Types(404, {"transaction_unknown"})
ListAccounts      == DocumentedForReads \cup Types(422, {"invalid_request"})
GetTrialBalance   == DocumentedForReads \cup Types(422, {"invalid_request", "cursor_invalid"})
GetAccountStatement == GetTrialBalance \cup Types(404, {"account_unknown"})
GetBalanceSheet ==
  DocumentedForReads \cup
    Types(422, {"invalid_request", "cursor_invalid", "chart_version_unknown",
                "chart_version_incomplete"})
GetIncomeStatement == GetBalanceSheet
=============================================================================
