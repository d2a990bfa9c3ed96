------------------------------- MODULE ReadsApi -------------------------------
(***************************************************************************)
(* The eight GET operations in front of the read path.                     *)
(***************************************************************************)
EXTENDS Reads, HttpApi

ResponseTo(c) ==
  IF verdict[c] = "answered" THEN Response(200, "none", "absent")
                             ELSE RefusalForRead(verdict[c])

DocumentedFor(read) ==
  CASE read = "balance"          -> GetAccountBalance
    [] read = "trial_balance"    -> GetTrialBalance
    [] read = "balance_sheet"    -> GetBalanceSheet
    [] read = "income_statement" -> GetIncomeStatement
    [] read = "statement"        -> GetAccountStatement
    [] read = "accounts"         -> ListAccounts
    [] read = "transaction"      -> GetTransaction
    [] read = "cursor"           -> GetCursor

(* Each read answers what its operation documents, and a 404 or a refused  *)
(* chart version is true: what it names had not been committed when the    *)
(* client first asked.                                                     *)
ResponsesAreTrue ==
  /\ RefusalsAreTrue
  /\ \A c \in Clients :
       at[c] = "done" => ResponseTo(c) \in DocumentedFor(ask[c].read)
=============================================================================
