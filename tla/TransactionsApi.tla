---------------------------- MODULE TransactionsApi ----------------------------
(***************************************************************************)
(* POST /v1/transactions in front of the write path: what every caller of  *)
(* a key can conclude from the responses it and its rivals hear.           *)
(***************************************************************************)
EXTENDS WritePath, HttpApi

Answered == {c \in Calls : verdict[c].kind # "none"}

ResponseTo(c) ==
  IF verdict[c].kind \in {"posted", "replayed"}
    THEN StoredResult(verdict[c].kind = "replayed")
    ELSE RefusalFor(WriteProblems, verdict[c].kind)

Status(c)   == ResponseTo(c).status
Succeeds(c) == Status(c) \in {200, 201}

(* The responses to a key agree with the book and with one another,        *)
(* whatever raced: each is documented; a 201 created the transaction it    *)
(* names and is the only one its key ever gets; every 200 and 201 of a key *)
(* answers the same body with the same transaction; a 200 and a 422 wrote  *)
(* nothing.                                                                *)
ResponsesAreTrue ==
  \A c \in Answered :
    /\ ResponseTo(c) \in PostTransaction
    /\ Status(c) = 201 => c \in txns
    /\ Status(c) \in {200, 422} => c \notin events
    /\ Succeeds(c) => verdict[c].txn \in txns
    /\ \A d \in Answered \ {c} : Succeeds(c) /\ Succeeds(d) /\ SameKey(c, d) =>
         /\ req[c] = req[d] /\ verdict[c].txn = verdict[d].txn
         /\ 200 \in {Status(c), Status(d)}
=============================================================================
