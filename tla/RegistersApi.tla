------------------------------ MODULE RegistersApi ------------------------------
(***************************************************************************)
(* POST /v1/accounts and POST /v1/periods in front of the registers, which *)
(* share one namespace of keys with each other.                            *)
(***************************************************************************)
EXTENDS Registers, HttpApi

Answered == {c \in Calls : verdict[c].kind # "none"}

OpeningResponse(c) ==
  IF verdict[c].kind \in {"accepted", "replayed"}
    THEN StoredResult(verdict[c].kind = "replayed")
    ELSE RefusalFor(OpeningProblems, verdict[c].kind)

DefiningResponse(c) ==
  IF verdict[c].kind \in {"accepted", "replayed"}
    THEN StoredResult(verdict[c].kind = "replayed")
    ELSE RefusalFor(DefiningProblems, verdict[c].kind)

ResponseTo(c) == IF IsOpening(req[c]) THEN OpeningResponse(c) ELSE DefiningResponse(c)

Status(c)   == ResponseTo(c).status
Succeeds(c) == Status(c) \in {200, 201}

(* Every answer is true of the registers for good, and the responses to a  *)
(* key agree: each is one its operation documents; every 200 and 201 of a  *)
(* key answers the same operation and body with the same row, and at most  *)
(* one of them is a 201; and only a 500 leaves the caller in doubt.        *)
ResponsesAreTrue ==
  /\ AnswersAreTrue
  /\ \A c \in Answered :
       /\ ResponseTo(c) \in
            IF IsOpening(req[c]) THEN OpenAccountOperation ELSE DefinePeriodOperation
       /\ c \in events => Status(c) \in {201, 500}
       /\ \A d \in Answered \ {c} : Succeeds(c) /\ Succeeds(d) /\ SameKey(c, d) =>
            /\ SameBody(req[c], req[d]) /\ verdict[c].row = verdict[d].row
            /\ 200 \in {Status(c), Status(d)}
=============================================================================
