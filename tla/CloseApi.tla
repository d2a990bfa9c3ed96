------------------------------- MODULE CloseApi -------------------------------
(***************************************************************************)
(* POST /v1/periods/{code}/close in front of the period close.  The body   *)
(* carries no key: the writer derives it, and a repeat is a refusal.       *)
(***************************************************************************)
EXTENDS CloseReports, HttpApi

Answered == {c \in Closes : answer[c] # "none"}

ResponseTo(c) ==
  IF answer[c] = "written" THEN StoredResult(FALSE)
                           ELSE RefusalFor(ClosingProblems, answer[c])

Status(c) == ResponseTo(c).status

(* What a close is told is so, and documented: a period and currency are   *)
(* created as closed once, whoever is told it is closed already can find   *)
(* that close, and a refused close left nothing.                           *)
ResponsesAreTrue ==
  /\ RefusalsAreTrue
  /\ \A c \in Answered :
       /\ ResponseTo(c) \in ClosePeriodOperation
       /\ Status(c) = 201 <=> c \in committed
       /\ \A d \in Answered \ {c} : ask[c] = ask[d] => ~(Status(c) = 201 /\ Status(d) = 201)
=============================================================================
