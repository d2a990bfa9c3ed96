---------------------------- MODULE BatchContract ----------------------------
(***************************************************************************)
(* What sharing a statement promises, with no database in sight: a batch   *)
(* of calls under keys of their own is settled in one step.  Either the    *)
(* batch fails, and every member hears so, whether its posts are in the    *)
(* journal or not, but all of them or none; or it is decided, each member  *)
(* against the journal as it is at that moment and none by what became of  *)
(* a neighbour.  A call whose plan is refused never joins a batch.         *)
(* BatchedWrite implements it.                                             *)
(***************************************************************************)
CONSTANTS
  Calls, Menu,
  Plannable,  \* the requests whose plan is not refused
  OpenAccounts, None

VARIABLES
  req,      \* what each call asks
  journal,  \* the calls that posted
  verdict   \* what each call is answered

vars == <<req, journal, verdict>>

Say(kind, t) == [kind |-> kind, txn |-> t]
Undecided == Say("none", None)
Verdicts == [kind : {"none", "posted", "replayed", "KeyReused", "AccountUnknown",
                     "Overflow", "failed"},
             txn  : Calls \cup {None}]

Init ==
  /\ req \in [Calls -> Menu]
  /\ journal = {}
  /\ verdict = [c \in Calls |-> Undecided]

Undetermined(c) == verdict[c] = Undecided

Holders(c) == {d \in journal : req[d].key = req[c].key}

AccountsNamed(c) ==
  LET p == req[c].postings IN
  {p[i].source : i \in DOMAIN p} \cup {p[i].destination : i \in DOMAIN p}

AccountsAreOpen(c) == AccountsNamed(c) \subseteq OpenAccounts

(* No key twice, and nobody who has an answer.                             *)
IsBatch(S) ==
  /\ \A c \in S : Undetermined(c) /\ req[c] \in Plannable
  /\ \A b, c \in S : req[b].key = req[c].key => b = c

Posts(S) == {c \in S : Holders(c) = {} /\ AccountsAreOpen(c)}

(* A member whose key is free and whose accounts are open posts.  A key    *)
(* that is held is heard of, unless the member shares its batch and names  *)
(* an account that is not open: such a member reads the keys held where    *)
(* the batch began, and may be refused the account under one taken since.  *)
IsAnswerOf(S, c, v) ==
  IF c \in Posts(S)
    THEN v = Say("posted", c)
    ELSE \/ \E d \in Holders(c) : req[d] = req[c] /\ v = Say("replayed", d)
         \/ \E d \in Holders(c) : req[d] # req[c] /\ v = Say("KeyReused", None)
         \/ /\ ~AccountsAreOpen(c) /\ (S = {c} => Holders(c) = {})
            /\ v = Say("AccountUnknown", None)

OthersAreUntouched(S) == \A c \in Calls \ S : verdict'[c] = verdict[c]

Decide(S) ==
  /\ IsBatch(S)
  /\ journal' = journal \cup Posts(S)
  /\ verdict' \in [Calls -> Verdicts]
  /\ \A c \in S : IsAnswerOf(S, c, verdict'[c])
  /\ OthersAreUntouched(S)
  /\ UNCHANGED req

(* Nothing of the batch lands, or its commit does and nobody hears of it.  *)
Lose(S) ==
  /\ IsBatch(S)
  /\ journal' \in {journal, journal \cup Posts(S)}
  /\ verdict' = [c \in Calls |-> IF c \in S THEN Say("failed", None) ELSE verdict[c]]
  /\ UNCHANGED req

RefusePlans(S) ==
  /\ \A c \in S : Undetermined(c) /\ req[c] \notin Plannable
  /\ verdict' = [c \in Calls |-> IF c \in S THEN Say("Overflow", None) ELSE verdict[c]]
  /\ UNCHANGED <<req, journal>>

Next == \E S \in SUBSET Calls : Decide(S) \/ Lose(S) \/ RefusePlans(S)

Spec == Init /\ [][Next]_vars
=============================================================================
