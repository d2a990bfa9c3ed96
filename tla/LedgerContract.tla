--------------------------- MODULE LedgerContract ---------------------------
(***************************************************************************)
(* What the write path promises a caller, with no database in sight: each  *)
(* call is answered by one atomic decision against the committed journal.  *)
(* A key is claimed by the call that posts under it, once; a later call    *)
(* with that key is answered with that post if it asks the same thing, and *)
(* refused if not; a refusal for a target or an account claims nothing.    *)
(* WritePath implements it.                                                *)
(***************************************************************************)
CONSTANTS Calls, Requests, OpenAccounts, None

VARIABLES
  stage,    \* "idle", "open" or "done"
  req,      \* what each call asked
  journal,  \* the calls that posted
  verdict   \* what each call is answered

vars == <<stage, req, journal, verdict>>

Undecided == [kind |-> "none", txn |-> None]

Init ==
  /\ stage = [c \in Calls |-> "idle"]
  /\ req = [c \in Calls |-> None]
  /\ journal = {}
  /\ verdict = [c \in Calls |-> Undecided]

Submit(c) ==
  /\ stage[c] = "idle"
  /\ \E r \in Requests : req' = [req EXCEPT ![c] = r]
  /\ stage' = [stage EXCEPT ![c] = "open"]
  /\ UNCHANGED <<journal, verdict>>

Undetermined(c) == stage[c] = "open" /\ verdict[c] = Undecided

Say(c, kind, t) == verdict' = [verdict EXCEPT ![c] = [kind |-> kind, txn |-> t]]

HeldBy(c, d) == d \in journal /\ req[d].key = req[c].key
KeyFree(c)   == ~\E d \in Calls : HeldBy(c, d)

Resolves(c) == req[c].body.resolves
Reverses(c) == req[c].body.reverses
Supersedes(d, t) == Resolves(d) = t \/ Reverses(d) = t
Superseded(t) == \E d \in journal : Supersedes(d, t)

MayResolve(t) == t \in journal /\ req[t].body.status = "pending" /\ ~Superseded(t)
MayReverse(t) ==
  t \in journal /\ Resolves(t) = None /\ Reverses(t) = None /\ ~Superseded(t)

AccountsNamed(c) ==
  LET p == req[c].body.postings IN
  {p[i].source : i \in DOMAIN p} \cup {p[i].destination : i \in DOMAIN p}

TargetMayBeSuperseded(c) ==
  /\ Resolves(c) # None => MayResolve(Resolves(c))
  /\ Reverses(c) # None => MayReverse(Reverses(c))

(* The call posts: its key is free, the transaction it supersedes may be   *)
(* superseded at this very moment, and its accounts exist.                 *)
Post(c) ==
  /\ Undetermined(c) /\ KeyFree(c)
  /\ TargetMayBeSuperseded(c)
  /\ AccountsNamed(c) \subseteq OpenAccounts
  /\ journal' = journal \cup {c}
  /\ Say(c, "posted", c)
  /\ UNCHANGED <<stage, req>>

Replay(c) ==
  /\ Undetermined(c)
  /\ \E d \in Calls : HeldBy(c, d) /\ req[d].body = req[c].body /\ Say(c, "replayed", d)
  /\ UNCHANGED <<stage, req, journal>>

RefuseKey(c) ==
  /\ Undetermined(c)
  /\ \E d \in Calls : HeldBy(c, d) /\ req[d].body # req[c].body
  /\ Say(c, "KeyReused", None)
  /\ UNCHANGED <<stage, req, journal>>

(* Each refusal names a reason that is true of the journal when it is      *)
(* given.  Being superseded, not pending or not reversible never ceases to *)
(* be true; a target nobody wrote stays unknown.                           *)
TargetRefusal(c) ==
  \/ /\ Resolves(c) # None
     /\ \/ Resolves(c) \notin journal /\ Say(c, "ResolveTargetUnknown", None)
        \/ /\ Resolves(c) \in journal /\ req[Resolves(c)].body.status # "pending"
           /\ Say(c, "ResolveTargetNotPending", None)
        \/ Superseded(Resolves(c)) /\ Say(c, "TargetAlreadySuperseded", None)
  \/ /\ Reverses(c) # None
     /\ \/ Reverses(c) \notin journal /\ Say(c, "ReverseTargetUnknown", None)
        \/ /\ Reverses(c) \in journal
           /\ Resolves(Reverses(c)) # None \/ Reverses(Reverses(c)) # None
           /\ Say(c, "ReverseTargetNotReversible", None)
        \/ Superseded(Reverses(c)) /\ Say(c, "TargetAlreadySuperseded", None)

(* A call whose key is held hears about its key, never about its target.   *)
RefuseTarget(c) ==
  /\ Undetermined(c) /\ KeyFree(c)
  /\ TargetRefusal(c)
  /\ UNCHANGED <<stage, req, journal>>

RefuseAccount(c) ==
  /\ Undetermined(c) /\ KeyFree(c)
  /\ TargetMayBeSuperseded(c)
  /\ ~(AccountsNamed(c) \subseteq OpenAccounts)
  /\ Say(c, "AccountUnknown", None)
  /\ UNCHANGED <<stage, req, journal>>

Deliver(c) ==
  /\ stage[c] = "open" /\ verdict[c] # Undecided
  /\ stage' = [stage EXCEPT ![c] = "done"]
  /\ UNCHANGED <<req, journal, verdict>>

(* The answer is lost, before or after the decision.                       *)
Lose(c) ==
  /\ stage[c] = "open"
  /\ stage' = [stage EXCEPT ![c] = "done"]
  /\ Say(c, "failed", None)
  /\ UNCHANGED <<req, journal>>

Next ==
  \E c \in Calls :
    \/ Submit(c) \/ Post(c) \/ Replay(c) \/ RefuseKey(c)
    \/ RefuseTarget(c) \/ RefuseAccount(c) \/ Deliver(c) \/ Lose(c)

Spec == Init /\ [][Next]_vars
=============================================================================
