------------------------------ MODULE WritePath ------------------------------
(***************************************************************************)
(* One post, end to end: LedgerService::post over the single-call          *)
(* statement CLAIM_AND_APPEND, run by any number of concurrent callers     *)
(* against one PostgreSQL database at READ COMMITTED.                      *)
(*                                                                         *)
(* A call is one request that reaches the writer.  It runs one database    *)
(* transaction: statement A (claim the idempotency key, insert the         *)
(* transaction row behind the supersede gate, upsert one balance row per   *)
(* account, insert the entries), then either a commit, or a rollback and a *)
(* refusal, or statement B (the stored result) and a rollback.  The steps  *)
(* inside statement A are separate actions because each may wait for a     *)
(* rival's uncommitted row, and because everything statement A reads comes *)
(* from the snapshot it took when it started.                              *)
(*                                                                         *)
(* Rows written and not yet committed are the call's own: `claims' (the    *)
(* event rows), `inserted' (the transaction rows) and `wrote' (the balance *)
(* rows, whose row lock the writer holds).  They block rivals, and no      *)
(* snapshot shows them.                                                    *)
(*                                                                         *)
(* The id of a transaction row is the call that wrote it: a call writes at *)
(* most one, and a retry is another call.                                  *)
(***************************************************************************)
EXTENDS Postings

CONSTANTS
  Calls,         \* the requests that reach the writer, each one attempt
  Menu,          \* what each call may ask: [key, verb, status, postings] records
  OpenAccounts,  \* the accounts that exist; a posting may name another
  StripeCount,   \* stripe_count of each open account
  Affinities,    \* the stripe affinities of the dispatchers that may take each call
  None,          \* the null pointer: no resolves_id, no transaction
  Nowhere        \* a transaction id that was never written

ASSUME OpenAccountsAssumption ==
  OpenAccounts \subseteq Nat /\ IsFiniteSet(OpenAccounts)

ASSUME StripesAssumption ==
  /\ StripeCount \in [OpenAccounts -> Nat \ {0}]
  /\ \A c \in Calls : Affinities[c] \subseteq Nat

Verbs == {"post", "resolve", "reverse"}

ASSUME MenuAssumption ==
  \A c \in Calls : \A item \in Menu[c] :
    /\ item.verb \in Verbs
    /\ item.status \in {"posted", "pending"}
    /\ item.postings \in PostingLists

ASSUME IdsAssumption ==
  None \notin Calls /\ Nowhere \notin Calls /\ None # Nowhere

VARIABLES
  pc,        \* where each call is
  req,       \* the request of each call: key and body
  affinity,  \* the stripe affinity of the dispatcher that runs the call
  snap,      \* the transactions the snapshot of statement A shows
  claims,    \* calls whose event row is inserted and uncommitted
  inserted,  \* calls whose transaction row is inserted and uncommitted
  wrote,     \* the balance rows each call upserted and has not committed
  events,    \* committed ledger_events, by the call that claimed the key
  txns,      \* committed ledger_transactions
  entries,   \* committed ledger_entries of each transaction, in leg order
  balances,  \* committed ledger_account_balances
  verdict    \* what each call is answered

callVars == <<pc, req, affinity, snap, verdict>>
openVars == <<claims, inserted, wrote>>
bookVars == <<events, txns, entries, balances>>
vars     == <<callVars, openVars, bookVars>>

-----------------------------------------------------------------------------
(* Requests *)

(* PostTransaction::new.  A resolution is posted; a reversal is posted,    *)
(* does not resolve, and carries no postings; anything else carries some.  *)
WellFormed(body) ==
  /\ body.resolves # None => body.status = "posted"
  /\ body.reverses # None => /\ body.resolves = None
                             /\ body.status = "posted"
                             /\ body.postings = <<>>
  /\ body.reverses = None => body.postings # <<>>

(* The request a menu item makes of a target.  The body is what the        *)
(* idempotency hash covers: everything but the key.                        *)
Request(item, target) ==
  [key  |-> item.key,
   body |-> [status   |-> item.status,
             resolves |-> IF item.verb = "resolve" THEN target ELSE None,
             reverses |-> IF item.verb = "reverse" THEN target ELSE None,
             postings |-> item.postings]]

IsResolution(c) == req[c].body.resolves # None
IsReversal(c)   == req[c].body.reverses # None
IsSuperseding(c) == IsResolution(c) \/ IsReversal(c)
Target(c) == IF IsResolution(c) THEN req[c].body.resolves ELSE req[c].body.reverses

SameKey(c, d) == req[c].key = req[d].key

-----------------------------------------------------------------------------
(* What statement A derives *)

(* supersede_target, on the statement's snapshot.                          *)
TargetSeen(c) == Target(c) \in snap[c]
TargetSupersededIn(c, rows) ==
  \E r \in rows : IsSuperseding(r) /\ Target(r) = Target(c)

(* The predicate on the transaction insert.                                *)
GateAdmits(c) ==
  \/ ~IsSuperseding(c)
  \/ /\ TargetSeen(c)
     /\ ~TargetSupersededIn(c, snap[c])
     /\ IF IsResolution(c)
          THEN req[Target(c)].body.status = "pending"
          ELSE ~IsSuperseding(Target(c))

(* mirror_leg: a reversal of a posted target writes the target's entries   *)
(* with their directions flipped, in the order of their sequence numbers;  *)
(* a pending target is voided and writes none.  It does not ask the gate.  *)
MirrorLegs(t) ==
  IF req[t].body.status = "posted"
    THEN [i \in DOMAIN entries[t] |->
            [account   |-> entries[t][i].account,
             direction |-> Opposite(entries[t][i].direction),
             amount    |-> entries[t][i].amount]]
    ELSE <<>>

LegsOf(c) ==
  IF IsReversal(c)
    THEN IF TargetSeen(c) THEN MirrorLegs(Target(c)) ELSE <<>>
    ELSE ExpandPostings(req[c].body.postings)

DeltasOf(c) == PlannedDeltas(LegsOf(c), req[c].body.status)

(* striped: the row an account's delta lands on.                           *)
RowOf(c, a) == <<a, affinity[c] % StripeCount[a]>>
Rows == UNION {{a} \X (0..(StripeCount[a] - 1)) : a \in OpenAccounts}

NoRow == [input |-> 0, output |-> 0, seq |-> 0]

(* A delta joins ledger_accounts: an account that does not exist upserts   *)
(* nothing and answers no counter.                                         *)
UnknownAccounts(c) == AccountsOf(LegsOf(c)) \ OpenAccounts
AccountsLeft(c) ==
  {a \in AccountsOf(LegsOf(c)) \cap OpenAccounts : wrote[c][RowOf(c, a)] = NoRow}

(* Variant: the counter walked back by the delta instead of advanced.      *)
UpsertedBackwards(c, a) ==
  LET row == balances[RowOf(c, a)]  delta == DeltasOf(c)[a] IN
  [input  |-> row.input + delta.input,
   output |-> row.output + delta.output,
   seq    |-> row.seq - delta.legs]

(* balance: the row after this call's delta.                               *)
Upserted(c, a) ==
  LET row == balances[RowOf(c, a)]  delta == DeltasOf(c)[a] IN
  [input  |-> row.input + delta.input,
   output |-> row.output + delta.output,
   seq    |-> row.seq + delta.legs]

(* entry: numbered last_seq - seq_offset beside the counter's own row.     *)
EntriesOf(c) ==
  LET legs == LegsOf(c) IN
  [i \in DOMAIN legs |->
     [account   |-> legs[i].account,
      direction |-> legs[i].direction,
      amount    |-> legs[i].amount,
      stripe    |-> RowOf(c, legs[i].account)[2],
      seq       |-> wrote[c][RowOf(c, legs[i].account)].seq - OffsetBack(legs, i)]]
-----------------------------------------------------------------------------
(* Waiting: a unique index or a row lock held by an uncommitted rival *)

KeyRivals(c)  == {d \in claims \ {c} : SameKey(d, c)}
SlotRivals(c) ==
  {d \in inserted \ {c} : IsSuperseding(d) /\ Target(d) = Target(c)}
(* Variant: an upsert that reads the row without locking it.               *)
RowRivalsUnlocked(c, row) == {}

RowRivals(c, row) == {d \in Calls \ {c} : wrote[d][row] # NoRow}

(* Variant: rows locked in the order the postings name them.               *)
NextAccountAsPosted(c) ==
  LET legs == LegsOf(c) IN
  legs[Min({i \in DOMAIN legs : legs[i].account \in AccountsLeft(c)})].account

(* The upsert's ORDER BY: rows are locked in account order.                *)
NextAccount(c) == Min(AccountsLeft(c))

-----------------------------------------------------------------------------
Init ==
  /\ pc = [c \in Calls |-> "idle"]
  /\ req = [c \in Calls |-> None]
  /\ affinity = [c \in Calls |-> 0]
  /\ snap = [c \in Calls |-> {}]
  /\ claims = {} /\ inserted = {}
  /\ wrote = [c \in Calls |-> [r \in Rows |-> NoRow]]
  /\ events = {} /\ txns = {}
  /\ entries = [c \in Calls |-> <<>>]
  /\ balances = [r \in Rows |-> NoRow]
  /\ verdict = [c \in Calls |-> [kind |-> "none", txn |-> None]]

At(c, place)   == pc[c] = place
Goto(c, place) == pc' = [pc EXCEPT ![c] = place]
Decide(c, kind, t) == verdict' = [verdict EXCEPT ![c] = [kind |-> kind, txn |-> t]]

(* The end of a database transaction, whichever way it goes: its           *)
(* uncommitted rows, the locks on them and its snapshot are gone.          *)
EndTransaction(c) ==
  /\ claims' = claims \ {c}
  /\ inserted' = inserted \ {c}
  /\ wrote' = [wrote EXCEPT ![c] = [r \in Rows |-> NoRow]]
  /\ snap' = [snap EXCEPT ![c] = {}]

(* A rollback, or the server noticing that the connection died.            *)
Rollback(c) == EndTransaction(c) /\ UNCHANGED bookVars

(* A dispatcher takes the call, plans it, begins, and sends statement A,   *)
(* whose snapshot is taken here.  A caller learns a transaction id from an *)
(* answer or a report, so it names a committed one, or one nobody wrote.   *)
Begin(c) ==
  /\ At(c, "idle")
  /\ \E item \in Menu[c], a \in Affinities[c], t \in txns \cup {Nowhere, None} :
       /\ (t = None) = (item.verb = "post")
       /\ WellFormed(Request(item, t).body)
       /\ req' = [req EXCEPT ![c] = Request(item, t)]
       /\ affinity' = [affinity EXCEPT ![c] = a]
  /\ snap' = [snap EXCEPT ![c] = txns]
  /\ Goto(c, "claiming")
  /\ UNCHANGED <<verdict, openVars, bookVars>>

(* Variant: a claim that trusts its snapshot.                              *)
KeyCommittedInSnapshot(c) == \E d \in events \cap snap[c] : SameKey(d, c)

KeyCommitted(c) == \E d \in events : SameKey(d, c)

(* claimed: INSERT ... ON CONFLICT DO NOTHING, which waits for an          *)
(* uncommitted rival and judges committed rows, its snapshot aside.        *)
Claim(c) ==
  /\ At(c, "claiming")
  /\ KeyRivals(c) = {} /\ ~KeyCommitted(c)
  /\ claims' = claims \cup {c}
  /\ Goto(c, "inserting")
  /\ UNCHANGED <<req, affinity, snap, verdict, inserted, wrote, bookVars>>

FindKeyHeld(c) ==
  /\ At(c, "claiming")
  /\ KeyRivals(c) = {} /\ KeyCommitted(c)
  /\ Goto(c, "lookup")
  /\ UNCHANGED <<req, affinity, snap, verdict, openVars, bookVars>>

(* Variant: no unique index behind the gate.                               *)
SlotNeverCommitted(c) == FALSE

SlotCommitted(c) == TargetSupersededIn(c, txns)

(* txn: the insert behind the gate.  uq_txn__one_supersession makes a      *)
(* superseding insert wait for an uncommitted rival.                       *)
Insert(c) ==
  /\ At(c, "inserting")
  /\ GateAdmits(c)
  /\ IsSuperseding(c) => SlotRivals(c) = {} /\ ~SlotCommitted(c)
  /\ inserted' = inserted \cup {c}
  /\ Goto(c, "upserting")
  /\ UNCHANGED <<req, affinity, snap, verdict, claims, wrote, bookVars>>

(* The gate writes no transaction row, and the balance upserts still run.  *)
WithholdInsert(c) ==
  /\ At(c, "inserting")
  /\ ~GateAdmits(c)
  /\ Goto(c, "upserting")
  /\ UNCHANGED <<req, affinity, snap, verdict, openVars, bookVars>>

(* The rival committed: the unique index raises, PostgreSQL aborts the     *)
(* transaction, and the adapter reads the constraint name as the refusal.  *)
LoseSupersessionRace(c) ==
  /\ At(c, "inserting")
  /\ IsSuperseding(c) /\ GateAdmits(c)
  /\ SlotRivals(c) = {} /\ SlotCommitted(c)
  /\ Rollback(c)
  /\ Decide(c, "TargetAlreadySuperseded", None)
  /\ Goto(c, "answering")
  /\ UNCHANGED <<req, affinity>>

(* balance: lock the next row, in account order, and add this delta to     *)
(* what its last writer committed.                                         *)
Upsert(c) ==
  /\ At(c, "upserting")
  /\ AccountsLeft(c) # {}
  /\ LET a == NextAccount(c) IN
       /\ RowRivals(c, RowOf(c, a)) = {}
       /\ wrote' = [wrote EXCEPT ![c][RowOf(c, a)] = Upserted(c, a)]
  /\ UNCHANGED <<callVars, claims, inserted, bookVars>>

Appended(c) == At(c, "upserting") /\ AccountsLeft(c) = {}

(* commit_derived_reversal and commit_or_refuse_unknown_account.           *)
Commit(c) ==
  /\ Appended(c)
  /\ c \in inserted /\ UnknownAccounts(c) = {}
  /\ events' = events \cup {c}
  /\ txns' = txns \cup {c}
  /\ entries' = [entries EXCEPT ![c] = EntriesOf(c)]
  /\ balances' = [r \in Rows |-> IF wrote[c][r] = NoRow THEN balances[r] ELSE wrote[c][r]]
  /\ EndTransaction(c)
  /\ Decide(c, "posted", c)
  /\ Goto(c, "answering")
  /\ UNCHANGED <<req, affinity>>

(* diagnose_supersede_refusal, from the columns the statement answered.    *)
Diagnosis(c) ==
  IF IsResolution(c)
    THEN IF ~TargetSeen(c) THEN "ResolveTargetUnknown"
         ELSE IF req[Target(c)].body.status # "pending" THEN "ResolveTargetNotPending"
         ELSE "TargetAlreadySuperseded"
    ELSE IF ~TargetSeen(c) THEN "ReverseTargetUnknown"
         ELSE IF IsSuperseding(Target(c)) THEN "ReverseTargetNotReversible"
         ELSE "TargetAlreadySuperseded"

(* Variant: a refusal that leaves its transaction open.                    *)
RefuseSupersessionHoldingLocks(c) ==
  /\ Appended(c)
  /\ c \notin inserted
  /\ Decide(c, Diagnosis(c), None)
  /\ Goto(c, "answering")
  /\ UNCHANGED <<req, affinity, snap, openVars, bookVars>>

(* refuse_unsupersedable_target: roll back, then name the target.          *)
RefuseSupersession(c) ==
  /\ Appended(c)
  /\ c \notin inserted
  /\ Rollback(c)
  /\ Decide(c, Diagnosis(c), None)
  /\ Goto(c, "answering")
  /\ UNCHANGED <<req, affinity>>

(* An upsert that returned no counter: roll back, then name the account.   *)
RefuseUnknownAccount(c) ==
  /\ Appended(c)
  /\ c \in inserted /\ UnknownAccounts(c) # {}
  /\ Rollback(c)
  /\ Decide(c, "AccountUnknown", None)
  /\ Goto(c, "answering")
  /\ UNCHANGED <<req, affinity>>

(* Variant: statement B folded into statement A, on A's snapshot.          *)
StoredResultsInStatementA(c) ==
  {d \in events \cap snap[c] : SameKey(d, c) /\ req[d].body = req[c].body}

(* replay_or_refuse: statement B is a statement of its own, so it sees     *)
(* what is committed now; the hash rides in its WHERE.                     *)
StoredResults(c) == {d \in events : SameKey(d, c) /\ req[d].body = req[c].body}

ReplayOrRefuse(c) ==
  /\ At(c, "lookup")
  /\ \/ \E d \in StoredResults(c) :
          Decide(c, "replayed", IF d \in txns THEN d ELSE None)
     \/ StoredResults(c) = {} /\ Decide(c, "KeyReused", None)
  /\ Rollback(c)
  /\ Goto(c, "answering")
  /\ UNCHANGED <<req, affinity>>

(* The caller reads the answer.                                            *)
Answer(c) ==
  /\ At(c, "answering")
  /\ Goto(c, "done")
  /\ UNCHANGED <<req, affinity, snap, verdict, openVars, bookVars>>

(* The connection, the server or this process fails.  The caller hears a   *)
(* storage error or nothing; what was not committed is discarded, what was *)
(* committed stays.                                                        *)
InFlight == {"claiming", "inserting", "upserting", "lookup", "answering"}

Fail(c) ==
  /\ pc[c] \in InFlight
  /\ Rollback(c)
  /\ Decide(c, "failed", None)
  /\ Goto(c, "done")
  /\ UNCHANGED <<req, affinity>>

Step(c) ==
  \/ Claim(c) \/ FindKeyHeld(c)
  \/ Insert(c) \/ WithholdInsert(c) \/ LoseSupersessionRace(c)
  \/ Upsert(c)
  \/ Commit(c) \/ RefuseSupersession(c) \/ RefuseUnknownAccount(c)
  \/ ReplayOrRefuse(c)
  \/ Answer(c)

AllDone == (\A c \in Calls : At(c, "done")) /\ UNCHANGED vars

Next == (\E c \in Calls : Begin(c) \/ Step(c) \/ Fail(c)) \/ AllDone

Spec == Init /\ [][Next]_vars

(* While some dispatcher can drive the call it took, some dispatcher does, *)
(* and PostgreSQL grants a lock whose holder is gone.  Nothing makes a     *)
(* caller post or a machine fail, and no call is preferred to another.     *)
FairSpec == Spec /\ WF_vars(\E c \in Calls : Step(c))

-----------------------------------------------------------------------------
(* Properties *)

Targets  == Calls \cup {Nowhere, None}
Asks     == UNION {Menu[c] : c \in Calls}
Requests == {r \in {Request(item, t) : item \in Asks, t \in Targets} : WellFormed(r.body)}
Places   == InFlight \cup {"idle", "done"}
Verdicts == [kind : {"none", "posted", "replayed", "failed", "KeyReused",
                     "AccountUnknown", "TargetAlreadySuperseded",
                     "ResolveTargetUnknown", "ResolveTargetNotPending",
                     "ReverseTargetUnknown", "ReverseTargetNotReversible"},
             txn  : Calls \cup {None}]
Entries  == [account : OpenAccounts, direction : {"debit", "credit"},
             amount : Nat, stripe : Nat, seq : Int]
IsRow(row) == DOMAIN row = DOMAIN NoRow /\ row.seq \in Nat

(* Every variable has its type. *)
TypeOK ==
  /\ pc \in [Calls -> Places]
  /\ req \in [Calls -> Requests \cup {None}]
  /\ affinity \in [Calls -> Nat]
  /\ snap \in [Calls -> SUBSET Calls]
  /\ claims \subseteq Calls /\ inserted \subseteq Calls
  /\ DOMAIN wrote = Calls
  /\ \A c \in Calls : DOMAIN wrote[c] = Rows /\ \A r \in Rows : IsRow(wrote[c][r])
  /\ events \subseteq Calls /\ txns \subseteq Calls
  /\ entries \in [Calls -> Seq(Entries)]
  /\ DOMAIN balances = Rows /\ \A r \in Rows : IsRow(balances[r])
  /\ verdict \in [Calls -> Verdicts]

(* However many calls race one idempotency key, and whichever of them      *)
(* fail, at most one transaction is ever committed under it; and no        *)
(* refusal burns its key: an event is committed only beside the            *)
(* transaction it caused.  A claim that outlived its refusal would make    *)
(* the retry read as a replay of nothing.                                  *)
OneTransactionPerKey == \A c, d \in txns : SameKey(c, d) => c = d
NoOrphanedEvent == events = txns
KeysPostOnce == OneTransactionPerKey /\ NoOrphanedEvent

(* A transaction is superseded at most once, however resolutions and       *)
(* reversals race; only a pending one is resolved, and only one that       *)
(* supersedes nothing is reversed.                                         *)
SupersessionIsSound ==
  \A c \in txns : IsSuperseding(c) =>
    /\ Target(c) \in txns
    /\ \A d \in txns : IsSuperseding(d) /\ Target(d) = Target(c) => c = d
    /\ IF IsResolution(c) THEN req[Target(c)].body.status = "pending"
                          ELSE ~IsSuperseding(Target(c))

EntriesOn(row) ==
  {e \in UNION {{c} \X DOMAIN entries[c] : c \in txns} :
     LET entry == entries[e[1]][e[2]] IN <<entry.account, entry.stripe>> = row}

PostedSum(row, direction) ==
  SumFunctionOnSet([e \in EntriesOn(row) |-> entries[e[1]][e[2]].amount],
    {e \in EntriesOn(row) : /\ entries[e[1]][e[2]].direction = direction
                            /\ req[e[1]].body.status = "posted"})

(* Every balance row is the sum of the posted entries on its stripe: no    *)
(* interleaving loses an update, no refusal leaves a movement behind, and  *)
(* a pending entry moves nothing.                                          *)
CacheMeansPosted ==
  \A row \in Rows :
    /\ balances[row].input  = PostedSum(row, "debit")
    /\ balances[row].output = PostedSum(row, "credit")

(* On each stripe of each account the committed sequence numbers are       *)
(* 1, 2, ... last_seq, each issued once, whatever was rolled back.         *)
GaplessSequences ==
  \A row \in Rows :
    /\ {entries[e[1]][e[2]].seq : e \in EntriesOn(row)} = 1..balances[row].seq
    /\ Cardinality(EntriesOn(row)) = balances[row].seq

NetOf(c, a) ==
  SideOf(entries[c], a, "debit") - SideOf(entries[c], a, "credit")

(* A reversal of a posted transaction takes each account back to where it  *)
(* was, whichever stripes the two landed on; a void moves nothing; and     *)
(* every transaction's debits are its credits.                             *)
ReversalCancels ==
  \A c \in txns :
    /\ SumFunction([a \in OpenAccounts |-> NetOf(c, a)]) = 0
    /\ IsReversal(c) =>
         IF req[Target(c)].body.status = "posted"
           THEN \A a \in OpenAccounts : NetOf(c, a) = - NetOf(Target(c), a)
           ELSE entries[c] = <<>>

(* The cache, the numbering and the mirrors of the book hold together,     *)
(* whatever ran beside what and whatever was rolled back: each balance row *)
(* is the sum of the posted entries on its stripe, its entries are         *)
(* numbered without gap or repeat, and a reversal takes back what it       *)
(* reverses.                                                               *)
TheBookAddsUp == CacheMeansPosted /\ GaplessSequences /\ ReversalCancels

WaitsFor(c, d) ==
  \/ At(c, "claiming") /\ d \in KeyRivals(c)
  \/ /\ At(c, "inserting") /\ IsSuperseding(c) /\ GateAdmits(c)
     /\ d \in SlotRivals(c)
  \/ /\ At(c, "upserting") /\ AccountsLeft(c) # {}
     /\ d \in RowRivals(c, RowOf(c, NextAccount(c)))

(* No set of calls all wait for one another: PostgreSQL never has a        *)
(* deadlock to resolve, so no caller hears a 500 that a victim would.      *)
NoWaitCycle ==
  \A S \in (SUBSET Calls) \ {{}} : \E c \in S : \A d \in S : ~WaitsFor(c, d)

(* The concurrent write path answers as if each call were one atomic       *)
(* decision against the committed journal.                                 *)
Contract == INSTANCE LedgerContract WITH
  stage   <- [c \in Calls |-> IF pc[c] \in {"idle", "done"} THEN pc[c] ELSE "open"],
  journal <- txns

ImplementsContract == Contract!Spec

(* Every call a dispatcher takes is answered, or fails.                    *)
EveryCallIsAnswered == \A c \in Calls : At(c, "claiming") ~> At(c, "done")
=============================================================================
