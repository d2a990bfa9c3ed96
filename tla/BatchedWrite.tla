---------------------------- MODULE BatchedWrite ----------------------------
(***************************************************************************)
(* A dispatcher's batch, end to end: post_batch over the shared statement  *)
(* CLAIM_AND_APPEND_BATCH, with other dispatchers doing the same.          *)
(*                                                                         *)
(* A batch is what Dispatcher.tla shows to be legal: plain posted postings *)
(* of one tenant, no key twice.  Members the plan refuses drop out; of the *)
(* rest, one takes the single statement and more share the batched one.    *)
(* The two differ in where the account check sits: the batched statement   *)
(* gates ABOVE the claim, since it cannot roll back for one member, and    *)
(* the single one claims first and rolls back.                             *)
(*                                                                         *)
(* A call is a number and its ordinal in a batch is its place among the    *)
(* members' numbers.  What each call asks is chosen at the start, so every *)
(* order of arrival is there.                                              *)
(***************************************************************************)
EXTENDS PostingsLoop

CONSTANTS
  Calls,         \* the posts, each one attempt
  Menu,          \* [key, postings] records
  Dispatchers,
  Affinity,      \* the stripe affinity each dispatcher owns
  OpenAccounts, StripeCount,
  MaxMinor,      \* i64::MAX, small
  PlanLists,     \* what else a client might ask to be planned
  None

ASSUME CallsAssumption == Calls \subseteq Nat /\ IsFiniteSet(Calls)
ASSUME StripesAssumption ==
  /\ OpenAccounts \subseteq Nat /\ IsFiniteSet(OpenAccounts)
  /\ StripeCount \in [OpenAccounts -> Nat \ {0}]
  /\ Affinity \in [Dispatchers -> Nat]
ASSUME MenuAssumption == \A item \in Menu : item.postings \in PostingLists
ASSUME PlanListsAssumption == PlanLists \subseteq PostingLists
ASSUME MaxMinorAssumption == MaxMinor \in Nat
ASSUME NoneAssumption == None \notin Calls

VARIABLES
  req,       \* what each call asks
  pc,        \* where each dispatcher is
  carried,   \* the members its statement carries
  snap,      \* the events the snapshot of statement A shows
  tried,     \* members whose key the claim has been asked for
  claims,    \* members whose event row is inserted and uncommitted
  wrote,     \* the balance rows upserted and uncommitted
  stored,    \* what statement B found for a member
  events, txns, entries, balances,   \* the committed book
  verdict    \* what each call is answered

statementVars == <<carried, snap, tried, claims, wrote, stored>>
bookVars == <<events, txns, entries, balances>>
vars == <<req, pc, statementVars, bookVars, verdict>>

-----------------------------------------------------------------------------
LegsOf(c)    == ExpandPostings(req[c].postings)
SameKey(b, c) == req[b].key = req[c].key

(* The event a key is claimed by, among those given.                       *)
HeldIn(rows, c) == \E e \in rows : SameKey(e, c)

UnknownAccounts(c) == AccountsOf(LegsOf(c)) \ OpenAccounts

(* One member left takes the single statement.                             *)
Shares(d) == Cardinality(carried[d]) > 1

(* Variant: the gate on the downstream inserts, below the claim.           *)
AdmissibleToTheClaimAlways(d) == carried[d]

(* admissible: the members that reach the claim.  The single statement has *)
(* no gate above it.                                                       *)
Admissible(d) ==
  {c \in carried[d] : Shares(d) => UnknownAccounts(c) = {}}

(* Variant: a withheld member that never asks whether its key is held.     *)
NeverHeld(d) == {}

(* key_held_by_an_earlier_write, asked for the members the gate withheld,  *)
(* of the statement's snapshot.                                            *)
HeldByAnEarlierWrite(d) ==
  {c \in carried[d] \ Admissible(d) : HeldIn(snap[d], c)}

Proceeding(d) == carried[d] \cap claims

(* outcome_for_member: the claim is read first, the gate second.           *)
KeyAlreadyClaimed(d) == HeldByAnEarlierWrite(d) \cup (tried[d] \ claims)
Refused(d) == carried[d] \ (Admissible(d) \cup HeldByAnEarlierWrite(d))

(* The legs of the proceeding members, each by its member and position.    *)
Legs(d) == UNION {{c} \X DOMAIN LegsOf(c) : c \in Proceeding(d)}
LegAt(x) == LegsOf(x[1])[x[2]]
LegsTogether(d, a) == {x \in Legs(d) : LegAt(x).account = a}
Accounts(d) == {LegAt(x).account : x \in Legs(d)}

(* delta: re-coalesced across the members.                                 *)
SideTogether(d, a, direction) ==
  SumFunctionOnSet([x \in LegsTogether(d, a) |-> LegAt(x).amount],
                   {x \in LegsTogether(d, a) : LegAt(x).direction = direction})

RowOf(d, a) == <<a, Affinity[d] % StripeCount[a]>>
Rows == UNION {{a} \X (0..(StripeCount[a] - 1)) : a \in OpenAccounts}
NoRow == [input |-> 0, output |-> 0, seq |-> 0]

AccountsLeft(d) ==
  {a \in Accounts(d) \cap OpenAccounts : wrote[d][RowOf(d, a)] = NoRow}

Upserted(d, a) ==
  LET row == balances[RowOf(d, a)] IN
  [input  |-> row.input + SideTogether(d, a, "debit"),
   output |-> row.output + SideTogether(d, a, "credit"),
   seq    |-> row.seq + Cardinality(LegsTogether(d, a))]

(* Variant: a walk-back counted within the member alone.                   *)
SeqOffsetOfMember(d, x) == OffsetBack(LegsOf(x[1]), x[2])

(* numbered: COUNT minus ROW_NUMBER over (member ordinal, leg position).   *)
SeqOffset(d, x) ==
  Cardinality({y \in LegsTogether(d, LegAt(x).account) :
                 x[1] < y[1] \/ (x[1] = y[1] /\ x[2] < y[2])})

EntriesOf(d, c) ==
  [i \in DOMAIN LegsOf(c) |->
     LET a == LegAt(<<c, i>>).account IN
     [leg    |-> LegsOf(c)[i],
      stripe |-> RowOf(d, a)[2],
      seq    |-> wrote[d][RowOf(d, a)].seq - SeqOffset(d, <<c, i>>)]]

KeyRivals(d, c)  == {e \in claims \ carried[d] : SameKey(e, c)}

RowRivals(d, row) == {e \in Dispatchers \ {d} : wrote[e][row] # NoRow}

-----------------------------------------------------------------------------
Init ==
  /\ req \in [Calls -> Menu]
  /\ pc = [d \in Dispatchers |-> "idle"]
  /\ carried = [d \in Dispatchers |-> {}]
  /\ snap = [d \in Dispatchers |-> {}]
  /\ tried = [d \in Dispatchers |-> {}]
  /\ claims = {}
  /\ wrote = [d \in Dispatchers |-> [r \in Rows |-> NoRow]]
  /\ stored = [c \in Calls |-> None]
  /\ events = {} /\ txns = {}
  /\ entries = [c \in Calls |-> <<>>]
  /\ balances = [r \in Rows |-> NoRow]
  /\ verdict = [c \in Calls |-> [kind |-> "none", txn |-> None]]

At(d, place) == pc[d] = place
Goto(d, place) == pc' = [pc EXCEPT ![d] = place]

Say(kind, t) == [kind |-> kind, txn |-> t]

Waiting == {c \in Calls : /\ verdict[c].kind = "none"
                          /\ \A d \in Dispatchers : c \notin carried[d]}

(* The database transaction is over: its uncommitted rows are gone.        *)
EndTransaction(d) ==
  /\ claims' = claims \ carried[d]
  /\ carried' = [carried EXCEPT ![d] = {}]
  /\ snap' = [snap EXCEPT ![d] = {}]
  /\ tried' = [tried EXCEPT ![d] = {}]
  /\ wrote' = [wrote EXCEPT ![d] = [r \in Rows |-> NoRow]]
  /\ stored' = [c \in Calls |-> IF c \in carried[d] THEN None ELSE stored[c]]
  /\ Goto(d, "idle")

FailTogether(d) ==
  /\ EndTransaction(d)
  /\ verdict' = [c \in Calls |-> IF c \in carried[d] THEN Say("failed", None) ELSE verdict[c]]

PlanFits(item) == ~Overflows(ExpandPostings(item.postings), MaxMinor)

(* Variant: a plan that refuses the batch for one member's sake.           *)
PlannedTogether(B) == {c \in B : \A b \in B : PlanFits(req[b])}

(* plan_for: a member whose plan is refused never reaches the statement.   *)
Planned(B) == {c \in B : PlanFits(req[c])}

(* plan_for every command of the batch, then begin and send statement A,   *)
(* whose snapshot is taken here.                                           *)
Take(d) ==
  /\ At(d, "idle")
  /\ \E B \in (SUBSET Waiting) \ {{}} :
       LET planned == Planned(B) IN
       /\ \A b, c \in B : SameKey(b, c) => b = c
       /\ verdict' = [c \in Calls |-> IF c \in B \ planned THEN Say("Overflow", None)
                                                            ELSE verdict[c]]
       /\ carried' = [carried EXCEPT ![d] = planned]
       /\ IF planned = {} THEN UNCHANGED <<pc, snap>>
                          ELSE Goto(d, "claiming") /\ snap' = [snap EXCEPT ![d] = events]
  /\ UNCHANGED <<req, tried, claims, wrote, stored, bookVars>>

KeyCommitted(d, c) == HeldIn(events, c)

(* claimed: one INSERT ... SELECT ... ON CONFLICT DO NOTHING for every     *)
(* admissible member.  It states no order, so the plan decides which key   *)
(* comes next; each waits for an uncommitted rival.                        *)
ClaimNext(d) ==
  /\ At(d, "claiming")
  /\ \E c \in Admissible(d) \ tried[d] :
       /\ KeyRivals(d, c) = {}
       /\ tried' = [tried EXCEPT ![d] = @ \cup {c}]
       /\ claims' = IF KeyCommitted(d, c) THEN claims ELSE claims \cup {c}
  /\ UNCHANGED <<req, pc, carried, snap, wrote, stored, bookVars, verdict>>

Claimed(d) ==
  /\ At(d, "claiming") /\ Admissible(d) \subseteq tried[d]
  /\ Goto(d, "upserting")
  /\ UNCHANGED <<req, statementVars, bookVars, verdict>>

(* Variant: a total nobody checks.                                         *)
FitsAnyRow(row) == TRUE

(* balance: one row per account, in account order, at bigint.              *)
FitsTheRow(row) == row.input <= MaxMinor /\ row.output <= MaxMinor

NextRow(d) == RowOf(d, Min(AccountsLeft(d)))

Upsert(d) ==
  /\ At(d, "upserting") /\ AccountsLeft(d) # {}
  /\ RowRivals(d, NextRow(d)) = {}
  /\ LET row == Upserted(d, Min(AccountsLeft(d))) IN
       /\ FitsTheRow(row)
       /\ wrote' = [wrote EXCEPT ![d][NextRow(d)] = row]
  /\ UNCHANGED <<req, pc, carried, snap, tried, claims, stored, bookVars, verdict>>

(* 22003: the sum of members that fit one by one, or the row's total.      *)
OverflowTheRow(d) ==
  /\ At(d, "upserting") /\ AccountsLeft(d) # {}
  /\ RowRivals(d, NextRow(d)) = {}
  /\ ~FitsTheRow(Upserted(d, Min(AccountsLeft(d))))
  /\ FailTogether(d)
  /\ UNCHANGED <<req, bookVars>>

Appended(d) ==
  At(d, "upserting") /\ AccountsLeft(d) = {}

(* commit_or_refuse_unknown_account, of the single statement.              *)
RefuseAlone(d) ==
  /\ Appended(d)
  /\ \E c \in Proceeding(d) : UnknownAccounts(c) # {} /\ ~Shares(d)
  /\ EndTransaction(d)
  /\ verdict' = [c \in Calls |-> IF c \in carried[d] THEN Say("AccountUnknown", None)
                                                      ELSE verdict[c]]
  /\ UNCHANGED <<req, bookVars>>

(* Variant: a lookup that forgets the hash.                                *)
StoredResultsOfAnyBody(c) == {e \in events : SameKey(e, c)}

(* STORED_RESULT_BATCH: the hash is in the join.                           *)
StoredResults(c) == {e \in events : SameKey(e, c) /\ req[e] = req[c]}

(* replayed_results_for: statement B, once, for the members that replay.   *)
Lookup(d) ==
  /\ Appended(d) /\ KeyAlreadyClaimed(d) # {}
  /\ \E found \in [KeyAlreadyClaimed(d) -> Calls \cup {None}] :
       /\ \A c \in KeyAlreadyClaimed(d) :
            IF StoredResults(c) = {} THEN found[c] = None ELSE found[c] \in StoredResults(c)
       /\ stored' = [c \in Calls |-> IF c \in KeyAlreadyClaimed(d) THEN found[c] ELSE stored[c]]
  /\ Goto(d, "committing")
  /\ UNCHANGED <<req, carried, snap, tried, claims, wrote, bookVars, verdict>>

NothingToLookUp(d) ==
  /\ Appended(d) /\ KeyAlreadyClaimed(d) = {}
  /\ \A c \in Proceeding(d) : UnknownAccounts(c) # {} => Shares(d)
  /\ Goto(d, "committing")
  /\ UNCHANGED <<req, statementVars, bookVars, verdict>>

(* txn: one transaction per proceeding member, whose accounts exist.       *)
Transactions(d) == {c \in Proceeding(d) : UnknownAccounts(c) = {}}

(* COMMIT, as far as the database goes.                                    *)
CommitTheBook(d) ==
  /\ At(d, "committing")
  /\ events' = events \cup Proceeding(d)
  /\ txns' = txns \cup Transactions(d)
  /\ entries' = [c \in Calls |-> IF c \in Transactions(d) THEN EntriesOf(d, c) ELSE entries[c]]
  /\ balances' = [r \in Rows |-> IF wrote[d][r] = NoRow THEN balances[r] ELSE wrote[d][r]]
  /\ UNCHANGED req

(* Variant: a batch that answers only the members it wrote.                *)
AnswerOfWriters(d, c) ==
  IF c \in KeyAlreadyClaimed(d) THEN verdict[c]
  ELSE IF c \in Refused(d) THEN Say("AccountUnknown", None)
  ELSE Say("posted", c)

(* answers_for_members, replay_or_refuse.                                  *)
AnswerOf(d, c) ==
  IF c \in KeyAlreadyClaimed(d)
    THEN IF stored[c] = None
           THEN Say("KeyReused", None)
           ELSE Say("replayed", IF stored[c] \in txns THEN stored[c] ELSE None)
  ELSE IF c \in Refused(d) THEN Say("AccountUnknown", None)
  ELSE Say("posted", c)

Commit(d) ==
  /\ CommitTheBook(d)
  /\ verdict' = [c \in Calls |-> IF c \in carried[d] THEN AnswerOf(d, c) ELSE verdict[c]]
  /\ EndTransaction(d)

(* The commit lands and its acknowledgement does not.                      *)
CommitUnacknowledged(d) ==
  /\ CommitTheBook(d)
  /\ FailTogether(d)

(* Any storage error: every member hears its own copy of it.               *)
Fail(d) ==
  /\ carried[d] # {}
  /\ FailTogether(d)
  /\ UNCHANGED <<req, bookVars>>

-----------------------------------------------------------------------------
(* Waiting for a rival's uncommitted row *)

Holder(c) == CHOOSE d \in Dispatchers : c \in carried[d]

(* d can make no claim but behind e, or waits for e's balance row.         *)
Blocked(d) ==
  \/ /\ At(d, "claiming") /\ Admissible(d) \ tried[d] # {}
     /\ \A c \in Admissible(d) \ tried[d] : KeyRivals(d, c) # {}
  \/ /\ At(d, "upserting") /\ AccountsLeft(d) # {}
     /\ RowRivals(d, NextRow(d)) # {}

Blockers(d) ==
  IF At(d, "claiming")
    THEN {Holder(e) : e \in UNION {KeyRivals(d, c) : c \in Admissible(d) \ tried[d]}}
    ELSE RowRivals(d, NextRow(d))

WaitCycle(S) == \A d \in S : Blocked(d) /\ Blockers(d) \cap S # {}

(* PostgreSQL finds the cycle and raises 40P01 in one of them.             *)
BreakTheCycle(d) ==
  /\ \E S \in SUBSET Dispatchers : d \in S /\ WaitCycle(S)
  /\ FailTogether(d)
  /\ UNCHANGED <<req, bookVars>>

-----------------------------------------------------------------------------
Step(d) ==
  \/ ClaimNext(d) \/ Claimed(d) \/ Upsert(d) \/ OverflowTheRow(d)
  \/ RefuseAlone(d) \/ Lookup(d) \/ NothingToLookUp(d)
  \/ Commit(d) \/ BreakTheCycle(d)

AllDone == (\A c \in Calls : verdict[c].kind # "none") /\ UNCHANGED vars

Next ==
  \/ \E d \in Dispatchers : Take(d) \/ Step(d) \/ CommitUnacknowledged(d) \/ Fail(d)
  \/ AllDone

Spec == Init /\ [][Next]_vars

(* While some dispatcher can drive the batch it took, one does, and        *)
(* PostgreSQL grants a lock whose holder is gone and resolves a deadlock.  *)
FairSpec == Spec /\ WF_vars(\E d \in Dispatchers : Step(d))

-----------------------------------------------------------------------------
(* Properties *)

IsRow(row) == DOMAIN row = DOMAIN NoRow /\ \A f \in DOMAIN row : row[f] \in Nat
Verdicts == [kind : {"none", "posted", "replayed", "KeyReused", "AccountUnknown",
                     "Overflow", "failed"},
             txn  : Calls \cup {None}]

(* Every variable has its type, and no committed counter leaves the width. *)
TypeOK ==
  /\ req \in [Calls -> Menu]
  /\ pc \in [Dispatchers -> {"idle", "claiming", "upserting", "committing"}]
  /\ carried \in [Dispatchers -> SUBSET Calls]
  /\ snap \in [Dispatchers -> SUBSET Calls]
  /\ tried \in [Dispatchers -> SUBSET Calls]
  /\ claims \subseteq Calls
  /\ stored \in [Calls -> Calls \cup {None}]
  /\ events \subseteq Calls /\ txns \subseteq Calls
  /\ DOMAIN wrote = Dispatchers
  /\ \A d \in Dispatchers : \A r \in Rows : IsRow(wrote[d][r])
  /\ \A r \in Rows :
       IsRow(balances[r]) /\ balances[r].input <= MaxMinor /\ balances[r].output <= MaxMinor
  /\ DOMAIN entries = Calls
  /\ verdict \in [Calls -> Verdicts]

(* Whatever the calls ask, and whatever else a client might, the passes of *)
(* plan_append plan it as the declarative operators say, posted or         *)
(* pending, at every width: a sum that does not fit is refused wherever in *)
(* the list it stops fitting, and one that just fits is not.  Requests     *)
(* never change, so they are planned here once, while every call waits.    *)
PlansAreExact ==
  Waiting = Calls =>
    \A postings \in PlanLists \cup {req[c].postings : c \in Calls} :
      \A status \in {"posted", "pending"}, max \in 0..MaxMinor :
        PlanIsExact(postings, status, max)

(* Batches of any members, racing the same keys, commit one transaction    *)
(* per key and no event without its transaction: a refused member's key    *)
(* is not burned by the commit of its neighbours.                          *)
OneTransactionPerKey == \A b, c \in events : SameKey(b, c) => b = c
NoOrphanedEvent == events = txns
KeysPostOnce == OneTransactionPerKey /\ NoOrphanedEvent

EntriesOn(row) ==
  {x \in UNION {{c} \X DOMAIN entries[c] : c \in txns} :
     <<entries[x[1]][x[2]].leg.account, entries[x[1]][x[2]].stripe>> = row}

(* Members numbered together, and with other batches, leave each stripe's  *)
(* sequence 1, 2, ... last_seq, each number once.                          *)
GaplessSequences ==
  \A row \in Rows :
    /\ {entries[x[1]][x[2]].seq : x \in EntriesOn(row)} = 1..balances[row].seq
    /\ Cardinality(EntriesOn(row)) = balances[row].seq

PostedSum(row, direction) ==
  SumFunctionOnSet([x \in EntriesOn(row) |-> entries[x[1]][x[2]].leg.amount],
    {x \in EntriesOn(row) : entries[x[1]][x[2]].leg.direction = direction})

(* A row coalesced across members is still the sum of the entries on it.   *)
CacheMeansPosted ==
  \A row \in Rows :
    /\ balances[row].input  = PostedSum(row, "debit")
    /\ balances[row].output = PostedSum(row, "credit")

(* Both, whatever batches ran beside one another and whichever failed.     *)
TheBookAddsUp == GaplessSequences /\ CacheMeansPosted

(* Each member's own answer is true of the book, whatever became of its    *)
(* neighbours: a post is committed, a replay names the committed post of   *)
(* the same request, a reuse that of another, a refusal left nothing, and  *)
(* an account is refused only by the member that named it.                 *)
AnswersAreTrue ==
  \A c \in Calls :
    LET v == verdict[c] IN
    /\ v.kind = "posted"   => c \in txns /\ v.txn = c
    /\ v.kind = "replayed" => v.txn \in txns \ {c} /\ req[v.txn] = req[c]
    /\ v.kind = "KeyReused" => \E e \in txns : SameKey(e, c) /\ req[e] # req[c]
    /\ v.kind \in {"KeyReused", "replayed", "AccountUnknown", "Overflow"} => c \notin events
    /\ v.kind = "AccountUnknown" => UnknownAccounts(c) # {}

(* A key an earlier write holds is heard before an account that does not   *)
(* exist, on either statement: no member is refused its account under a    *)
(* key committed before its statement began.                               *)
KeyBeforeAccount ==
  [][\A d \in Dispatchers : \A c \in carried[d] :
       verdict'[c].kind = "AccountUnknown" => ~HeldIn(snap[d], c)]_vars

(* Whatever races, fails or loses its acknowledgement, a batch is settled  *)
(* as if in one step against the committed journal: its members post, or   *)
(* fail, together, and apart from that each is answered on its own.        *)
Contract == INSTANCE BatchContract WITH
  journal   <- txns,
  Plannable <- {item \in Menu : PlanFits(item)}

ImplementsContract == Contract!Spec

(* Every member of a batch a dispatcher took is answered.                  *)
EveryMemberIsAnswered ==
  \A c \in Calls :
    (\E d \in Dispatchers : c \in carried[d]) ~> verdict[c].kind # "none"

(* A caller racing a key waits for its rival and replays, and no batch is  *)
(* aborted for it: ADR-0018 section 3 counts the failures that abort a     *)
(* batch, and a wait among claims is not one of them.                      *)
NoWaitCycle == \A S \in (SUBSET Dispatchers) \ {{}} : ~WaitCycle(S)
=============================================================================
