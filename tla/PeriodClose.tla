----------------------------- MODULE PeriodClose -----------------------------
(***************************************************************************)
(* Closing a period while others write: close_period over its statements   *)
(* PERIOD_CLOSE_CONTEXT, CLAIM_AND_CLOSE_PERIOD, CHECKPOINT_THE_CLOSE and  *)
(* STORED_CLOSE, beside posts and other closes, with transaction ids.      *)
(*                                                                         *)
(* A session is one database transaction.  Its writing statement takes a   *)
(* snapshot, and an id with its first row, once no rival holds its key:    *)
(* ids follow the claims, and snapshots and commits come in any order      *)
(* beside them.                                                            *)
(*                                                                         *)
(* The book is the committed sessions: what each moved is fixed before it  *)
(* commits.  Amounts are gross, an input and an output for each account.   *)
(* What the locked balance rows add up to, how entries are numbered and a  *)
(* commit whose answer is lost are WritePath's subject.                    *)
(***************************************************************************)
EXTENDS Integers, FiniteSets, FiniteSetsExt

CONSTANTS
  Posts, Closes,       \* the sessions
  Charges,             \* what posts ask
  Asked,               \* what closes ask: [period, currency] records
  Periods,             \* the periods defined
  EndsAt,              \* where each ends, exclusive
  Accounts, Currency,  \* the accounts open, and the currency of each
  Temporary,           \* those of category revenue or expense
  Earnings,            \* the retained_earnings account of each currency
  StripeCount,         \* of each account
  Affinity,            \* of each session
  None

Sessions == Posts \cup Closes

ASSUME SessionsAssumption ==
  IsFiniteSet(Sessions) /\ Posts \cap Closes = {} /\ None \notin Sessions

ASSUME AccountsAssumption ==
  /\ Accounts \subseteq Nat /\ IsFiniteSet(Accounts) /\ Temporary \subseteq Accounts
  /\ \A u \in DOMAIN Earnings : Earnings[u] \in Accounts \cup {None}
  /\ StripeCount \in [Accounts -> Nat \ {0}] /\ Affinity \in [Sessions -> Nat]

(* A charge moves an amount from one account to another; its key is its    *)
(* own, or the string a close derives.                                     *)
ASSUME ChargesAssumption ==
  \A x \in Charges :
    /\ x.debit \in Accounts /\ x.credit \in Accounts \ {x.debit}
    /\ Currency[x.debit] = Currency[x.credit]
    /\ x.amount \in Nat \ {0} /\ x.effective \in Int /\ x.key \in Asked \cup {None}

(* A post's body and a close's are never the same.                         *)
ASSUME AskedAssumption == Charges \cap Asked = {}

(* A close asks for a period and a currency, whether or not the book has   *)
(* earnings in it.                                                         *)
ASSUME CurrenciesAssumption ==
  \A q \in Asked : /\ q = [period |-> q.period, currency |-> q.currency]
                   /\ q.currency \in DOMAIN Earnings

(* ex_periods__no_overlap: no two periods end together.                    *)
ASSUME PeriodsAssumption ==
  \A p, q \in Periods : EndsAt[p] \in Int /\ (EndsAt[p] = EndsAt[q] => p = q)

VARIABLES
  pc,         \* where each session is
  ask,        \* what it was asked
  xid,        \* its transaction id; 0 before it has one
  nextXid,    \* the next id
  snap,       \* the sessions its writing statement's snapshot shows
  claims,     \* sessions whose event row is inserted and uncommitted
  moved,      \* the legs of each session, coalesced: account -> gross
  held,       \* the balance rows each session has locked
  stored,     \* the checkpoint each close has written: account -> gross
  committed,  \* the sessions that committed
  answer

idVars   == <<xid, nextXid, snap>>
workVars == <<claims, moved, held, stored>>
vars == <<pc, ask, idVars, workVars, committed, answer>>

-----------------------------------------------------------------------------
(* Reading the book *)

Nothing == [a \in {} |-> 0]
Gross(in, out) == [input |-> in, output |-> out]

(* idempotency_key: a close derives its key, a post names its own.         *)
Key(s) ==
  IF s \in Closes THEN ask[s] ELSE IF ask[s].key = None THEN s ELSE ask[s].key

(* A close is dated the last instant inside the period.                    *)
EffectiveAt(s) == IF s \in Closes THEN EndsAt[ask[s].period] - 1 ELSE ask[s].effective

MovedOn(s, a) == IF a \in DOMAIN moved[s] THEN moved[s][a] ELSE Gross(0, 0)

(* The position of an account in the entries of some sessions.             *)
Position(a, S) ==
  Gross(SumFunction([s \in S |-> MovedOn(s, a).input]),
        SumFunction([s \in S |-> MovedOn(s, a).output]))

DebitPositive(gross) == gross.input - gross.output

Touched(S) == UNION {DOMAIN moved[s] : s \in S}

AccountsIn(u) == {a \in Accounts : Currency[a] = u}

-----------------------------------------------------------------------------
(* What the close's statements derive *)

(* The entries the sweep reads: of its snapshot, below its own id.         *)
Swept(c, cursor) ==
  {s \in snap[c] : EffectiveAt(s) < EndsAt[ask[c].period] /\ xid[s] < cursor}

Left(a, c, cursor) == DebitPositive(Position(a, Swept(c, cursor)))

(* The accounts position groups by.                                        *)
EveryTemporary(c, cursor) ==
  (Temporary \cap AccountsIn(ask[c].currency)) \ {Earnings[ask[c].currency]}

(* position: the temporary accounts with something to sweep.               *)
Sweepable(c, cursor) == {a \in EveryTemporary(c, cursor) : Left(a, c, cursor) # 0}

(* leg, delta: each position moves out on the other side, and by a leg of  *)
(* its own into the earnings account.                                      *)
SweepLegs(c, cursor) ==
  LET out == Sweepable(c, cursor)
      home == Earnings[ask[c].currency]
      debits == {a \in out : Left(a, c, cursor) > 0}
      amount == [a \in out |-> IF a \in debits THEN Left(a, c, cursor)
                                               ELSE -Left(a, c, cursor)]
  IN [a \in IF out = {} THEN {} ELSE out \cup {home} |->
        IF a = home
          THEN Gross(SumFunctionOnSet(amount, debits), SumFunctionOnSet(amount, out \ debits))
        ELSE IF a \in debits THEN Gross(0, amount[a]) ELSE Gross(amount[a], 0)]

(* Variant: a checkpoint bounded by the cursor alone.                      *)
AdmittedBelowTheCursor(c, S) ==
  {s \in S \cup {c} : EffectiveAt(s) < EndsAt[ask[c].period] /\ xid[s] < xid[c]}

(* CHECKPOINT_THE_CLOSE: below the cursor, or of the close itself.         *)
Admitted(c, S) ==
  {s \in S \cup {c} : EffectiveAt(s) < EndsAt[ask[c].period] /\ (xid[s] < xid[c] \/ s = c)}

CheckpointOf(c, S) ==
  [a \in Touched(Admitted(c, S)) \cap AccountsIn(ask[c].currency) |->
     Position(a, Admitted(c, S))]

ChargeLegs(x) ==
  [a \in {x.debit, x.credit} |-> IF a = x.debit THEN Gross(x.amount, 0) ELSE Gross(0, x.amount)]

RowOf(s, a) == <<a, Affinity[s] % StripeCount[a]>>
RowsLeft(s) == {a \in DOMAIN moved[s] : RowOf(s, a) \notin held[s]}

KeyRivals(s) == {r \in claims \ {s} : Key(r) = Key(s)}

(* Variant: a claim that trusts its snapshot.                              *)
KeyHoldersInSnapshot(s) == {r \in snap[s] : Key(r) = Key(s)}

KeyHolders(s) == {r \in committed : Key(r) = Key(s)}

-----------------------------------------------------------------------------
Init ==
  /\ pc = [s \in Sessions |-> "idle"]
  /\ ask = [s \in Sessions |-> None]
  /\ xid = [s \in Sessions |-> 0] /\ nextXid = 1
  /\ snap = [s \in Sessions |-> {}]
  /\ claims = {}
  /\ moved = [s \in Sessions |-> Nothing]
  /\ held = [s \in Sessions |-> {}]
  /\ stored = [s \in Sessions |-> Nothing]
  /\ committed = {}
  /\ answer = [s \in Sessions |-> "none"]

At(s, place)   == pc[s] = place
Goto(s, place) == pc' = [pc EXCEPT ![s] = place]
Answer(s, kind) == answer' = [answer EXCEPT ![s] = kind]

(* What a rollback undoes; a commit keeps what was written.                *)
Rollback(s) ==
  /\ claims' = claims \ {s}
  /\ moved' = [moved EXCEPT ![s] = Nothing]
  /\ stored' = [stored EXCEPT ![s] = Nothing]
  /\ held' = [held EXCEPT ![s] = {}]
  /\ Goto(s, "done")
  /\ UNCHANGED committed

SendStatement(s) ==
  /\ snap' = [snap EXCEPT ![s] = committed]
  /\ Goto(s, "claiming")

(* A post, up to its writing statement.                                    *)
BeginPost(s) ==
  /\ s \in Posts /\ At(s, "idle")
  /\ \E x \in Charges : ask' = [ask EXCEPT ![s] = x]
  /\ SendStatement(s)
  /\ UNCHANGED <<xid, nextXid, workVars, committed, answer>>

(* A close, through PERIOD_CLOSE_CONTEXT: the period's bounds and the      *)
(* earnings account never change, so the read and what follows are a step. *)
BeginClose(c) ==
  /\ c \in Closes /\ At(c, "idle")
  /\ \E q \in Asked :
       /\ q.period \in Periods /\ Earnings[q.currency] # None
       /\ ask' = [ask EXCEPT ![c] = q]
  /\ SendStatement(c)
  /\ UNCHANGED <<xid, nextXid, workVars, committed, answer>>

(* Both reads that can refuse run before the claim.                        *)
RefuseContext(c) ==
  /\ c \in Closes /\ At(c, "idle")
  /\ \E q \in Asked :
       /\ q.period \notin Periods \/ Earnings[q.currency] = None
       /\ ask' = [ask EXCEPT ![c] = q]
       /\ Answer(c, IF q.period \notin Periods THEN "PeriodUnknown"
                                               ELSE "RetainedEarningsUnknown")
  /\ Goto(c, "done")
  /\ UNCHANGED <<idVars, workVars, committed>>

(* claimed, position and leg: the sweep reads the statement's snapshot     *)
(* however long the claim waited.                                          *)
Claim(s) ==
  /\ At(s, "claiming")
  /\ KeyRivals(s) = {} /\ KeyHolders(s) = {}
  /\ claims' = claims \cup {s}
  /\ xid' = [xid EXCEPT ![s] = nextXid]
  /\ nextXid' = nextXid + 1
  /\ moved' = [moved EXCEPT ![s] = IF s \in Closes THEN SweepLegs(s, nextXid)
                                                   ELSE ChargeLegs(ask[s])]
  /\ Goto(s, "locking")
  /\ UNCHANGED <<ask, snap, held, stored, committed, answer>>

(* Variant: a lookup that forgets the hash.                                *)
StoredForAnyBody(s) == KeyHolders(s)

(* STORED_CLOSE, and its like for posts: the hash is in the WHERE.         *)
StoredForThisBody(s) ==
  {r \in KeyHolders(s) : (r \in Closes <=> s \in Closes) /\ ask[r] = ask[s]}

(* refuse_the_repeated_close: the key is held, and by whose body decides.  *)
RefuseHeldKey(s) ==
  /\ At(s, "claiming")
  /\ KeyRivals(s) = {} /\ KeyHolders(s) # {}
  /\ Answer(s, IF StoredForThisBody(s) = {} THEN "KeyReused"
               ELSE IF s \in Closes THEN "PeriodAlreadyClosed" ELSE "replayed")
  /\ Rollback(s)
  /\ UNCHANGED <<ask, idVars>>

(* Variant: rows locked from the last account to the first.                *)
LastRow(s) == IF s \in Closes THEN Max(RowsLeft(s)) ELSE Min(RowsLeft(s))

(* balance: one row per account, in account order.                         *)
NextRow(s) == Min(RowsLeft(s))

LockRow(s) ==
  /\ At(s, "locking") /\ RowsLeft(s) # {}
  /\ LET row == RowOf(s, NextRow(s)) IN
       /\ \A r \in Sessions \ {s} : row \notin held[r]
       /\ held' = [held EXCEPT ![s] = @ \cup {row}]
  /\ UNCHANGED <<pc, ask, idVars, claims, moved, stored, committed, answer>>

(* checkpoint_the_close, a statement of its own: its snapshot is of now.   *)
Checkpoint(c) ==
  /\ c \in Closes /\ At(c, "locking") /\ RowsLeft(c) = {}
  /\ stored' = [stored EXCEPT ![c] = CheckpointOf(c, committed)]
  /\ Goto(c, "committing")
  /\ UNCHANGED <<ask, idVars, claims, moved, held, committed, answer>>

Commit(s) ==
  /\ At(s, "committing") \/ (s \in Posts /\ At(s, "locking") /\ RowsLeft(s) = {})
  /\ committed' = committed \cup {s}
  /\ claims' = claims \ {s}
  /\ held' = [held EXCEPT ![s] = {}]
  /\ Answer(s, "written")
  /\ Goto(s, "done")
  /\ UNCHANGED <<ask, idVars, moved, stored>>

Running == {"claiming", "locking", "committing"}

(* The connection, the server or the process fails.                        *)
Fail(s) ==
  /\ pc[s] \in Running
  /\ Answer(s, "failed")
  /\ Rollback(s)
  /\ UNCHANGED <<ask, idVars>>

-----------------------------------------------------------------------------
Step(s) == Claim(s) \/ RefuseHeldKey(s) \/ LockRow(s) \/ Checkpoint(s) \/ Commit(s)

AllDone == (\A s \in Sessions : At(s, "done")) /\ UNCHANGED vars

Next ==
  \/ \E s \in Sessions : BeginPost(s) \/ BeginClose(s) \/ RefuseContext(s) \/ Step(s) \/ Fail(s)
  \/ AllDone

Spec == Init /\ [][Next]_vars

(* While some session that has sent its statement can go on, one does.     *)
FairSpec == Spec /\ WF_vars(\E s \in Sessions : Step(s))

-----------------------------------------------------------------------------
(* Properties *)

Answers == {"none", "written", "failed", "PeriodUnknown", "RetainedEarningsUnknown",
            "PeriodAlreadyClosed", "KeyReused", "replayed"}

(* Every variable has its type, ids are unique and below the next, and no  *)
(* leg is written for an account with nothing to move.                     *)
TypeOK ==
  /\ pc \in [Sessions -> {"idle", "done"} \cup Running]
  /\ \A s \in Sessions : ~At(s, "idle") => ask[s] \in IF s \in Closes THEN Asked ELSE Charges
  /\ xid \in [Sessions -> Nat] /\ nextXid \in Nat
  /\ \A s \in Sessions : xid[s] < nextXid /\ (\A r \in Sessions : xid[s] = xid[r] => s = r \/ xid[s] = 0)
  /\ snap \in [Sessions -> SUBSET Sessions]
  /\ claims \subseteq Sessions /\ committed \subseteq Sessions
  /\ \A s \in Sessions :
       /\ DOMAIN moved[s] \cup DOMAIN stored[s] \subseteq Accounts
       /\ moved[s] \in [DOMAIN moved[s] -> [input : Nat, output : Nat]]
       /\ stored[s] \in [DOMAIN stored[s] -> [input : Nat, output : Nat]]
       /\ \A a \in DOMAIN moved[s] : moved[s][a] # Gross(0, 0)
       /\ held[s] \subseteq {RowOf(s, a) : a \in Accounts}
  /\ answer \in [Sessions -> Answers]

(* A period and currency are closed once, however many attempts race, and  *)
(* nobody else's transaction stands under the key of a close.              *)
OneClosePerPeriod ==
  \A r, s \in committed : Key(r) = Key(s) => r = s

(* What a close is told is so: already closed by a committed close of the  *)
(* same period and currency, or its key stands under another request; and  *)
(* whoever was not written left nothing.                                   *)
RefusalsAreTrue ==
  \A s \in Sessions :
    /\ answer[s] = "PeriodAlreadyClosed" => \E r \in committed \cap Closes : ask[r] = ask[s]
    /\ answer[s] = "KeyReused" => \E r \in committed : Key(r) = Key(s) /\ ask[r] # ask[s]
    /\ At(s, "done") => (answer[s] = "written" <=> s \in committed)
    /\ At(s, "done") /\ s \notin committed => moved[s] = Nothing /\ stored[s] = Nothing

(* Every post and close that sent its statement is answered: waiting for a *)
(* key or for balance rows, which a close takes in the order posts do,     *)
(* never goes in a circle.                                                 *)
EverySessionEnds == \A s \in Sessions : At(s, "claiming") ~> At(s, "done")
=============================================================================
