------------------------------ MODULE Registers ------------------------------
(***************************************************************************)
(* The two registers a book stands on: accounts (open_account) and periods *)
(* (define_period).  Any number of concurrent calls run against one        *)
(* PostgreSQL database at READ COMMITTED; each runs one transaction that   *)
(* claims the caller's idempotency key and inserts one register row in one *)
(* statement, then commits, or rolls back and refuses, or looks up what    *)
(* the key stored and rolls back.                                          *)
(*                                                                         *)
(* Nothing is asked first that only a constraint can answer: a second      *)
(* account under one natural key, a second period under one code and an    *)
(* overlap are found by the index, which makes the insert wait for an      *)
(* uncommitted rival and raises once the rival commits.  A unique index    *)
(* waits before its entry is made.  An exclusion constraint makes the      *)
(* entry and then looks for conflicts, so two rivals can each wait for the *)
(* other, and PostgreSQL cancels one of them.                              *)
(*                                                                         *)
(* Events and register rows are named by the call that wrote them; a retry *)
(* is another call with the same request.                                  *)
(***************************************************************************)
EXTENDS Integers, FiniteSets

CONSTANTS
  Calls,         \* the requests that reach the writer, each one attempt
  Menu,          \* what each client may ask
  Purposes,      \* the purposes a chart may name
  Scopes,        \* counterparty_scope, which stands for the chart triple
  Charts,        \* the charts an operator may install
  KnownZones,    \* the zone names the server's tzdata recognises
  Currencies,    \* three uppercase letters
  IllegalTexts,  \* blank, over 512 bytes, or holding a NUL byte
  Instants,      \* the instants between year 1 and 9999 UTC
  MaxChartEdits, \* bound: how often an operator changes the chart
  None           \* absent

OwnerTypes == {"company", "platform", "bank_account", "house"}

IsOpening(r) == r.op = "open"

(* An instant of a period definition is a point in time and the offset the *)
(* client rendered it with.                                                *)
OpeningFields ==
  {"op", "tenant", "key", "purpose", "owner_type", "owner_id", "currency",
   "stripe_count", "metadata"}
DefinitionFields == {"op", "tenant", "key", "code", "starts_at", "ends_at", "tz"}

Requests == UNION {Menu[c] : c \in Calls}

ASSUME MenuAssumption ==
  \A r \in Requests :
    \/ /\ IsOpening(r) /\ DOMAIN r = OpeningFields
       /\ r.owner_type \in OwnerTypes /\ r.purpose \in Purposes \cup IllegalTexts
       /\ r.stripe_count = None \/ r.stripe_count \in Int
    \/ /\ r.op = "define" /\ DOMAIN r = DefinitionFields
       /\ r.starts_at.at \in Int /\ r.ends_at.at \in Int

ASSUME ChartsAssumption == Charts \subseteq [Purposes -> Scopes \cup {None}]

ASSUME NamesAssumption == None \notin Calls /\ None \notin Scopes /\ None \notin Requests

VARIABLES
  pc,       \* where each call is
  req,      \* the request of each call
  triple,   \* the chart triple an opening read
  claims,   \* calls whose event row is inserted and uncommitted
  entered,  \* calls whose register row is inserted and uncommitted
  events,   \* committed ledger_events, by the call that claimed the key
  rows,     \* committed ledger_accounts and ledger_periods
  chart,    \* account_types: what each purpose is, None when absent
  edits,    \* how often the chart changed
  verdict   \* what each call is answered

vars == <<pc, req, triple, claims, entered, events, rows, chart, edits, verdict>>

-----------------------------------------------------------------------------
(* Commands *)

(* OpenAccount::new. *)
MayOpen(r) ==
  /\ {r.tenant, r.key, r.purpose} \cap IllegalTexts = {}
  /\ r.owner_id = None \/ r.owner_id \notin IllegalTexts
  /\ r.currency \in Currencies
  /\ r.stripe_count = None \/ r.stripe_count \in 1..1024
  /\ r.metadata # "scalar"

(* DefinePeriod::new. *)
MayDefine(r) ==
  /\ {r.tenant, r.key, r.code, r.tz} \cap IllegalTexts = {}
  /\ r.starts_at.at < r.ends_at.at
  /\ {r.starts_at.at, r.ends_at.at} \subseteq Instants

WellFormed(r) == IF IsOpening(r) THEN MayOpen(r) ELSE MayDefine(r)

(* What the idempotency hash covers.  A version tag keeps the operations'  *)
(* hashes apart in the key space they share; an opening's absences are     *)
(* hashed as absences; a definition's instants are normalised to UTC.      *)
CanonicalOpening(r) ==
  <<"openledger.account.v1", r.tenant, r.purpose, r.owner_type, r.owner_id,
    r.currency, r.stripe_count, r.metadata>>

CanonicalDefinition(r) ==
  <<"openledger.period.v1", r.tenant, r.code, r.starts_at.at, r.ends_at.at, r.tz>>

SameBody(r, s) ==
  /\ r.op = s.op
  /\ IF IsOpening(r) THEN CanonicalOpening(r) = CanonicalOpening(s)
                     ELSE CanonicalDefinition(r) = CanonicalDefinition(s)

(* uq_events__idempotency *)
SameKey(c, d) == req[c].tenant = req[d].tenant /\ req[c].key = req[d].key

(* uq_accounts__owned and uq_accounts__house; a house account's owner is   *)
(* absent.  pk_periods.                                                    *)
SameAccount(r, s) ==
  /\ r.tenant = s.tenant /\ r.owner_type = s.owner_type /\ r.owner_id = s.owner_id
  /\ r.purpose = s.purpose /\ r.currency = s.currency

SamePeriod(r, s) == r.tenant = s.tenant /\ r.code = s.code

SameNaturalKey(r, s) ==
  /\ r.op = s.op
  /\ IF IsOpening(r) THEN SameAccount(r, s) ELSE SamePeriod(r, s)

(* ex_periods__no_overlap, over half-open ranges.                          *)
Overlaps(r, s) ==
  /\ ~IsOpening(r) /\ ~IsOpening(s) /\ r.tenant = s.tenant
  /\ r.starts_at.at < s.ends_at.at /\ s.starts_at.at < r.ends_at.at

(* the_owner_the_type_and_the_schema_disagree_about, in its order.         *)
OwnerMismatched(r) == (r.owner_type = "house") = (r.owner_id # None)
NeedsAnOwner(r, scope) == scope = "per_shard" /\ r.owner_type = "house"

-----------------------------------------------------------------------------
(* Waiting: an index entry made by an uncommitted rival *)

(* Variant: an overlap looked for among committed rows only.               *)
OverlapRivalsUnseen(c) == {}

KeyRivals(c)     == {d \in claims \ {c} : SameKey(d, c)}
NaturalRivals(c) == {d \in entered \ {c} : SameNaturalKey(req[d], req[c])}
OverlapRivals(c) == {d \in entered \ {c} : Overlaps(req[d], req[c])}

KeyCommitted(c)     == \E d \in events : SameKey(d, c)

NaturalCommitted(c) == \E d \in rows : SameNaturalKey(req[d], req[c])
OverlapCommitted(c) == \E d \in rows : Overlaps(req[d], req[c])

At(c, place) == pc[c] = place

WaitsFor(c, d) ==
  \/ At(c, "claiming") /\ d \in KeyRivals(c)
  \/ At(c, "inserting") /\ d \in NaturalRivals(c)
  \/ At(c, "excluding") /\ d \in OverlapRivals(c)

Deadlocked(c) ==
  \E S \in SUBSET Calls : c \in S /\ \A d \in S : \E e \in S : WaitsFor(d, e)

-----------------------------------------------------------------------------
Init ==
  /\ pc = [c \in Calls |-> "idle"]
  /\ req = [c \in Calls |-> None]
  /\ triple = [c \in Calls |-> None]
  /\ claims = {} /\ entered = {} /\ events = {} /\ rows = {}
  /\ chart \in Charts /\ edits = 0
  /\ verdict = [c \in Calls |-> [kind |-> "none", event |-> None, row |-> None]]

Goto(c, place) == pc' = [pc EXCEPT ![c] = place]
Answer(c, kind, event, row) ==
  /\ verdict' = [verdict EXCEPT ![c] = [kind |-> kind, event |-> event, row |-> row]]
  /\ Goto(c, "done")

(* Variant: the key left claimed until the connection is dropped.          *)
RollbackTheRow(c) ==
  /\ claims' = claims /\ entered' = entered \ {c}
  /\ UNCHANGED <<events, rows>>

(* The end of a transaction that did not commit.                           *)
Rollback(c) ==
  /\ claims' = claims \ {c} /\ entered' = entered \ {c}
  /\ UNCHANGED <<events, rows>>

Refuse(c, kind) ==
  /\ Rollback(c) /\ Answer(c, kind, None, None)
  /\ UNCHANGED <<req, triple, chart, edits>>

(* A request arrives; what the domain refuses never reaches the database.  *)
Receive(c) ==
  /\ At(c, "idle")
  /\ \E r \in Menu[c] :
       /\ req' = [req EXCEPT ![c] = r]
       /\ IF WellFormed(r)
            THEN Goto(c, IF IsOpening(r) THEN "reading" ELSE "claiming") /\ UNCHANGED verdict
            ELSE Answer(c, "Invalid", None, None)
  /\ UNCHANGED <<triple, claims, entered, events, rows, chart, edits>>

(* chart_triple_for_purpose: read first, in the opening's transaction.     *)
ReadChart(c) ==
  /\ At(c, "reading")
  /\ LET scope == chart[req[c].purpose] IN
       /\ scope # None /\ ~OwnerMismatched(req[c]) /\ ~NeedsAnOwner(req[c], scope)
       /\ triple' = [triple EXCEPT ![c] = scope]
  /\ Goto(c, "claiming")
  /\ UNCHANGED <<req, claims, entered, events, rows, chart, edits, verdict>>

(* refuse_the_opening_after_rollback, before anything was claimed.         *)
RefuseOpening(c) ==
  /\ At(c, "reading")
  /\ LET scope == chart[req[c].purpose] IN
       \/ scope = None /\ Refuse(c, "AccountTypeUnknown")
       \/ scope # None /\ OwnerMismatched(req[c]) /\ Refuse(c, "AccountOwnerMismatched")
       \/ /\ scope # None /\ ~OwnerMismatched(req[c]) /\ NeedsAnOwner(req[c], scope)
          /\ Refuse(c, "AccountTypeRequiresAnOwner")

(* claimed: INSERT ... ON CONFLICT DO NOTHING.                             *)
Claim(c) ==
  /\ At(c, "claiming")
  /\ KeyRivals(c) = {} /\ ~KeyCommitted(c)
  /\ claims' = claims \cup {c}
  /\ Goto(c, "inserting")
  /\ UNCHANGED <<req, triple, entered, events, rows, chart, edits, verdict>>

(* Variant: the row inserted whether or not the key was claimed.           *)
InsertUnderAHeldKey(c) ==
  /\ At(c, "claiming")
  /\ KeyRivals(c) = {} /\ KeyCommitted(c)
  /\ Goto(c, "inserting")
  /\ UNCHANGED <<req, triple, claims, entered, events, rows, chart, edits, verdict>>

FindKeyHeld(c) ==
  /\ At(c, "claiming")
  /\ KeyRivals(c) = {} /\ KeyCommitted(c)
  /\ Goto(c, "lookup")
  /\ UNCHANGED <<req, triple, claims, entered, events, rows, chart, edits, verdict>>

(* ck_periods__tz_known is judged before any index is asked.               *)
ZoneHolds(c) == IF IsOpening(req[c]) THEN TRUE ELSE req[c].tz \in KnownZones

(* fk_accounts__type and fk_accounts__scope, at the end of the statement.  *)
TripleHolds(c) == IF IsOpening(req[c]) THEN chart[req[c].purpose] = triple[c] ELSE TRUE

MayInsert(c) == At(c, "inserting") /\ ZoneHolds(c) /\ NaturalRivals(c) = {}

(* opened: the account insert, verified by its foreign keys.               *)
OpenAccount(c) ==
  /\ MayInsert(c) /\ ~NaturalCommitted(c)
  /\ IsOpening(req[c]) /\ TripleHolds(c)
  /\ entered' = entered \cup {c}
  /\ Goto(c, "committing")
  /\ UNCHANGED <<req, triple, claims, events, rows, chart, edits, verdict>>

(* defined: the row and its primary key entry; the exclusion is still to   *)
(* be checked.                                                             *)
EnterPeriod(c) ==
  /\ MayInsert(c) /\ ~NaturalCommitted(c)
  /\ ~IsOpening(req[c])
  /\ entered' = entered \cup {c}
  /\ Goto(c, "excluding")
  /\ UNCHANGED <<req, triple, claims, events, rows, chart, edits, verdict>>

DefinePeriod(c) ==
  /\ At(c, "excluding")
  /\ OverlapRivals(c) = {} /\ ~OverlapCommitted(c)
  /\ Goto(c, "committing")
  /\ UNCHANGED <<req, triple, claims, entered, events, rows, chart, edits, verdict>>

(* refusal_from_the_account_race, refusal_from_the_period_constraints: the *)
(* constraint raised, the adapter reads its name, the service rolls back.  *)
RefuseByConstraint(c) ==
  \/ At(c, "inserting") /\ ~ZoneHolds(c) /\ Refuse(c, "PeriodZoneUnknown")
  \/ /\ MayInsert(c) /\ NaturalCommitted(c)
     /\ Refuse(c, IF IsOpening(req[c]) THEN "AccountExists" ELSE "PeriodExists")
  \/ /\ At(c, "excluding") /\ OverlapCommitted(c) /\ Refuse(c, "PeriodOverlaps")

(* A chart edited since it was read: the foreign key raises, and no name   *)
(* is given to it.                                                         *)
FailByForeignKey(c) ==
  /\ MayInsert(c) /\ ~NaturalCommitted(c) /\ ~TripleHolds(c)
  /\ Refuse(c, "Storage")

(* Two overlapping periods wait for one another; PostgreSQL cancels one.   *)
LoseDeadlock(c) == Deadlocked(c) /\ Refuse(c, "Storage")

(* commit_the_opened_account, commit_the_defined_period: the event and the *)
(* register row become durable together.                                   *)
Commit(c) ==
  /\ At(c, "committing")
  /\ events' = events \cup {c} /\ rows' = rows \cup {c}
  /\ claims' = claims \ {c} /\ entered' = entered \ {c}
  /\ Answer(c, "accepted", c, c)
  /\ UNCHANGED <<req, triple, chart, edits>>

(* Variant: the hash left out of the lookup.                               *)
StoredEventsOfAnyBody(c) == {d \in events : SameKey(d, c)}

(* stored_account, stored_period: the event by key and hash, and the       *)
(* register row by the natural key the replayed body names.                *)
StoredEvents(c) == {d \in events : SameKey(d, c) /\ SameBody(req[d], req[c])}
StoredRows(c)   == {d \in rows : SameNaturalKey(req[d], req[c])}

(* replay_the_opened_account_or_refuse_the_key and the period's twin.      *)
ReplayOrRefuse(c) ==
  /\ At(c, "lookup")
  /\ Rollback(c)
  /\ \/ StoredEvents(c) = {} /\ Answer(c, "KeyReused", None, None)
     \/ \E e \in StoredEvents(c) :
          \/ \E r \in StoredRows(c) : Answer(c, "replayed", e, r)
          \/ StoredRows(c) = {} /\ Answer(c, "Internal", e, None)
  /\ UNCHANGED <<req, triple, chart, edits>>

InFlight == {"reading", "claiming", "inserting", "excluding", "committing", "lookup"}

(* The connection, the server or this process fails; a lock wait times     *)
(* out.  What was not committed is discarded.                              *)
Fail(c) == pc[c] \in InFlight /\ Refuse(c, "Storage")

(* The commit is made and its acknowledgement is lost: the driver reports  *)
(* an error, as it would for a commit that never happened.                 *)
LoseAcknowledgement(c) ==
  /\ At(c, "committing")
  /\ events' = events \cup {c} /\ rows' = rows \cup {c}
  /\ claims' = claims \ {c} /\ entered' = entered \ {c}
  /\ Answer(c, "Storage", None, None)
  /\ UNCHANGED <<req, triple, chart, edits>>

(* An operator changes what a purpose is.  The foreign keys refuse it      *)
(* while an account of that purpose is in the register, and an uncommitted *)
(* one holds the chart row's lock.                                         *)
EditChart ==
  /\ edits < MaxChartEdits
  /\ chart' \in Charts \ {chart}
  /\ \A c \in rows \cup entered :
       IsOpening(req[c]) => chart'[req[c].purpose] = chart[req[c].purpose]
  /\ edits' = edits + 1
  /\ UNCHANGED <<pc, req, triple, claims, entered, events, rows, verdict>>

Step(c) ==
  \/ ReadChart(c) \/ RefuseOpening(c)
  \/ Claim(c) \/ FindKeyHeld(c)
  \/ OpenAccount(c) \/ EnterPeriod(c) \/ DefinePeriod(c)
  \/ RefuseByConstraint(c) \/ FailByForeignKey(c) \/ LoseDeadlock(c)
  \/ Commit(c) \/ ReplayOrRefuse(c)

AllDone == (\A c \in Calls : At(c, "done")) /\ UNCHANGED vars

Next ==
  \/ \E c \in Calls : Receive(c) \/ Step(c) \/ Fail(c) \/ LoseAcknowledgement(c)
  \/ EditChart
  \/ AllDone

Spec == Init /\ [][Next]_vars

(* While some request the server took can be driven, one is; PostgreSQL    *)
(* grants a lock whose holder is gone and breaks a deadlock.               *)
FairSpec == Spec /\ WF_vars(\E c \in Calls : Step(c))

-----------------------------------------------------------------------------
(* Properties *)

Refusals == {"Invalid", "AccountTypeUnknown", "AccountOwnerMismatched",
             "AccountTypeRequiresAnOwner", "AccountExists", "PeriodExists",
             "PeriodOverlaps", "PeriodZoneUnknown", "KeyReused"}
Verdicts == [kind  : Refusals \cup {"none", "accepted", "replayed", "Internal", "Storage"},
             event : Calls \cup {None}, row : Calls \cup {None}]

(* Every variable has its type, and a call holds the key and the row its   *)
(* place in the statement says it holds, and nothing before or after it.   *)
TypeOK ==
  /\ pc \in [Calls -> InFlight \cup {"idle", "done"}]
  /\ req \in [Calls -> Requests \cup {None}]
  /\ triple \in [Calls -> Scopes \cup {None}]
  /\ {claims, entered, events, rows} \subseteq SUBSET Calls
  /\ chart \in Charts /\ edits \in Nat
  /\ verdict \in [Calls -> Verdicts]
  /\ claims = {c \in Calls : pc[c] \in {"inserting", "excluding", "committing"}}
  /\ entered = {c \in Calls : pc[c] \in {"excluding", "committing"}}
  /\ \A c \in Calls : At(c, "idle") <=> req[c] = None
  /\ \A c \in events \cup rows : At(c, "done")

(* Whatever races, a tenant has one account per owner, purpose and         *)
(* currency, one period per code, and no two periods that overlap; and     *)
(* each account is of a purpose the chart holds, as the chart holds it,    *)
(* with an owner exactly when it is not the house's, and never nets the    *)
(* counterparties its type splits by.  No refusal and no failure burns a   *)
(* key: an event stands only beside the row it caused, one to a key.       *)
RegistersAreSound ==
  /\ events = rows
  /\ \A c, d \in events : SameKey(c, d) => c = d
  /\ \A c, d \in rows :
       SameNaturalKey(req[c], req[d]) \/ Overlaps(req[c], req[d]) => c = d
  /\ \A c \in rows : IsOpening(req[c]) =>
       /\ triple[c] = chart[req[c].purpose] /\ triple[c] # None
       /\ (req[c].owner_type = "house") = (req[c].owner_id = None)
       /\ triple[c] = "per_shard" => req[c].owner_type # "house"

(* Every answer is true for good.  An acceptance wrote its event and its   *)
(* row; a replay names the event its key and body claimed and the very row *)
(* that event caused; a refusal wrote nothing and names what stands in the *)
(* way; and the state both replay paths call impossible is never met.      *)
AnswersAreTrue ==
  \A c \in Calls : LET v == verdict[c] IN
    /\ v.kind = "accepted" => v.row = c /\ c \in events \cap rows
    /\ v.kind = "replayed" =>
         /\ v.event = v.row /\ v.row \in events \cap rows /\ c \notin events
         /\ SameKey(v.event, c) /\ SameBody(req[v.event], req[c])
    /\ v.kind \in Refusals => c \notin events \cup rows
    /\ v.kind = "KeyReused" =>
         \E d \in events : SameKey(d, c) /\ ~SameBody(req[d], req[c])
    /\ v.kind \in {"AccountExists", "PeriodExists"} =>
         \E d \in rows : SameNaturalKey(req[d], req[c])
    /\ v.kind = "PeriodOverlaps" => \E d \in rows : Overlaps(req[d], req[c])
    /\ v.kind # "Internal"

(* Every request the server took is answered, through key, natural-key and *)
(* overlap waits and the deadlock two overlapping definitions can make.    *)
EveryRequestIsAnswered ==
  \A c \in Calls : pc[c] \in InFlight ~> At(c, "done")
=============================================================================
