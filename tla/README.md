# Verification of OpenLedger

OpenLedger is a double-entry ledger: one Rust process in front of one
PostgreSQL database. Callers post transactions over HTTP under idempotency
keys; the process groups them into batches and writes each batch in one SQL
statement; the database's constraints and row locks make concurrent writes
safe; periods are closed and statements of account are reported from the
journal. This directory holds TLA+ models of that program's core, the TLC runs
that check them on small instances, and TLAPS proofs for every value of the
constants.

Contents: [the system](#the-system), [the modules](#the-modules-and-the-code),
[the runs](#the-runs), [fairness](#fairness), [the proofs](#the-proofs),
[findings](#findings), [what is left out](#what-is-not-modelled),
[the plan](#the-plan).

## The system

| Part | Where | State it keeps | Operations |
| --- | --- | --- | --- |
| Domain and posting math | `crates/ledger/src/domain.rs`, `postings.rs` | none: pure | validate a request, hash its body, expand postings to legs, coalesce them per account, number them back from a counter |
| Writer service | `crates/ledger/src/service.rs` | one database transaction per call | `post`, `post_batch`, `open_account`, `define_period`, `close_period` |
| PostgreSQL adapter | `crates/ledger/postgres/src/repository.rs` | none: SQL | the statements each service call sends, and what each error means |
| Schema | `migrations/*.sql`, `schema/` | events, transactions, entries, balances, accounts, periods, closes, period balances | unique indexes, foreign keys, exclusion constraints, triggers, reconciliation views, report functions |
| Writer pool | `crates/openledger/src/batching.rs` | the submission queue, a `Notify`, the dispatchers' batches | push, drain, post, answer, wake, end the process |
| Reads and reports | `crates/ledger/src/report_service.rs`, `crates/ledger/postgres/src/report_store.rs`, the report functions in `migrations/00004` | a pinned cursor and a chart version per answer | balance, transaction, cursor, account register, account statement, trial balance, balance sheet, income statement |
| Migrator and startup gate | `crates/db/src/migrate.rs`, `verify.rs` | an advisory lock, the migration table | migrate, verify before serving |
| Reconciliation | `crates/db/src/reconcile.rs`, the `recon_*` views | none: read-only | one sweep, an exit code |
| HTTP surface | `crates/api/src` | none | decode, call a port, answer a status, an error type and a replay header |
| Process | `crates/openledger/src/main.rs`, `cli.rs`, `failure.rs` | none | dispatch a command, wire the parts, exit codes |
| Dashboard, site, spikes, parked code | `dashboard`, `site`, `spikes`, `parked` | - | outside the shipped ledger |

**How they interact.** A handler pushes a command on the pool's queue and waits
on a oneshot. A dispatcher drains a batch of one tenant, calls `post_batch`,
and resolves the oneshots. The service opens one database transaction, sends
one data-modifying statement ("statement A"), looks at the rows it answers,
and commits, or rolls back and refuses, or sends a lookup ("statement B") and
replays. Dispatchers never talk to one another: they meet in the database, on
unique indexes (one event per key, one supersession per target) and on
balance-row locks. Opening accounts, defining and closing periods bypass the
queue. Reports read committed rows below a cursor.

**What is hard.** Everything a statement reads comes from the snapshot it took
when it started, but a unique index and a row lock see what committed since.
The data-modifying parts of one statement do not see one another. A claim
precedes the checks that may refuse it, so a refusal is only true because of a
rollback. A batch shares one commit among callers that know nothing of one
another. No timer rescues a lost wakeup. A commit may land without its
acknowledgement. Transaction ids are handed out before they commit, and
reports and closes cut the book by id.

**What makes each part correct**, in one sentence each:

- posting math: deltas are the sums of the legs, exactly or refused; legs are
  numbered without gap or repeat;
- write path: one transaction per key for ever; the same request replays the
  same transaction, a different one is refused; a refusal or a failure writes
  nothing; a target is superseded at most once; the balance cache is the sum
  of the entries;
- batches: the same, member by member, though they share a statement;
- pool: batches are legal for the statement; no submission is lost or carried
  twice; no dispatcher sleeps beside unattended work; every caller is answered
  or the process ends;
- registers: a natural key is taken once, periods do not overlap, an account
  stands on the chart it was opened under, and a refusal burns no key;
- period close: what is swept is swept once, the checkpoint is the position
  at the close, and what the checkpoint misses is disclosed;
- reads: a walk neither skips nor repeats, and a report read again at its
  cursor gives the same amounts, whatever is closed or added to the chart;
- migrator: each migration runs once and is recorded with what ran, and no
  process serves a schema it does not know;
- HTTP surface: the responses to one key, taken together, can be trusted.

## The modules and the code

```
  Postings <-- WritePath <-- TransactionsApi <-- MCWritePath
     ^            |   \
     |            |    LedgerContract           (refined in WritePath_proofs)
     |-- PostingsLoop <-- BatchedWrite <-- MCBatchedWrite
                               \
                                BatchContract   (refined in BatchedWrite_proofs)

  Dispatcher <-- MCDispatcher                   (the pool before the database)
  PeriodClose <-- CloseReports <-- CloseApi <-- MCCloseReports
  Registers   <-- RegistersApi <-- MCRegisters
  Reads       <-- ReadsApi     <-- MCReads
  Deployment  <-- MCDeployment                  (the binary around all of it)

  HttpApi is extended by the four ...Api modules.
```

An arrow points at the module that is extended. Each `MC` module gives the
constants their values. A `..._proofs` module extends the module it is named
after, through its `...Api` module where there is one.

**Postings** (`postings.rs`). The posting math as declarative operators: legs
from postings, sums per account and side, the overflow condition, the distance
of a leg from the end of its account's run, a pending transaction's withheld
movement. **PostingsLoop** is the code's two passes over the legs, as folds in
the order and with the checked additions of the code, and `PlanIsExact` compares
them with the operators, which every other module uses: over small lists in the
runs, over all lists in `PlansCompute`.

**WritePath** (`service.rs` `post`, `repository.rs` `CLAIM_AND_APPEND` and
`STORED_RESULT`). A call is one request. `Begin` plans it, opens the
transaction and takes the snapshot of statement A; `Claim`/`FindKeyHeld` are
its `ON CONFLICT DO NOTHING`; `Insert`/`WithholdInsert` the transaction row
behind the supersede gate; `LoseSupersessionRace` the unique violation on
`uq_txn__one_supersession`; `Upsert` one balance row; then `Commit`,
`RefuseSupersession`, `RefuseUnknownAccount` or `ReplayOrRefuse` end the
transaction, and `Answer` delivers the verdict. `Fail` is a dead connection,
server or process at any point. The parts of statement A are separate steps
because each may wait for a rival. Uncommitted rows are the call's own
(`claims`, `inserted`, `wrote`): they block rivals and no snapshot shows them.
A transaction's id is the call that wrote it.

**LedgerContract** is what the write path promises with no database in sight:
each call is decided by one atomic step against the committed journal.

**BatchedWrite** (`service.rs` `post_batch`, `repository.rs`
`CLAIM_AND_APPEND_BATCH`, `STORED_RESULT_BATCH`). A dispatcher takes a legal
batch, drops the members the plan refuses, and carries the rest in one
statement: the account gate above the claim, the probe for keys held by an
earlier write, the claims in any order, upserts coalesced across members,
entries numbered by a window, one lookup for every member that replays, one
commit or one failure for all. A batch of one takes the single statement.
`BreakTheCycle` is PostgreSQL's deadlock detector.

**BatchContract** is what sharing a statement promises: a batch is settled in one
step, in which its posts land or not, together, and each member is answered for
itself. A member posts exactly when its key is free and its accounts are open at
that moment. ADR-0018 says that a caller must not be able to tell the batched
statement from the single one by what it hears; `IsAnswerOf` states the one
difference there is, which `repository.rs` documents: a member that shares its
batch and names an unknown account reads the keys held where the statement
*began*, so it may be refused the account under a key taken since. Alone, it
never is.

**Dispatcher** (`batching.rs`). The queue (a set ordered by ticket), the scan
that forms a batch, tokio's `Notify` with its single stored permit, the baton a
drain hands on, hang-ups, a panic and the watcher that ends the process. A
push and its notify are two steps; so are an empty drain and the wait.

**PeriodClose** (`service.rs` `close_period`, `repository.rs`
`PERIOD_CLOSE_CONTEXT`, `CLAIM_AND_CLOSE_PERIOD`, `CHECKPOINT_THE_CLOSE`,
`STORED_CLOSE`). A session is one database transaction, a post or a close.
`BeginPost` and `BeginClose` take the snapshot of the writing statement
(`snap`); `RefuseContext` is the two refusals before it. `Claim` waits for an
uncommitted rival of its key, then inserts the event and takes the session's
transaction id: ids follow the claims and not the snapshots, so a close that
waited sweeps an old snapshot under a new id. What it moves (`moved`) is fixed
there: for a close, `SweepLegs` of the temporary accounts' positions in its own
snapshot. `LockRow` takes the balance rows in account order. `Checkpoint` is a
statement of its own and reads what is committed when it runs, so it can hold
what the sweep never saw. `RefuseHeldKey` is `refuse_the_repeated_close` and
the post's replay; `Fail` a dead connection. Amounts are gross, since stored
rows and tails are added side by side.

**CloseReports** (`checkpoint_anchor`, `checkpoint_position`,
`pin_the_cursor`, `recon_close_breaks`, `recon_checkpoint_breaks`) has no steps
of its own: it reads the book in every state of PeriodClose. `Pinned` is the
set of cursors a report may be pinned at, below the oldest transaction still in
progress; `ThroughTheCheckpoint` is the anchor's stored row plus two tails;
`Drifting`, `OutOfOrder` and `Unswept` are what the views report; `Band` is the
bounded check's `width_bucket` arithmetic, and `DriftingByLevel` the whole-prefix
check it replaced.

**Registers** (`accounts.rs`, `periods.rs`, `service.rs` `open_account` and
`define_period`, `repository.rs` `CLAIM_AND_OPEN_ACCOUNT` and
`CLAIM_AND_DEFINE_PERIOD`). A call is one request, of either operation: they
share the namespace of idempotency keys. `Receive` is the domain's validation;
`ReadChart` and `RefuseOpening` the chart read and what it decides; `Claim` and
`FindKeyHeld` the claim; `OpenAccount`, `EnterPeriod` and `DefinePeriod` the
insert of the register row and its constraints; `RefuseByConstraint`,
`FailByForeignKey` and `LoseDeadlock` what PostgreSQL raises and the adapter
makes of it; `ReplayOrRefuse` the lookup. A unique index waits *before* its entry
is made and an exclusion constraint *after*, so `EnterPeriod` and `DefinePeriod`
are two steps and two overlapping definitions may wait for one another.
`EditChart` is an operator's edit of `account_types`, as far as the foreign keys
let it.

**Reads** (`report_service.rs`, `report_store.rs`). A read is one or two
statements, each with a snapshot of its own. A pinned read first reads the
bounds (`PinTheRead`, `RefuseTheBounds`), then runs its statement
(`AnswerAPage`, `AnswerAReport`, `RefuseTheStatement`). `Follow` is the client's
next page, `Reissue` the client sending back the cursor and chart version it was
answered with, `TimeOut` a statement timeout and the same request again. The
writers are what reads can tell of them: `Insert` draws an id and inserts rows,
`End` commits or aborts, in any order. `Report` is what a report function answers:
the trial balance's accounts, or a face's lines in every currency of the tenant's
accounts (`FaceOf`), each with the set of entries it sums; the arithmetic of the
checkpointed sum is CloseReports'. Three things a report reads have no commit
position, and no cursor bounds them: the close rows by which an income statement
leaves closing entries out (`OfAClose`), the lines and the presentation of its
chart version (`LinesOf`, `PresentedBy`), and the accounts (`Scopes`). Writers
insert all three: `CloseRecord` is the row a close writes in the statement that
writes its transaction, and `MayWrite` is `refuse_stale_chart_version`, which reads
its own snapshot and leaves the newest version open.

**Deployment** (`migrate.rs`, `verify.rs`, `reconcile.rs`, `main.rs`,
`failure.rs`). A process is started once, as a migrator, a server or a
reconciliation. A migrator polls the lock, lists what is applied, walks its
embedded versions in order, releases and exits; a transactional migration is
one step with the row that records it, a concurrent one is a build that leaves
an invalid index, its validation, and the record. `Kill` ends a process whose
backend lives on, `EndBackend` ends the backend, perhaps after what it was
running; `LoseSession` is the server's side. The gate is two reads.

**HttpApi** translates a port's outcome to a status, an error `type` and the
replay header, and holds what each OpenAPI annotation documents.
**TransactionsApi**, **RegistersApi**, **CloseApi** and **ReadsApi** put it in
front of a component: their `ResponsesAreTrue` compares what several callers of
one key hear with one another and with the book.

What each module takes as given:

- One tenant in the write modules (every statement is bound to one); the pool
  has several.
- Accounts and their stripe counts do not change while calls run; they are
  frozen by triggers in the schema.
- A request names a supersession target that committed or that never existed:
  a caller learns an id from an answer or a report.
- `effective_at`, the opaque payload and sources are left out: they are part
  of the hashed body, which is a value two requests share or do not.
- In statement A the transaction row precedes the balance upserts. PostgreSQL
  drives data-modifying parts by what reads them; the upserts do not read the
  transaction row, and the entries that read both run last. The order matters
  only to which lock is waited for first.
- Claims of a batch come in any order (`BatchedWrite`): the `INSERT ... SELECT`
  states none.
- Overflow is in PostingsLoop and BatchedWrite (where members overflow
  together); WritePath's amounts are unbounded integers.
- BatchedWrite's `Take` admits any legal batch; that dispatchers form no other
  is Dispatcher's `BatchesAreLegal`, which is proved.
- Members of a batch are ordered by their numbers. Every assignment of
  requests to numbers is an initial state.
- PeriodClose takes the periods defined and the accounts open as given; that no
  two periods end together is the schema's exclusion constraint, which is
  Registers'. A post moves one amount between two accounts; supersession,
  balances and sequence numbers are WritePath's, and so is a commit whose
  acknowledgement is lost.
- WritePath's gate leaves out `g.kind = 'posting'` (`repository.rs:445`): no
  transaction of that model is a period's closing transaction.
- Registers names an event and a register row by the call that wrote it. What is
  outside a byte limit, blank or holds a NUL is one value, "illegal". Instants are
  integers, so the truncation of nanoseconds to the database's microseconds
  (`periods.rs:111`, `:160`) changes none of them.
- Reads takes row-level security as the tenant filter it enforces, and ids drawn
  by uuidv7 as drawn in order. One write transaction stands for each close, whose
  row names it. A line and the contra line its accounts go to when their sign turns
  are one line: which of the two shows is decided by the entries summed. Chart
  versions are seeded one at a time.
- Deployment takes sqlx's `Migrator` (the order of the walk, what it compares)
  and PostgreSQL's advisory locks as external. Its version table exists once it has
  a row: the gate's first read (`verify.rs:73`) asks for the table alone, and an
  empty one fails the second read with the same exit code.
- `width_bucket` counts bounds only in a sorted array. `Band` counts, and every
  property that uses it assumes that the closes are in order.

## The runs

Every property is an INVARIANT or a PROPERTY of the run named.

| Run | Instance | States | Shows |
| --- | --- | --- | --- |
| `write_rivals` | 3 calls over a menu of a pending and a posted original, a resolution, two reversals, a retry, a post to an unknown account; 4 keys, two of them with two bodies; 2 accounts (1 and 2 stripes), 2 affinities | 40 k | `KeysPostOnce` (one transaction per key, no orphaned event), `SupersessionIsSound`; `TheBookAddsUp` (gapless sequences, a true cache, reversals that cancel); `NoWaitCycle`; `ResponsesAreTrue` of all callers of a key together; `ImplementsContract`; `EveryCallIsAnswered` |
| `pool` | 3 callers, 2 tenants, 2 keys, 2 dispatchers, ceiling 2 | 307 k | `BatchesAreLegal`, `SubmissionsAreConserved`, `NoSleeperBesideWork`; `EveryCallerIsAnswered`; `EverySubmissionIsPosted`, unless the process ends |
| `batch_members` | 3 calls, 5 requests, 2 dispatchers, maximum 3; and every list of one or two postings between 3 accounts and of three between 2 (`PlanLists`), at every width up to 3 | 144 k | `KeysPostOnce`, `TheBookAddsUp`, `AnswersAreTrue`, `KeyBeforeAccount` member by member; `ImplementsContract`; `PlansAreExact`: the loops compute the declarative plan below, at and above the overflow boundary |
| `batch_answers` | 4 calls of which two retry the others | 44 k | `EveryMemberIsAnswered`, also through a deadlock |
| `close_races` | 2 closes and 2 posts on one stripe; an undefined period, a currency without earnings, a post under a close's derived key, a post on the rows a close locks | 72 k | `ResponsesAreTrue`; `EverySessionEnds`; `ReportsAreReproducible` |
| `close_books` | 2 closes of 2 periods in either order or overlapping, 2 posts of fees in either period | 214 k | `OneClosePerPeriod`; what a checkpoint misses is reported (`NothingIsLostSilently`); the bounded check is the level check; `ReconciledClosesSweep`; `HonestClosesReconcile` |
| `registers` | 3 clients, 2 tenants, 2 keys, 2 charts of which one may replace the other, 2 period codes over 4 instants | 77 k | `RegistersAreSound`, `ResponsesAreTrue`, `EveryRequestIsAnswered` |
| `deployment` | 2 migrators that differ in one file, a server, a reconciliation; 3 versions, one of them concurrent | 69 k | `MigrationsRunOnce`, `SuccessLasts`, `EveryJobEnds` |
| `reads` | 3 writers that may post, backdate, withhold, close a period, open an account, also in another currency, seed a chart, add to it or write for another tenant; 1 client over 22 requests, with one timeout and one re-issue | 2.0 M | `WalksAreExact`, `AnswersAreReproducible`, `ResponsesAreTrue` |
| `close_overlap` | as `close_books` | - | **violation**: a double sweep that does not drift |
| `batch_retries_deadlock` | as `batch_answers` | - | **violation**: batches carrying the same two keys deadlock |
| `reads_resent` | as `reads` | - | **violation**: a cursor pinned on an empty book is refused later |

`write_rivals`, `batch_members`, `registers` and `reads` check their module's
`TypeOK` as well. `reads` does not check deadlock: the client may be done and the
writers ended.

Why the bounds are enough. Three calls are what the write races need: a
holder, a rival whose snapshot predates the holder's commit, and one that comes
after. Two accounts in opposite orders are the least wait cycle; an account
with two stripes and two affinities puts one account on two rows. Two keys with
two bodies tell replay from reuse; a key shared by an original and a reversal
lets the two kinds meet on one key. In the pool, two dispatchers and a ceiling
of two are what stepping over, a full batch and the baton need: one
dispatcher posting, one asleep, and work of another tenant or past the ceiling
left behind. Amounts of one to three over a maximum of three put the overflow
boundary inside the menu, for one leg, for the sum of legs and for the sum of
members.

For the close, two closes are a rival pair for one key, an overlapping pair of
neighbours, and a pair in the wrong order; two posts are an entry the sweep saw
and one it did not, or an entry in each period. The fees of the two periods
differ in amount, so that most wrong sweeps show in a total; a double sweep can
still cancel an equal amount left unswept, which is why `ReconciledClosesSweep`
speaks of the position at each close and not of what was swept how often. All
sessions share one stripe and wait for one another's rows. That is the narrower
instance: a close on a stripe of its own may stay open across the other's
checkpoint, which here only happens when one of them sweeps nothing. Both
instants a report asks for are period ends: an anchor applies at its own
boundary and not before it.

For the registers, three clients are a holder, a retry and a rival for the same
natural key or an overlapping neighbour; the two charts differ in an owner rule
and in whether a purpose exists, which is what a stale read can be wrong about;
four instants give overlapping, touching and disjoint periods. For the
deployment, one poll before the deadline tells asking again from giving up, and
three versions are one before, the concurrent one and one after, where the two
binaries disagree. For the reads, three writers are two that share an account,
committing in either order, and one whose commit falls between two statements or
pages; one of them writes two entries under one transaction id, so a page can end
between them; pages hold one or two rows. An income statement is read before and
after a period is closed above its cursor, and with a close below it; a face is read
again when its version has gained a line, or the tenant a currency. `FirstId`, `MaxTimeouts`, `MaxChartEdits` and
`Budget` are the bounds on counters; `Wrap` stands for 2^64.

Each property of a passing run is paired with a plausible mistake ("Variant:"
definitions beside the definition they stand in for) under which it fails:
a claim that trusts its snapshot, a gate below the claim that commits, an
upsert without its lock, a lookup without the hash, a baton not handed on.

## Fairness

Only the driving steps are fair, and only as a whole: `FairSpec` is weak fairness
of "some call (batch, session, request) takes its next step". While some task
that took work can go on, one does: the runtime polls it, PostgreSQL grants a
lock whose holder is gone, and resolves deadlocks. No call is preferred to
another, so nothing rests on a scheduler being fair between callers; every call
ends because each takes finitely many steps. In the pool the fair steps are a
notify that follows its push, a caller hearing its answer, a dispatcher's own
steps and the watcher's exit: a statement ends, since the server runs under
statement, lock and idle timeouts. In Deployment the fairness is each process's
own (`WF` of `Step(p)`), since the operating system schedules them; nothing says
that an orphaned backend ever ends, and `EveryJobEnds` holds without it. Nothing
makes a client call, hang up or retry, and nothing makes a machine fail, a
process die or a dispatcher panic. Reads has no liveness property.

## The proofs

| Module | Theorem | Says |
| --- | --- | --- |
| `Postings_proofs` | `PlansCompute`, and lemmas | for every list of postings, either status and every width, the loops of `plan_append` compute the declarative plan: they refuse exactly what overflows, and number an account's legs 0 .. n-1, falling; facts about sums over finite sets |
| `WritePath_proofs` | `TypeCorrectness`, `Invariance`, `CallsPostOnce`, `SupersedersExclude`, `TrueResponses`, `DeadlockFree`, `Refinement`, `BookAddsUp` | types; the inductive invariant; one transaction per key; no refusal or failure leaves a claim; one supersession per target, of a kind that may be superseded; what callers hear is true; no circle of calls that wait for each other; WritePath implements LedgerContract; gapless sequences, balances that are the sums of their posted entries, balanced transactions, reversals that cancel |
| `BatchedWrite_proofs` | `BatchInvariance`, `MembersPostOnce`, `TrueAnswers`, `HeldKeysFirst`, `BatchRefinement`, `RowsInvariance`, `BatchedBookAddsUp`, `TypeCorrect`, `PlansAreAlwaysExact` | the shared statement's inductive invariant; one transaction per key and no orphaned event; each member's answer is true; a held key is heard before an unknown account; BatchedWrite implements BatchContract; the invariant of the balance rows; gapless sequences and true balances for members numbered together; types and the width of every counter; whatever is asked is planned exactly |
| `Dispatcher_proofs` | `PoolInvariance`, `StatementsAreLegal`, `Conservation`, `AttendedWork` | the pool's inductive invariant and its three safety properties |
| `CloseReports_proofs` | `CloseInvariance`, `ClosedOnce`, `TrueResponses`, `ReproducibleReports`, `BooksInvariance`, `BoundedIsLevel`, `NothingLost`, `CleanClosesSweep`, `HonestCloses` | the close's inductive invariant; one close per period and currency; what posts and closes are told is true; a report at a pinned cursor never changes; what sweeps and checkpoints were taken from; the bounded drift check is the level check; nothing is lost silently; what the three checks call clean is swept; honest closes reconcile |
| `Registers_proofs` | `RegistersInvariance`, `RegistersTypes`, `SoundRegisters`, `TrueResponses` | the registers' inductive invariant; types; sound registers; responses that agree with the registers and with one another |
| `Reads_proofs` | `ReadsInvariance`, `TypeCorrectness`, `ExactWalks`, `ReproducibleAnswers`, `TrueResponses` | the reads' inductive invariant; types; walks that skip and repeat nothing; at the same pin the same entries and the same amounts, with new lines of a face at zero; true refusals |
| `Deployment_proofs` | `DeploymentInvariance`, `AppliedOnce`, `LastingSuccess` | the deployment's inductive invariant; each migration runs once; success lasts |

All of them hold for any calls, menus, open accounts, stripe counts and
affinities, any number of dispatchers and any ceiling, any posts, closes,
charges and periods, any clients and charts, any writers, plans, requests and
page sizes, any processes, binaries and migrations, under the named assumptions
of the modules (finitely many calls in the pool and in a batch, finitely many
sessions of the close, finitely many open accounts, periods that end apart,
sentinels distinct from what they stand beside). Three say what the schema or
the API does: a close asks for a currency the book may or may not have earnings
in (`CurrenciesAssumption`), the account a sweep pays into is no temporary one
(`EarningsAssumption`: `chart.sql` files `retained_earnings` under equity, and a
foreign key holds accounts to the category of their purpose), and instants are
numbers (`InstantsAssumption`). `MaxMinorAssumption` and `PlanListsAssumption` say
that a width is a natural number and a list of postings one.

**The write path's invariant.** "One transaction per key" is not inductive: two
uncommitted claims of one key would both commit. The invariant says that among
committed events *and* uncommitted claims no key occurs twice, likewise for
supersession slots among committed and inserted transactions; that every
committed transaction's event is committed with it; that whoever is past its
gate superseded a target that is committed and of the right kind; and that
snapshots show committed transactions only. `Claim` preserves it because it
waits for uncommitted rivals and consults what is committed now. The gate,
which reads a snapshot, contributes the *kind* of the target, which cannot
change, and not its freedom, which can: that comes from the index.

**Responses.** A posted call is the transaction it was told of; a replayed one was
told of the transaction that its own key and body wrote; and whoever heard a
refusal wrote none. Committed rows stay and only a call commits its own, so each
of the three outlives every step.

**Sums.** The prover has no induction over data to offer, but the community
modules define a sum, and a fold, as a function chosen by its equations over all
subsets of a finite set. `Postings_proofs` shows that the equations have one
solution (`SumsExist`, `SumsAgree`; `PassesExist`, `PassesAgree` for folds), by
induction on finite sets with a *set* for the hypothesis, and from there on every
fact about sums is first-order: `SumRemove`, `SumUnion`, `SumRenamed`,
`SumByParts`.

**The loops of `plan_append`.** After k legs the coalescing pass holds whether
some side has overflowed among the first k, and if none has, their deltas: a
side only grows, so an overflow that has happened stays one, whatever follows.
After the legs from m on, the numbering pass holds how many each account has
there and the offset of each; offsets of an account differ and are below the
number of its legs, so they are all of 0 .. n-1.

**The book of the write path.** `TheBookAddsUp` is about committed rows only, and
becomes inductive with what the uncommitted ones stand for: a held row is the
committed counter plus the call's own delta *now* (`RowsAreHeld`), and no two calls
hold one row. The upsert establishes it because it waits for the row's holder and
reads what is committed then; it lasts because only the holder's commit changes
that counter. The commit then adds to a row what its entries add to the sums, and
numbers them from the counter on: `NumberingGrows` extends 1 .. n by the walk-back.
That a reversal cancels comes from `ExpansionBalances` and mirrored sides. For
batches the same holds of a dispatcher and the delta of all its members that
proceed; an entry's number is its place in the order of (member, leg), which
`RowsInv` ties to the claims that reach the commit. The width is kept because the
upsert is of a row that fits.

**No deadlock.** A call waits only for a call ahead of it. Nobody who claims a key
holds anything yet; whoever inserts waits for a supersession slot, whose holder
has come to its balance rows; and whoever is at its balance rows waits for one
whose holder is there too and has only greater accounts left. In a set of calls
that all wait for one another some would be at their balance rows, and the one
with the greatest next account would wait for one whose next account is greater.
`LockedInOrder` is the invariant this needs (what a call has locked is of smaller
accounts than all it has left). It rests on the order in which the upserts visit
the accounts, and on what a call derives from its snapshot not changing while it
locks.

**The refinement.** A call is "open" from `Begin` to its verdict. `Commit` maps
to `Post`, the refusals to the contract's refusals, a replay to `Replay`, a
failure to `Lose`, and everything else stutters. The contract's `RefuseTarget`
is judged on the journal at the moment of the answer while the code judged its
snapshot: the proof needs that a target's kind is fixed when it commits, that
"superseded" is permanent, and that a call names targets committed before it
began.

**The pool's invariant.** Tickets are distinct below the next one, so the scan's
order is total and a batch within the ceiling is one whose *last* member saw
room; a dispatcher holds a batch only while it posts; sleepers rest and no
permit is stored while anyone sleeps; and while the queue has work and some
dispatcher is between its empty drain and its sleep or asleep, somebody is
coming for it *or the permit is stored*. The last disjunct is what the property
lacks: a dispatcher that has drained nothing and not yet waited will be stopped
by the permit.

**The batch's invariant.** A batch carries calls nobody has answered and no other
dispatcher carries, each under its own key. As for the single statement, no key
occurs twice among committed events *and* uncommitted claims. Beyond it: every
claim was asked for by the batch that carries the call, so it goes when that
batch ends; a member that asked and holds no claim asked behind a *commit*, since
it waited for uncommitted rivals; whatever reaches the commit has its accounts,
which the gate sees to when members share a statement, and a batch of one by
being refused (this uses that a set of at most one element has one element); and
what the lookup found for a member is committed and of the same request, or
nothing of the same request is. The answers follow: a member in none of the
other lists holds its claim, and the commit writes it. That a batch which loses
its acknowledgement answers a failure is no exception, since nothing is promised
of a failure. For the contract it is: `BatchRefinement` maps a dispatcher's commit,
acknowledged or not, to one step that settles what it carries. Everything before
the commit is a stutter, so the proof must show that what the *statement* found
still stands when it commits: a member with a claim has its key to itself until
then, one that lost its key lost it to a commit, and the members that reach the
commit with a claim are exactly those that post. Two facts more are needed, that
a carried plan fits and that a call nobody answered says nothing.

**The close's invariant.** As for the write path, no key occurs twice among
committed sessions and uncommitted claims. Beside it: a session that holds a key
is running and has an id, and a committed session is over. The answers add that
the grounds of each are committed: a refusal for a held key names a committed
session with that key, whose body differs or whose close is the same one. It uses
that a post's body and a close's are never the same (`AskedAssumption`).

**The books of closes.** `BooksInv` adds what a close wrote: a close that holds its
key moved exactly the sweep of *its own snapshot* below its id, and its checkpoint
is of the book as it was at some moment *no earlier than the snapshot*. The report
theorems use it and no other history. `BoundedIsLevel` and `NothingLost` argue
along the closes of a currency in order of their ends: while `recon_close_order`
finds nothing, their ids are in the same order, an entry's band is the first close
whose checkpoint contains it, and the checkpoint of a close is the one before it
and the band between them. So the first checkpoint that is not its whole prefix is
one whose predecessor is, and there the bounded comparison fails too.
`HonestCloses` goes by the last close: its sweep saw all that its checkpoint covers,
so every temporary account is at zero in that prefix; what the closes took out is
therefore what was posted into it.

**The registers' invariant.** Keys and natural keys occur once among committed
*and* uncommitted rows, but periods do not overlap only among committed rows and
those past their exclusion check: two that entered and have not been checked may
overlap, and wait for one another. A call past its chart read obeyed the owner
rules of what it read; a row that stands agrees with the chart *now*, which the
foreign keys establish at the insert and keep under edits. That a replay finds
"the very row its event caused" rests on requests of one body naming one natural
key (`BodyNamesTheRow`).

**The reads' invariant.** A cursor that was pinned is at most the xid of every
transaction that still runs, so nothing can commit below it: what is visible
below the cursor is settled. A report is not a function of its pin, so the invariant
says of each answer what outlives a commit (`Stands`): it would be given again with
the same rows, but for lines and currencies that came since, whose amounts are empty.
Closes cost nothing because a close row names the transaction it came with
(`ContentInv`): it appears together with that transaction's entries, which are at or
above every pinned cursor. Chart rows cost no amount because a version presents a type
once and an answered face had every type it summed presented, so a row that comes
later presents accounts with no entries below the cursor; and the line of a
presentation row is there with it (`Carries`), so a line that comes later shows no
account that was presented before. For walks:
the keys of a listing are a strict total order in which a key names one row;
the pages ascend; and of what the walk owes at its cursor, nothing at or before
the page key is missing, which the last page turns into "nothing is missing". A
walk that pins afresh at each page pins no lower than before, and in recorded
order what comes into its sight comes after all it has listed; on the effective
axis it may not, which is why such a walk owes its rows only when it sends its
cursor back. A refused thing was not committed when the read began, since what is
committed stays. Assumed of clients: a walk begins at its start, and a cursor is
not below `-Wrap`; of the rows that stand at the start, that their ids differ.

**The deployment's invariant.** Whoever works holds the lock, so what a migrator
read of the version table is still true but for what it applied itself; it has
applied everything it carries below the version it is at; and the version table
and the schema agree, but for a concurrent version, whose index may be there,
invalid or whole, with nothing recorded. A migrator that will report success is
past its last version, and what a server compared against is never unrecorded.

**A report at a pinned cursor.** Only `Commit` changes the book: every other
step touches what uncommitted sessions will write. The session that commits was
in progress, so its id is not below any cursor pinned before the commit, and
neither its entries nor, as an anchor, its close is visible there. What is left
is that a position depends on `moved` only at the sessions it sums
(`PositionLocal`, proved from the definition of the sum and no arithmetic).
The proof also shows what the guard on the anchor is for: with
`xid[c] <= cursor` alone, a close whose id *is* the cursor would become the
anchor when it commits.

**Only model-checked.** Liveness: `EveryCallIsAnswered`, `EveryMemberIsAnswered`,
`EveryCallerIsAnswered`, `EverySubmissionIsPosted`, `EverySessionEnds`,
`EveryRequestIsAnswered`, `EveryJobEnds`. Fairness and ENABLED are out of the
prover's reach. Every safety property of the passing runs is a theorem.

**Only proved.** The type invariants of Dispatcher and PeriodClose are parts of
proved invariants and no run checks them. The truncation of a batch at a ceiling
above two, and a submission that must ride alone, are in the Dispatcher's
theorems for any menu; the instance of `pool` leaves riding alone out.

## Findings

1. **Batches of retries deadlock** (`batch_retries_deadlock`). The batched
   statement claims its keys with one `INSERT ... SELECT` that states no order.
   Two batches that carry the same two keys may each hold one and wait for the
   other; PostgreSQL aborts one, and all its members hear a storage failure.
   ADR-0018 section 3 describes such keys as the ordinary race that ends in a
   replay. Claiming in member order would not prevent it either, since two
   batches may list the keys oppositely; claiming in key order would. The failed
   members may retry, and `batch_answers` shows that each is answered.
2. **Drift does not catch every overlap** (`close_overlap`). ADR-0024 says of
   closes that overlap in time that the concurrent case is caught by
   `checkpoint_drift`. The paragraph opens with closes "of the same period and
   currency": of those the second never commits, since both claim one key and one
   row of `ledger_period_closes`. Two closes of consecutive periods may overlap; when the
   later one waits on a balance row of the earlier, its sweep is of the snapshot
   before the wait and its checkpoint of one after it. The earnings are swept
   twice, and the checkpoint holds both sweeps and agrees with the entries.
   `close_does_not_sweep` is what reports it: `ReconciledClosesSweep` shows that
   the three checks together call no such book clean.

3. **A pinned cursor may stop working** (`reads_resent`). A report of a book
   without entries answers the horizon as its cursor. When the book's first entry
   then commits at or above that cursor, the cursor lies at or below the book's
   oldest entry, and sending it back is refused `cursor_invalid`.
   `site/content/bookings.md` says that the same numbers come back for ever, and
   ADR-0019 reasons about the upper bound only. Once a book has an entry, a
   cursor stays good, and what a report answers at it stays as far as
   `AnswersAreReproducible` says: amounts and entries, not the rows of a face.

Not findings, but worth knowing:

- A post whose id is below the close's and which commits after the checkpoint
  is in neither the stored rows nor the reader's tails, so the reader alone is
  not the exact aggregate its comment in the schema promises. ADR-0024 records
  the cost; `NothingIsLostSilently` shows that the drift check never misses it.
- A period closed after a later one sweeps again what the later close swept,
  since the sweep has no lower effective bound and the later legs are dated in
  the later period. Nothing refuses it; `recon_close_order` reports it.
- `service.rs` says that the keys of a batch that failed whole were never
  claimed. A commit that lands without its acknowledgement claims all of them;
  retrying is safe all the same, because it replays.
- The body of a 500 says that nothing was committed. A commit whose
  acknowledgement is lost answers a 500 all the same; a retry under the key
  replays. A *close* retried so hears `period_already_closed`, since its replay is
  a refusal: true, and not what a retry of a post hears.
- Of a face the amounts are reproducible and the rows are not, as ADR-0019
  (:103-121) says: an account in a new currency adds lines to every face, and the
  newest chart version still gains lines. `AnswersAreReproducible` asks that they be at
  zero and that no line go or change. Naming a version below the newest does not
  quite freeze it either: a row inserted while its version was the newest, by a
  transaction that commits after the next version was seeded, appears in the
  superseded one, because the trigger reads its own snapshot.
- ADR-0019 (:123-131), `reports.rs` and the API's annotation carve out an income
  statement's amounts "except across a subsequent close of a period it covers",
  since the filter over `ledger_period_closes` is not pinned. The shipped close is
  stricter than that: `CLAIM_AND_CLOSE_PERIOD` inserts the close row in the statement
  that writes the transaction it names (`repository.rs:1282`), so the row commits with
  entries that no earlier cursor reaches, and the amounts stay. That is checked and
  proved here for the service's writes only. A close row written *later* than
  its transaction would move amounts: the grants permit the insert and the test
  fixtures make one, and the mutant of `AnswersAreReproducible`
  (`RecordedAfterwards`) is that writer.
- A walk of the account register lists every account committed before it began;
  one with a lower id that commits after the walk passed it is on no page, since
  ids are drawn at the insert. ADR-0021 claims more.
- An operator's edit of the chart between an opening's read and its insert ends
  in a foreign key violation that no name is given to, hence a 500: nothing is
  written, and a retry is judged by the new chart.
- A concurrent migration whose build or whose migrator dies leaves an index that
  every later migrator stops at until somebody drops it; `MigrationsRunOnce` shows
  that it is never recorded while invalid.
- Dropping the baton breaks `NoSleeperBesideWork` only when two dispatchers can
  be between an empty drain and the wait at once, which the shipped
  current-thread runtime never is.
- A caller naming an unknown account under a key a rival is claiming may hear
  of the account first, which `repository.rs` documents.

## What is not modelled

Listed with reasons in `PROJECT.json`.

- Decoding in the HTTP surface: JSON bodies, query strings, amounts in minor
  units. Only the refusals it makes are there (`BodyRejections`,
  `ParamsRejections`); the rest is a stateless translation.
- Argument parsing and environment variables, beyond "a wrong invocation
  exits with 2".
- The reconciliation views other than those that judge closes: read-only sums,
  of which those of the cache and the sequences assert what `TheBookAddsUp` states.
- The dashboard, the parked card domain, the spikes and the site: outside the
  shipped ledger.
- Row-level security and the roles' grants, beyond the tenant filter.

## The plan

1. Posting math, the single write path, its contract and proofs: done.
2. The pool and the batched write path, with their proofs: done.
3. The close and its readers; reproducibility of a report, proved: done.
4. Registers, with proofs; the HTTP surface composed with each component: done.
5. Reads: pages, pins, chart versions: done. Deployment, with proofs: done.
6. Exactness of walks, reproducible answers and true refusals in Reads, proved:
   done.
7. The arithmetic: sums, the books of both write paths, the books of the closes
   and the loops of `plan_append`, proved: done.
8. A contract for batches, with one step per commit, that BatchedWrite
   implements, proved: done.
