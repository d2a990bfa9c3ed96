---------------------------- MODULE CloseReports ----------------------------
(***************************************************************************)
(* What is read from a book with closes: the balance sheet's position      *)
(* through the checkpoint (checkpoint_anchor, checkpoint_position), and    *)
(* the two reconciliation views that judge closes (recon_close_breaks,     *)
(* recon_checkpoint_breaks), over every state PeriodClose reaches.         *)
(***************************************************************************)
EXTENDS PeriodClose

CONSTANT Instants  \* the as-of instants asked for

ASSUME InstantsAssumption == Instants \subseteq Int

(* schema/chart.sql has retained_earnings under equity, and                *)
(* fk_accounts__type holds every account to the category of its purpose.   *)
ASSUME EarningsAssumption == \A u \in DOMAIN Earnings : Earnings[u] \notin Temporary

Currencies == {Currency[a] : a \in Accounts}

ClosesOf(u) == {c \in committed \cap Closes : ask[c].currency = u}
EndOf(c) == EndsAt[ask[c].period]

(* All a report reads.                                                     *)
Book == [s \in committed |-> <<ask[s], xid[s], moved[s], stored[s]>>]

-----------------------------------------------------------------------------
(* The report path *)

InProgress == {s \in Sessions : pc[s] \in Running /\ xid[s] # 0}

(* report_cursor is pg_snapshot_xmin, the oldest id in progress.           *)
AtMostTheHorizon(x) == x <= nextXid /\ \A s \in InProgress : x <= xid[s]

(* pin_the_cursor: at most the horizon, and above the oldest entry.        *)
Pinned ==
  {x \in 1..nextXid : /\ AtMostTheHorizon(x)
                      /\ \E s \in committed : moved[s] # Nothing /\ xid[s] < x}

FromInception(a, asof, cursor) ==
  Position(a, {s \in committed : EffectiveAt(s) < asof /\ xid[s] < cursor})

(* Variant: an anchor that is visible before its close is.                 *)
VisibleByItsCursor(c, cursor) == xid[c] <= cursor

(* The stored cursor of a close is its own id.                             *)
Visible(c, cursor) == xid[c] <= cursor /\ xid[c] < cursor

(* checkpoint_anchor: the latest close ended and visible, per currency.    *)
Anchors(u, asof, cursor) ==
  LET seen == {c \in ClosesOf(u) : EndOf(c) <= asof /\ Visible(c, cursor)} IN
  {c \in seen : \A d \in seen : EndOf(d) <= EndOf(c)}

(* Variant: the closing legs, once more.                                   *)
TailBehindWithTheClose(c, cursor) ==
  {s \in committed : EffectiveAt(s) < EndOf(c) /\ xid[c] <= xid[s] /\ xid[s] < cursor}

(* tail B: the backdated arrivals, the close's own transaction aside.      *)
TailBehind(c, cursor) ==
  {s \in committed : /\ EffectiveAt(s) < EndOf(c)
                     /\ xid[c] <= xid[s] /\ xid[s] < cursor
                     /\ s # c}

(* tail A: effective at or after the boundary.                             *)
TailAhead(c, asof, cursor) ==
  {s \in committed : EndOf(c) <= EffectiveAt(s) /\ EffectiveAt(s) < asof /\ xid[s] < cursor}

(* There is at most one: no two periods end together.                      *)
AnyOf(S) == CHOOSE c \in S : TRUE

StoredFor(c, a) == IF a \in DOMAIN stored[c] THEN stored[c][a] ELSE Gross(0, 0)

Plus(x, y) == Gross(x.input + y.input, x.output + y.output)

(* checkpoint_position.                                                    *)
ThroughTheCheckpoint(a, asof, cursor) ==
  LET anchors == Anchors(Currency[a], asof, cursor) IN
  IF anchors = {}
    THEN FromInception(a, asof, cursor)
    ELSE LET c == AnyOf(anchors) IN
         Plus(StoredFor(c, a), Plus(Position(a, TailBehind(c, cursor)),
                                    Position(a, TailAhead(c, asof, cursor))))

-----------------------------------------------------------------------------
(* The reconciliation of closes *)

(* The closes of a currency in the order of their period ends.             *)
IndexOf(c) == Cardinality({d \in ClosesOf(ask[c].currency) : EndOf(d) <= EndOf(c)})
Previous(c) == {d \in ClosesOf(ask[c].currency) : IndexOf(d) + 1 = IndexOf(c)}

(* recon_close_order: cursors follow the period ends, and each clears the  *)
(* transaction of the close before.                                        *)
OutOfOrder == {c \in committed \cap Closes : \E d \in Previous(c) : xid[c] <= xid[d]}

(* Variant: a view that looks for accounts nobody swept at all.            *)
UntouchedBySweep ==
  {c \in committed \cap Closes :
     \E a \in Temporary \cap DOMAIN stored[c] :
       /\ DebitPositive(stored[c][a]) # 0
       /\ stored[c][a].input = 0 \/ stored[c][a].output = 0}

(* close_does_not_sweep.                                                   *)
Unswept ==
  {c \in committed \cap Closes :
     \E a \in Temporary \cap DOMAIN stored[c] : DebitPositive(stored[c][a]) # 0}

(* Variant: no identity term.                                              *)
BandByCursor(s, u) ==
  LET closes == ClosesOf(u)
      byEnd == Cardinality({c \in closes : EndOf(c) <= EffectiveAt(s)}) + 1
      byCursor == Cardinality({c \in closes : xid[c] <= xid[s]}) + 1
  IN IF byEnd < byCursor THEN byCursor ELSE byEnd

(* recon_checkpoint_breaks bands every entry to the first close whose      *)
(* checkpoint contains it: by the later of the two axes, a closing         *)
(* transaction by its identity at the latest.  An entry beyond the last    *)
(* close has no band.  width_bucket counts the bounds at or below its      *)
(* operand only in a sorted array: this is the view while OutOfOrder is    *)
(* empty, and nothing below speaks of it otherwise.                        *)
Band(s, u) ==
  LET closes == ClosesOf(u)
      byEnd == Cardinality({c \in closes : EndOf(c) <= EffectiveAt(s)}) + 1
      byCursor == Cardinality({c \in closes : xid[c] <= xid[s]}) + 1
      later == IF byEnd < byCursor THEN byCursor ELSE byEnd
  IN IF s \in closes /\ IndexOf(s) < later THEN IndexOf(s) ELSE later

Arrivals(c) == {s \in committed : Band(s, ask[c].currency) = IndexOf(c)}

StoredBefore(c, a) ==
  IF Previous(c) = {} THEN Gross(0, 0) ELSE StoredFor(AnyOf(Previous(c)), a)

(* The bounded check: the difference of consecutive checkpoints against    *)
(* the arrivals between them, and no row missing once there is one.        *)
Drifting ==
  {c \in committed \cap Closes :
     \E a \in AccountsIn(ask[c].currency) :
        \/ StoredFor(c, a) # Plus(StoredBefore(c, a), Position(a, Arrivals(c)))
        \/ /\ a \notin DOMAIN stored[c]
           /\ \E d \in Previous(c) : a \in DOMAIN stored[d]}

(* The level form it replaced: every checkpoint against the whole prefix.  *)
DriftingByLevel ==
  {c \in committed \cap Closes :
     \E a \in AccountsIn(ask[c].currency) : StoredFor(c, a) # Position(a, Admitted(c, committed))}

InOrder == OutOfOrder = {}
Reconciled == OutOfOrder = {} /\ Unswept = {} /\ Drifting = {}

-----------------------------------------------------------------------------
(* Properties *)

(* A report read again at a cursor it was pinned at is the same report,    *)
(* whatever commits, closes or fails in between (ADR-0011 section 1, the   *)
(* guard on the anchor's own transaction).                                 *)
ReportsAreReproducible ==
  [][Book' # Book =>
       \A a \in Accounts, asof \in Instants : \A cursor \in Pinned :
         ThroughTheCheckpoint(a, asof, cursor)' = ThroughTheCheckpoint(a, asof, cursor)]_vars

(* Where a report has an anchor, the reader through the checkpoint is the  *)
(* from-inception aggregate, exactly, as the comment on it says.           *)
ReaderIsExact ==
  \A a \in Accounts, asof \in Instants : \A cursor \in Pinned :
    Anchors(Currency[a], asof, cursor) # {} =>
      ThroughTheCheckpoint(a, asof, cursor) = FromInception(a, asof, cursor)

(* What a post below the close's cursor can lose in the checkpoint is      *)
(* never lost silently: on a book whose closes reconcile, the position     *)
(* read through the checkpoint is the one read from inception.             *)
NothingIsLostSilently == InOrder /\ Drifting = {} => ReaderIsExact

(* While the closes are in order, the bounded check and the level check it *)
(* replaced agree: no false alarm and no miss.                             *)
BoundedCheckIsTheLevelCheck == InOrder => (Drifting = {} <=> DriftingByLevel = {})

(* An account's earnings leave it once: what the closes took out of it is  *)
(* what was posted to it in the entries they swept.                        *)
EarningsAreSweptOnce ==
  \A a \in Temporary :
    LET closes == ClosesOf(Currency[a]) IN
    DebitPositive(Position(a, closes))
      = -DebitPositive(Position(a, (UNION {Swept(c, xid[c]) : c \in closes}) \cap Posts))

(* A close nobody overlapped: its sweep saw every entry that committed     *)
(* below its cursor, and the closes of all earlier periods.                *)
Honest(c) ==
  /\ \A s \in committed : xid[s] < xid[c] => s \in snap[c]
  /\ \A d \in ClosesOf(ask[c].currency) : EndOf(d) < EndOf(c) => d \in snap[c]

(* Closes made one after another, in period order, with no writer open     *)
(* below them, sweep each earning once and reconcile, also when entries    *)
(* are backdated into the closed periods afterwards.                       *)
HonestClosesReconcile ==
  (\A c \in committed \cap Closes : Honest(c)) => EarningsAreSweptOnce /\ Reconciled

(* Closes that overlap or run out of order can sweep an account twice or   *)
(* leave earnings behind.  A book the three checks call clean is one where *)
(* nothing of the kind shows: at each close, every temporary account       *)
(* stands at zero in the whole prefix the checkpoint claims to cover.      *)
ReconciledClosesSweep ==
  Reconciled =>
    \A c \in committed \cap Closes :
      \A a \in Temporary \cap AccountsIn(ask[c].currency) :
        DebitPositive(Position(a, Admitted(c, committed))) = 0

(* ADR-0024, of closes that overlap in time: the concurrent case is caught *)
(* by checkpoint_drift.                                                    *)
OverlapIsCaughtByDrift == InOrder /\ Drifting = {} => EarningsAreSweptOnce
=============================================================================
