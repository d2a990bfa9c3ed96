--------------------------------- MODULE Reads ---------------------------------
(***************************************************************************)
(* The read path: the eight reads of ReportService over PgReportStore.     *)
(* Every store call is one read-only READ COMMITTED transaction with one   *)
(* data statement, scoped to the tenant that asked, so a call sees what    *)
(* had committed when its statement started.  A pinned read makes two      *)
(* calls: it reads the horizon, the book's oldest commit position and the  *)
(* current chart version, resolves the cursor and the chart version, and   *)
(* then runs the statement at them, while writers keep committing.         *)
(*                                                                         *)
(* The writers are seen as the reads see them: a write transaction draws   *)
(* its xid and its rows' uuids when it inserts and commits or aborts       *)
(* later, in any order.  A client walks a listing page by page, asks again *)
(* after a timeout, and re-issues an answered read at the cursor it was    *)
(* answered with.                                                          *)
(*                                                                         *)
(* A page is a set of rows; the order inside it is the statement's ORDER   *)
(* BY.  An amount is the set of entries it sums.  A chart version is the   *)
(* lines of its two faces and the line it presents each account type on;   *)
(* the newest version can still be added to.                               *)
(***************************************************************************)
EXTENDS Integers, Sequences, FiniteSets

CONSTANTS
  Writers,      \* write transactions
  Plans,        \* what each of them may insert
  Clients,      \* clients of the read path
  Menu,         \* what each client may ask first
  Genesis,      \* accounts committed before anything here runs
  FirstId,      \* bound: uuids count from here
  DefaultPage,  \* 100
  MostPerPage,  \* 1000
  MaxTimeouts,  \* bound: how often the reads of one client time out
  Wrap,         \* 2^64, or any number above every xid drawn
  Garbled,      \* text that is no cursor
  None          \* absent

PinnedReads == {"statement", "trial_balance", "balance_sheet", "income_statement"}
Faces       == {"balance_sheet", "income_statement"}
Listings    == {"statement", "accounts"}

RequestFields ==
  {"read", "tenant", "account", "transaction", "axis", "limit", "from", "to",
   "cursor", "after", "version", "resend"}

(* How a read ends.                                                        *)
Outcomes ==
  {"answered", "invalid_request", "cursor_invalid", "chart_version_unknown",
   "chart_version_incomplete", "account_unknown", "transaction_unknown"}

ASSUME SentinelsAssumption ==
  /\ Garbled # None
  /\ None \notin Writers /\ None \notin Int /\ None \notin Seq(Int) /\ None \notin Outcomes

(* The line of a balance sheet no chart may declare. *)
Earnings == "current_year_earnings"

(* A plan opens an account, inserts the legs of posted or pending          *)
(* transactions, closes a period with the legs of its closing transaction, *)
(* or writes a chart: a new version, or more rows of the newest one.       *)
ASSUME PlansAssumption ==
  \A w \in Writers : \A p \in Plans[w] :
    /\ p.opens = None \/ DOMAIN p.opens = {"type", "currency"}
    /\ p.legs \in Seq([account : Nat, date : Int, posted : BOOLEAN])
    /\ p.closes \in BOOLEAN /\ (p.closes => \A i \in DOMAIN p.legs : p.legs[i].posted)
    /\ p.chart # None =>
         /\ p.chart.fresh \in BOOLEAN
         /\ \A l, k \in p.chart.lines : l.line # Earnings /\ (l.line = k.line => l = k)
         /\ \A q, o \in p.chart.presents : q.type = o.type => q = o

(* The numbers in a page key of the statement.                             *)
Arity(r) == IF r.axis = "recorded" THEN 2 ELSE 3

(* A cursor is no number below those PostgreSQL wraps.  A client begins a  *)
(* walk at its start: a page key it sends first fits no order.             *)
ASSUME MenuAssumption ==
  \A c \in Clients : \A r \in Menu[c] :
    /\ DOMAIN r = RequestFields
    /\ r.read \in PinnedReads \cup {"accounts", "balance", "transaction", "cursor"}
    /\ r.read = "transaction" => r.transaction \in Writers
    /\ r.limit = None \/ r.limit \in Int
    /\ r.cursor \in {None, Garbled} \/ (r.cursor \in Int /\ -Wrap <= r.cursor)
    /\ r.after # None => r.read = "statement" /\ Len(r.after) # Arity(r)
    /\ r.read = "balance_sheet" => r.from = None
    /\ r.resend \in BOOLEAN

ASSUME BoundsAssumption ==
  /\ FirstId \in Nat /\ Wrap \in Nat /\ MaxTimeouts \in Nat
  /\ DefaultPage \in 1..MostPerPage /\ MostPerPage \in Nat

ASSUME GenesisAssumption ==
  /\ \A a \in Genesis : a.id \in 0..(FirstId - 1) /\ a.by = None
  /\ \A a, b \in Genesis : a.id = b.id => a = b

VARIABLES
  status,    \* what became of each write transaction
  xact,      \* the xid each write transaction drew
  nextXact,  \* the next xid of the cluster
  nextId,    \* the next uuidv7
  accounts,  \* ledger_accounts, uncommitted rows included
  entries,   \* ledger_entries, uncommitted rows included
  closes,    \* ledger_period_closes, uncommitted rows included
  charts,    \* chart_versions, likewise
  lines,     \* fs_lines, likewise
  presentation, \* chart_presentation, likewise
  at,        \* where each client's read is
  ask,       \* the request each client sent
  pin,       \* the cursor and chart version its read resolved
  pages,     \* the pages it was answered with
  next,      \* next_after of the last page
  verdict,   \* how its read ended
  began,     \* what had committed when it first asked
  first,     \* the pages it was answered with before it re-issued the read
  timeouts   \* how often its reads timed out

written == <<accounts, entries, closes, charts, lines, presentation>>
writing == <<status, xact, nextXact, nextId, written>>
reading == <<at, ask, pin, pages, next, verdict, began, first, timeouts>>
vars    == <<writing, reading>>

-----------------------------------------------------------------------------
(* What a statement sees *)

Visible(row) == row.by = None \/ status[row.by] = "committed"

VisibleAccounts(tenant) == {a \in accounts : Visible(a) /\ a.book = tenant}
VisibleEntries(tenant)  == {e \in entries : Visible(e) /\ e.book = tenant}

(* chart_versions belongs to the deployment, not to a tenant. *)
ChartVersions == {row.version : row \in {chart \in charts : Visible(chart)}}

IsNewest(v) ==
  IF ChartVersions = {} THEN v = None
                        ELSE v \in ChartVersions /\ \A u \in ChartVersions : u <= v

NewestChart == CHOOSE v \in ChartVersions \cup {None} : IsNewest(v)

XactOf(e) == xact[e.by]

Running == {w \in Writers : status[w] = "running"}

(* report_cursor(): pg_snapshot_xmin, of the whole cluster. *)
IsHorizon(h) ==
  /\ Running = {} => h = nextXact
  /\ Running # {} => \E w \in Running : h = xact[w]
  /\ \A w \in Running : h <= xact[w]

Horizon == CHOOSE h \in 0..nextXact : IsHorizon(h)

(* READ_BOUNDS: whether a cursor admits no entry of a book that has some.  *)
AtOrBelowTheFloor(cursor, tenant) ==
  /\ VisibleEntries(tenant) # {}
  /\ \A e \in VisibleEntries(tenant) : cursor <= XactOf(e)

Below(cursor, tenant) == {e \in VisibleEntries(tenant) : XactOf(e) < cursor}

InRange(e, r) ==
  /\ r.from = None \/ e.date >= r.from
  /\ r.to = None \/ e.date < r.to

-----------------------------------------------------------------------------
(* Orders and page keys *)

LexLess(s, t) ==
  \E i \in 1..Len(s) : s[i] < t[i] /\ \A j \in 1..(i - 1) : s[j] = t[j]

(* Variant: keys that leave rows of one commit tied. *)
KeyWithoutTheId(row, r) ==
  IF r.read = "accounts" THEN <<row.id>>
  ELSE IF r.axis = "recorded" THEN <<XactOf(row), 0>>
  ELSE <<row.date, XactOf(row), 0>>

(* StatementKey, and the register's id. *)
KeyOf(row, r) ==
  IF r.read = "accounts" THEN <<row.id>>
  ELSE IF r.axis = "recorded" THEN <<XactOf(row), row.id>>
  ELSE <<row.date, XactOf(row), row.id>>

Before(row, other, r) == LexLess(KeyOf(row, r), KeyOf(other, r))

(* The keyset's lower bound, strict. *)
Beyond(row, r) == r.after = None \/ LexLess(r.after, KeyOf(row, r))

LimitOf(r) == IF r.limit = None THEN DefaultPage ELSE r.limit

(* ORDER BY and LIMIT: the first rows of a set. *)
IsPage(page, rows, r) ==
  /\ \A row \in page, other \in rows \ page : ~Before(other, row, r)
  /\ page = rows \/ Cardinality(page) = LimitOf(r)
  /\ Cardinality(page) <= LimitOf(r)

(* The key of the last row of a full page, and nothing otherwise. *)
IsNextKey(key, page, r) ==
  IF Cardinality(page) < LimitOf(r)
    THEN key = None
    ELSE \E last \in page :
           /\ \A row \in page : ~Before(last, row, r)
           /\ key = KeyOf(last, r)

-----------------------------------------------------------------------------
(* What a request is refused for *)

(* ReportService::account_statement and ::accounts: on its face, before    *)
(* any statement runs.                                                     *)
OutsideTheWindow(r) == r.limit # None /\ r.limit \notin 1..MostPerPage

RefusedOnItsFace(r) ==
  \/ r.read \in Listings /\ OutsideTheWindow(r)
  \/ /\ r.read = "statement"
     /\ \/ r.axis \notin {"recorded", "effective"}
        \/ r.after # None /\ Len(r.after) # Arity(r)
        \/ r.axis = "recorded" /\ (r.from # None \/ r.to # None)

(* Cursor::parse: a negative number wraps as PostgreSQL wraps it. *)
Parsed(text) == IF text < 0 THEN text + Wrap ELSE text

(* pin_the_cursor_or_refuse_an_implausible_one. *)
CursorRefusal(r) ==
  IF r.cursor = None THEN None
  ELSE IF r.cursor = Garbled THEN "invalid_request"
  ELSE IF Parsed(r.cursor) > Horizon \/ AtOrBelowTheFloor(Parsed(r.cursor), r.tenant)
    THEN "cursor_invalid"
  ELSE None

(* Variant: a fresh horizon whatever was sent. *)
AlwaysTheHorizon(r) == Horizon

PinnedCursor(r) == IF r.cursor = None THEN Horizon ELSE Parsed(r.cursor)

(* name_the_chart_version_or_refuse_an_unseeded_book. *)
NamedVersion(r) ==
  IF r.read \notin Faces THEN None
  ELSE IF r.version # None THEN r.version
  ELSE NewestChart

BoundsRefusal(r) ==
  IF CursorRefusal(r) # None THEN CursorRefusal(r)
  ELSE IF r.read \in Faces /\ r.version = None /\ NewestChart = None
    THEN "chart_version_unknown"
  ELSE None

-----------------------------------------------------------------------------
(* The statements *)

AccountsAsked(r) == {a \in VisibleAccounts(r.tenant) : a.id = r.account}

(* ACCOUNT_STATEMENT_BY_RECORDED and _BY_EFFECTIVE; ACCOUNTS. *)
RowsOf(r, cursor) ==
  IF r.read = "accounts"
    THEN VisibleAccounts(r.tenant)
    ELSE {e \in Below(cursor, r.tenant) : e.account = r.account /\ InRange(e, r)}

RowsLeft(r, cursor) == {row \in RowsOf(r, cursor) : Beyond(row, r)}

(* What the report functions reach: posted entries alone. *)
InScope(r, cursor) == {e \in Below(cursor, r.tenant) : e.posted /\ InRange(e, r)}

(* The close row that names an entry's transaction, looked for among all   *)
(* that are committed: ledger_period_closes has no commit position.        *)
OfAClose(e) == \E close \in closes : Visible(close) /\ close.names = e.by

(* What they sum: an income statement leaves closing entries out. *)
Summed(r, cursor) ==
  {e \in InScope(r, cursor) : r.read = "income_statement" => ~OfAClose(e)}

(* The rows that present an entry's account at a chart version. *)
PresentedBy(e, version) ==
  {q \in presentation : /\ Visible(q) /\ q.version = version
                        /\ \E a \in accounts : a.id = e.account /\ a.type = q.type}

(* A face would drop the entries of an account whose type the version does *)
(* not present; the functions refuse it, closing entries included.         *)
Unpresented(r, cursor, version) ==
  \E e \in InScope(r, cursor) : PresentedBy(e, version) = {}

(* ACCOUNT_BALANCE reads the cache, which means posted; TRANSACTION.       *)
BalanceOf(r) ==
  {e \in VisibleEntries(r.tenant) : e.account = r.account /\ e.posted}

LegsOf(r) == {e \in VisibleEntries(r.tenant) : e.by = r.transaction}

(* Variant: accounts looked for among those that have entries. *)
UnknownUnlessItHasEntries(r) ==
  \/ r.read \in {"statement", "balance"} /\ BalanceOf(r) = {}
  \/ r.read = "transaction" /\ status[r.transaction] # "committed"

Unknown(r) ==
  \/ r.read \in {"statement", "balance"} /\ AccountsAsked(r) = {}
  \/ r.read = "transaction" /\ status[r.transaction] # "committed"

(* COALESCE(p_chart_version, max(version)). *)
Resolved(version) == IF version = None THEN NewestChart ELSE version

FaceRefusal(r, p) ==
  IF r.read \notin Faces THEN None
  ELSE IF Resolved(p.version) \notin ChartVersions THEN "chart_version_unknown"
  ELSE IF Unpresented(r, p.cursor, Resolved(p.version)) THEN "chart_version_incomplete"
  ELSE None

(* The lines a face enumerates, and the currencies of the tenant's         *)
(* accounts: neither is bounded by the cursor.                             *)
LinesOf(face, version) ==
  {l.line : l \in {row \in lines : Visible(row) /\ row.version = version /\ row.face = face}}
    \cup (IF face = "balance_sheet" THEN {Earnings} ELSE {})

Scopes(tenant) == {a.currency : a \in VisibleAccounts(tenant)}

InCurrency(e, currency) == \E a \in accounts : a.id = e.account /\ a.currency = currency

(* Accounts presented on the income statement are the balance sheet's      *)
(* undistributed earnings.                                                 *)
OnLine(e, line, version) ==
  \E q \in PresentedBy(e, version) :
    q.line = line \/ (line = Earnings /\ q.face = "income_statement")

AmountOf(currency, line, r, cursor, version) ==
  {e \in Summed(r, cursor) : InCurrency(e, currency) /\ OnLine(e, line, version)}

(* balance_sheet_at, income_statement_for: every line in every currency. *)
FaceOf(r, cursor, version) ==
  {[currency |-> currency, line |-> line,
    amount |-> AmountOf(currency, line, r, cursor, version)] :
     currency \in Scopes(r.tenant), line \in LinesOf(r.read, version)}

(* trial_balance_at: the accounts that have entries. *)
TrialBalance(r, cursor) ==
  {[account |-> e.account,
    amount |-> {f \in Summed(r, cursor) : f.account = e.account}] : e \in Summed(r, cursor)}

Report(r, p) ==
  IF r.read \in Faces
    THEN [version |-> Resolved(p.version), rows |-> FaceOf(r, p.cursor, Resolved(p.version))]
    ELSE [version |-> None, rows |-> TrialBalance(r, p.cursor)]

-----------------------------------------------------------------------------
(* Writers *)

(* The version a chart's rows are of. *)
VersionOf(chart) ==
  IF ~chart.fresh THEN NewestChart ELSE IF NewestChart = None THEN 1 ELSE NewestChart + 1

Live(row) == status[row.by] \in {"running", "committed"}

(* Versions are seeded one at a time; rows are added to the newest version *)
(* the statement sees, and to none that is superseded.  A version has a    *)
(* line and an account type once, and presents types on lines it has.      *)
MayWrite(chart) ==
  LET v == VersionOf(chart) IN
  /\ IF chart.fresh THEN \A row \in charts : row.by \notin Running ELSE v # None
  /\ \A row \in lines, l \in chart.lines :
       Live(row) /\ row.version = v => row.line # l.line
  /\ \A row \in presentation, q \in chart.presents :
       Live(row) /\ row.version = v => row.type # q.type
  /\ \A q \in chart.presents :
       \/ \E l \in chart.lines : l.line = q.line /\ l.face = q.face
       \/ \E row \in lines : /\ Visible(row) /\ row.version = v
                             /\ row.line = q.line /\ row.face = q.face

WritesChart(w, chart) ==
  LET v == VersionOf(chart) IN
  /\ charts' = charts \cup (IF chart.fresh THEN {[version |-> v, by |-> w]} ELSE {})
  /\ lines' = lines \cup
       {[version |-> v, line |-> l.line, face |-> l.face, by |-> w] : l \in chart.lines}
  /\ presentation' = presentation \cup
       {[version |-> v, type |-> q.type, line |-> q.line, face |-> q.face, by |-> w] :
          q \in chart.presents}

(* Variant: a close is recorded by a transaction after the one it names. *)
RecordedAfterwards(w, p) ==
  IF p.closes THEN {[names |-> v, by |-> w] : v \in {u \in Writers : status[u] = "committed"}}
              ELSE {}

(* The row a close records, in the transaction of its entries. *)
CloseRecord(w, p) == IF p.closes THEN {[names |-> w, by |-> w]} ELSE {}

IsInsert(w, p) ==
  /\ accounts' = accounts \cup
       (IF p.opens = None THEN {}
        ELSE {[id |-> nextId, by |-> w, book |-> p.book, type |-> p.opens.type,
               currency |-> p.opens.currency]})
  /\ entries' = entries \cup
       {[id |-> nextId + i, by |-> w, book |-> p.book, account |-> p.legs[i].account,
         date |-> p.legs[i].date, posted |-> p.legs[i].posted] : i \in DOMAIN p.legs}
  /\ closes' = closes \cup CloseRecord(w, p)
  /\ IF p.chart = None THEN UNCHANGED <<charts, lines, presentation>>
                       ELSE WritesChart(w, p.chart)
  /\ nextId' = nextId + Len(p.legs) + 1

(* The legs reference accounts of the book that are there. *)
Insert(w) ==
  \E p \in Plans[w] :
    /\ status[w] = "idle"
    /\ \A i \in DOMAIN p.legs :
         \E a \in VisibleAccounts(p.book) : a.id = p.legs[i].account
    /\ p.chart # None => MayWrite(p.chart)
    /\ IsInsert(w, p)
    /\ status' = [status EXCEPT ![w] = "running"]
    /\ xact' = [xact EXCEPT ![w] = nextXact]
    /\ nextXact' = nextXact + 1
    /\ UNCHANGED reading

End(w) ==
  \E outcome \in {"committed", "aborted"} :
    /\ status[w] = "running"
    /\ status' = [status EXCEPT ![w] = outcome]
    /\ UNCHANGED <<xact, nextXact, nextId, written, reading>>

-----------------------------------------------------------------------------
(* Reads *)

NoPin == [cursor |-> None, version |-> None]

Ask(c) ==
  \E r \in Menu[c] :
    /\ at[c] = "idle"
    /\ at' = [at EXCEPT ![c] = "asked"]
    /\ ask' = [ask EXCEPT ![c] = r]
    /\ began' = [began EXCEPT ![c] = {None} \cup {w \in Writers : status[w] = "committed"}]
    /\ UNCHANGED <<writing, pin, pages, next, verdict, first, timeouts>>

(* Variant: a refusal that is never answered. *)
FinishSilently(c, outcome) ==
  /\ at' = [at EXCEPT ![c] = "done"]
  /\ UNCHANGED verdict

Finish(c, outcome) ==
  /\ at' = [at EXCEPT ![c] = "done"]
  /\ verdict' = [verdict EXCEPT ![c] = outcome]

RefuseOnItsFace(c) ==
  /\ at[c] = "asked"
  /\ RefusedOnItsFace(ask[c])
  /\ Finish(c, "invalid_request")
  /\ UNCHANGED <<writing, ask, pin, pages, next, began, first, timeouts>>

(* bounds_for_the_book, and what is decided from it. *)
RefuseTheBounds(c) ==
  /\ at[c] = "asked"
  /\ ask[c].read \in PinnedReads
  /\ ~RefusedOnItsFace(ask[c])
  /\ BoundsRefusal(ask[c]) # None
  /\ Finish(c, BoundsRefusal(ask[c]))
  /\ UNCHANGED <<writing, ask, pin, pages, next, began, first, timeouts>>

PinTheRead(c) ==
  /\ at[c] = "asked"
  /\ ask[c].read \in PinnedReads
  /\ ~RefusedOnItsFace(ask[c])
  /\ BoundsRefusal(ask[c]) = None
  /\ at' = [at EXCEPT ![c] = "pinned"]
  /\ pin' = [pin EXCEPT ![c] = [cursor |-> PinnedCursor(ask[c]),
                                version |-> NamedVersion(ask[c])]]
  /\ UNCHANGED <<writing, ask, pages, next, verdict, began, first, timeouts>>

AtItsStatement(c) ==
  \/ at[c] = "pinned"
  \/ at[c] = "asked" /\ ask[c].read \notin PinnedReads /\ ~RefusedOnItsFace(ask[c])

RefuseTheStatement(c) ==
  /\ AtItsStatement(c)
  /\ \/ /\ Unknown(ask[c])
        /\ Finish(c, IF ask[c].read = "transaction" THEN "transaction_unknown"
                                                    ELSE "account_unknown")
     \/ /\ FaceRefusal(ask[c], pin[c]) # None
        /\ Finish(c, FaceRefusal(ask[c], pin[c]))
  /\ UNCHANGED <<writing, ask, pin, pages, next, began, first, timeouts>>

(* One page of a listing.  A client follows a full page, sending the       *)
(* cursor it was answered with back or leaving it out.                     *)
AnswerAPage(c) ==
  /\ AtItsStatement(c)
  /\ ask[c].read \in Listings
  /\ ~Unknown(ask[c])
  /\ LET rows == RowsLeft(ask[c], pin[c].cursor) IN
     \E page \in SUBSET rows :
       /\ IsPage(page, rows, ask[c])
       /\ pages' = [pages EXCEPT ![c] = Append(@, page)]
       /\ \E key \in {None} \cup {KeyOf(row, ask[c]) : row \in page} :
            /\ IsNextKey(key, page, ask[c])
            /\ next' = [next EXCEPT ![c] = key]
            /\ IF key = None
                 THEN Finish(c, "answered")
                 ELSE at' = [at EXCEPT ![c] = "answered"] /\ UNCHANGED verdict
  /\ UNCHANGED <<writing, ask, pin, began, first, timeouts>>

Follow(c) ==
  /\ at[c] = "answered"
  /\ at' = [at EXCEPT ![c] = "asked"]
  /\ ask' = [ask EXCEPT ![c].after = next[c],
                        ![c].cursor = IF ask[c].resend THEN pin[c].cursor ELSE None]
  /\ UNCHANGED <<writing, pin, pages, next, verdict, began, first, timeouts>>

(* A report, a balance, a transaction. *)
AnswerAReport(c) ==
  /\ AtItsStatement(c)
  /\ ask[c].read \in PinnedReads \ {"statement"}
  /\ FaceRefusal(ask[c], pin[c]) = None
  /\ pages' = [pages EXCEPT ![c] = Append(@, Report(ask[c], pin[c]))]
  /\ Finish(c, "answered")
  /\ UNCHANGED <<writing, ask, pin, next, began, first, timeouts>>

AnswerNow(c) ==
  /\ AtItsStatement(c)
  /\ ask[c].read \in {"balance", "transaction"}
  /\ ~Unknown(ask[c])
  /\ pages' = [pages EXCEPT ![c] = Append(@, IF ask[c].read = "balance" THEN BalanceOf(ask[c])
                                                                        ELSE LegsOf(ask[c]))]
  /\ Finish(c, "answered")
  /\ UNCHANGED <<writing, ask, pin, next, began, first, timeouts>>

AnswerTheCursor(c) ==
  /\ AtItsStatement(c)
  /\ ask[c].read = "cursor"
  /\ pin' = [pin EXCEPT ![c].cursor = Horizon]
  /\ Finish(c, "answered")
  /\ UNCHANGED <<writing, ask, pages, next, began, first, timeouts>>

(* Either statement may run into statement_timeout; the client asks the    *)
(* same again.                                                             *)
TimeOut(c) ==
  /\ at[c] = "pinned" \/ (at[c] = "asked" /\ ~RefusedOnItsFace(ask[c]))
  /\ timeouts[c] < MaxTimeouts
  /\ timeouts' = [timeouts EXCEPT ![c] = @ + 1]
  /\ at' = [at EXCEPT ![c] = "asked"]
  /\ UNCHANGED <<writing, ask, pin, pages, next, verdict, began, first>>

(* A client sends the cursor and chart version it was answered with back,  *)
(* once; the horizon it asked for alone pins a report.                     *)
Reissue(c) ==
  /\ at[c] = "done" /\ verdict[c] = "answered" /\ first[c] = None
  /\ ask[c].read \in PinnedReads \cup {"cursor"}
  /\ at' = [at EXCEPT ![c] = "asked"]
  /\ ask' = [ask EXCEPT ![c].cursor = pin[c].cursor, ![c].version = pin[c].version,
                        ![c].after = None,
                        ![c].read = IF @ = "cursor" THEN "trial_balance" ELSE @,
                        ![c].resend = TRUE]
  /\ first' = [first EXCEPT ![c] = pages[c]]
  /\ pages' = [pages EXCEPT ![c] = <<>>]
  /\ verdict' = [verdict EXCEPT ![c] = None]
  /\ UNCHANGED <<writing, pin, next, began, timeouts>>

-----------------------------------------------------------------------------
Init ==
  /\ status = [w \in Writers |-> "idle"]
  /\ xact = [w \in Writers |-> 0]
  /\ nextXact = 3
  /\ nextId = FirstId
  /\ accounts = Genesis
  /\ entries = {}
  /\ closes = {} /\ charts = {} /\ lines = {} /\ presentation = {}
  /\ at = [c \in Clients |-> "idle"]
  /\ ask = [c \in Clients |-> None]
  /\ pin = [c \in Clients |-> NoPin]
  /\ pages = [c \in Clients |-> <<>>]
  /\ next = [c \in Clients |-> None]
  /\ verdict = [c \in Clients |-> None]
  /\ began = [c \in Clients |-> None]
  /\ first = [c \in Clients |-> None]
  /\ timeouts = [c \in Clients |-> 0]

Read(c) ==
  \/ Ask(c) \/ RefuseOnItsFace(c) \/ RefuseTheBounds(c) \/ PinTheRead(c)
  \/ RefuseTheStatement(c) \/ AnswerAPage(c) \/ Follow(c) \/ AnswerAReport(c)
  \/ AnswerNow(c) \/ AnswerTheCursor(c) \/ TimeOut(c) \/ Reissue(c)

Next ==
  \/ \E w \in Writers : Insert(w) \/ End(w)
  \/ \E c \in Clients : Read(c)

Spec == Init /\ [][Next]_vars

-----------------------------------------------------------------------------
(* Properties *)

Answered(c) == at[c] = "done" /\ verdict[c] = "answered"
Listed(c)   == UNION {pages[c][i] : i \in DOMAIN pages[c]}

InOrder(c) ==
  \A i, j \in DOMAIN pages[c] :
    i < j => \A row \in pages[c][i], other \in pages[c][j] : Before(row, other, ask[c])

(* Every xid was drawn once, below the cluster's next one, by a transaction *)
(* that inserted; rows belong to such transactions, and no two entries      *)
(* share a uuid; a client past its first step has a request it may send.    *)
TypeOK ==
  /\ status \in [Writers -> {"idle", "running", "committed", "aborted"}]
  /\ xact \in [Writers -> Nat] /\ nextXact \in Nat
  /\ \A w \in Writers : status[w] # "idle" => xact[w] \in 3..(nextXact - 1)
  /\ \A v, w \in Writers : status[v] # "idle" /\ xact[v] = xact[w] => v = w
  /\ nextId \in Nat
  /\ \A row \in entries : row.by \in Writers /\ status[row.by] # "idle" /\ row.id < nextId
  /\ \A row \in accounts \cup closes \cup charts \cup lines \cup presentation :
       row.by = None \/ (row.by \in Writers /\ status[row.by] # "idle")
  /\ \A row, other \in entries : row.id = other.id => row = other
  /\ \A c \in Clients :
       /\ at[c] \in {"idle", "asked", "pinned", "answered", "done"}
       /\ at[c] # "idle" => DOMAIN ask[c] = RequestFields /\ began[c] \subseteq Writers \cup {None}
       /\ verdict[c] \in Outcomes \cup {None} /\ (verdict[c] # None <=> at[c] = "done")
       /\ timeouts[c] \in 0..MaxTimeouts

(* The pages of a walk through an account's statement follow each other in *)
(* its axis's order and no entry is listed twice; and a finished walk that *)
(* sends its pinned cursor back, or goes in recorded order, lists every    *)
(* entry of the account below its last cursor, whatever committed between  *)
(* its pages and whatever commits later.                                   *)
StatementIsListed ==
  \A c \in Clients :
    at[c] # "idle" /\ ask[c].read = "statement" =>
      /\ InOrder(c)
      /\ Answered(c) /\ (ask[c].resend \/ ask[c].axis = "recorded") =>
           Listed(c) = RowsOf(ask[c], pin[c].cursor)

(* A walk of the account register lists committed accounts of the tenant   *)
(* alone, in the order of their ids and once each, and when it is finished *)
(* it has listed every account committed before it began.                  *)
RegisterIsListed ==
  \A c \in Clients :
    at[c] # "idle" /\ ask[c].read = "accounts" =>
      /\ InOrder(c)
      /\ \A a \in Listed(c) : a.book = ask[c].tenant /\ Visible(a)
      /\ Answered(c) => {a \in VisibleAccounts(ask[c].tenant) : a.by \in began[c]}
                            \subseteq Listed(c)

(* Every walk is exact: a statement's and the register's.                  *)
WalksAreExact == StatementIsListed /\ RegisterIsListed

(* The rows of a face read again: those it had, with their amounts, and    *)
(* others only at zero.                                                    *)
SameAmounts(old, new) ==
  /\ old.version = new.version
  /\ old.rows \subseteq new.rows
  /\ \A row \in new.rows \ old.rows : row.amount = {}

(* A read answered again at the cursor and chart version it was answered   *)
(* with lists the entries and gives the amounts it gave before, whatever   *)
(* commits between.  A face may have more lines than before, as ADR-0019   *)
(* says of its row set (decisions/0019:103-121): an account in a new       *)
(* currency, or a line added to the newest chart version, adds rows, and   *)
(* each sums nothing.  An income statement's amounts survive even the      *)
(* close of a period it covers, which ADR-0019:123-131 does not promise:   *)
(* its filter reads close rows at no cursor (00004:1263), but a close      *)
(* commits its row with its entries.                                       *)
AnswersAreReproducible ==
  \A c \in Clients :
    Answered(c) /\ first[c] \notin {None, <<>>} =>
      /\ ask[c].read = "statement" /\ (ask[c].axis = "recorded" \/ Len(first[c]) = 1) =>
           Listed(c) = UNION {first[c][i] : i \in DOMAIN first[c]}
      /\ ask[c].read = "trial_balance" => pages[c] = first[c]
      /\ ask[c].read \in Faces => SameAmounts(first[c][1], pages[c][1])

(* An account, transaction or chart version that was committed when the    *)
(* client first asked is never answered as unknown.                        *)
RefusalsAreTrue ==
  \A c \in Clients :
    at[c] = "done" =>
      /\ verdict[c] = "account_unknown" =>
           \A a \in VisibleAccounts(ask[c].tenant) :
             a.id = ask[c].account => a.by \notin began[c]
      /\ verdict[c] = "transaction_unknown" => ask[c].transaction \notin began[c]
      /\ verdict[c] = "chart_version_unknown" =>
           \A chart \in charts :
             ask[c].version \in {None, chart.version} => chart.by \notin began[c]

(* "Every report answers a pinned_cursor; send it back and you get the     *)
(* same numbers forever" (site/content/bookings.md:300): a cursor a read   *)
(* was answered with is not refused when it is sent back.                  *)
PinnedCursorsAreUsable ==
  \A c \in Clients : first[c] # None => verdict[c] # "cursor_invalid"

=============================================================================
